----------------------------- MODULE OndaProofs -----------------------------
(***************************************************************************)
(* Proofs about Onda, for integers of any width and any number of clients. *)
(***************************************************************************)
EXTENDS Onda, OndaWaveProofs

\* The composition only adds to the wave generator: whatever the clients do, its
\* interrupt routines and main() take the steps of OndaWave, so that what is
\* proved of that module holds here.
THEOREM Composing == OndaSpec => Spec
<1>1. OndaInit => Init
  BY DEF OndaInit
<1>2. [OndaNext]_all => [Next]_vars
  <2> SUFFICES ASSUME [OndaNext]_all PROVE [Next]_vars
    OBVIOUS
  <2>1. CASE Press \/ GpioElse
    BY <2>1 DEF Press, GpioElse, Next, Gpio
  <2>2. CASE TimerRuns \/ Delivered \/ Happens
    BY <2>2 DEF TimerRuns, Delivered, Happens, Next
  <2>3. CASE StartUp \/ ReceiveFails
    BY <2>3 DEF StartUp, ReceiveFails, Next, Main
  <2>4. ASSUME NEW c \in Clients, Client(c) \/ Serve(c) PROVE UNCHANGED vars
    BY <2>4 DEF Client, Open, ReadForm, Close, SendFails, Serve, Connect, SetInterval,
                TellCount, TellInterval, TakePulse
  <2>5. CASE UNCHANGED all
    BY <2>5 DEF all
  <2> QED BY <2>1, <2>2, <2>3, <2>4, <2>5 DEF OndaNext
<1> QED BY <1>1, <1>2, PTL DEF OndaSpec, Spec

(***************************************************************************)
(* Arithmetic of the load value.                                           *)
(***************************************************************************)

\* A number smaller than the modulus is its own remainder.
LEMMA SmallRemainder ==
    ASSUME NEW m \in Nat \ {0}, NEW x \in 0 .. m - 1 PROVE x % m = x
  OBVIOUS

\* A product that fits is not changed by the machine.
LEMMA FitsUnwrapped == ASSUME NEW x \in 0 .. Half - 1 PROVE Wrap(x) = x
<1>1. Half \in Nat \ {0} /\ 2 * Half \in Nat \ {0} /\ x + Half \in 0 .. 2 * Half - 1
  BY OndaAssumption DEF OndaAssumption
<1>2. (x + Half) % (2 * Half) = x + Half
  BY <1>1, SmallRemainder
<1> QED BY <1>1, <1>2 DEF Wrap

\* A remainder is smaller than the modulus.
LEMMA RemainderInRange ==
    ASSUME NEW m \in Nat \ {0}, NEW x \in Int PROVE x % m \in 0 .. m - 1
  OBVIOUS

\* What is wrapped is a machine integer.
LEMMA Wrapped == ASSUME NEW x \in Int PROVE Wrap(x) \in Word /\ Wrap(x) \in Int
<1>1. Half \in Nat \ {0} /\ 2 * Half \in Nat \ {0} /\ x + Half \in Int
  BY OndaAssumption
<1>2. (x + Half) % (2 * Half) \in 0 .. 2 * Half - 1
  BY <1>1, RemainderInRange
<1> QED BY <1>1, <1>2 DEF Wrap, Word

\* So is what the timer is loaded with.
LEMMA LoadInRange == ASSUME NEW i \in Int PROVE LoadOf(i) \in 0 .. 2 * Half - 1
<1>1. Half \in Nat \ {0} /\ 2 * Half \in Nat \ {0}
  BY OndaAssumption
<1>2. Wrap(i * 1000) \in Int
  BY Wrapped
<1>3. Quot(Wrap(i * 1000)) \in Int
  BY <1>2 DEF Quot
<1>4. 2 * Half - 1 - Quot(Wrap(i * 1000)) \in Int
  BY <1>1, <1>3
<1> QED BY <1>1, <1>4, RemainderInRange DEF LoadOf

\* The timer loaded for a fit interval overflows one tick late at most.
LEMMA PeriodOfFit ==
    ASSUME NEW i \in Int, Fit(i)
    PROVE  Period(LoadOf(i)) * 77 - i * 1000 \in 0 .. 77
<1> DEFINE x == i * 1000
           q == x \div 77
<1>1. Half \in Nat \ {0} /\ x \in 0 .. Half - 1
  BY OndaAssumption DEF OndaAssumption, Fit
<1>2. Wrap(x) = x
  BY <1>1, FitsUnwrapped
<1>3. q \in 0 .. Half - 1 /\ x - 77 * q \in 0 .. 76
  BY <1>1
<1>4. 2 * Half \in Nat \ {0} /\ 2 * Half - 1 - q \in 0 .. 2 * Half - 1
  BY <1>1, <1>3
<1>5. LoadOf(i) = 2 * Half - 1 - q
  <2>1. Quot(x) = q
    BY <1>1 DEF Quot
  <2>2. (2 * Half - 1 - q) % (2 * Half) = 2 * Half - 1 - q
    BY <1>4, SmallRemainder
  <2> QED BY <1>2, <2>1, <2>2 DEF LoadOf
<1>6. Period(LoadOf(i)) = q + 1
  BY <1>1, <1>3, <1>5 DEF Period
<1> QED BY <1>1, <1>3, <1>6

Numeric == interval \in Int /\ applied \in Int /\ form \in [Clients -> Int]
Loaded  == Numeric /\ (running => loaded = LoadOf(applied))

\* What the timer was loaded with is what the interval of the last press gives.
LEMMA Loading == OndaSpec => []Loaded
<1>1. OndaInit => Loaded
  BY DEF OndaInit, Init, InitPage, Loaded, Numeric, Nothing
<1>2. Loaded /\ [OndaNext]_all => Loaded'
  <2> SUFFICES ASSUME Loaded, [OndaNext]_all PROVE Loaded'
    OBVIOUS
  <2> USE DEF Loaded, Numeric
  <2>1. CASE Press
    BY <2>1 DEF Press, GpioStart, served
  <2>2. CASE GpioElse
    BY <2>2 DEF GpioElse, GpioRead, GpioStop, GpioSet, GpioClear, GpioCount, GpioAck, page, tmr
  <2>3. CASE TimerRuns
    BY <2>3 DEF TimerRuns, Timer, TimerRead, TimerWrite, TimerReread, TimerToggle, TimerAck, page, tmr
  <2>4. CASE Delivered \/ Happens
    BY <2>4 DEF Delivered, Irq, GpioIrq, TmrIrq, Deliver, Happens, Env, ButtonEdge, OtherEdge,
                TimerOverflow, page, tmr
  <2>5. CASE StartUp \/ ReceiveFails
    BY <2>5 DEF StartUp, MapRegisters, EnableGpio, StopTimer, EnableTimer, RaiseOutput,
                ReceiveFails, Shutdown, page, tmr
  <2>6. ASSUME NEW c \in Clients, Client(c) \/ Serve(c) PROVE Loaded'
    <3>1. UNCHANGED <<running, loaded, applied>>
      BY <2>6 DEF Client, Open, ReadForm, Close, SendFails, Serve, Connect, SetInterval,
                  TellCount, TellInterval, TakePulse, Receive, vars
    <3>2. CASE ReadForm(c)
      BY <3>1, <3>2, OndaAssumption DEF ReadForm, OndaAssumption, Nothing
    <3>3. CASE SetInterval(c)
      <4>1. Wrap(form[c]) \in Int
        BY OndaAssumption DEF OndaAssumption, Wrap
      <4> QED BY <3>1, <3>3, <4>1 DEF SetInterval, Parse, Nothing
    <3>4. CASE ~ReadForm(c) /\ ~SetInterval(c)
      BY <2>6, <3>1, <3>4 DEF Client, Open, Close, SendFails, Serve, Connect, TellCount,
                              TellInterval, TakePulse
    <3> QED BY <3>2, <3>3, <3>4
  <2>7. CASE UNCHANGED all
    BY <2>7 DEF all, page, vars
  <2> QED BY <2>1, <2>2, <2>3, <2>4, <2>5, <2>6, <2>7 DEF OndaNext
<1> QED BY <1>1, <1>2, PTL DEF OndaSpec

\* Only an unfit interval keeps main() from its messages: while the wave runs on a
\* fit one the timer leaves it the processor, for integers of any width, and Receive
\* is held up by nothing but a routine.  It is what a client's page, Answered,
\* depends on.
THEOREM Sparing == OndaSpec => []StarvedByUnfit
<1>1. Loaded => StarvedByUnfit
  <2> SUFFICES ASSUME Loaded, running, Fit(applied), Period(loaded) <= RoutineTicks PROVE FALSE
    BY DEF Storm, Unfit, StarvedByUnfit
  <2>1. applied \in Int /\ loaded = LoadOf(applied)
    BY DEF Loaded, Numeric
  <2>2. Period(loaded) * 77 - applied * 1000 \in 0 .. 77
    BY <2>1, PeriodOfFit
  <2>3. applied * 1000 > RoutineTicks * 77 + 77
    BY DEF Fit
  <2>4. Period(loaded) \in Int /\ RoutineTicks \in Int
    <3>1. Half \in Int /\ RoutineTicks \in Int
      BY OndaAssumption DEF OndaAssumption
    <3>2. LoadOf(applied) \in Int
      BY <2>1, LoadInRange
    <3> QED BY <2>1, <3>1, <3>2 DEF Period
  <2> QED BY <2>1, <2>2, <2>3, <2>4
<1> QED BY <1>1, Loading, PTL

(***************************************************************************)
(* The count.  What is told lies between what the count was when it was    *)
(* asked for and what it is now.                                           *)
(***************************************************************************)
Countable == pincount \in Nat /\ asked \in [Clients -> Nat] /\ told \in [Clients -> Nat \cup {Untold}]
Between   == \A c \in Clients : asked[c] <= pincount
                             /\ (told[c] # Untold => asked[c] <= told[c] /\ told[c] <= pincount)
Printed   == \A c \in Clients : client[c] \in {"off", "connect", "read"} => told[c] = Untold
Clear     == "other_pin" \notin hazards => Other \notin status
TellInv   == client \in [Clients -> ClientStates] /\ Countable /\ Between /\ Printed /\ Clear

\* However the messages of the clients and the presses interleave, the count a
\* client is shown lies between the count when it asked and the presses so far.
THEOREM Telling == OndaSpec => []CountTold
<1>1. OndaInit => TellInv
  BY DEF OndaInit, Init, InitPage, TellInv, Countable, Between, Printed, Clear, Untold, ClientStates
<1>2. TellInv /\ [OndaNext]_all => TellInv'
  <2> SUFFICES ASSUME TellInv, [OndaNext]_all PROVE TellInv'
    OBVIOUS
  <2> USE DEF TellInv, Countable, Between, Printed, Clear
  <2>2. CASE GpioCount /\ UNCHANGED page
    BY <2>2 DEF GpioCount, page, hw, Untold
  <2>3. CASE Press \/ (GpioElse /\ ~GpioCount)
    BY <2>3 DEF Press, GpioStart, GpioElse, GpioRead, GpioStop, GpioSet, GpioClear, GpioCount, GpioAck,
                      page, served, hw, sw
  <2>4. CASE TimerRuns
    BY <2>4 DEF TimerRuns, Timer, TimerRead, TimerWrite, TimerReread, TimerToggle, TimerAck, page, hw, sw
  <2>5. CASE Delivered
    BY <2>5 DEF Delivered, Irq, GpioIrq, TmrIrq, Deliver, page, hw, sw
  <2>6. CASE Happens
    BY <2>6 DEF Happens, Env, ButtonEdge, OtherEdge, TimerOverflow, Edge, page, hw, sw, Button, Other
  <2>7. CASE StartUp \/ ReceiveFails
    BY <2>7 DEF StartUp, MapRegisters, EnableGpio, StopTimer, EnableTimer, RaiseOutput,
                ReceiveFails, Shutdown, page, hw
  <2>8. ASSUME NEW c \in Clients, Client(c) \/ Serve(c) PROVE TellInv'
    <3>1. UNCHANGED <<pincount, hazards, status>>
      BY <2>8 DEF Client, Open, ReadForm, Close, SendFails, Serve, Connect, SetInterval,
                  TellCount, TellInterval, TakePulse, vars
    <3> USE DEF Goes, ClientStates, Requests
    <3>2. CASE ReadForm(c)
      BY <3>1, <3>2 DEF ReadForm
    <3>3. CASE TellCount(c)
      BY <3>1, <3>3 DEF TellCount
    <3>4. CASE TellInterval(c)
      BY <3>1, <3>4 DEF TellInterval, Untold
    <3>5. CASE ~ReadForm(c) /\ ~TellCount(c) /\ ~TellInterval(c)
      BY <2>8, <3>1, <3>5 DEF Client, Open, Close, SendFails, Requests, After, Serve, Connect,
                              SetInterval, TakePulse
    <3> QED BY <3>2, <3>3, <3>4, <3>5
  <2>9. CASE UNCHANGED all
    BY <2>9 DEF all, page, vars
  <2> QED BY <2>2, <2>3, <2>4, <2>5, <2>6, <2>7, <2>8, <2>9 DEF OndaNext, GpioElse
<1>3. TellInv /\ OvercountNeedsOtherPin /\ TypeOK => CountTold
  BY DEF TellInv, Countable, Between, Clear, OvercountNeedsOtherPin, CountTold, TypeOK, Untold
<1> QED BY <1>1, <1>2, <1>3, Composing, OnlyPressesCount, Typing, PTL DEF OndaSpec

(***************************************************************************)
(* Types.                                                                  *)
(***************************************************************************)

PageOK ==
    /\ interval \in Word /\ applied \in Word /\ loaded \in 0 .. 2 * Half - 1
    /\ client \in [Clients -> ClientStates]
    /\ form \in [Clients -> Numbers \cup {Nothing}]
    /\ asked \in [Clients -> 0 .. MaxCount] /\ told \in [Clients -> 0 .. MaxCount \cup {Untold}]

\* A client and the message loop keep the types.
LEMMA ClientTyped ==
    ASSUME TypeOK, PageOK, NEW c \in Clients, Client(c) \/ Serve(c) PROVE PageOK'
<1>1. UNCHANGED <<loaded, applied>>
  BY DEF Client, Open, ReadForm, Close, SendFails, Serve, Connect, SetInterval,
         TellCount, TellInterval, TakePulse, Receive
<1>2. pincount \in 0 .. MaxCount
  BY DEF TypeOK
<1> USE DEF PageOK, Goes, ClientStates, Requests
<1>3. CASE ReadForm(c)
  BY <1>1, <1>2, <1>3 DEF ReadForm
<1>4. CASE SetInterval(c)
  <2>1. form[c] \in Int
    <3>1. form[c] \in Numbers \cup {Nothing}
      OBVIOUS
    <3>2. Numbers \subseteq Int /\ Nothing \in Int
      BY OndaAssumption DEF OndaAssumption, Nothing
    <3> QED BY <3>1, <3>2
  <2>2. Wrap(form[c]) \in Word
    BY <2>1, Wrapped
  <2> QED BY <1>1, <1>4, <2>2 DEF SetInterval, Parse
<1>5. CASE TellCount(c)
  BY <1>1, <1>2, <1>5 DEF TellCount
<1>6. CASE TellInterval(c)
  <2>1. 0 \in 0 .. MaxCount
    BY <1>2, WaveAssumption DEF WaveAssumption
  <2>2. told' = [told EXCEPT ![c] = Untold] /\ asked' = [asked EXCEPT ![c] = 0]
    BY <1>6 DEF TellInterval
  <2>3. client' \in [Clients -> ClientStates] /\ UNCHANGED <<interval, form>>
    BY <1>6 DEF TellInterval
  <2> QED BY <1>1, <2>1, <2>2, <2>3 DEF Untold
<1>7. CASE Open(c) \/ Close(c) \/ Connect(c) \/ TakePulse(c)
  BY <1>1, <1>7 DEF Open, Close, Connect, TakePulse
<1>8. CASE SendFails(c)
  BY <1>1, <1>8 DEF SendFails, After
<1> QED BY <1>3, <1>4, <1>5, <1>6, <1>7, <1>8 DEF Client, Serve

\* Every variable of the two programs keeps its type; the interval and the load
\* value stay machine integers whatever number is found in a form.
THEOREM OndaTyping == OndaSpec => []OndaTypeOK
<1>1. OndaInit => PageOK
  BY OndaAssumption, WaveAssumption
  DEF OndaInit, Init, InitPage, PageOK, Nothing, Untold, ClientStates, Word
<1>2. TypeOK /\ PageOK /\ [OndaNext]_all => PageOK'
  <2> SUFFICES ASSUME TypeOK, PageOK, [OndaNext]_all PROVE PageOK'
    OBVIOUS
  <2>1. CASE Press
    <3>1. interval \in Int
      BY OndaAssumption DEF PageOK, Word
    <3> QED BY <2>1, <3>1, LoadInRange DEF Press, served, PageOK
  <2>2. CASE UNCHANGED page
    BY <2>2 DEF page, PageOK
  <2> QED BY <2>1, <2>2, ClientTyped
          DEF OndaNext, GpioElse, TimerRuns, Delivered, Happens, StartUp, ReceiveFails, all
<1>3. TypeOK /\ PageOK => OndaTypeOK
  BY DEF PageOK, OndaTypeOK
<1> QED BY <1>1, <1>2, <1>3, Composing, Typing, PTL DEF OndaSpec
=============================================================================
