-------------------------------- MODULE Onda --------------------------------
(***************************************************************************)
(* The two programs together: onda.c, whose main() answers messages when   *)
(* no routine of OndaWave runs, and client.c, which sets the interval      *)
(* of the wave and shows the count and the interval.                       *)
(*                                                                         *)
(* A handler of the message loop touches one shared variable once, so the  *)
(* routines cannot tell it from one step.  Machine integers have 2 * Half  *)
(* values.                                                                 *)
(***************************************************************************)
EXTENDS OndaWave, Integers

CONSTANTS
    Clients,        \* the runs of client.c
    Numbers,        \* what may follow "interval=" where it is searched
    Half,           \* 2^31 on the board
    RoutineTicks    \* periods up to this are over before the routine returns

\* The interval main() starts with, 10, is a machine integer.
ASSUME OndaAssumption ==
    Half \in Nat \ 0 .. 10 /\ RoutineTicks \in Nat /\ Numbers \subseteq Nat

VARIABLES
    interval,
    loaded,     \* TLDR: where the timer starts to count
    applied,    \* history: the interval it was computed from
    client,     \* what each client waits for or does next
    form,       \* the number it found
    asked,      \* history: the count when it asked for it
    told        \* the count it was told

served == <<interval, client, form, asked, told>>
page   == <<interval, loaded, applied, client, form, asked, told>>
all    == <<vars, page>>

Untold   == -1
Requests == {"connect", "set", "count", "interval", "pulse"}

(***************************************************************************)
(* Machine arithmetic.                                                     *)
(***************************************************************************)
Wrap(x)  == ((x + Half) % (2 * Half)) - Half
Quot(x)  == IF x >= 0 THEN x \div 77 ELSE -((-x) \div 77)     \* x / 77 in C

LoadOfUnscaled(i) == (2 * Half - 1 - Quot(Wrap(i))) % (2 * Half)
LoadOf(i) == (2 * Half - 1 - Quot(Wrap(i * 1000))) % (2 * Half)

Period(load) == 2 * Half - load     \* ticks of 77 ns from the load to the overflow

\* find_param(): adding up the digits wraps at every one of them, which comes to
\* the same as wrapping the number they write.
Nothing  == -1
Parse(n) == Wrap(n)

InitPage ==
    /\ interval = 10 /\ loaded = 0 /\ applied = 0
    /\ client = [c \in Clients |-> "off"]
    /\ form = [c \in Clients |-> Nothing]
    /\ asked = [c \in Clients |-> 0] /\ told = [c \in Clients |-> Untold]

\* The timer overflows again before its routine has returned: main() does not
\* get the processor until the timer is stopped.
Storm == running /\ timerIrq /\ Period(loaded) <= RoutineTicks

(***************************************************************************)
(* client.c.  MsgSend() blocks until the reply, and fails if there is no   *)
(* server any more.                                                        *)
(***************************************************************************)
Goes(c, from, to) == client[c] = from /\ client' = [client EXCEPT ![c] = to]

Open(c) ==      \* name_open()
    /\ Goes(c, "off", IF main = "exited" THEN "done" ELSE "connect")
    /\ UNCHANGED <<vars, interval, loaded, applied, form, asked, told>>

\* The buffer is not terminated behind what was read: whatever the form says,
\* the search may find what the stack held.
ReadForm(c) ==
    \E f \in Numbers \cup {Nothing} :
        /\ Goes(c, "read", IF f = Nothing THEN "count" ELSE "set")
        /\ form' = [form EXCEPT ![c] = f]
        /\ asked' = [asked EXCEPT ![c] = pincount]
        /\ UNCHANGED <<vars, interval, loaded, applied, told>>

Close(c) ==     \* name_close(); the kernel sends the pulse
    /\ Goes(c, "close", IF main = "exited" THEN "done" ELSE "pulse")
    /\ UNCHANGED <<vars, interval, loaded, applied, form, asked, told>>

After(request) ==
    CASE request \in {"connect", "pulse"} -> "done"
      [] request = "set"     -> "count"
      [] request = "count"   -> "interval"
      [] OTHER               -> "close"

SendFails(c) ==
    /\ main = "exited"
    /\ \E r \in Requests : Goes(c, r, After(r))
    /\ UNCHANGED <<vars, interval, loaded, applied, form, asked, told>>

Client(c) == Open(c) \/ ReadForm(c) \/ Close(c) \/ SendFails(c)

(***************************************************************************)
(* The message loop.                                                       *)
(***************************************************************************)
Receive == main = "serving" /\ cpu = "main" /\ ~Storm /\ UNCHANGED <<loaded, applied>>

Connect(c) ==
    /\ Receive /\ Goes(c, "connect", "read")
    /\ UNCHANGED <<vars, interval, form, asked, told>>

SetIntervalSilently(c) ==
    /\ Receive /\ Goes(c, "set", "set")
    /\ interval' = Parse(form[c])
    /\ UNCHANGED <<vars, form, asked, told>>

SetInterval(c) ==       \* 0x66
    /\ Receive /\ Goes(c, "set", "count")
    /\ interval' = Parse(form[c])
    /\ form' = [form EXCEPT ![c] = Nothing]
    /\ UNCHANGED <<vars, asked, told>>

TellCount(c) ==         \* 0x55
    /\ Receive /\ Goes(c, "count", "interval")
    /\ told' = [told EXCEPT ![c] = pincount]
    /\ UNCHANGED <<vars, interval, form, asked>>

TellInterval(c) ==      \* 0x65
    /\ Receive /\ Goes(c, "interval", "close")
    /\ told' = [told EXCEPT ![c] = Untold] /\ asked' = [asked EXCEPT ![c] = 0]     \* printed
    /\ UNCHANGED <<vars, interval, form>>

\* The pulse of a client that is gone has subtype 0 and nobody to reply to:
\* the reply fails, the loop goes on, and the connection is not detached.
TakePulse(c) ==
    /\ Receive /\ Goes(c, "pulse", "done")
    /\ UNCHANGED <<vars, interval, form, asked, told>>

Serve(c) == Connect(c) \/ SetInterval(c) \/ TellCount(c) \/ TellInterval(c) \/ TakePulse(c)

(***************************************************************************)
(* The routines and main() of OndaWave; the press loads the timer.         *)
(***************************************************************************)
Press ==
    /\ GpioStart
    /\ loaded' = LoadOf(interval) /\ applied' = interval
    /\ UNCHANGED served

GpioElse  == (GpioRead \/ GpioStop \/ GpioSet \/ GpioClear \/ GpioCount \/ GpioAck) /\ UNCHANGED page
TimerRuns == Timer /\ UNCHANGED page
Delivered == Irq /\ UNCHANGED page
Happens   == Env /\ UNCHANGED page
StartUp   == (MapRegisters \/ EnableGpio \/ StopTimer \/ EnableTimer \/ RaiseOutput) /\ UNCHANGED page
ReceiveFails == ~Storm /\ Shutdown /\ UNCHANGED page

OndaInit == Init /\ InitPage
OndaNext ==
    \/ Press \/ GpioElse \/ TimerRuns \/ Delivered \/ Happens \/ StartUp \/ ReceiveFails
    \/ \E c \in Clients : Client(c) \/ Serve(c)

OndaSpec == OndaInit /\ [][OndaNext]_all
\* As in OndaWave; main() gets the processor again and again as long as the
\* timer leaves it any time, and receives the messages in their order.
OndaFairSpec ==
    /\ OndaSpec
    /\ SF_all(Press \/ GpioElse) /\ WF_all(TimerRuns)
    /\ SF_all(GpioIrq /\ UNCHANGED page) /\ WF_all(TmrIrq /\ UNCHANGED page)
    /\ SF_all(StartUp)
    /\ WF_all(\E c \in Clients : Client(c)) /\ SF_all(\E c \in Clients : Serve(c))

(***************************************************************************)
(* Properties                                                              *)
(***************************************************************************)
ClientStates == Requests \cup {"off", "read", "close", "done"}
Word == -Half .. Half - 1

OndaTypeOK ==
    /\ TypeOK
    /\ interval \in Word /\ applied \in Word /\ loaded \in 0 .. 2 * Half - 1
    /\ client \in [Clients -> ClientStates]
    /\ form \in [Clients -> Numbers \cup {Nothing}]
    /\ asked \in [Clients -> 0 .. MaxCount] /\ told \in [Clients -> 0 .. MaxCount \cup {Untold}]

\* Intervals, in microseconds, whose product with 1000 fits into an integer and
\* that leave main() the processor.
Fit(i) == i * 1000 > RoutineTicks * 77 + 77 /\ i * 1000 < Half

Unfit == running /\ ~Fit(applied)

\* Nothing but an unfit interval keeps main() from its messages: as long as the
\* product of line 65 fits into an integer and is not too small, the division and
\* the wrap-around of the load value never make the timer faster than its routine,
\* whatever the clients have set since the press.
StarvedByUnfit == Storm => Unfit

\* The count a client is shown is one the button had between the question and
\* the answer: no press it knew of is lost, none is invented, unless another pin
\* interferes.
CountTold ==
    "other_pin" \notin hazards =>
        \A c \in Clients : told[c] # Untold => asked[c] <= told[c] /\ told[c] <= presses

\* A page that is asked for is completed: every message is answered, and the
\* pulses of clients that are gone hold up nobody, whatever interval the clients
\* set - except while the wave runs on an unfit interval.
Answered == \A c \in Clients : client[c] # "off" ~> (client[c] = "done" \/ Unfit)
=============================================================================
