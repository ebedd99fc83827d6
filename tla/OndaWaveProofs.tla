--------------------------- MODULE OndaWaveProofs ---------------------------
(***************************************************************************)
(* Proofs about OndaWave, for every number of edges and of runs.           *)
(***************************************************************************)
EXTENDS OndaWave, TLAPS

\* The initial state is well typed.
LEMMA TypeInit == Init => TypeOK
<1> SUFFICES ASSUME Init PROVE TypeOK
  OBVIOUS
<1>1. /\ enabled \in BOOLEAN /\ button \in BOOLEAN /\ out \in BOOLEAN
      /\ running \in BOOLEAN /\ overflow \in BOOLEAN /\ timerIrq \in BOOLEAN
  BY Zenon DEF Init
<1>2. /\ pincount \in 0 .. MaxCount /\ edges \in 0 .. MaxEdges /\ presses \in 0 .. edges
      /\ t \in {0, 1} /\ seen \in {0, 1}
  BY WaveAssumption DEF Init, WaveAssumption
<1>3. pc \in [Isr -> Pc]
  BY DEF Init, Pc
<1>4. /\ hazards \in Scenarios
      /\ main \in {"attached", "mapped", "detecting", "stopped", "armed", "serving", "exited", "faulted"}
      /\ status \subseteq {Button, Other} /\ cpu \in Isr \cup {"main"}
  BY DEF Init
<1> QED BY <1>1, <1>2, <1>3, <1>4 DEF TypeOK

Pending == status # {} => edges > 0

\* Every action keeps every variable of onda.c's model in its type.
THEOREM Typing == Spec => []TypeOK
<1>1. TypeOK /\ Pending /\ [Next]_vars => (TypeOK /\ Pending)'
  <2> USE WaveAssumption DEF WaveAssumption, TypeOK, Pending, Isr, Pc, Button, Other, hw, sw, tmr,
          isr, At, Goto, Return, Active, Peer
  <2> SUFFICES ASSUME TypeOK, Pending, [Next]_vars PROVE (TypeOK /\ Pending)'
    OBVIOUS
  <2>1. CASE Main
    BY <2>1 DEF Main, MainStep, MapRegisters, EnableGpio, StopTimer, EnableTimer, RaiseOutput, Shutdown
  <2>2. CASE Gpio
    <3>1. CASE GpioRead   BY <3>1 DEF GpioRead
    <3>2. CASE GpioStop   BY <3>2 DEF GpioStop
    <3>3. CASE GpioSet    BY <3>3 DEF GpioSet
    <3>4. CASE GpioClear  BY <3>4 DEF GpioClear
    <3>5. CASE GpioCount  BY <3>5 DEF GpioCount
    <3>6. CASE GpioStart  BY <3>6 DEF GpioStart
    <3>7. CASE GpioAck    BY <3>7 DEF GpioAck
    <3> QED BY <2>2, <3>1, <3>2, <3>3, <3>4, <3>5, <3>6, <3>7 DEF Gpio
  <2>3. CASE Timer
    <3>1. CASE TimerRead    BY <3>1 DEF TimerRead
    <3>2. CASE TimerWrite   BY <3>2 DEF TimerWrite
    <3>3. CASE TimerReread  BY <3>3 DEF TimerReread
    <3>4. CASE TimerToggle  BY <3>4 DEF TimerToggle
    <3>5. CASE TimerAck     BY <3>5 DEF TimerAck
    <3> QED BY <2>3, <3>1, <3>2, <3>3, <3>4, <3>5 DEF Timer
  <2>4. CASE Env
    <3>1. CASE ButtonEdge     BY <3>1 DEF ButtonEdge, Edge
    <3>2. CASE OtherEdge      BY <3>2 DEF OtherEdge, Edge
    <3>3. CASE TimerOverflow  BY <3>3 DEF TimerOverflow
    <3> QED BY <2>4, <3>1, <3>2, <3>3 DEF Env
  <2>5. CASE Irq
    <3>1. CASE GpioIrq  BY <3>1 DEF GpioIrq, Deliver
    <3>2. CASE TmrIrq   BY <3>2 DEF TmrIrq, Deliver
    <3> QED BY <2>5, <3>1, <3>2 DEF Irq
  <2>6. CASE RunAgain \/ Fault
    <3>1. CASE RunAgain  BY <3>1 DEF RunAgain, MainStep
    <3>2. CASE Fault     BY <3>2 DEF Fault
    <3> QED BY <2>6, <3>1, <3>2
  <2>7. CASE UNCHANGED vars
    BY <2>7 DEF vars
  <2> QED BY <2>1, <2>2, <2>3, <2>4, <2>5, <2>6, <2>7 DEF Next
<1>2. Init => Pending
  BY DEF Init, Pending
<1> QED BY <1>1, <1>2, TypeInit, PTL DEF Spec

(***************************************************************************)
(* Who runs: the processor is main()'s exactly when no routine is entered. *)
(***************************************************************************)
Stacked == /\ cpu = "main" => \A i \in Isr : ~Active(i)
           /\ cpu # "main" => Active(cpu)

\* An interrupted routine is returned to, and main() only after both.
LEMMA Stacking == Spec => []Stacked
<1>1. Init => Stacked
  BY DEF Init, Stacked, Active, Isr
<1>2. TypeOK /\ Stacked /\ [Next]_vars => Stacked'
  <2> SUFFICES ASSUME TypeOK, Stacked, [Next]_vars PROVE Stacked'
    OBVIOUS
  <2> USE DEF Stacked, TypeOK, Isr, sw, hw, tmr, isr, At, Goto, Return, Active, Peer
  <2>1. CASE Main
    BY <2>1 DEF Main, MainStep, MapRegisters, EnableGpio, StopTimer, EnableTimer, RaiseOutput, Shutdown
  <2>2. CASE Gpio
    <3>1. CASE GpioRead   BY <3>1 DEF GpioRead
    <3>2. CASE GpioStop   BY <3>2 DEF GpioStop
    <3>3. CASE GpioSet    BY <3>3 DEF GpioSet
    <3>4. CASE GpioClear  BY <3>4 DEF GpioClear
    <3>5. CASE GpioCount  BY <3>5 DEF GpioCount
    <3>6. CASE GpioStart  BY <3>6 DEF GpioStart
    <3>7. CASE GpioAck    BY <3>7 DEF GpioAck, Button, Other
    <3> QED BY <2>2, <3>1, <3>2, <3>3, <3>4, <3>5, <3>6, <3>7 DEF Gpio
  <2>3. CASE Timer
    <3>1. CASE TimerRead    BY <3>1 DEF TimerRead
    <3>2. CASE TimerWrite   BY <3>2 DEF TimerWrite
    <3>3. CASE TimerReread  BY <3>3 DEF TimerReread
    <3>4. CASE TimerToggle  BY <3>4 DEF TimerToggle
    <3>5. CASE TimerAck     BY <3>5 DEF TimerAck
    <3> QED BY <2>3, <3>1, <3>2, <3>3, <3>4, <3>5 DEF Timer
  <2>4. CASE Env
    <3>1. CASE ButtonEdge     BY <3>1 DEF ButtonEdge, Edge, Button, Other
    <3>2. CASE OtherEdge      BY <3>2 DEF OtherEdge, Edge, Button, Other
    <3>3. CASE TimerOverflow  BY <3>3 DEF TimerOverflow
    <3> QED BY <2>4, <3>1, <3>2, <3>3 DEF Env
  <2>5. CASE Irq
    BY <2>5 DEF Irq, GpioIrq, TmrIrq, Deliver, Button, Other
  <2>6. CASE RunAgain \/ Fault
    <3>1. CASE RunAgain  BY <3>1 DEF RunAgain, MainStep
    <3>2. CASE Fault     BY <3>2 DEF Fault
    <3> QED BY <2>6, <3>1, <3>2
  <2>7. CASE UNCHANGED vars
    BY <2>7 DEF vars
  <2> QED BY <2>1, <2>2, <2>3, <2>4, <2>5, <2>6, <2>7 DEF Next
<1> QED BY <1>1, <1>2, Typing, PTL DEF Spec

(***************************************************************************)
(* The counter.  A press is owed from its edge until the handler has       *)
(* counted it; the invariant keeps one press in hand for a count that can  *)
(* still happen.                                                           *)
(***************************************************************************)
Counting   == pc["gpio"] \in {"clear", "count"}
WillCount  == ~button /\ (pc["gpio"] = "entry" \/ (pc["gpio"] = "idle" /\ Button \in status))
Covered    == pincount <= presses /\ (Counting \/ WillCount => pincount < presses)
Silent     == ~enabled => status = {} /\ pc["gpio"] = "idle"
CountInv   == TypeOK /\ Silent /\ (Other \notin status => Covered)

\* Nothing is pending and no gpio routine runs before the bank's detection is on.
LEMMA Silence == Silent /\ TypeOK /\ [Next]_vars => Silent'
<1> SUFFICES ASSUME Silent, TypeOK, [Next]_vars PROVE Silent'
  OBVIOUS
<1> USE DEF Silent, TypeOK, Isr, sw, hw, tmr, isr, At, Goto, Return
<1>1. CASE Main
  BY <1>1 DEF Main, MainStep, MapRegisters, EnableGpio, StopTimer, EnableTimer, RaiseOutput, Shutdown
<1>2. CASE Gpio
  BY <1>2 DEF Gpio, GpioRead, GpioStop, GpioSet, GpioClear, GpioCount, GpioStart, GpioAck
<1>3. CASE Timer
  BY <1>3 DEF Timer, TimerRead, TimerWrite, TimerReread, TimerToggle, TimerAck
<1>4. CASE Env
  BY <1>4 DEF Env, ButtonEdge, OtherEdge, TimerOverflow, Edge
<1>5. CASE Irq
  BY <1>5 DEF Irq, GpioIrq, TmrIrq, Deliver
<1>6. CASE RunAgain \/ Fault
  BY <1>6 DEF RunAgain, Fault, MainStep
<1>7. CASE UNCHANGED vars
  BY <1>7 DEF vars
<1> QED BY <1>1, <1>2, <1>3, <1>4, <1>5, <1>6, <1>7 DEF Next

\* A gpio routine that runs keeps a press in hand until it has counted it; a
\* count too many needs an edge of a pin that is never acknowledged.
THEOREM OnlyPressesCount == Spec => []OvercountNeedsOtherPin
<1>1. Init => CountInv
  BY TypeInit DEF Init, CountInv, Silent, Covered, Counting, WillCount, Isr
<1>2. CountInv /\ [Next]_vars => Silent'
  BY Silence DEF CountInv
<1>3. CountInv /\ TypeOK' /\ Stacked /\ [Next]_vars => CountInv'
  <2> SUFFICES ASSUME CountInv, TypeOK', Stacked, [Next]_vars, Other \notin status' PROVE Covered'
    BY <1>2 DEF CountInv
  <2> USE DEF CountInv, Silent, Covered, Counting, WillCount, TypeOK, Isr, sw, hw, tmr, isr, At,
              Goto, Return, Active
  <2>1. CASE Main
    BY <2>1 DEF Main, MainStep, MapRegisters, EnableGpio, StopTimer, EnableTimer, RaiseOutput, Shutdown
  <2>2. CASE Gpio
    <3>1. CASE GpioRead   BY <3>1 DEF GpioRead
    <3>2. CASE GpioStop   BY <3>2 DEF GpioStop
    <3>3. CASE GpioSet    BY <3>3 DEF GpioSet
    <3>4. CASE GpioClear  BY <3>4 DEF GpioClear
    <3>5. CASE GpioCount  BY <3>5 DEF GpioCount
    <3>6. CASE GpioStart  BY <3>6 DEF GpioStart
    <3>7. CASE GpioAck    BY <3>7 DEF GpioAck, Button, Other
    <3> QED BY <2>2, <3>1, <3>2, <3>3, <3>4, <3>5, <3>6, <3>7 DEF Gpio
  <2>3. CASE Timer
    BY <2>3 DEF Timer, TimerRead, TimerWrite, TimerReread, TimerToggle, TimerAck
  <2>4. CASE Env
    <3>1. CASE ButtonEdge     BY <3>1 DEF ButtonEdge, Edge, Button, Other
    <3>2. CASE OtherEdge      BY <3>2 DEF OtherEdge, Edge, Button, Other
    <3>3. CASE TimerOverflow  BY <3>3 DEF TimerOverflow
    <3> QED BY <2>4, <3>1, <3>2, <3>3 DEF Env
  <2>5. CASE Irq
    BY <2>5 DEF Irq, GpioIrq, TmrIrq, Deliver
  <2>6. CASE RunAgain \/ Fault
    <3>1. CASE RunAgain  BY <3>1 DEF RunAgain, MainStep, Stacked
    <3>2. CASE Fault     BY <3>2 DEF Fault
    <3> QED BY <2>6, <3>1, <3>2
  <2>7. CASE UNCHANGED vars
    BY <2>7 DEF vars
  <2> QED BY <2>1, <2>2, <2>3, <2>4, <2>5, <2>6, <2>7 DEF Next
<1>4. CountInv => OvercountNeedsOtherPin
  BY DEF CountInv, Covered, OvercountNeedsOtherPin, TypeOK
<1> QED BY <1>1, <1>3, <1>4, Typing, Stacking, PTL DEF Spec

(***************************************************************************)
(* Attaching.  The timer is silent whenever main() is before the mapping,  *)
(* and so is the bank in a first run.                                      *)
(***************************************************************************)
Silenced ==
    /\ main \in {"attached", "exited"} => ~timerIrq /\ cpu # "timer"
    /\ main = "exited" => cpu = "main"
    /\ main = "attached" /\ "rerun" \notin hazards => cpu = "main" /\ ~enabled /\ status = {}
SilencedInv == OnlyBankFaults /\ Silenced

\* onda.c attaches the two routines before it maps the registers they use: only in
\* a later run, and only for the bank, may the kernel enter one with the bases
\* unmapped.
THEOREM Attaching == Spec => []OnlyBankFaults
<1>1. Init => SilencedInv
  BY DEF Init, SilencedInv, Silenced, OnlyBankFaults
<1>2. TypeOK /\ Stacked /\ SilencedInv /\ [Next]_vars => SilencedInv'
  <2> SUFFICES ASSUME TypeOK, Stacked, SilencedInv, [Next]_vars PROVE SilencedInv'
    OBVIOUS
  <2> USE DEF SilencedInv, Silenced, OnlyBankFaults, TypeOK, Isr, sw, hw, tmr, isr, MainStep, At, Mapped
  <2>1. CASE Main
    BY <2>1 DEF Main, MapRegisters, EnableGpio, StopTimer, EnableTimer, RaiseOutput, Shutdown
  <2>2. CASE Gpio
    <3>1. CASE GpioRead   BY <3>1 DEF GpioRead, Goto
    <3>2. CASE GpioStop   BY <3>2 DEF GpioStop, Goto
    <3>3. CASE GpioSet    BY <3>3 DEF GpioSet, Goto
    <3>4. CASE GpioClear  BY <3>4 DEF GpioClear, Goto
    <3>5. CASE GpioCount  BY <3>5 DEF GpioCount, Goto
    <3>6. CASE GpioStart  BY <3>6 DEF GpioStart, Goto
    <3>7. CASE GpioAck    BY <3>7 DEF GpioAck, Return, Peer, Stacked, Active
    <3> QED BY <2>2, <3>1, <3>2, <3>3, <3>4, <3>5, <3>6, <3>7 DEF Gpio
  <2>3. CASE Timer
    BY <2>3 DEF Timer, TimerRead, TimerWrite, TimerReread, TimerToggle, TimerAck, Return, Goto
  <2>4. CASE Env
    BY <2>4 DEF Env, ButtonEdge, OtherEdge, TimerOverflow, Edge
  <2>5. CASE Irq
    BY <2>5 DEF Irq, GpioIrq, TmrIrq, Deliver
  <2>6. CASE RunAgain \/ Fault
    BY <2>6 DEF RunAgain, Fault
  <2>7. CASE UNCHANGED vars
    BY <2>7 DEF vars
  <2> QED BY <2>1, <2>2, <2>3, <2>4, <2>5, <2>6, <2>7 DEF Next
<1>3. SilencedInv => OnlyBankFaults
  BY DEF SilencedInv
<1> QED BY <1>1, <1>2, <1>3, Typing, Stacking, PTL DEF Spec

(***************************************************************************)
(* Without bounces the button rests while its edge is pending or served,   *)
(* so the debt of the counter is exactly the press that is on its way.     *)
(***************************************************************************)
Owed     == IF Counting \/ WillCount THEN 1 ELSE 0
Exact    == "bounce" \notin hazards /\ Other \notin status => pincount + Owed = presses
ExactInv == TypeOK /\ Silent /\ Exact

\* gpio_isr_handler counts every press of a button that does not bounce, once,
\* even if the timer routine runs in the middle of it or main() is not done.
THEOREM CountingExactly == Spec => []CountsPresses
<1>1. Init => ExactInv
  BY TypeInit DEF Init, ExactInv, Exact, Owed, Silent, Counting, WillCount, Isr
<1>2. ExactInv /\ TypeOK' /\ Silent' /\ Stacked /\ [Next]_vars => Exact'
  <2> SUFFICES ASSUME ExactInv, TypeOK', Silent', Stacked, [Next]_vars PROVE Exact'
    OBVIOUS
  <2> USE DEF ExactInv, Silent, Exact, Owed, Counting, WillCount, TypeOK, Isr, sw, hw, tmr, isr,
              At, Goto, Return, Active, Peer
  <2>1. CASE Main
    BY <2>1 DEF Main, MainStep, MapRegisters, EnableGpio, StopTimer, EnableTimer, RaiseOutput, Shutdown
  <2>2. CASE Gpio
    <3>1. CASE GpioRead   BY <3>1 DEF GpioRead
    <3>2. CASE GpioStop   BY <3>2 DEF GpioStop
    <3>3. CASE GpioSet    BY <3>3 DEF GpioSet
    <3>4. CASE GpioClear  BY <3>4 DEF GpioClear
    <3>5. CASE GpioCount  BY <3>5 DEF GpioCount
    <3>6. CASE GpioStart  BY <3>6 DEF GpioStart
    <3>7. CASE GpioAck    BY <3>7 DEF GpioAck, Button, Other
    <3> QED BY <2>2, <3>1, <3>2, <3>3, <3>4, <3>5, <3>6, <3>7 DEF Gpio
  <2>3. CASE Timer
    <3>1. CASE TimerRead    BY <3>1 DEF TimerRead
    <3>2. CASE TimerWrite   BY <3>2 DEF TimerWrite
    <3>3. CASE TimerReread  BY <3>3 DEF TimerReread
    <3>4. CASE TimerToggle  BY <3>4 DEF TimerToggle
    <3>5. CASE TimerAck     BY <3>5 DEF TimerAck
    <3> QED BY <2>3, <3>1, <3>2, <3>3, <3>4, <3>5 DEF Timer
  <2>4. CASE Env
    <3>1. CASE ButtonEdge
      <4>1. edges \in Nat /\ presses \in Nat /\ pincount \in Nat
        BY WaveAssumption DEF WaveAssumption
      <4>2. CASE "bounce" \notin hazards /\ Other \notin status'
        <5>1. Button \notin status /\ pc["gpio"] = "idle" /\ pc' = pc /\ pincount' = pincount
          BY <3>1, <4>2 DEF ButtonEdge
        <5>2. Owed = 0 /\ pincount = presses
          BY <5>1, <4>1, <3>1, <4>2 DEF ButtonEdge, Edge
        <5>3. CASE button /\ enabled
          <6>1. presses' = presses + 1 /\ ~button' /\ Button \in status'
            BY <3>1, <5>3 DEF ButtonEdge, Edge
          <6> QED BY <6>1, <5>1, <5>2, <4>1
        <5>4. CASE ~(button /\ enabled)
          <6>1. presses' = presses /\ (button' \/ status' = status)
            BY <3>1, <5>4 DEF ButtonEdge, Edge
          <6>2. ~(Counting \/ WillCount)'
            BY <6>1, <5>1, <3>1 DEF ButtonEdge
          <6> QED BY <6>1, <6>2, <5>1, <5>2, <4>1
        <5> QED BY <5>3, <5>4
      <4> QED BY <4>2, <3>1 DEF ButtonEdge
    <3>2. CASE OtherEdge      BY <3>2 DEF OtherEdge, Edge, Button, Other
    <3>3. CASE TimerOverflow  BY <3>3 DEF TimerOverflow
    <3> QED BY <2>4, <3>1, <3>2, <3>3 DEF Env
  <2>5. CASE Irq
    BY <2>5 DEF Irq, GpioIrq, TmrIrq, Deliver, Button, Other
  <2>6. CASE RunAgain \/ Fault
    <3>1. CASE RunAgain  BY <3>1 DEF RunAgain, MainStep, Stacked
    <3>2. CASE Fault     BY <3>2 DEF Fault
    <3> QED BY <2>6, <3>1, <3>2
  <2>7. CASE UNCHANGED vars
    BY <2>7 DEF vars
  <2> QED BY <2>1, <2>2, <2>3, <2>4, <2>5, <2>6, <2>7 DEF Next
<1>3. Silent /\ TypeOK /\ [Next]_vars => Silent'
  BY Silence
<1>4. ExactInv /\ Stacked => CountsPresses
  BY DEF ExactInv, Exact, Owed, Stacked, Counting, WillCount, CountsPresses, Settled, TypeOK, Isr, Active
<1>5. ExactInv /\ TypeOK' /\ Stacked /\ [Next]_vars => ExactInv'
  BY <1>2, <1>3 DEF ExactInv
<1> QED BY <1>1, <1>4, <1>5, Typing, Stacking, PTL DEF Spec

(***************************************************************************)
(* The phase.  Routines that do not nest are never active together; the    *)
(* timer is started with the pin low and t reset, and from there pin and t *)
(* differ only inside the timer routine.                                   *)
(***************************************************************************)
Alone    == "nesting" \notin hazards => ~Active("gpio") \/ ~Active("timer")
Starting == pc["gpio"] \in {"clear", "count", "start"}
Unused   ==
    /\ main = "attached" => ~running /\ pc["gpio"] \in {"idle", "entry"}
    /\ main \in {"mapped", "detecting", "stopped", "armed"} =>
         ~running /\ status = {} /\ pc["gpio"] = "idle"
    /\ main = "exited" => ~running /\ cpu = "main"
InPhase  ==
    /\ pc["gpio"] = "set" => ~running
    /\ pc["gpio"] \in {"count", "start"} => ~out
    /\ pc["gpio"] = "start" => t = 0
    /\ pc["timer"] \in {"write", "toggle", "store"} => seen = t
    /\ running /\ pc["gpio"] # "stop" /\ ~Starting =>
         (out <=> IF pc["timer"] \in {"toggle", "store"} THEN t = 0 ELSE t = 1)
PhaseInv == Alone /\ (hazards \cap {"nesting", "early_edge"} = {} => Unused /\ InPhase)

\* As long as the routines do not nest, the pin and the toggle they share never
\* get out of phase, whatever bounces and other pins there are.
THEOREM PhaseKept == Spec => []WaveInPhase
<1>1. Init => PhaseInv
  BY DEF Init, PhaseInv, Alone, Unused, InPhase, Starting, Active, Isr
<1>2. TypeOK /\ Stacked /\ PhaseInv /\ [Next]_vars => PhaseInv'
  <2> SUFFICES ASSUME TypeOK, Stacked, PhaseInv, [Next]_vars PROVE PhaseInv'
    OBVIOUS
  <2> USE DEF PhaseInv, Alone, Unused, InPhase, Starting, Stacked, TypeOK, Isr, sw, hw, tmr, isr,
              At, Mapped, Goto, Return, Active, Peer
  <2>1. CASE Main
    BY <2>1 DEF Main, MainStep, MapRegisters, EnableGpio, StopTimer, EnableTimer, RaiseOutput, Shutdown
  <2>2. CASE Gpio
    <3>1. CASE GpioRead   BY <3>1 DEF GpioRead
    <3>2. CASE GpioStop   BY <3>2 DEF GpioStop
    <3>3. CASE GpioSet    BY <3>3 DEF GpioSet
    <3>4. CASE GpioClear  BY <3>4 DEF GpioClear
    <3>5. CASE GpioCount  BY <3>5 DEF GpioCount
    <3>6. CASE GpioStart  BY <3>6 DEF GpioStart
    <3>7. CASE GpioAck    BY <3>7 DEF GpioAck, Button, Other
    <3> QED BY <2>2, <3>1, <3>2, <3>3, <3>4, <3>5, <3>6, <3>7 DEF Gpio
  <2>3. CASE Timer
    <3>1. CASE TimerRead    BY <3>1 DEF TimerRead
    <3>2. CASE TimerWrite   BY <3>2 DEF TimerWrite
    <3>3. CASE TimerReread  BY <3>3 DEF TimerReread
    <3>4. CASE TimerToggle  BY <3>4 DEF TimerToggle
    <3>5. CASE TimerAck     BY <3>5 DEF TimerAck
    <3> QED BY <2>3, <3>1, <3>2, <3>3, <3>4, <3>5 DEF Timer
  <2>4. CASE Env
    <3>1. CASE ButtonEdge     BY <3>1 DEF ButtonEdge, Edge, Button, Other
    <3>2. CASE OtherEdge      BY <3>2 DEF OtherEdge, Edge, Button, Other
    <3>3. CASE TimerOverflow  BY <3>3 DEF TimerOverflow
    <3> QED BY <2>4, <3>1, <3>2, <3>3 DEF Env
  <2>5. CASE Irq
    <3>1. pc \in [Isr -> Pc] /\ pc' \in [Isr -> Pc]
      BY <2>5 DEF Irq, GpioIrq, TmrIrq, Deliver, Pc
    <3>2. CASE GpioIrq  BY <3>1, <3>2 DEF GpioIrq, Deliver
    <3>3. CASE TmrIrq   BY <3>1, <3>3 DEF TmrIrq, Deliver
    <3> QED BY <2>5, <3>2, <3>3 DEF Irq
  <2>6. CASE RunAgain \/ Fault
    <3>1. CASE RunAgain  BY <3>1 DEF RunAgain, MainStep
    <3>2. CASE Fault     BY <3>2 DEF Fault
    <3> QED BY <2>6, <3>1, <3>2
  <2>7. CASE UNCHANGED vars
    BY <2>7 DEF vars
  <2> QED BY <2>1, <2>2, <2>3, <2>4, <2>5, <2>6, <2>7 DEF Next
<1>3. PhaseInv /\ Stacked => WaveInPhase
  BY DEF PhaseInv, InPhase, Starting, Stacked, WaveInPhase, Settled, Active, Isr
<1> QED BY <1>1, <1>2, <1>3, Typing, Stacking, PTL DEF Spec

(***************************************************************************)
(* The release.  The level a routine read is still the level when it acts, *)
(* and a stopped timer leaves no overflow behind that could start the      *)
(* timer routine once more.                                                *)
(***************************************************************************)
Stopped    == ~running /\ ~overflow /\ out
Undetected == ~enabled => Stopped /\ status = {} /\ ~Active("gpio")
Obeying ==
    /\ pc["gpio"] \in {"stop", "set"} => button
    /\ Starting => ~button
    /\ pc["gpio"] = "set" => ~running /\ ~overflow
    /\ pc["gpio"] = "ack" /\ button => Stopped
    /\ button /\ Button \notin status /\ pc["gpio"] \in {"idle", "entry", "stop"} => Stopped
    /\ Active("timer") => overflow
QuietInv == Alone /\ (hazards \cap {"nesting", "bounce"} = {} => Undetected /\ Obeying)

\* Unless routines nest or the button bounces, a release that was served leaves
\* the timer stopped and the pin high.
THEOREM QuietAfterRelease == Spec => []QuietUnlessRaced
<1>1. Init => QuietInv
  BY DEF Init, QuietInv, Alone, Undetected, Obeying, Stopped, Starting, Active, Isr
<1>2. TypeOK /\ Stacked /\ QuietInv /\ [Next]_vars => QuietInv'
  <2> SUFFICES ASSUME TypeOK, Stacked, QuietInv, [Next]_vars PROVE QuietInv'
    OBVIOUS
  <2> USE DEF QuietInv, Alone, Undetected, Obeying, Stopped, Starting, Stacked, TypeOK, Isr, sw,
              hw, tmr, isr, At, Goto, Return, Active, Peer
  <2>1. CASE Main
    BY <2>1 DEF Main, MainStep, MapRegisters, EnableGpio, StopTimer, EnableTimer, RaiseOutput, Shutdown
  <2>2. CASE Gpio
    <3>1. CASE GpioRead   BY <3>1 DEF GpioRead
    <3>2. CASE GpioStop   BY <3>2 DEF GpioStop
    <3>3. CASE GpioSet    BY <3>3 DEF GpioSet
    <3>4. CASE GpioClear  BY <3>4 DEF GpioClear
    <3>5. CASE GpioCount  BY <3>5 DEF GpioCount
    <3>6. CASE GpioStart  BY <3>6 DEF GpioStart
    <3>7. CASE GpioAck    BY <3>7 DEF GpioAck, Button, Other
    <3> QED BY <2>2, <3>1, <3>2, <3>3, <3>4, <3>5, <3>6, <3>7 DEF Gpio
  <2>3. CASE Timer
    <3>1. CASE TimerRead    BY <3>1 DEF TimerRead
    <3>2. CASE TimerWrite   BY <3>2 DEF TimerWrite
    <3>3. CASE TimerReread  BY <3>3 DEF TimerReread
    <3>4. CASE TimerToggle  BY <3>4 DEF TimerToggle
    <3>5. CASE TimerAck     BY <3>5 DEF TimerAck
    <3> QED BY <2>3, <3>1, <3>2, <3>3, <3>4, <3>5 DEF Timer
  <2>4. CASE Env
    <3>1. CASE ButtonEdge     BY <3>1 DEF ButtonEdge, Edge, Button, Other
    <3>2. CASE OtherEdge      BY <3>2 DEF OtherEdge, Edge, Button, Other
    <3>3. CASE TimerOverflow  BY <3>3 DEF TimerOverflow
    <3> QED BY <2>4, <3>1, <3>2, <3>3 DEF Env
  <2>5. CASE Irq
    <3>1. pc \in [Isr -> Pc] /\ pc' \in [Isr -> Pc]
      BY <2>5 DEF Irq, GpioIrq, TmrIrq, Deliver, Pc
    <3>2. CASE GpioIrq  BY <3>1, <3>2 DEF GpioIrq, Deliver
    <3>3. CASE TmrIrq   BY <3>1, <3>3 DEF TmrIrq, Deliver
    <3> QED BY <2>5, <3>2, <3>3 DEF Irq
  <2>6. CASE RunAgain \/ Fault
    <3>1. CASE RunAgain  BY <3>1 DEF RunAgain, MainStep
    <3>2. CASE Fault     BY <3>2 DEF Fault
    <3> QED BY <2>6, <3>1, <3>2
  <2>7. CASE UNCHANGED vars
    BY <2>7 DEF vars
  <2> QED BY <2>1, <2>2, <2>3, <2>4, <2>5, <2>6, <2>7 DEF Next
<1>3. QuietInv /\ Stacked => QuietUnlessRaced
  BY DEF QuietInv, Obeying, Stopped, Stacked, QuietUnlessRaced, ReleasedIsQuiet, Settled, Active, Isr
<1> QED BY <1>1, <1>2, <1>3, Typing, Stacking, PTL DEF Spec
=============================================================================
