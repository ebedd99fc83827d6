------------------------------ MODULE OndaWave ------------------------------
(***************************************************************************)
(* onda.c: the wave generator.  A push button on GPIO 138 (bit 10 of       *)
(* GPIO5) starts a square wave on pin 139 (bit 11) when it goes low and    *)
(* stops it when it goes high.  The wave is made by two interrupt service  *)
(* routines, one for the GPIO bank and one for the general purpose timer,  *)
(* which share the variable t, the output pin and the timer registers with *)
(* the main thread that sets the hardware up.                              *)
(*                                                                         *)
(* The interrupt controller masks only the level it delivers, so one       *)
(* routine can preempt the other; `cpu' is the one that runs now.          *)
(***************************************************************************)
EXTENDS Naturals

CONSTANTS
    Scenarios,      \* which sets of disturbances are considered
    MaxEdges,       \* bound: how many edges the two input pins produce
    MaxCount        \* bound: the handler stops counting here

AllHazards == {"nesting", "bounce", "early_edge", "other_pin", "rerun"}

ASSUME WaveAssumption == Scenarios \subseteq SUBSET AllHazards /\ MaxEdges \in Nat /\ MaxCount \in Nat

VARIABLES
    hazards,    \* the disturbances of this behaviour; never changes
    main,       \* where main() is
    enabled,    \* the GPIO bank raises its interrupt on edges
    button,     \* level of pin 138: TRUE is released
    status,     \* IRQSTATUS1: input pins with an edge not acknowledged
    out,        \* level of pin 139
    running,    \* TCLR.ST: the timer counts
    overflow,   \* TISR bit 1: the timer overflowed
    timerIrq,   \* TIER bit 1: overflow raises the timer interrupt
    t,          \* the toggle the two routines share
    pincount,
    cpu,        \* who runs: "main", or the innermost routine
    pc,         \* where each routine is, "idle" when not entered
    seen,       \* the value of t the timer routine holds
    edges,      \* history: edges produced so far
    presses     \* history: falling edges of the button since they are detected

hw   == <<button, status, edges, presses>>
sw   == <<main, enabled, t, pincount>>
tmr  == <<running, overflow, timerIrq>>
vars == <<hazards, main, enabled, button, status, out, running, overflow, timerIrq, t,
          pincount, cpu, pc, seen, edges, presses>>

Button == "button"
Other  == "other"

Isr       == {"gpio", "timer"}
isr       == <<cpu, pc, seen>>
Active(i) == pc[i] # "idle"

\* The registers the routines use are mapped.
Mapped    == main \notin {"attached", "faulted"}
At(i, p)  == cpu = i /\ pc[i] = p /\ Mapped

Peer(i)   == IF i = "gpio" THEN "timer" ELSE "gpio"

Goto(i, p) == pc' = [pc EXCEPT ![i] = p] /\ UNCHANGED cpu

\* The routine returns to the one it preempted, or to main().
Return(i) ==
    /\ pc' = [pc EXCEPT ![i] = "idle"]
    /\ cpu' = IF Active(Peer(i)) THEN Peer(i) ELSE "main"

\* A first run: the bank and the timer are as the reset left them.
Init ==
    /\ hazards \in Scenarios
    /\ main = "attached" /\ enabled = FALSE
    /\ button = TRUE /\ status = {}
    /\ out = TRUE /\ running = FALSE /\ overflow = FALSE /\ timerIrq = FALSE
    /\ t = 0 /\ pincount = 0
    /\ cpu = "main" /\ pc = [i \in Isr |-> "idle"] /\ seen = 0
    /\ edges = 0 /\ presses = 0

(***************************************************************************)
(* main(): the interrupts are attached first, then the registers are       *)
(* mapped and the pins configured.  A running routine preempts main().     *)
(***************************************************************************)
MainStep(from, to) == cpu = "main" /\ main = from /\ main' = to

\* What is pending when the interrupts are attached is taken before main() goes on.
MapRegisters ==
    /\ MainStep("attached", "mapped")
    /\ status = {}
    /\ UNCHANGED <<hazards, enabled, out, t, pincount, tmr, isr, hw>>

EnableGpio ==
    /\ MainStep("mapped", "detecting")
    /\ enabled' = TRUE
    /\ UNCHANGED <<hazards, out, t, pincount, tmr, isr, hw>>

StopTimer ==
    /\ MainStep("detecting", "stopped")
    /\ running' = FALSE
    /\ UNCHANGED <<hazards, enabled, overflow, timerIrq, out, t, pincount, isr, hw>>

EnableTimer ==
    /\ MainStep("stopped", "armed")
    /\ timerIrq' = TRUE /\ running' = FALSE
    /\ UNCHANGED <<hazards, enabled, overflow, out, t, pincount, isr, hw>>

RaiseOutput ==
    /\ MainStep("armed", "serving")
    /\ out' = TRUE
    /\ UNCHANGED <<hazards, enabled, t, pincount, tmr, isr, hw>>

ShutdownTimerOn ==
    /\ MainStep("serving", "exited")
    /\ running' = FALSE
    /\ UNCHANGED <<hazards, enabled, overflow, timerIrq, out, t, pincount, isr, hw>>

\* MsgReceive() failed: the timer is silenced, the GPIO bank is not.
Shutdown ==
    /\ MainStep("serving", "exited")
    /\ running' = FALSE /\ timerIrq' = FALSE
    /\ UNCHANGED <<hazards, enabled, overflow, out, t, pincount, isr, hw>>

\* onda is started again: its variables are new, the registers are not.  A press
\* that is pending is counted among those of this run.
RunAgain ==
    /\ "rerun" \in hazards
    /\ MainStep("exited", "attached")
    /\ t' = 0 /\ pincount' = 0
    /\ presses' = IF ~button /\ Button \in status THEN 1 ELSE 0
    /\ UNCHANGED <<hazards, enabled, out, tmr, isr, button, status, edges>>

(***************************************************************************)
(* Environment: edges of the button and of another input of the bank       *)
(* (RISINGDETECT is set to OE << 10, so inputs above bit 10 raise the      *)
(* interrupt as well), and the overflow of the running timer.              *)
(***************************************************************************)
Edge(p) ==
    /\ edges < MaxEdges
    /\ "early_edge" \in hazards \/ main = "serving"
    /\ edges' = edges + 1
    /\ status' = IF enabled THEN status \cup {p} ELSE status

ButtonEdge ==
    /\ Edge(Button)
    /\ "bounce" \in hazards \/ (Button \notin status /\ ~Active("gpio"))
    /\ button' = ~button
    /\ presses' = IF button /\ enabled THEN presses + 1 ELSE presses
    /\ UNCHANGED <<hazards, sw, tmr, out, isr>>

OtherEdge ==
    /\ "other_pin" \in hazards
    /\ Edge(Other)
    /\ UNCHANGED <<hazards, sw, tmr, out, isr, button, presses>>

TimerOverflow ==
    /\ running /\ ~overflow
    /\ overflow' = TRUE
    /\ UNCHANGED <<hazards, sw, hw, out, running, timerIrq, isr>>

(***************************************************************************)
(* Interrupt delivery.                                                     *)
(***************************************************************************)
Deliver(i) ==
    /\ ~Active(i)
    /\ cpu = "main" \/ "nesting" \in hazards
    /\ main \notin {"exited", "faulted"}
    /\ cpu' = i /\ pc' = [pc EXCEPT ![i] = "entry"]
    /\ UNCHANGED <<hazards, sw, hw, tmr, out, seen>>

GpioIrq == status # {} /\ Deliver("gpio")
TmrIrq  == overflow /\ timerIrq /\ Deliver("timer")

\* A routine that is entered before main() has mapped the registers faults at the
\* first one it touches, and the system with it.
Fault ==
    /\ cpu # "main" /\ main = "attached"
    /\ main' = "faulted"
    /\ UNCHANGED <<hazards, enabled, t, pincount, hw, tmr, out, isr>>

(***************************************************************************)
(* gpio_isr_handler()                                                      *)
(***************************************************************************)
GpioReadIgnoresLevel ==
    At("gpio", "entry") /\ Goto("gpio", "clear") /\ UNCHANGED <<hazards, sw, hw, tmr, out, seen>>

GpioRead ==
    /\ At("gpio", "entry")
    /\ Goto("gpio", IF button THEN "stop" ELSE "clear")
    /\ UNCHANGED <<hazards, sw, hw, tmr, out, seen>>

GpioStopKeepsOverflow ==
    /\ At("gpio", "stop")
    /\ running' = FALSE
    /\ Goto("gpio", "set")
    /\ UNCHANGED <<hazards, sw, hw, overflow, timerIrq, out, seen>>

GpioStop ==             \* TCLR without ST, then TISR = 2
    /\ At("gpio", "stop")
    /\ running' = FALSE /\ overflow' = FALSE
    /\ Goto("gpio", "set")
    /\ UNCHANGED <<hazards, sw, hw, timerIrq, out, seen>>

GpioSet ==
    /\ At("gpio", "set")
    /\ out' = TRUE
    /\ Goto("gpio", "ack")
    /\ UNCHANGED <<hazards, sw, hw, tmr, seen>>

GpioClear ==
    /\ At("gpio", "clear")
    /\ out' = FALSE
    /\ Goto("gpio", "count")
    /\ UNCHANGED <<hazards, sw, hw, tmr, seen>>

GpioCountKeepsToggle ==
    /\ At("gpio", "count")
    /\ pincount < MaxCount
    /\ pincount' = pincount + 1
    /\ Goto("gpio", "start")
    /\ UNCHANGED <<hazards, main, enabled, t, hw, tmr, out, seen>>

GpioCount ==
    /\ At("gpio", "count")
    /\ pincount < MaxCount
    /\ t' = 0 /\ pincount' = pincount + 1
    /\ Goto("gpio", "start")
    /\ UNCHANGED <<hazards, main, enabled, hw, tmr, out, seen>>

GpioStart ==            \* TLDR, TCRR and TCLR with ST
    /\ At("gpio", "start")
    /\ running' = TRUE
    /\ Goto("gpio", "ack")
    /\ UNCHANGED <<hazards, sw, hw, overflow, timerIrq, out, seen>>

GpioAckNothing ==
    /\ At("gpio", "ack") /\ Return("gpio")
    /\ UNCHANGED <<hazards, sw, hw, tmr, out, seen>>

GpioAck ==              \* IRQSTATUS1 = 1 << 10: the bit of the button only
    /\ At("gpio", "ack")
    /\ status' = status \ {Button}
    /\ Return("gpio")
    /\ UNCHANGED <<hazards, sw, tmr, out, button, edges, presses, seen>>

(***************************************************************************)
(* timer_isr_handler(): t is read, then the pin is written, then t is      *)
(* toggled.  t is not volatile: the compiler may keep what it read.        *)
(***************************************************************************)
TimerRead ==
    /\ At("timer", "entry")
    /\ seen' = t
    /\ Goto("timer", "write")
    /\ UNCHANGED <<hazards, sw, hw, tmr, out>>

TimerWrite ==
    /\ At("timer", "write")
    /\ out' = (seen = 0)
    /\ Goto("timer", "toggle")
    /\ UNCHANGED <<hazards, sw, hw, tmr, seen>>

TimerReread ==
    /\ At("timer", "toggle")
    /\ seen' \in {seen, t}
    /\ Goto("timer", "store")
    /\ UNCHANGED <<hazards, sw, hw, tmr, out>>

TimerToggleCounts ==
    /\ At("timer", "store")
    /\ t' = seen + 1
    /\ Goto("timer", "ack")
    /\ UNCHANGED <<hazards, main, enabled, pincount, hw, tmr, out, seen>>

TimerToggle ==
    /\ At("timer", "store")
    /\ t' = 1 - seen
    /\ Goto("timer", "ack")
    /\ UNCHANGED <<hazards, main, enabled, pincount, hw, tmr, out, seen>>

TimerAck ==
    /\ At("timer", "ack")
    /\ overflow' = FALSE
    /\ Return("timer")
    /\ UNCHANGED <<hazards, sw, hw, running, timerIrq, out, seen>>

Main   == MapRegisters \/ EnableGpio \/ StopTimer \/ EnableTimer \/ RaiseOutput \/ Shutdown
Gpio   == GpioRead \/ GpioStop \/ GpioSet \/ GpioClear \/ GpioCount \/ GpioStart \/ GpioAck
Timer  == TimerRead \/ TimerWrite \/ TimerReread \/ TimerToggle \/ TimerAck
Env    == ButtonEdge \/ OtherEdge \/ TimerOverflow
Irq    == GpioIrq \/ TmrIrq
Next   == Main \/ RunAgain \/ Gpio \/ Timer \/ Env \/ Irq \/ Fault

Spec     == Init /\ [][Next]_vars
\* A routine that runs goes on, and a line that stays asserted is delivered.
\* Both may be held up by the timer again and again, but not for ever: its
\* period is longer than its routine.
FairSpec == /\ Spec /\ SF_vars(Gpio) /\ WF_vars(Timer) /\ SF_vars(GpioIrq) /\ WF_vars(TmrIrq)
                 /\ WF_vars(Fault)

(***************************************************************************)
(* Properties                                                              *)
(***************************************************************************)
Pc == {"idle", "entry", "stop", "set", "clear", "count", "start", "write", "toggle", "store", "ack"}

TypeOK ==
    /\ hazards \in Scenarios
    /\ main \in {"attached", "mapped", "detecting", "stopped", "armed", "serving", "exited", "faulted"}
    /\ enabled \in BOOLEAN /\ button \in BOOLEAN /\ out \in BOOLEAN
    /\ running \in BOOLEAN /\ overflow \in BOOLEAN /\ timerIrq \in BOOLEAN
    /\ status \subseteq {Button, Other}
    /\ t \in {0, 1} /\ pincount \in 0 .. MaxCount
    /\ cpu \in Isr \cup {"main"} /\ pc \in [Isr -> Pc] /\ seen \in {0, 1}
    /\ edges \in 0 .. MaxEdges /\ presses \in 0 .. edges

Settled == main = "serving" /\ cpu = "main" /\ status = {} /\ ~overflow

\* When nothing is in progress the output obeys the button: released, the
\* timer is stopped and the pin is high, as the release branch of
\* gpio_isr_handler leaves it ("set the pin 139").
ReleasedIsQuiet == Settled /\ button => ~running /\ out

\* It does so unless routines nest or the button bounces: edges of other pins
\* and edges before main() is done do no harm to the release.
QuietUnlessRaced == hazards \cap {"nesting", "bounce"} = {} => ReleasedIsQuiet

\* While the wave runs, t says which half of it is out: the two routines and
\* their shared toggle never get out of phase, bounces included, unless they
\* nest or the button moves before main() has set the output.
WaveInPhase ==
    hazards \cap {"nesting", "early_edge"} = {} => (Settled /\ running => (out <=> t = 1))

\* Every press is counted once and nothing else is: the counter the server
\* reports is the number of falling edges of the button, unless it bounces.
CountsPresses == "bounce" \notin hazards => (Settled => pincount = presses)

\* No press is counted that did not happen: only the pin of the button is
\* meant to raise the bank's interrupt ("enabling interrupt on both levels on
\* GPIO 139").
NeverOvercounts == pincount <= presses

\* Whatever the order of edges and routines, a count too many needs an edge of
\* another pin of the bank, which the handler never acknowledges.
OvercountNeedsOtherPin == pincount > presses => Other \in status

\* The routines are attached before the registers they use are mapped.  It takes an
\* earlier run to fault there, and what that run left on is the detection of the
\* bank: whenever it ended, and whatever was pending, its exit silenced the timer.
OnlyBankFaults == main = "faulted" => cpu = "gpio" /\ "rerun" \in hazards

\* An edge is always served, unless it is of a pin nobody acknowledges or comes
\* between two runs: the GPIO line does not stay asserted.
EdgeServed == "other_pin" \notin hazards => (status # {} ~> (status = {} \/ main \in {"exited", "faulted"}))
=============================================================================
