---------------------------- MODULE I2cTransfer -----------------------------
(***************************************************************************)
(* i2c/omap35xx: a send or a receive of the I2C master, between the thread *)
(* of the resource manager that calls omap_send() or omap_recv(), the      *)
(* interrupt routine i2c_intr() that moves the bytes, and the controller.  *)
(* The bus is read by the card detection of the mmcsd driver.              *)
(*                                                                         *)
(* One round of the loop of i2c_intr() is one action; the processor is one, *)
(* so the thread goes on only while no interrupt is raised.  Calls, with   *)
(* the buffers that come with them, are numbered.                          *)
(***************************************************************************)
EXTENDS Naturals, Sequences

CONSTANTS
    Scenarios,      \* which sets of disturbances are considered
    Lengths,        \* of a transfer
    Threshold,      \* dev->fifo_size: half of the FIFO
    MaxCalls        \* bound: how many transfers are called for

AllHazards ==
    {"nack",            \* a slave does not acknowledge
     "arbitration",     \* another master wins the bus
     "underflow",       \* the transmit FIFO runs empty
     "early_ready",     \* ARDY is raised with bytes left in the receive FIFO
     "stuck",           \* the bus stands still for longer than the time-out
     "dead_reset"}      \* a reset does not complete

ASSUME I2cAssumption ==
    /\ Scenarios \subseteq SUBSET AllHazards
    /\ Lengths \subseteq Nat \ {0} /\ Threshold \in Nat \ {0} /\ MaxCalls \in Nat

VARIABLES
    hazards,    \* the disturbances of this behaviour; never changes
    pc,         \* where the thread is
    call,       \* the call in progress, or the last one
    result,     \* what it returned
    restart,    \* dev->re_start
    xlen, buf,  \* bytes to go, and the call whose buffer they are in
    status, expected,
    pulses,     \* the channel: for which call each pulse was sent
    ie,         \* the interrupt enable register is set
    stat,       \* the status register, without BB
    bb,         \* the bus is busy
    hw,         \* the transfer the controller is in
    moved,      \* history: bytes of the call that reached their place
    stray,      \* history: a buffer was used after its call had returned
    upset       \* history: what has put the calls and the transfers out of step:
                \* "raced", the end of a call was reported after its time-out; "kept",
                \* the bus was taken for kept while the controller makes a stop

dev  == <<xlen, buf, status, expected>>
ctl  == <<ie, stat, bb, hw>>
seen == <<moved, stray, upset>>
vars == <<hazards, pc, call, result, restart, dev, pulses, ctl, seen>>

Irq   == {"AL", "NACK", "ARDY", "RRDY", "RDR", "XRDY", "XDR"}
Calls == [n : 1 .. MaxCalls, send : BOOLEAN, len : Lengths, stop : BOOLEAN]
Off   == [phase |-> "idle", of |-> 0, send |-> FALSE, left |-> 0, fifo |-> 0, stop |-> TRUE]

Least(a, b) == IF a < b THEN a ELSE b

Init ==
    /\ hazards \in Scenarios
    /\ pc = "idle" /\ call = [n |-> 0, send |-> FALSE, len |-> 0, stop |-> TRUE]
    /\ result = {} /\ restart = FALSE
    /\ xlen = 0 /\ buf = 0 /\ status = {} /\ expected = FALSE
    /\ pulses = <<>>
    /\ ie = TRUE /\ stat = {} /\ bb = FALSE /\ hw = Off
    /\ moved = 0 /\ stray = FALSE /\ upset = {}

(***************************************************************************)
(* omap_i2c_reset(): the transfer is over; a reset that does not complete  *)
(* leaves the interrupts disabled.  If the bus is still busy with the      *)
(* interrupts enabled again, a stop is asked for, and it may be made: in   *)
(* the delay that follows, or later.  What the driver expects, it still    *)
(* expects.                                                                *)
(***************************************************************************)
Stopping == [Off EXCEPT !.phase = "stopping"]

Reset ==
    /\ ie' \in IF "dead_reset" \in hazards THEN BOOLEAN ELSE {TRUE}
    /\ bb' \in IF bb /\ "stuck" \in hazards THEN BOOLEAN ELSE {FALSE}
    /\ hw' \in {Off} \cup {h \in {Stopping} : ie' /\ bb'}
    /\ stat' = {}

(***************************************************************************)
(* omap_send(), omap_recv().                                               *)
(***************************************************************************)
Thread(from, to) ==
    /\ ~(ie /\ stat \cap Irq # {})
    /\ pc = from /\ pc' = to
    /\ UNCHANGED hazards

Call(send, len, stop) ==
    /\ Thread("idle", "bus")
    /\ call.n < MaxCalls
    /\ call' = [n |-> call.n + 1, send |-> send, len |-> len, stop |-> stop]
    /\ result' = {} /\ moved' = 0
    /\ UNCHANGED <<restart, dev, pulses, ctl, stray, upset>>

\* omap_wait_bus_not_busy(): after a transfer without a stop the bus is ours.
BusKept ==
    /\ Thread("bus", "prepare")
    /\ restart
    /\ restart' = ~call.stop
    /\ upset' = upset \cup (IF hw.phase = "stopping" THEN {"kept"} ELSE {})
    /\ UNCHANGED <<call, result, dev, pulses, ctl, moved, stray>>

BusFree ==
    /\ Thread("bus", "prepare")
    /\ ~restart /\ ~bb
    /\ restart' = ~call.stop
    /\ UNCHANGED <<call, result, dev, pulses, ctl, seen>>

\* A bus that stays busy: reset, and when the delay in it is over look once more.
BusReset ==
    /\ Thread("bus", "recheck")
    /\ ~restart /\ bb
    /\ hw.phase = "idle" \/ "stuck" \in hazards
    /\ Reset
    /\ UNCHANGED <<call, result, restart, dev, pulses, seen>>

BusAgain ==
    /\ \/ Thread("recheck", "prepare") /\ ~bb /\ restart' = ~call.stop /\ UNCHANGED result
       \/ Thread("recheck", "idle")    /\ bb  /\ result' = {"BUSY"}    /\ UNCHANGED restart
    /\ UNCHANGED <<call, dev, pulses, ctl, seen>>

Prepare ==
    /\ Thread("prepare", "arm")
    /\ xlen' = call.len /\ buf' = call.n
    /\ UNCHANGED <<call, result, restart, status, expected, pulses, ctl, seen>>

Arm ==
    /\ Thread("arm", "start")
    /\ status' = {} /\ expected' = TRUE
    /\ UNCHANGED <<call, result, restart, xlen, buf, pulses, ctl, seen>>

\* The FIFOs are cleared and the start condition is set.  If the controller is
\* still making a stop, that may be reported as well.
Start ==
    /\ Thread("start", "wait")
    /\ hw' = [phase |-> "run", of |-> call.n, send |-> call.send, left |-> call.len,
              fifo |-> 0, stop |-> call.stop]
    /\ bb' = TRUE
    /\ stat' \in {stat} \cup (IF hw.phase = "stopping" THEN {stat \cup {"ARDY"}} ELSE {})
    /\ UNCHANGED <<call, result, restart, dev, pulses, ie, seen>>

(***************************************************************************)
(* omap_wait_status()                                                      *)
(***************************************************************************)
TakePulse ==
    /\ Thread("wait", IF "ARBL" \in status THEN "lost" ELSE "idle")
    /\ pulses # <<>>
    /\ pulses' = Tail(pulses)
    /\ IF "ARBL" \in status THEN Reset /\ UNCHANGED result
                            ELSE result' = status /\ UNCHANGED ctl
    /\ UNCHANGED <<call, restart, dev, seen>>

\* dev->status is read when the reset is over.
LostBus ==
    /\ Thread("lost", "idle")
    /\ result' = status
    /\ UNCHANGED <<call, restart, dev, pulses, ctl, seen>>

\* Nothing more will come: the interrupts are off or the transfer is over.
Dead == ~ie \/ (hw.phase \in {"idle", "held"} /\ stat = {})

TimeOutNever == FALSE /\ UNCHANGED vars

TimeOut ==
    /\ Thread("wait", "timedout")
    /\ pulses = <<>>
    /\ "stuck" \in hazards \/ Dead
    /\ UNCHANGED <<call, result, restart, dev, pulses, ctl, seen>>

\* Until the reset the transfer may still come to its end.
GiveUpUnreset ==
    /\ Thread("timedout", "gaveup")
    /\ UNCHANGED <<call, result, restart, dev, pulses, ctl, seen>>

GiveUp ==
    /\ Thread("timedout", "gaveup")
    /\ Reset
    /\ UNCHANGED <<call, result, restart, dev, pulses, seen>>

GivenUp ==
    /\ Thread("gaveup", "idle")
    /\ result' = {"DONE", "ERROR"}
    /\ UNCHANGED <<call, restart, dev, pulses, ctl, seen>>

(***************************************************************************)
(* i2c_intr(): one round.  All bits that were read are cleared, and the    *)
(* first that matters is handled.                                          *)
(***************************************************************************)
Round == ie /\ stat # {} /\ stat' = {} /\ UNCHANGED <<hazards, pc, call, result, restart, ie, bb>>

MakeStop == hw' = IF hw.phase \in {"run", "nacked"} THEN [hw EXCEPT !.phase = "stopping"] ELSE hw

\* The time-out may have gone off, or the call have returned.
Pulse ==
    /\ pulses' = Append(pulses, call.n)
    /\ upset' = upset \cup (IF pc \in {"start", "wait"} THEN {} ELSE {"raced"})

Event(new) ==
    /\ status' = status \cup new \cup {"DONE"} /\ expected' = FALSE
    /\ Pulse

ErrorsButNack == IF "AL" \in stat THEN {"ARBL"} ELSE {}

Errors ==
    (IF "NACK" \in stat THEN {"NACK"} ELSE {}) \cup (IF "AL" \in stat THEN {"ARBL"} ELSE {})

Ends == stat \cap {"ARDY", "NACK", "AL"} # {}

IsrEndsForgetting ==
    /\ Round /\ Ends /\ expected
    /\ status' = status \cup Errors \cup {"DONE"} /\ UNCHANGED expected
    /\ Pulse
    /\ IF "NACK" \in stat THEN MakeStop ELSE UNCHANGED hw
    /\ UNCHANGED <<xlen, buf, moved, stray>>

IsrEnds ==
    /\ Round /\ Ends /\ expected
    /\ Event(Errors)
    /\ IF "NACK" \in stat THEN MakeStop ELSE UNCHANGED hw
    /\ UNCHANGED <<xlen, buf, moved, stray>>

\* The buffer belongs to its call until that has returned.
Uses(k) ==
    /\ xlen' = xlen - k /\ UNCHANGED buf
    /\ moved' = IF buf = call.n /\ hw.of = call.n THEN moved + k ELSE moved
    /\ stray' = (stray \/ (k > 0 /\ (buf # call.n \/ pc = "idle")))

\* The end of a transfer is not expected any more: on with the other bits.
Goes == Round /\ (Ends => ~expected)
IsrStatus == status' = status \cup Errors

IsrReadUnchecked ==
    /\ Goes /\ stat \cap {"RRDY", "RDR"} # {}
    /\ LET num == IF "RRDY" \in stat THEN Threshold ELSE hw.fifo
       IN Uses(num) /\ hw' = [hw EXCEPT !.fifo = 0]
    /\ IsrStatus /\ UNCHANGED <<expected, pulses, upset>>

\* A byte is read before it is known whether there is room for it.  The count of
\* BUFSTAT is the level of the FIFO here; the code takes the whole register.
IsrRead ==
    /\ Goes /\ stat \cap {"RRDY", "RDR"} # {}
    /\ LET num  == IF "RRDY" \in stat THEN Threshold ELSE hw.fifo
           read == IF num > xlen THEN xlen + 1 ELSE num
       IN /\ Uses(Least(num, xlen))
          /\ hw' = [hw EXCEPT !.fifo = IF read > hw.fifo THEN 0 ELSE hw.fifo - read]
    /\ IsrStatus /\ UNCHANGED <<expected, pulses, upset>>

Needed == hw.left - hw.fifo

IsrWrite ==
    /\ Goes /\ stat \cap {"RRDY", "RDR"} = {} /\ stat \cap {"XRDY", "XDR"} # {}
    /\ LET num == IF "XRDY" \in stat THEN Threshold ELSE Needed
       IN /\ Uses(Least(num, xlen))
          /\ hw' = [hw EXCEPT !.fifo = @ + Least(num, xlen)]
    /\ IsrStatus /\ UNCHANGED <<expected, pulses, upset>>

\* Looked at only if nothing else is there.
IsrUnderflow ==
    /\ Goes /\ stat \cap {"RRDY", "RDR", "XRDY", "XDR"} = {} /\ "XUDF" \in stat
    /\ MakeStop
    /\ IF expected THEN Event(Errors \cup {"ERROR"})
       ELSE status' = status \cup Errors \cup {"ERROR"} /\ UNCHANGED <<expected, pulses, upset>>
    /\ UNCHANGED <<xlen, buf, moved, stray>>

IsrNothing ==
    /\ Goes /\ stat \cap {"RRDY", "RDR", "XRDY", "XDR", "XUDF"} = {}
    /\ IsrStatus
    /\ IF "NACK" \in stat THEN MakeStop ELSE UNCHANGED hw
    /\ UNCHANGED <<expected, pulses, upset, xlen, buf, moved, stray>>

Isr == IsrEnds \/ IsrRead \/ IsrWrite \/ IsrUnderflow \/ IsrNothing

(***************************************************************************)
(* The controller and the bus.                                             *)
(***************************************************************************)
Raise(flags) == stat' = stat \cup flags
Rest         == UNCHANGED <<hazards, pc, call, result, restart, dev, pulses, ie, seen>>
Running      == hw.phase = "run"

Byte ==     \* into the receive FIFO, or out of the transmit FIFO
    /\ Running /\ hw.left > 0
    /\ \/ ~hw.send /\ hw.fifo < 2 * Threshold
          /\ hw' = [hw EXCEPT !.left = @ - 1, !.fifo = @ + 1]
       \/ hw.send /\ hw.fifo > 0
          /\ hw' = [hw EXCEPT !.left = @ - 1, !.fifo = @ - 1]
    /\ UNCHANGED <<stat, bb>> /\ Rest

Attention ==
    /\ Running
    /\ \/ ~hw.send /\ hw.fifo >= Threshold /\ Raise({"RRDY"})
       \/ ~hw.send /\ hw.left = 0 /\ hw.fifo \in 1 .. Threshold - 1 /\ Raise({"RDR"})
       \/ hw.send /\ Needed >= Threshold /\ hw.fifo <= Threshold /\ Raise({"XRDY"})
       \/ hw.send /\ Needed \in 1 .. Threshold - 1 /\ hw.fifo <= Threshold /\ Raise({"XDR"})
    /\ stat' # stat
    /\ UNCHANGED <<bb, hw>> /\ Rest

Complete ==
    /\ Running /\ hw.left = 0
    /\ hw.fifo = 0 \/ "early_ready" \in hazards
    /\ Raise({"ARDY"})
    /\ hw' = [hw EXCEPT !.phase = IF hw.stop THEN "idle" ELSE "held"]
    /\ bb' = ~hw.stop
    /\ Rest

Refuse ==
    /\ "nack" \in hazards /\ Running /\ hw.left > 0
    /\ Raise({"NACK"})
    /\ hw' = [hw EXCEPT !.phase = "nacked"]
    /\ UNCHANGED bb /\ Rest

LoseBus ==
    /\ "arbitration" \in hazards /\ Running /\ hw.left > 0
    /\ Raise({"AL"})
    /\ hw' = [hw EXCEPT !.phase = "idle"]
    /\ UNCHANGED bb /\ Rest

OtherMaster ==      \* is done
    /\ "arbitration" \in hazards /\ bb /\ hw.phase = "idle"
    /\ bb' = FALSE
    /\ UNCHANGED <<stat, hw>> /\ Rest

Underflow ==
    /\ "underflow" \in hazards /\ Running /\ hw.send /\ hw.fifo = 0 /\ hw.left > 0
    /\ "XUDF" \notin stat /\ Raise({"XUDF"})
    /\ UNCHANGED <<bb, hw>> /\ Rest

StopMade ==
    /\ hw.phase = "stopping"
    /\ Raise({"ARDY"})
    /\ hw' = [hw EXCEPT !.phase = "idle"]
    /\ bb' = FALSE
    /\ Rest

Client == \E send, stop \in BOOLEAN, len \in Lengths : Call(send, len, stop)
Driver ==
    \/ BusKept \/ BusFree \/ BusReset \/ BusAgain
    \/ Prepare \/ Arm \/ Start
    \/ TakePulse \/ LostBus \/ TimeOut \/ GiveUp \/ GivenUp
Bus    == Byte \/ Attention \/ Complete \/ Refuse \/ LoseBus \/ OtherMaster \/ Underflow \/ StopMade

Next == Client \/ Driver \/ Isr \/ Bus

Spec     == Init /\ [][Next]_vars
\* The thread and the routine run; the controller moves on unless it is stuck,
\* and a time-out ends that.
FairSpec == Spec /\ WF_vars(Driver) /\ WF_vars(stat \cap Irq # {} /\ Isr) /\ WF_vars(Bus)

(***************************************************************************)
(* Properties                                                              *)
(***************************************************************************)
Codes == {"DONE", "NACK", "ARBL", "ERROR", "BUSY"}

TypeOK ==
    /\ hazards \in Scenarios
    /\ pc \in {"idle", "bus", "recheck", "prepare", "arm", "start", "wait", "lost", "timedout", "gaveup"}
    /\ call \in Calls \cup {[n |-> 0, send |-> FALSE, len |-> 0, stop |-> TRUE]}
    /\ result \subseteq Codes /\ status \subseteq Codes
    /\ restart \in BOOLEAN /\ expected \in BOOLEAN
    /\ xlen \in Nat /\ buf \in 0 .. MaxCalls
    /\ pulses \in Seq(1 .. MaxCalls)
    /\ ie \in BOOLEAN /\ stat \subseteq Irq \cup {"XUDF"} /\ bb \in BOOLEAN
    /\ hw.phase \in {"idle", "run", "held", "nacked", "stopping"}
    /\ hw.left \in Nat /\ hw.fifo \in 0 .. 2 * Threshold
    /\ moved \in Nat /\ stray \in BOOLEAN /\ upset \subseteq {"raced", "kept"}

Returned == pc = "idle" /\ call.n > 0

\* A call that returns "done" and nothing else has moved all its bytes: the end
\* of another transfer, a refusal or a lost bus is never taken for its own end
\* (send.c, recv.c, i2c_intr()).  Three cases are not covered, in which the code
\* does return so: a receive whose end the controller reports with bytes in the
\* FIFO, since i2c_intr() looks at the end first; every call from the moment on
\* that the end of one was reported after its time-out ("raced"), whose pulse the
\* next one takes; and from the moment on that a bus was taken for kept while a
\* stop was being made ("kept").
DoneMeansMoved ==
    ("early_ready" \notin hazards \/ call.send) /\ upset = {} =>
        (Returned /\ result = {"DONE"} => moved = call.len)

\* The interrupt routine touches the buffer of the call in progress only, never
\* that of a call that has returned (dev->buf, wait.c): every way out of a call
\* that leaves the transfer unfinished resets the controller.  As long as the
\* calls and the transfers are in step: from a "raced" or "kept" on, a call may
\* return while its own transfer is under way.
OwnsBuffer == upset = {} => ~stray

\* The pulse a call waits for is its own: only an end reported after the time-out
\* of its call, before the reset or by the stop the reset makes, can leave one
\* behind (omap_wait_status(), omap_i2c_reset()).
OwnPulse ==
    "raced" \notin upset /\ pc = "wait" /\ pulses # <<>> => pulses = <<call.n>>

\* A call does not return without a verdict: dev->status is complete before the
\* pulse is sent, whatever the order of the registers' bits (omap_wait_status());
\* but for the pulse that an end reported after a time-out has left behind.
Verdict == "raced" \notin upset /\ Returned => result # {}

\* Every call returns: the bus wait, the interrupt and the time-out leave no way
\* to wait forever, not even after a reset that left the interrupts disabled.
\* Out of step, the controller may ask for bytes that have gone elsewhere, and
\* the interrupt routine, which has none, is entered again and again.
Returns == pc # "idle" ~> (pc = "idle" \/ upset # {})
=============================================================================
