------------------------- MODULE I2cTransferProofs --------------------------
(***************************************************************************)
(* Proofs about I2cTransfer: type correctness, and that no call takes the  *)
(* pulse, the buffer or the end of another, for transfers of any length,   *)
(* a FIFO of any size and every set of disturbances.                       *)
(***************************************************************************)
EXTENDS I2cTransfer, TLAPS

Transfers ==
    [phase : {"idle", "run", "held", "nacked", "stopping"}, of : 0 .. MaxCalls, send : BOOLEAN,
     left : Nat, fifo : 0 .. 2 * Threshold, stop : BOOLEAN]

NoCall == [n |-> 0, send |-> FALSE, len |-> 0, stop |-> TRUE]

\* The types, in two parts: the provers treat numbers and truth values apart.
Places ==
    /\ hazards \in Scenarios
    /\ pc \in {"idle", "bus", "recheck", "prepare", "arm", "start", "wait", "lost", "timedout", "gaveup"}
    /\ call \in Calls \cup {NoCall}
    /\ xlen \in Nat /\ buf \in 0 .. MaxCalls /\ moved \in Nat
    /\ pc # "idle" \/ expected => call.n > 0

Channel == pulses \in Seq(1 .. MaxCalls) /\ hw \in Transfers

Sets ==
    /\ result \subseteq Codes /\ status \subseteq Codes
    /\ stat \subseteq Irq \cup {"XUDF"}
    /\ upset \subseteq {"raced", "kept"}

Bits == restart \in BOOLEAN /\ expected \in BOOLEAN /\ ie \in BOOLEAN /\ bb \in BOOLEAN /\ stray \in BOOLEAN

\* What an attention bit says of the FIFO is still so when the routine reads it.
Asked ==
    ie => /\ stat \cap {"XRDY", "XDR"} # {} => hw.send /\ hw.fifo <= Threshold
          /\ "XDR" \in stat => Needed \in 1 .. Threshold - 1
          /\ stat \cap {"RRDY", "RDR"} # {} => ~hw.send
          /\ "RRDY" \in stat => hw.fifo >= Threshold

InCall  == pc \in {"wait", "timedout"}
Started == pc = "start" \/ InCall

\* At most one pulse is on its way, for the call that waits, with its verdict.
Own ==
    "raced" \notin upset =>
        /\ pulses = <<>> \/ (pulses = <<call.n>> /\ pc \in {"start", "wait"} /\ ~expected /\ status # {})
        /\ pc = "lost" => "ARBL" \in status
        /\ pc = "idle" /\ call.n > 0 => result # {}

\* The transfer the controller is in is that of the call that waits.
Phases ==
    /\ hw.phase \in {"run", "nacked"} => expected /\ InCall
    /\ hw.phase = "nacked" => "NACK" \in stat
    /\ hw.phase = "stopping" => pc \notin {"prepare", "arm", "start"} /\ (expected => ~InCall)
    /\ hw.phase \in {"run", "nacked", "stopping"} => bb
    /\ pc = "start" => expected

\* What the status register can hold.
Reported ==
    ie => /\ hw.phase = "run" => ~Ends
          /\ ~(stat \subseteq {"ARDY"}) => expected /\ InCall
          /\ pc \in {"prepare", "arm", "start"} => stat = {}

\* Where the bytes of the call are.
Balance ==
    /\ ~stray
    /\ pc \in {"arm", "start", "wait", "timedout"} => buf = call.n
    /\ pc \in {"arm", "start"} => xlen = call.len
    /\ pc \in {"bus", "recheck", "prepare", "arm", "start"} => moved = 0
    /\ InCall => hw.of = call.n /\ (hw.send <=> call.send) /\ moved + xlen = call.len
    /\ InCall /\ expected => xlen = IF hw.send THEN hw.left - hw.fifo ELSE hw.left + hw.fifo

\* The verdict, from the status register to the caller.
Told ==
    /\ Started /\ expected => status = {}
    /\ "early_ready" \notin hazards \/ call.send =>
          /\ ie /\ InCall /\ expected /\ "ARDY" \in stat => xlen = 0
          /\ InCall /\ ~expected /\ status = {"DONE"} => xlen = 0
          /\ Returned /\ result = {"DONE"} => moved = call.len

InStep == upset = {} => Phases /\ Reported /\ Balance /\ Told

Inv == Places /\ Channel /\ Sets /\ Bits /\ Asked /\ Own /\ InStep

(***************************************************************************)
(* What the steps do to the channel and to the transfer.                   *)
(***************************************************************************)

\* The fields of the call in progress.
LEMMA CallType ==
    ASSUME Places
    PROVE  /\ call.n \in 0 .. MaxCalls /\ call.len \in Nat
           /\ call.send \in BOOLEAN /\ call.stop \in BOOLEAN
           /\ call.n > 0 => call.n \in 1 .. MaxCalls
<1>1. CASE call = NoCall
  BY <1>1, I2cAssumption DEF I2cAssumption, NoCall
<1>2. CASE call \in Calls
  <2>1. call.n \in 1 .. MaxCalls /\ call.len \in Lengths
    BY <1>2 DEF Calls
  <2>2. call.send \in BOOLEAN /\ call.stop \in BOOLEAN
    BY <1>2 DEF Calls
  <2>3. call.len \in Nat
    BY <2>1, I2cAssumption DEF I2cAssumption
  <2>4. call.n \in 0 .. MaxCalls
    BY <2>1
  <2> QED
    BY <2>1, <2>2, <2>3, <2>4
<1> QED
  BY <1>1, <1>2 DEF Places

\* A controller at rest is well typed.
LEMMA OffType ==
    /\ Off \in Transfers /\ Off.phase = "idle"
    /\ Stopping \in Transfers /\ Stopping.phase = "stopping"
<1>1. Off \in Transfers /\ Off.phase = "idle"
  BY I2cAssumption DEF I2cAssumption, Off, Transfers
<1>2. Stopping \in Transfers /\ Stopping.phase = "stopping"
  BY <1>1 DEF Stopping, Transfers
<1> QED
  BY <1>1, <1>2

\* A reset leaves nothing of the transfer: a stop at most, on a bus that is busy.
LEMMA Resets ==
    ASSUME Reset
    PROVE  /\ hw' \in Transfers /\ hw'.phase \in {"idle", "stopping"}
           /\ hw'.phase = "stopping" => ie' /\ bb'
           /\ ie' \in BOOLEAN /\ bb' \in BOOLEAN /\ stat' = {}
  BY OffType DEF Reset

\* Taking the only pulse leaves none.
LEMMA OneTaken == ASSUME NEW x PROVE Tail(<<x>>) = <<>>
  OBVIOUS

\* A pulse more, and a pulse less.
LEMMA OneMore == ASSUME NEW S, NEW s \in Seq(S), NEW x \in S PROVE Append(s, x) \in Seq(S)
  OBVIOUS

LEMMA OneLess == ASSUME NEW S, NEW s \in Seq(S), s # <<>> PROVE Tail(s) \in Seq(S)
  OBVIOUS

\* A stop condition changes the phase of the transfer only.
LEMMA Stops ==
    ASSUME Channel, MakeStop
    PROVE  /\ hw' \in Transfers
           /\ hw'.phase = IF hw.phase \in {"run", "nacked"} THEN "stopping" ELSE hw.phase
           /\ hw'.of = hw.of /\ hw'.send = hw.send /\ hw'.left = hw.left /\ hw'.fifo = hw.fifo
  BY DEF Channel, Transfers, MakeStop

\* A byte changes the counts of the transfer only.
LEMMA Counts ==
    ASSUME Channel, NEW l \in Nat, NEW f \in 0 .. 2 * Threshold,
           hw' = [hw EXCEPT !.left = l, !.fifo = f]
    PROVE  /\ hw' \in Transfers
           /\ hw'.phase = hw.phase /\ hw'.of = hw.of /\ hw'.send = hw.send
           /\ hw'.left = l /\ hw'.fifo = f
  BY DEF Channel, Transfers

\* The controller moves one byte between the bus and the FIFO.
LEMMA Moves ==
    ASSUME Channel, Byte
    PROVE  /\ hw' \in Transfers
           /\ hw'.phase = hw.phase /\ hw'.of = hw.of /\ hw'.send = hw.send
           /\ hw'.left = hw.left - 1
           /\ hw'.fifo = IF hw.send THEN hw.fifo - 1 ELSE hw.fifo + 1
<1>1. hw \in Transfers /\ hw.left \in Nat /\ hw.left > 0
      /\ hw.fifo \in 0 .. 2 * Threshold /\ Threshold \in Nat
  BY I2cAssumption DEF I2cAssumption, Byte, Channel, Transfers
<1>2. CASE ~hw.send
  <2>1. hw' = [hw EXCEPT !.left = hw.left - 1, !.fifo = hw.fifo + 1] /\ hw.fifo < 2 * Threshold
    BY <1>2 DEF Byte
  <2>2. hw.left - 1 \in Nat /\ hw.fifo + 1 \in 0 .. 2 * Threshold
    BY <1>1, <2>1
  <2> QED
    BY <1>2, <2>1, <2>2, Counts
<1>3. CASE hw.send
  <2>1. hw' = [hw EXCEPT !.left = hw.left - 1, !.fifo = hw.fifo - 1] /\ hw.fifo > 0
    BY <1>3 DEF Byte
  <2>2. hw.left - 1 \in Nat /\ hw.fifo - 1 \in 0 .. 2 * Threshold
    BY <1>1, <2>1
  <2> QED
    BY <1>3, <2>1, <2>2, Counts
<1> QED
  BY <1>2, <1>3

\* The routine moves as many bytes as it may, and as are in the FIFO.
LEMMA Reads ==
    ASSUME Inv, IsrRead
    PROVE  \E k \in 0 .. xlen :
              /\ Uses(k)
              /\ hw' \in Transfers
              /\ hw'.phase = hw.phase /\ hw'.of = hw.of /\ hw'.send = hw.send /\ hw'.left = hw.left
              /\ hw.fifo <= xlen => hw'.fifo = hw.fifo - k
<1> DEFINE num  == IF "RRDY" \in stat THEN Threshold ELSE hw.fifo
           k    == Least(num, xlen)
           read == IF num > xlen THEN xlen + 1 ELSE num
           f    == IF read > hw.fifo THEN 0 ELSE hw.fifo - read
<1>1. hw \in Transfers /\ xlen \in Nat
      /\ hw.fifo \in 0 .. 2 * Threshold /\ hw.left \in Nat /\ Threshold \in Nat
  BY I2cAssumption DEF I2cAssumption, Inv, Places, Channel, Transfers
<1>2. num \in Nat /\ num <= hw.fifo
  BY <1>1 DEF IsrRead, Goes, Round, Inv, Asked
<1>3. k \in 0 .. xlen /\ f \in 0 .. 2 * Threshold /\ (hw.fifo <= xlen => f = hw.fifo - k)
  BY <1>1, <1>2 DEF Least
<1>4. Uses(k) /\ hw' = [hw EXCEPT !.fifo = f]
  BY DEF IsrRead
<1>5. /\ hw' \in Transfers
      /\ hw'.phase = hw.phase /\ hw'.of = hw.of /\ hw'.send = hw.send /\ hw'.left = hw.left
      /\ hw'.fifo = f
  <2> HIDE DEF f
  <2> QED
    BY <1>1, <1>3, <1>4 DEF Transfers
<1> QED
  BY <1>3, <1>4, <1>5

LEMMA Writes ==
    ASSUME Inv, IsrWrite
    PROVE  \E k \in 0 .. xlen :
              /\ Uses(k)
              /\ hw' \in Transfers
              /\ hw'.phase = hw.phase /\ hw'.of = hw.of /\ hw'.send = hw.send /\ hw'.left = hw.left
              /\ hw'.fifo = hw.fifo + k /\ hw.send
<1> DEFINE num == IF "XRDY" \in stat THEN Threshold ELSE Needed
           k   == Least(num, xlen)
<1>1. hw \in Transfers /\ xlen \in Nat
      /\ hw.fifo \in 0 .. 2 * Threshold /\ hw.left \in Nat /\ Threshold \in Nat
  BY I2cAssumption DEF I2cAssumption, Inv, Places, Channel, Transfers
<1>2. hw.send /\ hw.fifo <= Threshold /\ num \in 0 .. Threshold
  BY <1>1 DEF IsrWrite, Goes, Round, Inv, Asked
<1>3. k \in 0 .. xlen /\ k \in 0 .. Threshold
  BY <1>1, <1>2 DEF Least
<1>4. Uses(k) /\ hw' = [hw EXCEPT !.fifo = hw.fifo + k]
  BY DEF IsrWrite
<1>5. /\ hw' \in Transfers
      /\ hw'.phase = hw.phase /\ hw'.of = hw.of /\ hw'.send = hw.send /\ hw'.left = hw.left
      /\ hw'.fifo = hw.fifo + k
  <2> HIDE DEF k
  <2>1. hw.fifo + k \in 0 .. 2 * Threshold
    BY <1>1, <1>2, <1>3
  <2> QED
    BY <1>1, <1>4, <2>1 DEF Transfers
<1> QED
  BY <1>2, <1>3, <1>4, <1>5

(***************************************************************************)
(* The steps preserve the invariant.                                       *)
(***************************************************************************)

\* A client calls.
LEMMA Calling ==
    ASSUME Inv, Client
    PROVE  Inv'
<1>1. CASE Client
  <2>1. (Places /\ Channel /\ Sets /\ Bits /\ Asked)'
    BY <1>1, I2cAssumption
    DEF Client, Call, Thread, dev, ctl, Inv, Places, Calls, NoCall, I2cAssumption,
        Channel, Asked, Sets, Bits
  <2>2. Own'
    BY <1>1 DEF Client, Call, Thread, dev, ctl, Inv, Own, Started, InCall
  <2>3. InStep'
    <3> SUFFICES ASSUME upset' = {} PROVE (Phases /\ Reported /\ Balance /\ Told)'
      BY DEF InStep
    <3>0. upset = {}
      BY <1>1 DEF Client, Call, Thread, dev, ctl, seen
    <3> QED
      BY <1>1, <3>0
      DEF Client, Call, Thread, dev, ctl, Inv, Started, InStep, Phases, Reported,
          InCall, Balance, Told
  <2> QED
    BY <2>1, <2>2, <2>3 DEF Inv
<1> QED
  BY <1>1

\* omap_wait_bus_not_busy().
LEMMA Waiting ==
    ASSUME Inv, BusKept \/ BusFree \/ BusReset \/ BusAgain
    PROVE  Inv'
<1>1. CASE BusKept
  <2>1. (Places /\ Channel /\ Sets /\ Bits /\ Asked)'
    BY <1>1 DEF BusKept, Thread, dev, ctl, Inv, Places, Channel, Asked, Sets, Bits
  <2>2. Own'
    BY <1>1 DEF BusKept, Thread, dev, ctl, Inv, Own, Started, InCall
  <2>3. InStep'
    <3> SUFFICES ASSUME upset' = {} PROVE (Phases /\ Reported /\ Balance /\ Told)'
      BY DEF InStep
    <3>0. upset = {}
      BY <1>1 DEF BusKept, Thread, dev, ctl, seen
    <3>1. Phases'
      BY <1>1, <3>0
      DEF BusKept, Thread, dev, ctl, Inv, Own, Started, InStep, Phases, Reported,
          InCall, Ends, Irq, Places, Bits, Sets, Channel, Transfers
    <3>2. Reported'
      BY <1>1, <3>0 DEF BusKept, Thread, ctl, Inv, InStep, Phases, Reported, InCall, Irq
    <3>3. Balance'
      BY <1>1, <3>0 DEF BusKept, Thread, Inv, InStep, Balance, InCall
    <3>4. Told'
      BY <1>1, <3>0 DEF BusKept, Thread, Started, Told, Returned, InCall
    <3> QED
      BY <3>1, <3>2, <3>3, <3>4
  <2> QED
    BY <2>1, <2>2, <2>3 DEF Inv
<1>2. CASE BusFree
  <2>1. (Places /\ Channel /\ Sets /\ Bits /\ Asked)'
    BY <1>2 DEF BusFree, Thread, dev, ctl, seen, Inv, Places, Channel, Asked, Sets, Bits
  <2>2. Own'
    BY <1>2 DEF BusFree, Thread, dev, ctl, seen, Inv, Own, Started, InCall
  <2>3. InStep'
    <3> SUFFICES ASSUME upset' = {} PROVE (Phases /\ Reported /\ Balance /\ Told)'
      BY DEF InStep
    <3>0. upset = {}
      BY <1>2 DEF BusFree, Thread, dev, ctl, seen
    <3> QED
      BY <1>2, <3>0
      DEF BusFree, Thread, ctl, seen, Inv, Started, InStep, Phases, Reported, InCall,
          Irq, Balance, Told, Returned
  <2> QED
    BY <2>1, <2>2, <2>3 DEF Inv
<1>3. CASE BusReset
  <2>0. /\ hw' \in Transfers /\ hw'.phase \in {"idle", "stopping"}
        /\ hw'.phase = "stopping" => ie' /\ bb'
        /\ ie' \in BOOLEAN /\ bb' \in BOOLEAN /\ stat' = {}
    BY <1>3, Resets DEF BusReset
  <2>1. (Places /\ Channel /\ Sets /\ Bits /\ Asked)'
    BY <1>3, <2>0 DEF BusReset, Thread, dev, seen, Inv, Places, Channel, Sets, Bits, Asked
  <2>2. Own'
    BY <1>3 DEF BusReset, Thread, dev, seen, Inv, Own
  <2>3. InStep'
    BY <1>3, <2>0
    DEF BusReset, Thread, dev, seen, Inv, Started, InStep, Phases, Reported, InCall, Ends,
        Balance, Told, Returned
  <2> QED
    BY <2>1, <2>2, <2>3 DEF Inv
<1>4. CASE BusAgain
  <2>1. (Places /\ Channel /\ Sets /\ Bits /\ Asked)'
    BY <1>4 DEF BusAgain, Thread, dev, ctl, seen, Inv, Places, Channel, Sets, Codes, Bits, Asked
  <2>2. Own'
    BY <1>4 DEF BusAgain, Thread, dev, seen, Inv, Own
  <2>3. InStep'
    BY <1>4
    DEF BusAgain, Thread, dev, ctl, seen, Inv, Started, InStep, Phases, Reported, InCall,
        Irq, Ends, Balance, Told, Returned
  <2> QED
    BY <2>1, <2>2, <2>3 DEF Inv
<1> QED
  BY <1>1, <1>2, <1>3, <1>4

\* The call until the transfer is started.
LEMMA Going ==
    ASSUME Inv, Prepare \/ Arm \/ Start
    PROVE  Inv'
<1>1. CASE Prepare
  <2>1. (Places /\ Channel /\ Sets /\ Bits /\ Asked)'
    BY <1>1, I2cAssumption
    DEF Prepare, Thread, ctl, seen, Inv, Places, Calls, NoCall, I2cAssumption, Channel,
        Asked, Sets, Bits
  <2>2. Own'
    BY <1>1 DEF Prepare, Thread, ctl, seen, Inv, Own, Started, InCall
  <2>3. InStep'
    <3> SUFFICES ASSUME upset' = {} PROVE (Phases /\ Reported /\ Balance /\ Told)'
      BY DEF InStep
    <3>0. upset = {}
      BY <1>1 DEF Prepare, Thread, dev, ctl, seen
    <3> QED
      BY <1>1, <3>0
      DEF Prepare, Thread, ctl, seen, Inv, Started, InStep, Phases, Reported, InCall,
          Balance, Told, Returned
  <2> QED
    BY <2>1, <2>2, <2>3 DEF Inv
<1>2. CASE Arm
  <2>1. (Places /\ Channel /\ Sets /\ Bits /\ Asked)'
    BY <1>2 DEF Arm, Thread, ctl, seen, Inv, Places, Channel, Asked, Sets, Bits
  <2>2. Own'
    BY <1>2 DEF Arm, Thread, seen, Inv, Own, Started, InCall
  <2>3. InStep'
    <3> SUFFICES ASSUME upset' = {} PROVE (Phases /\ Reported /\ Balance /\ Told)'
      BY DEF InStep
    <3>0. upset = {}
      BY <1>2 DEF Arm, Thread, dev, ctl, seen
    <3> QED
      BY <1>2, <3>0
      DEF Arm, Thread, ctl, seen, Inv, InStep, Phases, Reported, InCall, Balance, Told,
          Returned
  <2> QED
    BY <2>1, <2>2, <2>3 DEF Inv
<1>3. CASE Start
  <2>1. Places'
    BY <1>3 DEF Start, Thread, dev, seen, Inv, Places
  <2>2. Channel'
    <3>1. Places /\ Channel
      BY DEF Inv
    <3>2. call.n \in 0 .. MaxCalls /\ call.len \in Nat /\ call.send \in BOOLEAN /\ call.stop \in BOOLEAN
      BY <3>1, CallType
    <3>3. hw' \in Transfers
      BY <1>3, <3>2, I2cAssumption DEF I2cAssumption, Start, Transfers
    <3> QED
      BY <1>3, <3>1, <3>3 DEF Start, Thread, Channel
  <2>3. Sets'
    BY <1>3 DEF Start, dev, seen, Inv, Sets, Irq
  <2>4. Bits'
    BY <1>3 DEF Start, dev, seen, Inv, Bits
  <2>5. Asked'
    BY <1>3 DEF Start, Thread, Irq, Asked
  <2>6. Own'
    BY <1>3 DEF Start, Thread, dev, seen, Inv, Own, Started, InCall
  <2>7. InStep'
    <3> SUFFICES ASSUME upset' = {} PROVE (Phases /\ Reported /\ Balance /\ Told)'
      BY DEF InStep
    <3>0. upset = {}
      BY <1>3 DEF Start, Thread, dev, ctl, seen
    <3> QED
      BY <1>3, <3>0
      DEF Start, Thread, dev, seen, Inv, Started, InStep, Phases, Reported, InCall,
          Ends, Places, Balance, Told, Returned
  <2> QED
    BY <2>1, <2>2, <2>3, <2>4, <2>5, <2>6, <2>7 DEF Inv
<1> QED
  BY <1>1, <1>2, <1>3

\* The end of the call: the pulse, or the time-out.
LEMMA Ending ==
    ASSUME Inv, TakePulse \/ LostBus \/ TimeOut \/ GiveUp \/ GivenUp
    PROVE  Inv'
<1>1. CASE TakePulse
  <2>0. /\ ~expected \/ "raced" \in upset
        /\ hw' \in Transfers /\ (ie' \in BOOLEAN /\ bb' \in BOOLEAN)
        /\ \/ UNCHANGED ctl
           \/ /\ hw'.phase \in {"idle", "stopping"} /\ stat' = {}
              /\ hw'.phase = "stopping" => bb'
    BY <1>1, Resets DEF TakePulse, Inv, Own, Channel, Bits, ctl
  <2>1. (Places /\ Sets /\ Bits /\ Asked)'
    BY <1>1, <2>0
    DEF TakePulse, Thread, ctl, dev, seen, Inv, Places, Sets, Codes, Bits, Asked, Needed
  <2>2. Channel'
    <3>1. pulses' \in Seq(1 .. MaxCalls)
      BY <1>1, OneLess DEF TakePulse, Inv, Channel
    <3> QED
      BY <2>0, <3>1 DEF Channel
  <2>3. Own'
    <3> SUFFICES ASSUME "raced" \notin upset PROVE Own'
      BY <1>1 DEF TakePulse, seen, Own
    <3>1. pulses = <<call.n>> /\ status # {}
      BY <1>1 DEF TakePulse, Inv, Own
    <3>2. pulses' = <<>> /\ (pc' = "lost" => "ARBL" \in status') /\ (pc' = "idle" => result' # {})
      BY <1>1, <3>1, OneTaken DEF TakePulse, Thread, dev
    <3> QED
      BY <3>2 DEF Own
  <2>4. InStep'
    <3> SUFFICES ASSUME upset' = {} PROVE (Phases /\ Reported /\ Balance /\ Told)'
      BY DEF InStep
    <3>0. upset = {} /\ ~expected
      BY <1>1, <2>0 DEF TakePulse, seen
    <3>1. Phases'
      BY <1>1, <2>0, <3>0 DEF TakePulse, Thread, dev, ctl, Inv, InStep, Phases, InCall
    <3>2. Reported'
      BY <1>1, <2>0, <3>0 DEF TakePulse, Thread, dev, ctl, Inv, InStep, Phases, Reported, Ends
    <3>3. Balance'
      BY <1>1, <3>0 DEF TakePulse, Thread, seen, Inv, InStep, Balance, InCall
    <3>4. Told'
      BY <1>1, <3>0
      DEF TakePulse, Thread, dev, seen, Inv, Own, Started, InStep, Balance, Told, InCall,
          Returned, Places, Bits, Needed
    <3> QED
      BY <3>1, <3>2, <3>3, <3>4
  <2> QED
    BY <2>1, <2>2, <2>3, <2>4 DEF Inv
<1>2. CASE TimeOut
  <2>1. (Places /\ Channel /\ Sets /\ Bits /\ Asked)'
    BY <1>2 DEF TimeOut, Thread, dev, ctl, seen, Inv, Places, Channel, Asked, Sets, Bits
  <2>2. Own'
    BY <1>2 DEF TimeOut, Thread, Own, Started, InCall
  <2>3. InStep'
    <3> SUFFICES ASSUME upset' = {} PROVE (Phases /\ Reported /\ Balance /\ Told)'
      BY DEF InStep
    <3>0. upset = {}
      BY <1>2 DEF TimeOut, Thread, dev, ctl, seen
    <3> QED
      BY <1>2, <3>0
      DEF TimeOut, Thread, dev, ctl, seen, Inv, Started, InStep, Phases, Reported,
          InCall, Ends, Balance, Told, Returned
  <2> QED
    BY <2>1, <2>2, <2>3 DEF Inv
<1>3. CASE GiveUp
  <2>0. /\ hw' \in Transfers /\ hw'.phase \in {"idle", "stopping"}
        /\ hw'.phase = "stopping" => ie' /\ bb'
        /\ ie' \in BOOLEAN /\ bb' \in BOOLEAN /\ stat' = {}
    BY <1>3, Resets DEF GiveUp
  <2>1. (Places /\ Channel /\ Sets /\ Bits /\ Asked)'
    BY <1>3, <2>0 DEF GiveUp, Thread, dev, seen, Inv, Places, Channel, Sets, Bits, Asked
  <2>2. Own'
    BY <1>3 DEF GiveUp, Thread, dev, seen, Inv, Own
  <2>3. InStep'
    BY <1>3, <2>0
    DEF GiveUp, Thread, dev, seen, Inv, Started, InStep, Phases, Reported, InCall, Ends,
        Balance, Told, Returned
  <2> QED
    BY <2>1, <2>2, <2>3 DEF Inv
<1>4. CASE LostBus
  <2>1. (Places /\ Channel /\ Sets /\ Bits /\ Asked)'
    BY <1>4 DEF LostBus, Thread, dev, ctl, seen, Inv, Places, Channel, Sets, Bits, Asked
  <2>2. Own'
    BY <1>4 DEF LostBus, Thread, dev, seen, Inv, Own
  <2>3. InStep'
    BY <1>4
    DEF LostBus, Thread, dev, ctl, seen, Inv, Own, Started, InStep, Phases, Reported,
        InCall, Ends, Balance, Told, Returned
  <2> QED
    BY <2>1, <2>2, <2>3 DEF Inv
<1>5. CASE GivenUp
  <2>1. (Places /\ Channel /\ Sets /\ Bits /\ Asked)'
    BY <1>5 DEF GivenUp, Thread, dev, ctl, seen, Inv, Places, Channel, Sets, Codes, Bits, Asked
  <2>2. Own'
    BY <1>5 DEF GivenUp, Thread, dev, seen, Inv, Own
  <2>3. InStep'
    BY <1>5
    DEF GivenUp, Thread, dev, ctl, seen, Inv, Started, InStep, Phases, Reported, InCall,
        Ends, Balance, Told, Returned
  <2> QED
    BY <2>1, <2>2, <2>3 DEF Inv
<1> QED
  BY <1>1, <1>2, <1>3, <1>4, <1>5

\* A round of i2c_intr().
LEMMA Serving ==
    ASSUME Inv, IsrEnds \/ IsrRead \/ IsrWrite \/ IsrUnderflow \/ IsrNothing
    PROVE  Inv'
<1>1. CASE IsrEnds
  <2>1. Places'
    BY <1>1 DEF IsrEnds, Round, Inv, Places
  <2>2. Channel'
    <3>1. call.n \in 1 .. MaxCalls
      BY <1>1, CallType DEF IsrEnds, Inv, Places
    <3>2. pulses' \in Seq(1 .. MaxCalls)
      BY <1>1, <3>1, OneMore DEF IsrEnds, Event, Pulse, Inv, Channel
    <3>3. hw' \in Transfers
      <4>1. CASE "NACK" \in stat
        BY <1>1, <4>1, Stops DEF IsrEnds, Inv
      <4>2. CASE "NACK" \notin stat
        BY <1>1, <4>2 DEF IsrEnds, Inv, Channel
      <4> QED
        BY <4>1, <4>2
    <3> QED
      BY <3>2, <3>3 DEF Channel
  <2>3. Sets'
    BY <1>1 DEF IsrEnds, Round, Event, Pulse, Errors, Inv, Sets, Codes
  <2>4. Bits'
    BY <1>1 DEF IsrEnds, Round, Event, Pulse, Inv, Bits
  <2>5. Asked'
    BY <1>1 DEF IsrEnds, Round, Asked
  <2>6. Own'
    <3> SUFFICES ASSUME "raced" \notin upset' PROVE Own'
      BY DEF Own
    <3>1. pc \in {"start", "wait"} /\ "raced" \notin upset
      BY <1>1 DEF IsrEnds, Event, Pulse
    <3>2. pulses = <<>>
      BY <1>1, <3>1 DEF IsrEnds, Inv, Own
    <3>3. pulses' = <<call.n>> /\ ~expected' /\ status' # {}
      BY <1>1, <3>2 DEF IsrEnds, Event, Pulse
    <3>4. UNCHANGED <<pc, call>>
      BY <1>1 DEF IsrEnds, Round
    <3> QED
      BY <3>1, <3>3, <3>4 DEF Own
  <2>7. InStep'
    <3> SUFFICES ASSUME upset' = {} PROVE (Phases /\ Reported /\ Balance /\ Told)'
      BY DEF InStep
    <3>0. upset = {}
      BY <1>1 DEF IsrEnds, Round, Event, Pulse, MakeStop, Errors, dev, ctl, seen
    <3>1. (Phases /\ Reported /\ Balance)'
      <4>1. pc \in {"start", "wait"} /\ expected /\ ~expected' /\ stat # {} /\ stat' = {} /\ ie
        BY <1>1 DEF IsrEnds, Round, Event, Pulse
      <4>2. pc = "wait"
        BY <3>0, <4>1 DEF Inv, InStep, Reported
      <4>3. UNCHANGED <<pc, call, ie, bb, xlen, buf, moved, stray>>
        BY <1>1 DEF IsrEnds, Round
      <4>4. /\ hw'.of = hw.of /\ hw'.send = hw.send
            /\ hw'.phase = hw.phase \/ (hw'.phase = "stopping" /\ hw.phase \in {"run", "nacked"})
            /\ hw.phase = "nacked" => hw'.phase = "stopping"
        BY <1>1, <3>0, Stops DEF IsrEnds, Inv, InStep, Phases
      <4>5. hw'.phase # "run"
        BY <1>1, <3>0, <4>1, <4>4, Stops DEF IsrEnds, Inv, InStep, Reported
      <4>6. Phases'
        BY <3>0, <4>1, <4>2, <4>3, <4>4, <4>5 DEF Inv, InStep, Phases
      <4>7. Reported'
        BY <4>1, <4>2, <4>3, <4>5 DEF Reported
      <4>8. Balance'
        BY <3>0, <4>1, <4>2, <4>3, <4>4 DEF Inv, InStep, Balance, InCall
      <4> QED
        BY <4>6, <4>7, <4>8
    <3>2. Told'
      <4> USE DEF Inv, InStep
      <4>1. expected /\ ~expected' /\ InCall /\ status = {} /\ status' = Errors \cup {"DONE"}
        BY <1>1, <3>0 DEF IsrEnds, Round, Event, Pulse, Reported, Started, InCall, Ends, Phases, Told, Own
      <4>2. status' = {"DONE"} => "ARDY" \in stat
        BY <1>1, <4>1 DEF IsrEnds, Ends, Errors
      <4>3. ("early_ready" \notin hazards \/ call.send) /\ status' = {"DONE"} => xlen' = 0
        BY <1>1, <3>0, <4>1, <4>2 DEF IsrEnds, Round, Told
      <4> QED
        BY <1>1, <4>1, <4>3 DEF IsrEnds, Round, Told, Returned, InCall, Started
    <3> QED
      BY <3>1, <3>2
  <2> QED
    BY <2>1, <2>2, <2>3, <2>4, <2>5, <2>6, <2>7 DEF Inv
<1>2. CASE IsrRead
  <2>1. Places'
    <3>1. PICK k \in 0 .. xlen : Uses(k)
      BY <1>2, Reads
    <3>2. xlen \in Nat /\ moved \in Nat
      BY DEF Inv, Places
    <3>3. xlen' \in Nat /\ moved' \in Nat
      BY <3>1, <3>2 DEF Uses
    <3> QED
      BY <1>2, <3>1, <3>3 DEF IsrRead, Goes, Round, Uses, Inv, Places
  <2>2. Channel'
    <3>1. hw' \in Transfers
      BY <1>2, Reads
    <3> QED
      BY <1>2, <3>1 DEF IsrRead, Inv, Channel
  <2>3. (Sets /\ Bits /\ Asked)'
    BY <1>2
    DEF IsrRead, Goes, Uses, IsrStatus, Errors, Round, Inv, Sets, Codes, Bits, Asked
  <2>4. Own'
    BY <1>2 DEF IsrRead, Goes, IsrStatus, Round, Inv, Own, Started, InCall
  <2>5. InStep'
    <3> SUFFICES ASSUME upset' = {} PROVE (Phases /\ Reported /\ Balance /\ Told)'
      BY DEF InStep
    <3>0. upset = {}
      BY <1>2 DEF IsrRead, Goes, Round, Uses, IsrStatus, Errors, Least, dev, ctl, seen
    <3>1. (Phases /\ Reported /\ Told)'
      BY <1>2, <3>0
      DEF IsrRead, Goes, IsrStatus, Errors, Round, Inv, Own, Started, InStep, Phases, Reported,
          InCall, Ends, Told, Returned
    <3>2. Balance'
      <4> USE DEF Inv, InStep
      <4>1. PICK k \in 0 .. xlen :
               /\ Uses(k)
               /\ hw'.phase = hw.phase /\ hw'.of = hw.of /\ hw'.send = hw.send /\ hw'.left = hw.left
               /\ hw.fifo <= xlen => hw'.fifo = hw.fifo - k
        BY <1>2, Reads
      <4>2. InCall /\ expected /\ ~hw.send
        BY <1>2, <3>0 DEF IsrRead, Goes, Round, Reported, Asked
      <4>3. xlen \in Nat /\ moved \in Nat /\ hw.left \in Nat /\ hw.fifo \in Nat /\ call.len \in Nat
        BY CallType, I2cAssumption DEF I2cAssumption, Places, Channel, Transfers
      <4>4. /\ buf = call.n /\ hw.of = call.n /\ (hw.send <=> call.send) /\ ~stray
            /\ moved + xlen = call.len /\ xlen = hw.left + hw.fifo
        BY <3>0, <4>2 DEF Balance, InCall
      <4>5. UNCHANGED <<pc, call, buf>>
        BY <1>2, <4>1 DEF IsrRead, Goes, Round, Uses
      <4>6. ~stray'
        BY <4>1, <4>2, <4>4 DEF Uses, InCall
      <4>7. moved' + xlen' = call.len /\ xlen' = hw'.left + hw'.fifo
        BY <4>1, <4>3, <4>4 DEF Uses
      <4> QED
        BY <4>1, <4>2, <4>4, <4>5, <4>6, <4>7 DEF Balance, InCall
    <3> QED
      BY <3>1, <3>2
  <2> QED
    BY <2>1, <2>2, <2>3, <2>4, <2>5 DEF Inv
<1>3. CASE IsrWrite
  <2>1. Places'
    <3>1. PICK k \in 0 .. xlen : Uses(k)
      BY <1>3, Writes
    <3>2. xlen \in Nat /\ moved \in Nat
      BY DEF Inv, Places
    <3>3. xlen' \in Nat /\ moved' \in Nat
      BY <3>1, <3>2 DEF Uses
    <3> QED
      BY <1>3, <3>1, <3>3 DEF IsrWrite, Goes, Round, Uses, Inv, Places
  <2>2. Channel'
    <3>1. hw' \in Transfers
      BY <1>3, Writes
    <3> QED
      BY <1>3, <3>1 DEF IsrWrite, Inv, Channel
  <2>3. (Sets /\ Bits /\ Asked)'
    BY <1>3
    DEF IsrWrite, Goes, Uses, IsrStatus, Errors, Round, Inv, Sets, Codes, Bits, Asked
  <2>4. Own'
    BY <1>3 DEF IsrWrite, Goes, IsrStatus, Round, Inv, Own, Started, InCall
  <2>5. InStep'
    <3> SUFFICES ASSUME upset' = {} PROVE (Phases /\ Reported /\ Balance /\ Told)'
      BY DEF InStep
    <3>0. upset = {}
      BY <1>3 DEF IsrWrite, Goes, Round, Uses, IsrStatus, Errors, Least, Needed, dev, ctl, seen
    <3>1. (Phases /\ Reported /\ Told)'
      BY <1>3, <3>0
      DEF IsrWrite, Goes, IsrStatus, Errors, Round, Inv, Own, Started, InStep, Phases, Reported,
          InCall, Ends, Told, Returned
    <3>2. Balance'
      <4> USE DEF Inv, InStep
      <4>1. PICK k \in 0 .. xlen :
               /\ Uses(k)
               /\ hw'.phase = hw.phase /\ hw'.of = hw.of /\ hw'.send = hw.send /\ hw'.left = hw.left
               /\ hw'.fifo = hw.fifo + k /\ hw.send
        BY <1>3, Writes
      <4>2. InCall /\ expected
        BY <1>3, <3>0 DEF IsrWrite, Goes, Round, Reported
      <4>3. xlen \in Nat /\ moved \in Nat /\ hw.left \in Nat /\ hw.fifo \in Nat /\ call.len \in Nat
        BY CallType, I2cAssumption DEF I2cAssumption, Places, Channel, Transfers
      <4>4. /\ buf = call.n /\ hw.of = call.n /\ (hw.send <=> call.send) /\ ~stray
            /\ moved + xlen = call.len /\ xlen = hw.left - hw.fifo
        BY <3>0, <4>1, <4>2 DEF Balance, InCall
      <4>5. UNCHANGED <<pc, call, buf>>
        BY <1>3, <4>1 DEF IsrWrite, Goes, Round, Uses
      <4>6. ~stray'
        BY <4>1, <4>2, <4>4 DEF Uses, InCall
      <4>7. moved' + xlen' = call.len /\ xlen' = hw'.left - hw'.fifo
        BY <4>1, <4>3, <4>4 DEF Uses
      <4> QED
        BY <4>1, <4>2, <4>4, <4>5, <4>6, <4>7 DEF Balance, InCall
    <3> QED
      BY <3>1, <3>2
  <2> QED
    BY <2>1, <2>2, <2>3, <2>4, <2>5 DEF Inv
<1>4. CASE IsrUnderflow
  <2>1. (Places /\ Asked)'
    BY <1>4 DEF IsrUnderflow, Goes, Round, Inv, Places, Asked
  <2>2. Channel'
    <3>1. Channel /\ MakeStop
      BY <1>4 DEF IsrUnderflow, Inv
    <3>2. hw' \in Transfers
      BY <3>1, Stops
    <3>3. pulses' \in Seq(1 .. MaxCalls)
      <4>1. CASE expected
        <5>1. call.n \in 1 .. MaxCalls
          BY <4>1, CallType DEF Inv, Places
        <5> QED
          <6>1. pulses' = Append(pulses, call.n)
            BY <1>4, <4>1 DEF IsrUnderflow, Event, Pulse
          <6> QED
            BY <3>1, <5>1, <6>1, OneMore DEF Channel
      <4>2. CASE ~expected
        BY <1>4, <3>1, <4>2 DEF IsrUnderflow, Channel
      <4> QED
        BY <4>1, <4>2
    <3> QED
      BY <3>2, <3>3 DEF Channel
  <2>3. (Sets /\ Bits)'
    BY <1>4 DEF IsrUnderflow, Goes, Event, Pulse, Errors, Round, Inv, Sets, Codes, Bits
  <2>4. Own'
    <3> USE DEF Own, Inv
    <3> SUFFICES ASSUME "raced" \notin upset' PROVE Own'
      OBVIOUS
    <3>1. UNCHANGED <<pc, call, result>>
      BY <1>4 DEF IsrUnderflow, Goes, Round
    <3>2. CASE expected
      <4>1. pc \in {"start", "wait"} /\ "raced" \notin upset
        BY <1>4, <3>2 DEF IsrUnderflow, Event, Pulse
      <4>2. pulses = <<>>
        BY <3>2, <4>1
      <4>3. pulses' = <<call.n>> /\ ~expected' /\ status' # {}
        BY <1>4, <3>2, <4>2 DEF IsrUnderflow, Event, Pulse
      <4> QED
        BY <3>1, <4>1, <4>3
    <3>3. CASE ~expected
      <4>1. UNCHANGED <<expected, pulses, upset>> /\ status \subseteq status' /\ status' # {}
        BY <1>4, <3>3 DEF IsrUnderflow
      <4> QED
        BY <3>1, <3>3, <4>1
    <3> QED
      BY <3>2, <3>3
  <2>5. InStep'
    <3> SUFFICES ASSUME upset' = {} PROVE (Phases /\ Reported /\ Balance /\ Told)'
      BY DEF InStep
    <3>0. upset = {}
      BY <1>4 DEF IsrUnderflow, Goes, Round, MakeStop, Event, Pulse, Errors, dev, ctl, seen
    <3>1. (Phases /\ Reported /\ Balance)'
      BY <1>4, <3>0
      DEF IsrUnderflow, Goes, MakeStop, Event, Pulse, Round, Inv, Started, InStep, Phases, Reported,
          Balance
    <3>2. Told'
      <4>1. ~expected' /\ "ERROR" \in status'
        BY <1>4 DEF IsrUnderflow, Event, Pulse
      <4>2. UNCHANGED <<hazards, pc, call, result, moved>>
        BY <1>4 DEF IsrUnderflow, Goes, Round
      <4> QED
        BY <3>0, <4>1, <4>2 DEF Told, Inv, InStep, Returned
    <3> QED
      BY <3>1, <3>2
  <2> QED
    BY <2>1, <2>2, <2>3, <2>4, <2>5 DEF Inv
<1>5. CASE IsrNothing
  <2>1. (Places /\ Channel /\ Asked)'
    BY <1>5
    DEF IsrNothing, Goes, MakeStop, Round, Inv, Places, Channel, Transfers, Asked
  <2>2. (Sets /\ Bits)'
    BY <1>5 DEF IsrNothing, Goes, IsrStatus, Errors, Round, Inv, Sets, Codes, Bits
  <2>3. Own'
    BY <1>5 DEF IsrNothing, Goes, IsrStatus, Round, Inv, Own, Started, InCall
  <2>4. InStep'
    <3> SUFFICES ASSUME upset' = {} PROVE (Phases /\ Reported /\ Balance /\ Told)'
      BY DEF InStep
    <3>0. upset = {}
      BY <1>5 DEF IsrNothing, Goes, Round, IsrStatus, MakeStop, Errors, dev, ctl, seen
    <3> QED
      BY <1>5, <3>0
      DEF IsrNothing, Goes, IsrStatus, Errors, Round, Inv, Own, Started, InStep, Phases,
          Reported, InCall, Ends, Balance, Told, Returned
  <2> QED
    BY <2>1, <2>2, <2>3, <2>4 DEF Inv
<1> QED
  BY <1>1, <1>2, <1>3, <1>4, <1>5

\* What happens on the bus.
LEMMA OnTheBus ==
    ASSUME Inv,
           \/ Byte \/ Attention \/ Complete \/ Refuse
           \/ LoseBus \/ OtherMaster \/ Underflow \/ StopMade
    PROVE  Inv'
<1>1. CASE Byte
  <2>1. (Places /\ Sets /\ Bits)'
    BY <1>1 DEF Byte, Rest, dev, seen, Inv, Places, Sets, Bits
  <2>2. Channel'
    <3>1. hw' \in Transfers
      BY <1>1, Moves DEF Inv
    <3> QED
      BY <1>1, <3>1 DEF Byte, Rest, Inv, Channel
  <2>3. Asked'
    <3>1. /\ hw'.send = hw.send /\ hw'.left = hw.left - 1
          /\ hw'.fifo = IF hw.send THEN hw.fifo - 1 ELSE hw.fifo + 1
      BY <1>1, Moves DEF Inv
    <3>2. hw.left \in Nat /\ hw.fifo \in Nat /\ Threshold \in Nat
      BY I2cAssumption DEF I2cAssumption, Inv, Channel, Transfers
    <3>3. UNCHANGED <<ie, stat>>
      BY <1>1 DEF Byte, Rest
    <3> QED
      BY <3>1, <3>2, <3>3 DEF Asked, Needed, Inv
  <2>4. Own'
    BY <1>1 DEF Byte, Running, Rest, dev, seen, Inv, Own, Started, InCall
  <2>5. InStep'
    <3> SUFFICES ASSUME upset' = {} PROVE (Phases /\ Reported /\ Balance /\ Told)'
      BY DEF InStep
    <3>0. upset = {}
      BY <1>1 DEF Byte, Running, Raise, Rest, dev, ctl, seen
    <3>1. (Phases /\ Reported /\ Told)'
      BY <1>1, <3>0
      DEF Byte, Running, Rest, dev, Inv, Own, Started, InStep, Phases, Reported, InCall, Ends,
          Channel, Transfers, Told, Returned
    <3>2. Balance'
      <4>1. /\ hw'.of = hw.of /\ hw'.send = hw.send /\ hw'.left = hw.left - 1
            /\ hw'.fifo = IF hw.send THEN hw.fifo - 1 ELSE hw.fifo + 1
        BY <1>1, Moves DEF Inv
      <4>2. hw.left \in Nat /\ hw.fifo \in Nat /\ xlen \in Nat
        BY I2cAssumption DEF I2cAssumption, Inv, Places, Channel, Transfers
      <4>3. UNCHANGED <<pc, call, xlen, buf, expected, moved, stray>>
        BY <1>1 DEF Byte, Rest, dev, seen
      <4> QED
        BY <3>0, <4>1, <4>2, <4>3 DEF Balance, InCall, Inv, InStep
    <3> QED
      BY <3>1, <3>2
  <2> QED
    BY <2>1, <2>2, <2>3, <2>4, <2>5 DEF Inv
<1>2. CASE Attention
  <2>1. (Places /\ Channel /\ Asked)'
    BY <1>2 DEF Attention, Raise, Rest, dev, seen, Inv, Places, Channel, Asked, Needed
  <2>2. (Sets /\ Bits)'
    BY <1>2 DEF Attention, Raise, Rest, dev, seen, Inv, Sets, Irq, Bits
  <2>3. Own'
    BY <1>2 DEF Attention, Running, Rest, dev, seen, Inv, Own, Started, InCall
  <2>4. InStep'
    <3> SUFFICES ASSUME upset' = {} PROVE (Phases /\ Reported /\ Balance /\ Told)'
      BY DEF InStep
    <3>0. upset = {}
      BY <1>2 DEF Attention, Running, Raise, Rest, dev, ctl, seen
    <3> QED
      BY <1>2, <3>0
      DEF Attention, Running, Raise, Rest, dev, seen, Inv, Own, Started, InStep, Phases,
          Reported, InCall, Ends, Balance, Told, Returned
  <2> QED
    BY <2>1, <2>2, <2>3, <2>4 DEF Inv
<1>3. CASE Complete
  <2>1. (Places /\ Channel /\ Sets /\ Bits /\ Asked)'
    BY <1>3
    DEF Complete, Raise, Rest, dev, seen, Inv, Places, Channel, Transfers, Asked, Sets,
        Codes, Irq, Bits, Needed
  <2>2. Own'
    BY <1>3 DEF Complete, Running, Rest, dev, seen, Inv, Own, Started, InCall
  <2>3. InStep'
    <3> SUFFICES ASSUME upset' = {} PROVE (Phases /\ Reported /\ Balance /\ Told)'
      BY DEF InStep
    <3>0. upset = {}
      BY <1>3 DEF Complete, Running, Raise, Rest, dev, ctl, seen
    <3>1. InCall /\ expected /\ status = {}
      BY <1>3, <3>0 DEF Complete, Running, Inv, InStep, Phases, Told, Started
    <3>2. UNCHANGED <<hazards, pc, call, result, dev, ie, seen>>
      BY <1>3 DEF Complete, Rest
    <3>3. "early_ready" \notin hazards \/ call.send => xlen = 0
      <4>1. hw.left = 0 /\ (hw.fifo = 0 \/ "early_ready" \in hazards)
        BY <1>3 DEF Complete
      <4>2. hw.fifo \in Nat /\ xlen \in Nat
        BY I2cAssumption DEF I2cAssumption, Inv, Places, Channel, Transfers
      <4>3. /\ hw.send <=> call.send
            /\ xlen = IF hw.send THEN hw.left - hw.fifo ELSE hw.left + hw.fifo
        BY <3>0, <3>1 DEF Inv, InStep, Balance
      <4> QED
        BY <4>1, <4>2, <4>3
    <3>4. (Phases /\ Reported /\ Balance)'
      BY <1>3, <3>0, <3>1, <3>2
      DEF Complete, Running, Raise, dev, seen, Inv, InStep, Phases, Reported, Balance, InCall,
          Ends, Channel, Transfers
    <3>5. Told'
      BY <3>0, <3>1, <3>2, <3>3 DEF dev, seen, Inv, InStep, Told, Started, InCall, Returned
    <3> QED
      BY <3>4, <3>5
  <2> QED
    BY <2>1, <2>2, <2>3 DEF Inv
<1>4. CASE Refuse
  <2>1. (Places /\ Channel /\ Asked)'
    BY <1>4
    DEF Refuse, Raise, Rest, dev, seen, Inv, Places, Channel, Transfers, Asked, Needed
  <2>2. (Sets /\ Bits)'
    BY <1>4 DEF Refuse, Raise, Rest, dev, seen, Inv, Sets, Irq, Bits
  <2>3. Own'
    BY <1>4 DEF Refuse, Running, Rest, dev, seen, Inv, Own, Started, InCall
  <2>4. InStep'
    <3> SUFFICES ASSUME upset' = {} PROVE (Phases /\ Reported /\ Balance /\ Told)'
      BY DEF InStep
    <3>0. upset = {}
      BY <1>4 DEF Refuse, Running, Raise, Rest, dev, ctl, seen
    <3> QED
      BY <1>4, <3>0
      DEF Refuse, Running, Raise, Rest, dev, seen, Inv, Own, Started, InStep, Phases, Reported,
          InCall, Balance, Told, Returned
  <2> QED
    BY <2>1, <2>2, <2>3, <2>4 DEF Inv
<1>5. CASE LoseBus
  <2>1. (Places /\ Channel /\ Asked)'
    BY <1>5
    DEF LoseBus, Raise, Rest, dev, seen, Inv, Places, Channel, Transfers, Asked, Needed
  <2>2. (Sets /\ Bits)'
    BY <1>5 DEF LoseBus, Raise, Rest, dev, seen, Inv, Sets, Irq, Bits
  <2>3. Own'
    BY <1>5 DEF LoseBus, Running, Rest, dev, seen, Inv, Own, Started, InCall
  <2>4. InStep'
    <3> SUFFICES ASSUME upset' = {} PROVE (Phases /\ Reported /\ Balance /\ Told)'
      BY DEF InStep
    <3>0. upset = {}
      BY <1>5 DEF LoseBus, Running, Raise, Rest, dev, ctl, seen
    <3> QED
      BY <1>5, <3>0
      DEF LoseBus, Running, Raise, Rest, dev, seen, Inv, Own, Started, InStep, Phases, Reported,
          InCall, Balance, Told, Returned
  <2> QED
    BY <2>1, <2>2, <2>3, <2>4 DEF Inv
<1>6. CASE OtherMaster
  <2>1. (Places /\ Channel /\ Asked)'
    BY <1>6 DEF OtherMaster, Rest, dev, seen, Inv, Places, Channel, Asked, Needed
  <2>2. (Sets /\ Bits)'
    BY <1>6 DEF OtherMaster, Rest, dev, seen, Inv, Sets, Bits
  <2>3. Own'
    BY <1>6 DEF OtherMaster, Rest, dev, seen, Inv, Own, Started, InCall
  <2>4. InStep'
    <3> SUFFICES ASSUME upset' = {} PROVE (Phases /\ Reported /\ Balance /\ Told)'
      BY DEF InStep
    <3>0. upset = {}
      BY <1>6 DEF OtherMaster, Running, Raise, Rest, dev, ctl, seen
    <3> QED
      BY <1>6, <3>0
      DEF OtherMaster, Rest, dev, seen, Inv, Started, InStep, Phases, Reported, InCall,
          Balance, Told, Returned
  <2> QED
    BY <2>1, <2>2, <2>3, <2>4 DEF Inv
<1>7. CASE Underflow
  <2>1. (Places /\ Channel /\ Sets /\ Bits /\ Asked)'
    BY <1>7
    DEF Underflow, Raise, Rest, dev, seen, Inv, Places, Channel, Asked, Sets, Bits,
        Needed
  <2>2. Own'
    BY <1>7 DEF Underflow, Running, Rest, dev, seen, Inv, Own, Started, InCall
  <2>3. InStep'
    <3> SUFFICES ASSUME upset' = {} PROVE (Phases /\ Reported /\ Balance /\ Told)'
      BY DEF InStep
    <3>0. upset = {}
      BY <1>7 DEF Underflow, Running, Raise, Rest, dev, ctl, seen
    <3> QED
      BY <1>7, <3>0
      DEF Underflow, Running, Raise, Rest, dev, seen, Inv, Own, Started, InStep, Phases,
          Reported, InCall, Ends, Balance, Told, Returned
  <2> QED
    BY <2>1, <2>2, <2>3 DEF Inv
<1>8. CASE StopMade
  <2>1. (Places /\ Channel /\ Asked)'
    BY <1>8
    DEF StopMade, Raise, Rest, dev, seen, Inv, Places, Channel, Transfers, Asked, Needed
  <2>2. (Sets /\ Bits)'
    BY <1>8 DEF StopMade, Raise, Rest, dev, seen, Inv, Sets, Irq, Bits
  <2>3. Own'
    BY <1>8 DEF StopMade, Rest, dev, seen, Inv, Own, Started, InCall
  <2>4. InStep'
    <3> SUFFICES ASSUME upset' = {} PROVE (Phases /\ Reported /\ Balance /\ Told)'
      BY DEF InStep
    <3>0. upset = {}
      BY <1>8 DEF StopMade, Running, Raise, Rest, dev, ctl, seen
    <3> QED
      BY <1>8, <3>0
      DEF StopMade, Raise, Rest, dev, seen, Inv, Started, InStep, Phases, Reported, InCall,
          Balance, Told, Returned
  <2> QED
    BY <2>1, <2>2, <2>3, <2>4 DEF Inv
<1> QED
  BY <1>1, <1>2, <1>3, <1>4, <1>5, <1>6, <1>7, <1>8

(***************************************************************************)
(* The theorems.                                                           *)
(***************************************************************************)
\* Before the first call nothing is under way.
LEMMA Starts == Init => Inv
<1> SUFFICES ASSUME Init PROVE Inv
  OBVIOUS
<1>1. Places /\ Sets
  BY I2cAssumption DEF I2cAssumption, Init, Places, NoCall, Sets
<1>2. Channel
  BY OffType DEF Init, Channel
<1>3. Bits
  BY DEF Init, Bits
<1>4. Asked /\ Own /\ InStep
  BY OffType DEF Init, Asked, Own, InStep, Phases, Reported, Balance, Told, Started, InCall, Returned
<1> QED
  BY <1>1, <1>2, <1>3, <1>4 DEF Inv

\* A stuttering step changes nothing.
LEMMA Stays == ASSUME Inv, UNCHANGED vars PROVE Inv'
<1> USE DEF vars, dev, ctl, seen
<1>1. (Places /\ Channel /\ Sets /\ Bits)'
  BY DEF Inv, Places, Channel, Sets, Bits
<1>2. (Asked /\ Own)'
  BY DEF Inv, Asked, Needed, Own, Started, InCall
<1>3. InStep'
  BY DEF Inv, InStep, Phases, Reported, Ends, Balance, Told, Started, InCall, Returned
<1> QED
  BY <1>1, <1>2, <1>3 DEF Inv

\* The invariant of the driver, its interrupt routine and the bus.
LEMMA Inductive == Spec => []Inv
<1>1. Inv /\ [Next]_vars => Inv'
  BY Stays, Calling, Waiting, Going, Ending, Serving, OnTheBus DEF Next, Driver, Isr, Bus
<1> QED
  BY <1>1, Starts, PTL DEF Spec

\* Every reachable state is well typed; in particular no round of i2c_intr() moves
\* more bytes than the call has left, nor more than the FIFO holds.
THEOREM Typing == Spec => []TypeOK
<1>1. Inv => TypeOK
  <2> SUFFICES ASSUME Inv PROVE TypeOK
    OBVIOUS
  <2>1. /\ hw.phase \in {"idle", "run", "held", "nacked", "stopping"}
        /\ hw.left \in Nat /\ hw.fifo \in 0 .. 2 * Threshold
    BY DEF Inv, Channel, Transfers
  <2> QED
    BY <2>1 DEF Inv, Places, NoCall, Channel, Sets, Bits, TypeOK
<1> QED
  BY <1>1, Inductive, PTL

\* "Done" means that every byte of the call was moved, for any length and FIFO
\* (send.c, recv.c, i2c_intr()), through errors, time-outs and resets, as long as
\* no end was reported after the time-out of its call and no bus was taken for kept
\* while a stop was being made; for a receive, if the controller reports the end
\* with its FIFO empty.
THEOREM Moved == Spec => []DoneMeansMoved
<1>1. Inv => DoneMeansMoved
  BY DEF Inv, InStep, Told, DoneMeansMoved
<1> QED
  BY <1>1, Inductive, PTL

\* No buffer is used after its call has returned (dev->buf), on the same two
\* conditions as to the calls and transfers before.
THEOREM Owning == Spec => []OwnsBuffer
<1>1. Inv => OwnsBuffer
  BY DEF Inv, InStep, Balance, OwnsBuffer
<1> QED
  BY <1>1, Inductive, PTL

\* The pulse a call waits for is its own, unless an end was reported after the
\* time-out of its call (omap_wait_status()).
THEOREM Waking == Spec => []OwnPulse
<1>1. Inv => OwnPulse
  BY DEF Inv, Own, OwnPulse
<1> QED
  BY <1>1, Inductive, PTL

\* No call returns without a verdict, on the same condition (omap_wait_status()).
THEOREM Judging == Spec => []Verdict
<1>1. Inv => Verdict
  BY DEF Inv, Own, Verdict, Returned
<1> QED
  BY <1>1, Inductive, PTL
=============================================================================
