-------------------------- MODULE SerialLineProofs --------------------------
(***************************************************************************)
(* Type correctness of the serial line, what becomes of the input, and the *)
(* bound on what is sent after a stop, for all sizes and disturbances.     *)
(***************************************************************************)
EXTENDS SerialLine, TLAPS

\* The types, in two parts: the provers treat numbers and truth values apart.
Sizes ==
    /\ hazards \in Scenarios
    /\ pc \in {"idle", "tto", "put", "arm", "enable", "efr", "tlr", "divide", "lcr"}
    /\ obuf \in 0 .. MaxOut /\ flags \subseteq {"EVENT_TTO", "EVENT_QUEUED"} /\ queue \in 0 .. 1
    /\ bank \in {"data", "divisor", "extra"}
    /\ tx \in 0 .. Room /\ turns \in 0 .. MaxTurns /\ slipped \in Nat

Bits ==
    /\ override \in BOOLEAN /\ paged \in BOOLEAN
    /\ thr \in BOOLEAN /\ txi \in BOOLEAN /\ msr \in BOOLEAN
    /\ cts \in BOOLEAN

\* The types of the input.
Inputs ==
    /\ rx \in Seq(BOOLEAN) /\ Len(rx) <= Room /\ overrun \in BOOLEAN
    /\ isr \in {"none", "character", "status"}
    /\ lsr \in [bad : BOOLEAN, lost : Nat]
    /\ came \in 0 .. MaxIn /\ got \in Nat /\ lost \in Nat /\ told \in Nat
    /\ lost <= came /\ told + lsr.lost <= lost
    /\ astray \subseteq {"empty", "mark", "divisor"}

\* The line is in the queue of events while its flag says so, and no longer.
Queued == queue > 0 => "EVENT_QUEUED" \in flags

\* What tto() looked at before it takes a character: nobody else takes one, and
\* the transmitter only empties.
Putting == pc = "put" => obuf > 0 /\ tx < Room

\* What ser_intr() knows of the next character; and while an overrun waits to be
\* read there are characters in the FIFO: all of them, or all but the one that the
\* routine has taken.  So the loop does not leave with it.
Reading ==
    "divisor" \notin astray =>
        /\ astray = {} /\ got + Len(rx) + lost = came
        /\ told + lsr.lost = lost \/ overrun
        /\ isr = "character" => rx # <<>> /\ lsr.bad = Head(rx)
        /\ isr # "character" => lsr.lost = 0
        /\ overrun => Len(rx) >= IF isr = "status" THEN Room - 1 ELSE Room

\* A character that slips out is the first after the stop; a control character
\* does not count.
Slipping ==
    /\ slipped <= 1
    /\ slipped > 0 => paged
    /\ pc = "put" /\ ~override => slipped = 0

Inv == Sizes /\ Bits /\ Inputs /\ Queued /\ Putting /\ Reading /\ Slipping

(***************************************************************************)
(* Inv holds at the start, and every step keeps it.                        *)
(***************************************************************************)
LEMMA Start == Init => Inv
  <1> SUFFICES ASSUME Init PROVE Inv
    OBVIOUS
  <1> USE SerialAssumption DEF SerialAssumption, Init
  <1>1. Sizes /\ Bits
    <2>1. Sizes
      BY DEF Sizes
    <2>2. Bits
      BY DEF Bits
    <2> QED
      BY <2>1, <2>2
  <1>2. Inputs
    <2>1. rx \in Seq(BOOLEAN) /\ Len(rx) = 0
      OBVIOUS
    <2>2. lsr \in [bad : BOOLEAN, lost : Nat] /\ lsr.lost = 0
      BY DEF NoError
    <2>3. overrun \in BOOLEAN
      OBVIOUS
    <2>4. /\ isr \in {"none", "character", "status"}
          /\ astray \subseteq {"empty", "mark", "divisor"}
      OBVIOUS
    <2>5. /\ Len(rx) <= Room
          /\ came \in 0 .. MaxIn /\ got \in Nat /\ lost \in Nat /\ told \in Nat /\ lost <= came
      BY <2>1
    <2>6. /\ Len(rx) <= Room /\ overrun \in BOOLEAN /\ isr \in {"none", "character", "status"}
          /\ came \in 0 .. MaxIn /\ got \in Nat /\ lost \in Nat /\ told \in Nat /\ lost <= came
          /\ astray \subseteq {"empty", "mark", "divisor"}
      BY <2>3, <2>4, <2>5
    <2>7. told + lsr.lost <= lost
      BY <2>2
    <2> QED
      BY <2>1, <2>2, <2>6, <2>7 DEF Inputs
  <1>3. Queued /\ Putting /\ Reading /\ Slipping
    BY DEF Queued, Putting, Reading, NoError, Slipping
  <1> QED
    BY <1>1, <1>2, <1>3 DEF Inv

\* The thread does not touch the input, and waits for the routine to end.
LEMMA ThreadReads == ASSUME Inv, NEW from, NEW to, Thread(from, to) PROVE (Inputs /\ Reading)'
  BY DEF Inv, Inputs, Reading, Thread, seen

LEMMA ClientKeeps == Inv /\ (Client \/ TakeEvent) => Inv'
  <1> SUFFICES ASSUME Inv, Client \/ TakeEvent PROVE Inv'
    OBVIOUS
  <1>0. (Inputs /\ Reading)'
    BY ThreadReads DEF Client, Write, Inject, SttyEfr, Switch, TakeEvent
  <1> USE SerialAssumption DEF SerialAssumption, Sizes, Bits, Queued, Putting, Slipping, Thread
  <1>1. CASE Write
    BY <1>0, <1>1 DEF Inv, Write
  <1>2. CASE Inject
    BY <1>0, <1>2 DEF Inv, Inject
  <1>3. CASE SttyEfr
    BY <1>0, <1>3 DEF Inv, SttyEfr, Switch, io
  <1>4. CASE TakeEvent
    BY <1>0, <1>4 DEF Inv, TakeEvent
  <1> QED
    BY <1>1, <1>2, <1>3, <1>4 DEF Client

LEMMA TtoKeeps == Inv /\ (TtoLoop \/ TtoPut \/ TtoArm \/ TtoEnable) => Inv'
  <1> SUFFICES ASSUME Inv, TtoLoop \/ TtoPut \/ TtoArm \/ TtoEnable PROVE Inv'
    OBVIOUS
  <1>0. (Inputs /\ Reading)'
    BY ThreadReads DEF TtoLoop, TtoPut, TtoArm, TtoEnable
  <1> USE SerialAssumption DEF SerialAssumption, Sizes, Bits, Queued, Putting, Slipping, Thread
  <1>1. CASE TtoLoop
    BY <1>0, <1>1 DEF Inv, TtoLoop, Sendable, io
  <1>2. CASE TtoPut
    <2>1. Sizes'
      BY <1>2 DEF Inv, TtoPut
    <2>2. Bits'
      BY <1>2 DEF Inv, TtoPut
    <2>3. (Queued /\ Putting)'
      BY <1>2 DEF Inv, TtoPut
    <2>4. Slipping'
      BY <1>2 DEF Inv, TtoPut
    <2> QED
      BY <1>0, <2>1, <2>2, <2>3, <2>4 DEF Inv
  <1>3. CASE TtoArm
    BY <1>0, <1>3 DEF Inv, TtoArm, io
  <1>4. CASE TtoEnable
    BY <1>0, <1>4 DEF Inv, TtoEnable, io
  <1> QED
    BY <1>1, <1>2, <1>3, <1>4

LEMMA SttyKeeps == Inv /\ (SttyTlr \/ SttyEfrBack \/ SttyDivide \/ SttyLcr) => Inv'
  <1> SUFFICES ASSUME Inv, SttyTlr \/ SttyEfrBack \/ SttyDivide \/ SttyLcr PROVE Inv'
    OBVIOUS
  <1>0. (Inputs /\ Reading)'
    BY ThreadReads DEF SttyTlr, SttyEfrBack, SttyDivide, SttyLcr, Switch
  <1> USE DEF Sizes, Bits, Queued, Putting, Slipping, Thread, Switch, io
  <1>1. CASE SttyTlr
    BY <1>0, <1>1 DEF Inv, SttyTlr
  <1>2. CASE SttyEfrBack
    BY <1>0, <1>2 DEF Inv, SttyEfrBack
  <1>3. CASE SttyDivide
    BY <1>0, <1>3 DEF Inv, SttyDivide
  <1>4. CASE SttyLcr
    BY <1>0, <1>4 DEF Inv, SttyLcr
  <1> QED
    BY <1>1, <1>2, <1>3, <1>4

\* The interrupts that are not about input.
LEMMA OutputKeeps == Inv /\ (IsrTransmit \/ IsrModem) => Inv'
  <1> SUFFICES ASSUME Inv, IsrTransmit \/ IsrModem PROVE Inv'
    OBVIOUS
  <1> USE DEF Inv, Sizes, Bits, Queued, Putting, Slipping, Isr
  <1>1. (Inputs /\ Reading)'
    <2>1. UNCHANGED <<rx, overrun, isr, lsr, seen>>
      BY DEF IsrTransmit, IsrModem
    <2> QED
      BY <2>1 DEF Inputs, Reading, seen
  <1>2. CASE IsrTransmit
    <2>1. (Sizes /\ Queued /\ Putting)'
      BY <1>2 DEF IsrTransmit
    <2>2. Bits'
      BY <1>2 DEF IsrTransmit
    <2>3. Slipping'
      BY <1>2 DEF IsrTransmit
    <2> QED
      BY <1>1, <2>1, <2>2, <2>3
  <1>3. CASE IsrModem
    <2>1. (Sizes /\ Queued /\ Putting)'
      BY <1>3 DEF IsrModem
    <2>2. Bits'
      BY <1>3 DEF IsrModem
    <2>3. Slipping'
      BY <1>3 DEF IsrModem
    <2> QED
      BY <1>1, <2>1, <2>2, <2>3
  <1> QED
    BY <1>2, <1>3

\* The error of the next character.
LEMMA NextCharacter ==
    ASSUME rx \in Seq(BOOLEAN), rx # <<>>
    PROVE  /\ Head(rx) \in BOOLEAN /\ Bad = Head(rx)
           /\ Tail(rx) \in Seq(BOOLEAN) /\ Len(Tail(rx)) = Len(rx) - 1 /\ Len(rx) \in Nat \ {0}
  <1>1. rx[1] \in BOOLEAN /\ Head(rx) = rx[1]
    OBVIOUS
  <1>2. Bad = Head(rx)
    BY <1>1 DEF Bad
  <1>3. Tail(rx) \in Seq(BOOLEAN) /\ Len(Tail(rx)) = Len(rx) - 1 /\ Len(rx) \in Nat \ {0}
    OBVIOUS
  <1> QED
    BY <1>1, <1>2, <1>3

\* What LSR says is true of the next character, and covers all that was lost.
LEMMA ReadingLsr ==
    ASSUME Inputs, ReadLsr
    PROVE  /\ lsr' \in [bad : BOOLEAN, lost : Nat] /\ lsr'.bad = Bad
           /\ told + lsr'.lost <= lost
           /\ overrun => told + lsr'.lost = lost
           /\ ~overrun => lsr'.lost = 0
  <1>1. Bad \in BOOLEAN
    BY NextCharacter DEF Inputs, Bad
  <1>2. lsr' = [bad |-> Bad, lost |-> IF overrun THEN lost - told ELSE 0]
    BY DEF ReadLsr
  <1>3. lost \in Nat /\ told \in Nat /\ told <= lost
    BY DEF Inputs
  <1> HIDE DEF Bad
  <1> QED
    BY <1>1, <1>2, <1>3

LEMMA ReceiveKeeps == Inv /\ (IsrReceive \/ IsrCharacter \/ IsrStatus) => Inv'
  <1> SUFFICES ASSUME Inv, IsrReceive \/ IsrCharacter \/ IsrStatus PROVE Inv'
    OBVIOUS
  <1>1. (Sizes /\ Bits /\ Queued /\ Putting /\ Slipping)'
    <2>1. UNCHANGED <<hazards, pc, obuf, override, paged, bank, thr, txi, msr, tx, cts, turns,
                      slipped>>
      BY DEF Receive, IsrReceive, IsrCharacter, IsrStatus
    <2>2. \/ flags' = flags /\ queue' = queue
          \/ /\ flags' = flags \cup {"EVENT_QUEUED"}
             /\ queue' = IF "EVENT_QUEUED" \in flags THEN queue ELSE queue + 1
      BY DEF IsrReceive, IsrCharacter, IsrStatus
    <2>3. Queued'
      BY <2>1, <2>2 DEF Inv, Sizes, Queued
    <2>4. flags' \subseteq {"EVENT_TTO", "EVENT_QUEUED"}
      BY <2>2 DEF Inv, Sizes
    <2>5. queue' \in 0 .. 1 /\ flags' \subseteq {"EVENT_TTO", "EVENT_QUEUED"}
      <3>1. "EVENT_QUEUED" \notin flags => queue = 0
        BY DEF Inv, Sizes, Queued
      <3> QED
        BY <2>2, <2>4, <3>1 DEF Inv, Sizes
    <2>6. (Sizes /\ Queued)'
      BY <2>1, <2>3, <2>5 DEF Inv, Sizes
    <2>7. Bits'
      BY <2>1 DEF Inv, Bits
    <2>8. (Putting /\ Slipping)'
      BY <2>1 DEF Inv, Putting, Slipping
    <2> QED
      BY <2>6, <2>7, <2>8
  <1>2. CASE IsrReceive
    <2>1. /\ isr = "none" /\ isr' = "character" /\ Received /\ ReadLsr /\ overrun' = FALSE
          /\ UNCHANGED <<rx, got, told, astray, came, lost>>
      BY <1>2 DEF IsrReceive, Receive, ReadLsr
    <2>2. Inputs'
      BY <2>1, ReadingLsr DEF Inv, Inputs
    <2>3. Reading'
      <3> SUFFICES ASSUME "divisor" \notin astray PROVE Reading'
        BY <2>1 DEF Reading
      <3>1. /\ astray = {} /\ got + Len(rx) + lost = came
            /\ told + lsr.lost = lost \/ overrun
            /\ lsr.lost = 0 /\ (overrun => Len(rx) >= Room)
        BY <2>1 DEF Inv, Reading
      <3>2. rx # <<>>
        <4> SUFFICES ASSUME rx = <<>> PROVE FALSE
          OBVIOUS
        <4>1. Len(rx) = 0 /\ ~(0 >= Room)
          BY SerialAssumption DEF SerialAssumption
        <4>2. overrun
          BY <2>1 DEF Received
        <4> QED
          BY <3>1, <4>1, <4>2
      <3>3. told + lsr'.lost = lost
        BY <2>1, <3>1, ReadingLsr DEF Inv, Inputs
      <3>4. lsr'.bad = Head(rx)
        BY <2>1, <3>2, ReadingLsr, NextCharacter DEF Inv, Inputs
      <3> QED
        BY <2>1, <3>1, <3>2, <3>3, <3>4 DEF Reading
    <2> QED
      BY <1>1, <2>2, <2>3 DEF Inv
  <1>3. CASE IsrCharacter
    <2>1. /\ isr = "character" /\ isr' = "status" /\ lsr' = NoError /\ told' = told + lsr.lost
          /\ UNCHANGED <<overrun, came, lost>>
      BY <1>3 DEF IsrCharacter, Receive
    <2>2. lsr'.lost = 0 /\ lsr' \in [bad : BOOLEAN, lost : Nat]
      BY <2>1 DEF NoError
    <2>3. CASE bank = "divisor"
      <3>1. "divisor" \in astray' /\ astray' \subseteq astray \cup {"divisor"}
            /\ UNCHANGED <<rx, got>>
        BY <1>3, <2>3 DEF IsrCharacter
      <3>2. Inputs'
        BY <2>1, <2>2, <3>1 DEF Inv, Inputs
      <3> QED
        BY <1>1, <3>1, <3>2 DEF Inv, Reading
    <2>4. CASE bank # "divisor"
      <3>1. /\ rx' = (IF rx = <<>> THEN rx ELSE Tail(rx)) /\ got' = got + 1
            /\ astray' = astray \cup (IF rx = <<>> THEN {"empty"} ELSE {})
                                \cup (IF lsr.bad # Bad THEN {"mark"} ELSE {})
        BY <1>3, <2>4 DEF IsrCharacter
      <3>2. rx # <<>> => /\ Tail(rx) \in Seq(BOOLEAN) /\ Len(Tail(rx)) = Len(rx) - 1
                         /\ Len(rx) \in Nat \ {0}
        BY NextCharacter DEF Inv, Inputs
      <3>3. Inputs'
        <4>1. rx' \in Seq(BOOLEAN) /\ Len(rx') <= Room
          <5>1. CASE rx = <<>>
            BY <3>1, <5>1 DEF Inv, Inputs
          <5>2. CASE rx # <<>>
            <6>1. rx' = Tail(rx) /\ Len(rx) <= Room /\ Room \in Nat
              BY <3>1, <5>2, SerialAssumption DEF SerialAssumption, Inv, Inputs
            <6> QED
              BY <3>2, <5>2, <6>1
          <5> QED
            BY <5>1, <5>2
        <4> QED
          BY <2>1, <2>2, <3>1, <4>1 DEF Inv, Inputs
      <3>4. Reading'
        <4> SUFFICES ASSUME "divisor" \notin astray PROVE Reading'
          BY <3>1 DEF Reading
        <4>1. /\ astray = {} /\ got + Len(rx) + lost = came
              /\ told + lsr.lost = lost \/ overrun
              /\ rx # <<>> /\ lsr.bad = Head(rx) /\ (overrun => Len(rx) >= Room)
          BY <2>1 DEF Inv, Reading
        <4>2. rx' = Tail(rx) /\ astray' = {} /\ lsr.bad = Bad
          BY <3>1, <4>1, NextCharacter DEF Inv, Inputs
        <4>3. got \in Nat /\ lost \in Nat /\ came \in Nat /\ Room \in Nat
              /\ told \in Nat /\ lsr.lost \in Nat
          BY SerialAssumption DEF SerialAssumption, Inv, Inputs
        <4>4. got' + Len(rx') + lost' = came'
          BY <2>1, <3>1, <3>2, <4>1, <4>2, <4>3
        <4>5. told' + lsr'.lost = lost' \/ overrun'
          BY <2>1, <2>2, <4>1, <4>3
        <4>6. overrun' => Len(rx') >= Room - 1
          BY <2>1, <3>2, <4>1, <4>2, <4>3
        <4> QED
          BY <2>1, <2>2, <4>2, <4>4, <4>5, <4>6 DEF Reading
      <3> QED
        BY <1>1, <3>3, <3>4 DEF Inv
    <2> QED
      BY <2>3, <2>4
  <1>4. CASE IsrStatus
    <2>1. isr = "status" /\ UNCHANGED <<rx, came, got, lost, told, astray>> /\ overrun' = FALSE
      BY <1>4 DEF IsrStatus, Receive, ReadLsr
    <2>2. CASE rx # <<>>
      <3>1. isr' = "character" /\ ReadLsr
        BY <1>4, <2>2 DEF IsrStatus
      <3>2. Inputs'
        BY <2>1, <3>1, ReadingLsr DEF Inv, Inputs
      <3>3. Reading'
        <4> SUFFICES ASSUME "divisor" \notin astray PROVE Reading'
          BY <2>1 DEF Reading
        <4>1. /\ astray = {} /\ got + Len(rx) + lost = came
              /\ told + lsr.lost = lost \/ overrun
              /\ lsr.lost = 0
          BY <2>1 DEF Inv, Reading
        <4>2. told + lsr'.lost = lost
          BY <3>1, <4>1, ReadingLsr DEF Inv, Inputs
        <4>3. lsr'.bad = Head(rx)
          BY <2>2, <3>1, ReadingLsr, NextCharacter DEF Inv, Inputs
        <4> QED
          BY <2>1, <2>2, <3>1, <4>1, <4>2, <4>3 DEF Reading
      <3> QED
        BY <1>1, <3>2, <3>3 DEF Inv
    <2>3. CASE rx = <<>>
      <3>1. isr' = "none" /\ lsr' = lsr
        BY <1>4, <2>3 DEF IsrStatus
      <3>2. Inputs'
        BY <2>1, <3>1 DEF Inv, Inputs
      <3>3. Len(rx) = 0 /\ Room - 1 > 0
        BY <2>3, SerialAssumption DEF SerialAssumption
      <3>4. Reading'
        BY <2>1, <3>1, <3>3, SerialAssumption DEF SerialAssumption, Inv, Reading
      <3> QED
        BY <1>1, <3>2, <3>4 DEF Inv
    <2> QED
      BY <2>2, <2>3
  <1> QED
    BY <1>2, <1>3, <1>4

LEMMA UartKeeps == Inv /\ (Shift \/ Arrive \/ Turn) => Inv'
  <1> SUFFICES ASSUME Inv, Shift \/ Arrive \/ Turn PROVE Inv'
    OBVIOUS
  <1> USE SerialAssumption DEF SerialAssumption, Line, io
  <1>1. (Sizes /\ Bits /\ Queued /\ Putting /\ Slipping)'
    <2>1. CASE Shift
      <3>1. (Sizes /\ Queued /\ Putting /\ Slipping)'
        BY <2>1 DEF Inv, Sizes, Queued, Putting, Slipping, Shift
      <3>2. Bits'
        BY <2>1 DEF Inv, Bits, Shift
      <3> QED
        BY <3>1, <3>2
    <2>2. CASE Turn
      <3>1. (Sizes /\ Queued /\ Putting /\ Slipping)'
        BY <2>2 DEF Inv, Sizes, Queued, Putting, Slipping, Turn
      <3>2. Bits'
        BY <2>2 DEF Inv, Bits, Turn
      <3> QED
        BY <3>1, <3>2
    <2>3. CASE Arrive
      <3>1. (Sizes /\ Queued /\ Putting /\ Slipping)'
        BY <2>3 DEF Inv, Sizes, Queued, Putting, Slipping, Arrive
      <3>2. Bits'
        BY <2>3 DEF Inv, Bits, Arrive
      <3> QED
        BY <3>1, <3>2
    <2> QED
      BY <2>1, <2>2, <2>3
  <1>2. CASE Shift \/ Turn
    <2>1. UNCHANGED <<rx, overrun, isr, lsr, came, got, lost, told, astray>>
      BY <1>2 DEF Shift, Turn
    <2>2. (Inputs /\ Reading)'
      BY <2>1 DEF Inv, Inputs, Reading
    <2> QED
      BY <1>1, <2>2 DEF Inv
  <1>3. CASE Arrive
    <2>1. came' = came + 1 /\ came < MaxIn /\ UNCHANGED <<isr, lsr, got, told, astray>>
      BY <1>3 DEF Arrive
    <2>2. CASE Len(rx) < Room
      <3>1. PICK bad \in BOOLEAN : rx' = Append(rx, bad)
        BY <1>3, <2>2 DEF Arrive
      <3>2. UNCHANGED <<overrun, lost>>
        BY <1>3, <2>2 DEF Arrive
      <3>3. /\ rx' \in Seq(BOOLEAN) /\ Len(rx') = Len(rx) + 1 /\ Len(rx) \in Nat /\ rx' # <<>>
            /\ rx # <<>> => Head(rx') = Head(rx)
        BY <3>1 DEF Inv, Inputs
      <3>4. Inputs'
        BY <2>1, <2>2, <3>2, <3>3 DEF Inv, Inputs
      <3>5. Reading'
        BY <2>1, <3>2, <3>3 DEF Inv, Inputs, Reading
      <3> QED
        BY <1>1, <3>4, <3>5 DEF Inv
    <2>3. CASE ~(Len(rx) < Room)
      <3>1. overrun' = TRUE /\ lost' = lost + 1 /\ rx' = rx
        BY <1>3, <2>3 DEF Arrive
      <3>2. Len(rx) \in Nat
        BY DEF Inv, Inputs
      <3>3. Inputs'
        BY <2>1, <3>1 DEF Inv, Inputs
      <3>4. Reading'
        BY <2>1, <2>3, <3>1, <3>2 DEF Inv, Inputs, Reading
      <3> QED
        BY <1>1, <3>3, <3>4 DEF Inv
    <2> QED
      BY <2>2, <2>3
  <1> QED
    BY <1>2, <1>3

LEMMA Inductive == Spec => []Inv
  <1>1. Inv /\ [Next]_vars => Inv'
    <2>1. ASSUME Inv, UNCHANGED vars PROVE Inv'
      BY <2>1 DEF vars, io, uart, seen, Inv, Sizes, Bits, Inputs, Queued, Putting, Reading,
                  Slipping
    <2> QED
      BY <2>1, ClientKeeps, TtoKeeps, SttyKeeps, OutputKeeps, ReceiveKeeps, UartKeeps
        DEF Next, Driver, Isrs
  <1> QED
    BY <1>1, Start, PTL DEF Spec

\* Every reachable state is well typed; in particular the line is never twice in
\* the queue of events of io-char (ser_intr()).
THEOREM Typing == Spec => []TypeOK
  <1>1. Inv => TypeOK
    <2> SUFFICES ASSUME Inv PROVE TypeOK
      OBVIOUS
    <2>1. lsr.bad \in BOOLEAN /\ lsr.lost \in 0 .. MaxIn /\ lost \in 0 .. MaxIn
          /\ told \in 0 .. MaxIn
      BY SerialAssumption DEF SerialAssumption, Inv, Inputs
    <2>2. lsr \in [bad : BOOLEAN, lost : 0 .. MaxIn]
      BY <2>1 DEF Inv, Inputs
    <2> QED
      BY <2>1, <2>2 DEF Inv, Sizes, Bits, Inputs, TypeOK
  <1> QED
    BY <1>1, Inductive, PTL

\* Every character that finds room is handed on once with its own error, and every
\* overrun is reported, whenever characters come while ser_intr() is in its loop, and
\* for every size of the FIFO but one.  Not proved, and not true, once the loop has met
\* ser_stty() and read the divisor.
THEOREM Receiving == Spec => []InputKept
  <1>1. Inv => InputKept
    BY DEF Inv, Reading, InputKept
  <1> QED
    BY <1>1, Inductive, PTL

\* One character at most is sent after a stop, whenever tto() is interrupted.
THEOREM Stopping == Spec => []OneSlips
  <1>1. Inv => OneSlips
    BY DEF Inv, Slipping, OneSlips
  <1> QED
    BY <1>1, Inductive, PTL

(***************************************************************************)
(* No output is forgotten.                                                 *)
(***************************************************************************)
\* What leads to tto(): a transmit interrupt is raised, or comes when the FIFO is
\* empty, or the event of one was not taken yet.
Armed == txi \/ (thr /\ tx > 0) \/ "EVENT_TTO" \in flags

\* An event waits in the queue; once tto() has left characters something leads
\* back to it, unless it was told to stop; and the end of a stop is seen.
Kept ==
    /\ flags # {} => "EVENT_QUEUED" \in flags /\ queue > 0
    /\ obuf > 0 /\ pc \notin {"tto", "put", "arm", "enable"} => paged \/ Armed
    /\ paged => ~cts \/ msr

\* While characters wait and the thread sleeps, the other side has stopped the
\* output, or an interrupt or an event is on its way to go on with it.
Remembered == obuf > 0 /\ pc = "idle" => ~cts \/ msr \/ txi \/ (thr /\ tx > 0)
                                          \/ ("EVENT_TTO" \in flags /\ queue > 0)

\* The thread goes on with the output, or has seen that there is nothing to do.
LEMMA ThreadRemembers == Inv /\ Kept /\ (Client \/ Driver) => Kept'
  <1> SUFFICES ASSUME Inv, Kept, Client \/ Driver PROVE Kept'
    OBVIOUS
  <1> USE DEF Inv, Sizes, Kept, Armed, Thread, Interrupt
  <1>1. CASE Write \/ Inject
    BY <1>1 DEF Write, Inject
  <1>2. CASE TakeEvent
    BY <1>2 DEF TakeEvent
  <1>3. CASE TtoLoop \/ TtoPut
    BY <1>3 DEF TtoLoop, TtoPut, io
  <1>4. CASE TtoArm \/ TtoEnable
    <2>1. CASE TtoArm
      BY <2>1 DEF TtoArm, io
    <2>2. CASE TtoEnable
      <3>1. UNCHANGED io /\ thr' = TRUE /\ (tx = 0 => txi') /\ tx' = tx /\ pc' = "idle"
        BY <2>2 DEF TtoEnable
      <3>2. tx > 0 \/ txi'
        BY <3>1, SerialAssumption
      <3> QED
        BY <2>2, <3>1, <3>2 DEF TtoEnable, io
    <2> QED
      BY <1>4, <2>1, <2>2
  <1>5. CASE SttyEfr \/ SttyTlr \/ SttyEfrBack \/ SttyDivide \/ SttyLcr
    BY <1>5 DEF SttyEfr, SttyTlr, SttyEfrBack, SttyDivide, SttyLcr, Switch, io
  <1> QED
    BY <1>1, <1>2, <1>3, <1>4, <1>5 DEF Client, Driver

\* An interrupt disables itself only with an event, and the transmitter empties
\* only with an interrupt.
LEMMA OthersRemember == Inv /\ Kept /\ (Isrs \/ Shift \/ Arrive \/ Turn) => Kept'
  <1> SUFFICES ASSUME Inv, Kept, Isrs \/ Shift \/ Arrive \/ Turn PROVE Kept'
    OBVIOUS
  <1> USE DEF Inv, Sizes, Bits, Kept, Armed
  <1>1. CASE IsrReceive \/ IsrCharacter \/ IsrStatus
    BY <1>1 DEF IsrReceive, IsrCharacter, IsrStatus, Receive
  <1>2. CASE IsrTransmit
    BY <1>2 DEF IsrTransmit, Isr
  <1>3. CASE IsrModem
    BY <1>3 DEF IsrModem, Isr
  <1>4. CASE Shift
    BY <1>4 DEF Shift, Line, io
  <1>5. CASE Arrive \/ Turn
    BY <1>5 DEF Arrive, Turn, Line, io
  <1> QED
    BY <1>1, <1>2, <1>3, <1>4, <1>5 DEF Isrs

\* The interrupt that disables itself is always enabled again in time, in
\* whatever order tto(), ser_intr() and the changes of the flow control come: what
\* is left of Sent when time is not considered.
THEOREM Remembering == Spec => []Remembered
  <1>1. Init => Kept
    BY DEF Init, Kept
  <1>2. Inv /\ Kept /\ [Next]_vars => Kept'
    <2>1. ASSUME Kept, UNCHANGED vars PROVE Kept'
      BY <2>1 DEF Kept, Armed, vars, io, uart
    <2> QED
      BY <2>1, ThreadRemembers, OthersRemember DEF Next
  <1>3. Kept => Remembered
    BY DEF Kept, Armed, Remembered
  <1> QED
    BY <1>1, <1>2, <1>3, Inductive, PTL DEF Spec
=============================================================================
