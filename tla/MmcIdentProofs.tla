--------------------------- MODULE MmcIdentProofs ---------------------------
(***************************************************************************)
(* Proofs about MmcIdent: one identification at a time, what it knows of   *)
(* the card, that the slot is a slot as MmcSlot promises it, and that it   *)
(* lives as the request path relies on (SlotLife), for any cards, any      *)
(* number of retries and any user.                                         *)
(***************************************************************************)
EXTENDS MmcIdent, TLAPS

Answer == {"ok", "busy", "timeout", "error"}

\* mmc_media_check keeps the types.
LEMMA CheckTyped ==
    ASSUME TypeOK, NEW in \in BOOLEAN, MediaSeen(in)
    PROVE  /\ eflags' \subseteq Flags /\ ctlq' \in Seq({"INSERTION", "REMOVAL", "READY"})
           /\ card' \in [st : {"off", "idle", "ready", "ident", "stby", "tran"}, width : {1, 4, 8}]
           /\ bus' \in Commands \cup {None} /\ hostw' \in {1, 4, 8}
<1> USE DEF TypeOK, MediaSeen, line
<1>1. eflags' \subseteq Flags
  BY DEF DetectClears, Forgot, Flags
<1>2. ctlq' \in Seq({"INSERTION", "REMOVAL", "READY"})
  OBVIOUS
<1>3. card' \in [st : {"off", "idle", "ready", "ident", "stby", "tran"}, width : {1, 4, 8}]
  BY DEF Unpowered, Idle, Off
<1>4. bus' \in Commands \cup {None} /\ hostw' \in {1, 4, 8}
  BY DEF Unpowered
<1> QED
  BY <1>1, <1>2, <1>3, <1>4

\* So does the answer of the card.
LEMMA AnswerTyped ==
    ASSUME TypeOK, NEW ans, Interrupt(ans)
    PROVE  card' \in [st : {"off", "idle", "ready", "ident", "stby", "tran"}, width : {1, 4, 8}]
  BY DEF TypeOK, Interrupt, After, Obeyed, Idle, Off

\* The handlers, one group after the other.
LEMMA StartTyped == ASSUME TypeOK, NEW t \in Threads, Start(t) PROVE TypeOK'
<1> USE IdentAssumption DEF TypeOK, user, world, line, note, At, Goto, Threads
<1>1. CASE StartCheck(t)
  BY <1>1 DEF StartCheck, Detects, DetectClears, Flags
<1>2. CASE StartPower(t)
  BY <1>2 DEF StartPower, Unpowered, Idle, Off
<1>3. CASE StartReset(t)
  BY <1>3 DEF StartReset, Stages, Commands
<1>4. CASE StartStore(t)
  BY <1>4 DEF StartStore
<1> QED
  BY <1>1, <1>2, <1>3, <1>4 DEF Start

\* The control thread, the attaching thread and the polls.
LEMMA ControlTyped ==
    ASSUME TypeOK, Preload \/ CardInsertion \/ CardRemoval \/ CardReady \/ Poll \/ IdentFailed
    PROVE  TypeOK'
<1> USE DEF TypeOK, user, world, line, note, At, Goto, Threads, Pulse, Stages, Flags
<1>1. CASE Preload
  <2> PICK in \in BOOLEAN :
        /\ Detects(in)
        /\ IF in
           THEN /\ eflags' = DetectClears(in, eflags) \cup {"PRELOAD", "INSERTED"}
                /\ ident' = "START"
                /\ Goto("main", "check")
           ELSE Goto("main", "idle") /\ UNCHANGED <<eflags, ident>>
    BY <1>1 DEF Preload
  <2>1. eflags' \subseteq Flags
    BY DEF DetectClears
  <2>2. misreads' \in 0 .. MaxMisreads
    BY IdentAssumption DEF Detects
  <2> QED
    BY <1>1, <2>1, <2>2 DEF Preload
<1>2. CASE CardInsertion
  BY <1>2 DEF CardInsertion
<1>3. CASE CardRemoval
  BY <1>3 DEF CardRemoval
<1>4. CASE CardReady
  BY <1>4 DEF CardReady
<1>5. CASE Poll
  <2> PICK in \in BOOLEAN : Detects(in) /\ MediaSeen(in)
    BY <1>5 DEF Poll, MediaCheck
  <2>1. misreads' \in 0 .. MaxMisreads
    BY IdentAssumption DEF Detects
  <2> QED
    BY <1>5, <2>1, CheckTyped DEF Poll
<1>6. CASE IdentFailed
  <2>1. CASE Judge(Present)
    <3>1. eflags' \subseteq Flags
      BY <2>1 DEF Judge, DetectClears
    <3>2. card' \in [st : {"off", "idle", "ready", "ident", "stby", "tran"}, width : {1, 4, 8}]
      BY <2>1 DEF Judge, Unpowered, Idle, Off
    <3> QED
      BY <1>6, <2>1, <3>1, <3>2 DEF IdentFailed, Judge, Unpowered
  <2>2. CASE Vanished
    <3>1. misreads' \in 0 .. MaxMisreads
      <4>1. MaxMisreads \in Nat /\ misreads \in 0 .. MaxMisreads
        BY IdentAssumption
      <4>2. \/ misreads' = misreads
            \/ \E n \in 1 .. 2 : misreads + n <= MaxMisreads /\ misreads' = misreads + n
        BY <2>2 DEF Vanished
      <4> HIDE DEF TypeOK
      <4> QED
        BY <4>1, <4>2
    <3>2. MediaSeen(TRUE) \/ MediaSeen(FALSE)
      <4>1. ASSUME NEW n \in 1 .. 2, MediaSeen(n = 1) PROVE MediaSeen(TRUE) \/ MediaSeen(FALSE)
        <5>1. CASE n = 1
          BY <4>1, <5>1 DEF MediaSeen
        <5>2. CASE n # 1
          BY <4>1, <5>2 DEF MediaSeen
        <5> QED
          BY <5>1, <5>2
      <4> QED
        BY <2>2, <4>1 DEF Vanished
    <3> QED
      BY <1>6, <3>1, <3>2, CheckTyped DEF IdentFailed
  <2> QED
    BY <1>6, <2>1, <2>2 DEF IdentFailed
<1> QED
  BY <1>1, <1>2, <1>3, <1>4, <1>5, <1>6

\* The user.
LEMMA UserTyped == ASSUME TypeOK, User PROVE TypeOK'
<1> USE IdentAssumption DEF TypeOK, note, Idle, Off, Flags
<1>1. CASE Remove
  BY <1>1 DEF Remove
<1>2. ASSUME NEW k \in Cards, Insert(k) PROVE TypeOK'
  BY <1>2 DEF Insert
<1> QED
  BY <1>1, <1>2 DEF User

\* The stages of mmc_card_ident.
LEMMA HandlerTyped == ASSUME TypeOK, NEW ans \in Answer, Handler(ans) PROVE TypeOK'
<1>0. card' \in [st : {"off", "idle", "ready", "ident", "stby", "tran"}, width : {1, 4, 8}]
  <2>1. Interrupt(ans)
    BY DEF Handler, Unexpected, Restart, Unstaged, GoIdle, CardVersion, SdPowerup, MmcPowerup,
           AllSendCid, SetAddress, SendCid, SendCsd, SelDesCard, StatusDone, SetBwApp,
           SetBw, SendScr, ParseScr, CheckMode, ReadExtCsd, SwitchBusWidth, Final, Then,
           Stage
  <2> QED
    BY <2>1, AnswerTyped
<1> USE <1>0 DEF TypeOK, user, world, Goto, Threads, Stage, Send, Fail, Stages, Commands
<1>1. ASSUME NEW s, NEW next \in Stages, NEW c \in Commands, Then(s, ans, next, c)
      PROVE  TypeOK'
  BY <1>1 DEF Then
<1>2. CASE \/ AllSendCid(ans) \/ SetAddress(ans) \/ SendCid(ans) \/ SelDesCard(ans)
           \/ SetBwApp(ans) \/ SetBw(ans) \/ SendScr(ans) \/ ParseScr(ans) \/ SwitchBusWidth(ans)
  BY <1>1, <1>2
    DEF AllSendCid, SetAddress, SendCid, SelDesCard, SetBwApp, SetBw, SendScr, ParseScr,
        SwitchBusWidth, From
<1>3. CASE Unexpected(ans)
  BY <1>3 DEF Unexpected, note
<1>4. CASE Restart(ans)
  BY <1>4 DEF Restart
<1>5. CASE Unstaged(ans) \/ GoIdle(ans)
  BY <1>5 DEF Unstaged, GoIdle
<1>6. CASE CardVersion(ans)
  BY <1>6 DEF CardVersion
<1>7. CASE SdPowerup(ans)
  <2>1. eflags' \subseteq Flags
    BY <1>7 DEF SdPowerup, WithCapacity, Flags
  <2> QED
    BY <1>7, <2>1 DEF SdPowerup, From
<1>8. CASE MmcPowerup(ans)
  <2>1. eflags' \subseteq Flags
    BY <1>8 DEF MmcPowerup, WithCapacity, Flags
  <2> QED
    BY <1>8, <2>1 DEF MmcPowerup, From
<1>9. CASE SendCsd(ans)
  <2>1. eflags' \subseteq Flags
    BY <1>9 DEF SendCsd, Flags
  <2> QED
    BY <1>9, <2>1 DEF SendCsd, From
<1>10. CASE CheckMode(ans) \/ ReadExtCsd(ans)
  BY <1>10 DEF CheckMode, ReadExtCsd, From
<1>11. CASE StatusDone(ans)
  BY <1>11 DEF StatusDone, From
<1>12. CASE Final(ans)
  <2>1. eflags' \subseteq Flags
    BY <1>12 DEF Final, Flags
  <2>2. ctlq' \in Seq({"INSERTION", "REMOVAL", "READY"})
    BY <1>12 DEF Final
  <2> QED
    BY <1>12, <2>1, <2>2 DEF Final
<1> QED
  BY <1>2, <1>3, <1>4, <1>5, <1>6, <1>7, <1>8, <1>9, <1>10, <1>11, <1>12 DEF Handler

(***************************************************************************)
(* One identification at a time.  While the timer and the user leave the   *)
(* driver alone (Sequential), what identifies a card is in one place: a    *)
(* pulse for the control thread, one of the threads, or a command on the   *)
(* bus.  It ends before the verdict is given, and a removal that is on its *)
(* way to the control thread is the last word on a card that is gone.      *)
(***************************************************************************)
Working ==
    {t \in Threads : pc[t] \in {"check", "power", "reset", "failed"}}
    \cup (IF bus # None THEN {"bus"} ELSE {})
    \cup (IF "INSERTION" \in Pulses THEN {"pulse"} ELSE {})

Silent == ~Present => card.st = "off"

Lone == \A a, b \in Working : a = b

Fresh ==    \* mmc_creat_threads() has not looked yet
    At("main", "preload") =>
        eflags = {} /\ ctlq = <<>> /\ told = None /\ Working = {}

Gone == "REMOVAL" \in Pulses => ~Present /\ {"READY", "INVALID"} \cap eflags = {}

Forgotten ==
    "INSERTED" \notin eflags =>
        /\ {"READY", "INVALID"} \cap eflags = {}
        /\ Present => ctlq = <<>> /\ Working = {}

Done == "READY" \in eflags => Working = {}

Order ==
    \A i \in DOMAIN ctlq :
        /\ ctlq[i] = "INSERTION" => i = 1
        /\ ctlq[i] = "READY" =>
              /\ \A j \in 1 .. i : ctlq[j] # "REMOVAL"
              /\ "READY" \in eflags \/ "REMOVAL" \in Pulses

Told ==
    /\ "PRELOAD" \in eflags => told = None
    /\ "READY" \in eflags /\ "READY" \notin Pulses =>
          told = "found" \/ (told = None /\ "PRELOAD" \in eflags)
    /\ "READY" \notin eflags /\ "REMOVAL" \notin Pulses => told # "found"

Begun ==
    /\ \A t \in Threads : pc[t] \in {"check", "power", "reset"} => ident = "START"
    /\ bus = "GO_IDLE_STATE" => ident # "FINAL"

OneRun == Lone /\ Fresh /\ Gone /\ Forgotten /\ Done /\ Order /\ Told /\ Begun
SeqInv == Silent /\ (Sequential => OneRun)

\* The pin of the slot can always be read.
Sighted == "bad_read" \notin hazards

\* Then detect() tells whether a card is in.
LEMMA Seen ==
    ASSUME Sighted
    PROVE  /\ MediaCheck => MediaSeen(Present)
           /\ IdentFailed => (Present /\ Judge(TRUE)) \/ (~Present /\ MediaSeen(Present))
  BY DEF Sighted, MediaCheck, IdentFailed, Judge, Vanished, Detects, Present

\* The queue of the control thread grows at its end and shrinks at its head.
LEMMA Queued ==
    ASSUME TypeOK, NEW x \in {"INSERTION", "REMOVAL", "READY"}, ctlq' = Append(ctlq, x)
    PROVE  /\ Pulses' = Pulses \cup {x}
           /\ DOMAIN ctlq' = 1 .. Len(ctlq) + 1
           /\ \A i \in DOMAIN ctlq : ctlq'[i] = ctlq[i]
           /\ ctlq'[Len(ctlq) + 1] = x
  BY DEF TypeOK, Pulses

\* What it takes is gone from the queue.
LEMMA Dequeued ==
    ASSUME TypeOK, ctlq # <<>>, ctlq' = Tail(ctlq)
    PROVE  /\ Pulses = Pulses' \cup {ctlq[1]} /\ Head(ctlq) = ctlq[1]
           /\ DOMAIN ctlq' = 1 .. Len(ctlq) - 1
           /\ \A i \in DOMAIN ctlq' : i + 1 \in DOMAIN ctlq /\ ctlq'[i] = ctlq[i + 1]
<1>1. Len(ctlq) \in Nat /\ Len(ctlq) > 0 /\ DOMAIN ctlq = 1 .. Len(ctlq)
  BY DEF TypeOK
<1>2. DOMAIN ctlq' = 1 .. Len(ctlq) - 1
  BY <1>1 DEF TypeOK
<1>3. \A i \in DOMAIN ctlq' : i + 1 \in DOMAIN ctlq /\ ctlq'[i] = ctlq[i + 1]
  BY <1>1, <1>2 DEF TypeOK
<1>4. Pulses \subseteq Pulses' \cup {ctlq[1]}
  <2> SUFFICES ASSUME NEW i \in DOMAIN ctlq, i # 1 PROVE ctlq[i] \in Pulses'
    BY DEF Pulses
  <2>1. i - 1 \in DOMAIN ctlq' /\ ctlq'[i - 1] = ctlq[i]
    BY <1>1, <1>2, <1>3
  <2> QED
    BY <2>1 DEF Pulses
<1>5. Pulses' \subseteq Pulses /\ ctlq[1] \in Pulses
  BY <1>1, <1>3 DEF Pulses
<1>6. Head(ctlq) = ctlq[1]
  BY DEF TypeOK
<1> QED
  BY <1>2, <1>3, <1>4, <1>5, <1>6

\* A slot without a card answers nothing but CMD0.
LEMMA Obedient ==
    ASSUME TypeOK, bus # None, Obeys(bus), bus # "GO_IDLE_STATE"
    PROVE  card.st # "off"
  BY DEF TypeOK, Obeys, From, Commands

\* Without a card only CMD0 is not missed.
LEMMA Answered ==
    ASSUME TypeOK, Silent, NEW ans \in Answer, Interrupt(ans)
    PROVE  /\ ~Present /\ ~Error(ans) => bus = "GO_IDLE_STATE"
           /\ slot' = slot => Silent'
<1>1. ASSUME ~Present, bus # "GO_IDLE_STATE" PROVE Error(ans)
  <2>1. ~Obeys(bus)
    BY <1>1, Obedient DEF Interrupt, Silent
  <2> QED
    BY <1>1, <2>1 DEF Interrupt, Answers, Error
<1>2. ASSUME ~Present, slot' = slot PROVE card'.st = "off"
  <2>1. CASE ans = "ok"
    <3>1. bus = "GO_IDLE_STATE"
      BY <1>1, <1>2, <2>1 DEF Error
    <3>2. Obeyed = Off
      BY <1>2, <3>1 DEF Obeyed, PowerUp
    <3> QED
      BY <2>1, <3>2 DEF Interrupt, After, Off
  <2>2. CASE ans # "ok"
    BY <1>2, <2>2 DEF Interrupt, After, Silent
  <2> QED
    BY <2>1, <2>2
<1> QED
  BY <1>1, <1>2 DEF Silent, Present

\* What every stage but a successful last one leaves of the slot's state: the
\* run goes on with a command, ends with a failure or starts over.
Routine ==
    /\ pc["driver"] = "idle" /\ bus # None
    /\ UNCHANGED <<hazards, slot, plugs, state, count, ctlq, told>>
    /\ eflags' \ {"HC", "WP"} = eflags \ {"HC", "WP"}
    /\ \/ bus' # None /\ pc' = pc /\ (bus' = "GO_IDLE_STATE" => ident' # "FINAL")
       \/ bus' = None /\ pc' = pc /\ state = "IDLE"
       \/ bus' = None /\ pc' = [pc EXCEPT !["driver"] = "failed"] /\ state = "IDENT"
       \/ bus' = None /\ pc' = [pc EXCEPT !["driver"] = "check"] /\ ident' = "START"

Identifying(ans) == Handler(ans) /\ ~(Final(ans) /\ ~Error(ans))

\* Every stage is such a step.
LEMMA StageRoutine ==
    ASSUME NEW ans \in Answer, Identifying(ans)
    PROVE  Routine /\ Interrupt(ans)
<1> USE DEF Routine, Stage, Interrupt, Fail, Send, Goto, At, user, world, note, None
<1>1. CASE Unexpected(ans)
  BY <1>1 DEF Unexpected
<1>2. CASE Restart(ans)
  BY <1>2 DEF Restart
<1>3. CASE Unstaged(ans) \/ GoIdle(ans)
  BY <1>3 DEF Unstaged, GoIdle
<1>4. CASE CardVersion(ans)
  BY <1>4 DEF CardVersion
<1>5. CASE SdPowerup(ans)
  BY <1>5 DEF SdPowerup, WithCapacity
<1>6. CASE MmcPowerup(ans)
  BY <1>6 DEF MmcPowerup, WithCapacity
<1>7. CASE AllSendCid(ans) \/ SetAddress(ans) \/ SendCid(ans)
  BY <1>7 DEF AllSendCid, SetAddress, SendCid, Then
<1>8. CASE SendCsd(ans)
  BY <1>8 DEF SendCsd
<1>9. CASE SelDesCard(ans) \/ SetBwApp(ans) \/ SetBw(ans) \/ SendScr(ans)
  BY <1>9 DEF SelDesCard, SetBwApp, SetBw, SendScr, Then
<1>10. CASE ParseScr(ans) \/ SwitchBusWidth(ans)
  BY <1>10 DEF ParseScr, SwitchBusWidth, Then
<1>11. CASE StatusDone(ans)
  BY <1>11 DEF StatusDone
<1>12. CASE CheckMode(ans) \/ ReadExtCsd(ans)
  BY <1>12 DEF CheckMode, ReadExtCsd
<1>13. CASE Final(ans) /\ Error(ans)
  BY <1>13 DEF Final
<1> QED
  BY <1>1, <1>2, <1>3, <1>4, <1>5, <1>6, <1>7, <1>8, <1>9, <1>10, <1>11, <1>12, <1>13
    DEF Handler, Identifying

\* A run that goes on, ends or starts over is still one run.
LEMMA RoutineOneRun ==
    ASSUME TypeOK, TypeOK', OneRun, Routine PROVE OneRun'
<1>1. Pulses' = Pulses
  BY DEF Routine, Pulses
<1>2. "bus" \in Working /\ \A a \in Working : a = "bus"
  BY DEF Routine, Working, OneRun, Lone
<1>3. Lone'
  BY <1>1, <1>2 DEF Lone, Routine, Working, Threads, TypeOK
<1>4. "READY" \notin eflags /\ ("INSERTED" \in eflags \/ ~Present) /\ ~At("main", "preload")
  BY <1>2 DEF OneRun, Done, Forgotten, Fresh
<1>5. (Gone /\ Forgotten /\ Done /\ Fresh)'
  BY <1>1, <1>4
    DEF OneRun, Routine, Gone, Forgotten, Done, Fresh, Present, TypeOK, At, Threads
<1>6. (Order /\ Told)'
  BY <1>1 DEF OneRun, Routine, Order, Told
<1>7. Begun'
  <2>1. \A t \in Threads : pc[t] \notin {"check", "power", "reset"}
    BY <1>2 DEF Working, Threads
  <2> QED
    <3>1. ASSUME NEW t \in Threads, pc'[t] \in {"check", "power", "reset"} PROVE ident' = "START"
      BY <2>1, <3>1 DEF Routine, TypeOK
    <3>2. bus' = "GO_IDLE_STATE" => ident' # "FINAL"
      BY DEF Routine, None
    <3> QED
      BY <3>1, <3>2 DEF Begun
<1> QED
  BY <1>3, <1>5, <1>6, <1>7 DEF OneRun

\* mmc_media_check, from the timer and after a failed identification.
LEMMA CheckOneRun ==
    ASSUME TypeOK, TypeOK', OneRun, MediaSeen(Present), ~At("main", "preload"),
           UNCHANGED <<slot, ident, told>>,
           \/ UNCHANGED pc
           \/ ~Present /\ pc' = [pc EXCEPT !["driver"] = "idle"]
    PROVE  OneRun'
<1> Present' = Present
  BY DEF Present
<1>1. ~At("main", "preload")'
  BY DEF At, TypeOK, Threads
<1>2. \A t \in Threads : pc'[t] \in {"check", "power", "reset", "failed"} => pc'[t] = pc[t]
  BY DEF TypeOK, Threads
<1>3. CASE UNCHANGED <<ctlq, bus>> /\ eflags' = eflags \ {"WP"}
  <2>1. Pulses' = Pulses /\ Working' \subseteq Working
    BY <1>2, <1>3 DEF Pulses, Working
  <2>2. UNCHANGED pc \/ ~Present
    OBVIOUS
  <2>3. (Lone /\ Fresh /\ Gone /\ Forgotten /\ Done)'
    BY <1>1, <1>3, <2>1 DEF OneRun, Lone, Fresh, Gone, Forgotten, Done
  <2>4. (Order /\ Told /\ Begun)'
    BY <1>2, <1>3, <2>1 DEF OneRun, Order, Told, Begun
  <2> QED
    BY <2>3, <2>4 DEF OneRun
<1>4. CASE UNCHANGED <<ctlq, eflags, bus>>
  <2>1. Pulses' = Pulses /\ Working' \subseteq Working
    BY <1>2, <1>4 DEF Pulses, Working
  <2>3. (Lone /\ Fresh /\ Gone /\ Forgotten /\ Done)'
    BY <1>1, <1>4, <2>1 DEF OneRun, Lone, Fresh, Gone, Forgotten, Done
  <2>4. (Order /\ Told /\ Begun)'
    BY <1>2, <1>4, <2>1 DEF OneRun, Order, Told, Begun
  <2> QED
    BY <2>3, <2>4 DEF OneRun
<1>5. CASE /\ Present /\ "INSERTED" \notin eflags
           /\ eflags' = DetectClears(TRUE, eflags) \cup {"INSERTED"}
           /\ ctlq' = Append(ctlq, "INSERTION") /\ UNCHANGED line
  <2>1. ctlq = <<>> /\ Working = {} /\ {"READY", "INVALID"} \cap eflags = {}
    BY <1>5 DEF OneRun, Forgotten
  <2>2. DOMAIN ctlq' = {1} /\ ctlq'[1] = "INSERTION" /\ Pulses' = {"INSERTION"}
    BY <1>5, <2>1 DEF Pulses
  <2>3. Working' = {"pulse"}
    BY <1>2, <1>5, <2>1, <2>2 DEF Working, line
  <2>4. (Lone /\ Fresh /\ Gone /\ Forgotten /\ Done)'
    BY <1>1, <1>5, <2>1, <2>2, <2>3 DEF Lone, Fresh, Gone, Forgotten, Done, DetectClears
  <2>5. Pulses = {}
    BY <2>1 DEF Pulses
  <2>6. (Order /\ Told)'
    BY <1>5, <2>1, <2>2, <2>5 DEF OneRun, Order, Told, DetectClears
  <2>7. Begun'
    BY <1>2, <1>5 DEF OneRun, Begun, line
  <2> QED
    BY <2>4, <2>6, <2>7 DEF OneRun
<1>6. CASE /\ ~Present /\ "INSERTED" \in eflags /\ eflags' = Forgot(eflags)
           /\ ctlq' = Append(ctlq, "REMOVAL") /\ Unpowered
  <2> USE <1>6 DEF Unpowered, Forgot
  <2>1. /\ Pulses' = Pulses \cup {"REMOVAL"} /\ DOMAIN ctlq' = 1 .. Len(ctlq) + 1
        /\ \A i \in DOMAIN ctlq : ctlq'[i] = ctlq[i]
        /\ ctlq'[Len(ctlq) + 1] = "REMOVAL"
    BY Queued
  <2>2. Working' \subseteq Working
    BY <1>2, <2>1 DEF Working
  <2>3. (Lone /\ Fresh /\ Gone /\ Forgotten /\ Done)'
    BY <1>1, <2>1, <2>2 DEF OneRun, Lone, Fresh, Gone, Forgotten, Done
  <2>4. Order'
    <3>1. DOMAIN ctlq = 1 .. Len(ctlq) /\ Len(ctlq) \in Nat
      BY DEF TypeOK
    <3> QED
      BY <2>1, <3>1 DEF OneRun, Order, Gone, Pulses
  <2>5. Told' /\ Begun'
    BY <1>2, <2>1 DEF OneRun, Told, Begun, None
  <2> QED
    BY <2>3, <2>4, <2>5 DEF OneRun
<1> QED
  BY <1>3, <1>4, <1>5, <1>6 DEF MediaSeen, DetectClears, line

\* mmc_ident_start, in whichever thread.
LEMMA StartOneRun ==
    ASSUME TypeOK, TypeOK', OneRun, NEW t \in Threads, Start(t) PROVE OneRun'
<1>1. /\ Pulses' = Pulses /\ UNCHANGED <<ctlq, told>> /\ Present' = Present
      /\ eflags' \ {"HC", "WP"} = eflags \ {"HC", "WP"}
  BY DEF Start, StartCheck, StartPower, StartReset, StartStore, Pulses, Present, user, world, note,
         DetectClears
<1>2. (Order /\ Told)'
  BY <1>1 DEF OneRun, Order, Told
<1>3. CASE StartStore(t)
  <2>1. /\ UNCHANGED <<eflags, bus, ident>> /\ pc[t] = "store"
        /\ pc' = [pc EXCEPT ![t] = "idle"]
    BY <1>3 DEF StartStore, line, At, Goto
  <2>2. Working' = Working
    BY <1>1, <2>1 DEF Working, TypeOK
  <2>3. (Lone /\ Fresh /\ Gone /\ Forgotten /\ Done)'
    BY <1>1, <2>1, <2>2 DEF OneRun, Lone, Fresh, Gone, Forgotten, Done, At, TypeOK, Threads
  <2>4. Begun'
    BY <2>1 DEF OneRun, Begun, TypeOK
  <2> QED
    BY <1>2, <2>3, <2>4 DEF OneRun
<1>4. CASE ~StartStore(t)
  <2>1. pc[t] \in {"check", "power", "reset"}
    BY <1>4 DEF Start, StartCheck, StartPower, StartReset, At
  <2>2. t \in Working /\ \A a \in Working : a = t
    BY <2>1 DEF OneRun, Lone, Working
  <2>3. /\ "READY" \notin eflags /\ ("INSERTED" \in eflags \/ ~Present) /\ ident = "START"
        /\ "INSERTION" \notin Pulses /\ bus = None /\ pc["main"] # "preload"
        /\ \A u \in Threads \ {t} : pc[u] \notin {"check", "power", "reset", "failed"}
    BY <2>1, <2>2 DEF OneRun, Done, Forgotten, Begun, Fresh, Working, Threads, At
  <2>4. /\ \/ bus' = None /\ ident' = ident
           \/ bus' # None /\ ident' # "FINAL" /\ pc'[t] \in {"idle", "store"}
        /\ pc'[t] # "preload" /\ \A u \in Threads \ {t} : pc'[u] = pc[u]
    BY <1>4, <2>1, <2>3
      DEF Start, StartCheck, StartPower, StartReset, Unpowered, Goto, At, TypeOK, line, None
  <2>5. Lone'
    BY <1>1, <2>3, <2>4 DEF Lone, Working, Threads
  <2>6. (Fresh /\ Gone /\ Forgotten /\ Done)'
    BY <1>1, <2>3, <2>4 DEF OneRun, Fresh, Gone, Forgotten, Done, At, Threads
  <2>7. Begun'
    BY <2>3, <2>4 DEF OneRun, Begun, None
  <2> QED
    BY <1>2, <2>5, <2>6, <2>7 DEF OneRun
<1> QED
  BY <1>3, <1>4

\* mmc_creat_threads and mmc_control_thread.
LEMMA PreloadOneRun ==
    ASSUME TypeOK, TypeOK', OneRun, Sighted, Preload PROVE OneRun'
<1>1. eflags = {} /\ ctlq = <<>> /\ told = None /\ Working = {} /\ Pulses = {}
  BY DEF Preload, OneRun, Fresh, Pulses
<1>2. /\ ctlq' = <<>> /\ told' = None /\ bus' = bus /\ Present' = Present
      /\ pc'["main"] # "preload" /\ \A u \in Threads \ {"main"} : pc'[u] = pc[u]
      /\ Pulses' = {} /\ {"READY", "INVALID"} \cap eflags' = {}
  BY <1>1
    DEF Preload, Present, user, world, line, note, Goto, TypeOK, Threads, Pulses, DetectClears
<1>3. /\ "INSERTED" \notin eflags' => ~Present
      /\ pc'["main"] = "check" => ident' = "START"
      /\ pc'["main"] \in {"idle", "check"}
  BY DEF Preload, Detects, Sighted, Goto, TypeOK, Threads
<1>4. bus = None /\ \A u \in Threads : pc[u] \notin {"check", "power", "reset", "failed"}
  BY <1>1 DEF Working
<1>5. Working' \subseteq {"main"}
  BY <1>2, <1>4 DEF Working, Threads
<1>6. (Lone /\ Fresh /\ Gone /\ Forgotten /\ Done)'
  BY <1>2, <1>3, <1>5 DEF Lone, Fresh, Gone, Forgotten, Done, At
<1>7. (Order /\ Told)'
  BY <1>2 DEF Order, Told, None
<1>8. Begun'
  BY <1>2, <1>3, <1>4 DEF Begun, Threads, None
<1> QED
  BY <1>6, <1>7, <1>8 DEF OneRun

\* The pulses, taken in order.
LEMMA ControlOneRun ==
    ASSUME TypeOK, TypeOK', OneRun, CardInsertion \/ CardRemoval \/ CardReady PROVE OneRun'
<1>1. ctlq # <<>> /\ ctlq' = Tail(ctlq) /\ bus' = bus /\ Present' = Present
  BY DEF CardInsertion, CardRemoval, CardReady, Pulse, user, world, line, Present
<1>2. /\ Pulses = Pulses' \cup {ctlq[1]} /\ Head(ctlq) = ctlq[1]
      /\ DOMAIN ctlq' = 1 .. Len(ctlq) - 1 /\ 1 \in DOMAIN ctlq
      /\ \A i \in DOMAIN ctlq' : i + 1 \in DOMAIN ctlq /\ ctlq'[i] = ctlq[i + 1]
  BY <1>1, Dequeued DEF TypeOK
<1>3. "INSERTION" \notin Pulses' /\ ~At("main", "preload")
  BY <1>1, <1>2 DEF OneRun, Order, Fresh, Pulses
<1>4. ASSUME ctlq[1] # "REMOVAL", eflags \subseteq eflags' PROVE Order'
  <2>1. ASSUME NEW i \in DOMAIN ctlq', ctlq'[i] = "READY"
        PROVE  /\ \A j \in 1 .. i : ctlq'[j] # "REMOVAL"
               /\ "READY" \in eflags \/ "REMOVAL" \in Pulses
    <3>1. i + 1 \in DOMAIN ctlq /\ ctlq[i + 1] = "READY"
      BY <1>2, <2>1
    <3>2. \A j \in 1 .. i : j + 1 \in 1 .. i + 1 /\ j \in DOMAIN ctlq'
      BY <1>2, <2>1 DEF TypeOK
    <3> QED
      BY <1>2, <3>1, <3>2 DEF OneRun, Order
  <2>2. \A i \in DOMAIN ctlq' : ctlq'[i] # "INSERTION"
    BY <1>3 DEF Pulses
  <2> QED
    BY <1>2, <1>4, <2>1, <2>2 DEF Order
<1>5. CASE CardInsertion
  <2>1. /\ "INSERTION" \in Pulses /\ ctlq[1] = "INSERTION" 
        /\ eflags' = eflags \cup {"INSERTED"} /\ ident' = "START"
        /\ pc' = [pc EXCEPT !["control"] = "check"] /\ told' = told
    BY <1>2, <1>5 DEF CardInsertion, Pulse, Goto
  <2>2. \A a \in Working : a = "pulse"
    BY <2>1 DEF OneRun, Lone, Working
  <2>3. bus = None /\ \A u \in Threads : pc[u] \notin {"check", "power", "reset", "failed"}
    BY <2>2 DEF Working, Threads
  <2>4. Working' = {"control"}
    BY <1>1, <1>3, <2>1, <2>3 DEF Working, Threads, TypeOK
  <2>5. "READY" \notin eflags
    BY <2>1 DEF OneRun, Done, Working
  <2>6. (Lone /\ Fresh /\ Gone /\ Forgotten /\ Done)'
    BY <1>1, <1>2, <1>3, <2>1, <2>4, <2>5
      DEF OneRun, Lone, Fresh, Gone, Forgotten, Done, At, TypeOK, Threads
  <2>7. Order'
    BY <1>4, <2>1
  <2>8. (Told /\ Begun)'
    BY <1>1, <1>2, <2>1, <2>3, <2>5 DEF OneRun, Told, Begun, None
  <2> QED
    BY <2>6, <2>7, <2>8 DEF OneRun
<1>6. CASE CardRemoval
  <2>1. /\ "REMOVAL" \in Pulses /\ ctlq[1] = "REMOVAL"
        /\ eflags' = eflags \ {"READY", "INSERTED", "PRELOAD"}
        /\ pc' = pc /\ told' = "lost" /\ ident' = ident
    BY <1>2, <1>6 DEF CardRemoval, Pulse
  <2>2. ~Present /\ {"READY", "INVALID"} \cap eflags = {} /\ Working' \subseteq Working
    BY <1>1, <1>3, <2>1 DEF OneRun, Gone, Working
  <2>3. "READY" \notin Pulses'
    BY <1>2, <2>1 DEF OneRun, Order, Pulses
  <2>4. (Lone /\ Fresh /\ Gone /\ Forgotten /\ Done)'
    BY <1>1, <1>3, <2>1, <2>2 DEF OneRun, Lone, Fresh, Gone, Forgotten, Done, At
  <2>5. (Order /\ Told /\ Begun)'
    BY <1>1, <1>3, <2>1, <2>3 DEF OneRun, Order, Told, Begun, Pulses
  <2> QED
    BY <2>4, <2>5 DEF OneRun
<1>7. CASE CardReady
  <2>1. /\ "READY" \in Pulses /\ ctlq[1] = "READY" /\ UNCHANGED <<eflags, pc, ident>>
        /\ told' = IF "PRELOAD" \in eflags THEN told ELSE "found"
    BY <1>2, <1>7 DEF CardReady, Pulse
  <2>2. "READY" \in eflags \/ "REMOVAL" \in Pulses'
    BY <1>2, <2>1 DEF OneRun, Order
  <2>3. Working' \subseteq Working
    BY <1>1, <1>3, <2>1 DEF Working
  <2>4. Present /\ "INSERTED" \notin eflags => ctlq' = <<>>
    BY <1>1 DEF OneRun, Forgotten
  <2>5. (Lone /\ Fresh /\ Gone /\ Forgotten /\ Done)'
    BY <1>1, <1>2, <1>3, <2>1, <2>3, <2>4 DEF OneRun, Lone, Fresh, Gone, Forgotten, Done, At
  <2>6. Order'
    BY <1>4, <2>1
  <2>7. (Told /\ Begun)'
    BY <1>1, <2>1, <2>2 DEF OneRun, Told, Begun
  <2> QED
    BY <2>5, <2>6, <2>7 DEF OneRun
<1> QED
  BY <1>5, <1>6, <1>7

\* The last stage.
LEMMA FinalOneRun ==
    ASSUME TypeOK, TypeOK', OneRun, Present, NEW ans \in Answer, Final(ans), ~Error(ans)
    PROVE  OneRun'
<1>1. /\ "bus" \in Working /\ bus' = None /\ eflags' = eflags \cup {"READY"} /\ pc' = pc
      /\ ctlq' = (IF "READY" \in eflags THEN ctlq ELSE Append(ctlq, "READY"))
      /\ told' = told /\ Present'
  BY DEF Final, Interrupt, Working, user, world, Present
<1>2. /\ "READY" \notin eflags /\ "INSERTED" \in eflags /\ ~At("main", "preload")
      /\ "REMOVAL" \notin Pulses /\ (\A a \in Working : a = "bus")
  BY <1>1 DEF OneRun, Done, Forgotten, Fresh, Gone, Lone
<1>3. /\ Pulses' = Pulses \cup {"READY"} /\ DOMAIN ctlq' = 1 .. Len(ctlq) + 1
      /\ \A i \in DOMAIN ctlq : ctlq'[i] = ctlq[i]
      /\ ctlq'[Len(ctlq) + 1] = "READY"
  BY <1>1, <1>2, Queued
<1>4. /\ "INSERTION" \notin Pulses
      /\ \A u \in Threads : pc[u] \notin {"check", "power", "reset", "failed"}
  BY <1>2 DEF Working, Threads
<1>5. Working' = {}
  BY <1>1, <1>3, <1>4 DEF Working
<1>6. (Lone /\ Fresh /\ Gone /\ Forgotten /\ Done)'
  BY <1>1, <1>2, <1>3, <1>5 DEF Lone, Fresh, Gone, Forgotten, Done, At
<1>7. Order'
  <2>1. DOMAIN ctlq = 1 .. Len(ctlq) /\ Len(ctlq) \in Nat
    BY DEF TypeOK
  <2> QED
    BY <1>1, <1>2, <1>3, <2>1 DEF OneRun, Order, Pulses
<1>8. Told'
  BY <1>1, <1>3 DEF OneRun, Told
<1>9. Begun'
  BY <1>1, <1>4 DEF Begun, None
<1> QED
  BY <1>6, <1>7, <1>8, <1>9 DEF OneRun

\* A run that failed, mmc_ident_irq.
LEMMA FailedOneRun ==
    ASSUME TypeOK, TypeOK', OneRun, Sighted, IdentFailed PROVE OneRun'
<1>1. CASE ~Present
  <2>1. "driver" \in Working
    BY DEF IdentFailed, Working, At, Threads
  <2>2. ~At("main", "preload")
    BY <2>1 DEF OneRun, Fresh
  <2> QED
    BY <1>1, <2>2, Seen, CheckOneRun DEF IdentFailed, Goto, world
<1>2. CASE Present
  <2>1. /\ Present' /\ pc["driver"] = "failed" /\ pc' = [pc EXCEPT !["driver"] = "idle"]
        /\ eflags' = (eflags \ {"WP"}) \cup {"INVALID"} /\ bus' = None
        /\ UNCHANGED <<ctlq, told, ident>> /\ Pulses' = Pulses
    BY <1>2, Seen DEF IdentFailed, At, Goto, world, Present, DetectClears, Judge, Unpowered, Pulses
  <2>2. "driver" \in Working /\ Working' \subseteq Working
    BY <2>1 DEF Working, Threads, TypeOK
  <2>3. /\ "READY" \notin eflags /\ "INSERTED" \in eflags /\ ~At("main", "preload")
        /\ "REMOVAL" \notin Pulses
    BY <1>2, <2>2 DEF OneRun, Done, Forgotten, Fresh, Gone
  <2>4. (Lone /\ Fresh /\ Gone /\ Forgotten /\ Done)'
    BY <2>1, <2>2, <2>3 DEF OneRun, Lone, Fresh, Gone, Forgotten, Done, At, Threads, TypeOK
  <2>5. (Order /\ Told)'
    BY <2>1 DEF OneRun, Order, Told
  <2>6. Begun'
    BY <2>1 DEF OneRun, Begun, None, Threads, TypeOK
  <2> QED
    BY <2>4, <2>5, <2>6 DEF OneRun
<1> QED
  BY <1>1, <1>2

\* The user, who waits until the driver is done with the last card or has not
\* been seen at all.
LEMMA UserOneRun ==
    ASSUME TypeOK, TypeOK', OneRun, Sequential, User PROVE OneRun'
<1>1. /\ UNCHANGED <<bus, ctlq, told, eflags, pc, ident>>
      /\ \/ ~Present'
         \/ ~Present /\ (Unnoticed \/ AtRest)
  BY DEF User, Remove, Insert, note, Present, Sequential
<1>2. Pulses' = Pulses /\ Working' = Working
  BY <1>1 DEF Pulses, Working
<1>3. (Lone /\ Fresh /\ Done /\ Order /\ Told /\ Begun)'
  <2>1. (Lone /\ Fresh /\ Done)'
    BY <1>1, <1>2 DEF OneRun, Lone, Fresh, Done, At
  <2>2. (Order /\ Told /\ Begun)'
    BY <1>1, <1>2 DEF OneRun, Order, Told, Begun
  <2> QED
    BY <2>1, <2>2
<1>4. CASE ~Present'
  BY <1>1, <1>2, <1>3, <1>4 DEF OneRun, Gone, Forgotten
<1>5. CASE Unnoticed
  BY <1>1, <1>2, <1>3, <1>5 DEF OneRun, Gone, Forgotten, Unnoticed, Pulses
<1>6. CASE AtRest
  <2>1. Pulses = {} /\ Working = {}
    BY <1>6 DEF AtRest, Pulses, Working
  <2> QED
    BY <1>1, <1>2, <1>3, <1>6, <2>1 DEF OneRun, Gone, Forgotten, AtRest
<1> QED
  BY <1>1, <1>3, <1>4, <1>5, <1>6 DEF OneRun

\* The disturbances of a behaviour are chosen once.
LEMMA HazardsStay == ASSUME Next PROVE hazards' = hazards
<1>1. ASSUME NEW ans \in Answer, Handler(ans) PROVE hazards' = hazards
  <2>1. CASE Identifying(ans)
    BY <2>1, StageRoutine DEF Routine
  <2>2. CASE Final(ans)
    BY <2>2 DEF Final, user, world
  <2> QED
    BY <1>1, <2>1, <2>2 DEF Identifying
<1>2. ASSUME NEW t, Start(t) PROVE hazards' = hazards
  BY <1>2 DEF Start, StartCheck, StartPower, StartReset, StartStore, user, world
<1> QED
  BY <1>1, <1>2
    DEF Next, Attaching, Preload, Control, CardInsertion, CardRemoval, CardReady, Driver,
        IdentFailed, Poll, User, Remove, Insert, user, world, Answer

\* An empty slot stays silent.
LEMMA StepSilent == ASSUME TypeOK, Silent, Next PROVE Silent'
<1>1. ASSUME NEW ans \in Answer, Handler(ans) PROVE Silent'
  <2>1. Interrupt(ans) /\ slot' = slot
    <3>1. CASE Identifying(ans)
      BY <3>1, StageRoutine DEF Routine
    <3>2. CASE Final(ans)
      BY <3>2 DEF Final, user, world
    <3> QED
      BY <1>1, <3>1, <3>2 DEF Identifying
  <2> QED
    BY <2>1, Answered
<1>2. ASSUME NEW t \in Threads, Start(t) PROVE Silent'
  BY <1>2
    DEF Start, StartCheck, StartPower, StartReset, StartStore, user, world, line, Unpowered,
        Silent, Present, Off
<1>3. CASE Poll
  BY <1>3 DEF Poll, MediaCheck, MediaSeen, world, line, Unpowered, Silent, Present, Off
<1>4. CASE IdentFailed
  BY <1>4 DEF IdentFailed, Judge, Vanished, MediaSeen, world, line, Unpowered, Silent, Present, Off
<1>5. CASE User
  BY <1>5, IdentAssumption DEF User, Remove, Insert, Silent, Present, Off, Kinds, None
<1>6. CASE Preload \/ CardInsertion \/ CardRemoval \/ CardReady
  BY <1>6 DEF Preload, CardInsertion, CardRemoval, CardReady, user, world, line, Silent, Present
<1> QED
  BY <1>1, <1>2, <1>3, <1>4, <1>5, <1>6
    DEF Next, Attaching, Control, Driver, Answer, Threads

\* Every step preserves the types.
LEMMA StepTyped == ASSUME TypeOK, [Next]_vars PROVE TypeOK'
<1>1. CASE UNCHANGED vars
  BY <1>1 DEF TypeOK, vars
<1>2. CASE Next
  BY <1>2, StartTyped, ControlTyped, UserTyped, HandlerTyped
    DEF Next, Attaching, Control, Driver, Threads, Answer
<1> QED
  BY <1>1, <1>2

\* Every step preserves the invariant of the one run.
LEMMA StepOneRun ==
    ASSUME TypeOK, TypeOK', Silent, OneRun, Sequential, Next PROVE OneRun'
<1>1. ASSUME NEW ans \in Answer, Handler(ans) PROVE OneRun'
  <2>1. CASE Identifying(ans)
    BY <2>1, StageRoutine, RoutineOneRun
  <2>2. CASE Final(ans) /\ ~Error(ans)
    <3>1. Present
      BY <2>2, Answered DEF Final, Interrupt, OneRun, Begun
    <3> QED
      BY <2>2, <3>1, FinalOneRun
  <2> QED
    BY <1>1, <2>1, <2>2 DEF Identifying
<1>2. CASE Poll
  BY <1>2, Seen, CheckOneRun DEF Poll, Sequential, Sighted, world
<1> QED
  BY <1>1, <1>2, StartOneRun, PreloadOneRun, ControlOneRun, FailedOneRun, UserOneRun
    DEF Next, Attaching, Control, Driver, Threads, Answer, Sequential, Sighted

\* The inductive invariant.
LEMMA StepSeqInv ==
    ASSUME TypeOK, TypeOK', SeqInv, [Next]_vars PROVE SeqInv'
<1>1. CASE UNCHANGED vars
  <2>1. Silent' = Silent
    BY <1>1 DEF vars, Silent, Present
  <2>2. OneRun' = OneRun
    <3>1. Pulses' = Pulses /\ Working' = Working /\ Present' = Present
      BY <1>1 DEF vars, Pulses, Working, Present
    <3> QED
      BY <1>1, <3>1
        DEF OneRun, Lone, Fresh, Gone, Forgotten, Done, Order, Told, Begun, At, vars
  <2> QED
    BY <1>1, <2>1, <2>2 DEF SeqInv, Sequential, vars
<1>2. CASE Next
  BY <1>2, HazardsStay, StepSilent, StepOneRun DEF SeqInv, Sequential
<1> QED
  BY <1>1, <1>2

\* It holds at startup.
LEMMA InitSeqInv == ASSUME Init PROVE TypeOK /\ SeqInv
<1>1. TypeOK
  <2>1. pc \in [Threads -> {"idle", "preload", "check", "power", "reset", "store", "failed"}]
    BY DEF Init
  <2> QED
    BY <2>1, IdentAssumption DEF Init, TypeOK, Idle, Off, Stages, Flags
<1>2. Pulses = {} /\ Working = {}
  BY DEF Init, Pulses, Working
<1>3. Silent
  BY DEF Init, Silent, Off
<1>4. OneRun
  BY <1>2
    DEF Init, OneRun, Lone, Fresh, Gone, Forgotten, Done, Order, Told, Begun, Threads, None
<1> QED
  BY <1>1, <1>3, <1>4 DEF SeqInv

(***************************************************************************)
(* Theorems                                                                *)
(***************************************************************************)

\* Type correctness.
THEOREM Typing == Spec => []TypeOK
<1>1. Init => TypeOK
  BY InitSeqInv
<1>2. TypeOK /\ [Next]_vars => TypeOK'
  BY StepTyped
<1> QED
  BY <1>1, <1>2, PTL DEF Spec

\* There is one run at a time.
LEMMA Running == Spec => []SeqInv
<1>1. Init => SeqInv
  BY InitSeqInv
<1>2. TypeOK /\ TypeOK' /\ SeqInv /\ [Next]_vars => SeqInv'
  BY StepSeqInv
<1> QED
  BY <1>1, <1>2, Typing, PTL DEF Spec

\* The upper layers were told of the slot's last change.
THEOREM Announcing == Spec => []Announced
<1>1. TypeOK /\ SeqInv => Announced
  <2> SUFFICES ASSUME TypeOK, OneRun, Quiet
               PROVE  IF "READY" \in eflags
                      THEN told = "found" \/ (told = None /\ "PRELOAD" \in eflags)
                      ELSE told # "found"
    BY DEF Announced, SeqInv
  <2>1. Pulses = {}
    BY DEF Quiet, Pulses
  <2> QED
    BY <2>1 DEF OneRun, Told
<1> QED
  BY <1>1, Typing, Running, PTL

\* The verdict on the card in the slot changes one flag at a time.
Verdict == eflags \cap {"INSERTED", "READY", "INVALID"}

Judged ==
    \/ Verdict' = Verdict
    \/ "INSERTED" \notin Verdict'
    \/ Verdict' = Verdict \cup {"INSERTED"}
    \/ Verdict' = Verdict \cup {"READY"}
    \/ "READY" \notin Verdict /\ Verdict' = Verdict \cup {"INVALID"}

\* No step changes the verdict in another way.
LEMMA StepJudged == ASSUME TypeOK, OneRun, Sequential, Next PROVE Judged
<1>1. ASSUME NEW ans \in Answer, Handler(ans) PROVE Judged
  <2>1. CASE Identifying(ans)
    BY <2>1, StageRoutine DEF Routine, Judged, Verdict
  <2>2. CASE Final(ans)
    BY <2>2 DEF Final, Judged, Verdict
  <2> QED
    BY <1>1, <2>1, <2>2 DEF Identifying
<1>2. ASSUME NEW t, Start(t) PROVE Judged
  BY <1>2
    DEF Start, StartCheck, StartPower, StartReset, StartStore, DetectClears, Judged, Verdict
<1>3. CASE Poll
  BY <1>3 DEF Poll, MediaCheck, MediaSeen, DetectClears, Forgot, Judged, Verdict
<1>4. CASE IdentFailed
  <2>1. "READY" \notin eflags
    BY <1>4 DEF IdentFailed, At, OneRun, Done, Working, Threads
  <2> QED
    BY <1>4, <2>1, Seen
      DEF Judge, MediaSeen, DetectClears, Forgot, Judged, Verdict, Sequential, Sighted
<1>5. CASE Preload
  BY <1>5 DEF Preload, DetectClears, Judged, Verdict
<1>6. CASE CardInsertion \/ CardRemoval \/ CardReady \/ User
  BY <1>6 DEF CardInsertion, CardRemoval, CardReady, User, Remove, Insert, Judged, Verdict
<1> QED
  BY <1>1, <1>2, <1>3, <1>4, <1>5, <1>6 DEF Next, Attaching, Control, Driver, Answer

\* The slot of the driver is a slot as MmcSlot promises it: a verdict stands
\* until the card is taken out.
THEOREM Standing == Spec => SlotSafe
<1> USE DEF Slot!Next, Slot!Detect, Slot!Accept, Slot!Reject, Slot!Lose
<1>1. Init => (Sequential => Slot!Init)
  BY DEF Init, Slot!Init, SlotPhase
<1>2. TypeOK /\ SeqInv /\ SeqInv' /\ [Next]_vars => [Sequential => Slot!Next]_SlotPhase
  <2> SUFFICES ASSUME TypeOK, OneRun, OneRun', Sequential, Next
               PROVE  Slot!Next \/ SlotPhase' = SlotPhase
    <3>1. UNCHANGED vars => SlotPhase' = SlotPhase
      BY DEF vars, SlotPhase
    <3> QED
      BY <3>1, HazardsStay DEF SeqInv, Sequential
  <2>1. Judged
    BY StepJudged
  <2>2. /\ "INSERTED" \notin eflags => {"READY", "INVALID"} \cap eflags = {}
        /\ "INSERTED" \notin eflags' => {"READY", "INVALID"} \cap eflags' = {}
    BY DEF OneRun, Forgotten
  <2>3. CASE "INSERTED" \notin eflags'
    BY <2>3 DEF SlotPhase
  <2>4. CASE "INSERTED" \in eflags'
    BY <2>1, <2>2, <2>4 DEF Judged, Verdict, SlotPhase
  <2> QED
    BY <2>3, <2>4
<1> QED
  BY <1>1, <1>2, Typing, Running, PTL DEF Spec, SlotSafe

(***************************************************************************)
(* What an identification knows of the card.  Without swaps (Calm), while  *)
(* a command is on the bus and the card in the slot, the stage of the run  *)
(* says which command that is, how far the card has come, how wide the two *)
(* ends of the bus are and what the fields of the slot tell of the card.   *)
(***************************************************************************)
Calm == hazards \subseteq {"late_store", "noise"}

Mmc(k)   == k \in {"mmc3", "mmc4", "mmc_fast"}
Early    == {"START", "GO_IDLE", "CARD_VERSION", "SD_POWERUP", "MMC_POWERUP"}
Standby  == {"SEND_CID", "SEND_CSD", "SEL_DES_CARD"}
SdNarrow == {"SET_BW_APP", "SET_BW"}
SdWide   == {"SEND_SCR", "PARSE_SCR", "CHECK_MODE"}

Cleared ==
    /\ ident # "START" => count = 0
    /\ "HC" \in eflags => /\ count = 0
                          /\ bus # None => ident \notin Early
                          /\ \A t \in Threads : pc[t] \notin {"power", "reset"}
    /\ {"WP", "INSERTED"} \subseteq eflags /\ Present => slot = "sd_wp"

PoweredOn == Present /\ (\E t \in Threads : pc[t] = "reset") => card = Idle /\ hostw = 1

Recognised ==
    /\ Sd(slot) \/ Mmc(slot)
    /\ "HC" \in eflags <=> slot \in HighCap
    /\ version = "mmc" <=> Mmc(slot)

Sent ==
    /\ ident # "NONE"
    /\ ident \in {"START", "GO_IDLE"} => bus = "GO_IDLE_STATE"
    /\ ident = "CARD_VERSION"    => bus = "IF_COND"
    /\ ident = "SD_POWERUP"      => bus = IF istage % 3 = 2 THEN "SD_SEND_OP_COND" ELSE "APP_CMD"
    /\ ident = "MMC_POWERUP"     => bus = IF istage = 0 THEN "GO_IDLE_STATE" ELSE "SEND_OP_COND"
    /\ ident = "ALL_SEND_CID"    => bus = "ALL_SEND_CID"
    /\ ident = "SET_ADDRESS"     => bus = "SET_RELATIVE_ADDR"
    /\ ident = "SEND_CID"        => bus = "SEND_CID"
    /\ ident = "SEND_CSD"        => bus = "SEND_CSD"
    /\ ident = "SEL_DES_CARD"    => bus = "SEL_DES_CARD"
    /\ ident = "CHECK_STS"       => bus = "SEND_STATUS"
    /\ ident \in {"SET_BW_APP", "SEND_SCR"} => bus = "APP_CMD"
    /\ ident = "SET_BW"          => bus = "SET_BUS_WIDTH"
    /\ ident = "PARSE_SCR"       => bus = "SEND_SCR"
    /\ ident = "CHECK_MODE"      => bus = "CHECK_MODE"
    /\ ident = "EXT_CSD"         => bus = "SEND_EXT_CSD"
    /\ ident = "SWITCH_BUSWIDTH" => bus = "SWITCH"
    /\ ident = "FINAL"           => bus = "SET_BLOCKLEN"

Reached ==
    /\ ident \in Early         => card.st = "idle"
    /\ ident = "ALL_SEND_CID"  => card.st = "ready"
    /\ ident = "SET_ADDRESS"   => card.st = "ident"
    /\ ident \in Standby       => card.st = "stby"
    /\ ident \notin Early \cup Standby \cup {"ALL_SEND_CID", "SET_ADDRESS"} => card.st = "tran"

Wide ==
    /\ ident \in SdNarrow        => card.width = 1 /\ hostw = 4
    /\ ident \in SdWide          => card.width = 4 /\ hostw = 4
    /\ ident = "SWITCH_BUSWIDTH" => card.width = 1 /\ hostw = 8
    /\ ident = "FINAL"           => card.width = hostw
    /\ ident \notin SdNarrow \cup SdWide \cup {"SWITCH_BUSWIDTH", "FINAL"} =>
          card.width = 1 /\ hostw = 1

Known ==
    /\ ident \notin Early        => Recognised
    /\ ident = "SD_POWERUP"      => version # "mmc" /\ (Mmc(slot) => version = "sd1")
    /\ ident = "MMC_POWERUP"     => Mmc(slot)
    /\ ident \in SdNarrow \cup SdWide => Sd(slot)
    /\ ident = "EXT_CSD"         => Mmc4(slot)
    /\ ident = "SWITCH_BUSWIDTH" => slot = "mmc4"
    /\ ident = "FINAL"           => slot # "mmc_fast"

Track == Present /\ bus # None => Sent /\ Reached /\ Wide /\ Known

Match ==
    "READY" \in eflags /\ Present =>
        Recognised /\ slot # "mmc_fast" /\ card.st = "tran" /\ card.width = hostw

CalmInv == Cleared /\ PoweredOn /\ Track /\ Match

\* On a quiet bus, powering up a card the driver knows takes no more rounds than
\* the limits allow, and none of them is given up.
Rounds ==   \* of SD_POWERUP until ACMD41 is on the bus
    CASE istage % 3 = 0 -> istage + 2
      [] istage % 3 = 1 -> istage + 1
      [] istage % 3 = 2 -> istage

Patient ==
    Present /\ bus # None /\ slot \in Supported =>
        /\ ident = "SD_POWERUP"  => IF Sd(slot) THEN Rounds <= SdLimit ELSE istage = 1
        /\ ident = "MMC_POWERUP" => istage <= MmcLimit

Fair ==
    Present /\ ("INVALID" \in eflags \/ At("driver", "failed")) => slot \notin Supported

QuietInv == Patient /\ Fair

\* The card on the bus.
LEMMA Heard ==
    ASSUME TypeOK, NEW ans \in Answer, Interrupt(ans)
    PROVE  /\ bus = "GO_IDLE_STATE" => ans \in {"ok", "error"}
           /\ bus # "GO_IDLE_STATE" => (Obeys(bus) => ans # "timeout")
                /\ (~Obeys(bus) => Error(ans))
           /\ ans = "error" => "noise" \in hazards
           /\ ans = "busy" => bus \in PowerUp /\ (slot = "dud" \/ istage + 3 <= Limit)
           /\ ans = "ok" /\ bus \in PowerUp => slot # "dud"
           /\ card' = IF ans = "ok" THEN Obeyed ELSE card
<1> USE DEF Interrupt, Answers, After, Error
<1>1. CASE bus = "GO_IDLE_STATE"
  BY <1>1 DEF PowerUp
<1>2. CASE bus # "GO_IDLE_STATE" /\ ~Obeys(bus)
  BY <1>2
<1>3. CASE bus # "GO_IDLE_STATE" /\ Obeys(bus) /\ bus \in PowerUp
  <2>1. istage \in Nat /\ Limit \in Nat
    BY IdentAssumption DEF TypeOK, Limit
  <2>2. istage + 3 > Limit \/ istage + 3 <= Limit
    BY <2>1
  <2> QED
    BY <1>3, <2>2
<1>4. CASE bus # "GO_IDLE_STATE" /\ Obeys(bus) /\ bus \notin PowerUp
  BY <1>4
<1> QED
  BY <1>1, <1>2, <1>3, <1>4

\* Which commands a card obeys.
LEMMA Obedience ==
    /\ Obeys("IF_COND") <=> card.st = "idle" /\ slot \in {"sd_wp", "sdhc"}
    /\ Obeys("APP_CMD") <=> card.st \in {"idle", "tran"} /\ (Sd(slot) \/ slot = "dud")
    /\ Obeys("SD_SEND_OP_COND") <=> card.st = "idle" /\ (Sd(slot) \/ slot = "dud")
    /\ Obeys("SEND_OP_COND") <=> card.st = "idle" /\ (slot = "mmc3" \/ Mmc4(slot))
    /\ Obeys("ALL_SEND_CID") <=> card.st = "ready"
    /\ Obeys("SET_RELATIVE_ADDR") <=> card.st = "ident"
    /\ \A c \in {"SEND_CID", "SEND_CSD", "SEL_DES_CARD"} : Obeys(c) <=> card.st = "stby"
    /\ \A c \in {"SEND_STATUS", "SET_BUS_WIDTH", "SWITCH", "SET_BLOCKLEN"} :
          Obeys(c) <=> card.st = "tran"
    /\ \A c \in {"SEND_SCR", "CHECK_MODE"} : Obeys(c) <=> card.st = "tran" /\ card.width = hostw
    /\ Obeys("SEND_EXT_CSD") <=> card.st = "tran" /\ card.width = hostw /\ Mmc4(slot)
  BY DEF Obeys, From, DataCommands

\* What a command does to it.
LEMMA Progress ==
    ASSUME TypeOK
    PROVE  /\ bus = "GO_IDLE_STATE" /\ Present => Obeyed = Idle
           /\ bus \in PowerUp => Obeyed = [card EXCEPT !.st = "ready"]
           /\ bus = "ALL_SEND_CID" => Obeyed = [card EXCEPT !.st = "ident"]
           /\ bus = "SET_RELATIVE_ADDR" => Obeyed = [card EXCEPT !.st = "stby"]
           /\ bus = "SEL_DES_CARD" => Obeyed = [card EXCEPT !.st = "tran"]
           /\ bus = "SET_BUS_WIDTH" => Obeyed = [card EXCEPT !.width = 4]
           /\ bus = "SWITCH" => Obeyed = [card EXCEPT !.width = 8]
           /\ bus \in {"IF_COND", "APP_CMD", "SEND_CID", "SEND_CSD", "SEND_STATUS", "SEND_SCR",
                       "CHECK_MODE", "SEND_EXT_CSD", "SET_BLOCKLEN"} => Obeyed = card
  BY DEF Obeyed, PowerUp

\* One stage after the other.  A stage that fails leaves the bus; the others
\* leave the card where the next stage expects it.
Simple(ans) ==
    \/ AllSendCid(ans) \/ SetAddress(ans) \/ SendCid(ans) \/ SelDesCard(ans) \/ SetBwApp(ans)
    \/ SetBw(ans) \/ SendScr(ans) \/ ParseScr(ans) \/ SwitchBusWidth(ans)

\* The stages that only check for an error.
LEMMA SimpleTracked ==
    ASSUME TypeOK, Present, Track, NEW ans \in Answer, Simple(ans), bus' # None PROVE Track'
<1>1. /\ Sent /\ Reached /\ Wide /\ Known /\ Interrupt(ans) /\ ans \in {"ok", "busy"}
      /\ UNCHANGED <<slot, eflags, version, istage, hostw>> /\ Present'
  BY DEF Simple, Track, AllSendCid, SetAddress, SendCid, SelDesCard, SetBwApp, SetBw,
         SendScr, ParseScr, SwitchBusWidth, Then, Fail, Stage, Interrupt, user, world, Error,
         Answer, Present
<1>2. Recognised'
  BY <1>1
    DEF Simple, AllSendCid, SetAddress, SendCid, SelDesCard, SetBwApp, SetBw, SendScr,
        ParseScr, SwitchBusWidth, Then, Stage, Known, Recognised, Early
<1>3. bus \notin PowerUp \cup {"GO_IDLE_STATE"}
  BY <1>1
    DEF Simple, AllSendCid, SetAddress, SendCid, SelDesCard, SetBwApp, SetBw, SendScr,
        ParseScr, SwitchBusWidth, Then, Stage, Sent, PowerUp
<1>4. card' = Obeyed
  BY <1>1, <1>3, Heard
<1> USE DEF Then, Stage, Send, Fail, Sent, Reached, Wide, Known, Early, Standby, SdNarrow,
            SdWide
<1>5. CASE AllSendCid(ans)
  BY <1>1, <1>2, <1>4, <1>5, Progress DEF AllSendCid, Track, TypeOK
<1>6. CASE SetAddress(ans)
  BY <1>1, <1>2, <1>4, <1>6, Progress DEF SetAddress, Track, TypeOK
<1>7. CASE SendCid(ans)
  BY <1>1, <1>2, <1>4, <1>7, Progress DEF SendCid, Track, TypeOK
<1>8. CASE SelDesCard(ans)
  BY <1>1, <1>2, <1>4, <1>8, Progress DEF SelDesCard, Track, TypeOK
<1>9. CASE SetBwApp(ans)
  BY <1>1, <1>2, <1>4, <1>9, Progress DEF SetBwApp, Track, TypeOK
<1>10. CASE SetBw(ans)
  BY <1>1, <1>2, <1>4, <1>10, Progress DEF SetBw, Track, TypeOK
<1>11. CASE SendScr(ans)
  BY <1>1, <1>2, <1>4, <1>11, Progress DEF SendScr, Track, TypeOK
<1>12. CASE ParseScr(ans)
  BY <1>1, <1>2, <1>4, <1>12, Progress DEF ParseScr, Track, TypeOK, Sd, Mmc
<1>13. CASE SwitchBusWidth(ans)
  BY <1>1, <1>2, <1>4, <1>13, Progress DEF SwitchBusWidth, Track, TypeOK
<1> QED
  BY <1>5, <1>6, <1>7, <1>8, <1>9, <1>10, <1>11, <1>12, <1>13 DEF Simple

\* The stages that do more, each on its own.
LEMMA SendCsdTracked ==
    ASSUME TypeOK, Present, Track, NEW ans \in Answer, SendCsd(ans), bus' # None PROVE Track'
<1>1. /\ Sent /\ Reached /\ Wide /\ Known /\ Interrupt(ans) /\ ans \in {"ok", "busy"}
      /\ UNCHANGED <<slot, version, hostw>> /\ Present' /\ ident = "SEND_CSD"
      /\ ident' = "SEL_DES_CARD" /\ bus' = "SEL_DES_CARD"
      /\ "HC" \in eflags' <=> "HC" \in eflags
  BY DEF Track, SendCsd, Send, Fail, Stage, Interrupt, user, world, Error, Answer, Present
<1>2. bus = "SEND_CSD" /\ card.st = "stby" /\ card.width = 1 /\ hostw = 1 /\ Recognised
  BY <1>1 DEF Sent, Reached, Wide, Known, Early, Standby, SdNarrow, SdWide
<1>3. card' = card
  BY <1>1, <1>2, Heard, Progress
<1> QED
  BY <1>1, <1>2, <1>3
    DEF Track, Sent, Reached, Wide, Known, Recognised, Early, Standby, SdNarrow, SdWide

\* The width of the bus and the next stage depend on the version.
LEMMA StatusTracked ==
    ASSUME TypeOK, Present, Track, NEW ans \in Answer, StatusDone(ans), bus' # None PROVE Track'
<1>1. /\ Sent /\ Reached /\ Wide /\ Known /\ Interrupt(ans) /\ ans \in {"ok", "busy"}
      /\ UNCHANGED <<slot, version, eflags>> /\ Present' /\ ident = "CHECK_STS"
      /\ \/ /\ version = "mmc" /\ Mmc4(slot) /\ hostw' = 1
            /\ ident' = "EXT_CSD" /\ bus' = "SEND_EXT_CSD"
         \/ /\ version = "mmc" /\ ~Mmc4(slot) /\ hostw' = 1
            /\ ident' = "FINAL" /\ bus' = "SET_BLOCKLEN"
         \/ /\ version # "mmc" /\ hostw' = 4
            /\ ident' = "SET_BW_APP" /\ bus' = "APP_CMD"
  BY DEF Track, StatusDone, Send, Fail, Stage, Interrupt, user, world, Error, Answer, Present
<1>2. bus = "SEND_STATUS" /\ card.st = "tran" /\ card.width = 1 /\ hostw = 1 /\ Recognised
  BY <1>1 DEF Sent, Reached, Wide, Known, Early, Standby, SdNarrow, SdWide
<1>3. card' = card
  BY <1>1, <1>2, Heard, Progress
<1> QED
  BY <1>1, <1>2, <1>3
    DEF Track, Sent, Reached, Wide, Known, Recognised, Early, Standby, SdNarrow, SdWide,
        Mmc4, Mmc

\* CHECK_MODE goes on with any answer.
LEMMA ModeTracked ==
    ASSUME TypeOK, Present, Track, NEW ans \in Answer, CheckMode(ans) PROVE Track'
<1>1. /\ Sent /\ Reached /\ Wide /\ Known /\ Interrupt(ans)
      /\ UNCHANGED <<slot, version, eflags, hostw>> /\ Present' /\ ident = "CHECK_MODE"
      /\ ident' = "FINAL" /\ bus' = "SET_BLOCKLEN"
  BY DEF Track, CheckMode, Send, Stage, Interrupt, user, world, Present
<1>2. /\ bus = "CHECK_MODE" /\ card.st = "tran" /\ card.width = 4 /\ hostw = 4 /\ Recognised
      /\ Sd(slot)
  BY <1>1 DEF Sent, Reached, Wide, Known, Early, Standby, SdNarrow, SdWide
<1>3. card' = card
  BY <1>1, <1>2, Heard, Progress
<1> QED
  BY <1>1, <1>2, <1>3
    DEF Track, Sent, Reached, Wide, Known, Recognised, Early, Standby, SdNarrow, SdWide, Sd

\* The controller is widened before the card.
LEMMA ExtCsdTracked ==
    ASSUME TypeOK, Present, Track, NEW ans \in Answer, ReadExtCsd(ans), bus' # None PROVE Track'
<1>1. /\ Sent /\ Reached /\ Wide /\ Known /\ Interrupt(ans) /\ ans \in {"ok", "busy"}
      /\ UNCHANGED <<slot, version, eflags>> /\ hostw' = 8 /\ Present' /\ ident = "EXT_CSD"
      /\ ident' = "SWITCH_BUSWIDTH" /\ bus' = "SWITCH" /\ slot # "mmc_fast"
  BY DEF Track, ReadExtCsd, Send, Fail, Stage, Interrupt, user, world, Error, Answer, Present
<1>2. /\ bus = "SEND_EXT_CSD" /\ card.st = "tran" /\ card.width = 1 /\ hostw = 1 /\ Recognised
      /\ Mmc4(slot)
  BY <1>1 DEF Sent, Reached, Wide, Known, Early, Standby, SdNarrow, SdWide
<1>3. card' = card
  BY <1>1, <1>2, Heard, Progress
<1> QED
  BY <1>1, <1>2, <1>3
    DEF Track, Sent, Reached, Wide, Known, Recognised, Early, Standby, SdNarrow, SdWide,
        Mmc4

\* The card is idle.
LEMMA GoIdleTracked ==
    ASSUME TypeOK, Present, Track, NEW ans \in Answer, GoIdle(ans), bus' # None PROVE Track'
<1>1. /\ Sent /\ Reached /\ Wide /\ Interrupt(ans) /\ ans \in {"ok", "busy"}
      /\ UNCHANGED <<slot, hostw>> /\ Present' /\ ident = "GO_IDLE"
      /\ ident' = "CARD_VERSION" /\ bus' = "IF_COND"
  BY DEF Track, Unstaged, GoIdle, Send, Fail, Stage, Interrupt, user, world, Error, Answer, Present
<1>2. bus = "GO_IDLE_STATE" /\ card.st = "idle" /\ card.width = 1 /\ hostw = 1
  BY <1>1 DEF Sent, Reached, Wide, Early, SdNarrow, SdWide
<1>3. card'.st = "idle" /\ card'.width = 1
  BY <1>1, <1>2, Heard, Progress DEF Idle
<1> QED
  BY <1>1, <1>2, <1>3
    DEF Track, Sent, Reached, Wide, Known, Early, Standby, SdNarrow, SdWide

\* The answer to IF_COND tells the versions apart.
LEMMA VersionTracked ==
    ASSUME TypeOK, Present, Track, NEW ans \in Answer, CardVersion(ans), bus' # None
    PROVE  Track'
<1>1. /\ Sent /\ Reached /\ Wide /\ Interrupt(ans) /\ ans # "error"
      /\ version' = IF ans = "timeout" THEN "sd1" ELSE "sd2"
      /\ UNCHANGED <<slot, hostw>> /\ Present' /\ ident = "CARD_VERSION"
      /\ ident' = "SD_POWERUP" /\ bus' = "APP_CMD" /\ istage' = 1
  BY DEF Track, CardVersion, Send, Fail, Stage, Interrupt, user, world, Present
<1>2. bus = "IF_COND" /\ card.st = "idle" /\ card.width = 1 /\ hostw = 1
  BY <1>1 DEF Sent, Reached, Wide, Early, SdNarrow, SdWide
<1>3. card' = card /\ (Mmc(slot) => ans = "timeout")
  BY <1>1, <1>2, Heard, Progress, Obedience DEF Mmc, Error
<1> QED
  BY <1>1, <1>2, <1>3
    DEF Track, Sent, Reached, Wide, Known, Early, Standby, SdNarrow, SdWide

\* SD_POWERUP, in three phases.
LEMMA SdTracked ==
    ASSUME TypeOK, Present, Track, Cleared, NEW ans \in Answer, SdPowerup(ans), bus' # None
    PROVE  Track'
<1>1. /\ Sent /\ Reached /\ Wide /\ Known /\ Interrupt(ans) /\ bus # None
      /\ UNCHANGED <<slot, hostw, version>> /\ Present' /\ ident = "SD_POWERUP"
  BY DEF Track, SdPowerup, Send, Fail, Stage, Interrupt, user, world, Present
<1>2. /\ card.st = "idle" /\ card.width = 1 /\ hostw = 1 /\ "HC" \notin eflags
      /\ version # "mmc" /\ (Mmc(slot) => version = "sd1")
      /\ bus = IF istage % 3 = 2 THEN "SD_SEND_OP_COND" ELSE "APP_CMD"
      /\ Sd(slot) \/ Mmc(slot) \/ slot = "dud"
  BY <1>1, IdentAssumption
    DEF Sent, Reached, Wide, Known, Early, SdNarrow, SdWide, Cleared, Kinds, Sd, Mmc,
        TypeOK, Present
<1>3. istage \in Nat /\ (istage % 3 = 0 \/ istage % 3 = 1 \/ istage % 3 = 2)
  BY DEF TypeOK
<1> USE DEF Track, Sent, Reached, Wide, Known, Early, Standby, SdNarrow, SdWide
<1>4. CASE ident' = "MMC_POWERUP"
  <2>1. istage = 1 /\ ans = "timeout" /\ bus' = "GO_IDLE_STATE" /\ istage' = 0
    BY <1>4 DEF SdPowerup, Send, Fail
  <2>2. card' = card /\ Mmc(slot)
    BY <1>1, <1>2, <1>3, <2>1, Heard, Progress, Obedience
  <2> QED
    BY <1>1, <1>2, <1>4, <2>1, <2>2
<1>5. CASE ident' = "SD_POWERUP"
  <2>1. /\ istage' = istage + 1
        /\ \/ bus' = "APP_CMD" /\ istage % 3 \in {0, 2}
           \/ bus' = "SD_SEND_OP_COND" /\ istage % 3 = 1
    BY <1>5 DEF SdPowerup, Send, Fail
  <2>2. card' = card
    <3>1. CASE ans = "ok" /\ istage % 3 = 2
      BY <1>5, <3>1 DEF SdPowerup, Send, Fail, Error
    <3>2. CASE ans = "ok" /\ istage % 3 # 2
      BY <1>1, <1>2, <3>2, Heard, Progress
    <3>3. CASE ans # "ok"
      BY <1>1, <3>3, Heard
    <3> QED
      BY <3>1, <3>2, <3>3
  <2>3. bus' = IF istage' % 3 = 2 THEN "SD_SEND_OP_COND" ELSE "APP_CMD"
    BY <1>3, <2>1
  <2> QED
    BY <1>1, <1>2, <1>5, <2>2, <2>3
<1>6. CASE ident' = "ALL_SEND_CID"
  <2>1. ans = "ok" /\ istage % 3 = 2 /\ bus' = "ALL_SEND_CID" /\ eflags' = WithCapacity(eflags)
    BY <1>6 DEF SdPowerup, Send, Fail
  <2>2. bus = "SD_SEND_OP_COND" /\ Obeys(bus) /\ slot # "dud" /\ card' = Obeyed
    BY <1>1, <1>2, <2>1, Heard DEF PowerUp, Error
  <2>3. Sd(slot) /\ card'.st = "ready" /\ card'.width = 1
    BY <1>2, <2>2, Obedience, Progress DEF PowerUp, TypeOK
  <2>4. Recognised'
    BY <1>1, <1>2, <2>1, <2>3 DEF Recognised, WithCapacity, Sd, Mmc
  <2> QED
    BY <1>1, <1>2, <1>6, <2>1, <2>3, <2>4
<1> QED
  BY <1>4, <1>5, <1>6 DEF SdPowerup, Send, Fail

\* MMC_POWERUP, in rounds.
LEMMA MmcTracked ==
    ASSUME TypeOK, Present, Track, Cleared, NEW ans \in Answer, MmcPowerup(ans), bus' # None
    PROVE  Track'
<1>1. /\ Sent /\ Reached /\ Wide /\ Known /\ Interrupt(ans) /\ bus # None
      /\ UNCHANGED <<slot, hostw>> /\ Present' /\ ident = "MMC_POWERUP"
  BY DEF Track, MmcPowerup, Send, Fail, Stage, Interrupt, user, world, Present
<1>2. /\ card.st = "idle" /\ card.width = 1 /\ hostw = 1 /\ "HC" \notin eflags /\ Mmc(slot)
      /\ bus = IF istage = 0 THEN "GO_IDLE_STATE" ELSE "SEND_OP_COND"
  BY <1>1 DEF Sent, Reached, Wide, Known, Early, SdNarrow, SdWide, Cleared
<1> USE DEF Track, Sent, Reached, Wide, Known, Early, Standby, SdNarrow, SdWide
<1>3. CASE ident' = "MMC_POWERUP"
  <2>1. /\ istage' = istage + 1 /\ bus' = "SEND_OP_COND" /\ istage \in Nat
        /\ istage = 0 \/ ans = "busy"
    BY <1>3 DEF MmcPowerup, Send, Fail, TypeOK
  <2>2. card'.st = "idle" /\ card'.width = 1
    BY <1>1, <1>2, <2>1, Heard, Progress DEF Idle
  <2> QED
    BY <1>1, <1>2, <1>3, <2>1, <2>2
<1>4. CASE ident' = "ALL_SEND_CID"
  <2>1. /\ ans = "ok" /\ istage # 0 /\ bus' = "ALL_SEND_CID" /\ eflags' = WithCapacity(eflags)
        /\ version' = "mmc"
    BY <1>4 DEF MmcPowerup, Send, Fail
  <2>2. card'.st = "ready" /\ card'.width = 1
    BY <1>1, <1>2, <2>1, Heard, Progress DEF PowerUp, TypeOK
  <2>3. Recognised'
    BY <1>1, <1>2, <2>1 DEF Recognised, WithCapacity, Mmc
  <2> QED
    BY <1>1, <1>2, <1>4, <2>1, <2>2, <2>3
<1> QED
  BY <1>3, <1>4 DEF MmcPowerup, Send, Fail

\* What the stages do to the flags and to the stage itself.
LEMMA StageFlags ==
    ASSUME NEW ans \in Answer, Handler(ans)
    PROVE  /\ ident = "START" => ident' = "START"
           /\ ident \notin Early => ident' = ident \/ ident' \notin Early
           /\ "HC" \in eflags' => "HC" \in eflags \/ ident' = "ALL_SEND_CID"
           /\ "WP" \in eflags' => "WP" \in eflags \/ slot = "sd_wp"
           /\ "INSERTED" \in eflags' => "INSERTED" \in eflags
<1> USE DEF Stage, Fail, Send, Early
<1>1. CASE Unexpected(ans)
  BY <1>1 DEF Unexpected
<1>2. CASE Restart(ans)
  BY <1>2 DEF Restart
<1>3. CASE Unstaged(ans) \/ GoIdle(ans)
  BY <1>3 DEF Unstaged, GoIdle
<1>4. CASE CardVersion(ans)
  BY <1>4 DEF CardVersion
<1>5. CASE SdPowerup(ans)
  BY <1>5 DEF SdPowerup, WithCapacity
<1>6. CASE MmcPowerup(ans)
  BY <1>6 DEF MmcPowerup, WithCapacity
<1>7. CASE AllSendCid(ans) \/ SetAddress(ans) \/ SendCid(ans)
  BY <1>7 DEF AllSendCid, SetAddress, SendCid, Then
<1>8. CASE SendCsd(ans)
  BY <1>8 DEF SendCsd
<1>9. CASE SelDesCard(ans) \/ SetBwApp(ans) \/ SetBw(ans) \/ SendScr(ans)
  BY <1>9 DEF SelDesCard, SetBwApp, SetBw, SendScr, Then
<1>10. CASE ParseScr(ans) \/ SwitchBusWidth(ans)
  BY <1>10 DEF ParseScr, SwitchBusWidth, Then
<1>11. CASE StatusDone(ans)
  BY <1>11 DEF StatusDone
<1>12. CASE CheckMode(ans) \/ ReadExtCsd(ans)
  BY <1>12 DEF CheckMode, ReadExtCsd
<1>13. CASE Final(ans)
  BY <1>13 DEF Final
<1> QED
  BY <1>1, <1>2, <1>3, <1>4, <1>5, <1>6, <1>7, <1>8, <1>9, <1>10, <1>11, <1>12, <1>13
    DEF Handler

\* All of them.
LEMMA StageTracked ==
    ASSUME TypeOK, Cleared, Track, Present, bus' # None, NEW ans \in Answer, Handler(ans)
    PROVE  Track'
<1>1. ~Unexpected(ans) /\ ~Restart(ans) /\ ~Unstaged(ans) /\ ~Final(ans)
  BY DEF Unexpected, Restart, Unstaged, Fail, Final
<1> QED
  BY <1>1, SimpleTracked, SendCsdTracked, StatusTracked, ModeTracked, ExtCsdTracked,
     GoIdleTracked, VersionTracked, SdTracked, MmcTracked
    DEF Handler, Simple

\* The stages preserve what is known of the card.
LEMMA HandlerCalm ==
    ASSUME TypeOK, TypeOK', OneRun, CalmInv, NEW ans \in Answer, Handler(ans)
    PROVE  CalmInv'
<1>1. /\ bus # None /\ "bus" \in Working /\ Present' = Present /\ slot' = slot /\ count' = count
  <2>1. CASE Identifying(ans)
    BY <2>1, StageRoutine DEF Routine, Working, Present
  <2>2. CASE Final(ans)
    BY <2>2 DEF Final, Interrupt, Working, user, world, Present
  <2> QED
    BY <2>1, <2>2 DEF Identifying
<1>2. /\ "READY" \notin eflags
      /\ \A t \in Threads : pc[t] \notin {"check", "power", "reset", "failed"}
  BY <1>1 DEF OneRun, Done, Lone, Working, Threads
<1>3. \A t \in Threads : pc'[t] \notin {"power", "reset"}
  <2>1. CASE Identifying(ans)
    BY <1>2, <2>1, StageRoutine DEF Routine, TypeOK, Threads
  <2>2. CASE Final(ans)
    BY <1>2, <2>2 DEF Final, Goto, TypeOK, Threads
  <2> QED
    BY <2>1, <2>2 DEF Identifying
<1>4. PoweredOn'
  BY <1>3 DEF PoweredOn
<1>5. Cleared'
  <2>1. "HC" \in eflags /\ ident \notin Early => bus' = None \/ ident' \notin Early
    <3>1. ident' = ident /\ ident \notin Early => ident' \notin Early
      OBVIOUS
    <3> QED
      BY <3>1, StageFlags
  <2> QED
    BY <1>1, <1>3, <2>1, StageFlags DEF CalmInv, Cleared, Early
<1>6. Track'
  <2>1. CASE Present /\ bus' # None
    BY <2>1, StageTracked DEF CalmInv
  <2>2. CASE ~(Present /\ bus' # None)
    BY <1>1, <2>2 DEF Track
  <2> QED
    BY <2>1, <2>2
<1>7. Match'
  <2>1. CASE Identifying(ans)
    BY <1>2, <2>1, StageRoutine DEF Routine, Match
  <2>2. CASE Final(ans) /\ ~Error(ans)
    <3> SUFFICES ASSUME Present
                 PROVE  (Recognised /\ slot # "mmc_fast" /\ card.st = "tran"
                         /\ card.width = hostw)'
      BY <1>1 DEF Match
    <3>1. /\ Recognised /\ slot # "mmc_fast" /\ card.st = "tran" /\ card.width = hostw
          /\ bus = "SET_BLOCKLEN"
      BY <1>1, <2>2 DEF Final, CalmInv, Track, Sent, Reached, Wide, Known, Early, Standby
    <3>2. card' = card
      BY <2>2, <3>1, Heard, Progress DEF Final
    <3>3. UNCHANGED <<slot, hostw, version>> /\ ("HC" \in eflags' <=> "HC" \in eflags)
      BY <2>2 DEF Final, user, world
    <3> QED
      BY <3>1, <3>2, <3>3 DEF Recognised
  <2> QED
    BY <2>1, <2>2 DEF Identifying
<1> QED
  BY <1>4, <1>5, <1>6, <1>7 DEF CalmInv

\* So does mmc_ident_start.
LEMMA StartCalm ==
    ASSUME TypeOK, TypeOK', OneRun, OneRun', CalmInv, Sighted, NEW t \in Threads, Start(t)
    PROVE  CalmInv'
<1>1. /\ Present' = Present /\ slot' = slot /\ version' = version /\ istage' = istage
      /\ eflags' \ {"HC", "WP"} = eflags \ {"HC", "WP"}
      /\ \A u \in Threads \ {t} : pc'[u] = pc[u]
  BY DEF Start, StartCheck, StartPower, StartReset, StartStore, Present, user, world, DetectClears,
         Goto, TypeOK
<1>2. pc[t] \in {"check", "power", "reset"} =>
          /\ t \in Working /\ bus = None /\ "READY" \notin eflags /\ ident = "START"
          /\ \A u \in Threads \ {t} : pc[u] \notin {"check", "power", "reset", "failed"}
  <2> SUFFICES ASSUME pc[t] \in {"check", "power", "reset"}
               PROVE  /\ t \in Working /\ bus = None /\ "READY" \notin eflags /\ ident = "START"
                      /\ \A u \in Threads \ {t} : pc[u] \notin {"check", "power", "reset", "failed"}
    OBVIOUS
  <2>1. t \in Working
    BY DEF Working
  <2> QED
    BY <2>1 DEF OneRun, Lone, Done, Begun, Working, Threads
<1>3. CASE StartCheck(t)
  <2>1. /\ pc[t] = "check" /\ UNCHANGED <<card, hostw, bus, ident, count>>
        /\ pc'[t] # "reset"
        /\ eflags' = DetectClears(Present, IF count = 0 THEN eflags \ {"WP", "HC"} ELSE eflags)
    BY <1>3 DEF StartCheck, Detects, Sighted, At, Goto, line, TypeOK
  <2>2. "HC" \notin eflags'
    BY <2>1 DEF CalmInv, Cleared, DetectClears
  <2>3. "WP" \in eflags' => ~Present
    BY <2>1 DEF DetectClears
  <2> QED
    BY <1>1, <1>2, <2>1, <2>2, <2>3 DEF CalmInv, Cleared, PoweredOn, Track, Match
<1>4. CASE StartPower(t)
  <2>1. /\ pc[t] = "power" /\ UNCHANGED <<eflags, ident, count>> /\ bus' = None /\ hostw' = 1
        /\ card' = IF Present THEN Idle ELSE Off
    BY <1>4 DEF StartPower, At, Goto, Unpowered
  <2> QED
    BY <1>1, <1>2, <2>1 DEF CalmInv, Cleared, PoweredOn, Track, Match
<1>5. CASE StartReset(t)
  <2>1. /\ pc[t] = "reset" /\ UNCHANGED <<eflags, card, hostw>> /\ bus' = "GO_IDLE_STATE"
        /\ pc'[t] \in {"idle", "store"}
        /\ \/ ident' = ident
           \/ ident' = "GO_IDLE" /\ count' = 0
    BY <1>5, IdentAssumption DEF StartReset, At, Goto, line, TypeOK
  <2>2. "HC" \notin eflags /\ (Present => card = Idle /\ hostw = 1)
    BY <2>1 DEF CalmInv, Cleared, PoweredOn
  <2>3. ident' \in {"START", "GO_IDLE"} /\ (ident' # "START" => count' = 0)
    BY <1>2, <2>1
  <2>4. (Cleared /\ PoweredOn /\ Match)'
    BY <1>1, <1>2, <2>1, <2>2, <2>3 DEF CalmInv, Cleared, PoweredOn, Match
  <2>5. Track'
    BY <1>1, <2>1, <2>2, <2>3
      DEF Track, Sent, Reached, Wide, Known, Idle, Early, Standby, SdNarrow, SdWide
  <2> QED
    BY <2>4, <2>5 DEF CalmInv
<1>6. CASE StartStore(t)
  <2>1. /\ UNCHANGED <<eflags, bus, hostw, card, ident, count>> /\ pc'[t] = "idle"
    BY <1>6 DEF StartStore, line, Goto, TypeOK
  <2>2. (Cleared /\ PoweredOn)'
    BY <1>1, <2>1 DEF CalmInv, Cleared, PoweredOn
  <2>3. (Track /\ Match)'
    BY <1>1, <2>1 DEF CalmInv, Track, Match, Sent, Reached, Wide, Known, Recognised
  <2> QED
    BY <2>2, <2>3 DEF CalmInv
<1> QED
  BY <1>3, <1>4, <1>5, <1>6 DEF Start

\* So do the pulses.
LEMMA ControlCalm ==
    ASSUME TypeOK, TypeOK', OneRun, OneRun', CalmInv,
           Preload \/ CardInsertion \/ CardRemoval \/ CardReady
    PROVE  CalmInv'
<1>1. /\ UNCHANGED <<bus, hostw, card, version, istage, count, slot>> /\ Present' = Present
      /\ \A t \in Threads : pc'[t] \in {"power", "reset"} => pc'[t] = pc[t]
  BY DEF Preload, CardInsertion, CardRemoval, CardReady, user, world, line, Goto, Present, TypeOK,
         Threads
<1>2. PoweredOn'
  BY <1>1 DEF CalmInv, PoweredOn
<1>3. CASE Preload
  <2>1. eflags = {} /\ Working = {}
    BY <1>3 DEF Preload, OneRun, Fresh
  <2>2. bus = None
    BY <2>1 DEF Working
  <2>3. /\ "HC" \notin eflags' /\ "WP" \notin eflags' /\ "READY" \notin eflags'
        /\ ident' \in {ident, "START"}
    BY <1>3, <2>1 DEF Preload, DetectClears
  <2> QED
    BY <1>1, <1>2, <2>2, <2>3 DEF CalmInv, Cleared, Track, Match
<1>4. CASE CardInsertion
  <2>1. "INSERTION" \in Pulses
    BY <1>4, Dequeued DEF CardInsertion, Pulse, Pulses, TypeOK
  <2>2. bus = None /\ "READY" \notin eflags
    BY <2>1 DEF OneRun, Lone, Done, Working
  <2>3. Present => "INSERTED" \in eflags
    BY <2>1 DEF OneRun, Forgotten, Working
  <2>4. eflags' = eflags \cup {"INSERTED"} /\ ident' = "START"
    BY <1>4 DEF CardInsertion
  <2> QED
    BY <1>1, <1>2, <2>2, <2>3, <2>4 DEF CalmInv, Cleared, Track, Match
<1>5. CASE CardRemoval
  <2>1. ident' = ident /\ eflags' = eflags \ {"READY", "INSERTED", "PRELOAD"}
    BY <1>5 DEF CardRemoval
  <2>2. Cleared' /\ Match'
    BY <1>1, <2>1 DEF CalmInv, Cleared, Match
  <2>3. Track'
    BY <1>1, <2>1 DEF CalmInv, Track, Sent, Reached, Wide, Known, Recognised
  <2> QED
    BY <1>2, <2>2, <2>3 DEF CalmInv
<1>6. CASE CardReady
  <2>1. ident' = ident /\ eflags' = eflags
    BY <1>6 DEF CardReady
  <2>2. Cleared'
    BY <1>1, <2>1 DEF CalmInv, Cleared
  <2>3. (Track /\ Match)'
    BY <1>1, <2>1 DEF CalmInv, Track, Match, Sent, Reached, Wide, Known, Recognised
  <2> QED
    BY <1>2, <2>2, <2>3 DEF CalmInv
<1> QED
  BY <1>3, <1>4, <1>5, <1>6

\* So do the polls and a failure.
LEMMA CheckCalm ==
    ASSUME TypeOK, TypeOK', OneRun, OneRun', CalmInv, Sighted, Poll \/ IdentFailed
    PROVE  CalmInv'
<1>0. /\ Poll \/ (~Present /\ IdentFailed) => MediaSeen(Present)
      /\ Present /\ IdentFailed => Judge(TRUE)
  BY Seen DEF Poll
<1>1. /\ UNCHANGED <<version, istage, count, slot, ident>> /\ Present' = Present
      /\ \A t \in Threads : pc'[t] \in {"power", "reset"} => pc'[t] = pc[t]
  BY DEF Poll, IdentFailed, world, Goto, Present, TypeOK, Threads
<1>2. /\ "HC" \in eflags' => "HC" \in eflags
      /\ "WP" \in eflags' => ~Present
      /\ "READY" \in eflags' => "READY" \in eflags
  BY <1>0 DEF Judge, MediaSeen, DetectClears, Forgot
<1>3. CASE UNCHANGED <<bus, hostw, card>>
  <2>1. "HC" \in eflags' <=> "HC" \in eflags
    BY <1>0 DEF Judge, MediaSeen, DetectClears, Forgot
  <2>2. (Cleared /\ PoweredOn)'
    BY <1>1, <1>2, <1>3 DEF CalmInv, Cleared, PoweredOn
  <2>3. (Track /\ Match)'
    BY <1>1, <1>2, <1>3, <2>1
      DEF CalmInv, Track, Match, Sent, Reached, Wide, Known, Recognised
  <2> QED
    BY <2>2, <2>3 DEF CalmInv
<1>4. CASE Unpowered /\ (~Present \/ At("driver", "failed"))
  <2>1. bus' = None /\ hostw' = 1 /\ (Present => card' = Idle)
    BY <1>4 DEF Unpowered
  <2>2. At("driver", "failed") => "READY" \notin eflags
    BY DEF At, OneRun, Done, Working, Threads
  <2> QED
    BY <1>1, <1>2, <1>4, <2>1, <2>2 DEF CalmInv, Cleared, PoweredOn, Track, Match
<1> QED
  BY <1>0, <1>3, <1>4 DEF IdentFailed, Judge, MediaSeen, line

\* Without swaps, a card comes into a slot that is at rest and forgotten.
LEMMA Waited ==
    ASSUME OneRun, Calm, NEW k, Insert(k)
    PROVE  /\ bus = None /\ {"INSERTED", "READY", "INVALID"} \cap eflags = {}
           /\ \A t \in Threads : pc[t] = "idle"
<1>1. ~Unnoticed /\ AtRest
  BY DEF Insert, Calm
<1>2. "INSERTED" \notin eflags
  BY <1>1 DEF Unnoticed, AtRest
<1> QED
  BY <1>1, <1>2 DEF AtRest, OneRun, Forgotten

\* So does a user who waits.
LEMMA UserCalm ==
    ASSUME TypeOK, OneRun, Calm, CalmInv, User PROVE CalmInv'
<1>1. UNCHANGED <<bus, hostw, eflags, ident, count, pc, version, istage>>
  BY DEF User, Remove, Insert
<1>2. CASE Remove
  BY <1>1, <1>2 DEF Remove, CalmInv, Cleared, PoweredOn, Track, Match, Present
<1>3. ASSUME NEW k, Insert(k) PROVE CalmInv'
  BY <1>1, <1>3, Waited DEF CalmInv, Cleared, PoweredOn, Track, Match
<1> QED
  BY <1>2, <1>3 DEF User

\* So does every step.
LEMMA StepCalm ==
    ASSUME TypeOK, TypeOK', OneRun, OneRun', Calm, CalmInv, [Next]_vars PROVE CalmInv'
<1>1. CASE UNCHANGED vars
  <2>1. Present' = Present
    BY <1>1 DEF vars, Present
  <2>2. (Cleared /\ PoweredOn)'
    BY <1>1, <2>1 DEF vars, CalmInv, Cleared, PoweredOn
  <2>3. (Track /\ Match)'
    BY <1>1, <2>1 DEF vars, CalmInv, Track, Match, Sent, Reached, Wide, Known, Recognised
  <2> QED
    BY <2>2, <2>3 DEF CalmInv
<1>2. CASE Next
  BY <1>2, HandlerCalm, StartCalm, ControlCalm, CheckCalm, UserCalm
    DEF Next, Attaching, Control, Driver, Threads, Answer, Calm, Sighted
<1> QED
  BY <1>1, <1>2

\* On a quiet bus: which cards are given up, and how long powering up takes.
LEMMA GivenUp ==
    ASSUME TypeOK, Present, Track, Patient, "noise" \notin hazards,
           NEW ans \in Answer, Handler(ans), Goto("driver", "failed")
    PROVE  slot \notin Supported
<1> SUFFICES ASSUME slot \in Supported PROVE FALSE
  OBVIOUS
<1>1. Interrupt(ans) /\ bus # None /\ ans # "error" /\ pc["driver"] = "idle" /\ pc # pc'
  <2>1. Interrupt(ans)
    BY StageRoutine DEF Identifying, Final
  <2> QED
    BY <2>1, Heard DEF Interrupt, At, Goto, TypeOK, Threads
<1>2. Sent /\ Reached /\ Wide /\ Known
  BY <1>1 DEF Track
<1> USE DEF Sent, Reached, Wide, Known, Early, Standby, SdNarrow, SdWide, Stage
<1>3. CASE Unstaged(ans) \/ GoIdle(ans)
  BY <1>1, <1>2, <1>3, Heard DEF Unstaged, GoIdle, Error
<1>4. CASE CardVersion(ans)
  BY <1>1, <1>4 DEF CardVersion
<1>5. CASE SdPowerup(ans)
  <2>1. /\ ident = "SD_POWERUP" /\ istage \in Nat
        /\ istage > SdLimit \/ (istage % 3 # 0 /\ Error(ans)
               /\ ~(istage = 1 /\ version = "sd1" /\ ans = "timeout"))
    BY <1>1, <1>5 DEF SdPowerup, TypeOK
  <2>2. IF Sd(slot) THEN Rounds <= SdLimit ELSE istage = 1 /\ Mmc(slot)
    BY <1>1, <2>1 DEF Patient, Supported, Sd, Mmc
  <2>3. istage <= SdLimit
    BY <2>1, <2>2, IdentAssumption DEF Rounds
  <2>4. ans = "timeout" /\ bus # "GO_IDLE_STATE" /\ ~Obeys(bus)
    BY <1>1, <1>2, <2>1, <2>3, IdentAssumption, Heard DEF Error
  <2>5. ~Sd(slot)
    BY <1>2, <2>1, <2>4, Obedience
  <2> QED
    BY <1>2, <2>1, <2>2, <2>3, <2>4, <2>5, IdentAssumption
<1>6. CASE MmcPowerup(ans)
  <2>1. istage <= MmcLimit /\ istage \in Nat /\ ident = "MMC_POWERUP" /\ Mmc(slot)
    BY <1>1, <1>2, <1>6 DEF MmcPowerup, Patient, TypeOK
  <2>2. istage > 0 /\ Error(ans)
    BY <1>1, <1>6, <2>1, IdentAssumption DEF MmcPowerup
  <2> QED
    BY <1>1, <1>2, <2>1, <2>2, Heard, Obedience DEF Mmc, Mmc4, Error
<1>7. CASE Simple(ans) \/ SendCsd(ans) \/ StatusDone(ans) \/ Final(ans)
  <2>1. ans = "timeout"
    BY <1>1, <1>7
      DEF Simple, AllSendCid, SetAddress, SendCid, SelDesCard, SetBwApp, SetBw, SendScr,
          ParseScr, SwitchBusWidth, Then, SendCsd, StatusDone, Final, Error
  <2>2. bus # "GO_IDLE_STATE" => ~Obeys(bus)
    BY <1>1, <2>1, Heard
  <2> QED
    BY <1>1, <1>2, <1>7, <2>1, <2>2, Heard, Obedience
      DEF Simple, AllSendCid, SetAddress, SendCid, SelDesCard, SetBwApp, SetBw, SendScr,
          ParseScr, SwitchBusWidth, Then, SendCsd, StatusDone, Final, Error
<1>8. CASE ReadExtCsd(ans)
  <2>1. Error(ans) \/ slot = "mmc_fast"
    BY <1>1, <1>8 DEF ReadExtCsd
  <2> QED
    BY <1>1, <1>2, <1>8, <2>1, Heard, Obedience DEF ReadExtCsd, Error, Supported
<1>9. ~Unexpected(ans) /\ ~Restart(ans) /\ ~CheckMode(ans)
  BY <1>1 DEF Unexpected, Restart, CheckMode, Goto, TypeOK, Threads
<1> QED
  BY <1>3, <1>4, <1>5, <1>6, <1>7, <1>8, <1>9 DEF Handler, Simple

\* No round of the power-up is one too many.
LEMMA HandlerPatient ==
    ASSUME TypeOK, Present, Track, Patient, bus' # None, "noise" \notin hazards,
           NEW ans \in Answer, Handler(ans), slot' = slot
    PROVE  Patient'
<1> SUFFICES ASSUME slot \in Supported, ident' \in {"SD_POWERUP", "MMC_POWERUP"}
             PROVE  /\ ident' = "SD_POWERUP"  => (IF Sd(slot) THEN Rounds' <= SdLimit ELSE istage' = 1)
                    /\ ident' = "MMC_POWERUP" => istage' <= MmcLimit
  BY DEF Patient, Sd
<1>1. CardVersion(ans) \/ SdPowerup(ans) \/ MmcPowerup(ans)
  BY DEF Handler, Unexpected, Restart, Unstaged, GoIdle, AllSendCid, SetAddress, SendCid, SendCsd,
         SelDesCard, StatusDone, SetBwApp, SetBw, SendScr, ParseScr, CheckMode, ReadExtCsd,
         SwitchBusWidth, Final, Then, Send, Fail
<1>2. CASE CardVersion(ans)
  BY <1>2, IdentAssumption DEF CardVersion, Send, Fail, Rounds
<1>3. CASE SdPowerup(ans)
  <2>1. /\ ident = "SD_POWERUP" /\ istage \in Nat /\ Interrupt(ans) /\ bus # None
        /\ istage % 3 = 0 \/ istage % 3 = 1 \/ istage % 3 = 2
    BY <1>3 DEF SdPowerup, Stage, Interrupt, TypeOK
  <2>2. CASE ident' = "MMC_POWERUP"
    BY <1>3, <2>2, IdentAssumption DEF SdPowerup, Send, Fail
  <2>3. CASE ident' = "SD_POWERUP"
    <3>1. /\ istage' = istage + 1
          /\ istage % 3 = 0 \/ (istage % 3 = 2 /\ ans = "busy") \/ (istage % 3 = 1 /\ ~Error(ans))
      BY <1>3, <2>3 DEF SdPowerup, Send, Fail
    <3>2. bus = IF istage % 3 = 2 THEN "SD_SEND_OP_COND" ELSE "APP_CMD"
      BY <2>1 DEF Track, Sent
    <3>3. Sd(slot)
      <4> SUFFICES ASSUME ~Sd(slot) PROVE FALSE
        OBVIOUS
      <4>1. istage = 1
        BY <2>1 DEF Patient
      <4> QED
        BY <2>1, <3>1, <3>2, <4>1, Heard, Obedience DEF Supported, Sd, Error
    <3>4. Rounds <= SdLimit
      BY <2>1, <3>3 DEF Patient
    <3>5. CASE istage % 3 = 0
      <4>1. istage' % 3 = 1 /\ Rounds = istage + 2 /\ Rounds' = istage' + 1
        BY <2>1, <3>1, <3>5 DEF Rounds
      <4> QED
        BY <2>1, <2>3, <3>1, <3>3, <3>4, <4>1, IdentAssumption
    <3>6. CASE istage % 3 = 1
      <4>1. istage' % 3 = 2 /\ Rounds = istage + 1 /\ Rounds' = istage'
        BY <2>1, <3>1, <3>6 DEF Rounds
      <4> QED
        BY <2>1, <2>3, <3>1, <3>3, <3>4, <4>1, IdentAssumption
    <3>7. CASE istage % 3 = 2
      <4>1. istage' % 3 = 0 /\ Rounds' = istage' + 2
        BY <2>1, <3>1, <3>7 DEF Rounds
      <4>2. istage + 3 <= SdLimit
        BY <2>1, <3>1, <3>2, <3>7, Heard DEF Limit, Supported
      <4> QED
        BY <2>1, <2>3, <3>1, <3>3, <4>1, <4>2, IdentAssumption
    <3> QED
      BY <2>1, <3>5, <3>6, <3>7
  <2> QED
    BY <2>2, <2>3
<1>4. CASE MmcPowerup(ans)
  <2>1. /\ istage \in Nat /\ istage' = istage + 1 /\ ident' = "MMC_POWERUP" /\ Interrupt(ans)
        /\ istage = 0 \/ ans = "busy"
        /\ bus = IF istage = 0 THEN "GO_IDLE_STATE" ELSE "SEND_OP_COND"
    BY <1>4 DEF MmcPowerup, Send, Fail, Stage, Interrupt, TypeOK, Track, Sent
  <2>2. CASE istage = 0
    BY <2>1, <2>2, IdentAssumption
  <2>3. CASE istage # 0
    <3>1. istage + 3 <= MmcLimit
      BY <2>1, <2>3, Heard DEF Limit, Supported
    <3> QED
      BY <2>1, <3>1, IdentAssumption
  <2> QED
    BY <2>1, <2>2, <2>3
<1> QED
  BY <1>1, <1>2, <1>3, <1>4

\* Every step on a quiet bus preserves it.
LEMMA StepQuiet ==
    ASSUME TypeOK, TypeOK', OneRun, Calm, "noise" \notin hazards, CalmInv, QuietInv, [Next]_vars
    PROVE  QuietInv'
<1>1. ASSUME NEW ans \in Answer, Handler(ans) PROVE QuietInv'
  <2>1. /\ Present' = Present /\ slot' = slot
        /\ "INVALID" \in eflags' => "INVALID" \in eflags
        /\ At("driver", "failed")' => Goto("driver", "failed")
    <3>1. CASE Identifying(ans)
      BY <3>1, StageRoutine DEF Routine, Present, At, Goto, TypeOK, Threads
    <3>2. CASE Final(ans)
      BY <3>2 DEF Final, Interrupt, user, world, Present, At, Goto
    <3> QED
      BY <1>1, <3>1, <3>2 DEF Identifying
  <2>2. Patient'
    BY <1>1, <2>1, HandlerPatient DEF CalmInv, QuietInv, Patient
  <2>3. Fair'
    BY <1>1, <2>1, GivenUp DEF CalmInv, QuietInv, Fair
  <2> QED
    BY <2>2, <2>3 DEF QuietInv
<1>2. ASSUME NEW t \in Threads, Start(t) PROVE QuietInv'
  <2>1. /\ Present' = Present /\ slot' = slot /\ UNCHANGED istage
        /\ "INVALID" \in eflags' => "INVALID" \in eflags
        /\ At("driver", "failed")' => At("driver", "failed") \/ ~Present
    BY <1>2
      DEF Start, StartCheck, Detects, StartPower, StartReset, StartStore, user, world, Present,
          DetectClears, At, Goto, TypeOK, Threads, Calm
  <2>2. bus' = None \/ ident' \in {"START", "GO_IDLE"} \/ UNCHANGED <<bus, ident>>
    BY <1>2
      DEF Start, StartCheck, StartPower, StartReset, StartStore, line, At, OneRun, Begun
  <2>3. Rounds' = Rounds
    BY <2>1 DEF Rounds
  <2> QED
    BY <2>1, <2>2, <2>3 DEF QuietInv, Patient, Fair, Sd
<1>3. CASE Preload \/ CardInsertion \/ CardRemoval \/ CardReady
  <2>1. /\ Present' = Present /\ UNCHANGED <<slot, istage, bus>>
        /\ "INVALID" \in eflags' => "INVALID" \in eflags
        /\ At("driver", "failed")' => At("driver", "failed")
        /\ ident' \in {ident, "START"}
    BY <1>3
      DEF Preload, CardInsertion, CardRemoval, CardReady, user, world, line, Present, DetectClears,
          At, Goto, TypeOK, Threads
  <2>2. Rounds' = Rounds
    BY <2>1 DEF Rounds
  <2> QED
    BY <2>1, <2>2 DEF QuietInv, Patient, Fair, Sd
<1>4. CASE Poll \/ IdentFailed
  <2>1. /\ Present' = Present /\ UNCHANGED <<slot, istage, ident>> /\ bus' \in {bus, None}
        /\ At("driver", "failed")' => At("driver", "failed")
        /\ "INVALID" \in eflags' /\ Present => "INVALID" \in eflags \/ At("driver", "failed")
    <3>1. Sighted
      BY DEF Calm, Sighted
    <3>2. MediaSeen(Present) \/ (At("driver", "failed") /\ Judge(TRUE))
      BY <1>4, <3>1, Seen DEF Poll, IdentFailed
    <3>3. /\ Present' = Present /\ UNCHANGED <<slot, istage, ident>>
          /\ At("driver", "failed")' => At("driver", "failed")
      BY <1>4 DEF Poll, IdentFailed, world, Present, At, Goto, TypeOK, Threads
    <3> QED
      BY <3>2, <3>3 DEF MediaSeen, Judge, Forgot, line, DetectClears, Unpowered
  <2>2. Rounds' = Rounds
    BY <2>1 DEF Rounds
  <2> QED
    BY <2>1, <2>2 DEF QuietInv, Patient, Fair, Sd
<1>5. CASE Remove
  BY <1>5 DEF Remove, QuietInv, Patient, Fair, Present
<1>6. ASSUME NEW k, Insert(k) PROVE QuietInv'
  <2>1. UNCHANGED <<bus, eflags, pc>>
    BY <1>6 DEF Insert
  <2> QED
    BY <1>6, <2>1, Waited DEF QuietInv, Patient, Fair, At, Threads
<1>7. CASE UNCHANGED vars
  BY <1>7 DEF vars, QuietInv, Patient, Fair, Present, At, Rounds, Sd
<1> QED
  BY <1>1, <1>2, <1>3, <1>4, <1>5, <1>6, <1>7
    DEF Next, Attaching, Control, Driver, User, Threads, Answer

\* What is known of the card, from the first detection on.
CardInv == (Calm => CalmInv) /\ (Calm /\ "noise" \notin hazards => QuietInv)

\* The invariant of an identification.
LEMMA Identification == Spec => []CardInv
<1>1. Init => CardInv
  BY DEF Init, CardInv, CalmInv, QuietInv, Cleared, PoweredOn, Track, Match, Patient, Fair,
         At, Threads
<1>2. TypeOK /\ TypeOK' /\ SeqInv /\ SeqInv' /\ CardInv /\ [Next]_vars => CardInv'
  <2> SUFFICES ASSUME TypeOK, TypeOK', SeqInv, SeqInv', CardInv, [Next]_vars PROVE CardInv'
    OBVIOUS
  <2>1. hazards' = hazards
    BY HazardsStay DEF vars
  <2>2. Calm => OneRun /\ OneRun'
    BY <2>1 DEF Calm, Sequential, SeqInv
  <2> QED
    BY <2>1, <2>2, StepCalm, StepQuiet DEF CardInv, Calm
<1> QED
  BY <1>1, <1>2, Typing, Running, PTL DEF Spec

\* What the driver knows of a card it takes requests for is true of that card; of
\* the write protection, that none is taken for protected that is not.
THEOREM Matching == Spec => []ReadyMatchesCard
<1>1. TypeOK /\ CardInv => ReadyMatchesCard
  <2> SUFFICES ASSUME Calm, CalmInv, Usable
               PROVE  /\ slot \in Supported
                      /\ card.st = "tran" /\ card.width = hostw
                      /\ "HC" \in eflags <=> slot \in HighCap
                      /\ version = "mmc" <=> slot \in {"mmc3", "mmc4"}
                      /\ "WP" \in eflags => slot = "sd_wp"
    BY DEF ReadyMatchesCard, CardInv, Calm
  <2>1. Recognised /\ slot # "mmc_fast" /\ card.st = "tran" /\ card.width = hostw
    BY DEF Usable, CalmInv, Match
  <2>2. "WP" \in eflags => slot = "sd_wp"
    BY DEF Usable, CalmInv, Cleared
  <2> QED
    BY <2>1, <2>2 DEF Recognised, Supported, Sd, Mmc
<1> QED
  BY <1>1, Typing, Identification, PTL

\* On a quiet bus and with a pin that can be read, without swaps and with one
\* identification at a time, only a card the driver does not know is rejected.
THEOREM Rejecting == Spec => []RejectedForCause
<1>1. CardInv => RejectedForCause
  BY DEF CardInv, Calm, QuietInv, Fair, RejectedForCause, InvalidMeansUnsupported
<1> QED
  BY <1>1, Identification, PTL

(***************************************************************************)
(* Where the one run is.  Without the late store an answer is looked at    *)
(* only when its sender has stored the state.  The invariant says what a   *)
(* sender that has not done so yet relies on, and that the state is right  *)
(* whenever an answer about a card that is still in may come.              *)
(***************************************************************************)
Storing == \E t \in Threads : At(t, "store")

Stored ==
    \A t \in Threads : At(t, "store") =>
        /\ t # "driver" /\ Working \subseteq {"bus"}
        /\ bus = None => ~Present
        /\ {"READY", "INVALID"} \cap eflags = {}
        /\ Present => "INSERTED" \in eflags
        /\ ~At("main", "preload")
        /\ \A u \in Threads : At(u, "store") => u = t

Heralded == "INSERTION" \in Pulses => "INSERTED" \in eflags \/ Removing
Rejected == "INVALID" \in eflags => Working = {}
Expected == Present /\ ~Storing /\ (bus # None \/ ~At("driver", "idle")) => state = "IDENT"

RunInv == Heralded /\ Stored /\ Rejected /\ Expected

\* The stages of mmc_card_ident.
LEMMA RoutineRun ==
    ASSUME TypeOK, TypeOK', OneRun, RunInv, Routine, ~Storing PROVE RunInv'
<1>1. /\ Pulses' = Pulses /\ Removing' = Removing /\ Present' = Present /\ state' = state
      /\ bus # None /\ (\A f \in {"INSERTED", "INVALID"} : f \in eflags' <=> f \in eflags)
  BY DEF Routine, Pulses, Removing, Present
<1>2. ~Storing'
  BY DEF Routine, Storing, At, TypeOK, Threads
<1>3. "INVALID" \notin eflags
  BY <1>1 DEF RunInv, Rejected, Working
<1>4. Stored'
  BY <1>2 DEF Stored, Storing
<1>5. (Heralded /\ Rejected /\ Expected)'
  BY <1>1, <1>2, <1>3 DEF RunInv, Heralded, Rejected, Expected
<1> QED
  BY <1>4, <1>5 DEF RunInv

\* mmc_media_check, from the timer and after a failed identification.
LEMMA CheckRun ==
    ASSUME TypeOK, TypeOK', OneRun, RunInv, MediaSeen(Present), ~At("main", "preload"),
           UNCHANGED <<slot>>,
           \/ At("driver", "idle") /\ UNCHANGED <<pc, state>>
           \/ ~Present /\ At("driver", "failed") /\ pc' = [pc EXCEPT !["driver"] = "idle"]
    PROVE  RunInv'
<1>1. Present' = Present /\ ~At("main", "preload")'
  BY DEF Present, At, TypeOK, Threads
<1>2. /\ At("driver", "idle")'
      /\ \A t \in Threads : pc'[t] # pc[t] => t = "driver" /\ pc'[t] = "idle"
      /\ \A t \in Threads : pc'[t] # "idle" => pc'[t] = pc[t]
  BY DEF TypeOK, Threads, At
<1>3. Storing' = Storing /\ \A t \in Threads : At(t, "store")' = At(t, "store")
  BY <1>2 DEF Storing, At, TypeOK, Threads
<1>4. CASE UNCHANGED <<ctlq, bus>> /\ (eflags' = eflags \ {"WP"} \/ eflags' = eflags)
  <2>1. Pulses' = Pulses /\ Removing' = Removing /\ Working' \subseteq Working
    BY <1>2, <1>4 DEF Pulses, Removing, Working, At
  <2>2. Stored'
    BY <1>1, <1>3, <1>4, <2>1 DEF RunInv, Stored
  <2>3. (Heralded /\ Rejected)'
    BY <1>4, <2>1 DEF RunInv, Heralded, Rejected
  <2>4. Expected'
    BY <1>1, <1>2, <1>3, <1>4 DEF RunInv, Expected
  <2> QED
    BY <2>2, <2>3, <2>4 DEF RunInv
<1>5. CASE /\ Present /\ "INSERTED" \notin eflags
           /\ eflags' = DetectClears(TRUE, eflags) \cup {"INSERTED"}
           /\ ctlq' = Append(ctlq, "INSERTION") /\ UNCHANGED line
  <2>1. Working = {} /\ {"READY", "INVALID"} \cap eflags = {} /\ ~Storing
    BY <1>5 DEF OneRun, Forgotten, RunInv, Stored, Storing
  <2>2. bus' = None
    BY <1>5, <2>1 DEF Working, line
  <2>3. (Stored /\ Heralded /\ Rejected /\ Expected)'
    BY <1>1, <1>2, <1>3, <1>5, <2>1, <2>2
      DEF Stored, Storing, Heralded, Rejected, Expected, DetectClears
  <2> QED
    BY <2>3 DEF RunInv
<1>6. CASE /\ ~Present /\ "INSERTED" \in eflags /\ eflags' = Forgot(eflags)
           /\ ctlq' = Append(ctlq, "REMOVAL") /\ Unpowered
  <2>1. Pulses' = Pulses \cup {"REMOVAL"} /\ Removing'
    BY <1>6, Queued DEF Removing
  <2>2. Working' \subseteq Working
    BY <1>2, <1>6, <2>1 DEF Working, Unpowered
  <2>3. Stored'
    BY <1>1, <1>3, <1>6, <2>2 DEF RunInv, Stored, Forgot
  <2>4. (Heralded /\ Rejected /\ Expected)'
    BY <1>1, <1>6, <2>1 DEF RunInv, Heralded, Rejected, Expected, Forgot
  <2> QED
    BY <2>3, <2>4 DEF RunInv
<1> QED
  BY <1>4, <1>5, <1>6 DEF MediaSeen, DetectClears, line

\* mmc_ident_start, in whichever thread.
LEMMA StartRun ==
    ASSUME TypeOK, TypeOK', OneRun, RunInv, Sighted, NEW t \in Threads, Start(t) PROVE RunInv'
<1>1. /\ Pulses' = Pulses /\ Removing' = Removing /\ Present' = Present
      /\ \A f \in {"INSERTED", "READY", "INVALID"} : f \in eflags' <=> f \in eflags
  BY DEF Start, StartCheck, Detects, Sighted, StartPower, StartReset, StartStore, Pulses, Removing, Present,
         user, world,
         note, DetectClears
<1>2. Heralded'
  BY <1>1 DEF RunInv, Heralded
<1>3. CASE StartStore(t)
  <2>1. /\ UNCHANGED <<eflags, bus>> /\ pc[t] = "store" /\ state' = "IDENT"
        /\ pc' = [pc EXCEPT ![t] = "idle"]
    BY <1>3 DEF StartStore, line, At, Goto
  <2>2. Working' = Working
    BY <1>1, <2>1 DEF Working, TypeOK
  <2>3. ~Storing'
    BY <2>1 DEF RunInv, Stored, Storing, At, TypeOK
  <2>4. Stored' /\ Rejected' /\ Expected'
    BY <1>1, <2>1, <2>2, <2>3 DEF RunInv, Stored, Storing, Rejected, Expected
  <2> QED
    BY <1>2, <2>4 DEF RunInv
<1>4. CASE ~StartStore(t)
  <2>1. pc[t] \in {"check", "power", "reset"} /\ state' = state
    BY <1>4 DEF Start, StartCheck, Detects, Sighted, StartPower, StartReset, At
  <2>2. t \in Working /\ \A a \in Working : a = t
    BY <2>1 DEF OneRun, Lone, Working
  <2>3. ~Storing
    BY <2>1, <2>2 DEF RunInv, Stored, Storing, Threads
  <2>4. /\ "READY" \notin eflags /\ "INVALID" \notin eflags /\ (Present => "INSERTED" \in eflags)
        /\ "INSERTION" \notin Pulses /\ bus = None /\ pc["main"] # "preload"
        /\ \A u \in Threads \ {t} : pc[u] \notin {"check", "power", "reset", "failed", "store"}
    BY <2>1, <2>2, <2>3
      DEF OneRun, Done, Forgotten, Fresh, Working, Threads, At, RunInv, Rejected, Storing
  <2>5. \A u \in Threads \ {t} : pc'[u] = pc[u]
    BY <1>4 DEF Start, StartCheck, Detects, Sighted, StartPower, StartReset, Goto, TypeOK
  <2>6. CASE StartReset(t)
    <3>1. bus' # None /\ pc'[t] = IF t = "driver" THEN "idle" ELSE "store"
      BY <2>6 DEF StartReset, Goto, None, TypeOK
    <3>2. Working' = {"bus"} /\ "INVALID" \notin eflags'
      BY <1>1, <2>4, <2>5, <3>1 DEF Working, Threads
    <3>3. Stored'
      BY <1>1, <2>4, <2>5, <3>1, <3>2 DEF Stored, At, Threads
    <3>4. Expected'
      <4>1. CASE t = "driver"
        BY <1>1, <2>1, <2>3, <4>1 DEF RunInv, Expected, At
      <4>2. CASE t # "driver"
        BY <3>1, <4>2 DEF Expected, Storing, At
      <4> QED
        BY <4>1, <4>2
    <3> QED
      BY <1>2, <3>2, <3>3, <3>4 DEF RunInv, Rejected
  <2>7. CASE StartCheck(t) \/ StartPower(t)
    <3>1. bus' = None /\ pc'[t] # "store" /\ (t # "driver" => pc'["driver"] = pc["driver"])
      BY <2>4, <2>5, <2>7 DEF StartCheck, Detects, Sighted, StartPower, Unpowered, line, Goto,
                              TypeOK, Threads
    <3>2. ~Storing'
      BY <2>4, <2>5, <3>1 DEF Storing, At, Threads
    <3>3. (Stored /\ Rejected /\ Expected)'
      BY <1>1, <2>1, <2>3, <2>4, <3>1, <3>2
        DEF Stored, Storing, Rejected, Expected, RunInv, At
    <3> QED
      BY <1>2, <3>3 DEF RunInv
  <2> QED
    BY <1>4, <2>6, <2>7 DEF Start
<1> QED
  BY <1>3, <1>4

\* mmc_creat_threads and mmc_control_thread.
LEMMA PreloadRun == ASSUME TypeOK, TypeOK', OneRun, RunInv, Sighted, Preload PROVE RunInv'
<1>1. eflags = {} /\ ctlq = <<>> /\ Working = {} /\ Pulses = {}
  BY DEF Preload, Detects, Sighted, OneRun, Fresh, Pulses
<1>2. Pulses' = {} /\ Present' = Present /\ bus' = None /\ "INVALID" \notin eflags'
  BY <1>1 DEF Preload, Detects, Sighted, Present, user, world, line, note, Pulses, DetectClears, Working
<1>3. ~Storing
  BY DEF Preload, Detects, Sighted, RunInv, Stored, Storing
<1>4. \A t \in Threads : pc'[t] = pc[t] \/ (t = "main" /\ pc'[t] \in {"check", "idle"})
  BY DEF Preload, Detects, Sighted, Goto, TypeOK
<1>5. ~Storing' /\ pc'["driver"] = pc["driver"]
  BY <1>3, <1>4 DEF Storing, At, Threads
<1>6. (Stored /\ Heralded /\ Rejected)'
  BY <1>2, <1>5 DEF Stored, Heralded, Rejected, Storing
<1>7. Expected'
  BY <1>2, <1>3, <1>5 DEF Preload, Detects, Sighted, RunInv, Expected, At
<1> QED
  BY <1>6, <1>7 DEF RunInv

\* The pulses, taken in order.
LEMMA ControlRun ==
    ASSUME TypeOK, TypeOK', OneRun, RunInv, CardInsertion \/ CardRemoval \/ CardReady
    PROVE  RunInv'
<1>1. ctlq # <<>> /\ ctlq' = Tail(ctlq) /\ bus' = bus /\ Present' = Present
  BY DEF CardInsertion, CardRemoval, CardReady, Pulse, user, world, line, Present
<1>2. Pulses = Pulses' \cup {ctlq[1]} /\ Head(ctlq) = ctlq[1] /\ 1 \in DOMAIN ctlq
  BY <1>1, Dequeued DEF TypeOK
<1>3. "INSERTION" \notin Pulses'
  BY <1>1, <1>2, Dequeued DEF OneRun, Order, Pulses
<1>4. Heralded'
  BY <1>3 DEF Heralded
<1>5. CASE CardInsertion
  <2>1. /\ "INSERTION" \in Pulses /\ eflags' = eflags \cup {"INSERTED"} /\ state' = state
        /\ pc["control"] = "idle" /\ pc' = [pc EXCEPT !["control"] = "check"]
    BY <1>2, <1>5 DEF CardInsertion, Pulse, Goto, At
  <2>2. "pulse" \in Working /\ bus = None
    BY <2>1 DEF OneRun, Lone, Working
  <2>3. ~Storing /\ "INVALID" \notin eflags
    BY <2>2 DEF RunInv, Stored, Storing, Rejected
  <2>4. ~Storing' /\ pc'["driver"] = pc["driver"]
    BY <2>1, <2>3 DEF Storing, At, TypeOK, Threads
  <2>5. (Stored /\ Rejected /\ Expected)'
    BY <1>1, <2>1, <2>3, <2>4 DEF Stored, Storing, Rejected, Expected, RunInv, At
  <2> QED
    BY <1>4, <2>5 DEF RunInv
<1>6. CASE CardRemoval
  <2>1. /\ "REMOVAL" \in Pulses /\ eflags' = eflags \ {"READY", "INSERTED", "PRELOAD"}
        /\ pc' = pc
    BY <1>2, <1>6 DEF CardRemoval, Pulse
  <2>2. ~Present' /\ Working' \subseteq Working
    BY <1>1, <1>2, <2>1 DEF OneRun, Gone, Working
  <2>3. (Stored /\ Rejected /\ Expected)'
    BY <1>1, <2>1, <2>2 DEF RunInv, Stored, Rejected, Expected, At
  <2> QED
    BY <1>4, <2>3 DEF RunInv
<1>7. CASE CardReady
  <2>1. UNCHANGED <<eflags, pc, state>>
    BY <1>7 DEF CardReady
  <2>2. Working' \subseteq Working
    BY <1>1, <1>2, <2>1 DEF Working
  <2>3. (Stored /\ Rejected /\ Expected)'
    BY <1>1, <2>1, <2>2 DEF RunInv, Stored, Storing, Rejected, Expected, At
  <2> QED
    BY <1>4, <2>3 DEF RunInv
<1> QED
  BY <1>5, <1>6, <1>7

\* The last stage.
LEMMA FinalRun ==
    ASSUME TypeOK, TypeOK', OneRun, RunInv, NEW ans \in Answer, Final(ans), ~Error(ans), ~Storing
    PROVE  RunInv'
<1>1. /\ bus # None /\ bus' = None /\ pc' = pc /\ At("driver", "idle")
      /\ eflags' = eflags \cup {"READY"} /\ (ctlq' = ctlq \/ ctlq' = Append(ctlq, "READY"))
  BY DEF Final, Interrupt, user, world, Present
<1>2. "bus" \in Working /\ \A a \in Working : a = "bus"
  BY <1>1 DEF OneRun, Lone, Working
<1>3. "INSERTION" \notin Pulses /\ "INVALID" \notin eflags
  BY <1>2 DEF Working, RunInv, Rejected
<1>4. "INSERTION" \notin Pulses'
  BY <1>1, <1>3, Queued DEF Pulses
<1> QED
  BY <1>1, <1>3, <1>4 DEF RunInv, Heralded, Stored, Storing, Rejected, Expected, At

\* A run that failed, mmc_ident_irq.
LEMMA FailedRun ==
    ASSUME TypeOK, TypeOK', OneRun, RunInv, Sighted, IdentFailed PROVE RunInv'
<1>1. "driver" \in Working /\ ~At("main", "preload") /\ ~Storing
  BY DEF IdentFailed, Working, At, Threads, OneRun, Fresh,
         RunInv, Stored, Storing
<1>2. CASE ~Present
  BY <1>1, <1>2, Seen, CheckRun DEF IdentFailed, Goto, world
<1>3. CASE Present
  <2>1. /\ At("driver", "idle")' /\ pc' = [pc EXCEPT !["driver"] = "idle"] /\ bus' = None
        /\ Pulses' = Pulses /\ Removing' = Removing
        /\ eflags' = (eflags \ {"WP"}) \cup {"INVALID"}
    BY <1>3, Seen
      DEF IdentFailed, Judge, At, Goto, user, world, DetectClears, Unpowered, Pulses, Removing, TypeOK, Threads
  <2>2. ~Storing'
    BY <1>1, <2>1 DEF Storing, At, TypeOK, Threads
  <2>3. Working' = {}
    <3>1. \A a \in Working : a = "driver"
      BY <1>1 DEF OneRun, Lone
    <3>2. "INSERTION" \notin Pulses /\ \A u \in Threads \ {"driver"} :
              pc[u] \notin {"check", "power", "reset", "failed"}
      BY <3>1 DEF Working, Threads
    <3> QED
      BY <2>1, <3>2 DEF Working, TypeOK, Threads
  <2> QED
    BY <2>1, <2>2, <2>3 DEF RunInv, Heralded, Stored, Storing, Rejected, Expected
<1> QED
  BY <1>2, <1>3

\* The user waits until the driver is done with the last card.
LEMMA UserRun ==
    ASSUME TypeOK, TypeOK', OneRun, RunInv, Undisturbed, User PROVE RunInv'
<1>1. /\ UNCHANGED <<bus, ctlq, eflags, pc, state>>
      /\ ~Present' \/ AtRest
  BY DEF User, Remove, Insert, note, Present, Undisturbed
<1>2. Pulses' = Pulses /\ Removing' = Removing /\ Working' = Working
  BY <1>1 DEF Pulses, Removing, Working
<1>3. AtRest => ~Storing /\ At("driver", "idle") /\ bus = None
  BY DEF AtRest, Storing, At, Threads
<1> QED
  BY <1>1, <1>2, <1>3 DEF RunInv, Heralded, Stored, Storing, Rejected, Expected, At

\* Every step preserves the invariant.
LEMMA StepRun ==
    ASSUME TypeOK, TypeOK', Silent, OneRun, RunInv, Undisturbed, Next PROVE RunInv'
<1>1. ASSUME NEW ans \in Answer, Handler(ans) PROVE RunInv'
  <2>1. ~Storing
    <3>1. Interrupt(ans)
      BY <1>1, StageRoutine DEF Identifying, Final
    <3> QED
      BY <3>1 DEF Interrupt, Undisturbed, Storing
  <2>2. CASE Identifying(ans)
    BY <2>1, <2>2, StageRoutine, RoutineRun
  <2>3. CASE Final(ans) /\ ~Error(ans)
    BY <2>1, <2>3, FinalRun
  <2> QED
    BY <1>1, <2>2, <2>3 DEF Identifying
<1>2. CASE Poll
  BY <1>2, Seen, CheckRun DEF Sighted, Poll, Undisturbed, user, world
<1> QED
  BY <1>1, <1>2, StartRun, PreloadRun, ControlRun, FailedRun, UserRun
    DEF Next, Attaching, Control, Driver, Threads, Answer, Undisturbed, Sighted

\* Where the run is seen from the request path.
RunSeen ==
    /\ Storing => Run = "starting"
    /\ "INSERTION" \in Pulses => Run = "starting"
    /\ \A t \in {"main", "control"} : pc[t] \in {"check", "power", "reset"} => Run = "starting"
    /\ ~Storing /\ bus # None => Run = "going"
    /\ pc["driver"] \in {"check", "power", "reset"} => Run = "going"
    /\ At("driver", "failed") => Run = "failing"
    /\ ~Storing /\ Working = {} => Run = "none"

\* With one run at a time it is where the request path sees it.
LEMMA Seeing == TypeOK /\ OneRun /\ RunInv => RunSeen
<1> SUFFICES ASSUME TypeOK, OneRun, RunInv PROVE RunSeen
  OBVIOUS
<1>0. \A a, b \in Working : a = b
  BY DEF OneRun, Lone
<1>1. Storing => Run = "starting"
  <2> SUFFICES ASSUME NEW t \in Threads, At(t, "store") PROVE Run = "starting"
    BY DEF Storing
  <2>1. t \in {"main", "control"} /\ "driver" \notin Working
    BY DEF RunInv, Stored, Threads
  <2> QED
    BY <2>1 DEF Run, Starting, At, Working, Threads
<1>2. ASSUME \/ "INSERTION" \in Pulses
             \/ \E t \in {"main", "control"} : pc[t] \in {"check", "power", "reset"}
      PROVE  Run = "starting"
  <2>1. "driver" \notin Working
    BY <1>0, <1>2 DEF Working, Threads
  <2> QED
    BY <1>2, <2>1 DEF Run, Starting, Working, At, Threads
<1>3. ASSUME ~Storing, bus # None PROVE Run = "going"
  <2>1. \A a \in Working : a = "bus"
    BY <1>0, <1>3 DEF Working
  <2> QED
    BY <1>3, <2>1 DEF Run, Starting, Storing, Working, At, Threads
<1>4. ASSUME pc["driver"] \in {"check", "power", "reset"} PROVE Run = "going"
  <2>1. "driver" \in Working /\ \A a \in Working : a = "driver"
    BY <1>0, <1>4 DEF Working, Threads
  <2>2. ~Storing
    BY <2>1 DEF RunInv, Stored, Storing
  <2> QED
    BY <1>4, <2>1, <2>2 DEF Run, Starting, Storing, Working, At, Threads
<1>5. ASSUME ~Storing, Working = {} PROVE Run = "none"
  BY <1>5 DEF Run, Starting, Storing, Working, At, Threads
<1> QED
  BY <1>1, <1>2, <1>3, <1>4, <1>5 DEF RunSeen, Run

\* And so in the next state.
LEMMA SeeingNext == TypeOK' /\ OneRun' /\ RunInv' => RunSeen'
  BY Seeing, PTL

(***************************************************************************)
(* Every step is a step of the slot's life (SlotLife), or not seen from    *)
(* outside.                                                                *)
(***************************************************************************)
LifeStep == Life!LifeNext \/ UNCHANGED Life!life

\* The slot's phase depends on three flags and on a removal.
LEMMA SamePhase ==
    ASSUME Pulses' = Pulses,
           \A f \in {"INSERTED", "READY", "INVALID"} : f \in eflags' <=> f \in eflags
    PROVE  LifePhase' = LifePhase /\ Removing' = Removing
  BY DEF LifePhase, SlotPhase, Removing

\* The stages of mmc_card_ident: the run goes on, fails, or its answer comes
\* behind a removal.
LEMMA RoutineLife ==
    ASSUME TypeOK, TypeOK', OneRun, OneRun', RunInv, RunInv', Routine, ~Storing
    PROVE  LifeStep
<1>1. RunSeen /\ RunSeen'
  BY Seeing, SeeingNext
<1>2. /\ Pulses' = Pulses /\ Present' = Present /\ state' = state
      /\ \A f \in {"INSERTED", "READY", "INVALID"} : f \in eflags' <=> f \in eflags
  BY DEF Routine, Pulses, Present
<1>3. LifePhase' = LifePhase /\ Removing' = Removing
  BY <1>2, SamePhase
<1>4. Run = "going" /\ ~Storing'
  BY <1>1 DEF Routine, RunSeen, Storing, At, TypeOK, Threads
<1>5. \A a \in Working : a = "bus"
  BY DEF Routine, Working, OneRun, Lone
<1>6. CASE bus' # None /\ pc' = pc
  <2>1. Run' = "going"
    BY <1>1, <1>4, <1>6 DEF RunSeen
  <2> QED
    BY <1>2, <1>3, <1>4, <2>1 DEF LifeStep, Life!life
<1>7. CASE bus' = None /\ pc' = pc /\ state = "IDLE"
  <2>1. Working' = {}
    <3>1. "INSERTION" \notin Pulses
          /\ \A u \in Threads : pc[u] \notin {"check", "power", "reset", "failed"}
      BY <1>5 DEF Working, Threads
    <3> QED
      BY <1>2, <1>7, <3>1 DEF Working
  <2>2. Run' = "none"
    BY <1>1, <1>4, <2>1 DEF RunSeen
  <2>3. ~Present
    BY <1>7 DEF RunInv, Expected, Routine
  <2>4. Life!Ends
    BY <1>2, <1>3, <1>4, <2>2, <2>3 DEF Life!Ends
  <2> QED
    BY <2>4 DEF LifeStep, Life!LifeNext
<1>8. CASE bus' = None /\ pc' = [pc EXCEPT !["driver"] = "failed"] /\ state = "IDENT"
  <2>1. Run' = "failing"
    BY <1>1, <1>8 DEF RunSeen, At, TypeOK, Threads
  <2>2. Life!Fails
    BY <1>2, <1>3, <1>4, <1>8, <2>1 DEF Life!Fails
  <2> QED
    BY <2>2 DEF LifeStep, Life!LifeNext
<1>9. CASE bus' = None /\ pc' = [pc EXCEPT !["driver"] = "check"]
  <2>1. Run' = "going"
    BY <1>1, <1>9 DEF RunSeen, TypeOK, Threads
  <2> QED
    BY <1>2, <1>3, <1>4, <2>1 DEF LifeStep, Life!life
<1> QED
  BY <1>6, <1>7, <1>8, <1>9 DEF Routine

\* The timer finds a card, or finds it gone.
LEMMA PollLife ==
    ASSUME TypeOK, TypeOK', OneRun, OneRun', RunInv, RunInv', Poll, Undisturbed
    PROVE  LifeStep
<1>1. RunSeen /\ RunSeen'
  BY Seeing, SeeingNext
<1>2. /\ MediaSeen(Present) /\ Present' = Present /\ state' = state /\ pc' = pc /\ At("driver", "idle")
      /\ Storing' = Storing
  BY Seen DEF Poll, Present, world, Storing, At, Undisturbed, Sighted
<1>3. CASE UNCHANGED <<ctlq, bus>> /\ (eflags' = eflags \ {"WP"} \/ eflags' = eflags)
  <2>1. Pulses' = Pulses
    BY <1>3 DEF Pulses
  <2>2. LifePhase' = LifePhase /\ Removing' = Removing
    BY <1>3, <2>1, SamePhase
  <2>3. Run' = Run
    BY <1>2, <1>3, <2>1 DEF Run, Starting, At
  <2> QED
    BY <1>2, <2>2, <2>3 DEF LifeStep, Life!life
<1>4. CASE /\ Present /\ "INSERTED" \notin eflags
           /\ eflags' = DetectClears(TRUE, eflags) \cup {"INSERTED"}
           /\ ctlq' = Append(ctlq, "INSERTION") /\ UNCHANGED line
  <2>1. ctlq = <<>> /\ Working = {} /\ {"READY", "INVALID"} \cap eflags = {} /\ ~Storing
    BY <1>4 DEF OneRun, Forgotten, RunInv, Stored, Storing
  <2>2. Pulses = {} /\ Pulses' = {"INSERTION"} /\ Run = "none" /\ Run' = "starting"
    <3>1. Pulses = {} /\ Pulses' = {"INSERTION"}
      BY <1>4, <2>1 DEF Pulses
    <3> QED
      BY <1>1, <2>1, <3>1 DEF RunSeen
  <2>3. Removing' = Removing /\ LifePhase = "empty" /\ LifePhase' = "identifying"
    BY <1>4, <2>1, <2>2 DEF LifePhase, SlotPhase, Removing, DetectClears
  <2>4. Life!Found
    BY <1>2, <1>4, <2>2, <2>3 DEF Life!Found, Life!Slot!Detect
  <2> QED
    BY <2>4 DEF LifeStep, Life!LifeNext
<1>5. CASE /\ ~Present /\ "INSERTED" \in eflags /\ eflags' = Forgot(eflags)
           /\ ctlq' = Append(ctlq, "REMOVAL") /\ Unpowered
  <2>1. Pulses' = Pulses \cup {"REMOVAL"} /\ Removing' /\ LifePhase' = "empty" /\ bus' = None
    BY <1>5, Queued DEF Removing, LifePhase, Unpowered
  <2>2. Run # "failing" /\ Run' = (IF Run = "going" THEN "none" ELSE Run)
    BY <1>2, <2>1 DEF Run, Starting, At
  <2>3. CASE Removing
    <3>1. LifePhase = "empty"
      BY <2>3 DEF LifePhase
    <3>2. Life!Ends \/ UNCHANGED Life!life
      BY <1>2, <1>5, <2>1, <2>2, <2>3, <3>1 DEF Life!Ends, Life!life
    <3> QED
      BY <3>2 DEF LifeStep, Life!LifeNext
  <2>4. CASE ~Removing
    <3>1. LifePhase # "empty"
      BY <1>5, <2>4 DEF LifePhase, SlotPhase
    <3>2. Life!Lost
      BY <1>2, <1>5, <2>1, <2>2, <3>1 DEF Life!Lost, Life!Slot!Lose
    <3> QED
      BY <3>2 DEF LifeStep, Life!LifeNext
  <2> QED
    BY <2>3, <2>4
<1> QED
  BY <1>2, <1>3, <1>4, <1>5 DEF MediaSeen, DetectClears, line

\* mmc_ident_start, in whichever thread.
LEMMA StartLife ==
    ASSUME TypeOK, TypeOK', OneRun, OneRun', RunInv, RunInv', Sighted, NEW t \in Threads, Start(t)
    PROVE  LifeStep
<1>1. RunSeen /\ RunSeen'
  BY Seeing, SeeingNext
<1>2. /\ Pulses' = Pulses /\ Present' = Present
      /\ \A f \in {"INSERTED", "READY", "INVALID"} : f \in eflags' <=> f \in eflags
  BY DEF Start, StartCheck, Detects, Sighted, StartPower, StartReset, StartStore, Pulses, Present,
         user, world,
         note, DetectClears
<1>3. LifePhase' = LifePhase /\ Removing' = Removing
  BY <1>2, SamePhase
<1>4. CASE StartStore(t)
  <2>1. /\ bus' = bus /\ pc[t] = "store" /\ state' = "IDENT" /\ pc' = [pc EXCEPT ![t] = "idle"]
    BY <1>4 DEF StartStore, line, At, Goto
  <2>2. Storing /\ ~Storing' /\ Run = "starting"
    BY <1>1, <2>1 DEF RunInv, Stored, Storing, At, TypeOK, RunSeen
  <2>3. Working' = Working /\ Working \subseteq {"bus"} /\ (bus = None => ~Present)
    <3>1. Working' = Working
      BY <1>2, <2>1 DEF Working, TypeOK
    <3> QED
      BY <2>1, <3>1 DEF RunInv, Stored, At
  <2>4. Run' = "going" \/ (~Present /\ Run' = "none")
    <3>1. CASE bus # None
      BY <1>1, <2>1, <2>2, <3>1 DEF RunSeen
    <3>2. CASE bus = None
      <4>1. "bus" \notin Working
        BY <3>2 DEF Working, Threads
      <4>2. Working' = {} /\ ~Present
        BY <2>3, <3>2, <4>1
      <4> QED
        BY <1>1, <2>2, <4>2 DEF RunSeen
    <3> QED
      BY <3>1, <3>2
  <2>5. Life!Starts
    BY <1>2, <1>3, <2>1, <2>2, <2>4 DEF Life!Starts
  <2> QED
    BY <2>5 DEF LifeStep, Life!LifeNext
<1>5. CASE StartCheck(t) /\ ~Present
  <2>1. /\ pc[t] = "check" /\ state' = state /\ bus' = bus
        /\ pc' = [pc EXCEPT ![t] = IF t = "driver" THEN "failed" ELSE "idle"]
    BY <1>5 DEF StartCheck, Detects, Sighted, At, Goto, line
  <2>2. CASE t = "driver"
    <3>1. Run = "going" /\ Run' = "failing"
      BY <1>1, <2>1, <2>2 DEF RunSeen, At, TypeOK
    <3>2. Life!Fails
      BY <1>2, <1>3, <1>5, <2>1, <3>1 DEF Life!Fails
    <3> QED
      BY <3>2 DEF LifeStep, Life!LifeNext
  <2>3. CASE t # "driver"
    <3>1. t \in Working /\ \A a \in Working : a = t
      BY <2>1 DEF Working, OneRun, Lone
    <3>2. ~Storing
      BY <3>1 DEF RunInv, Stored, Storing, Threads
    <3>3. ~Storing' /\ Working' = {}
      <4>1. "INSERTION" \notin Pulses /\ bus = None
            /\ \A u \in Threads \ {t} : pc[u] \notin {"check", "power", "reset", "failed"}
        BY <3>1 DEF Working, Threads
      <4> QED
        BY <1>2, <2>1, <2>3, <3>2, <4>1 DEF Working, Storing, At, TypeOK
    <3>4. Run = "starting" /\ Run' = "none"
      BY <1>1, <2>1, <2>3, <3>3 DEF RunSeen, Threads
    <3>5. Life!StartsNot
      BY <1>2, <1>3, <1>5, <2>1, <3>4 DEF Life!StartsNot
    <3> QED
      BY <3>5 DEF LifeStep, Life!LifeNext
  <2> QED
    BY <2>2, <2>3
<1>6. CASE (StartCheck(t) /\ Present) \/ StartPower(t) \/ StartReset(t)
  <2>1. pc[t] \in {"check", "power", "reset"} /\ state' = state
    BY <1>6 DEF StartCheck, Detects, Sighted, StartPower, StartReset, At
  <2>2. \/ pc'[t] \in {"check", "power", "reset"}
        \/ pc'[t] = IF t = "driver" THEN "idle" ELSE "store"
    BY <1>6 DEF StartCheck, Detects, Sighted, StartPower, StartReset, Goto, TypeOK
  <2>3. Run' = Run
    <3>1. CASE t # "driver"
      <4>1. Run = "starting"
        BY <1>1, <2>1, <3>1 DEF RunSeen, Threads
      <4>2. Run' = "starting"
        BY <1>1, <2>2, <3>1 DEF RunSeen, Threads, Storing, At
      <4> QED
        BY <4>1, <4>2
    <3>2. CASE t = "driver"
      <4>1. Run = "going"
        BY <1>1, <2>1, <3>2 DEF RunSeen
      <4>2. CASE pc'[t] \in {"check", "power", "reset"}
        BY <1>1, <3>2, <4>1, <4>2 DEF RunSeen
      <4>3. CASE pc'[t] \notin {"check", "power", "reset"}
        <5>1. StartReset(t) /\ bus' # None
          BY <1>6, <3>2, <4>3 DEF StartCheck, Detects, Sighted, StartPower, StartReset, Goto, TypeOK, None
        <5>2. \A a \in Working : a = "driver"
          BY <2>1, <3>2 DEF Working, OneRun, Lone
        <5>3. ~Storing
          BY <2>1, <3>2, <5>2 DEF RunInv, Stored, Storing, Working
        <5>4. ~Storing'
          BY <3>2, <5>1, <5>3 DEF Storing, StartReset, Goto, At, TypeOK
        <5> QED
          BY <1>1, <4>1, <5>1, <5>4 DEF RunSeen
      <4> QED
        BY <4>2, <4>3
    <3> QED
      BY <3>1, <3>2
  <2> QED
    BY <1>2, <1>3, <2>1, <2>3 DEF LifeStep, Life!life
<1> QED
  BY <1>4, <1>5, <1>6 DEF Start

\* mmc_creat_threads finds a card, or nothing.
LEMMA PreloadLife ==
    ASSUME TypeOK, TypeOK', OneRun, OneRun', RunInv, RunInv', Sighted, Preload
    PROVE  LifeStep
<1>1. RunSeen /\ RunSeen'
  BY Seeing, SeeingNext
<1>2. eflags = {} /\ ctlq = <<>> /\ Working = {} /\ Pulses = {} /\ ~Storing
  BY DEF Preload, Detects, Sighted, OneRun, Fresh, Pulses, RunInv, Stored, Storing
<1>3. /\ ctlq' = ctlq /\ bus' = bus /\ Present' = Present /\ state' = state /\ Pulses' = {}
      /\ pc' = [pc EXCEPT !["main"] = IF Present THEN "check" ELSE "idle"]
  BY <1>2 DEF Preload, Detects, Sighted, Present, user, world, line, note, Goto, Pulses
<1>4. Run = "none" /\ LifePhase = "empty" /\ Removing' = Removing
  BY <1>1, <1>2, <1>3 DEF RunSeen, LifePhase, SlotPhase, Removing
<1>5. CASE Present
  <2>1. Run' = "starting"
    BY <1>1, <1>3, <1>5 DEF RunSeen, TypeOK, Threads
  <2>2. LifePhase' = "identifying"
    BY <1>2, <1>3, <1>5 DEF Preload, Detects, Sighted, LifePhase, SlotPhase, Removing, DetectClears, None
  <2>3. Life!Found
    BY <1>3, <1>4, <1>5, <2>1, <2>2 DEF Life!Found, Life!Slot!Detect
  <2> QED
    BY <2>3 DEF LifeStep, Life!LifeNext
<1>6. CASE ~Present
  <2>1. eflags' = eflags
    BY <1>6 DEF Preload, Detects, Sighted
  <2>2. ~Storing' /\ Working' = {}
    BY <1>2, <1>3, <1>6 DEF Storing, Working, At, TypeOK, Threads
  <2>3. Run' = "none" /\ LifePhase' = LifePhase
    BY <1>1, <1>2, <1>3, <2>1, <2>2, SamePhase DEF RunSeen
  <2> QED
    BY <1>3, <1>4, <2>3 DEF LifeStep, Life!life
<1> QED
  BY <1>5, <1>6

\* The pulses: only a removal is seen from outside.
LEMMA ControlLife ==
    ASSUME TypeOK, TypeOK', OneRun, OneRun', RunInv, RunInv',
           CardInsertion \/ CardRemoval \/ CardReady
    PROVE  LifeStep
<1>1. RunSeen /\ RunSeen'
  BY Seeing, SeeingNext
<1>2. ctlq # <<>> /\ ctlq' = Tail(ctlq) /\ bus' = bus /\ Present' = Present
  BY DEF CardInsertion, CardRemoval, CardReady, Pulse, user, world, line, Present
<1>3. Pulses = Pulses' \cup {ctlq[1]} /\ Head(ctlq) = ctlq[1]
  BY <1>2, Dequeued DEF TypeOK
<1>4. CASE CardInsertion
  <2>1. /\ ctlq[1] = "INSERTION" /\ eflags' = eflags \cup {"INSERTED"} /\ state' = state
        /\ pc' = [pc EXCEPT !["control"] = "check"]
    BY <1>3, <1>4 DEF CardInsertion, Pulse, Goto
  <2>2. Removing' = Removing /\ "INSERTION" \in Pulses
    BY <1>3, <2>1 DEF Removing
  <2>3. LifePhase' = LifePhase
    <3>1. CASE Removing
      BY <2>2, <3>1 DEF LifePhase
    <3>2. CASE ~Removing
      <4>1. eflags' = eflags
        BY <2>1, <2>2, <3>2 DEF RunInv, Heralded
      <4> QED
        BY <2>2, <4>1 DEF LifePhase, SlotPhase
    <3> QED
      BY <3>1, <3>2
  <2>4. Run = "starting" /\ Run' = "starting"
    BY <1>1, <2>1, <2>2 DEF RunSeen, TypeOK, Threads
  <2> QED
    BY <1>2, <2>1, <2>2, <2>3, <2>4 DEF LifeStep, Life!life
<1>5. CASE CardRemoval
  <2>1. /\ ctlq[1] = "REMOVAL" /\ eflags' = eflags \ {"READY", "INSERTED", "PRELOAD"}
        /\ pc' = pc /\ state' = "IDLE"
    BY <1>3, <1>5 DEF CardRemoval, Pulse
  <2>2. Removing /\ Removing' \in BOOLEAN /\ LifePhase = "empty" /\ LifePhase' = "empty"
    BY <1>3, <2>1 DEF Removing, LifePhase, SlotPhase
  <2>3. Run' = Run
    BY <1>2, <1>3, <2>1 DEF Run, Starting, At
  <2>4. Life!Withdraws
    BY <1>2, <2>1, <2>2, <2>3 DEF Life!Withdraws
  <2> QED
    BY <2>4 DEF LifeStep, Life!LifeNext
<1>6. CASE CardReady
  <2>1. ctlq[1] = "READY" /\ UNCHANGED <<eflags, pc, state>>
    BY <1>3, <1>6 DEF CardReady, Pulse
  <2>2. Removing' = Removing
    BY <1>3, <2>1 DEF Removing
  <2>3. LifePhase' = LifePhase
    BY <2>1, <2>2 DEF LifePhase, SlotPhase
  <2>4. Run' = Run
    BY <1>2, <1>3, <2>1 DEF Run, Starting, At
  <2> QED
    BY <1>2, <2>1, <2>2, <2>3, <2>4 DEF LifeStep, Life!life
<1> QED
  BY <1>4, <1>5, <1>6

\* The last stage accepts the card that is in.
LEMMA FinalLife ==
    ASSUME TypeOK, TypeOK', Silent, OneRun, OneRun', RunInv, RunInv', ~Storing,
           NEW ans \in Answer, Final(ans), ~Error(ans)
    PROVE  LifeStep
<1>1. RunSeen /\ RunSeen'
  BY Seeing, SeeingNext
<1>2. /\ bus # None /\ bus' = None /\ pc' = pc /\ eflags' = eflags \cup {"READY"}
      /\ (ctlq' = ctlq \/ ctlq' = Append(ctlq, "READY"))
      /\ Present' = Present /\ state = "IDENT" /\ state' = "IDLE"
  BY DEF Final, Interrupt, user, world, Present
<1>3. Present
  BY Answered DEF Final, Interrupt, OneRun, Begun
<1>4. "bus" \in Working /\ \A a \in Working : a = "bus"
  BY <1>2 DEF OneRun, Lone, Working
<1>5. /\ "INSERTED" \in eflags /\ {"READY", "INVALID"} \cap eflags = {}
      /\ "REMOVAL" \notin Pulses
  BY <1>3, <1>4 DEF OneRun, Done, Forgotten, Gone, RunInv, Rejected
<1>6. \A p \in {"INSERTION", "REMOVAL"} : p \in Pulses' <=> p \in Pulses
  BY <1>2, Queued DEF Pulses
<1>7. LifePhase = "identifying" /\ LifePhase' = "ready" /\ Removing' = Removing
  BY <1>2, <1>5, <1>6 DEF LifePhase, SlotPhase, Removing
<1>8. ~Storing' /\ Working' = {}
  <2>1. "INSERTION" \notin Pulses
        /\ \A u \in Threads : pc[u] \notin {"check", "power", "reset", "failed"}
    BY <1>4 DEF Working, Threads
  <2> QED
    BY <1>2, <1>6, <2>1 DEF Storing, Working, At
<1>9. Run = "going" /\ Run' = "none"
  BY <1>1, <1>2, <1>8 DEF RunSeen
<1>10. Life!Accepts
  BY <1>2, <1>3, <1>7, <1>9 DEF Life!Accepts, Life!Slot!Accept
<1> QED
  BY <1>10 DEF LifeStep, Life!LifeNext

\* A run that failed rejects the card, or gives it up.
LEMMA FailedLife ==
    ASSUME TypeOK, TypeOK', OneRun, OneRun', RunInv, RunInv', Sighted, IdentFailed
    PROVE  LifeStep
<1>1. RunSeen /\ RunSeen'
  BY Seeing, SeeingNext
<1>2. /\ Present' = Present /\ state' = "IDLE" /\ At("driver", "failed")
      /\ pc' = [pc EXCEPT !["driver"] = "idle"]
  BY DEF IdentFailed, Goto, user, world, Present
<1>3. "driver" \in Working /\ \A a \in Working : a = "driver"
  BY <1>2 DEF Working, At, Threads, OneRun, Lone
<1>4. /\ "INSERTION" \notin Pulses /\ bus = None /\ ~Storing
      /\ \A u \in Threads \ {"driver"} : pc[u] \notin {"check", "power", "reset", "failed"}
  BY <1>3 DEF Working, Threads, RunInv, Stored, Storing
<1>5. ASSUME bus' = None, "INSERTION" \notin Pulses' PROVE Run = "failing" /\ Run' = "none"
  <2>1. Working' = {} /\ ~Storing'
    BY <1>2, <1>4, <1>5 DEF Working, Storing, At, TypeOK, Threads
  <2> QED
    BY <1>1, <1>2, <2>1 DEF RunSeen
<1>6. CASE Present
  <2>1. /\ bus' = None /\ ctlq' = ctlq /\ Pulses' = Pulses
        /\ eflags' = (eflags \ {"WP"}) \cup {"INVALID"}
    BY <1>6, Seen DEF Judge, DetectClears, Unpowered, Pulses
  <2>2. /\ "INSERTED" \in eflags /\ {"READY", "INVALID"} \cap eflags = {}
        /\ "REMOVAL" \notin Pulses
    BY <1>3, <1>6 DEF OneRun, Done, Forgotten, Gone, RunInv, Rejected
  <2>3. LifePhase = "identifying" /\ LifePhase' = "invalid" /\ Removing' = Removing
    BY <2>1, <2>2 DEF LifePhase, SlotPhase, Removing
  <2>4. Life!Failed
    BY <1>2, <1>4, <1>5, <1>6, <2>1, <2>3 DEF Life!Failed, Life!Slot!Reject
  <2> QED
    BY <2>4 DEF LifeStep, Life!LifeNext
<1>7. CASE ~Present /\ "INSERTED" \in eflags
  <2>1. eflags' = Forgot(eflags) /\ ctlq' = Append(ctlq, "REMOVAL") /\ bus' = None
    BY <1>7, Seen DEF MediaSeen, Unpowered
  <2>2. Pulses' = Pulses \cup {"REMOVAL"}
    BY <2>1, Queued
  <2>3. Removing' = TRUE /\ LifePhase' = "empty" /\ (Removing \/ LifePhase # "empty")
    BY <1>7, <2>2 DEF Removing, LifePhase, SlotPhase
  <2>4. Run = "failing" /\ Run' = "none"
    BY <1>4, <1>5, <2>1, <2>2
  <2>5. Life!Failed
    BY <1>2, <1>7, <2>3, <2>4 DEF Life!Failed
  <2> QED
    BY <2>5 DEF LifeStep, Life!LifeNext
<1>8. CASE ~Present /\ "INSERTED" \notin eflags
  <2>1. eflags' = eflags /\ ctlq' = ctlq /\ bus' = bus /\ Pulses' = Pulses
    BY <1>8, Seen DEF MediaSeen, line, Pulses
  <2>2. Removing' = Removing /\ LifePhase' = "empty" /\ LifePhase = "empty"
    BY <1>8, <2>1 DEF Removing, LifePhase, SlotPhase
  <2>3. Run = "failing" /\ Run' = "none"
    BY <1>4, <1>5, <2>1
  <2>4. Removing' = (Removing \/ LifePhase # "empty")
    BY <2>2 DEF Removing
  <2>5. Life!Failed
    BY <1>2, <1>8, <2>2, <2>3, <2>4 DEF Life!Failed
  <2> QED
    BY <2>5 DEF LifeStep, Life!LifeNext
<1> QED
  BY <1>6, <1>7, <1>8

\* The user takes a card out, or puts one into a slot that is done with the last.
LEMMA UserLife ==
    ASSUME TypeOK, TypeOK', OneRun, OneRun', RunInv, RunInv', Undisturbed, User
    PROVE  LifeStep
<1>1. /\ UNCHANGED <<bus, ctlq, eflags, pc, state>>
      /\ Present' = ~Present /\ (Present \/ (AtRest /\ ~Unnoticed))
  BY IdentAssumption DEF User, Remove, Insert, note, Present, Undisturbed, Kinds, None
<1>2. Pulses' = Pulses
  BY <1>1 DEF Pulses
<1>3. LifePhase' = LifePhase /\ Removing' = Removing /\ Run' = Run
  BY <1>1, <1>2, SamePhase DEF Run, Starting, At
<1>4. ASSUME AtRest, ~Unnoticed PROVE LifePhase = "empty" /\ ~Removing /\ Run = "none"
  <2>1. Pulses = {} /\ "INSERTED" \notin eflags
    BY <1>4 DEF AtRest, Unnoticed, Pulses
  <2> QED
    BY <1>4, <2>1 DEF AtRest, LifePhase, SlotPhase, Removing, Run, Starting, At, Threads
<1>5. Life!Move
  BY <1>1, <1>3, <1>4 DEF Life!Move
<1> QED
  BY <1>5 DEF LifeStep, Life!LifeNext

\* Every step is one of the slot's life, or not seen from outside.
LEMMA StepLife ==
    ASSUME TypeOK, TypeOK', Silent, OneRun, OneRun', RunInv, RunInv', Undisturbed, Next
    PROVE  LifeStep
<1>1. ASSUME NEW ans \in Answer, Handler(ans) PROVE LifeStep
  <2>1. ~Storing
    <3>1. Interrupt(ans)
      BY <1>1, StageRoutine DEF Identifying, Final
    <3> QED
      BY <3>1 DEF Interrupt, Undisturbed, Storing
  <2>2. CASE Identifying(ans)
    BY <2>1, <2>2, StageRoutine, RoutineLife
  <2>3. CASE Final(ans) /\ ~Error(ans)
    BY <2>1, <2>3, FinalLife
  <2> QED
    BY <1>1, <2>2, <2>3 DEF Identifying
<1> QED
  BY <1>1, PollLife, StartLife, PreloadLife, ControlLife, FailedLife, UserLife
    DEF Next, Attaching, Control, Driver, Threads, Answer, Undisturbed, Sighted

\* The one run, as long as no disturbance but noise is considered.
CalmRun == Undisturbed => RunInv

\* Every step preserves that.
LEMMA StepCalmRun ==
    ASSUME TypeOK, TypeOK', SeqInv, CalmRun, [Next]_vars PROVE CalmRun'
<1>1. CASE UNCHANGED vars
  <2>1. Pulses' = Pulses /\ Working' = Working /\ Present' = Present
    BY <1>1 DEF vars, Pulses, Working, Present
  <2> QED
    BY <1>1, <2>1
      DEF CalmRun, Undisturbed, RunInv, Heralded, Stored, Rejected, Expected, Storing,
          Removing, At, vars
<1>2. CASE Next
  <2>1. Undisturbed' = Undisturbed /\ (Undisturbed => Sequential)
    BY <1>2, HazardsStay DEF Undisturbed, Sequential
  <2> QED
    BY <1>2, <2>1, StepRun DEF CalmRun, SeqInv
<1> QED
  BY <1>1, <1>2

\* It does at the start ...
LEMMA LifeBegins == Init => CalmRun /\ Life!LifeInit
<1> SUFFICES ASSUME Init PROVE CalmRun /\ Life!LifeInit
  OBVIOUS
<1>1. Pulses = {} /\ ~Storing /\ Run = "none" /\ LifePhase = "empty" /\ ~Removing
  BY DEF Init, Pulses, Storing, At, Threads, Run, Starting, LifePhase, SlotPhase, Removing,
         None
<1>2. CalmRun
  BY <1>1 DEF CalmRun, RunInv, Heralded, Stored, Rejected, Expected, Storing, Init, At, Threads
<1>3. Removing = FALSE /\ Present \in BOOLEAN
  BY <1>1 DEF Removing, Present
<1> QED
  BY <1>1, <1>2, <1>3 DEF Init, Life!LifeInit, Life!Slot!Init

\* ... and in every step that is not disturbed.
LEMMA LifeGoesOn ==
    /\ TypeOK /\ TypeOK' /\ SeqInv /\ SeqInv' /\ CalmRun /\ CalmRun' /\ [Next]_vars
    => [Undisturbed => Life!LifeNext]_(Life!life)
<1> SUFFICES ASSUME TypeOK, TypeOK', SeqInv, SeqInv', CalmRun, CalmRun', [Next]_vars,
                    Undisturbed
             PROVE  LifeStep
  BY DEF LifeStep
<1>1. CASE UNCHANGED vars
  <2>1. Pulses' = Pulses /\ Present' = Present
    BY <1>1 DEF vars, Pulses, Present
  <2>2. UNCHANGED Life!life
    BY <1>1, <2>1, SamePhase DEF Life!life, Run, Starting, At, vars
  <2> QED
    BY <2>2 DEF LifeStep
<1>2. CASE Next
  <2>1. Undisturbed' /\ Sequential /\ Sequential'
    BY <1>2, HazardsStay DEF Undisturbed, Sequential
  <2>2. OneRun /\ OneRun' /\ RunInv /\ RunInv' /\ Silent
    BY <2>1 DEF SeqInv, CalmRun
  <2> QED
    BY <1>2, <2>2, StepLife
<1> QED
  BY <1>1, <1>2

\* On a noisy bus the slot lives as SlotLife says.
THEOREM Living == Spec => LifeSafe
<1>1. TypeOK /\ TypeOK' /\ SeqInv /\ CalmRun /\ [Next]_vars => CalmRun'
  BY StepCalmRun
<1> QED
  BY <1>1, LifeBegins, LifeGoesOn, Typing, Running, PTL DEF Spec, LifeSafe

\* What follows of the slot's life holds of the identification: on a noisy bus a
\* card that waits for its verdict always has an identification under way, which
\* finds the state its answers are taken in, whatever the user and the threads
\* do (mmc_ident_irq, mmc_control_thread).
Sl == INSTANCE SlotLifeProofs
    WITH present <- Present, phase <- LifePhase, removal <- Removing, run <- Run

THEOREM Advancing == Spec => [](Undisturbed => Sl!LifeInv)
<1>1. Life!LifeInit => Sl!LifeInv
  <2>1. Life!LifeInit => Sl!LifeInit
    BY DEF Life!LifeInit, Life!Slot!Init, Sl!LifeInit, Sl!Slot!Init
  <2> QED
    BY <2>1, Sl!InitSound
<1>2. Sl!LifeInv /\ [Life!LifeNext]_(Life!life) => Sl!LifeInv'
  <2>1. [Life!LifeNext]_(Life!life) => [Sl!LifeNext]_(Sl!life)
    BY DEF Life!LifeNext, Sl!LifeNext, Life!life, Sl!life, Life!Move, Sl!Move, Life!Found, Sl!Found,
           Life!Lost, Sl!Lost, Life!Withdraws, Sl!Withdraws, Life!StartsNot, Sl!StartsNot,
           Life!Starts, Sl!Starts, Life!Accepts, Sl!Accepts, Life!Ends, Sl!Ends, Life!Fails, Sl!Fails,
           Life!Failed, Sl!Failed, Life!Serves, Sl!Serves, Life!Slot!Detect, Sl!Slot!Detect,
           Life!Slot!Lose, Sl!Slot!Lose, Life!Slot!Accept, Sl!Slot!Accept, Life!Slot!Reject,
           Sl!Slot!Reject
  <2> QED
    BY <2>1, Sl!StepSound
<1>3. [Next]_vars => Undisturbed' = Undisturbed
  BY HazardsStay DEF Undisturbed, vars
<1>4. (Undisturbed => Sl!LifeInv) /\ [Undisturbed => Life!LifeNext]_(Life!life) /\ [Next]_vars
      => (Undisturbed => Sl!LifeInv)'
  BY <1>2, <1>3
<1>5. TypeOK /\ TypeOK' /\ SeqInv /\ CalmRun /\ [Next]_vars => CalmRun'
  BY StepCalmRun
<1> QED
  BY <1>1, <1>4, <1>5, LifeBegins, LifeGoesOn, Typing, Running, PTL DEF Spec
=============================================================================
