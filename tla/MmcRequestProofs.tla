-------------------------- MODULE MmcRequestProofs --------------------------
(***************************************************************************)
(* Proofs about the requests of devb-mmcsd (module MmcRequest), for every  *)
(* set of requests, their sizes and blocks, every limit of the chipset and *)
(* any number of errors and removals: a request reported complete moved    *)
(* exactly its blocks, and the controller works only for the request in    *)
(* progress.                                                               *)
(***************************************************************************)
EXTENDS MmcRequest, SlotLifeProofs

\* Who works for whom: the request in progress, the state of the driver, the
\* controller and the slot.
Linked ==
    /\ nexus # None => status[nexus] = "active"
    /\ state = "DATA" => nexus # None
    /\ hw.op # "idle" => state = "DATA" /\ phase = "ready"
    /\ hw.op = "stop" => retry <= StopRetry + 1

\* Where a data phase stands: what moved before it, and what is left.
DataPhase == hw.op \in {"data", "refused"} =>
    \/ /\ hw.armed \in {"all", "ready"} /\ hw.n # 0
       /\ hw.blk = At[nexus] + hw.pos
       /\ moved[nexus] = Span(nexus, hw.pos)
       /\ hw.pos + hw.n <= Size[nexus]
       /\ hw.pos + hw.n = IF pio THEN Size[nexus] ELSE offset
       /\ ~pio => hw.armed = "all"
    \/ /\ hw.armed = "tc" /\ pio
       /\ moved[nexus] = Span(nexus, Size[nexus])

\* What moved before a stop command that follows no data error.
StopPhase == hw.op = "stop" /\ nexus \notin check =>
    LET k == IF pio THEN Size[nexus] ELSE offset
    IN k \in Nat /\ k <= Size[nexus] /\ moved[nexus] = Span(nexus, k)

Inv == TypeOK /\ Linked /\ DataPhase /\ StopPhase /\ CompleteTransfer

(***************************************************************************)
(* Facts about the helpers.                                                *)
(***************************************************************************)
\* Blocks that are moved one after the other add up.
LEMMA SpanExtends ==
    ASSUME NEW r \in Requests, NEW p \in Nat, NEW k \in Nat
    PROVE  Span(r, p) \cup {<<p + i, At[r] + p + i>> : i \in 0 .. k - 1} = Span(r, p + k)
<1>1. At[r] \in Nat  BY RequestAssumption
<1>2. ASSUME NEW x \in Span(r, p + k)
      PROVE  x \in Span(r, p) \cup {<<p + i, At[r] + p + i>> : i \in 0 .. k - 1}
  <2>1. PICK i \in 0 .. p + k - 1 : x = <<i, At[r] + i>>  BY <1>2 DEF Span
  <2>2. CASE i < p  BY <2>1, <2>2 DEF Span
  <2>3. CASE i >= p
    <3>1. i - p \in 0 .. k - 1 /\ x = <<p + (i - p), At[r] + p + (i - p)>>
      BY <1>1, <2>1, <2>3
    <3> QED  BY <3>1
  <2> QED  BY <2>2, <2>3
<1>3. ASSUME NEW x \in Span(r, p)  PROVE x \in Span(r, p + k)
  BY <1>3 DEF Span
<1>4. ASSUME NEW i \in 0 .. k - 1  PROVE <<p + i, At[r] + p + i>> \in Span(r, p + k)
  <2>1. p + i \in 0 .. p + k - 1 /\ <<p + i, At[r] + p + i>> = <<p + i, At[r] + (p + i)>>
    BY <1>1
  <2> QED  BY <2>1 DEF Span
<1> QED  BY <1>2, <1>3, <1>4

LEMMA SpanType ==
    ASSUME NEW r \in Requests, NEW k \in Nat
    PROVE  Span(r, k) \in SUBSET (Nat \X Nat)
BY RequestAssumption DEF Span

\* A transfer that is started is one data phase, from the block it is started
\* at, that never runs over the end of the request.
LEMMA SendRwStarts ==
    ASSUME TypeOK, NEW r \in Requests, NEW off \in Nat, off < Size[r], SendRw(r, off)
    PROVE  /\ hw' \in [op : {"idle", "data", "refused", "stop", "dead"}, pos : Nat, blk : Nat, n : Nat,
                       armed : {"no", "all", "ready", "tc"}]
           /\ hw'.op \in {"data", "refused"} /\ hw'.armed = "all" /\ hw'.n # 0
           /\ hw'.pos = off /\ hw'.blk = At[r] + off
           /\ off + hw'.n <= Size[r]
           /\ off + hw'.n = IF pio THEN Size[r] ELSE offset'
           /\ offset' \in Nat
           /\ stop' \in {"NONE", "PEND", "AUTO", "ISSUED"}
           /\ open' \in BOOLEAN
<1> DEFINE n == IF pio THEN Size[r] - off ELSE Min2(MaxChunk, Size[r] - off)
<1>1. Size[r] \in Nat /\ At[r] \in Nat /\ MaxChunk \in Nat \ {0}  BY RequestAssumption
<1>2. n \in Nat \ {0} /\ n <= Size[r] - off  BY <1>1 DEF Min2
<1>3. PICK op \in {"data", "refused"} :
          hw' = [op |-> op, pos |-> off, blk |-> At[r] + off, n |-> n, armed |-> "all"]
  BY DEF SendRw
<1>4. offset' = IF pio THEN 0 ELSE off + n  BY DEF SendRw
<1>5. stop' \in {"NONE", "PEND", "AUTO", "ISSUED"} /\ open' \in BOOLEAN
  BY DEF SendRw, TypeOK, FlagsOK
<1>6. pio => n = Size[r] - off  OBVIOUS
<1> HIDE DEF n
<1> QED  BY <1>1, <1>2, <1>3, <1>4, <1>5, <1>6


LEMMA FaultyCounts == ASSUME TypeOK, Faulty PROVE errors' \in 0 .. MaxErrors /\ plugs' = plugs
<1>1. CASE present   BY <1>1, RequestAssumption DEF TypeOK, Faulty
<1>2. CASE ~present  BY <1>2, RequestAssumption DEF TypeOK, Faulty
<1> QED  BY <1>1, <1>2

(***************************************************************************)
(* The steps, one lemma each.                                              *)
(***************************************************************************)
LEMMA EnqueueKeeps == ASSUME Inv, NEW r \in Requests, Enqueue(r) PROVE Inv'
<1> USE DEF Inv, Enqueue, mode, client, ext, ctrl, world, hist, bounds
<1>0. FlagsOK'  BY Zenon DEF TypeOK, FlagsOK
<1>1. TypeOK'  BY <1>0, RequestAssumption DEF TypeOK, Done
<1>2. Linked'  BY DEF Linked, TypeOK
<1>3. DataPhase'  BY DEF DataPhase, Span, Linked
<1>4. StopPhase'  BY DEF StopPhase, Span, Linked
<1>5. CompleteTransfer'  BY DEF CompleteTransfer, Span, TypeOK
<1> QED  BY <1>1, <1>2, <1>3, <1>4, <1>5

LEMMA TakeEnqueueKeeps == ASSUME Inv, TakeEnqueue PROVE Inv'
<1> USE DEF Inv, TakeEnqueue, mode, client, ext, ctrl, world, hist, bounds
<1>0. FlagsOK'  BY Zenon DEF TypeOK, FlagsOK
<1>1. TypeOK'  BY <1>0, RequestAssumption DEF TypeOK, Done
<1>2. Linked'  BY DEF Linked, TypeOK
<1>3. DataPhase'  BY DEF DataPhase, Span, Linked
<1>4. StopPhase'  BY DEF StopPhase, Span, Linked
<1>5. CompleteTransfer'  BY DEF CompleteTransfer, Span, TypeOK
<1> QED  BY <1>1, <1>2, <1>3, <1>4, <1>5

LEMMA StartNoneKeeps == ASSUME Inv, StartNone PROVE Inv'
<1> USE DEF Inv, StartNone, mode, client, ext, ctrl, world, hist, bounds
<1>0. FlagsOK'  BY Zenon DEF TypeOK, FlagsOK
<1>1. TypeOK'  BY <1>0, RequestAssumption DEF TypeOK, Done
<1>2. Linked'  BY DEF Linked, TypeOK
<1>3. DataPhase'  BY DEF DataPhase, Span, Linked
<1>4. StopPhase'  BY DEF StopPhase, Span, Linked
<1>5. CompleteTransfer'  BY DEF CompleteTransfer, Span, TypeOK
<1> QED  BY <1>1, <1>2, <1>3, <1>4, <1>5

LEMMA LostErrorKeeps == ASSUME Inv, LostError PROVE Inv'
<1> USE DEF Inv, LostError, Irq, Others, mode, client, ext, ctrl, world, hist, bounds
<1>0. FlagsOK'  BY Zenon DEF TypeOK, FlagsOK
<1>1. TypeOK'  BY <1>0, FaultyCounts, RequestAssumption DEF TypeOK, Done
<1>2. Linked'  BY DEF Linked, TypeOK
<1>3. DataPhase'  BY DEF DataPhase, Span, Linked
<1>4. StopPhase'  BY DEF StopPhase, Span, Linked
<1>5. CompleteTransfer'  BY DEF CompleteTransfer, Span, TypeOK
<1> QED  BY <1>1, <1>2, <1>3, <1>4, <1>5

\* The slot's life stays within its types ...
LEMMA LifeTyped ==
    ASSUME TypeOK, LifeNext
    PROVE  /\ present' \in BOOLEAN /\ removal' \in BOOLEAN /\ phase' \in Slot!Phases
           /\ state' \in {"IDLE", "IDENT", "DATA"}
           /\ run' \in {"none", "starting", "going", "failing"}
<1> USE DEF TypeOK, FlagsOK, Slot!Phases
<1>1. CASE Move \/ Withdraws \/ StartsNot \/ Starts \/ Ends \/ Fails \/ Serves
  BY <1>1 DEF Move, Withdraws, StartsNot, Starts, Ends, Fails, Serves
<1>2. CASE Found \/ Lost \/ Accepts \/ Failed
  BY <1>2 DEF Found, Lost, Accepts, Failed, Slot!Detect, Slot!Lose, Slot!Accept, Slot!Reject
<1> QED  BY <1>1, <1>2 DEF LifeNext

\* ... and what happens to it leaves the requests alone, but for a card that is
\* gone, whose power goes with it.
LEMMA SlotKeeps ==
    ASSUME Inv, UNCHANGED <<mode, client, nexus, stop, offset, retry, check, hist, errors>>,
           LifeNext \/ UNCHANGED life, pc' \in {"receive", "start"}, plugs' \in 0 .. MaxPlugs,
           \/ UNCHANGED <<hw, open>>
           \/ hw' = Quiet /\ open' = FALSE,
           state' = "DATA" => state = "DATA",
           hw'.op # "idle" => state' = "DATA" /\ phase' = "ready"
    PROVE  Inv'
<1> USE DEF Inv, mode, client, hist
<1>1. /\ present' \in BOOLEAN /\ removal' \in BOOLEAN /\ phase' \in Slot!Phases
      /\ state' \in {"IDLE", "IDENT", "DATA"}
      /\ run' \in {"none", "starting", "going", "failing"}
  BY LifeTyped DEF TypeOK, FlagsOK, life
<1>2. FlagsOK'  BY <1>1 DEF TypeOK, FlagsOK
<1>3. TypeOK'  BY <1>1, <1>2 DEF TypeOK, Done, Quiet
<1>4. Linked'  BY DEF Linked, Quiet
<1>5. DataPhase' /\ StopPhase'  BY DEF DataPhase, StopPhase, Span, Quiet
<1>6. CompleteTransfer'  BY DEF CompleteTransfer, Span
<1> QED  BY <1>3, <1>4, <1>5, <1>6

LEMMA PlugKeeps == ASSUME Inv, Plug PROVE Inv'
<1>1. LifeNext /\ plugs' \in 0 .. MaxPlugs
  BY RequestAssumption DEF Plug, LifeNext, Inv, TypeOK
<1>2. UNCHANGED <<state, phase, hw, open, pc>>  BY DEF Plug, Move, ctrl
<1> QED  BY <1>1, <1>2, SlotKeeps DEF Plug, ext, bounds, Inv, Linked, TypeOK

LEMMA TickKeeps == ASSUME Inv, Tick PROVE Inv'
<1>1. CASE Unmoved
  <2>1. UNCHANGED <<state, phase, hw, open>>  BY <1>1 DEF Unmoved, life, ctrl
  <2> QED  BY <1>1, <2>1, SlotKeeps DEF Tick, Unmoved, ext, bounds, Inv, Linked, TypeOK
<1>2. CASE Found /\ UNCHANGED ctrl
  <2>1. UNCHANGED <<state, hw, open>> /\ phase = "empty"
    BY <1>2 DEF Found, Slot!Detect, ctrl
  <2> QED
    BY <1>2, <2>1, SlotKeeps DEF Tick, LifeNext, ext, bounds, Inv, Linked, TypeOK
<1>3. CASE Lost /\ hw' = Quiet /\ open' = FALSE
  <2>1. UNCHANGED state /\ hw'.op = "idle"  BY <1>3 DEF Lost, Quiet
  <2> QED  BY <1>3, <2>1, SlotKeeps DEF Tick, LifeNext, ext, bounds, Inv, TypeOK
<1> QED  BY <1>1, <1>2, <1>3 DEF Tick, MediaCheck

LEMMA ControlKeeps == ASSUME Inv, LifeInv, Control PROVE Inv'
<1>1. CASE CardRemoval
  <2>1. hw.op = "idle"  BY <1>1 DEF CardRemoval, Withdraws, LifeInv, Inv, Linked
  <2>2. state' = "IDLE" /\ UNCHANGED <<hw, open>>
    BY <1>1 DEF CardRemoval, Withdraws, Bystanders, ctrl
  <2> QED
    BY <1>1, <2>1, <2>2, SlotKeeps DEF CardRemoval, LifeNext, Bystanders, bounds, Inv, TypeOK
<1>2. CASE CardInsertion
  <2>1. hw.op = "idle"
    BY <1>2 DEF CardInsertion, Starts, StartsNot, LifeInv, Inv, Linked, TypeOK
  <2>2. (state' = "IDENT" \/ state' = state) /\ UNCHANGED <<hw, open>>
    BY <1>2 DEF CardInsertion, Starts, StartsNot, Bystanders, ctrl
  <2> QED
    BY <1>2, <2>1, <2>2, SlotKeeps DEF CardInsertion, LifeNext, Bystanders, bounds, Inv, TypeOK
<1> QED  BY <1>1, <1>2 DEF Control

LEMMA IdentEndsKeeps == ASSUME Inv, IdentEnds PROVE Inv'
<1>1. UNCHANGED <<state, phase, hw, open>>
  BY DEF IdentEnds, Fails, Ends, Bystanders, ctrl
<1> QED
  BY <1>1, SlotKeeps DEF IdentEnds, LifeNext, Bystanders, bounds, Inv, Linked, TypeOK

\* A transfer that is started, after the blocks before it moved, leaves the
\* request in a data phase.
LEMMA StartKeeps ==
    ASSUME TypeOK, NEW r \in Requests, NEW off \in Nat, off < Size[r], SendRw(r, off),
           UNCHANGED mode, nexus' = r, moved'[r] = Span(r, off)
    PROVE  DataPhase' /\ StopPhase'
<1>1. pio' = pio  BY DEF mode
<1>2. DataPhase'  BY <1>1, SendRwStarts DEF DataPhase, Span
<1>3. StopPhase'  BY SendRwStarts DEF StopPhase
<1> QED  BY <1>2, <1>3

\* The request that is executed is answered, or its transfer is started.
LEMMA ExecuteKeeps ==
    ASSUME Inv, NEW r \in Requests, NEW ready \in BOOLEAN, Execute(r, ready), UNCHANGED mode,
           hw.op = "idle", ready => phase' = "ready", kick' \in BOOLEAN,
           present' \in BOOLEAN, removal' \in BOOLEAN,
           queue' \in Seq(Requests), pc' \in {"receive", "start"},
           phase' \in Slot!Phases, run' \in {"none", "starting", "going", "failing"},
           UNCHANGED bounds
    PROVE  Inv'
<1> USE DEF Inv
<1>1. CASE Reply(r, ready) = "active"
  <2>1. Size[r] \in Nat \ {0} /\ ready  BY <1>1, RequestAssumption DEF Reply
  <2>2. /\ nexus' = r /\ state' = "DATA" /\ SendRw(r, 0)
        /\ status' = [status EXCEPT ![r] = "active"]
        /\ moved' = [moved EXCEPT ![r] = {}]
        /\ blamed' = blamed \ {r} /\ UNCHANGED <<retry, check>>
    BY <1>1 DEF Execute, Post
  <2>3. moved'[r] = Span(r, 0)  BY <2>2 DEF TypeOK, Span
  <2>4. DataPhase' /\ StopPhase'  BY <2>1, <2>2, <2>3, StartKeeps
  <2>5. FlagsOK'  BY <2>1, <2>2, SendRwStarts DEF TypeOK, FlagsOK, mode
  <2>6. TypeOK'  BY <2>1, <2>2, <2>5, SendRwStarts DEF TypeOK, Done, bounds
  <2>7. Linked'
    <3>1. hw'.op \in {"data", "refused"} /\ phase' = "ready" /\ nexus' # None
      BY <2>1, <2>2, SendRwStarts, RequestAssumption
    <3>2. status'[nexus'] = "active"  BY <2>2 DEF TypeOK
    <3> QED  BY <2>2, <3>1, <3>2 DEF Linked
  <2>8. CompleteTransfer'  BY <2>2 DEF CompleteTransfer, Span, TypeOK
  <2> QED  BY <2>4, <2>6, <2>7, <2>8
<1>2. CASE Reply(r, ready) # "active"
  <2>1. /\ nexus' = None /\ state' = "IDLE" /\ UNCHANGED <<stop, offset, ctrl, retry, check>>
        /\ status' = [status EXCEPT ![r] = Reply(r, ready)]
        /\ moved' = [moved EXCEPT ![r] = {}]
        /\ blamed' = IF Reply(r, ready) = "err" THEN blamed \cup {r} ELSE blamed \ {r}
    BY <1>2 DEF Execute, Post
  <2>2. Reply(r, ready) \in Done  BY <1>2 DEF Reply, Done
  <2>3. FlagsOK'  BY <2>1 DEF TypeOK, FlagsOK, mode, ctrl
  <2>4. TypeOK'  BY <2>1, <2>2, <2>3 DEF TypeOK, Done, bounds, ctrl
  <2>5. Linked' /\ DataPhase' /\ StopPhase'
    BY <2>1 DEF Linked, DataPhase, StopPhase, ctrl
  <2>6. CompleteTransfer'
    <3>1. Reply(r, ready) = "cmp" => moved'[r] = Span(r, Size[r])
      BY <2>1 DEF Reply, Span, TypeOK
    <3> QED  BY <2>1, <3>1 DEF CompleteTransfer, Span, TypeOK
  <2> QED  BY <2>4, <2>5, <2>6
<1> QED  BY <1>1, <1>2

LEMMA StartNextKeeps == ASSUME Inv, StartNext PROVE Inv'
<1> USE DEF Inv, StartNext
<1> DEFINE r == Head(queue)
<1>1. r \in Requests /\ queue' \in Seq(Requests)
  BY DEF TypeOK
<1>3. UNCHANGED <<mode, kick, world, bounds>> /\ pc' \in {"receive", "start"}
  OBVIOUS
<1>4. CASE state = "IDENT"
  <2>1. /\ nexus' = r /\ status' = [status EXCEPT ![r] = "active"]
        /\ UNCHANGED <<state, stop, offset, retry, check, ctrl, hist>>
    BY <1>4 DEF Post
  <2>2. FlagsOK'  BY <1>3, <2>1 DEF TypeOK, FlagsOK, mode, ctrl, world
  <2>3. TypeOK'  BY <1>1, <1>3, <2>1, <2>2 DEF TypeOK, Done, ctrl, hist, world, bounds
  <2>4. Linked' /\ DataPhase' /\ StopPhase'
    BY <1>1, <1>3, <1>4, <2>1 DEF Linked, DataPhase, StopPhase, TypeOK, ctrl, world
  <2>5. CompleteTransfer'  BY <1>1, <2>1 DEF CompleteTransfer, Span, TypeOK, hist
  <2> QED  BY <2>3, <2>4, <2>5
<1>5. CASE state # "IDENT"
  <2>1. Execute(r, phase = "ready")  BY <1>5
  <2>2. hw.op = "idle"  BY <1>5 DEF Linked
  <2> QED  BY <1>1, <1>3, <2>1, <2>2, ExecuteKeeps DEF TypeOK, FlagsOK, Linked, world
<1> QED  BY <1>4, <1>5

LEMMA IdentDoneKeeps == ASSUME Inv, IdentDone PROVE Inv'
<1> USE DEF Inv
<1>1. /\ hw.op = "idle" /\ phase' = "ready" /\ run' = "none"
      /\ UNCHANGED <<present, removal, mode, queue, kick, pc, bounds>>
  BY DEF IdentDone, Accepts, Slot!Accept, Linked
<1>2. CASE nexus = None
  <2>1. LifeNext /\ state' = "IDLE" /\ UNCHANGED <<client, nexus, stop, offset, retry, check, ctrl, hist>>
    BY <1>1, <1>2 DEF IdentDone, LifeNext, client
  <2> QED  BY <1>1, <2>1, SlotKeeps DEF ctrl, bounds, TypeOK
<1>3. CASE nexus # None
  <2>1. Execute(nexus, TRUE) /\ nexus \in Requests  BY <1>3 DEF IdentDone, TypeOK
  <2> QED  BY <1>1, <2>1, ExecuteKeeps DEF TypeOK, FlagsOK, Slot!Phases
<1> QED  BY <1>2, <1>3

LEMMA IdentFailedKeeps == ASSUME Inv, LifeInv, IdentFailed PROVE Inv'
<1> USE DEF Inv
<1>1. /\ LifeNext /\ run = "failing" /\ state' = "IDLE"
      /\ UNCHANGED <<mode, queue, kick, pc, stop, offset, retry, check, ctrl, moved, bounds>>
  BY DEF IdentFailed, Failed, LifeNext
<1>2. hw.op = "idle" /\ UNCHANGED <<hw, open>>  BY <1>1 DEF LifeInv, Linked, ctrl
<1>3. CASE nexus = None
  <2>1. UNCHANGED <<client, nexus, hist>>  BY <1>1, <1>3 DEF IdentFailed, client, hist
  <2> QED  BY <1>1, <1>2, <2>1, SlotKeeps DEF bounds, TypeOK
<1>4. CASE nexus # None
  <2>1. /\ nexus' = None /\ status' = [status EXCEPT ![nexus] = "err"]
        /\ blamed' = blamed \cup {nexus} /\ nexus \in Requests
    BY <1>4 DEF IdentFailed, Finish, Post, TypeOK
  <2>2. FlagsOK'  BY <1>1, <1>2, LifeTyped DEF TypeOK, FlagsOK, mode
  <2>3. TypeOK'  BY <1>1, <1>2, <2>1, <2>2, LifeTyped DEF TypeOK, Done, bounds
  <2>4. Linked' /\ DataPhase' /\ StopPhase'
    BY <1>1, <1>2, <2>1 DEF Linked, DataPhase, StopPhase
  <2>5. CompleteTransfer'  BY <1>1, <2>1 DEF CompleteTransfer, Span, TypeOK
  <2> QED  BY <2>3, <2>4, <2>5
<1> QED  BY <1>3, <1>4

(***************************************************************************)
(* The interrupts of a transfer end in one of three ways.                  *)
(***************************************************************************)
\* What an interrupt may change besides the state of the request.
Touched ==
    /\ Others /\ nexus # None
    /\ moved' \in [Requests -> SUBSET (Nat \X Nat)]
    /\ \A q \in Requests : q # nexus => moved'[q] = moved[q]
    /\ check' \subseteq Requests /\ blamed' \subseteq Requests
    /\ retry' \in 0 .. StopRetry + 2
    /\ errors' \in 0 .. MaxErrors /\ plugs' = plugs
    /\ stop' \in {"NONE", "PEND", "AUTO", "ISSUED"}
    /\ offset' \in Nat \cup {-1}
    /\ open' \in BOOLEAN

\* The request is posted.
LEMMA FinishKeeps ==
    ASSUME Inv, NEW s \in Done, Finish(s), hw' = Quiet, Touched,
           s = "cmp" => moved'[nexus] = Span(nexus, Size[nexus])
    PROVE  Inv'
<1> USE DEF Inv
<1>1. nexus' = None /\ state' = "IDLE" /\ status' = [status EXCEPT ![nexus] = s]
  BY DEF Finish, Post
<1>2. UNCHANGED <<pio, auto, kick, queue, pc, present, phase, removal, run>>
  BY DEF Touched, Others, mode, world
<1>3. FlagsOK'  BY <1>2 DEF TypeOK, FlagsOK, Touched
<1>4. TypeOK'  BY <1>1, <1>2, <1>3 DEF TypeOK, Done, Quiet, Touched
<1>5. Linked' /\ DataPhase' /\ StopPhase'
  BY <1>1, <1>2 DEF Linked, DataPhase, StopPhase, Quiet
<1>6. CompleteTransfer'
  <2>1. ASSUME NEW q \in Requests, status'[q] = "cmp"
        PROVE  moved'[q] = Span(q, Size[q])
    BY <1>1, <2>1 DEF CompleteTransfer, Touched, TypeOK
  <2> QED  BY <2>1 DEF CompleteTransfer, Span
<1> QED  BY <1>4, <1>5, <1>6

\* A stop command follows.
LEMMA StopKeeps ==
    ASSUME Inv, Continue, hw' = Stop, Touched, state = "DATA", phase = "ready",
           retry' <= StopRetry + 1,
           nexus \notin check' =>
               LET k == IF pio THEN Size[nexus] ELSE offset'
               IN  k \in Nat /\ k <= Size[nexus] /\ moved'[nexus] = Span(nexus, k)
    PROVE  Inv'
<1> USE DEF Inv
<1>1. UNCHANGED <<nexus, state, status>>  BY DEF Continue
<1>2. UNCHANGED <<pio, auto, kick, queue, pc, present, phase, removal, run>>
  BY DEF Touched, Others, mode, world
<1>3. FlagsOK'  BY <1>2 DEF TypeOK, FlagsOK, Touched
<1>4. TypeOK'  BY <1>1, <1>2, <1>3 DEF TypeOK, Done, Stop, Quiet, Touched
<1>5. hw'.op = "stop"  BY DEF Stop, Quiet
<1>6. Linked' /\ DataPhase'  BY <1>1, <1>2, <1>5 DEF Linked, DataPhase
<1>7. StopPhase'  BY <1>1, <1>2 DEF StopPhase, Span
<1>8. CompleteTransfer'
  <2>1. nexus \in Requests /\ status[nexus] = "active"  BY DEF TypeOK, Linked, Touched
  <2>2. ASSUME NEW q \in Requests, status'[q] = "cmp"
        PROVE  moved'[q] = Span(q, Size[q])
    BY <1>1, <2>1, <2>2 DEF CompleteTransfer, Touched
  <2> QED  BY <2>2 DEF CompleteTransfer, Span
<1> QED  BY <1>4, <1>6, <1>7, <1>8

\* The next piece of the request follows.
LEMMA SendKeeps ==
    ASSUME Inv, Continue, SendRw(nexus, offset), Touched, state = "DATA", phase = "ready",
           offset \in Nat, offset < Size[nexus], moved'[nexus] = Span(nexus, offset)
    PROVE  Inv'
<1> USE DEF Inv
<1>1. UNCHANGED <<nexus, state, status>>  BY DEF Continue
<1>2. UNCHANGED <<pio, auto, kick, queue, pc, present, phase, removal, run, mode>>
  BY DEF Touched, Others, mode, world
<1>3. nexus \in Requests /\ status[nexus] = "active"  BY DEF TypeOK, Linked, Touched
<1>4. hw'.op \in {"data", "refused"}
      /\ hw' \in [op : {"idle", "data", "refused", "stop", "dead"}, pos : Nat, blk : Nat,
                  n : Nat, armed : {"no", "all", "ready", "tc"}]
  BY <1>3, SendRwStarts
<1>5. FlagsOK'  BY <1>2 DEF TypeOK, FlagsOK, Touched
<1>6. TypeOK'  BY <1>1, <1>2, <1>4, <1>5 DEF TypeOK, Done, Touched
<1>7. Linked'  BY <1>1, <1>2, <1>4 DEF Linked
<1>8. DataPhase' /\ StopPhase'  BY <1>1, <1>2, <1>3, StartKeeps
<1>9. CompleteTransfer'
  <2>1. ASSUME NEW q \in Requests, status'[q] = "cmp"
        PROVE  moved'[q] = Span(q, Size[q])
    BY <1>1, <1>3, <2>1 DEF CompleteTransfer, Touched
  <2> QED  BY <2>1 DEF CompleteTransfer, Span
<1> QED  BY <1>6, <1>7, <1>8, <1>9

\* The blocks that moved since the last interrupt follow those before it.
LEMMA MovedExtends ==
    ASSUME Inv, NEW k \in Nat, k <= hw.n, Moved(k), hw.op = "data", hw.armed # "tc"
    PROVE  /\ nexus \in Requests /\ status[nexus] = "active" /\ phase = "ready"
           /\ hw.pos \in Nat /\ hw.n \in Nat \ {0} /\ Size[nexus] \in Nat
           /\ moved' \in [Requests -> SUBSET (Nat \X Nat)]
           /\ \A q \in Requests : q # nexus => moved'[q] = moved[q]
           /\ moved'[nexus] = Span(nexus, hw.pos + k)
           /\ hw.pos + k \in Nat
<1> USE DEF Inv
<1>1. nexus \in Requests /\ status[nexus] = "active" /\ phase = "ready"
  BY DEF Linked, TypeOK
<1>2. hw.pos \in Nat /\ hw.n \in Nat \ {0} /\ Size[nexus] \in Nat /\ At[nexus] \in Nat
  BY <1>1, RequestAssumption DEF TypeOK, DataPhase
<1>3. hw.blk = At[nexus] + hw.pos /\ moved[nexus] = Span(nexus, hw.pos)
  BY DEF DataPhase
<1>4. moved' = [moved EXCEPT ![nexus] =
          Span(nexus, hw.pos) \cup {<<hw.pos + i, At[nexus] + hw.pos + i>> : i \in 0 .. k - 1}]
  BY <1>3 DEF Moved
<1>5. moved' = [moved EXCEPT ![nexus] = Span(nexus, hw.pos + k)]
  BY <1>1, <1>2, <1>4, SpanExtends
<1>6. Span(nexus, hw.pos + k) \in SUBSET (Nat \X Nat)
  BY <1>1, <1>2, SpanType
<1> QED  BY <1>1, <1>2, <1>5, <1>6 DEF TypeOK

LEMMA DmaDataKeeps == ASSUME Inv, DmaData PROVE Inv'
<1> USE DEF Inv
<1>1. hw.armed = "all" /\ hw.op = "data" /\ state = "DATA" /\ nexus # None /\ hw.n \in Nat
  BY DEF DmaData, Irq, DataPhase, TypeOK
<1>2. Moved(hw.n) /\ retry' = 0 /\ UNCHANGED <<check, blamed, bounds>> /\ Others /\ ~pio
  BY DEF DmaData
<1>3. /\ offset \in Nat /\ offset <= Size[nexus] /\ Size[nexus] \in Nat
      /\ nexus \in Requests /\ status[nexus] = "active" /\ phase = "ready"
      /\ moved' \in [Requests -> SUBSET (Nat \X Nat)]
      /\ \A q \in Requests : q # nexus => moved'[q] = moved[q]
      /\ moved'[nexus] = Span(nexus, offset)
  BY <1>1, <1>2, MovedExtends DEF DataPhase
<1>4. ASSUME stop' \in {"NONE", "PEND", "AUTO", "ISSUED"}, open' \in BOOLEAN,
             offset' \in Nat
      PROVE  Touched
  BY <1>1, <1>2, <1>3, <1>4, RequestAssumption DEF Touched, TypeOK, bounds
<1>5. CASE stop = "PEND"
  <2>1. IssueStop /\ UNCHANGED <<offset, open>>  BY <1>5 DEF DmaData
  <2>2. Touched  BY <1>3, <1>4, <2>1 DEF TypeOK, FlagsOK, IssueStop
  <2> QED  BY <1>1, <1>2, <1>3, <2>1, <2>2, StopKeeps, RequestAssumption DEF IssueStop
<1>6. CASE stop # "PEND" /\ offset = Size[nexus]
  <2>1. Finish("cmp") /\ hw' = Quiet /\ stop' = stop /\ open' \in BOOLEAN /\ offset' = offset
    BY <1>6 DEF DmaData, DmaRw
  <2>2. Touched  BY <1>3, <1>4, <2>1 DEF TypeOK
  <2> QED  BY <1>3, <1>6, <2>1, <2>2, FinishKeeps DEF Done
<1>7. CASE stop # "PEND" /\ offset # Size[nexus]
  <2>1. SendRw(nexus, offset) /\ Continue /\ offset < Size[nexus]
    BY <1>3, <1>7 DEF DmaData, DmaRw
  <2>2. Touched  BY <1>3, <1>4, <2>1, SendRwStarts
  <2> QED  BY <1>1, <1>3, <2>1, <2>2, SendKeeps
<1> QED  BY <1>5, <1>6, <1>7

\* mmc_pio_stop() comes after the last block.
LEMMA PioStopKeeps ==
    ASSUME Inv, PioStop, Touched, pio, retry' = 0, state = "DATA", phase = "ready",
           nexus \in Requests, moved'[nexus] = Span(nexus, Size[nexus])
    PROVE  Inv'
<1>1. CASE stop = "PEND"
  <2>1. IssueStop  BY <1>1 DEF PioStop
  <2> QED  BY <2>1, StopKeeps, RequestAssumption DEF IssueStop
<1>2. CASE stop # "PEND"
  <2>1. Finish("cmp") /\ hw' = Quiet  BY <1>2 DEF PioStop
  <2> QED  BY <2>1, FinishKeeps DEF Done
<1> QED  BY <1>1, <1>2

LEMMA PioCompleteKeeps == ASSUME Inv, PioComplete PROVE Inv'
<1> USE DEF Inv
<1>1. /\ hw.op = "data" /\ hw.armed = "tc" /\ state = "DATA" /\ nexus # None
      /\ PioStop /\ retry' = 0 /\ Others /\ UNCHANGED <<offset, open, check, hist, bounds>>
  BY DEF PioComplete, Irq
<1>2. pio /\ moved[nexus] = Span(nexus, Size[nexus])  BY <1>1 DEF DataPhase
<1>3. phase = "ready" /\ nexus \in Requests  BY <1>1 DEF Linked, TypeOK
<1>4. stop' \in {"NONE", "PEND", "AUTO", "ISSUED"}
  BY <1>1 DEF PioStop, IssueStop, TypeOK
<1>5. Touched
  BY <1>1, <1>4, RequestAssumption DEF Touched, TypeOK, FlagsOK, bounds, hist
<1> QED  BY <1>1, <1>2, <1>3, <1>5, PioStopKeeps DEF hist

LEMMA PioReadyKeeps == ASSUME Inv, PioReady PROVE Inv'
<1> USE DEF Inv
<1>1. /\ hw.op = "data" /\ hw.armed # "tc" /\ state = "DATA" /\ nexus # None /\ pio
      /\ retry' = 0 /\ Others /\ UNCHANGED <<open, check, blamed, bounds>>
  BY DEF PioReady, Irq
<1>2. hw.n \in Nat  BY DEF TypeOK
<1>3. PICK k \in 1 .. hw.n :
        /\ Moved(k)
        /\ \/ /\ k < hw.n
              /\ hw' = [hw EXCEPT !.pos = @ + k, !.blk = @ + k, !.n = @ - k, !.armed = "ready"]
              /\ offset' = offset + k /\ Continue /\ UNCHANGED stop
           \/ /\ k = hw.n /\ nexus \in Writes
              /\ hw' = [hw EXCEPT !.n = 0, !.armed = "tc"]
              /\ offset' = -1 /\ Continue /\ UNCHANGED stop
           \/ /\ k = hw.n /\ nexus \notin Writes
              /\ offset' = -1 /\ PioStop
  BY DEF PioReady
<1>4. /\ nexus \in Requests /\ status[nexus] = "active" /\ phase = "ready"
      /\ hw.pos \in Nat /\ hw.n \in Nat \ {0} /\ Size[nexus] \in Nat
      /\ moved' \in [Requests -> SUBSET (Nat \X Nat)]
      /\ \A q \in Requests : q # nexus => moved'[q] = moved[q]
      /\ moved'[nexus] = Span(nexus, hw.pos + k)
      /\ hw.pos + k \in Nat
  BY <1>1, <1>2, <1>3, MovedExtends
<1>5. hw.pos + hw.n = Size[nexus] /\ hw.blk = At[nexus] + hw.pos
  BY <1>1 DEF DataPhase
<1>6. UNCHANGED <<pio, auto, kick, queue, pc, present, phase, removal, run>>
  BY <1>1 DEF Others, mode, world
<1>7. ASSUME Continue, hw'.op = "data", UNCHANGED stop, DataPhase', offset' \in Nat \cup {-1},
             hw' \in [op : {"idle", "data", "refused", "stop", "dead"}, pos : Nat, blk : Nat, n : Nat,
                      armed : {"no", "all", "ready", "tc"}]
      PROVE  Inv'
  <2>1. FlagsOK'  BY <1>1, <1>6 DEF TypeOK, FlagsOK
  <2>2. TypeOK'
    BY <1>1, <1>4, <1>6, <1>7, <2>1, RequestAssumption DEF TypeOK, Done, Continue, bounds
  <2>3. Linked' /\ StopPhase'  BY <1>1, <1>6, <1>7 DEF Linked, StopPhase, Continue
  <2>4. ASSUME NEW q \in Requests, status'[q] = "cmp"
        PROVE  moved'[q] = Span(q, Size[q])
    BY <1>4, <1>7, <2>4 DEF CompleteTransfer, Continue
  <2>5. CompleteTransfer'  BY <2>4 DEF CompleteTransfer, Span
  <2> QED  BY <1>7, <2>2, <2>3, <2>5
<1>8. CASE k < hw.n
  <2>1. /\ hw' = [hw EXCEPT !.pos = @ + k, !.blk = @ + k, !.n = @ - k, !.armed = "ready"]
        /\ offset' = offset + k /\ Continue /\ UNCHANGED stop
    BY <1>3, <1>8
  <2>2. hw.blk \in Nat /\ hw \in [op : {"idle", "data", "refused", "stop", "dead"}, pos : Nat, blk : Nat,
                                  n : Nat, armed : {"no", "all", "ready", "tc"}]
    BY DEF TypeOK
  <2>3. hw' \in [op : {"idle", "data", "refused", "stop", "dead"}, pos : Nat, blk : Nat, n : Nat,
                 armed : {"no", "all", "ready", "tc"}]
    <3>1. hw.pos + k \in Nat /\ hw.blk + k \in Nat /\ hw.n - k \in Nat
      BY <1>3, <1>4, <1>8, <2>2
    <3> HIDE <1>3
    <3> QED  BY <2>1, <2>2, <3>1
  <2>4. /\ hw'.op = "data" /\ hw'.pos = hw.pos + k /\ hw'.blk = hw.blk + k
        /\ hw'.n = hw.n - k /\ hw'.armed = "ready"
    BY <1>1, <2>1, <2>2
  <2>5. hw'.n # 0 /\ hw'.pos + hw'.n = Size[nexus] /\ hw'.blk = At[nexus] + hw'.pos
    BY <1>3, <1>4, <1>5, <1>8, <2>2, <2>4, RequestAssumption
  <2>6. nexus' = nexus  BY <2>1 DEF Continue
  <2>7. DataPhase'  BY <1>1, <1>4, <1>6, <2>4, <2>5, <2>6 DEF DataPhase, Span
  <2>8. offset' \in Nat \cup {-1}  BY <1>3, <2>1 DEF TypeOK
  <2> QED  BY <1>7, <2>1, <2>3, <2>4, <2>7, <2>8
<1>9. CASE k = hw.n /\ nexus \in Writes
  <2>1. hw' = [hw EXCEPT !.n = 0, !.armed = "tc"] /\ offset' = -1 /\ Continue /\ UNCHANGED stop
    BY <1>3, <1>9
  <2>2. hw'.op = "data" /\ hw'.armed = "tc"
        /\ hw' \in [op : {"idle", "data", "refused", "stop", "dead"}, pos : Nat, blk : Nat, n : Nat,
                    armed : {"no", "all", "ready", "tc"}]
    BY <1>1, <2>1 DEF TypeOK
  <2>3. DataPhase'
    BY <1>1, <1>4, <1>5, <1>6, <1>9, <2>1, <2>2 DEF DataPhase, Span, Continue
  <2> QED  BY <1>7, <2>1, <2>2, <2>3
<1>10. CASE k = hw.n /\ nexus \notin Writes
  <2>1. offset' = -1 /\ PioStop  BY <1>3, <1>10
  <2>2. stop' \in {"NONE", "PEND", "AUTO", "ISSUED"}
    BY <2>1 DEF PioStop, IssueStop, TypeOK
  <2>3. Touched
    BY <1>1, <1>4, <2>1, <2>2, RequestAssumption DEF Touched, TypeOK, FlagsOK, bounds
  <2> QED  BY <1>1, <1>4, <1>5, <1>10, <2>1, <2>3, PioStopKeeps
<1> QED  BY <1>3, <1>4, <1>8, <1>9, <1>10

\* A request that is marked is stopped.
LEMMA MarkKeeps ==
    ASSUME Inv, MarkAndStop, state = "DATA", phase = "ready", nexus # None,
           moved' \in [Requests -> SUBSET (Nat \X Nat)],
           \A q \in Requests : q # nexus => moved'[q] = moved[q],
           errors' \in 0 .. MaxErrors, plugs' = plugs
    PROVE  Inv'
<1> USE DEF Inv
<1>1. /\ IssueStop /\ retry' = 0 /\ Others /\ offset' = offset
      /\ check' = check \cup {nexus} /\ blamed' = blamed \cup {nexus}
  BY DEF MarkAndStop
<1>2. nexus \in Requests  BY DEF TypeOK
<1>3. open' \in BOOLEAN  BY DEF MarkAndStop
<1>4. Touched
  BY <1>1, <1>2, <1>3, RequestAssumption DEF Touched, TypeOK, IssueStop
<1> QED  BY <1>1, <1>2, <1>4, StopKeeps, RequestAssumption DEF IssueStop

LEMMA DataErrorKeeps == ASSUME Inv, DataError PROVE Inv'
<1> USE DEF Inv
<1>1. /\ hw.op = "data" /\ hw.armed = "all" /\ state = "DATA" /\ nexus # None
      /\ Faulty /\ MarkAndStop
  BY DEF DataError, Irq
<1>2. PICK k \in 0 .. hw.n - 1 : Moved(IF pio THEN 0 ELSE k)  BY DEF DataError
<1>3. hw.n \in Nat  BY DEF TypeOK
<1>4. /\ nexus \in Requests /\ phase = "ready"
      /\ moved' \in [Requests -> SUBSET (Nat \X Nat)]
      /\ \A q \in Requests : q # nexus => moved'[q] = moved[q]
  BY <1>1, <1>2, <1>3, MovedExtends
<1>5. errors' \in 0 .. MaxErrors /\ plugs' = plugs  BY <1>1, FaultyCounts
<1> QED  BY <1>1, <1>4, <1>5, MarkKeeps

LEMMA CommandRefusedKeeps == ASSUME Inv, CommandRefused PROVE Inv'
<1>1. /\ hw.op = "refused" /\ state = "DATA" /\ nexus # None
      /\ MarkAndStop /\ UNCHANGED <<moved, bounds>>
  BY DEF CommandRefused, Irq
<1>2. phase = "ready" /\ errors' \in 0 .. MaxErrors /\ plugs' = plugs
      /\ moved' \in [Requests -> SUBSET (Nat \X Nat)]
  BY <1>1 DEF Inv, Linked, TypeOK, bounds
<1> QED  BY <1>1, <1>2, MarkKeeps

LEMMA DmaFailedKeeps == ASSUME Inv, DmaFailed PROVE Inv'
<1> USE DEF Inv
<1>1. /\ hw.op = "data" /\ ~pio /\ nexus # None /\ Faulty /\ Finish("err") /\ hw' = Quiet
      /\ retry' = 0 /\ blamed' = blamed \cup {nexus} /\ Others
      /\ UNCHANGED <<stop, offset, open, check>>
  BY DEF DmaFailed, Irq
<1>2. PICK k \in 0 .. hw.n - 1 : Moved(k)  BY DEF DmaFailed
<1>3. hw.n \in Nat /\ hw.armed # "tc"  BY <1>1 DEF TypeOK, DataPhase
<1>4. /\ nexus \in Requests
      /\ moved' \in [Requests -> SUBSET (Nat \X Nat)]
      /\ \A q \in Requests : q # nexus => moved'[q] = moved[q]
  BY <1>1, <1>2, <1>3, MovedExtends
<1>5. Touched
  BY <1>1, <1>4, FaultyCounts, RequestAssumption DEF Touched, TypeOK, FlagsOK
<1> QED  BY <1>1, <1>5, FinishKeeps DEF Done

LEMMA StopDoneKeeps == ASSUME Inv, StopDone PROVE Inv'
<1> USE DEF Inv
<1>1. /\ hw.op = "stop" /\ state = "DATA" /\ nexus # None
      /\ retry' = 0 /\ Others /\ UNCHANGED <<check, hist, bounds>>
  BY DEF StopDone, Irq
<1>2. nexus \in Requests /\ phase = "ready"  BY <1>1 DEF Linked, TypeOK
<1>3. ASSUME stop' \in {"NONE", "PEND", "AUTO", "ISSUED"}, open' \in BOOLEAN,
             offset' \in Nat \cup {-1}
      PROVE  Touched
  BY <1>1, <1>3, RequestAssumption DEF Touched, TypeOK, hist, bounds
<1>4. CASE nexus \in check
  <2>1. Finish("err") /\ hw' = Quiet /\ stop' = "NONE" /\ open' = FALSE /\ offset' = offset
    BY <1>4 DEF StopDone
  <2>2. Touched  BY <1>3, <2>1 DEF TypeOK
  <2> QED  BY <2>1, <2>2, FinishKeeps DEF Done
<1>5. CASE nexus \notin check /\ pio
  <2>1. Finish("cmp") /\ hw' = Quiet /\ stop' = "NONE" /\ open' = FALSE /\ offset' = offset
    BY <1>5 DEF StopDone
  <2>2. moved'[nexus] = Span(nexus, Size[nexus])  BY <1>1, <1>5 DEF StopPhase, hist
  <2>3. Touched  BY <1>3, <2>1 DEF TypeOK
  <2> QED  BY <2>1, <2>2, <2>3, FinishKeeps DEF Done
<1>6. CASE nexus \notin check /\ ~pio
  <2>1. DmaRw("NONE")  BY <1>6 DEF StopDone
  <2>2. offset \in Nat /\ offset <= Size[nexus] /\ moved'[nexus] = Span(nexus, offset)
    BY <1>1, <1>6 DEF StopPhase, hist
  <2>3. CASE offset = Size[nexus]
    <3>1. Finish("cmp") /\ hw' = Quiet /\ stop' = "NONE" /\ open' \in BOOLEAN /\ offset' = offset
      BY <2>1, <2>3 DEF DmaRw
    <3>2. Touched  BY <1>3, <2>2, <3>1
    <3> QED  BY <2>2, <2>3, <3>1, <3>2, FinishKeeps DEF Done
  <2>4. CASE offset # Size[nexus]
    <3>1. SendRw(nexus, offset) /\ Continue  BY <2>1, <2>4 DEF DmaRw
    <3>2. offset < Size[nexus]  BY <1>2, <2>2, <2>4, RequestAssumption
    <3>3. Touched  BY <1>2, <1>3, <2>2, <3>1, <3>2, SendRwStarts
    <3> QED  BY <1>1, <1>2, <2>2, <3>1, <3>2, <3>3, SendKeeps
  <2> QED  BY <2>3, <2>4
<1> QED  BY <1>4, <1>5, <1>6

LEMMA StopErrorKeeps == ASSUME Inv, StopError PROVE Inv'
<1> USE DEF Inv
<1>1. /\ hw.op = "stop" /\ state = "DATA" /\ nexus # None /\ retry' = retry + 1
      /\ blamed' = blamed \cup {nexus} /\ Others /\ UNCHANGED <<offset, open, check, moved>>
  BY DEF StopError, Irq
<1>2. nexus \in Requests /\ retry \in Nat /\ retry <= StopRetry + 1
  BY <1>1, RequestAssumption DEF Linked, TypeOK
<1>3. errors' \in 0 .. MaxErrors /\ plugs' = plugs
  BY FaultyCounts DEF StopError, bounds, TypeOK
<1>4. CASE retry > StopRetry
  <2>1. Finish("err") /\ stop' = "NONE" /\ hw' = Quiet  BY <1>2, <1>4, RequestAssumption DEF StopError
  <2>2. Touched
    BY <1>1, <1>2, <1>3, <2>1, RequestAssumption DEF Touched, TypeOK, FlagsOK
  <2> QED  BY <2>1, <2>2, FinishKeeps DEF Done
<1>5. CASE retry <= StopRetry
  <2>1. Continue /\ stop' = stop /\ hw' = hw  BY <1>2, <1>5, RequestAssumption DEF StopError
  <2>2. UNCHANGED <<pio, auto, kick, queue, pc, present, phase, removal, run>>
    BY <1>1 DEF Others, mode, world
  <2>3. FlagsOK'  BY <1>1, <2>2 DEF TypeOK, FlagsOK
  <2>4. TypeOK'
    BY <1>1, <1>2, <1>3, <1>5, <2>1, <2>2, <2>3, RequestAssumption DEF TypeOK, Done, Continue
  <2>5. Linked'  BY <1>1, <1>2, <1>5, <2>1, <2>2, RequestAssumption DEF Linked, Continue
  <2>6. DataPhase' /\ StopPhase'
    BY <1>1, <2>1, <2>2 DEF DataPhase, StopPhase, Span, Continue
  <2>7. CompleteTransfer'  BY <1>1, <2>1 DEF CompleteTransfer, Span, Continue
  <2> QED  BY <2>4, <2>5, <2>6, <2>7
<1> QED  BY <1>2, <1>4, <1>5, RequestAssumption

(***************************************************************************)
(* The theorems.                                                           *)
(***************************************************************************)
LEMMA InitInv == Init => Inv
<1> SUFFICES ASSUME Init PROVE Inv  OBVIOUS
<1>1. FlagsOK  BY RequestAssumption DEF Init, LifeInit, FlagsOK
<1>2. TypeOK  BY <1>1, RequestAssumption DEF Init, LifeInit, Slot!Init, Slot!Phases, TypeOK, Done, Quiet
<1> QED  BY <1>2 DEF Init, LifeInit, Inv, Linked, DataPhase, StopPhase, CompleteTransfer, Quiet

LEMMA StutterInv == ASSUME Inv, UNCHANGED vars PROVE Inv'
<1> USE DEF Inv, vars, mode, client, ext, ctrl, world, hist, bounds
<1>1. FlagsOK'  BY Zenon DEF TypeOK, FlagsOK
<1>2. TypeOK'  BY <1>1 DEF TypeOK, Done
<1> QED  BY <1>2 DEF Linked, DataPhase, StopPhase, CompleteTransfer, Span

LEMMA NextInv == ASSUME Inv, LifeInv, Next PROVE Inv'
BY EnqueueKeeps, TakeEnqueueKeeps, StartNoneKeeps, StartNextKeeps, DmaDataKeeps, PioReadyKeeps,
   PioCompleteKeeps, StopDoneKeeps, DataErrorKeeps, CommandRefusedKeeps, LostErrorKeeps, DmaFailedKeeps,
   StopErrorKeeps, PlugKeeps, TickKeeps, ControlKeeps, IdentEndsKeeps, IdentDoneKeeps, IdentFailedKeeps
   DEF Next, Clients, Starting, Data, Faults, Ident

\* An interrupt of a transfer uses the state while the card is in use.
LEMMA DataServes == ASSUME Inv, Data \/ Faults PROVE Serves
<1>1. /\ state = "DATA" /\ hw.op # "idle" /\ UNCHANGED world
      /\ state' = "IDLE" \/ state' = state
  BY DEF Data, DmaData, PioReady, PioComplete, StopDone, DmaRw, PioStop, Faults, DataError, CommandRefused,
         MarkAndStop, LostError, DmaFailed, StopError, Irq, Others, IssueStop, Continue, Finish, ext
<1> QED  BY <1>1 DEF Inv, Linked, Serves, world

\* A step of the requests is a step in the life of the slot, or leaves it alone.
LEMMA NextLife == ASSUME Inv, [Next]_vars PROVE [LifeNext]_life
<1>1. CASE Data \/ Faults
  BY <1>1, DataServes DEF LifeNext
<1>2. CASE Clients \/ TakeEnqueue \/ StartNone \/ UNCHANGED vars
  BY <1>2 DEF Clients, Enqueue, TakeEnqueue, StartNone, vars, ext, world, life
<1>3. CASE StartNext
  <2>1. UNCHANGED world /\ state # "DATA"
    BY <1>3 DEF StartNext, Inv, Linked
  <2>2. CASE UNCHANGED state
    BY <2>1, <2>2 DEF world, life
  <2>3. CASE state' # state
    <3>1. state # "IDENT" /\ Execute(Head(queue), phase = "ready")
      BY <1>3, <2>3 DEF StartNext
    <3>2. state = "IDLE" /\ state' = "DATA" /\ phase = "ready"
      BY <2>1, <2>3, <3>1 DEF Execute, Reply, Inv, TypeOK
    <3> QED
      BY <2>1, <3>2 DEF Serves, LifeNext, world
  <2> QED  BY <2>2, <2>3
<1>4. CASE Plug \/ Tick \/ Control
  BY <1>4 DEF Plug, Tick, MediaCheck, Unmoved, Control, CardRemoval, CardInsertion, LifeNext
<1>5. CASE Ident
  BY <1>5 DEF Ident, IdentEnds, IdentDone, IdentFailed, LifeNext
<1> QED  BY <1>1, <1>2, <1>3, <1>4, <1>5 DEF Next, Starting

\* The invariant of the requests and that of the slot's life go together.
LEMMA Invariant == Spec => [](Inv /\ LifeInv)
<1>1. Init => Inv /\ LifeInv  BY InitInv, InitSound DEF Init
<1>2. Inv /\ LifeInv /\ [Next]_vars => (Inv /\ LifeInv)'
  BY NextInv, StutterInv, NextLife, StepSound
<1> QED  BY <1>1, <1>2, PTL DEF Spec

\* Every variable of the driver stays within its type; the retries of a stop
\* command are bounded although their counter is static and outlives a request.
THEOREM Typing == Spec => []TypeOK
<1>1. Inv => TypeOK  BY DEF Inv
<1> QED  BY Invariant, <1>1, PTL

\* Once the card has its verdict, the controller works for the request in
\* progress, or there is none and the next one does not wait.
Attended ==
    /\ phase = "ready" /\ nexus # None => hw.op # "idle"
    /\ phase = "invalid" => nexus = None /\ state # "IDENT"

\* An execution ends with an answer, or with the controller at work.
LEMMA ExecuteAttends ==
    ASSUME NEW r, NEW ready, Execute(r, ready)
    PROVE  /\ nexus' = None \/ hw'.op # "idle"
           /\ ~ready => nexus' = None
           /\ state' # "IDENT"
<1>1. CASE Reply(r, ready) = "active"
  BY <1>1 DEF Execute, SendRw, Reply
<1>2. CASE Reply(r, ready) # "active"
  BY <1>2 DEF Execute
<1> QED  BY <1>1, <1>2

LEMMA NextAttended == ASSUME Inv, LifeInv, Attended, Next PROVE Attended'
<1> USE DEF Inv
<1>1. CASE Clients \/ TakeEnqueue \/ StartNone
  BY <1>1 DEF Clients, Enqueue, TakeEnqueue, StartNone, ext, ctrl, world, Attended
<1>2. CASE StartNext
  <2>1. phase' = phase  BY <1>2 DEF StartNext, world
  <2>2. CASE phase \in {"ready", "invalid"}
    <3>1. state # "IDENT"  BY <2>2 DEF LifeInv, Attended
    <3>2. Execute(Head(queue), phase = "ready")  BY <1>2, <3>1 DEF StartNext
    <3> QED  BY <2>1, <2>2, <3>2, ExecuteAttends DEF Attended
  <2> QED  BY <2>1, <2>2 DEF Attended
<1>3. CASE Plug \/ Control \/ IdentEnds
  <2>1. UNCHANGED <<phase, nexus, hw>>
    BY <1>3 DEF Plug, Control, CardRemoval, CardInsertion, IdentEnds, Bystanders, Move, Withdraws, Starts,
                StartsNot, Ends, Fails, ext, ctrl
  <2>2. state' = state \/ phase \notin {"ready", "invalid"}
    BY <1>3 DEF Plug, Control, CardRemoval, CardInsertion, IdentEnds, Move, Withdraws, Starts,
                StartsNot, Ends, Fails, LifeInv
  <2> QED  BY <2>1, <2>2 DEF Attended
<1>4. CASE Tick
  BY <1>4 DEF Tick, MediaCheck, Unmoved, Found, Lost, Slot!Detect, Slot!Lose, ctrl, ext, life,
              Attended
<1>5. CASE IdentDone
  <2>1. phase' = "ready"  BY <1>5 DEF IdentDone, Accepts, Slot!Accept
  <2>2. nexus' = None \/ hw'.op # "idle"  BY <1>5, ExecuteAttends DEF IdentDone
  <2> QED  BY <2>1, <2>2 DEF Attended
<1>6. CASE IdentFailed
  <2>1. nexus' = None /\ state' = "IDLE"  BY <1>6 DEF IdentFailed, Finish, Failed
  <2> QED  BY <2>1 DEF Attended
<1>7. CASE Data \/ Faults
  <2>1. phase' = phase /\ phase = "ready"
    BY <1>7, DataServes DEF Serves, Data, DmaData, PioReady, PioComplete, StopDone, Faults, DataError,
                            CommandRefused, MarkAndStop, LostError, DmaFailed, StopError, Others, world
  <2>2. nexus' = None \/ hw'.op # "idle"
    <3>1. CASE Finish("cmp") \/ Finish("err")
      BY <3>1 DEF Finish
    <3>2. CASE IssueStop
      BY <3>2 DEF IssueStop, Stop, Quiet
    <3>3. CASE SendRw(nexus, offset)
      <4>1. hw'.op = IF open /\ hw.op # "stop" THEN "refused" ELSE "data"
        BY <3>3 DEF SendRw
      <4> QED  BY <4>1
    <3>4. CASE PioReady /\ ~PioStop
      <4>1. hw.op = "data"  BY <3>4 DEF PioReady, Irq
      <4>2. PICK k \in 1 .. hw.n :
                \/ hw' = [hw EXCEPT !.pos = @ + k, !.blk = @ + k, !.n = @ - k, !.armed = "ready"]
                \/ hw' = [hw EXCEPT !.n = 0, !.armed = "tc"]
        BY <3>4 DEF PioReady
      <4> QED  BY <4>1, <4>2 DEF TypeOK
    <3>5. CASE LostError \/ (StopError /\ UNCHANGED hw)
      BY <3>5 DEF LostError, StopError, Irq, TypeOK
    <3> QED
      BY <1>7, <3>1, <3>2, <3>3, <3>4, <3>5
        DEF Data, DmaData, DmaRw, PioComplete, PioStop, StopDone, Faults, DataError, CommandRefused,
            MarkAndStop, DmaFailed, StopError
  <2> QED  BY <2>1, <2>2 DEF Attended
<1> QED
  BY <1>1, <1>2, <1>3, <1>4, <1>5, <1>6, <1>7 DEF Next, Starting, Ident

\* What a step does to the requests: one joins the queue, the next one is taken
\* from it, the one in progress goes on or is answered, or nothing.
Joins ==
    /\ \E r \in Requests : status[r] = "new" /\ Post(r, "queued") /\ queue' = Append(queue, r)
    /\ UNCHANGED nexus
Taken ==
    /\ nexus = None /\ queue # <<>> /\ queue' = Tail(queue)
    /\ \E s \in Done \cup {"active"} :
        Post(Head(queue), s) /\ nexus' = IF s = "active" THEN Head(queue) ELSE None
Served ==
    /\ nexus # None /\ UNCHANGED queue
    /\ \E s \in Done \cup {"active"} : Post(nexus, s) /\ nexus' = IF s = "active" THEN nexus ELSE None

\* Every step is one of these.
LEMMA StepServes ==
    ASSUME Inv, [Next]_vars PROVE Joins \/ Taken \/ Served \/ UNCHANGED <<status, queue, nexus>>
<1> USE DEF Inv
<1>1. CASE Clients
  BY <1>1 DEF Clients, Enqueue, Joins, Post, ext
<1>2. CASE TakeEnqueue \/ StartNone \/ Plug \/ Tick \/ Control \/ IdentEnds \/ UNCHANGED vars
  BY <1>2 DEF TakeEnqueue, StartNone, Plug, Tick, Control, CardRemoval, CardInsertion, IdentEnds,
              Bystanders, client, ext, vars
<1>3. ASSUME NEW r, NEW ready, Execute(r, ready)
      PROVE  \E s \in Done \cup {"active"} : Post(r, s) /\ nexus' = IF s = "active" THEN r ELSE None
  BY <1>3 DEF Execute, Reply, Done
<1>4. CASE StartNext
  <2>1. nexus = None /\ queue # <<>> /\ queue' = Tail(queue)
    BY <1>4 DEF StartNext
  <2>2. CASE Execute(Head(queue), phase = "ready")
    BY <1>3, <2>1, <2>2 DEF Taken
  <2>3. CASE nexus' = Head(queue) /\ Post(Head(queue), "active")
    BY <2>1, <2>3 DEF Taken
  <2> QED  BY <1>4, <2>2, <2>3 DEF StartNext
<1>5. CASE IdentDone \/ IdentFailed
  <2>1. UNCHANGED queue
    BY <1>5 DEF IdentDone, IdentFailed
  <2>2. \/ UNCHANGED <<status, nexus>>
        \/ nexus # None /\ Execute(nexus, TRUE)
        \/ nexus # None /\ Finish("err")
    BY <1>5 DEF IdentDone, IdentFailed
  <2>3. ASSUME nexus # None, Execute(nexus, TRUE) PROVE Served
    <3>1. \E s \in Done \cup {"active"} : Post(nexus, s) /\ nexus' = IF s = "active" THEN nexus ELSE None
      BY <2>3 DEF Execute, Reply, Done
    <3> QED  BY <2>1, <2>3, <3>1 DEF Served
  <2>4. ASSUME nexus # None, Finish("err") PROVE Served
    BY <2>1, <2>4 DEF Served, Finish, Done
  <2> QED  BY <2>1, <2>2, <2>3, <2>4
<1>6. CASE Data \/ Faults
  <2>1. nexus # None /\ UNCHANGED queue
    BY <1>6 DEF Data, DmaData, PioReady, PioComplete, StopDone, Faults, DataError, CommandRefused,
                MarkAndStop, LostError, DmaFailed, StopError, Irq, Others
  <2>2. UNCHANGED <<status, nexus>> \/ Finish("cmp") \/ Finish("err")
    BY <1>6 DEF Data, DmaData, PioReady, PioComplete, StopDone, Faults, DataError, CommandRefused,
                MarkAndStop, LostError, DmaFailed, StopError, PioStop, DmaRw, IssueStop, Continue, ext
  <2> QED  BY <2>1, <2>2 DEF Served, Finish, Done
<1> QED  BY <1>1, <1>2, <1>4, <1>5, <1>6 DEF Next, Starting, Ident

\* No request that was taken is forgotten: the one in progress is the only one.
Single == \A r \in Requests : status[r] = "active" => r = nexus

LEMMA StaysSingle == ASSUME Inv, Single, [Next]_vars PROVE Single'
<1> USE DEF Inv, TypeOK, Single, Post
<1>1. CASE Joins
  BY <1>1 DEF Joins
<1>2. CASE Taken
  <2>1. Head(queue) \in Requests
    BY <1>2 DEF Taken
  <2>2. \A r \in Requests : status[r] # "active"
    BY <1>2, RequestAssumption DEF Taken
  <2> QED  BY <1>2, <2>1, <2>2 DEF Taken
<1>3. CASE Served
  BY <1>3 DEF Served
<1>4. CASE UNCHANGED <<status, queue, nexus>>
  BY <1>4
<1> QED  BY <1>1, <1>2, <1>3, <1>4, StepServes

LEMMA Remaining == Spec => []Single
<1>1. Init => Single
  BY DEF Init, Single
<1> QED
  BY <1>1, StaysSingle, Invariant, PTL DEF Spec

\* The controller works only for the request in progress (mmc_process_interrupt
\* never meets an interrupt in another state, or without a request), no request
\* that was taken is forgotten, and while a card is in the slot, the one in
\* progress always has a command, an identification or the poll that finds the
\* card ahead of it: what is left of "no request hangs" without time.
THEOREM Working == Spec => []WorksForNexus
<1>1. Init => Attended
  BY DEF Init, LifeInit, Slot!Init, Attended
<1>2. Inv /\ LifeInv /\ Attended /\ [Next]_vars => Attended'
  <2>1. ASSUME Attended, UNCHANGED vars PROVE Attended'
    BY <2>1 DEF Attended, vars, ext, ctrl, world
  <2> QED
    BY <2>1, NextAttended
<1>3. Inv /\ LifeInv /\ Single /\ Attended => WorksForNexus
  BY DEF Inv, TypeOK, Slot!Phases, Linked, LifeInv, Underway, Single, Attended, WorksForNexus
<1> QED
  BY <1>1, <1>2, <1>3, Invariant, Remaining, PTL DEF Spec

\* A request is reported complete only after all its blocks moved between their
\* own places (mmc_dma_rw, mmc_pio_rw), whatever errors, retries and removals
\* came in between.
THEOREM Completing == Spec => []CompleteTransfer
<1>1. Inv => CompleteTransfer  BY DEF Inv
<1> QED  BY Invariant, <1>1, PTL

\* Whoever is executed is answered with an error only if it is to blame for it.
LEMMA ExecuteBlames ==
    ASSUME TypeOK, FailsForCauseOrMark, NEW r \in Requests, NEW ready \in BOOLEAN,
           Execute(r, ready)
    PROVE  FailsForCauseOrMark'
<1>1. status' = [status EXCEPT ![r] = Reply(r, ready)] /\ check' = check
  BY DEF Execute, Post
<1>2. blamed' = IF Reply(r, ready) = "err" THEN blamed \cup {r} ELSE blamed \ {r}
  BY DEF Execute
<1>3. ASSUME NEW q \in Requests, status'[q] = "err" PROVE q \in blamed' \cup check'
  <2>1. CASE q = r   BY <1>1, <1>2, <1>3, <2>1 DEF TypeOK
  <2>2. CASE q # r   BY <1>1, <1>2, <1>3, <2>2 DEF TypeOK, FailsForCauseOrMark
  <2> QED  BY <2>1, <2>2
<1> QED  BY <1>3 DEF FailsForCauseOrMark

\* Requests that are posted as complete, or not posted, blame nobody.
LEMMA OthersBlame ==
    ASSUME TypeOK, FailsForCauseOrMark, blamed \subseteq blamed', check \subseteq check',
           \A q \in Requests : status'[q] = "err" => status[q] = "err" \/ q \in blamed' \cup check'
    PROVE  FailsForCauseOrMark'
BY DEF FailsForCauseOrMark

LEMMA NextBlames ==
    ASSUME Inv, FailsForCauseOrMark, Next
    PROVE  FailsForCauseOrMark'
<1> USE DEF Inv
<1>1. CASE Clients \/ TakeEnqueue \/ StartNone \/ Plug \/ Tick \/ Control \/ LostError \/ IdentEnds
  <2>1. UNCHANGED <<blamed, check>>
    BY <1>1 DEF Clients, Enqueue, TakeEnqueue, StartNone, Plug, Tick, Control, CardRemoval,
                CardInsertion, LostError, IdentEnds, Bystanders, ext, hist
  <2>2. \A q \in Requests : status'[q] = "err" => status[q] = "err"
    <3>1. CASE Clients
      BY <3>1 DEF Clients, Enqueue, TypeOK
    <3>2. CASE TakeEnqueue \/ StartNone \/ Plug \/ Tick \/ Control \/ LostError \/ IdentEnds
      BY <3>2 DEF TakeEnqueue, StartNone, Plug, Tick, Control, CardRemoval, CardInsertion,
                  LostError, IdentEnds, Bystanders, client
    <3> QED  BY <1>1, <3>1, <3>2
  <2> QED  BY <2>1, <2>2, OthersBlame
<1>2. CASE StartNext
  <2>1. Head(queue) \in Requests  BY <1>2 DEF StartNext, TypeOK
  <2>2. CASE Execute(Head(queue), phase = "ready")
    BY <2>1, <2>2, ExecuteBlames
  <2>3. CASE state = "IDENT"
    <3>1. Post(Head(queue), "active") /\ UNCHANGED <<check, hist>>
      BY <1>2, <2>3 DEF StartNext
    <3> QED  BY <3>1, OthersBlame DEF Post, hist, TypeOK
  <2> QED  BY <1>2, <2>2, <2>3 DEF StartNext
<1>3. CASE IdentDone
  <2>1. CASE nexus = None
    BY <1>3, <2>1, OthersBlame DEF IdentDone, hist
  <2>2. CASE nexus # None
    <3>1. Execute(nexus, TRUE) /\ nexus \in Requests  BY <1>3, <2>2 DEF IdentDone, TypeOK
    <3> QED  BY <3>1, ExecuteBlames
  <2> QED  BY <2>1, <2>2
<1>4. CASE IdentFailed
  <2>1. UNCHANGED check  BY <1>4 DEF IdentFailed
  <2>2. CASE nexus = None
    BY <1>4, <2>1, <2>2, OthersBlame DEF IdentFailed
  <2>3. CASE nexus # None
    <3>1. Finish("err") /\ blamed' = blamed \cup {nexus}  BY <1>4, <2>3 DEF IdentFailed
    <3> QED  BY <2>1, <3>1, OthersBlame DEF Finish, Post, TypeOK
  <2> QED  BY <2>2, <2>3
<1>5. CASE DmaData
  <2>1. UNCHANGED <<check, blamed>>  BY <1>5 DEF DmaData
  <2>2. status' = status \/ Finish("cmp")
    BY <1>5 DEF DmaData, IssueStop, DmaRw, Continue
  <2> QED  BY <2>1, <2>2, OthersBlame DEF Finish, Post, TypeOK
<1>6. CASE PioReady \/ PioComplete
  <2>1. UNCHANGED <<check, blamed>>  BY <1>6 DEF PioReady, PioComplete, hist
  <2>2. status' = status \/ Finish("cmp")
    BY <1>6 DEF PioReady, PioComplete, PioStop, IssueStop, Continue
  <2> QED  BY <2>1, <2>2, OthersBlame DEF Finish, Post, TypeOK
<1>7. CASE StopDone
  <2>1. UNCHANGED <<check, blamed>>  BY <1>7 DEF StopDone, hist
  <2>2. \/ status' = status \/ Finish("cmp")
        \/ Finish("err") /\ nexus \in check
    BY <1>7 DEF StopDone, DmaRw, Continue
  <2> QED  BY <2>1, <2>2, OthersBlame DEF Finish, Post, TypeOK
<1>8. CASE DataError \/ CommandRefused
  <2>1. /\ check' = check \cup {nexus} /\ blamed' = blamed \cup {nexus}
        /\ status' = status
    BY <1>8 DEF DataError, CommandRefused, MarkAndStop, IssueStop, Continue
  <2> QED  BY <2>1, OthersBlame
<1>9. CASE DmaFailed \/ StopError
  <2>1. /\ blamed' = blamed \cup {nexus} /\ check' = check
        /\ status' = status \/ Finish("err")
    BY <1>9 DEF DmaFailed, StopError, Continue
  <2> QED  BY <2>1, OthersBlame DEF Finish, Post, TypeOK
<1> QED
  BY <1>1, <1>2, <1>3, <1>4, <1>5, <1>6, <1>7, <1>8, <1>9
  DEF Next, Starting, Data, Faults, Ident

\* A request that failed met an error, in its last execution or in an earlier
\* one that marked it (mmc_data_irq): no request fails for the error of another.
THEOREM Blaming == Spec => []FailsForCauseOrMark
<1>1. Init => FailsForCauseOrMark  BY DEF Init, FailsForCauseOrMark
<1>2. Inv /\ FailsForCauseOrMark /\ [Next]_vars => FailsForCauseOrMark'
  <2>1. ASSUME FailsForCauseOrMark, UNCHANGED vars PROVE FailsForCauseOrMark'
    BY <2>1 DEF FailsForCauseOrMark, vars, client, ext, hist
  <2> QED  BY <2>1, NextBlames
<1> QED  BY <1>1, <1>2, Invariant, PTL DEF Spec

(***************************************************************************)
(* A refused transfer.                                                     *)
(***************************************************************************)
Failure == \E r \in Requests : status[r] = "err"

\* The requests in the queue are fresh, and each is in it once: a verdict is
\* never taken back.
Lined == \A i, j \in 1 .. Len(queue) :
    status[queue[i]] = "queued" /\ (queue[i] = queue[j] => i = j)

\* A transfer the card has open is stopped at its end, or was left by a failure.
Left == open /\ hw.op # "stop" =>
    Failure \/ (stop = "PEND" /\ hw.op \in {"data", "dead"})

Behind == Lined /\ Left /\ RefusedBehindFailure

\* A step that posts at most the request in progress keeps the queue as it is,
\* and the verdicts.
LEMMA PostKeeps ==
    ASSUME TypeOK, Linked, Lined, UNCHANGED queue, NEW s \in Done \cup {"active"},
           status' = status \/ (nexus # None /\ Post(nexus, s))
    PROVE  Lined' /\ (Failure => Failure')
<1>1. \A r \in Requests : status'[r] = status[r] \/ status[r] = "active"
  BY DEF TypeOK, Linked, Post
<1>2. Failure => Failure'
  BY <1>1 DEF Failure
<1>3. \A i \in 1 .. Len(queue) : queue[i] \in Requests
  BY DEF TypeOK
<1> QED
  BY <1>1, <1>2, <1>3 DEF Lined

\* The head of the queue is started: what is left is in the queue as before.
LEMMA TakenKeeps ==
    ASSUME TypeOK, Lined, queue # <<>>, queue' = Tail(queue),
           NEW s \in Done \cup {"active"}, Post(Head(queue), s)
    PROVE  Lined' /\ (Failure => Failure')
<1>1. /\ Head(queue) = queue[1] /\ Head(queue) \in Requests /\ Len(queue) \in Nat \ {0}
      /\ status[Head(queue)] = "queued"
  BY DEF TypeOK, Lined
<1>2. \A r \in Requests : r # Head(queue) => status'[r] = status[r]
  BY DEF TypeOK, Post
<1>3. Failure => Failure'
  BY <1>1, <1>2 DEF Failure
<1>4. Len(queue') = Len(queue) - 1 /\ \A i \in 1 .. Len(queue') : queue'[i] = queue[i + 1]
  BY DEF TypeOK
<1>5. ASSUME NEW i \in 1 .. Len(queue'), NEW j \in 1 .. Len(queue')
      PROVE  status'[queue'[i]] = "queued" /\ (queue'[i] = queue'[j] => i = j)
  <2>1. i + 1 \in 1 .. Len(queue) /\ j + 1 \in 1 .. Len(queue) /\ 1 \in 1 .. Len(queue) /\ i + 1 # 1
    BY <1>1, <1>4
  <2>2. queue[i + 1] # queue[1] /\ status[queue[i + 1]] = "queued"
    BY <2>1 DEF Lined
  <2>3. queue[i + 1] \in Requests
    BY <2>1 DEF TypeOK
  <2>4. queue[i + 1] = queue[j + 1] => i + 1 = j + 1
    BY <2>1 DEF Lined
  <2> QED
    BY <1>1, <1>2, <1>4, <2>2, <2>3, <2>4
<1> QED
  BY <1>3, <1>5 DEF Lined

\* A request that is new joins the queue.
LEMMA EnqueueBehind == ASSUME TypeOK, Behind, NEW r \in Requests, Enqueue(r) PROVE Behind'
<1>1. /\ status[r] = "new" /\ status' = [status EXCEPT ![r] = "queued"]
      /\ queue' = Append(queue, r) /\ UNCHANGED <<open, hw, stop>>
  BY DEF Enqueue, ctrl, ext
<1>2. Failure => Failure'
  BY <1>1 DEF Failure, TypeOK
<1>3. /\ Len(queue') = Len(queue) + 1 /\ queue'[Len(queue) + 1] = r /\ Len(queue) \in Nat
      /\ \A i \in 1 .. Len(queue) : queue'[i] = queue[i] /\ queue[i] \in Requests
  BY <1>1 DEF TypeOK
<1>4. \A i \in 1 .. Len(queue) : queue[i] # r
  BY <1>1 DEF Behind, Lined
<1>5. ASSUME NEW i \in 1 .. Len(queue'), NEW j \in 1 .. Len(queue')
      PROVE  status'[queue'[i]] = "queued" /\ (queue'[i] = queue'[j] => i = j)
  <2>1. i \in 1 .. Len(queue) \/ i = Len(queue) + 1
    BY <1>3
  <2>2. j \in 1 .. Len(queue) \/ j = Len(queue) + 1
    BY <1>3
  <2>3. status'[queue'[i]] = "queued"
    BY <1>1, <1>3, <2>1 DEF Behind, Lined, TypeOK
  <2>4. queue'[i] = queue'[j] => i = j
    BY <1>3, <1>4, <2>1, <2>2 DEF Behind, Lined
  <2> QED
    BY <2>3, <2>4
<1> QED
  BY <1>1, <1>2, <1>5 DEF Behind, Left, RefusedBehindFailure, Lined, Failure

\* A transfer is refused, or started in an open one, only behind a failure; and
\* it opens another only where a stop command is pending for it.
LEMMA SendBehind ==
    ASSUME TypeOK, NEW r, NEW off, SendRw(r, off), Failure => Failure',
           open /\ hw.op # "stop" => Failure
    PROVE  Left' /\ RefusedBehindFailure'
<1>1. hw'.op = IF open /\ hw.op # "stop" THEN "refused" ELSE "data"
  BY DEF SendRw
<1>2. open' /\ ~(open /\ hw.op # "stop") => stop' = "PEND"
  BY DEF SendRw
<1> QED
  BY <1>1, <1>2 DEF Left, RefusedBehindFailure, Failure

\* A request is executed while the controller is idle.
LEMMA ExecuteBehind ==
    ASSUME TypeOK, Left, RefusedBehindFailure, NEW r, NEW ready, Execute(r, ready), hw.op = "idle",
           Failure => Failure'
    PROVE  Left' /\ RefusedBehindFailure'
<1>1. open => Failure
  BY DEF Left
<1>2. CASE SendRw(r, 0)
  BY <1>1, <1>2, SendBehind
<1>3. CASE UNCHANGED ctrl
  BY <1>1, <1>3 DEF ctrl, Left, RefusedBehindFailure, Failure
<1> QED
  BY <1>2, <1>3 DEF Execute

\* The next piece is sent, or all are done.
LEMMA PieceBehind ==
    ASSUME TypeOK, NEW then, DmaRw(then), Failure => Failure', open /\ hw.op # "stop" => Failure
    PROVE  Left' /\ RefusedBehindFailure'
<1>1. CASE SendRw(nexus, offset)
  BY <1>1, SendBehind
<1>2. CASE hw' = Quiet /\ open' = (open /\ hw.op # "stop")
  BY <1>2 DEF Left, RefusedBehindFailure, Quiet, Failure
<1> QED
  BY <1>1, <1>2 DEF DmaRw

\* A step ends with a stop command, or with the card left alone and idle.
LEMMA EndBehind ==
    ASSUME Failure => Failure',
           \/ hw' = Stop
           \/ hw' = Quiet /\ (open' => Failure')
    PROVE  Left' /\ RefusedBehindFailure'
<1>1. CASE hw' = Stop
  <2>1. hw'.op = "stop"
    BY <1>1 DEF Stop, Quiet
  <2> QED
    BY <2>1 DEF Left, RefusedBehindFailure
<1>2. CASE hw' = Quiet /\ (open' => Failure')
  <2>1. hw'.op = "idle"
    BY <1>2 DEF Quiet
  <2> QED
    BY <1>2, <2>1 DEF Left, RefusedBehindFailure
<1> QED
  BY <1>1, <1>2

\* A piece of the transfer ends well.
LEMMA DataBehind == ASSUME Inv, Behind, Data PROVE Behind'
<1> USE DEF Inv
<1>1. Lined' /\ (Failure => Failure')
  <2>1. /\ UNCHANGED queue
        /\ nexus # None
        /\ status' = status \/ Post(nexus, "cmp") \/ Post(nexus, "err")
    BY DEF Data, DmaData, PioReady, PioComplete, StopDone, PioStop, DmaRw, IssueStop, Continue,
           Finish, Others, Irq
  <2> QED
    BY <2>1, PostKeeps DEF Behind, Done
<1>2. hw.op = "data" /\ stop # "PEND" /\ open => Failure
  BY DEF Behind, Left
<1>3. Left' /\ RefusedBehindFailure'
  <2>1. CASE DmaData
    <3>1. CASE IssueStop
      BY <3>1, <1>1, EndBehind DEF IssueStop
    <3>2. CASE stop # "PEND" /\ DmaRw(stop)
      BY <3>2, <2>1, <1>1, <1>2, PieceBehind DEF DmaData, Irq
    <3> QED
      BY <2>1, <3>1, <3>2 DEF DmaData
  <2>2. CASE StopDone
    <3>1. CASE hw' = Quiet /\ open' = FALSE
      BY <3>1, <1>1, EndBehind
    <3>2. CASE DmaRw("NONE")
      BY <3>2, <2>2, <1>1, PieceBehind DEF StopDone, Irq
    <3> QED
      BY <2>2, <3>1, <3>2 DEF StopDone
  <2>3. ASSUME hw.op = "data", PioStop, UNCHANGED open PROVE Left' /\ RefusedBehindFailure'
    <3>1. hw' = Stop \/ (hw' = Quiet /\ stop # "PEND")
      BY <2>3 DEF PioStop, IssueStop
    <3> QED
      BY <3>1, <2>3, <1>1, <1>2, EndBehind
  <2>4. CASE PioComplete
    BY <2>4, <2>3 DEF PioComplete, Irq
  <2>5. CASE PioReady
    <3>1. hw.op = "data" /\ UNCHANGED open
      BY <2>5 DEF PioReady, Irq
    <3>2. PICK k \in 1 .. hw.n :
            \/ /\ hw' = [hw EXCEPT !.pos = @ + k, !.blk = @ + k, !.n = @ - k, !.armed = "ready"]
               /\ UNCHANGED stop
            \/ hw' = [hw EXCEPT !.n = 0, !.armed = "tc"] /\ UNCHANGED stop
            \/ PioStop
      BY <2>5 DEF PioReady
    <3>3. CASE PioStop
      BY <3>1, <3>3, <2>3
    <3>4. CASE ~PioStop
      <4>1. UNCHANGED stop /\ hw'.op = "data"
        BY <3>1, <3>2, <3>4 DEF TypeOK
      <4> QED
        BY <3>1, <4>1, <1>1 DEF Behind, Left, RefusedBehindFailure
    <3> QED
      BY <3>3, <3>4
  <2> QED
    BY <2>1, <2>2, <2>4, <2>5 DEF Data
<1> QED
  BY <1>1, <1>3 DEF Behind

\* It ends with an error.
LEMMA FaultsBehind == ASSUME Inv, Behind, Faults PROVE Behind'
<1> USE DEF Inv
<1>1. Lined' /\ (Failure => Failure')
  <2>1. /\ UNCHANGED queue
        /\ nexus # None
        /\ status' = status \/ Post(nexus, "err")
    BY DEF Faults, DataError, CommandRefused, LostError, DmaFailed, StopError, MarkAndStop,
           IssueStop, Continue, Finish, Others, Irq
  <2> QED
    BY <2>1, PostKeeps DEF Behind, Done
<1>2. ASSUME nexus # None, Post(nexus, "err") PROVE Failure'
  BY <1>2 DEF Post, Failure, TypeOK
<1>3. Left' /\ RefusedBehindFailure'
  <2>1. CASE DataError \/ CommandRefused
    BY <2>1, <1>1, EndBehind DEF DataError, CommandRefused, MarkAndStop, IssueStop
  <2>2. CASE LostError
    <3>1. hw'.op = "dead" /\ hw.op = "data" /\ UNCHANGED <<stop, open>>
      BY <2>2 DEF LostError, Irq, ext, TypeOK
    <3> QED
      BY <3>1, <1>1 DEF Behind, Left, RefusedBehindFailure
  <2>3. CASE DmaFailed
    BY <2>3, <1>1, <1>2, EndBehind DEF DmaFailed, Finish, Irq
  <2>4. CASE StopError
    <3>1. CASE Finish("err") /\ hw' = Quiet
      BY <2>4, <3>1, <1>1, <1>2, EndBehind DEF StopError, Finish, Irq
    <3>2. CASE UNCHANGED hw
      BY <2>4, <3>2, <1>1 DEF StopError, Irq, Left, RefusedBehindFailure
    <3> QED
      BY <2>4, <3>1, <3>2 DEF StopError
  <2> QED
    BY <2>1, <2>2, <2>3, <2>4 DEF Faults
<1> QED
  BY <1>1, <1>3 DEF Behind

\* The next request is taken from the queue.
LEMMA StartNextBehind == ASSUME Inv, Behind, StartNext PROVE Behind'
<1> USE DEF Inv
<1>1. queue # <<>> /\ queue' = Tail(queue) /\ hw.op = "idle"
  BY DEF StartNext, Linked, TypeOK
<1>2. CASE Post(Head(queue), "active") /\ UNCHANGED <<stop, ctrl>>
  <2>1. Lined' /\ (Failure => Failure')
    BY <1>1, <1>2, TakenKeeps DEF Behind
  <2> QED
    BY <2>1, <1>2 DEF Behind, Left, RefusedBehindFailure, Failure, ctrl
<1>3. CASE Execute(Head(queue), phase = "ready")
  <2>1. \E s \in Done \cup {"active"} : Post(Head(queue), s)
    BY <1>3 DEF Execute, Reply, Done
  <2>2. Lined' /\ (Failure => Failure')
    BY <1>1, <2>1, TakenKeeps DEF Behind
  <2> QED
    BY <2>2, <1>1, <1>3, ExecuteBehind DEF Behind
<1> QED
  BY <1>2, <1>3 DEF StartNext

\* An identification ends, and with it the wait of a request for the card.
LEMMA IdentBehind == ASSUME Inv, LifeInv, Behind, IdentDone \/ IdentFailed PROVE Behind'
<1> USE DEF Inv
<1>1. UNCHANGED queue /\ hw.op = "idle"
  BY DEF IdentDone, IdentFailed, Accepts, Failed, LifeInv, Linked, TypeOK
<1>2. CASE UNCHANGED <<stop, ctrl>> /\ (status' = status \/ (nexus # None /\ Post(nexus, "err")))
  <2>1. Lined' /\ (Failure => Failure')
    BY <1>1, <1>2, PostKeeps DEF Behind, Done
  <2> QED
    BY <2>1, <1>2 DEF Behind, Left, RefusedBehindFailure, Failure, ctrl
<1>3. CASE nexus # None /\ Execute(nexus, TRUE)
  <2>1. \E s \in Done \cup {"active"} : Post(nexus, s)
    BY <1>3 DEF Execute, Reply, Done
  <2>2. Lined' /\ (Failure => Failure')
    BY <1>1, <1>3, <2>1, PostKeeps DEF Behind
  <2> QED
    BY <2>2, <1>1, <1>3, ExecuteBehind DEF Behind
<1> QED
  BY <1>2, <1>3 DEF IdentDone, IdentFailed, Finish, ctrl

\* The rest leaves requests and their transfers alone, but for a card that is
\* gone, whose power goes with it.
LEMMA RestBehind ==
    ASSUME Inv, Behind,
           TakeEnqueue \/ StartNone \/ Plug \/ Tick \/ Control \/ IdentEnds \/ UNCHANGED vars
    PROVE  Behind'
<1>1. UNCHANGED <<status, queue, stop>>
  BY DEF TakeEnqueue, StartNone, Plug, Tick, Control, CardRemoval, CardInsertion, IdentEnds, Bystanders,
         client, ext, vars
<1>2. Lined' /\ (Failure <=> Failure')
  BY <1>1 DEF Behind, Lined, Failure
<1>3. UNCHANGED <<hw, open>> \/ (hw' = Quiet /\ open' = FALSE)
  BY DEF TakeEnqueue, StartNone, Plug, Tick, MediaCheck, Unmoved, Control, CardRemoval, CardInsertion,
         IdentEnds, Bystanders, ctrl, vars
<1> QED
  BY <1>1, <1>2, <1>3, EndBehind DEF Behind, Left, RefusedBehindFailure

\* All of it together is inductive.
LEMMA Leaving == Spec => []Behind
<1>1. Init => Behind
  BY DEF Init, Behind, Lined, Left, RefusedBehindFailure, Quiet
<1>2. Inv /\ LifeInv /\ Behind /\ [Next]_vars => Behind'
  BY EnqueueBehind, DataBehind, FaultsBehind, StartNextBehind, IdentBehind, RestBehind
  DEF Next, Clients, Starting, Ident, Inv
<1> QED
  BY <1>1, <1>2, Invariant, PTL DEF Spec

\* A card refuses a transfer only behind a request that failed and left it open
\* (mmc_data_irq giving up a stop command, mmc_dma_irq): whatever ends well is
\* stopped, for any requests, chunks and errors.
THEOREM Refusing == Spec => []RefusedBehindFailure
<1>1. Behind => RefusedBehindFailure
  BY DEF Behind
<1> QED
  BY <1>1, Leaving, PTL

(***************************************************************************)
(* When the mark of an error outlives the execution it belongs to.         *)
(***************************************************************************)
\* A card is out of the slot only if the user touched it, and a request is marked
\* while its card is in use: without that card there was a removal, and with
\* another one a second visit of the user.  Only requests that were taken are
\* marked.
Marks ==
    /\ ~present /\ phase # "empty" => plugs # 0
    /\ check # {} /\ phase # "ready" => plugs # 0 /\ (present => plugs >= 2)
    /\ \A r \in check : status[r] \notin {"new", "queued"}

\* As long as the user touched the slot at most once, a mark is as good as the
\* error it was set for.
Fresh == plugs < 2 => check \subseteq blamed /\ FailsForCause

LEMMA ExecuteCauses ==
    ASSUME TypeOK, FailsForCause, NEW r \in Requests, NEW ready, Execute(r, ready),
           check \subseteq blamed, r \notin check
    PROVE  check' \subseteq blamed' /\ FailsForCause'
<1>1. status' = [status EXCEPT ![r] = Reply(r, ready)] /\ check' = check
  BY DEF Execute, Post
<1>2. blamed' = IF Reply(r, ready) = "err" THEN blamed \cup {r} ELSE blamed \ {r}
  BY DEF Execute
<1> QED  BY <1>1, <1>2 DEF FailsForCause, TypeOK

\* What is marked was taken, and stays so.
LEMMA TakenStays ==
    ASSUME TypeOK, \A r \in check : status[r] \notin {"new", "queued"},
           check' \subseteq check \cup {q \in Requests : status'[q] \notin {"new", "queued"}},
           \A r \in Requests : status[r] \notin {"new", "queued"} => status'[r] \notin {"new", "queued"}
    PROVE  \A r \in check' : status'[r] \notin {"new", "queued"}
BY DEF TypeOK

\* Whoever is posted with an error is to blame for it.
LEMMA OthersCause ==
    ASSUME TypeOK, check \subseteq blamed, FailsForCause, blamed \subseteq blamed',
           check' \subseteq check \cup blamed',
           \A q \in Requests : status'[q] = "err" => status[q] = "err" \/ q \in blamed'
    PROVE  check' \subseteq blamed' /\ FailsForCause'
BY DEF FailsForCause

\* The transfers: a request is marked for an error it met.
LEMMA DataCauses == ASSUME Inv, Marks, Fresh, Data \/ Faults PROVE Marks' /\ Fresh'
<1> USE DEF Inv
<1>1. /\ phase = "ready" /\ UNCHANGED world /\ plugs' = plugs /\ nexus \in Requests
      /\ status[nexus] = "active"
  <2>1. Others /\ nexus # None
    BY DEF Data, DmaData, PioReady, PioComplete, StopDone, Faults, DataError, CommandRefused, MarkAndStop,
           LostError, DmaFailed, StopError, Irq
  <2>2. plugs' = plugs
    BY DEF Data, DmaData, PioReady, PioComplete, StopDone, Faults, DataError, CommandRefused,
           LostError, DmaFailed, StopError, Faulty, bounds
  <2> QED  BY <2>1, <2>2, DataServes DEF Serves, Others, Linked, TypeOK
<1>2. /\ status' = status \/ Post(nexus, "cmp") \/ Post(nexus, "err")
      /\ check' = check \/ check' = check \cup {nexus}
  BY DEF Data, DmaData, PioReady, PioComplete, StopDone, Faults, DataError, CommandRefused, MarkAndStop,
         LostError, DmaFailed, StopError, PioStop, DmaRw, IssueStop, Continue, Finish, ext
<1>3. \A r \in check' : status'[r] \notin {"new", "queued"}
  BY <1>1, <1>2, TakenStays DEF Marks, Post, TypeOK
<1>4. Marks'
  BY <1>1, <1>3 DEF Marks, world
<1>5. ASSUME check \subseteq blamed PROVE /\ blamed \subseteq blamed' /\ check' \subseteq check \cup blamed'
                                          /\ status' = status \/ Post(nexus, "cmp") \/ nexus \in blamed'
  <2>1. CASE DmaData \/ PioReady \/ PioComplete
    <3>1. UNCHANGED <<blamed, check>>
      BY <2>1 DEF DmaData, PioReady, PioComplete, hist
    <3>2. status' = status \/ Finish("cmp")
      BY <2>1 DEF DmaData, PioReady, PioComplete, PioStop, DmaRw, IssueStop, Continue
    <3> QED  BY <3>1, <3>2 DEF Finish
  <2>2. CASE StopDone
    <3>1. UNCHANGED <<blamed, check>> /\ (status' = status \/ Finish("cmp") \/ nexus \in check)
      BY <2>2 DEF StopDone, DmaRw, Continue, hist
    <3> QED  BY <1>5, <3>1 DEF Finish
  <2>3. CASE DataError \/ CommandRefused \/ DmaFailed \/ StopError
    BY <2>3 DEF DataError, CommandRefused, DmaFailed, StopError, MarkAndStop
  <2>4. CASE LostError
    BY <2>4 DEF LostError, ext, hist
  <2> QED  BY <2>1, <2>2, <2>3, <2>4 DEF Data, Faults
<1>6. ASSUME plugs < 2 PROVE check' \subseteq blamed' /\ FailsForCause'
  <2>1. \A q \in Requests : status'[q] = "err" => status[q] = "err" \/ q \in blamed'
    BY <1>1, <1>2, <1>5, <1>6 DEF Fresh, Post, TypeOK
  <2> QED  BY <1>5, <1>6, <2>1, OthersCause DEF Fresh
<1> QED  BY <1>1, <1>4, <1>6 DEF Fresh

\* The next request has no mark yet.
LEMMA StartNextCauses == ASSUME Inv, Lined, Marks, Fresh, StartNext PROVE Marks' /\ Fresh'
<1> USE DEF Inv
<1> DEFINE r == Head(queue)
<1>1. r \in Requests /\ status[r] = "queued" /\ r \notin check
  BY DEF StartNext, TypeOK, Lined, Marks
<1>2. UNCHANGED <<world, plugs, check>> /\ \E s \in Done \cup {"active"} : Post(r, s)
  BY DEF StartNext, Execute, Reply, bounds, Done
<1> HIDE DEF r
<1>3. Marks'
  <2>1. \A q \in check' : status'[q] \notin {"new", "queued"}
    BY <1>1, <1>2, TakenStays DEF Marks, Post, TypeOK, Done
  <2> QED  BY <1>2, <2>1 DEF Marks, world
<1>4. ASSUME plugs < 2 PROVE check' \subseteq blamed' /\ FailsForCause'
  <2>1. CASE Execute(r, phase = "ready")
    BY <1>1, <1>4, <2>1, ExecuteCauses DEF Fresh
  <2>2. CASE Post(r, "active") /\ UNCHANGED hist
    <3>1. \A q \in Requests : status'[q] = "err" => status[q] = "err"
      BY <1>1, <2>2 DEF Post, TypeOK
    <3> QED  BY <1>2, <1>4, <2>2, <3>1, OthersCause DEF Fresh, hist
  <2> QED  BY <2>1, <2>2 DEF StartNext, r
<1> QED  BY <1>2, <1>3, <1>4 DEF Fresh

\* A request that waited is executed: with a mark, the user came twice.
LEMMA IdentCauses == ASSUME Inv, LifeInv, Marks, Fresh, IdentDone \/ IdentFailed PROVE Marks' /\ Fresh'
<1> USE DEF Inv
<1>1. UNCHANGED <<present, plugs, check>>
  BY DEF IdentDone, IdentFailed, Accepts, Failed, Execute, bounds
<1>2. nexus # None => nexus \in Requests /\ status[nexus] = "active"
  BY DEF TypeOK, Linked
<1>3. CASE IdentDone
  <2>1. phase = "identifying" /\ phase' = "ready" /\ present
    BY <1>3 DEF IdentDone, Accepts, Slot!Accept
  <2>2. status' = status \/ (nexus # None /\ \E s \in Done \cup {"active"} : Post(nexus, s))
    BY <1>3 DEF IdentDone, Execute, Reply, Done
  <2>3. \A q \in check' : status'[q] \notin {"new", "queued"}
    BY <1>1, <1>2, <2>2, TakenStays DEF Marks, Post, TypeOK, Done
  <2>4. ASSUME plugs < 2 PROVE check' \subseteq blamed' /\ FailsForCause'
    <3>1. check = {}
      BY <2>1, <2>4 DEF Marks, TypeOK
    <3>2. CASE nexus = None
      BY <1>1, <1>3, <2>4, <3>2 DEF IdentDone, Fresh, FailsForCause, hist
    <3>3. CASE nexus # None
      <4>1. Execute(nexus, TRUE)  BY <1>3, <3>3 DEF IdentDone
      <4> QED  BY <1>2, <2>4, <3>1, <3>3, <4>1, ExecuteCauses DEF Fresh
    <3> QED  BY <3>2, <3>3
  <2> QED  BY <1>1, <2>1, <2>3, <2>4 DEF Marks, Fresh
<1>4. CASE IdentFailed
  <2>1. phase # "ready" /\ phase' # "ready" /\ (~present => phase' = "empty")
    BY <1>4 DEF IdentFailed, Failed, LifeInv, Slot!Reject
  <2>2. \/ UNCHANGED <<status, blamed>>
        \/ nexus # None /\ Post(nexus, "err") /\ blamed' = blamed \cup {nexus}
    BY <1>4 DEF IdentFailed, Finish
  <2>3. \A q \in check' : status'[q] \notin {"new", "queued"}
    BY <1>1, <1>2, <2>2, TakenStays DEF Marks, Post, TypeOK
  <2>4. ASSUME plugs < 2 PROVE check' \subseteq blamed' /\ FailsForCause'
    <3>1. \A q \in Requests : status'[q] = "err" => status[q] = "err" \/ q \in blamed'
      BY <1>2, <2>2 DEF Post, TypeOK
    <3> QED  BY <1>1, <2>2, <2>4, <3>1, OthersCause DEF Fresh
  <2> QED  BY <1>1, <2>1, <2>3, <2>4 DEF Marks, Fresh
<1> QED  BY <1>3, <1>4

\* The rest neither executes nor posts a request.
LEMMA RestCauses ==
    ASSUME Inv, Marks, Fresh,
           Clients \/ TakeEnqueue \/ StartNone \/ Plug \/ Tick \/ Control \/ IdentEnds \/ UNCHANGED vars
    PROVE  Marks' /\ Fresh'
<1> USE DEF Inv
<1>1. UNCHANGED <<check, blamed>>
  BY DEF Clients, Enqueue, TakeEnqueue, StartNone, Plug, Tick, Control, CardRemoval, CardInsertion,
         IdentEnds, Bystanders, ext, hist, vars
<1>2. /\ \A q \in Requests : status[q] \notin {"new", "queued"} => status'[q] = status[q]
      /\ \A q \in Requests : status'[q] = "err" => status[q] = "err"
  <2>1. CASE Clients
    BY <2>1 DEF Clients, Enqueue, TypeOK
  <2>2. CASE UNCHANGED status
    BY <2>2
  <2> QED
    BY <2>1, <2>2 DEF TakeEnqueue, StartNone, Plug, Tick, Control, CardRemoval, CardInsertion, IdentEnds,
                      Bystanders, client, vars
<1>3. \A q \in check' : status'[q] \notin {"new", "queued"}
  BY <1>1, <1>2 DEF Marks, TypeOK
<1>4. ASSUME plugs < 2 PROVE check' \subseteq blamed' /\ FailsForCause'
  BY <1>1, <1>2, <1>4 DEF Fresh, FailsForCause
<1>5. CASE Plug
  <2>1. plugs' = plugs + 1 /\ phase' = phase /\ plugs \in Nat
    BY <1>5, RequestAssumption DEF Plug, Move, TypeOK
  <2> QED  BY <1>1, <1>3, <1>4, <2>1 DEF Marks, Fresh
<1>6. CASE ~Plug
  <2>1. plugs' = plugs /\ present' = present
    BY <1>6 DEF Clients, Enqueue, TakeEnqueue, StartNone, Tick, MediaCheck, Unmoved, Found, Lost, Control,
                CardRemoval, CardInsertion, IdentEnds, Withdraws, Starts, StartsNot, Ends, Fails,
                Bystanders, bounds, world, life, vars
  <2>2. \/ phase' = phase
        \/ present /\ phase = "empty" /\ phase' = "identifying"
        \/ ~present /\ phase # "empty" /\ phase' = "empty"
    BY <1>6 DEF Clients, Enqueue, TakeEnqueue, StartNone, Tick, MediaCheck, Unmoved, Found, Lost, Control,
                CardRemoval, CardInsertion, IdentEnds, Withdraws, Starts, StartsNot, Ends, Fails, world,
                life, vars, Slot!Detect, Slot!Lose
  <2> QED  BY <1>1, <1>3, <1>4, <2>1, <2>2 DEF Marks, Fresh
<1> QED  BY <1>5, <1>6

\* No request fails for nothing (mmc_data_irq) as long as the user does not bring
\* a card back: it takes a removal in the middle of a stop command and another
\* card to execute a request that is still marked.
THEOREM Causing == Spec => [](plugs < 2 => FailsForCause)
<1>1. Init => Lined /\ Marks /\ Fresh
  BY DEF Init, LifeInit, Slot!Init, Lined, Marks, Fresh, FailsForCause
<1>2. Inv /\ LifeInv /\ Behind /\ Marks /\ Fresh /\ [Next]_vars => (Marks /\ Fresh)'
  BY DataCauses, StartNextCauses, IdentCauses, RestCauses DEF Next, Starting, Ident, Behind
<1>3. Fresh => (plugs < 2 => FailsForCause)
  BY DEF Fresh
<1> QED
  BY <1>1, <1>2, <1>3, Invariant, Leaving, PTL DEF Spec

\* A request that is executed starts with every interrupt enabled, or not at all.
LEMMA ExecuteSees ==
    ASSUME NEW r, NEW ready, Execute(r, ready), ErrorsSeen PROVE ErrorsSeen'
<1>1. UNCHANGED hw \/ SendRw(r, 0)
  BY DEF Execute, ctrl
<1> QED  BY <1>1 DEF SendRw, ErrorsSeen

\* With DMA they stay enabled until the transfer is stopped or ends.
LEMMA TransferSees == ASSUME Inv, ~pio, ErrorsSeen, Data \/ Faults PROVE ErrorsSeen'
<1>0. Stop.op # "dead" /\ Quiet.op # "dead"
  BY DEF Stop, Quiet
<1>1. ~LostError
  <2>1. hw.op = "data" => hw.armed = "all"
    BY DEF Inv, DataPhase
  <2> QED  BY <2>1 DEF LostError, Irq
<1>2. CASE DmaData \/ StopDone
  <2>1. hw' = Stop \/ hw' = Quiet \/ SendRw(nexus, offset)
    BY <1>2 DEF DmaData, StopDone, DmaRw, IssueStop
  <2> QED  BY <1>0, <2>1 DEF ErrorsSeen, SendRw
<1>3. CASE PioReady \/ PioComplete
  <2>1. CASE PioReady
    BY <2>1 DEF PioReady
  <2>2. CASE PioComplete
    BY <1>0, <2>2 DEF PioComplete, PioStop, IssueStop, ErrorsSeen
  <2> QED  BY <1>3, <2>1, <2>2
<1>4. CASE DataError \/ CommandRefused \/ DmaFailed \/ StopError
  <2>1. hw' = Stop \/ hw' = Quiet \/ hw' = hw
    BY <1>4 DEF DataError, CommandRefused, DmaFailed, StopError, MarkAndStop, IssueStop
  <2> QED  BY <1>0, <2>1 DEF ErrorsSeen
<1> QED  BY <1>1, <1>2, <1>3, <1>4 DEF Data, Faults

\* Without the option "pio" no data error stays unseen: between the command and
\* the end of its data phase all error interrupts are enabled (omap3_command).
THEOREM Seeing == Spec => [](~pio => ErrorsSeen)
<1>1. Init => (~pio => ErrorsSeen)
  BY DEF Init, ErrorsSeen, Quiet
<1>2. Inv /\ (~pio => ErrorsSeen) /\ [Next]_vars => (~pio => ErrorsSeen)'
  <2> SUFFICES ASSUME Inv, ~pio => ErrorsSeen, [Next]_vars, ~pio' PROVE ErrorsSeen'
    OBVIOUS
  <2>1. CASE Data \/ Faults
    <3>1. UNCHANGED pio
      BY <2>1 DEF Data, DmaData, PioReady, PioComplete, StopDone, Faults, DataError, CommandRefused,
                  MarkAndStop, LostError, DmaFailed, StopError, Others, mode
    <3> QED  BY <2>1, <3>1, TransferSees
  <2>2. CASE StartNext \/ IdentDone
    <3>1. ErrorsSeen
      BY <2>2 DEF StartNext, IdentDone, mode
    <3>2. UNCHANGED hw \/ Execute(Head(queue), phase = "ready") \/ Execute(nexus, TRUE)
      BY <2>2 DEF StartNext, IdentDone, ctrl
    <3> QED  BY <3>1, <3>2, ExecuteSees DEF ErrorsSeen
  <2>3. CASE Clients \/ TakeEnqueue \/ StartNone \/ Plug \/ Tick \/ Control \/ IdentEnds
             \/ IdentFailed \/ UNCHANGED vars
    <3>1. UNCHANGED pio /\ (hw' = hw \/ hw' = Quiet)
      BY <2>3 DEF Clients, Enqueue, TakeEnqueue, StartNone, Plug, Tick, MediaCheck, Unmoved, Control,
                  CardRemoval, CardInsertion, IdentEnds, IdentFailed, Bystanders, mode, ctrl, vars
    <3> QED  BY <3>1 DEF ErrorsSeen, Quiet
  <2> QED  BY <2>1, <2>2, <2>3 DEF Next, Starting, Ident
<1> QED
  BY <1>1, <1>2, Invariant, PTL DEF Spec

\* Requests are taken in the order they came, one at a time, none is forgotten and
\* each is answered once (simq_ccb_enqueue and its use in mmc_start_ccb, posting in
\* mmc_process_interrupt), whatever happens to the card.
THEOREM Serving == Spec => Service!SafeSpec
<1>1. Init => Service!Init
  BY DEF Init, Service!Init
<1>2. Inv /\ Behind /\ Single /\ [Next]_vars => [Service!Next]_<<status, queue>>
  <2> SUFFICES ASSUME Inv, Behind, Single, [Next]_vars
               PROVE  Service!Next \/ UNCHANGED <<status, queue>>
    OBVIOUS
  <2> USE DEF Inv, Post, Done
  <2>1. CASE Joins
    BY <2>1 DEF Joins, Service!Next, Service!Submit, Service!Becomes
  <2>2. CASE Taken
    <3>1. Head(queue) \in Requests /\ status[Head(queue)] = "queued"
      BY <2>2 DEF Taken, Behind, Lined, TypeOK
    <3>2. \A r \in Requests : status[r] # "active"
      BY <2>2, RequestAssumption DEF Taken, Single
    <3> QED  BY <2>2, <3>1, <3>2 DEF Taken, Service!Next, Service!Take, Service!Becomes
  <2>3. CASE Served
    <3>1. nexus \in Requests /\ status[nexus] = "active"
      BY <2>3 DEF Served, TypeOK, Linked
    <3>2. PICK s \in Done \cup {"active"} : status' = [status EXCEPT ![nexus] = s]
      BY <2>3 DEF Served
    <3>3. CASE s = "active"
      BY <2>3, <3>1, <3>2, <3>3 DEF Served, TypeOK
    <3>4. CASE s \in Done
      BY <2>3, <3>1, <3>2, <3>4 DEF Served, Service!Next, Service!Answer, Service!Becomes
    <3> QED  BY <3>2, <3>3, <3>4
  <2> QED  BY <2>1, <2>2, <2>3, StepServes
<1> QED
  BY <1>1, <1>2, Invariant, Leaving, Remaining, PTL DEF Spec, Service!SafeSpec

\* The life of the slot the requests see is the one the identification keeps
\* (module SlotLife, which MmcIdent implements).
THEOREM Refining == Spec => LifeSpec
<1>1. Init => LifeInit
  BY DEF Init
<1>2. Inv /\ [Next]_vars => [LifeNext]_life
  BY NextLife
<1> QED
  BY <1>1, <1>2, Invariant, PTL DEF Spec, LifeSpec

\* So a verdict about a card is only taken back by taking the card out.
THEOREM Standing == Spec => Slot!SafeSpec
  BY Refining, Promised, PTL
=============================================================================
