----------------------------- MODULE MmcRequest -----------------------------
(***************************************************************************)
(* devb-mmcsd: how a read or write request gets from the SIM queue to the  *)
(* card and back.  The driver thread takes one request at a time (nexus),  *)
(* starts its transfer and is woken by the interrupts of the controller,   *)
(* by the pulse of a new request and by the timer that polls the slot.     *)
(*                                                                         *)
(* The identification of the card appears here as what module MmcIdent is  *)
(* shown to do to the slot (module SlotLife): each of its actions is taken *)
(* together with what it means to the requests.  The queue (simq) is a     *)
(* library; the controller and the card are the environment.  Transfers    *)
(* are counted in blocks.                                                  *)
(***************************************************************************)
EXTENDS Integers, Sequences, SlotLife

CONSTANTS
    Requests,       \* the requests the clients make
    Size,            \* blocks each of them moves; 0: answered at once
    At,             \* the card block it starts at
    MaxChunk,       \* blocks the setup_dma of the chipset takes at once
    StopRetry,      \* the 5 of mmc_data_irq: stop commands sent again
    Writes,         \* which of them are writes
    PioOptions,     \* which values of the option "pio" are tried
    DmaErrors,      \* whether the DMA channel fails too
    MaxErrors,      \* bound: errors on the bus
    MaxPlugs        \* bound: how often the user touches the slot

None == "none"

ASSUME RequestAssumption ==
    /\ Size \in [Requests -> Nat] /\ At \in [Requests -> Nat]
    /\ MaxChunk \in Nat \ {0} /\ StopRetry \in Nat
    /\ Writes \subseteq Requests /\ PioOptions \subseteq BOOLEAN
    /\ DmaErrors \in BOOLEAN /\ None \notin Requests
    /\ MaxErrors \in Nat /\ MaxPlugs \in Nat

VARIABLES
    pio, auto,  \* the options "pio" and (not) "noac12"
    status,     \* cam_status of each request
    check,      \* the requests whose cam_scsi_status is SCS_CHECK
    queue,      \* the SIM queue
    kick,       \* a SIM_ENQUEUE pulse is on the channel
    pc,         \* the driver thread: waiting for a pulse, or in mmc_start_ccb
    nexus, stop, offset, retry,     \* ext, and the static stops_retry
    hw,         \* the command the controller works on
    open,       \* the card is in a multiple block transfer nobody stopped
    moved,      \* history: <<buffer block, card block>> moved for each request
    blamed,     \* history: requests whose present execution met an error
    errors, plugs

mode   == <<pio, auto>>
client == <<status, queue, kick>>
ext    == <<nexus, state, stop, offset, retry, check>>
ctrl   == <<hw, open>>
world  == <<present, phase, removal, run>>
hist   == <<moved, blamed>>
bounds == <<errors, plugs>>
vars   == <<mode, client, ext, pc, ctrl, world, hist, bounds>>

Done == {"cmp", "err"}

\* hw: the first buffer block and card block of the data phase, its blocks not
\* moved yet, and which interrupts are enabled.
Quiet == [op |-> "idle", pos |-> 0, blk |-> 0, n |-> 0, armed |-> "no"]
Stop  == [Quiet EXCEPT !.op = "stop", !.armed = "all"]

Init ==
    /\ pio \in PioOptions /\ auto \in BOOLEAN
    /\ status = [r \in Requests |-> "new"] /\ check = {}
    /\ queue = <<>> /\ kick = FALSE /\ pc = "receive"
    /\ nexus = None /\ stop = "NONE" /\ offset = 0 /\ retry = 0
    /\ hw = Quiet /\ open = FALSE
    /\ LifeInit
    /\ moved = [r \in Requests |-> {}] /\ blamed = {}
    /\ errors = 0 /\ plugs = 0

(***************************************************************************)
(* The clients.                                                            *)
(***************************************************************************)
Enqueue(r) ==           \* mmc_sim_action(), XPT_SCSI_IO
    /\ status[r] = "new"
    /\ status' = [status EXCEPT ![r] = "queued"]
    /\ queue' = Append(queue, r) /\ kick' = TRUE
    /\ UNCHANGED <<mode, ext, pc, ctrl, world, hist, bounds>>

(***************************************************************************)
(* Starting a transfer.                                                    *)
(***************************************************************************)
Min2(a, b) == IF a < b THEN a ELSE b

\* setup_dma() or setup_pio(), and mmc_send_rwcmd().  A card that is still in
\* an earlier transfer refuses the command.
SendRwKeepsBlock(r, off) ==
    LET n == IF pio THEN Size[r] - off ELSE Min2(MaxChunk, Size[r] - off)
    IN /\ hw' = [op |-> IF open /\ hw.op # "stop" THEN "refused" ELSE "data",
                 pos |-> off, blk |-> At[r], n |-> n, armed |-> "all"]
       /\ offset' = IF pio THEN 0 ELSE off + n
       /\ stop' = IF n = 1 THEN "NONE" ELSE IF auto THEN "AUTO" ELSE "PEND"
       /\ open' = ((n # 1 /\ ~auto) \/ (open /\ hw.op # "stop"))

SendRw(r, off) ==
    LET n == IF pio THEN Size[r] - off ELSE Min2(MaxChunk, Size[r] - off)
    IN /\ hw' = [op |-> IF open /\ hw.op # "stop" THEN "refused" ELSE "data",
                 pos |-> off, blk |-> At[r] + off, n |-> n, armed |-> "all"]
       /\ offset' = IF pio THEN 0 ELSE off + n
       /\ stop' = IF n = 1 THEN "NONE" ELSE IF auto THEN "AUTO" ELSE "PEND"
       /\ open' = ((n # 1 /\ ~auto) \/ (open /\ hw.op # "stop"))

Post(r, s) == status' = [status EXCEPT ![r] = s]

\* mmc_io_cmds() for a request that is taken, or taken up again after the card
\* was identified: what becomes of it, with or without a card in use.
Reply(r, ready) ==
    IF Size[r] = 0 THEN "cmp" ELSE IF ready THEN "active" ELSE "err"

Execute(r, ready) ==
    LET reply == Reply(r, ready)
    IN /\ Post(r, reply)
       /\ moved' = [moved EXCEPT ![r] = {}]
       /\ blamed' = IF reply = "err" THEN blamed \cup {r} ELSE blamed \ {r}
       /\ \/ /\ reply = "active"
             /\ nexus' = r /\ state' = "DATA" /\ SendRw(r, 0)
          \/ /\ reply # "active"
             /\ nexus' = None /\ state' = "IDLE"
             /\ UNCHANGED <<stop, offset, ctrl>>
       /\ UNCHANGED <<retry, check>>

(***************************************************************************)
(* mmc_start_ccb(), and the two pulses that lead to it.                    *)
(***************************************************************************)
\* The driver thread waits for a pulse, and not for the answer of detect().
Receiving == pc = "receive" /\ run # "failing"

TakeEnqueue ==
    /\ Receiving /\ kick
    /\ kick' = FALSE /\ pc' = "start"
    /\ UNCHANGED <<mode, status, queue, ext, ctrl, world, hist, bounds>>

StartNone ==            \* a request is in progress, or none is waiting
    /\ pc = "start"
    /\ nexus # None \/ queue = <<>>
    /\ pc' = "receive"
    /\ UNCHANGED <<mode, client, ext, ctrl, world, hist, bounds>>

StartNext ==
    /\ pc = "start" /\ nexus = None /\ queue # <<>>
    /\ LET r == Head(queue)
       IN \/ /\ state = "IDENT"                 \* waits for the card
             /\ nexus' = r /\ Post(r, "active")
             /\ UNCHANGED <<state, stop, offset, retry, check, ctrl, hist>>
          \/ /\ state # "IDENT"
             /\ Execute(r, phase = "ready")
    /\ queue' = Tail(queue)
    /\ pc' = IF nexus' = None THEN "start" ELSE "receive"
    /\ UNCHANGED <<mode, kick, world, bounds>>

(***************************************************************************)
(* mmc_process_interrupt() with the slot in state DATA: mmc_data_irq().    *)
(***************************************************************************)
Irq(op) == Receiving /\ state = "DATA" /\ nexus # None /\ hw.op = op

Finish(s) ==            \* the request is posted
    /\ Post(nexus, s)
    /\ nexus' = None /\ state' = "IDLE"

Continue == UNCHANGED <<status, nexus, state>>
Others   == UNCHANGED <<mode, queue, kick, pc, world>>

IssueStop == hw' = Stop /\ stop' = "ISSUED" /\ Continue

\* The blocks k of the data phase that moved since the last interrupt.
Moved(k) == moved' = [moved EXCEPT ![nexus] =
                @ \cup {<<hw.pos + i, hw.blk + i>> : i \in 0 .. k - 1}]

\* mmc_dma_rw(): "All done", or the next piece.
DmaRw(then) ==
    \/ /\ offset = Size[nexus]
       /\ Finish("cmp") /\ hw' = Quiet
       /\ stop' = then /\ open' = (open /\ hw.op # "stop") /\ UNCHANGED offset
    \/ /\ offset # Size[nexus]
       /\ SendRw(nexus, offset) /\ Continue

DmaDataLeavesOpen ==
    /\ Irq("data") /\ ~pio /\ present
    /\ Moved(hw.n) /\ retry' = 0
    /\ DmaRw(stop)
    /\ Others /\ UNCHANGED <<check, blamed, bounds>>

DmaData ==              \* transfer complete: dma_done(), mmc_dma_irq()
    /\ Irq("data") /\ ~pio /\ present
    /\ Moved(hw.n) /\ retry' = 0
    /\ \/ stop = "PEND" /\ IssueStop /\ UNCHANGED <<offset, open>>
       \/ stop # "PEND" /\ DmaRw(stop)
    /\ Others /\ UNCHANGED <<check, blamed, bounds>>

PioStop ==              \* mmc_pio_stop()
    \/ stop = "PEND" /\ IssueStop
    \/ stop # "PEND" /\ Finish("cmp") /\ hw' = Quiet /\ UNCHANGED stop

\* Buffer ready: mmc_pio_rw() moves what pio_done() finds in the FIFO.  When it
\* finds nothing more it enables the ready interrupt alone, and after the last
\* block of a write the transfer complete interrupt alone.
PioReady ==
    /\ Irq("data") /\ pio /\ present /\ hw.armed # "tc"
    /\ retry' = 0
    /\ \E k \in 1 .. hw.n :
        /\ Moved(k)
        /\ \/ /\ k < hw.n
              /\ hw' = [hw EXCEPT !.pos = @ + k, !.blk = @ + k, !.n = @ - k, !.armed = "ready"]
              /\ offset' = offset + k /\ Continue /\ UNCHANGED stop
           \/ /\ k = hw.n /\ nexus \in Writes
              /\ hw' = [hw EXCEPT !.n = 0, !.armed = "tc"]
              /\ offset' = -1 /\ Continue /\ UNCHANGED stop
           \/ /\ k = hw.n /\ nexus \notin Writes
              /\ offset' = -1 /\ PioStop
    /\ Others /\ UNCHANGED <<open, check, blamed, bounds>>

PioComplete ==          \* transfer complete of a write
    /\ Irq("data") /\ present /\ hw.armed = "tc"
    /\ PioStop /\ retry' = 0
    /\ Others /\ UNCHANGED <<offset, open, check, hist, bounds>>

\* The bus fails: at times while the card is there, always when it is not.
Faulty ==
    /\ ~present \/ errors < MaxErrors
    /\ errors' = IF present THEN errors + 1 ELSE errors
    /\ UNCHANGED plugs

\* A data error is seen while its interrupt is enabled: the transfer is stopped
\* and the request marked.
MarkAndStop ==
    /\ IssueStop /\ retry' = 0
    /\ check' = check \cup {nexus} /\ blamed' = blamed \cup {nexus}
    /\ open' = (open \/ stop # "NONE")
    /\ Others /\ UNCHANGED offset

DataError ==
    /\ Irq("data") /\ hw.armed = "all" /\ Faulty
    /\ \E k \in 0 .. hw.n - 1 : Moved(IF pio THEN 0 ELSE k)
    /\ MarkAndStop

CommandRefused ==
    /\ Irq("refused")
    /\ MarkAndStop /\ UNCHANGED <<moved, bounds>>

\* Otherwise nothing tells the driver that the transfer ended.
LostError ==
    /\ Irq("data") /\ hw.armed # "all" /\ Faulty
    /\ hw' = [hw EXCEPT !.op = "dead"]
    /\ Others /\ UNCHANGED <<status, ext, open, hist>>

\* dma_done() finds an error of the DMA channel: the request fails at once, and
\* nothing stops the transfer.
DmaFailed ==
    /\ DmaErrors /\ Irq("data") /\ ~pio /\ present /\ Faulty
    /\ \E k \in 0 .. hw.n - 1 : Moved(k)
    /\ Finish("err") /\ hw' = Quiet /\ retry' = 0
    /\ blamed' = blamed \cup {nexus}
    /\ Others /\ UNCHANGED <<stop, offset, open, check>>

StopDoneBlamesAny ==
    /\ Irq("stop") /\ present /\ open
    /\ retry' = 0
    /\ \/ /\ check # {}
          /\ Finish("err")
          /\ hw' = Quiet /\ stop' = "NONE" /\ open' = FALSE /\ UNCHANGED offset
       \/ /\ nexus \notin check /\ pio
          /\ Finish("cmp")
          /\ hw' = Quiet /\ stop' = "NONE" /\ open' = FALSE /\ UNCHANGED offset
       \/ nexus \notin check /\ ~pio /\ DmaRw("NONE")
    /\ Others /\ UNCHANGED <<check, hist, bounds>>

StopDone ==
    /\ Irq("stop") /\ present /\ open
    /\ retry' = 0
    /\ \/ /\ nexus \in check
          /\ Finish("err")
          /\ hw' = Quiet /\ stop' = "NONE" /\ open' = FALSE /\ UNCHANGED offset
       \/ /\ nexus \notin check /\ pio
          /\ Finish("cmp")
          /\ hw' = Quiet /\ stop' = "NONE" /\ open' = FALSE /\ UNCHANGED offset
       \/ nexus \notin check /\ ~pio /\ DmaRw("NONE")
    /\ Others /\ UNCHANGED <<check, hist, bounds>>

StopErrorForever ==
    /\ Irq("stop")
    /\ IF open THEN Faulty ELSE UNCHANGED bounds
    /\ blamed' = blamed \cup {nexus}
    /\ retry' = retry + 1
    /\ Continue /\ UNCHANGED <<stop, hw>>
    /\ Others /\ UNCHANGED <<offset, open, check, moved>>

\* A card that is in no transfer does not take the command either.
StopError ==
    /\ Irq("stop")
    /\ IF open THEN Faulty ELSE UNCHANGED bounds
    /\ blamed' = blamed \cup {nexus}
    /\ retry' = retry + 1
    /\ \/ retry > StopRetry /\ Finish("err") /\ stop' = "NONE" /\ hw' = Quiet
       \/ retry <= StopRetry /\ Continue /\ UNCHANGED <<stop, hw>>
    /\ Others /\ UNCHANGED <<offset, open, check, moved>>

(***************************************************************************)
(* The slot (SlotLife): the user, the timer of the driver thread, the      *)
(* control thread and the interrupts of an identification.                 *)
(***************************************************************************)
Plug ==
    /\ plugs < MaxPlugs /\ plugs' = plugs + 1
    /\ Move
    /\ UNCHANGED <<mode, client, ext, pc, ctrl, hist, errors>>

Unmoved == (present <=> phase # "empty") /\ UNCHANGED <<life, ctrl>>

MediaCheckKeepsPower == Unmoved \/ ((Found \/ Lost) /\ UNCHANGED ctrl)

\* mmc_media_check(): the card is found or given up.
MediaCheck ==
    \/ Unmoved
    \/ Found /\ UNCHANGED ctrl
    \/ Lost /\ hw' = Quiet /\ open' = FALSE

TickStartsNothing ==
    /\ Receiving
    /\ MediaCheck
    /\ UNCHANGED <<mode, client, ext, pc, hist, bounds>>

Tick ==                 \* SIM_TIMER; the first one stands for mmc_creat_threads() too
    /\ Receiving
    /\ MediaCheck
    /\ pc' = IF nexus = None THEN "start" ELSE "receive"
    /\ UNCHANGED <<mode, client, ext, hist, bounds>>

Bystanders == UNCHANGED <<mode, client, nexus, stop, offset, retry, check, pc, ctrl, hist, bounds>>

CardRemoval   == Withdraws /\ Bystanders
CardInsertion == (Starts \/ StartsNot) /\ Bystanders

\* An answer that ends the identification, in mmc_ident_irq() or unexpected.
IdentEnds == Receiving /\ (Fails \/ Ends) /\ Bystanders

\* The card is ready, and a request that waits for it is executed.
IdentDone ==
    /\ Receiving /\ Accepts
    /\ \/ /\ nexus = None
          /\ state' = "IDLE"
          /\ UNCHANGED <<status, nexus, stop, offset, retry, check, ctrl, hist>>
       \/ nexus # None /\ Execute(nexus, TRUE)
    /\ UNCHANGED <<mode, queue, kick, pc, bounds>>

\* The identification failed, and with it a request that waits for the card.
IdentFailed ==
    /\ Failed
    /\ IF nexus = None
       THEN UNCHANGED <<status, nexus, blamed>>
       ELSE Finish("err") /\ blamed' = blamed \cup {nexus}
    /\ UNCHANGED <<mode, queue, kick, pc, stop, offset, retry, check, ctrl, moved, bounds>>

Clients  == \E r \in Requests : Enqueue(r)
Starting == TakeEnqueue \/ StartNone \/ StartNext
Data     == DmaData \/ PioReady \/ PioComplete \/ StopDone
Faults   == DataError \/ CommandRefused \/ LostError \/ DmaFailed \/ StopError
Control  == CardRemoval \/ CardInsertion
Ident    == IdentEnds \/ IdentDone \/ IdentFailed

Next == Clients \/ Starting \/ Data \/ Faults \/ Plug \/ Tick \/ Control \/ Ident

Spec     == Init /\ [][Next]_vars
\* The driver and the control thread run, the timer ticks, and a command of the
\* controller ends, one way or the other.
FairSpec ==
    /\ Spec
    /\ WF_vars(Starting) /\ SF_vars(Tick) /\ WF_vars(Control)
    /\ SF_vars(Ident) /\ SF_vars(Data \/ Faults)

(***************************************************************************)
(* Properties                                                              *)
(***************************************************************************)
FlagsOK ==
    /\ pio \in BOOLEAN /\ auto \in BOOLEAN /\ kick \in BOOLEAN
    /\ open \in BOOLEAN /\ present \in BOOLEAN /\ removal \in BOOLEAN

TypeOK ==
    /\ FlagsOK
    /\ status \in [Requests -> {"new", "queued", "active"} \cup Done]
    /\ check \subseteq Requests /\ queue \in Seq(Requests)
    /\ pc \in {"receive", "start"} /\ nexus \in Requests \cup {None}
    /\ state \in {"IDLE", "IDENT", "DATA"} /\ stop \in {"NONE", "PEND", "AUTO", "ISSUED"}
    /\ offset \in Nat \cup {-1} /\ retry \in 0 .. StopRetry + 2
    /\ hw \in [op : {"idle", "data", "refused", "stop", "dead"}, pos : Nat, blk : Nat, n : Nat,
               armed : {"no", "all", "ready", "tc"}]
    /\ phase \in Slot!Phases /\ run \in {"none", "starting", "going", "failing"}
    /\ moved \in [Requests -> SUBSET (Nat \X Nat)] /\ blamed \subseteq Requests
    /\ errors \in 0 .. MaxErrors /\ plugs \in 0 .. MaxPlugs

Span(r, k) == {<<i, At[r] + i>> : i \in 0 .. k - 1}

\* A request that is reported complete moved every one of its blocks, between
\* its own place in the buffer and its own block of the card, and nothing else:
\* "All done" is only reached behind the last data interrupt, although the
\* offset is advanced when a piece is started.
CompleteTransfer == \A r \in Requests : status[r] = "cmp" => moved[r] = Span(r, Size[r])

\* No request fails that met no error: the mark of a data error is used up by
\* the stop command it was set for ("as a flag for us to mark the request as
\* errored when the stop completes", mmc_data_irq).
FailsForCause == \A r \in Requests : status[r] = "err" => r \in blamed

\* What holds of the failures when a marked request is executed again: it met an
\* error then, or in an earlier execution that a removal cut short.
FailsForCauseOrMark == \A r \in Requests : status[r] = "err" => r \in blamed \cup check

\* The controller works only for the request in progress, so no interrupt comes
\* unexpected or finds no request; no request that was taken is forgotten; and
\* while a card is in, the one in progress is never left alone: the controller
\* works for it, or its card is being identified, or the next poll finds the card.
WorksForNexus ==
    /\ hw.op # "idle" => nexus # None /\ status[nexus] = "active" /\ state = "DATA"
    /\ \A r \in Requests : status[r] = "active" => r = nexus
    /\ nexus # None /\ present => hw.op # "idle" \/ run # "none" \/ phase = "empty"

\* The card refuses a transfer only behind a request that failed: every transfer
\* that ends well is stopped before the next piece or the next request starts.
RefusedBehindFailure == hw.op = "refused" => \E r \in Requests : status[r] = "err"

\* No data error stays unseen: its interrupts are enabled ("Enable all data
\* error interrupts", omap3_command).
ErrorsSeen == hw.op # "dead"

\* A request hangs only while there is no card, or behind a lost error.
Finishes == \A r \in Requests :
    status[r] \in {"queued", "active"} ~> (status[r] \in Done \/ ~present \/ hw.op = "dead")

\* The driver serves its requests as RequestService promises.
Service == INSTANCE RequestService
=============================================================================
