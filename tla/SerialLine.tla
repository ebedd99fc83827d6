----------------------------- MODULE SerialLine -----------------------------
(***************************************************************************)
(* devc/seromap: the output of a serial line, tto(), its interrupt routine *)
(* ser_intr() and the change of its parameters, ser_stty().  The UART has  *)
(* three banks of registers at the same addresses, and ser_stty() works in *)
(* all of them with the interrupts enabled.  io-char, the library that     *)
(* calls tto() and takes the events, is external.                          *)
(*                                                                         *)
(* The processor is one: the thread goes on only while no interrupt is     *)
(* raised.  The timer with which io-char makes up for transmit interrupts  *)
(* that are lost (LOSES_TX_INTR) is left out: they are enough.  A          *)
(* character that comes in raises an interrupt at once, as with the lowest *)
(* trigger level.                                                          *)
(***************************************************************************)
EXTENDS Naturals, Sequences

CONSTANTS
    Scenarios,      \* which sets of disturbances are considered
    Room,           \* of each FIFO of the UART
    MaxOut,         \* bound: characters in the output buffer
    MaxIn,          \* bound: characters that come in
    MaxTurns        \* bound: changes of the clear-to-send line

AllHazards ==
    {"flow",        \* the other side stops and continues the output
     "busy"}        \* the parameters are changed while the line is in use

ASSUME SerialAssumption ==
    /\ Scenarios \subseteq SUBSET AllHazards
    /\ Room \in Nat \ {0, 1} /\ MaxOut \in Nat /\ MaxIn \in Nat /\ MaxTurns \in Nat

VARIABLES
    hazards,    \* the disturbances of this behaviour; never changes
    pc,         \* where the thread is
    obuf,       \* characters in the output buffer
    override,   \* OSW_PAGED_OVERRIDE: a control character goes first
    paged,      \* OHW_PAGED
    flags,      \* EVENT_TTO, EVENT_QUEUED
    queue,      \* how often the line is in ttyctrl.event_queue
    bank,       \* of registers: LCR is a line setting, DLAB or 0xbf
    thr,        \* OMAP_IER_THR: transmit interrupts are enabled
    txi, msr,   \* interrupts raised: the transmitter is empty, the modem changed
    tx,         \* characters in the transmit FIFO
    rx,         \* the receive FIFO: TRUE for a character with an error
    overrun,    \* OMAP_LSR_OE: a character came in while the FIFO was full
    cts, turns, \* the clear-to-send line, and how often it changed
    isr, lsr,   \* where ser_intr() is, and what it has read of LSR: whether the
                \* next character has an error, and what the overrun stands for
    came, got,  \* history: characters that came in, and that were handed on,
    lost, told, \* that were lost in overruns, and in overruns reported
    astray,     \* history: characters that were none, or marked wrongly
    slipped     \* history: characters sent after the output was stopped

io   == <<obuf, override, paged, flags, queue>>
uart == <<bank, thr, txi, msr, tx, rx, overrun, cts, turns>>
seen == <<came, got, lost, told, astray>>
vars == <<hazards, pc, io, uart, isr, lsr, seen, slipped>>

NoError == [bad |-> FALSE, lost |-> 0]

Init ==
    /\ hazards \in Scenarios
    /\ pc = "idle"
    /\ obuf = 0 /\ override = FALSE /\ paged = FALSE /\ flags = {} /\ queue = 0
    /\ bank = "data" /\ thr = FALSE /\ txi = FALSE /\ msr = FALSE
    /\ tx = 0 /\ rx = <<>> /\ overrun = FALSE /\ cts = TRUE /\ turns = 0
    /\ isr = "none" /\ lsr = NoError
    /\ came = 0 /\ got = 0 /\ lost = 0 /\ told = 0 /\ astray = {} /\ slipped = 0

Received  == rx # <<>> \/ overrun
Interrupt == Received \/ txi \/ msr

Thread(from, to) ==
    /\ ~Interrupt /\ isr = "none"
    /\ pc = from /\ pc' = to
    /\ UNCHANGED <<hazards, rx, overrun, msr, cts, turns, isr, lsr, seen>>

(***************************************************************************)
(* io-char: a character is written, a control character injected before    *)
(* the others, or the event of the interrupt routine is taken.             *)
(***************************************************************************)
Write ==
    /\ Thread("idle", "tto")
    /\ obuf < MaxOut /\ obuf' = obuf + 1
    /\ UNCHANGED <<override, paged, flags, queue, bank, thr, txi, tx, slipped>>

Inject ==
    /\ Thread("idle", "tto")
    /\ obuf < MaxOut /\ obuf' = obuf + 1
    /\ override' = TRUE
    /\ UNCHANGED <<paged, flags, queue, bank, thr, txi, tx, slipped>>

TakeEvent ==
    /\ Thread("idle", IF "EVENT_TTO" \in flags THEN "tto" ELSE "idle")
    /\ queue > 0 /\ queue' = queue - 1
    /\ flags' = {}
    /\ UNCHANGED <<obuf, override, paged, bank, thr, txi, tx, slipped>>

(***************************************************************************)
(* tto(TTO_DATA), tto(TTO_EVENT)                                           *)
(***************************************************************************)
Sendable == obuf > 0 /\ tx < Room /\ (paged => override)

TtoLoop ==
    /\ Thread("tto", IF Sendable THEN "put" ELSE "arm")
    /\ UNCHANGED <<io, bank, thr, txi, tx, slipped>>

\* The flags are looked at once for all characters.
TtoPutOn ==
    /\ Thread("put", IF ~override /\ obuf > 1 /\ tx + 1 < Room THEN "put" ELSE "arm")
    /\ obuf' = obuf - 1 /\ tx' = tx + 1
    /\ override' = FALSE
    /\ slipped' = IF paged /\ ~override THEN slipped + 1 ELSE slipped
    /\ UNCHANGED <<paged, flags, queue, bank, thr, txi>>

\* The buffer is not empty and output not stopped.  After a control character
\* the flags are looked at again.
TtoPut ==
    /\ Thread("put", IF override THEN "arm" ELSE "tto")
    /\ obuf' = obuf - 1 /\ tx' = tx + 1
    /\ override' = FALSE
    /\ slipped' = IF paged /\ ~override THEN slipped + 1 ELSE slipped
    /\ UNCHANGED <<paged, flags, queue, bank, thr, txi>>

TtoArmNever ==
    /\ Thread("arm", "idle")
    /\ UNCHANGED <<io, bank, thr, txi, tx, slipped>>

TtoArm ==
    /\ Thread("arm", IF obuf > 0 /\ ~paged THEN "enable" ELSE "idle")
    /\ UNCHANGED <<io, bank, thr, txi, tx, slipped>>

TtoEnable ==
    /\ Thread("enable", "idle")
    /\ thr' = TRUE /\ txi' = (tx = 0)
    /\ UNCHANGED <<io, bank, tx, slipped>>

(***************************************************************************)
(* ser_stty(), from one bank of registers to the next.                     *)
(***************************************************************************)
Quiet == obuf = 0 /\ tx = 0 /\ ~thr

Switch(from, to, new) ==
    /\ Thread(from, to)
    /\ bank' = new
    /\ UNCHANGED <<io, thr, txi, tx, slipped>>

SttyEfr     == Switch("idle", "efr", "extra") /\ ("busy" \in hazards \/ Quiet)
SttyTlr     == Switch("efr", "tlr", "data")
SttyEfrBack == Switch("tlr", "divide", "extra")
SttyDivide  == Switch("divide", "lcr", "divisor")
SttyLcr     == Switch("lcr", "idle", "data")

(***************************************************************************)
(* ser_intr(): the rounds of its loop.  In the bank of LCR = 0xbf IIR is   *)
(* EFR: the routine sees no interrupt that it knows, or one that it cannot *)
(* clear, and does nothing; the interrupt stays raised.  In the bank of    *)
(* DLAB RHR is the divisor, and IER its high byte.                         *)
(***************************************************************************)
IsrQueues(event, post) ==
    /\ isr = "none" /\ event
    /\ flags' = flags \cup post \cup {"EVENT_QUEUED"} /\ queue' = queue + 1
    /\ UNCHANGED <<hazards, pc, obuf, override, bank, tx, rx, overrun, cts, turns, isr, lsr, seen>>

Isr(event, post) ==
    /\ isr = "none" /\ event
    /\ flags' = flags \cup post \cup {"EVENT_QUEUED"}
    /\ queue' = IF "EVENT_QUEUED" \in flags THEN queue ELSE queue + 1
    /\ UNCHANGED <<hazards, pc, obuf, override, bank, tx, rx, overrun, cts, turns, isr, lsr, seen>>

IsrTransmit ==
    /\ Isr(~Received /\ txi /\ bank # "extra", {"EVENT_TTO"})
    /\ txi' = FALSE
    /\ thr' = (thr /\ bank # "data")        \* or the divisor is written
    /\ UNCHANGED <<paged, msr, slipped>>

\* tti() stops or continues the output; to continue, tto() is to be called.
IsrModem ==
    /\ Isr(~Received /\ ~txi /\ msr /\ bank # "extra", IF cts THEN {"EVENT_TTO"} ELSE {})
    /\ msr' = FALSE
    /\ paged' = ~cts /\ slipped' = IF cts THEN 0 ELSE slipped
    /\ UNCHANGED <<thr, txi>>

(***************************************************************************)
(* The characters received.  While the routine is at work more come in.    *)
(***************************************************************************)
Receive(from, event) ==
    /\ isr = from /\ event
    /\ UNCHANGED <<hazards, pc, obuf, override, paged, bank, thr, txi, msr, tx, cts, turns,
                   came, lost, slipped>>

\* LSR shows the errors of the next character; to read it clears the overrun.
Bad == rx # <<>> /\ Head(rx)
ReadLsr ==
    /\ lsr' = [bad |-> Bad, lost |-> IF overrun THEN lost - told ELSE 0]
    /\ overrun' = FALSE
    /\ UNCHANGED <<rx, got, told, astray>>

\* IIR and LSR are read.
IsrReceive ==
    /\ Receive("none", Received /\ bank # "extra")
    /\ isr' = "character"
    /\ ReadLsr
    /\ UNCHANGED <<flags, queue>>

\* RHR is read, a character with an error in process_lsr(), which reports an
\* overrun too.  The divisor leaves the character in the FIFO; it is not counted.
IsrCharacter ==
    /\ Receive("character", TRUE)
    /\ isr' = "status"
    /\ lsr' = NoError /\ told' = told + lsr.lost
    /\ IF bank = "divisor"
       THEN /\ astray' = astray \cup {"divisor"}
            /\ UNCHANGED <<rx, got>>
       ELSE /\ rx' = IF rx = <<>> THEN rx ELSE Tail(rx)
            /\ got' = got + 1
            /\ astray' = astray \cup (IF rx = <<>> THEN {"empty"} ELSE {})
                                \cup (IF lsr.bad # Bad THEN {"mark"} ELSE {})
    /\ UNCHANGED <<overrun, flags, queue>>

IsrStatusTwice ==
    /\ Receive("status", TRUE)
    /\ overrun' = FALSE /\ lsr' = [bad |-> Bad, lost |-> 0]
    /\ isr' = IF rx # <<>> THEN "character" ELSE "none"
    /\ UNCHANGED <<rx, got, told, astray, flags, queue>>

\* LSR is read again, for the next character or when there is none.  An event is
\* queued at the end if tti() asked for it.
IsrStatus ==
    /\ Receive("status", TRUE)
    /\ IF rx # <<>>
       THEN /\ isr' = "character"
            /\ ReadLsr
            /\ UNCHANGED <<flags, queue>>
       ELSE /\ isr' = "none" /\ overrun' = FALSE
            /\ \/ UNCHANGED <<flags, queue>>
               \/ /\ flags' = flags \cup {"EVENT_QUEUED"}
                  /\ queue' = IF "EVENT_QUEUED" \in flags THEN queue ELSE queue + 1
            /\ UNCHANGED <<rx, lsr, got, told, astray>>

(***************************************************************************)
(* The UART.                                                               *)
(***************************************************************************)
Line(event) ==
    event /\ UNCHANGED <<hazards, pc, io, bank, thr, isr, lsr, got, told, astray, slipped>>

Shift ==
    /\ Line(tx > 0 /\ cts)
    /\ tx' = tx - 1
    /\ txi' = (txi \/ (tx = 1 /\ thr))
    /\ UNCHANGED <<msr, rx, overrun, cts, turns, came, lost>>

Changing == pc \in {"efr", "tlr", "divide", "lcr"}
InUse    == Changing => "busy" \in hazards

Arrive ==
    /\ Line(came < MaxIn /\ InUse)
    /\ came' = came + 1
    /\ IF Len(rx) < Room
       THEN (\E bad \in BOOLEAN : rx' = Append(rx, bad)) /\ UNCHANGED <<overrun, lost>>
       ELSE overrun' = TRUE /\ lost' = lost + 1 /\ UNCHANGED rx
    /\ UNCHANGED <<txi, msr, tx, cts, turns>>

Turn ==
    /\ Line("flow" \in hazards /\ turns < MaxTurns /\ InUse)
    /\ cts' = ~cts /\ turns' = turns + 1 /\ msr' = TRUE
    /\ UNCHANGED <<txi, tx, rx, overrun, came, lost>>

Client == Write \/ Inject \/ SttyEfr
Driver ==
    \/ TakeEvent \/ TtoLoop \/ TtoPut \/ TtoArm \/ TtoEnable
    \/ SttyTlr \/ SttyEfrBack \/ SttyDivide \/ SttyLcr
Isrs == IsrTransmit \/ IsrModem \/ IsrReceive \/ IsrCharacter \/ IsrStatus

Next == Client \/ Driver \/ Isrs \/ Shift \/ Arrive \/ Turn

Spec == Init /\ [][Next]_vars
\* The thread and the routine run; the transmitter sends what it has.
FairSpec == Spec /\ WF_vars(Driver) /\ WF_vars(Isrs) /\ WF_vars(Shift)

(***************************************************************************)
(* Properties                                                              *)
(***************************************************************************)
TypeOK ==
    /\ hazards \in Scenarios
    /\ pc \in {"idle", "tto", "put", "arm", "enable", "efr", "tlr", "divide", "lcr"}
    /\ obuf \in 0 .. MaxOut /\ override \in BOOLEAN /\ paged \in BOOLEAN
    /\ flags \subseteq {"EVENT_TTO", "EVENT_QUEUED"} /\ queue \in 0 .. 1
    /\ bank \in {"data", "divisor", "extra"}
    /\ thr \in BOOLEAN /\ txi \in BOOLEAN /\ msr \in BOOLEAN
    /\ tx \in 0 .. Room /\ rx \in Seq(BOOLEAN) /\ Len(rx) <= Room /\ overrun \in BOOLEAN
    /\ cts \in BOOLEAN /\ turns \in 0 .. MaxTurns
    /\ isr \in {"none", "character", "status"} /\ lsr \in [bad : BOOLEAN, lost : 0 .. MaxIn]
    /\ came \in 0 .. MaxIn /\ got \in Nat /\ lost \in 0 .. MaxIn /\ told \in 0 .. MaxIn
    /\ astray \subseteq {"empty", "mark", "divisor"} /\ slipped \in Nat

\* Every character that finds room in the FIFO is handed on once, with its own
\* error if it has one and with that of no other, and none is made up, although
\* the loop of ser_intr() reads RHR before it looks whether there is a character.
\* Those that find no room are reported: the loop does not read an overrun away.
\* The exception is a loop that meets ser_stty() and reads the divisor.
InputKept ==
    "divisor" \notin astray =>
        /\ astray = {} /\ got + Len(rx) + lost = came
        /\ told + lsr.lost = lost \/ overrun

\* After the other side has stopped the output, one character at most is sent
\* before it continues, control characters excepted: tto() looks at the flags
\* again for each, and the interrupt routine changes them at any time.
OneSlips == slipped <= 1

\* The transmit interrupt alone keeps the output going, whatever the order of
\* the writes, the stops and the interrupt that disables itself: while
\* characters wait in the buffer the transmitter does not stay empty, unless
\* the other side stops it (tto(), ser_intr()).
Waiting == obuf > 0 /\ tx = 0
Sent    == Waiting ~> (~Waiting \/ ~cts \/ "busy" \in hazards)
=============================================================================
