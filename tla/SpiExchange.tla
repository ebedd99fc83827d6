---------------------------- MODULE SpiExchange -----------------------------
(***************************************************************************)
(* spi/omap3530 as built for this board: an exchange of the SPI master, by *)
(* the interrupt routine (omap3530_xfer()) or by the system DMA            *)
(* (omap3530_dmaxfer()).  The resource manager makes one call at a time;   *)
(* the thread, spi_intr(), the controller and the DMA run concurrently.    *)
(* The processor is one: the thread goes on only while no interrupt is     *)
(* raised.  A word that comes in replaces the word that went out.          *)
(***************************************************************************)
EXTENDS Integers, Sequences

CONSTANTS
    Scenarios,      \* which sets of disturbances are considered
    Lengths,        \* of an exchange
    Fifo,           \* OMAP3530_SPI_FIFOLEN: half of each FIFO
    Wrap,           \* 64 K: the word counter of the controller holds less
    MaxCalls        \* bound: how many exchanges are called for

AllHazards == {"slow"}      \* the exchange takes longer than the time-out

ASSUME SpiAssumption ==
    /\ Scenarios \subseteq SUBSET AllHazards
    /\ Lengths \subseteq Nat \ {0} /\ Fifo \in Nat \ {0} /\ MaxCalls \in Nat
    /\ Wrap \in Nat \ {0} /\ Fifo < Wrap

VARIABLES
    hazards,    \* the disturbances of this behaviour; never changes
    pc,         \* where the thread is
    call,       \* the call in progress, or the last one
    result,     \* what it returned: a length, or -1
    xlen, tlen, rlen,   \* words to exchange, written and read
    todo,       \* `expected' of omap3530_xfer(): the last words to read
    ie, stat,   \* interrupts enabled, and the status register
    hw,         \* the channel: on, and the words in the FIFOs and shifted
    dma,        \* the DMA channel that receives
    pulses,     \* the channel of the thread: which event, sent for which call
    good,       \* history: words of the call that are in the buffer
    astray,     \* history: words read from an "empty" FIFO, or put "before" the
                \* buffer or "beyond" its end
    upset       \* history: "left", an event of a call outlived it;
                \*          "late", spi_intr() went on with this call after a time-out

dev  == <<xlen, tlen, rlen>>
seen == <<good, astray, upset>>
vars == <<hazards, pc, call, result, dev, todo, ie, stat, hw, dma, pulses, seen>>

Least(a, b) == IF a < b THEN a ELSE b

ChannelOff == [on |-> FALSE, of |-> 0, words |-> 0, sent |-> 0, tx |-> 0, rx |-> 0]

Init ==
    /\ hazards \in Scenarios
    /\ pc = "idle" /\ call = [n |-> 0, len |-> 0, dma |-> FALSE] /\ result = 0
    /\ xlen = 0 /\ tlen = 0 /\ rlen = 0 /\ todo = 0
    /\ ie = FALSE /\ stat = {} /\ hw = ChannelOff
    /\ dma = [left |-> 0, frame |-> FALSE, masked |-> FALSE, raised |-> FALSE]
    /\ pulses = <<>>
    /\ good = 0 /\ astray = {} /\ upset = {}

(***************************************************************************)
(* omap3530_xfer()                                                         *)
(***************************************************************************)
Interrupt == ie /\ stat \cap {"EOW", "RXF"} # {}

Thread(from, to) ==
    /\ ~Interrupt
    /\ pc = from /\ pc' = to
    /\ UNCHANGED hazards

XferKeepsStatus(len) ==
    /\ Thread("idle", "enable")
    /\ call.n < MaxCalls
    /\ call' = [n |-> call.n + 1, len |-> len, dma |-> FALSE]
    /\ xlen' = len /\ tlen' = Least(Fifo, len) /\ rlen' = 0
    /\ good' = 0
    /\ hw' = [on |-> TRUE, of |-> call'.n, words |-> len % Wrap, sent |-> 0, tx |-> tlen', rx |-> 0]
    /\ upset' = upset \ {"late"}
    /\ UNCHANGED <<result, stat, todo, ie, dma, pulses, astray>>

Xfer(len) ==
    /\ Thread("idle", IF len > Wrap THEN "idle" ELSE "enable")
    /\ call.n < MaxCalls
    /\ call' = [n |-> call.n + 1, len |-> len, dma |-> FALSE]
    /\ xlen' = len /\ tlen' = Least(Fifo, len) /\ rlen' = 0
    /\ good' = 0
    /\ IF len > Wrap
       THEN result' = -1 /\ UNCHANGED <<stat, hw>>
       ELSE /\ hw' = [on |-> TRUE, of |-> call'.n, words |-> len % Wrap, sent |-> 0,
                      tx |-> tlen', rx |-> 0]
            /\ stat' = stat \ {"RXF", "TXE"}        \* bits 0 to 3, not EOWKE
            /\ UNCHANGED result
    /\ upset' = upset \ {"late"}
    /\ UNCHANGED <<todo, ie, dma, pulses, astray>>

Enable ==
    /\ Thread("enable", "wait")
    /\ ie' = TRUE
    /\ UNCHANGED <<call, result, dev, todo, stat, hw, dma, pulses, seen>>

(***************************************************************************)
(* omap3530_wait()                                                         *)
(***************************************************************************)
TakeEvent ==        \* OMAP3530_SPI_EVENT
    /\ Thread("wait", IF call.dma \/ rlen = xlen THEN "disable" ELSE "last")
    /\ pulses # <<>> /\ Head(pulses).kind = "spi"
    /\ pulses' = Tail(pulses)
    /\ UNCHANGED <<call, result, dev, todo, ie, stat, hw, dma, seen>>

\* The interrupt is unmasked, and a frame that ended meanwhile is reported.
Unmasked(queue, frame) ==
    /\ dma' = [dma EXCEPT !.masked = dma.raised, !.raised = FALSE, !.frame = frame]
    /\ pulses' = IF dma.raised THEN Append(queue, [kind |-> "dma", n |-> call.n]) ELSE queue

TakeSdmaUnchecked ==
    /\ Thread("wait", "disable")
    /\ pulses # <<>> /\ Head(pulses).kind = "dma"
    /\ Unmasked(Tail(pulses), FALSE)
    /\ UNCHANGED <<call, result, dev, todo, ie, stat, hw, seen>>

TakeSdma ==         \* OMAP3530_SDMA_EVENT
    /\ Thread("wait", IF ~dma.frame THEN "wait"
                      ELSE IF call.dma \/ rlen = xlen THEN "disable" ELSE "last")
    /\ pulses # <<>> /\ Head(pulses).kind = "dma"
    /\ Unmasked(Tail(pulses), FALSE)
    /\ UNCHANGED <<call, result, dev, todo, ie, stat, hw, seen>>

\* Nothing more will happen.
Shifts == hw.on /\ hw.tx > 0 /\ hw.rx < 2 * Fifo
Dead   == ~Shifts /\ ~Interrupt /\ dma.left = 0 /\ pulses = <<>>

TimeOut ==
    /\ Thread("wait", "disable")
    /\ pulses = <<>>
    /\ "slow" \in hazards \/ Dead
    /\ IF call.dma THEN result' = -1 /\ UNCHANGED rlen ELSE rlen' = -1 /\ UNCHANGED result
    /\ UNCHANGED <<call, xlen, tlen, todo, ie, stat, hw, dma, pulses, seen>>

(***************************************************************************)
(* The last words, and the end of an exchange.                             *)
(***************************************************************************)
LastWords ==
    /\ Thread("last", "drain")
    /\ hw.rx > 0
    /\ todo' = tlen - rlen
    /\ UNCHANGED <<call, result, dev, ie, stat, hw, dma, pulses, seen>>

NoLastWords ==
    /\ Thread("last", "disable")
    /\ hw.rx = 0 /\ ("slow" \in hazards \/ ~Shifts)
    /\ rlen' = -1
    /\ UNCHANGED <<call, result, xlen, tlen, todo, ie, stat, hw, dma, pulses, seen>>

\* What is wrong with reading k words to where rlen points.
Strays(k) ==
    {why \in {"empty", "before", "beyond"} :
        /\ k > 0
        /\ \/ why = "empty" /\ k > hw.rx
           \/ why = "before" /\ rlen < 0
           \/ why = "beyond" /\ rlen + k > xlen}

\* One word to where rlen points.
Drain ==
    /\ Thread("drain", IF todo > 1 THEN "drain" ELSE "disable")
    /\ todo' = todo - 1
    /\ IF todo > 0
       THEN /\ rlen' = rlen + 1
            /\ hw' = [hw EXCEPT !.rx = @ - Least(1, hw.rx)]
            /\ good' = good + Least(1, hw.rx)
            /\ astray' = astray \cup Strays(1)
       ELSE UNCHANGED <<rlen, hw, good, astray>>
    /\ UNCHANGED <<call, result, xlen, tlen, ie, stat, dma, pulses, upset>>

Disable ==
    /\ Thread("disable", "off")
    /\ ie' = FALSE
    /\ UNCHANGED <<call, result, dev, todo, stat, hw, dma, pulses, seen>>

\* The channel is disabled: what is left of the exchange is forgotten, but not
\* an event already reported.  omap3530_sdma_disablespi() clears the DMA's.
Off ==
    /\ Thread("off", "idle")
    /\ hw' = ChannelOff
    /\ IF call.dma
       THEN /\ dma' = [dma EXCEPT !.left = 0, !.frame = FALSE]
            /\ UNCHANGED result
       ELSE result' = rlen /\ UNCHANGED dma
    /\ upset' = upset \cup (IF "EOW" \in stat \/ \E i \in DOMAIN pulses : pulses[i].kind = "spi"
                            THEN {"left"} ELSE {})
    /\ UNCHANGED <<call, dev, todo, ie, stat, pulses, good, astray>>

(***************************************************************************)
(* omap3530_dmaxfer(): both DMA channels are set up and enabled.           *)
(***************************************************************************)
DmaXfer(len) ==
    /\ Thread("idle", "wait")
    /\ call.n < MaxCalls
    /\ call' = [n |-> call.n + 1, len |-> len, dma |-> TRUE]
    /\ result' = len
    /\ dma' = [dma EXCEPT !.left = len, !.frame = FALSE]
    /\ good' = 0
    /\ upset' = upset \ {"late"}
    /\ UNCHANGED <<dev, todo, ie, stat, hw, pulses, astray>>

(***************************************************************************)
(* spi_intr(): all bits that were read are cleared first.                  *)
(***************************************************************************)
Isr(event) ==
    /\ Interrupt /\ event
    /\ stat' = {}
    /\ UNCHANGED <<hazards, pc, call, result, xlen, todo, ie, dma>>

\* The end of the exchange; the rest is left to the thread.
IsrEnd ==
    /\ Isr("EOW" \in stat)
    /\ pulses' = Append(pulses, [kind |-> "spi", n |-> call.n])
    /\ UNCHANGED <<tlen, rlen, hw, seen>>

Refill == Least(Fifo, xlen - tlen)
ToRead == IF rlen > tlen THEN 0 ELSE Least(Fifo, tlen - rlen)

IsrWordsTooMany ==
    /\ Isr("EOW" \notin stat)
    /\ LET k    == ToRead
           more == IF "TXE" \in stat THEN Fifo ELSE 0
       IN /\ rlen' = rlen + k
          /\ hw' = [hw EXCEPT !.rx = @ - Least(k, hw.rx), !.tx = @ + more]
          /\ good' = good + Least(k, hw.rx)
          /\ tlen' = tlen + more
    /\ UNCHANGED <<pulses, astray, upset>>

IsrWordsStarving ==
    /\ Isr("EOW" \notin stat)
    /\ LET k == ToRead
       IN /\ rlen' = rlen + k
          /\ hw' = [hw EXCEPT !.rx = @ - Least(k, hw.rx)]
          /\ good' = good + Least(k, hw.rx)
    /\ UNCHANGED <<tlen, pulses, astray, upset>>

IsrWords ==
    /\ Isr("EOW" \notin stat)
    /\ LET k    == ToRead
           more == IF "TXE" \in stat THEN Refill ELSE 0
       IN /\ rlen' = rlen + k
          /\ hw' = [hw EXCEPT !.rx = @ - Least(k, hw.rx), !.tx = @ + more]
          /\ good' = good + Least(k, hw.rx)
          /\ astray' = astray \cup Strays(k)
          /\ tlen' = tlen + more
    /\ upset' = upset \cup (IF rlen < 0 THEN {"late"} ELSE {})
    /\ UNCHANGED pulses

(***************************************************************************)
(* The controller and the DMA.  A word goes out and one comes in.          *)
(***************************************************************************)
Device == UNCHANGED <<hazards, pc, call, result, dev, todo, ie, astray, upset>>

Shift ==
    /\ Shifts
    /\ hw' = [hw EXCEPT !.tx = @ - 1, !.rx = @ + 1, !.sent = @ + 1]
    /\ stat' = stat \cup (IF hw.rx + 1 = Fifo THEN {"RXF"} ELSE {})
                    \cup (IF hw.tx - 1 <= Fifo THEN {"TXE"} ELSE {})
                    \cup (IF hw.sent + 1 = hw.words THEN {"EOW"} ELSE {})
    /\ UNCHANGED <<dma, pulses, good>> /\ Device

DmaWord ==
    /\ dma.left > 0
    /\ good' = good + 1
    /\ LET last == dma.left = 1
       IN /\ dma' = [dma EXCEPT !.left = @ - 1, !.frame = @ \/ last, !.masked = @ \/ last,
                                !.raised = @ \/ (last /\ dma.masked)]
          /\ pulses' = IF last /\ ~dma.masked
                       THEN Append(pulses, [kind |-> "dma", n |-> call.n]) ELSE pulses
    /\ UNCHANGED <<stat, hw>> /\ Device

Driver ==
    \/ Enable \/ TakeEvent \/ TakeSdma \/ TimeOut
    \/ LastWords \/ NoLastWords \/ Drain \/ Disable \/ Off

Client == \E len \in Lengths : Xfer(len) \/ DmaXfer(len)

Next == Client \/ Driver \/ IsrEnd \/ IsrWords \/ Shift \/ DmaWord

Spec == Init /\ [][Next]_vars

(***************************************************************************)
(* Properties                                                              *)
(***************************************************************************)
TypeOK ==
    /\ hazards \in Scenarios
    /\ pc \in {"idle", "enable", "wait", "last", "drain", "disable", "off"}
    /\ call \in [n : 0 .. MaxCalls, len : Lengths \cup {0}, dma : BOOLEAN]
    /\ result \in Int /\ xlen \in Nat /\ tlen \in 0 .. xlen /\ rlen \in Int /\ todo \in Int
    /\ ie \in BOOLEAN /\ stat \subseteq {"EOW", "RXF", "TXE"}
    /\ hw \in [on : BOOLEAN, of : 0 .. MaxCalls, words : 0 .. Wrap - 1, sent : Nat,
               tx : 0 .. 2 * Fifo, rx : 0 .. 2 * Fifo]
    /\ dma \in [left : Nat, frame : BOOLEAN, masked : BOOLEAN, raised : BOOLEAN]
    /\ pulses \in Seq([kind : {"spi", "dma"}, n : 0 .. MaxCalls])
    /\ good \in Nat /\ astray \subseteq {"empty", "before", "beyond"}
    /\ upset \subseteq {"left", "late"}

Returned == pc = "idle" /\ call.n > 0

\* An exchange that returns a length has moved all its words, by interrupts, the
\* last words by the thread, or by DMA (omap3530_xfer(), omap3530_dmaxfer()):
\* no event of another call ends it.  Two things break this, and are the
\* exceptions.  An event that came after the time-out stays in the channel or in
\* the status register and ends a later call ("left", for good).  And spi_intr()
\* may go on with a call between its time-out and the disabling of the
\* interrupts: rlen, -1 until then, becomes a length ("late", this call only).
LengthMeansMoved ==
    upset = {} /\ Returned /\ result >= 0 => result = call.len /\ good = call.len

\* The thread has given the call up and not yet disabled the interrupts
\* (omap3530_xfer(), after rlen = -1).
GivenUp == pc = "disable" /\ rlen = -1

\* No word is read before it has come in, and none is put outside the buffer of
\* the call: neither by spi_intr() nor by the thread that reads the last words,
\* whatever the length is to the FIFO, and whatever time-outs there were before.
\* The exceptions: a call that the event of another has ended; and spi_intr()
\* after the call was given up, which puts one word before the buffer.  It never
\* puts one beyond it, and never reads one that has not come in.
WordsInPlace ==
    [][\/ astray' = astray
       \/ "left" \in upset
       \/ GivenUp /\ astray' = astray \cup {"before"}]_vars

\* The FIFO is refilled in time: with a bus that is not slow no exchange times
\* out whose length the word counter of the controller can hold.
NeverStalls ==
    "slow" \notin hazards /\ Returned /\ (call.dma \/ call.len < Wrap) => result = call.len
=============================================================================
