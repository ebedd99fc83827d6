------------------------- MODULE SpiExchangeProofs --------------------------
(***************************************************************************)
(* Proofs about SpiExchange: what a returned length means, that words go   *)
(* to their places, and that the FIFO is refilled in time, for exchanges   *)
(* and FIFOs of any size.                                                  *)
(***************************************************************************)
EXTENDS SpiExchange, TLAPS

States == {"idle", "enable", "wait", "last", "drain", "disable", "off"}
Exchanges == [n : 0 .. MaxCalls, len : Lengths \cup {0}, dma : BOOLEAN]
Channels  ==
    [on : BOOLEAN, of : 0 .. MaxCalls, words : 0 .. Wrap - 1, sent : Nat,
     tx : 0 .. 2 * Fifo, rx : 0 .. 2 * Fifo]
Copies    == [left : Nat, frame : BOOLEAN, masked : BOOLEAN, raised : BOOLEAN]
Pulses    == [kind : {"spi", "dma"}, n : 0 .. MaxCalls]

Has(s, kind) == \E i \in DOMAIN s : s[i].kind = kind
One(s)       == \A i, j \in DOMAIN s : s[i].kind = "spi" /\ s[j].kind = "spi" => i = j
SpiSent      == Has(pulses, "spi")
DmaSent      == Has(pulses, "dma")

\* The types, in parts: the provers treat numbers and truth values apart.
Named ==
    /\ hazards \in Scenarios /\ pc \in States
    /\ call \in Exchanges
    /\ ie \in BOOLEAN /\ stat \subseteq {"EOW", "RXF", "TXE"}
    /\ astray \subseteq {"empty", "before", "beyond"} /\ upset \subseteq {"left", "late"}

Counted ==
    /\ result \in Int /\ xlen \in Nat /\ tlen \in 0 .. xlen /\ rlen \in Int /\ todo \in Int
    /\ good \in Nat

Reported == dma \in Copies /\ pulses \in Seq(Pulses)

Filled == hw \in Channels

\* There is room for the words that spi_intr() writes.
Room == "TXE" \in stat => hw.tx <= Fifo

Types == Named /\ Counted /\ Reported /\ Filled /\ Room

\* An exchange has a length that it was not refused for.
Sized == pc # "idle" => call.len > 0 /\ (~call.dma => call.len <= Wrap)

\* Between the calls nothing is left of the last one.
Idle ==
    pc = "idle" => /\ ~ie /\ hw = ChannelOff /\ dma.left = 0 /\ ~dma.frame
                   /\ "EOW" \notin stat /\ ~SpiSent
                   /\ call.n > 0 /\ result >= 0 /\ "late" \notin upset =>
                         result = call.len /\ good = call.len

\* An exchange by interrupts, until its end: at most one FIFO of words is under
\* way, and more are written only for those that were read.
Running == ~call.dma /\ pc \in {"enable", "wait", "last"}

Exchange ==
    Running =>
        /\ xlen = call.len /\ rlen \in 0 .. xlen /\ good = rlen
        /\ tlen = Least(rlen + Fifo, xlen)
        /\ hw.on /\ hw.words = xlen % Wrap
        /\ hw.tx + hw.rx = tlen - rlen /\ hw.sent = rlen + hw.rx
        /\ "RXF" \in stat => hw.rx = Fifo /\ "TXE" \in stat
        /\ pc = "last" => rlen < xlen

\* Its end is reported when the last word has come in.
Ended ==
    ~call.dma =>
        /\ Running /\ ("EOW" \in stat \/ SpiSent \/ pc = "last") => hw.sent = xlen
        /\ Running /\ (SpiSent \/ pc = "last") => stat = {}
        /\ dma.left = 0 /\ ~dma.frame
        /\ ie <=> pc \in {"wait", "last", "drain", "disable"}

\* The thread takes what is left in the FIFO.
Drained ==
    ~call.dma =>
        /\ pc = "drain" => /\ todo = hw.rx /\ todo = xlen - rlen /\ todo > 0 /\ rlen >= 0
                           /\ good = rlen /\ hw.tx = 0 /\ stat = {}
                           /\ xlen = call.len
        /\ pc \in {"disable", "off"} =>
              \/ rlen = -1 \/ "late" \in upset
              \/ rlen = call.len /\ good = call.len /\ hw.tx = 0 /\ stat = {}

\* Also when spi_intr() goes on with a call that was given up, it finds a FIFO of
\* words in the receiver, and at most one FIFO of words is under way.
Leftover ==
    ~call.dma /\ pc \in {"drain", "disable"} =>
        /\ rlen >= -1
        /\ hw.tx + hw.rx <= Fifo /\ hw.tx + hw.rx <= tlen - rlen
        /\ "RXF" \in stat => hw.rx = Fifo

\* An exchange by DMA.
Copied ==
    pc # "idle" /\ call.dma =>
        /\ pc \in {"wait", "disable", "off"}
        /\ ~ie /\ hw = ChannelOff /\ ~SpiSent /\ "EOW" \notin stat
        /\ good + dma.left = call.len /\ (dma.frame => dma.left = 0)
        /\ pc = "wait" => result = call.len
        /\ pc \in {"disable", "off"} => result = -1 \/ (result = call.len /\ dma.left = 0)

InStep ==
    "left" \notin upset =>
        Sized /\ Idle /\ Exchange /\ Ended /\ Drained /\ Leftover /\ Copied

\* With a bus that is not slow an interrupt or a pulse is always on its way.
Awaited ==
    Running =>
        /\ hw.rx = Fifo /\ hw.sent < xlen => "RXF" \in stat
        /\ call.len < Wrap /\ hw.sent = xlen => "EOW" \in stat \/ SpiSent \/ pc = "last"

\* At most one end is reported, and it is taken before the exchange is over.
Lone ==
    /\ One(pulses)
    /\ pc \in {"last", "drain", "disable", "off"} => ~SpiSent

\* The end of a frame reaches the thread, also while its interrupt is masked.
Framed ==
    /\ dma.masked => DmaSent
    /\ call.dma /\ pc = "wait" => (dma.left = 0 <=> dma.frame) /\ (dma.frame => dma.masked)

Outcome ==
    /\ pc \in {"disable", "off"} =>
          IF call.dma THEN result = call.len
          ELSE (call.len < Wrap => rlen = call.len) /\ stat \subseteq {"TXE"} /\ hw.tx = 0
    /\ NeverStalls

Prompt == "slow" \notin hazards => upset = {} /\ Awaited /\ Lone /\ Framed /\ Outcome

Inv == InStep /\ Prompt

\* In step, and well typed.
Quiet == "left" \notin upset /\ InStep /\ Types

(***************************************************************************)
(* Sequences of pulses.                                                    *)
(***************************************************************************)
LEMMA HasMore ==
    ASSUME NEW s \in Seq(Pulses), NEW p \in Pulses, NEW kind
    PROVE  /\ Append(s, p) \in Seq(Pulses)
           /\ Has(Append(s, p), kind) <=> Has(s, kind) \/ p.kind = kind
<1> DEFINE t == Append(s, p)
<1>1. t \in Seq(Pulses) /\ Len(t) = Len(s) + 1 /\ t[Len(s) + 1] = p
      /\ \A i \in 1 .. Len(s) : t[i] = s[i]
  OBVIOUS
<1>2. DOMAIN s = 1 .. Len(s) /\ DOMAIN t = 1 .. Len(s) + 1 /\ Len(s) \in Nat
  BY <1>1
<1> HIDE DEF t
<1>3. Has(s, kind) \/ p.kind = kind => Has(t, kind)
  BY <1>1, <1>2 DEF Has
<1>4. Has(t, kind) => Has(s, kind) \/ p.kind = kind
  BY <1>1, <1>2 DEF Has
<1> QED
  BY <1>1, <1>3, <1>4 DEF t

\* A second end of an exchange is what the invariant excludes.
LEMMA OneMore ==
    ASSUME NEW s \in Seq(Pulses), NEW p \in Pulses, One(s), p.kind = "spi" => ~Has(s, "spi")
    PROVE  One(Append(s, p))
<1> DEFINE t == Append(s, p)
<1>1. t \in Seq(Pulses) /\ Len(t) = Len(s) + 1 /\ t[Len(s) + 1] = p
      /\ \A i \in 1 .. Len(s) : t[i] = s[i]
  OBVIOUS
<1>2. DOMAIN s = 1 .. Len(s) /\ DOMAIN t = 1 .. Len(s) + 1 /\ Len(s) \in Nat
  BY <1>1
<1> HIDE DEF t
<1>3. One(t)
  BY <1>1, <1>2 DEF Has, One
<1> QED
  BY <1>3 DEF t

\* Taking a pulse leaves the others.
LEMMA HasLess ==
    ASSUME NEW s \in Seq(Pulses), s # <<>>, NEW kind
    PROVE  /\ Tail(s) \in Seq(Pulses)
           /\ Has(Tail(s), kind) => Has(s, kind)
           /\ Head(s).kind # kind => (Has(s, kind) => Has(Tail(s), kind))
           /\ One(s) => One(Tail(s))
           /\ One(s) /\ Head(s).kind = "spi" => ~Has(Tail(s), "spi")
<1> DEFINE t == Tail(s)
<1>1. /\ t \in Seq(Pulses) /\ Len(s) \in Nat \ {0} /\ Len(t) = Len(s) - 1 /\ Head(s) = s[1]
      /\ \A i \in 1 .. Len(s) - 1 : t[i] = s[i + 1]
  OBVIOUS
<1>2. DOMAIN s = 1 .. Len(s) /\ DOMAIN t = 1 .. Len(s) - 1
  BY <1>1
<1> HIDE DEF t
<1>3. Has(t, kind) => Has(s, kind)
  BY <1>1, <1>2 DEF Has
<1>4. Head(s).kind # kind => (Has(s, kind) => Has(t, kind))
  <2> SUFFICES ASSUME NEW i \in 1 .. Len(s), s[i].kind = kind, s[1].kind # kind
               PROVE Has(t, kind)
    BY <1>1, <1>2 DEF Has
  <2>1. i - 1 \in 1 .. Len(s) - 1 /\ t[i - 1] = s[i]
    BY <1>1
  <2> QED
    BY <1>2, <2>1 DEF Has
<1>5. One(s) => One(t)
  <2> SUFFICES ASSUME One(s), NEW i \in 1 .. Len(s) - 1, NEW j \in 1 .. Len(s) - 1,
                      t[i].kind = "spi", t[j].kind = "spi"
               PROVE  i = j
    BY <1>2 DEF One
  <2>1. i + 1 \in DOMAIN s /\ j + 1 \in DOMAIN s /\ s[i + 1] = t[i] /\ s[j + 1] = t[j]
    BY <1>1, <1>2
  <2>2. i + 1 = j + 1
    BY <2>1 DEF One
  <2> QED
    BY <2>2
<1>6. One(s) /\ s[1].kind = "spi" => ~Has(t, "spi")
  BY <1>1, <1>2 DEF One, Has
<1> QED
  BY <1>1, <1>3, <1>4, <1>5, <1>6 DEF t

(***************************************************************************)
(* Type correctness, whatever happened before.                             *)
(***************************************************************************)

\* spi_xfer and the call of omap3_spi_dma_xfer.
LEMMA CallingTyped ==
    ASSUME Types, NEW len \in Lengths, Xfer(len) \/ DmaXfer(len) PROVE Types'
<1>1. CASE Xfer(len)
  <2> USE DEF Types
  <2>1. Named'
    <3>1. call.n + 1 \in 0 .. MaxCalls
      BY <1>1, SpiAssumption DEF SpiAssumption, Xfer, Named, Exchanges
    <3>2. call' = [n |-> call.n + 1, len |-> len, dma |-> FALSE] /\ stat' \subseteq stat
      BY <1>1 DEF Xfer
    <3>3. call' \in Exchanges
      BY <3>1, <3>2 DEF Exchanges
    <3> QED
      BY <1>1, <3>2, <3>3 DEF Xfer, Thread, Named, Exchanges, States
  <2>2. (Counted /\ Room)'
    BY <1>1, SpiAssumption DEF Xfer, Least, Counted, Room
  <2>3. Reported'
    BY <1>1 DEF Xfer, Reported
  <2>4. Filled'
    <3>1. len \in Nat \ {0} /\ Fifo \in Nat \ {0} /\ Wrap \in Nat \ {0}
      BY SpiAssumption DEF SpiAssumption
    <3>2. CASE len > Wrap
      BY <1>1, <3>2 DEF Xfer, Filled, Channels
    <3>3. CASE ~(len > Wrap)
      <4>1. call.n + 1 \in 0 .. MaxCalls
        BY <1>1, SpiAssumption DEF SpiAssumption, Xfer, Named, Exchanges
      <4>2. len % Wrap \in 0 .. Wrap - 1 /\ Least(Fifo, len) \in 0 .. 2 * Fifo
        BY <3>1 DEF Least
      <4>3. call'.n = call.n + 1 /\ tlen' = Least(Fifo, len)
        BY <1>1 DEF Xfer
      <4>4. hw' = [on |-> TRUE, of |-> call.n + 1, words |-> len % Wrap, sent |-> 0,
                   tx |-> Least(Fifo, len), rx |-> 0]
        BY <1>1, <3>3, <4>3 DEF Xfer
      <4>5. 0 \in 0 .. 2 * Fifo
        BY <3>1
      <4> QED
        BY <4>1, <4>2, <4>4, <4>5 DEF Filled, Channels
    <3> QED
      BY <3>2, <3>3
  <2> QED
    BY <2>1, <2>2, <2>3, <2>4
<1>2. CASE DmaXfer(len)
  <2> USE DEF Types
  <2>1. Named'
    BY <1>2, SpiAssumption DEF DmaXfer, Thread, Named, States, Exchanges
  <2>2. Counted'
    BY <1>2, SpiAssumption DEF DmaXfer, dev, Counted
  <2>3. Reported'
    BY <1>2, SpiAssumption DEF DmaXfer, Reported, Copies
  <2>4. Filled'
    BY <1>2 DEF DmaXfer, Filled
  <2>5. Room'
    BY <1>2 DEF DmaXfer, Room
  <2> QED
    BY <2>1, <2>2, <2>3, <2>4, <2>5
<1> QED
  BY <1>1, <1>2

\* The thread lets the transfer run and waits for what ends it.
LEMMA WaitingTyped ==
    ASSUME Types, Enable \/ TakeEvent \/ TakeSdma \/ TimeOut PROVE Types'
<1>1. CASE Enable
  BY <1>1
    DEF Enable, Thread, dev, seen, Named, States, Counted, Filled, Reported, Room, Types
<1>2. CASE TakeEvent
  BY <1>2
    DEF TakeEvent, Thread, dev, seen, Named, States, Counted, Filled, Reported, Room, Types
<1>3. CASE TakeSdma
  <2> USE DEF Types
  <2>1. (Named /\ Counted /\ Filled /\ Room)'
    BY <1>3 DEF TakeSdma, Thread, dev, seen, Named, States, Counted, Filled, Room
  <2>2. Reported'
    <3> DEFINE queue == Tail(pulses)
               p     == [kind |-> "dma", n |-> call.n]
    <3>1. dma' \in Copies
      BY <1>3 DEF TakeSdma, Unmasked, Reported, Copies
    <3>2. queue \in Seq(Pulses)
      BY <1>3, HasLess DEF TakeSdma, Reported
    <3>3. p \in Pulses
      BY DEF Named, Exchanges, Pulses
    <3>4. pulses' = IF dma.raised THEN Append(queue, p) ELSE queue
      BY <1>3 DEF TakeSdma, Unmasked
    <3> HIDE DEF queue, p
    <3>5. Append(queue, p) \in Seq(Pulses)
      BY <3>2, <3>3, HasMore
    <3> QED
      BY <3>1, <3>2, <3>4, <3>5 DEF Reported
  <2> QED
    BY <2>1, <2>2
<1>4. CASE TimeOut
  BY <1>4 DEF TimeOut, Thread, seen, Named, States, Counted, Filled, Reported, Room, Types
<1> QED
  BY <1>1, <1>2, <1>3, <1>4

\* The words that are left in the receiver when the wait is over.
LEMMA DrainingTyped ==
    ASSUME Types, LastWords \/ NoLastWords \/ Drain PROVE Types'
<1>1. CASE LastWords
  BY <1>1
    DEF LastWords, Thread, dev, seen, Named, States, Counted, Filled, Reported, Room, Types
<1>2. CASE NoLastWords
  BY <1>2
    DEF NoLastWords, Thread, seen, Named, States, Counted, Filled, Reported, Room, Types
<1>3. CASE Drain
  <2> USE DEF Types
  <2>1. (Named /\ Reported)'
    <3>1. Strays(1) \subseteq {"empty", "before", "beyond"}
      BY DEF Strays
    <3> QED
      BY <1>3, <3>1 DEF Drain, Thread, Named, States, Reported
  <2>2. (Counted /\ Filled /\ Room)'
    BY <1>3, SpiAssumption DEF Drain, Least, Counted, Filled, Channels, Room
  <2> QED
    BY <2>1, <2>2
<1> QED
  BY <1>1, <1>2, <1>3

\* The channel and the controller are switched off.
LEMMA EndingTyped ==
    ASSUME Types, Disable \/ Off PROVE Types'
<1>1. CASE Disable
  BY <1>1
    DEF Disable, Thread, dev, seen, Named, States, Counted, Filled, Reported, Room, Types
<1>2. CASE Off
  <2> USE DEF Types
  <2>1. (Named /\ Counted /\ Filled /\ Room)'
    BY <1>2, SpiAssumption
      DEF Off, Thread, ChannelOff, dev, Named, States, Counted, Filled, Channels, Room
  <2>2. Reported'
    <3>1. CASE call.dma
      <4>1. dma' = [dma EXCEPT !.left = 0, !.frame = FALSE] /\ pulses' = pulses
        BY <1>2, <3>1 DEF Off
      <4> QED
        BY <4>1 DEF Reported, Copies
    <3>2. CASE ~call.dma
      BY <1>2, <3>2 DEF Off, Reported
    <3> QED
      BY <3>1, <3>2
  <2> QED
    BY <2>1, <2>2
<1> QED
  BY <1>1, <1>2

\* The interrupt handler.
LEMMA ServingTyped ==
    ASSUME Types, IsrEnd \/ IsrWords PROVE Types'
<1>1. CASE IsrEnd
  BY <1>1
    DEF IsrEnd, Isr, seen, Named, Exchanges, Counted, Filled, Reported, Pulses, Room, Types
<1>2. CASE IsrWords
  <2> USE DEF Types
  <2>1. (Named /\ Reported)'
    <3>1. Strays(ToRead) \subseteq {"empty", "before", "beyond"}
      BY DEF Strays
    <3> QED
      BY <1>2, <3>1 DEF IsrWords, Isr, Named, Reported
  <2>2. (Counted /\ Room)'
    BY <1>2, SpiAssumption
      DEF IsrWords, Isr, Refill, ToRead, Least, Counted, Filled, Channels, Room
  <2>3. Filled'
    <3> DEFINE rx == hw.rx - Least(ToRead, hw.rx)
               tx == hw.tx + (IF "TXE" \in stat THEN Refill ELSE 0)
    <3>1. hw' = [hw EXCEPT !.rx = rx, !.tx = tx]
      BY <1>2 DEF IsrWords
    <3>2. /\ hw.rx \in 0 .. 2 * Fifo /\ hw.tx \in 0 .. 2 * Fifo /\ Fifo \in Nat
          /\ tlen \in 0 .. xlen /\ xlen \in Nat /\ rlen \in Int
      BY SpiAssumption DEF SpiAssumption, Filled, Channels, Counted
    <3>3. ToRead \in Nat /\ Refill \in 0 .. Fifo
      BY <3>2 DEF ToRead, Refill, Least
    <3>4. rx \in 0 .. 2 * Fifo
      BY <3>2, <3>3 DEF Least
    <3>5. tx \in 0 .. 2 * Fifo
      BY <3>2, <3>3 DEF Room
    <3> HIDE DEF rx, tx
    <3> QED
      BY <3>1, <3>4, <3>5 DEF Filled, Channels
  <2> QED
    BY <2>1, <2>2, <2>3
<1> QED
  BY <1>1, <1>2

\* The hardware moves words.
LEMMA MovingTyped ==
    ASSUME Types, Shift \/ DmaWord PROVE Types'
<1>1. CASE Shift
  <2> USE DEF Types
  <2>1. (Named /\ Reported)'
    BY <1>1 DEF Shift, Device, Named, Reported
  <2>2. (Counted /\ Room)'
    BY <1>1, SpiAssumption DEF Shift, Device, dev, Counted, Filled, Channels, Room
  <2>3. Filled'
    <3>1. hw.tx > 0 /\ hw.rx < 2 * Fifo /\ hw.tx \in 0 .. 2 * Fifo /\ hw.rx \in 0 .. 2 * Fifo
          /\ hw.sent \in Nat
          /\ Fifo \in Nat
      BY <1>1, SpiAssumption DEF SpiAssumption, Filled, Channels, Shift, Shifts
    <3>2. hw.tx - 1 \in 0 .. 2 * Fifo /\ hw.rx + 1 \in 0 .. 2 * Fifo /\ hw.sent + 1 \in Nat
      BY <3>1
    <3>3. hw' = [hw EXCEPT !.tx = @ - 1, !.rx = @ + 1, !.sent = @ + 1]
      BY <1>1 DEF Shift
    <3> QED
      BY <3>2, <3>3 DEF Filled, Channels
  <2> QED
    BY <2>1, <2>2, <2>3
<1>2. CASE DmaWord
  <2> USE DEF Types
  <2>1. (Named /\ Filled /\ Room)'
    BY <1>2 DEF DmaWord, Device, Named, Filled, Room
  <2>2. Counted'
    <3>1. good \in Nat /\ good' = good + 1
      BY <1>2 DEF Counted, DmaWord
    <3> QED
      BY <1>2, <3>1 DEF DmaWord, Device, dev, Counted
  <2>3. Reported'
    <3> DEFINE last == dma.left = 1
               p    == [kind |-> "dma", n |-> call.n]
    <3>1. dma.left \in Nat /\ dma.left > 0 /\ dma.left - 1 \in Nat /\ last \in BOOLEAN
      BY <1>2 DEF DmaWord, Reported, Copies
    <3>2. dma' = [dma EXCEPT !.left = @ - 1, !.frame = @ \/ last, !.masked = @ \/ last,
                             !.raised = @ \/ (last /\ dma.masked)]
      BY <1>2 DEF DmaWord
    <3>3. pulses' = IF last /\ ~dma.masked THEN Append(pulses, p) ELSE pulses
      BY <1>2 DEF DmaWord
    <3>4. p \in Pulses
      BY DEF Named, Exchanges, Pulses
    <3> HIDE DEF last, p
    <3>5. dma' \in Copies
      BY <3>1, <3>2 DEF Reported, Copies
    <3>6. Append(pulses, p) \in Seq(Pulses)
      BY <3>4, HasMore DEF Reported
    <3> QED
      BY <3>3, <3>5, <3>6 DEF Reported
  <2> QED
    BY <2>1, <2>2, <2>3
<1> QED
  BY <1>1, <1>2

(***************************************************************************)
(* What the steps do to the records, while everything is in step.          *)
(***************************************************************************)
\* The fields of the records have their types.
LEMMA Fields ==
    ASSUME Types
    PROVE  /\ call.n \in 0 .. MaxCalls /\ call.len \in Nat /\ call.dma \in BOOLEAN
           /\ hw.on \in BOOLEAN /\ hw.words \in Nat /\ hw.sent \in Nat
           /\ hw.tx \in Nat /\ hw.rx \in Nat
           /\ dma.left \in Nat /\ dma.frame \in BOOLEAN /\ dma.masked \in BOOLEAN
                /\ dma.raised \in BOOLEAN
<1>1. Lengths \cup {0} \subseteq Nat /\ Fifo \in Nat /\ Wrap \in Nat \ {0}
  BY SpiAssumption DEF SpiAssumption
<1>2. call.n \in 0 .. MaxCalls /\ call.len \in Nat /\ call.dma \in BOOLEAN
  <2>1. call.len \in Lengths \cup {0}
    BY DEF Types, Named, Exchanges
  <2>2. call.n \in 0 .. MaxCalls /\ call.dma \in BOOLEAN
    BY DEF Types, Named, Exchanges
  <2>3. call.len \in Nat
    BY <1>1, <2>1
  <2> QED
    BY <2>2, <2>3
<1>3. hw.words \in 0 .. Wrap - 1 /\ hw.sent \in Nat /\ hw.tx \in 0 .. 2 * Fifo
      /\ hw.rx \in 0 .. 2 * Fifo
  BY DEF Types, Filled, Channels
<1>4. hw.words \in Nat /\ hw.sent \in Nat /\ hw.tx \in Nat /\ hw.rx \in Nat
  BY <1>1, <1>3
<1>5. hw.on \in BOOLEAN
  BY DEF Types, Filled, Channels
<1>6. dma.left \in Nat /\ dma.frame \in BOOLEAN /\ dma.masked \in BOOLEAN
      /\ dma.raised \in BOOLEAN
  BY DEF Types, Reported, Copies
<1> QED
  BY <1>2, <1>4, <1>5, <1>6

\* A round of spi_intr() reads a FIFO full of words and refills it.
LEMMA Rounds ==
    ASSUME Quiet, IsrWords, pc = "wait"
    PROVE  /\ rlen >= 0 /\ ~call.dma /\ "EOW" \notin stat /\ hw.rx = Fifo
           /\ rlen + Fifo <= tlen
           /\ rlen' = rlen + Fifo /\ good' = good + Fifo
                /\ tlen' = tlen + Least(Fifo, xlen - tlen)
           /\ hw'.on = hw.on /\ hw'.words = hw.words /\ hw'.sent = hw.sent
           /\ hw'.rx = 0 /\ hw'.tx = hw.tx + Least(Fifo, xlen - tlen)
           /\ stat' = {} /\ astray' = astray /\ upset' = upset
<1> USE DEF Quiet, InStep, Types
<1>1. ~call.dma /\ "RXF" \in stat /\ "EOW" \notin stat
  BY DEF IsrWords, Isr, Interrupt, Idle, Copied
<1>3. /\ hw.rx = Fifo /\ "TXE" \in stat /\ hw.tx + hw.rx = tlen - rlen
      /\ rlen \in 0 .. xlen /\ tlen = Least(rlen + Fifo, xlen)
  BY <1>1 DEF Exchange, Running
<1>4. hw.tx \in Nat /\ hw.rx \in Nat /\ Fifo \in Nat /\ tlen \in Int /\ xlen \in Nat
  BY Fields, SpiAssumption DEF SpiAssumption, Named, Counted
<1>5. ToRead = Fifo /\ Least(Fifo, hw.rx) = Fifo /\ rlen + Fifo <= tlen
  BY <1>3, <1>4 DEF Least, ToRead
<1>6. Refill \in Nat /\ Refill = Least(Fifo, xlen - tlen)
  BY <1>3, <1>4 DEF Least, Refill
<1>7. hw' = [hw EXCEPT !.rx = @ - Fifo, !.tx = @ + Refill]
  BY <1>3, <1>5 DEF IsrWords
<1>8. hw.rx - Fifo = 0 /\ hw.tx + Refill \in Nat
  BY <1>3, <1>4, <1>6
<1>9. /\ hw'.on = hw.on /\ hw'.words = hw.words /\ hw'.sent = hw.sent
      /\ hw'.rx = 0 /\ hw'.tx = hw.tx + Refill
  <2> DEFINE tx == hw.tx + Refill
             rx == hw.rx - Fifo
  <2>1. hw' = [hw EXCEPT !.rx = rx, !.tx = tx]
    BY <1>7
  <2>2. tx \in Nat /\ rx \in Nat /\ rx = 0
    BY <1>8
  <2> HIDE DEF tx, rx
  <2>3. /\ hw'.on = hw.on /\ hw'.words = hw.words /\ hw'.sent = hw.sent
        /\ hw'.rx = rx /\ hw'.tx = tx
    BY <2>1, <2>2 DEF Named, Reported, Filled, Exchanges, Channels, Copies
  <2> QED
    BY <2>2, <2>3 DEF tx
<1>10. rlen' = rlen + Fifo /\ good' = good + Fifo /\ tlen' = tlen + Refill
  BY <1>3, <1>5 DEF IsrWords
<1>11. stat' = {} /\ upset' = upset
  BY <1>3, <1>4 DEF IsrWords, Isr
<1>12. astray' = astray
  <2>1. Strays(Fifo) = {}
    BY <1>3, <1>4, <1>5 DEF Strays, Counted
  <2> QED
    BY <2>1, <1>5 DEF IsrWords
<1> QED
  BY <1>1, <1>3, <1>4, <1>5, <1>6, <1>9, <1>10, <1>11, <1>12

\* So it does with a call that was given up and not yet switched off.
LEMMA RoundsAgain ==
    ASSUME Quiet, IsrWords, pc # "wait"
    PROVE  /\ pc = "disable" /\ ~call.dma /\ "EOW" \notin stat
           /\ "late" \in upset' /\ ("left" \in upset' <=> "left" \in upset)
           /\ rlen' >= 0 /\ hw'.tx + hw'.rx <= Fifo /\ hw'.tx + hw'.rx <= tlen' - rlen'
           /\ stat' = {}
           /\ astray' = astray \/ (rlen = -1 /\ astray' = astray \cup {"before"})
<1> USE DEF Quiet, InStep, Types
<1>1. ie /\ ~call.dma /\ "RXF" \in stat /\ "EOW" \notin stat /\ stat' = {}
  BY DEF IsrWords, Isr, Interrupt, Idle, Copied
<1>2. pc = "disable"
  BY <1>1 DEF Ended, Drained, Named, States, Running
<1>3. rlen = -1 \/ "late" \in upset
  BY <1>1, <1>2 DEF Drained
<1>4. /\ rlen >= -1 /\ hw.rx = Fifo /\ hw.tx + hw.rx <= Fifo
      /\ hw.tx + hw.rx <= tlen - rlen
  BY <1>1, <1>2 DEF Leftover
<1>5. hw.tx \in Nat /\ hw.rx \in Nat /\ Fifo \in Nat \ {0} /\ tlen \in 0 .. xlen
      /\ xlen \in Nat /\ rlen \in Int
  BY Fields, SpiAssumption DEF SpiAssumption, Counted
<1>6. ToRead = Fifo /\ Least(Fifo, hw.rx) = Fifo /\ hw.tx = 0 /\ Fifo <= tlen - rlen
  BY <1>4, <1>5 DEF Least, ToRead
<1> DEFINE more == IF "TXE" \in stat THEN Refill ELSE 0
<1>7. more \in 0 .. Fifo
  BY <1>5 DEF Least, Refill
<1>8. rlen' = rlen + Fifo /\ tlen' = tlen + more
      /\ hw' = [hw EXCEPT !.rx = hw.rx - Fifo, !.tx = hw.tx + more]
  BY <1>6 DEF IsrWords
<1> HIDE DEF more
<1>9. hw'.rx = 0 /\ hw'.tx = more
  BY <1>4, <1>5, <1>6, <1>7, <1>8 DEF Filled, Channels
<1>10. rlen' >= 0 /\ hw'.tx + hw'.rx <= Fifo /\ hw'.tx + hw'.rx <= tlen' - rlen'
  BY <1>4, <1>5, <1>6, <1>7, <1>8, <1>9
<1>11. Strays(Fifo) \subseteq {"before"} /\ (rlen # -1 => Strays(Fifo) = {})
  BY <1>4, <1>5, <1>6 DEF Strays
<1>12. astray' = astray \cup Strays(Fifo)
  BY <1>6 DEF IsrWords
<1>13. upset' = upset \cup (IF rlen < 0 THEN {"late"} ELSE {})
  BY DEF IsrWords
<1>14. "late" \in upset' /\ ("left" \in upset' <=> "left" \in upset)
  BY <1>3, <1>5, <1>13
<1> QED
  BY <1>1, <1>2, <1>10, <1>11, <1>12, <1>14

\* A word goes out and one comes in.
LEMMA Shifting ==
    ASSUME Quiet, Shift
    PROVE  /\ hw.on /\ hw.tx > 0 /\ hw.rx < 2 * Fifo
           /\ hw'.on = hw.on /\ hw'.words = hw.words /\ hw'.sent = hw.sent + 1
           /\ hw'.rx = hw.rx + 1 /\ hw'.tx = hw.tx - 1
           /\ ~call.dma
           /\ pc \in {"enable", "wait", "last", "disable", "off"}
           /\ pc \in {"disable", "off"} => rlen = -1 \/ "late" \in upset
           /\ "EOW" \in stat' <=> "EOW" \in stat \/ hw.sent + 1 = hw.words
           /\ "RXF" \in stat' <=> "RXF" \in stat \/ hw.rx + 1 = Fifo
           /\ "TXE" \in stat' <=> "TXE" \in stat \/ hw.tx - 1 <= Fifo
<1> USE DEF Quiet, InStep, Types
<1>1. hw.on /\ hw.tx > 0 /\ hw.rx < 2 * Fifo
  BY DEF Shift, Shifts
<1>2. hw # ChannelOff
  BY <1>1 DEF ChannelOff
<1>3. ~call.dma /\ pc # "idle"
  BY <1>2 DEF Idle, Copied
<1>4. pc # "drain" /\ (pc \in {"disable", "off"} => rlen = -1 \/ "late" \in upset)
  BY <1>1, <1>3 DEF Drained
<1>5. hw.tx - 1 \in Nat /\ hw.rx + 1 \in Nat /\ hw.sent + 1 \in Nat
  BY <1>1, Fields
<1>6. /\ hw'.on = hw.on /\ hw'.words = hw.words /\ hw'.sent = hw.sent + 1
      /\ hw'.rx = hw.rx + 1 /\ hw'.tx = hw.tx - 1
  BY <1>5 DEF Shift, Named, Reported, Filled, Exchanges, Channels, Copies
<1>7. /\ "EOW" \in stat' <=> "EOW" \in stat \/ hw.sent + 1 = hw.words
      /\ "RXF" \in stat' <=> "RXF" \in stat \/ hw.rx + 1 = Fifo
      /\ "TXE" \in stat' <=> "TXE" \in stat \/ hw.tx - 1 <= Fifo
  BY DEF Shift
<1> QED
  BY <1>1, <1>3, <1>4, <1>6, <1>7 DEF Named, Counted, States

\* A word is copied to the buffer, and the last one ends the frame.
LEMMA Copying ==
    ASSUME Quiet, DmaWord
    PROVE  /\ dma.left > 0 /\ call.dma /\ pc \in {"wait", "disable", "off"}
           /\ dma'.left = dma.left - 1
           /\ dma'.frame <=> dma.frame \/ dma.left = 1
           /\ dma'.masked <=> dma.masked \/ dma.left = 1
           /\ SpiSent' <=> SpiSent
           /\ DmaSent' <=> DmaSent \/ (dma.left = 1 /\ ~dma.masked)
           /\ One(pulses) => One(pulses')
<1> USE DEF Quiet, InStep, Types
<1>1. dma.left > 0
  BY DEF DmaWord
<1>2. call.dma /\ pc # "idle"
  BY <1>1, Fields DEF Idle, Ended
<1>3. dma.left - 1 \in Nat
  BY <1>1, Fields
<1>4. /\ dma' \in Copies
      /\ dma'.left = dma.left - 1
      /\ dma'.frame <=> dma.frame \/ dma.left = 1
      /\ dma'.masked <=> dma.masked \/ dma.left = 1
  <2> DEFINE last == dma.left = 1
  <2>1. dma' = [dma EXCEPT !.left = @ - 1, !.frame = @ \/ last, !.masked = @ \/ last,
                           !.raised = @ \/ (last /\ dma.masked)]
    BY DEF DmaWord
  <2>2. last \in BOOLEAN
    OBVIOUS
  <2> HIDE DEF last
  <2>3. /\ dma' \in Copies
        /\ dma'.left = dma.left - 1
        /\ dma'.frame = (dma.frame \/ last)
        /\ dma'.masked = (dma.masked \/ last)
    BY <1>3, <2>1, <2>2 DEF Named, Reported, Filled, Exchanges, Channels, Copies
  <2> QED
    BY <2>3 DEF last
<1>5. CASE dma.left = 1 /\ ~dma.masked
  <2> DEFINE p == [kind |-> "dma", n |-> call.n]
  <2>1. pulses' = Append(pulses, p)
    BY <1>5 DEF DmaWord
  <2>2. p \in Pulses /\ p.kind = "dma" /\ p.kind # "spi"
    BY Fields DEF Pulses
  <2>3. pulses \in Seq(Pulses)
    BY DEF Named, Reported, Filled, Exchanges, Channels, Copies
  <2> HIDE DEF p
  <2>4. pulses' \in Seq(Pulses) /\ (SpiSent' <=> SpiSent) /\ DmaSent'
    BY <2>1, <2>2, <2>3, HasMore DEF SpiSent, DmaSent
  <2>5. One(pulses) => One(pulses')
    BY <2>1, <2>2, <2>3, OneMore
  <2> QED
    BY <1>1, <1>2, <1>4, <1>5, <2>4, <2>5 DEF Copied
<1>6. CASE ~(dma.left = 1 /\ ~dma.masked)
  <2>1. pulses' = pulses
    BY <1>6 DEF DmaWord
  <2> QED
    BY <1>1, <1>2, <1>4, <1>6, <2>1
      DEF Copied, Named, Reported, Filled, Exchanges, Channels, Copies, SpiSent, DmaSent
<1> QED
  BY <1>5, <1>6

\* A pulse of the DMA is taken, and one that was masked meanwhile takes its place.
LEMMA Taking ==
    ASSUME Quiet, TakeSdma
    PROVE  /\ dma'.left = dma.left /\ ~dma'.frame
           /\ dma'.masked => DmaSent'
           /\ SpiSent' <=> SpiSent
           /\ One(pulses) => One(pulses')
<1> USE DEF Quiet, InStep, Types
<1> DEFINE queue == Tail(pulses)
           p     == [kind |-> "dma", n |-> call.n]
<1>1. pulses \in Seq(Pulses) /\ pulses # <<>> /\ Head(pulses).kind = "dma"
      /\ Head(pulses).kind # "spi"
  BY DEF Named, Reported, Filled, Exchanges, Channels, Copies, TakeSdma
<1>2. queue \in Seq(Pulses) /\ (Has(queue, "spi") <=> SpiSent) /\ (One(pulses) => One(queue))
  BY <1>1, HasLess DEF SpiSent
<1>3. p \in Pulses /\ p.kind = "dma" /\ p.kind # "spi"
  BY Fields DEF Pulses
<1>4. /\ dma' \in Copies
      /\ dma'.left = dma.left /\ dma'.frame = FALSE /\ dma'.masked = dma.raised
  BY DEF TakeSdma, Unmasked, Named, Reported, Filled, Exchanges, Channels, Copies
<1>5. pulses' = IF dma.raised THEN Append(queue, p) ELSE queue
  BY DEF TakeSdma, Unmasked
<1> HIDE DEF queue, p
<1>6. CASE dma.raised
  <2>1. /\ Append(queue, p) \in Seq(Pulses)
        /\ Has(Append(queue, p), "spi") <=> SpiSent
        /\ Has(Append(queue, p), "dma")
    BY <1>2, <1>3, HasMore
  <2>2. One(queue) => One(Append(queue, p))
    BY <1>2, <1>3, OneMore
  <2> QED
    BY <1>2, <1>4, <1>5, <1>6, <2>1, <2>2 DEF SpiSent, DmaSent
<1>7. CASE ~dma.raised
  BY <1>2, <1>4, <1>5, <1>7 DEF SpiSent
<1> QED
  BY <1>6, <1>7

\* The channel is enabled and one FIFO of words is written.
LEMMA Filling ==
    ASSUME Quiet, NEW len \in Lengths, Xfer(len), len <= Wrap
    PROVE  /\ call'.len = len /\ ~call'.dma
           /\ hw'.on /\ hw'.words = len % Wrap /\ hw'.sent = 0 /\ hw'.rx = 0
                /\ hw'.tx = Least(Fifo, len)
<1> USE DEF Quiet, InStep, Types
<1>1. len \in Nat /\ len % Wrap \in Nat /\ Least(Fifo, len) \in Nat
  BY SpiAssumption DEF SpiAssumption, Least
<1>2. call.n \in 0 .. MaxCalls /\ call.n < MaxCalls /\ call.n + 1 \in 0 .. MaxCalls
  BY Fields, SpiAssumption DEF SpiAssumption, Xfer
<1>3. call' = [n |-> call.n + 1, len |-> len, dma |-> FALSE]
  BY DEF Xfer
<1>4. hw' = [on |-> TRUE, of |-> call.n + 1, words |-> len % Wrap, sent |-> 0,
             tx |-> Least(Fifo, len), rx |-> 0]
  <2>1. call'.n = call.n + 1 /\ tlen' = Least(Fifo, len)
    BY <1>3 DEF Xfer
  <2>2. ~(len > Wrap)
    BY <1>1, SpiAssumption DEF SpiAssumption
  <2> QED
    BY <2>1, <2>2 DEF Xfer
<1> QED
  BY <1>1, <1>2, <1>3, <1>4 DEF Exchanges, Channels

\* The DMA is set up.
LEMMA SettingUp ==
    ASSUME Quiet, NEW len \in Lengths, DmaXfer(len)
    PROVE  /\ call'.len = len /\ call'.dma
           /\ dma'.left = len /\ ~dma'.frame /\ dma'.masked = dma.masked
<1> USE DEF Quiet, InStep, Types
<1>1. len \in Nat
  BY SpiAssumption DEF SpiAssumption
<1>2. call.n \in 0 .. MaxCalls /\ call.n < MaxCalls /\ call.n + 1 \in 0 .. MaxCalls
  BY Fields, SpiAssumption DEF SpiAssumption, DmaXfer
<1>3. call' = [n |-> call.n + 1, len |-> len, dma |-> TRUE]
  BY DEF DmaXfer
<1>4. dma' = [dma EXCEPT !.left = len, !.frame = FALSE]
  BY DEF DmaXfer
<1> QED
  BY <1>1, <1>2, <1>3, <1>4 DEF Named, Reported, Filled, Exchanges, Channels, Copies

\* The end of the exchange reaches the thread: it was this exchange's.
LEMMA EventTaken ==
    ASSUME Quiet, TakeEvent
    PROVE  /\ ~call.dma /\ hw.sent = xlen /\ stat = {}
           /\ SpiSent' => SpiSent /\ ~One(pulses)
           /\ DmaSent' <=> DmaSent
           /\ One(pulses) => One(pulses')
<1> USE DEF Quiet, InStep, Types
<1>1. pulses \in Seq(Pulses) /\ pulses # <<>> /\ Head(pulses).kind = "spi"
      /\ Head(pulses).kind # "dma"
  BY DEF Named, Reported, Filled, Exchanges, Channels, Copies, TakeEvent
<1>2. 1 \in DOMAIN pulses /\ pulses[1] = Head(pulses)
  BY <1>1
<1>3. SpiSent
  BY <1>1, <1>2 DEF SpiSent, Has
<1>4. ~call.dma /\ hw.sent = xlen /\ stat = {}
  BY <1>3, Fields DEF TakeEvent, Thread, Copied, Ended, Running
<1>5. pulses' = Tail(pulses)
  BY DEF TakeEvent
<1>6. /\ Tail(pulses) \in Seq(Pulses)
      /\ Has(Tail(pulses), "spi") => Has(pulses, "spi")
      /\ Has(Tail(pulses), "dma") <=> Has(pulses, "dma")
      /\ One(pulses) => One(Tail(pulses)) /\ ~Has(Tail(pulses), "spi")
  BY <1>1, HasLess
<1> QED
  BY <1>4, <1>5, <1>6 DEF SpiSent, DmaSent

\* The thread reads one of the words that are left.
LEMMA WordDrained ==
    ASSUME Quiet, Drain
    PROVE  /\ ~call.dma /\ todo > 0 /\ todo = hw.rx /\ todo' = todo - 1
           /\ rlen' = rlen + 1 /\ good' = good + 1 /\ astray' = astray
           /\ hw'.rx = hw.rx - 1 /\ hw'.tx = hw.tx
<1> USE DEF Quiet, InStep, Types
<1>1. pc = "drain" /\ ~call.dma
  BY Fields DEF Drain, Thread, Copied
<1>2. todo > 0 /\ todo = hw.rx /\ todo = xlen - rlen /\ rlen >= 0
  BY <1>1 DEF Drained
<1>3. hw.rx \in Nat /\ rlen \in Int /\ xlen \in Nat
  BY Fields DEF Named, Counted
<1>4. Least(1, hw.rx) = 1 /\ rlen \in 0 .. xlen - 1 /\ hw.rx # 0 /\ hw.rx - 1 \in Nat
  BY <1>2, <1>3 DEF Least
<1>5. hw' = [hw EXCEPT !.rx = @ - 1]
  BY <1>2, <1>4 DEF Drain
<1>6. /\ hw'.rx = hw.rx - 1 /\ hw'.tx = hw.tx
  BY <1>4, <1>5 DEF Named, Reported, Filled, Exchanges, Channels, Copies
<1>7. Strays(1) = {}
  BY <1>2, <1>3, <1>4 DEF Strays
<1>8. rlen' = rlen + 1 /\ good' = good + 1 /\ astray' = astray /\ todo' = todo - 1
  BY <1>2, <1>4, <1>7 DEF Drain
<1> QED
  BY <1>1, <1>2, <1>6, <1>8

\* The channel is disabled.
LEMMA SwitchingOff ==
    ASSUME Quiet, Off
    PROVE  /\ hw' = ChannelOff
           /\ dma'.left = 0 /\ ~dma'.frame /\ dma'.masked = dma.masked
           /\ "left" \notin upset' <=> "EOW" \notin stat /\ ~SpiSent
           /\ upset' = upset \/ "left" \in upset'
<1> USE DEF Quiet, InStep, Types
<1>1. hw' = ChannelOff /\ ChannelOff \in Channels
  BY SpiAssumption DEF SpiAssumption, Off, ChannelOff, Channels
<1>4. /\ dma' \in Copies
      /\ dma'.left = 0 /\ ~dma'.frame /\ dma'.masked = dma.masked
  <2>1. CASE call.dma
    <3>1. dma' = [dma EXCEPT !.left = 0, !.frame = FALSE]
      BY <2>1 DEF Off
    <3> QED
      BY <3>1 DEF Named, Reported, Filled, Exchanges, Channels, Copies
  <2>2. CASE ~call.dma
    <3>1. dma' = dma
      BY <2>2 DEF Off
    <3> QED
      BY <2>2, <3>1 DEF Ended, Named, Reported, Filled, Exchanges, Channels, Copies
  <2> QED
    BY <2>1, <2>2
<1>5. /\ "left" \notin upset' <=> "EOW" \notin stat /\ ~SpiSent
      /\ upset' = upset \/ "left" \in upset'
  BY DEF Off, SpiSent, Has
<1> QED
  BY <1>1, <1>4, <1>5

\* The end of the exchange is reported.
LEMMA Reporting ==
    ASSUME Quiet, IsrEnd
    PROVE  /\ ~call.dma
           /\ "EOW" \in stat
           /\ (pc = "wait" /\ hw.sent = xlen /\ ~SpiSent) \/ pc = "disable"
           /\ stat' = {}
           /\ SpiSent' /\ (DmaSent' <=> DmaSent)
           /\ One(pulses) /\ ~SpiSent => One(pulses')
<1> USE DEF Quiet, InStep, Types
<1>1. ie /\ "EOW" \in stat /\ stat' = {}
  BY DEF IsrEnd, Isr, Interrupt
<1>2. ~call.dma /\ pc \in {"wait", "last", "drain", "disable"}
  BY <1>1, Fields DEF Idle, Copied, Ended
<1>3. pc # "last" /\ pc # "drain"
  BY <1>1, <1>2 DEF Ended, Drained, Running
<1>4. pc = "wait" => hw.sent = xlen /\ ~SpiSent
  BY <1>1, <1>2 DEF Ended, Running
<1> DEFINE p == [kind |-> "spi", n |-> call.n]
<1>5. p \in Pulses /\ p.kind = "spi" /\ p.kind # "dma"
  BY Fields DEF Pulses
<1>6. pulses \in Seq(Pulses) /\ pulses' = Append(pulses, p)
  BY DEF Named, Reported, Filled, Exchanges, Channels, Copies, IsrEnd
<1> HIDE DEF p
<1>7. pulses' \in Seq(Pulses) /\ SpiSent' /\ (DmaSent' <=> DmaSent)
  BY <1>5, <1>6, HasMore DEF SpiSent, DmaSent
<1>8. One(pulses) /\ ~SpiSent => One(pulses')
  BY <1>5, <1>6, OneMore DEF SpiSent
<1> QED
  BY <1>1, <1>2, <1>3, <1>4, <1>7, <1>8

(***************************************************************************)
(* The steps preserve the invariant.                                       *)
(***************************************************************************)

\* spi_xfer and the call of omap3_spi_dma_xfer.
LEMMA Calling ==
    ASSUME Types, Types', Inv, NEW len \in Lengths, Xfer(len) \/ DmaXfer(len) PROVE Inv'
<1>1. CASE Xfer(len)
  <2>1. InStep'
    <3> SUFFICES ASSUME "left" \notin upset'
                 PROVE (Sized /\ Idle /\ Exchange /\ Ended /\ Drained /\ Leftover /\ Copied)'
      BY DEF InStep
    <3>1. "left" \notin upset /\ InStep /\ Types
      BY <1>1 DEF Xfer, Thread, ChannelOff, Least, dev, seen, Inv
    <3> QED
      BY <1>1, <3>1, SpiAssumption
        DEF Xfer, Thread, Least, SpiSent, InStep, Sized, Idle, Ended, Drained, Leftover, Copied,
            Running, Exchange
  <2>2. Prompt'
    <3> SUFFICES ASSUME "slow" \notin hazards
                 PROVE (upset = {} /\ Awaited /\ Lone /\ Framed /\ Outcome)'
      BY <1>1 DEF Prompt, Xfer, Thread, ChannelOff, Least, dev, seen
    <3>1. upset = {} /\ InStep /\ Types /\ Awaited /\ Lone /\ Framed /\ Outcome
      BY DEF Inv, Prompt
    <3>2. upset' = {}
      BY <1>1, <3>1 DEF Xfer
    <3>3. (Awaited /\ Lone /\ Framed)'
      BY <1>1, <3>1, SpiAssumption
        DEF Xfer, Thread, ChannelOff, DmaSent, InStep, Idle, Awaited, Lone, Framed
    <3>4. Outcome'
      BY <1>1, SpiAssumption DEF Xfer, Thread, Outcome, NeverStalls, Returned
    <3> QED
      BY <3>2, <3>3, <3>4
  <2> QED
    BY <2>1, <2>2 DEF Inv
<1>2. CASE DmaXfer(len)
  <2>1. InStep'
    <3> SUFFICES ASSUME "left" \notin upset'
                 PROVE (Sized /\ Idle /\ Exchange /\ Ended /\ Drained /\ Leftover /\ Copied)'
      BY DEF InStep
    <3>1. "left" \notin upset /\ InStep /\ Types
      BY <1>2 DEF DmaXfer, Thread, dev, seen, Inv
    <3>0. Quiet
      BY <3>1 DEF Quiet
    <3>2. Sized'
      <4>1. call'.len = len /\ call'.dma /\ len > 0
        BY <1>2, <3>0, SettingUp, SpiAssumption DEF SpiAssumption
      <4> QED
        BY <4>1 DEF Sized
    <3>3. Idle'
      BY <1>2, Fields, SpiAssumption
        DEF DmaXfer, Thread, SpiSent, DmaSent, dev, seen, InStep, Types, Named, Counted,
            Reported, Filled, Idle, Ended, Drained, Leftover, Copied, ChannelOff
    <3>4. Exchange'
      BY <1>2, <3>0, SettingUp
        DEF Thread, SpiSent, DmaSent, dev, seen, InStep, Types, Named, Counted, Reported,
            Filled, Sized, Idle, Running, Exchange, Ended, Drained, Least, ChannelOff,
            SpiAssumption
    <3>5. Ended'
      BY <1>2, <3>0, SettingUp
        DEF Thread, SpiSent, DmaSent, dev, seen, InStep, Types, Named, Counted, Reported,
            Filled, Sized, Idle, Running, Exchange, Ended, Drained, Least, ChannelOff,
            SpiAssumption
    <3>6. Drained'
      BY <1>2, <3>0, SettingUp
        DEF Thread, SpiSent, DmaSent, dev, seen, InStep, Types, Named, Counted, Reported,
            Filled, Sized, Idle, Running, Exchange, Ended, Drained, Least, SpiAssumption
    <3>7. Copied'
      <4>1. ~ie /\ hw = ChannelOff /\ ~SpiSent /\ "EOW" \notin stat
        BY <1>2, <3>1 DEF DmaXfer, Thread, InStep, Types, Idle
      <4>2. UNCHANGED <<ie, hw, pulses, stat>> /\ pc' = "wait" /\ good' = 0 /\ result' = len
        BY <1>2 DEF DmaXfer, Thread
      <4>3. call'.len = len /\ dma'.left = len /\ ~dma'.frame /\ len \in Nat
        BY <1>2, <3>0, SettingUp, SpiAssumption DEF SpiAssumption
      <4>4. ~SpiSent'
        BY <4>1, <4>2 DEF SpiSent
      <4>5. good' + dma'.left = call'.len
        BY <4>2, <4>3
      <4> QED
        BY <4>1, <4>2, <4>3, <4>4, <4>5 DEF Copied
    <3>8. Leftover'
      BY <1>2 DEF DmaXfer, Leftover
    <3> QED
      BY <3>2, <3>3, <3>4, <3>5, <3>6, <3>7, <3>8
  <2>2. Prompt'
    <3> SUFFICES ASSUME "slow" \notin hazards
                 PROVE (upset = {} /\ Awaited /\ Lone /\ Framed /\ Outcome)'
      BY <1>2 DEF Prompt, DmaXfer, Thread, dev, seen
    <3>1. upset = {} /\ InStep /\ Types /\ Awaited /\ Lone /\ Framed /\ Outcome
      BY DEF Inv, Prompt
    <3>0. Quiet
      BY <3>1 DEF Quiet
    <3>2. upset' = {}
      BY <1>2, <3>1, Fields, SpiAssumption
        DEF DmaXfer, Thread, SpiSent, DmaSent, dev, seen, InStep, Types, Named, Counted,
            Reported, Filled, Sized, Idle, Running, Exchange, Ended, Drained, Leftover, Copied,
            Awaited, Lone, Framed, Outcome, NeverStalls, Returned, Least, SpiAssumption
    <3>3. Awaited'
      BY <1>2, <3>0, SettingUp
        DEF Thread, SpiSent, DmaSent, dev, seen, InStep, Types, Named, Counted, Reported,
            Filled, Sized, Idle, Running, Exchange, Ended, Awaited, Least, ChannelOff,
            SpiAssumption
    <3>4. Lone'
      BY <1>2, <3>1, Fields, SpiAssumption
        DEF DmaXfer, Thread, SpiSent, DmaSent, dev, seen, InStep, Types, Named, Counted,
            Reported, Filled, Idle, Running, Exchange, Ended, Drained, Leftover, Copied, Lone
    <3>5. Framed'
      BY <1>2, <3>1, Fields, SpiAssumption
        DEF DmaXfer, Thread, SpiSent, DmaSent, dev, seen, InStep, Types, Named, Counted,
            Reported, Filled, Idle, Copied, Ended, Framed
    <3>6. Outcome'
      BY <1>2, Fields, SpiAssumption
        DEF DmaXfer, Thread, SpiSent, DmaSent, dev, seen, InStep, Types, Named, Counted,
            Reported, Filled, Sized, Idle, Running, Exchange, Ended, Drained, Leftover, Copied,
            Awaited, Lone, Framed, Outcome, NeverStalls, Returned, Least, SpiAssumption
    <3> QED
      BY <3>2, <3>3, <3>4, <3>5, <3>6
  <2> QED
    BY <2>1, <2>2 DEF Inv
<1> QED
  BY <1>1, <1>2

\* The thread lets the transfer run and waits for what ends it.
LEMMA Waiting ==
    ASSUME Types, Types', Inv, Enable \/ TakeEvent \/ TakeSdma \/ TimeOut PROVE Inv'
<1>1. CASE Enable
  <2>1. InStep'
    <3> SUFFICES ASSUME "left" \notin upset'
                 PROVE (Sized /\ Idle /\ Exchange /\ Ended /\ Drained /\ Leftover /\ Copied)'
      BY DEF InStep
    <3>1. "left" \notin upset /\ InStep /\ Types
      BY <1>1 DEF Enable, Thread, dev, seen, Inv
    <3> QED
      BY <1>1, <3>1
        DEF Enable, Thread, SpiSent, dev, seen, InStep, Sized, Idle, Ended, Drained, Leftover, Copied,
            Running, Exchange
  <2>2. Prompt'
    <3> SUFFICES ASSUME "slow" \notin hazards
                 PROVE (upset = {} /\ Awaited /\ Lone /\ Framed /\ Outcome)'
      BY <1>1 DEF Prompt, Enable, Thread, dev, seen
    <3>1. upset = {} /\ InStep /\ Types /\ Awaited /\ Lone /\ Framed /\ Outcome
      BY DEF Inv, Prompt
    <3>2. upset' = {}
      BY <1>1, <3>1 DEF Enable, seen
    <3>3. (Awaited /\ Lone /\ Framed)'
      BY <1>1, <3>1
        DEF Enable, Thread, SpiSent, DmaSent, dev, InStep, Running, Awaited, Copied, Lone,
            Framed
    <3>4. Outcome'
      BY <1>1 DEF Enable, Thread, Outcome, NeverStalls, Returned
    <3> QED
      BY <3>2, <3>3, <3>4
  <2> QED
    BY <2>1, <2>2 DEF Inv
<1>2. CASE TakeEvent
  <2>1. InStep'
    <3> SUFFICES ASSUME "left" \notin upset'
                 PROVE (Sized /\ Idle /\ Exchange /\ Ended /\ Drained /\ Leftover /\ Copied)'
      BY DEF InStep
    <3>1. "left" \notin upset /\ InStep /\ Types
      BY <1>2 DEF TakeEvent, Thread, dev, seen, Inv
    <3>0. Quiet
      BY <3>1 DEF Quiet
    <3>2. (Sized /\ Idle /\ Ended /\ Copied)'
      BY <1>2, <3>1, <3>0, EventTaken
        DEF TakeEvent, Thread, dev, seen, InStep, Sized, Idle, Ended, Copied
    <3>3. Exchange'
      <4>1. stat = {} /\ pc = "wait" /\ pc' \in {"last", "disable"}
            /\ (rlen = xlen => pc' = "disable")
        BY <1>2, <3>0, EventTaken DEF TakeEvent, Thread
      <4>2. UNCHANGED <<call, xlen, tlen, rlen, good, hw, stat>>
        BY <1>2 DEF TakeEvent, dev, seen
      <4> SUFFICES ASSUME ~call.dma, pc' = "last" PROVE Exchange'
        BY <4>1, <4>2 DEF Exchange, Running
      <4>3. Exchange /\ Running
        BY <3>1, <4>1 DEF InStep, Running
      <4>4. rlen < xlen
        BY <3>1, <4>1, <4>3 DEF Exchange, Types, Counted
      <4> QED
        BY <4>1, <4>2, <4>3, <4>4 DEF Exchange
    <3>4. Drained'
      <4>1. ~call.dma /\ stat = {} /\ pc = "wait" /\ pc' \in {"last", "disable"}
            /\ (pc' = "disable" => rlen = xlen)
        BY <1>2, <3>0, EventTaken DEF TakeEvent, Thread
      <4>2. /\ xlen = call.len /\ rlen \in 0 .. xlen /\ good = rlen
                 /\ tlen = Least(rlen + Fifo, xlen)
            /\ hw.tx + hw.rx = tlen - rlen
        BY <3>1, <4>1 DEF InStep, Types, Exchange, Running
      <4>3. pc' = "disable" => hw.tx = 0
        BY <3>1, <4>1, <4>2, Fields, SpiAssumption
          DEF SpiAssumption, Least, InStep, Types, Named, Counted
      <4>4. UNCHANGED <<call, rlen, good, hw, stat>>
        BY <1>2 DEF TakeEvent, dev, seen
      <4> QED
        BY <4>1, <4>2, <4>3, <4>4 DEF Drained
    <3>5. Leftover'
      <4> SUFFICES ASSUME pc' = "disable" PROVE Leftover'
        BY <1>2 DEF TakeEvent, Thread, Leftover
      <4>1. ~call.dma /\ stat = {} /\ pc = "wait" /\ rlen = xlen
        BY <1>2, <3>0, EventTaken DEF TakeEvent, Thread
      <4>2. /\ tlen = Least(rlen + Fifo, xlen) /\ hw.tx + hw.rx = tlen - rlen
        BY <3>1, <4>1 DEF InStep, Exchange, Running
      <4>3. xlen \in Nat /\ Fifo \in Nat
        BY SpiAssumption DEF SpiAssumption, Types, Counted
      <4>4. tlen - rlen = 0 /\ rlen >= -1
        BY <4>1, <4>2, <4>3 DEF Least
      <4>5. UNCHANGED <<tlen, rlen, hw, stat>>
        BY <1>2 DEF TakeEvent, dev
      <4> QED
        BY <4>1, <4>2, <4>3, <4>4, <4>5 DEF Leftover
    <3> QED
      BY <3>2, <3>3, <3>4, <3>5
  <2>2. Prompt'
    <3> SUFFICES ASSUME "slow" \notin hazards
                 PROVE (upset = {} /\ Awaited /\ Lone /\ Framed /\ Outcome)'
      BY <1>2 DEF Prompt, TakeEvent, Thread, dev, seen
    <3>1. upset = {} /\ InStep /\ Types /\ Awaited /\ Lone /\ Framed /\ Outcome
      BY DEF Inv, Prompt
    <3>0. Quiet
      BY <3>1 DEF Quiet
    <3>2. upset' = {}
      BY <1>2, <3>1 DEF TakeEvent, seen
    <3>3. (Awaited /\ Lone /\ Framed)'
      BY <1>2, <3>1, <3>0, EventTaken
        DEF TakeEvent, Thread, dev, Running, Awaited, Lone, Framed
    <3>4. Outcome'
      <4>1. Drained'
        <5>1. ~call.dma /\ stat = {} /\ pc = "wait" /\ pc' \in {"last", "disable"}
              /\ (pc' = "disable" => rlen = xlen)
          BY <1>2, <3>0, EventTaken DEF TakeEvent, Thread
        <5>2. /\ xlen = call.len /\ rlen \in 0 .. xlen /\ good = rlen
                   /\ tlen = Least(rlen + Fifo, xlen)
              /\ hw.tx + hw.rx = tlen - rlen
          BY <3>1, <5>1 DEF InStep, Types, Exchange, Running
        <5>3. pc' = "disable" => hw.tx = 0
          BY <3>1, <5>1, <5>2, Fields, SpiAssumption
            DEF SpiAssumption, Least, InStep, Types, Named, Counted
        <5>4. UNCHANGED <<call, rlen, good, hw, stat>>
          BY <1>2 DEF TakeEvent, dev, seen
        <5> QED
          BY <5>1, <5>2, <5>3, <5>4 DEF Drained
      <4>2. ~call.dma /\ stat = {} /\ pc' \in {"last", "disable"} /\ call' = call
            /\ stat' = stat /\ hw' = hw
        BY <1>2, <3>0, EventTaken DEF TakeEvent, Thread
      <4>3. pc' = "disable" => rlen' = call.len /\ hw'.tx = 0
        BY <1>2, <3>1, <4>2, Fields
          DEF InStep, Types, Exchange, Running, TakeEvent, Thread, dev, Least, Named,
              Counted, SpiAssumption
      <4> QED
        BY <4>2, <4>3 DEF Outcome, NeverStalls, Returned
    <3> QED
      BY <3>2, <3>3, <3>4
  <2> QED
    BY <2>1, <2>2 DEF Inv
<1>3. CASE TakeSdma
  <2>1. InStep'
    <3> SUFFICES ASSUME "left" \notin upset'
                 PROVE (Sized /\ Idle /\ Exchange /\ Ended /\ Drained /\ Leftover /\ Copied)'
      BY DEF InStep
    <3>1. "left" \notin upset /\ InStep /\ Types
      BY <1>3 DEF TakeSdma, Thread, Unmasked, dev, seen, Inv
    <3>0. Quiet
      BY <3>1 DEF Quiet
    <3> QED
      BY <1>3, <3>1, <3>0, Taking
        DEF TakeSdma, Thread, dev, seen, InStep, Sized, Idle, Ended, Drained, Leftover, Copied,
            Running, Exchange
  <2>2. Prompt'
    <3> SUFFICES ASSUME "slow" \notin hazards
                 PROVE (upset = {} /\ Awaited /\ Lone /\ Framed /\ Outcome)'
      BY <1>3 DEF Prompt, TakeSdma, Thread, Unmasked, dev, seen
    <3>1. upset = {} /\ InStep /\ Types /\ Awaited /\ Lone /\ Framed /\ Outcome
      BY DEF Inv, Prompt
    <3>0. Quiet
      BY <3>1 DEF Quiet
    <3>2. upset' = {}
      BY <1>3, <3>1 DEF TakeSdma, seen
    <3>3. (Awaited /\ Lone /\ Framed)'
      BY <1>3, <3>1, <3>0, Taking
        DEF TakeSdma, Thread, dev, InStep, Running, Ended, Awaited, Copied, Lone, Framed
    <3>4. Outcome'
      BY <1>3, <3>1
        DEF TakeSdma, Thread, InStep, Ended, Copied, Outcome, NeverStalls, Returned
    <3> QED
      BY <3>2, <3>3, <3>4
  <2> QED
    BY <2>1, <2>2 DEF Inv
<1>4. CASE TimeOut
  <2>1. InStep'
    <3> SUFFICES ASSUME "left" \notin upset'
                 PROVE (Sized /\ Idle /\ Exchange /\ Ended /\ Drained /\ Leftover /\ Copied)'
      BY DEF InStep
    <3>1. "left" \notin upset /\ InStep /\ Types
      BY <1>4 DEF TimeOut, Thread, Dead, Shifts, Interrupt, dev, seen, Inv
    <3>2. (Sized /\ Idle /\ Exchange /\ Ended /\ Drained /\ Copied)'
      BY <1>4, <3>1
        DEF TimeOut, Thread, SpiSent, seen, InStep, Sized, Idle, Ended, Drained, Copied,
            Running, Exchange
    <3>3. Leftover'
      <4> SUFFICES ASSUME ~call.dma PROVE Leftover'
        BY <1>4 DEF TimeOut, Leftover
      <4>1. pc = "wait" /\ rlen' = -1 /\ UNCHANGED <<tlen, hw, stat>>
        BY <1>4 DEF TimeOut, Thread
      <4>2. /\ tlen = Least(rlen + Fifo, xlen) /\ hw.tx + hw.rx = tlen - rlen
            /\ rlen \in 0 .. xlen /\ ("RXF" \in stat => hw.rx = Fifo)
        BY <3>1, <4>1 DEF InStep, Exchange, Running
      <4>3. xlen \in Nat /\ Fifo \in Nat
        BY SpiAssumption DEF SpiAssumption, Types, Counted
      <4>4. tlen - rlen <= Fifo /\ tlen - rlen <= tlen - (-1)
        BY <4>2, <4>3 DEF Least
      <4> QED
        BY <4>1, <4>2, <4>4 DEF Leftover
    <3> QED
      BY <3>2, <3>3
  <2>2. Prompt'
    <3> SUFFICES ASSUME "slow" \notin hazards
                 PROVE (upset = {} /\ Awaited /\ Lone /\ Framed /\ Outcome)'
      BY <1>4 DEF Prompt, TimeOut, Thread, Dead, Shifts, Interrupt, dev, seen
    <3>1. upset = {} /\ InStep /\ Types /\ Awaited /\ Lone /\ Framed /\ Outcome
      BY DEF Inv, Prompt
    <3>2. upset' = {}
      BY <1>4, <3>1 DEF TimeOut, seen
    <3>3. (Awaited /\ Framed)'
      BY <1>4, <3>1 DEF TimeOut, Thread, DmaSent, Running, Awaited, Framed
    <3>4. Lone'
      BY <1>4, <3>1 DEF TimeOut, Thread, Lone, One, SpiSent, Has
    <3>5. Outcome'
      <4>1. pulses = <<>> /\ Dead /\ pc = "wait" /\ pc' = "disable"
        BY <1>4 DEF TimeOut, Thread
      <4>2. ~SpiSent /\ ~DmaSent
        BY <4>1 DEF SpiSent, DmaSent, Has
      <4>3. CASE call.dma
        BY <3>1, <4>1, <4>2, <4>3 DEF Dead, Framed
      <4>4. CASE ~call.dma
        <5>1. ie /\ stat \cap {"EOW", "RXF"} = {}
          BY <3>1, <4>1, <4>4 DEF Dead, Interrupt, InStep, Types, Ended
        <5>2. stat \subseteq {"TXE"} /\ stat' = stat
          BY <1>4, <3>1, <5>1 DEF InStep, Types, Named, Counted, TimeOut
        <5>3. /\ xlen = call.len /\ rlen \in 0 .. xlen /\ tlen = Least(rlen + Fifo, xlen)
              /\ hw.on /\ hw.tx + hw.rx = tlen - rlen /\ hw.sent = rlen + hw.rx
          BY <3>1, <4>1, <4>4 DEF InStep, Types, Exchange, Running
        <5>4. hw.tx \in Nat /\ hw.rx \in Nat /\ xlen \in Nat /\ Fifo \in Nat \ {0}
              /\ call.len <= Wrap /\ Wrap \in Nat
          BY <3>1, <4>1, <4>4, Fields, SpiAssumption
            DEF SpiAssumption, Sized, InStep, Types, Named, Counted
        <5>5. hw.tx + hw.rx <= Fifo
          BY <5>3, <5>4 DEF Least
        <5>6. hw.tx = 0
          BY <4>1, <5>3, <5>4, <5>5 DEF Dead, Shifts
        <5>7. hw.rx = Fifo => hw.sent = xlen
          BY <3>1, <4>1, <4>4, <5>1, <5>3, <5>4, <5>5, <5>6 DEF Awaited, Running, Least
        <5>8. hw.sent = xlen
          BY <5>3, <5>4, <5>5, <5>6, <5>7 DEF Least
        <5>9. ~(call.len < Wrap)
          BY <3>1, <4>1, <4>2, <4>4, <5>1, <5>8 DEF Awaited, Running
        <5> QED
          BY <1>4, <4>1, <4>4, <5>2, <5>6, <5>9 DEF TimeOut, Outcome, NeverStalls, Returned
      <4> QED
        BY <4>3, <4>4
    <3> QED
      BY <3>2, <3>3, <3>4, <3>5
  <2> QED
    BY <2>1, <2>2 DEF Inv
<1> QED
  BY <1>1, <1>2, <1>3, <1>4

\* The words that are left in the receiver when the wait is over.
LEMMA Draining ==
    ASSUME Types, Types', Inv, LastWords \/ NoLastWords \/ Drain PROVE Inv'
<1>1. CASE LastWords
  <2>1. InStep'
    <3> SUFFICES ASSUME "left" \notin upset'
                 PROVE (Sized /\ Idle /\ Exchange /\ Ended /\ Drained /\ Leftover /\ Copied)'
      BY DEF InStep
    <3>1. "left" \notin upset /\ InStep /\ Types
      BY <1>1 DEF LastWords, Thread, dev, seen, Inv
    <3>2. (Sized /\ Idle /\ Exchange /\ Ended /\ Copied)'
      BY <1>1, <3>1
        DEF LastWords, Thread, seen, InStep, Sized, Idle, Ended, Copied, Running, Exchange
    <3>3. Drained'
      <4>1. /\ pc = "last" /\ pc' = "drain" /\ hw.rx > 0 /\ todo' = tlen - rlen
            /\ UNCHANGED <<call, xlen, rlen, good, hw, stat>>
        BY <1>1 DEF LastWords, Thread, dev, seen
      <4>2. CASE call.dma
        BY <4>1, <4>2 DEF Drained
      <4>3. CASE ~call.dma
        <5>1. /\ xlen = call.len /\ rlen \in 0 .. xlen /\ good = rlen
                   /\ tlen = Least(rlen + Fifo, xlen)
              /\ hw.tx + hw.rx = tlen - rlen /\ hw.sent = rlen + hw.rx /\ rlen < xlen
          BY <3>1, <4>1, <4>3 DEF InStep, Types, Exchange, Running
        <5>2. hw.sent = xlen /\ stat = {}
          BY <3>1, <4>1, <4>3 DEF InStep, Types, Ended, Running
        <5>3. hw.tx \in Nat /\ hw.rx \in Nat /\ xlen \in Nat /\ tlen \in Int /\ Fifo \in Nat
          BY <3>1, Fields, SpiAssumption DEF SpiAssumption, InStep, Types, Named, Counted
        <5>4. tlen <= xlen
          BY <5>1, <5>3 DEF Least
        <5>5. hw.rx = xlen - rlen /\ hw.tx = 0 /\ tlen = xlen
          BY <5>1, <5>2, <5>3, <5>4
        <5> QED
          BY <4>1, <5>1, <5>2, <5>3, <5>5 DEF Drained
      <4> QED
        BY <4>2, <4>3
    <3>4. Leftover'
      <4> SUFFICES ASSUME ~call.dma PROVE Leftover'
        BY <1>1 DEF LastWords, Leftover
      <4>1. pc = "last" /\ UNCHANGED <<tlen, rlen, hw, stat>>
        BY <1>1 DEF LastWords, Thread, dev
      <4>2. /\ tlen = Least(rlen + Fifo, xlen) /\ hw.tx + hw.rx = tlen - rlen
            /\ rlen \in 0 .. xlen /\ stat = {}
        BY <3>1, <4>1 DEF InStep, Exchange, Ended, Running
      <4>3. xlen \in Nat /\ Fifo \in Nat
        BY SpiAssumption DEF SpiAssumption, Types, Counted
      <4>4. rlen >= -1 /\ hw.tx + hw.rx <= Fifo /\ hw.tx + hw.rx <= tlen - rlen
        BY <4>2, <4>3 DEF Least
      <4>5. stat' = {} /\ hw' = hw /\ tlen' = tlen /\ rlen' = rlen
        BY <4>1, <4>2
      <4> QED
        BY <4>4, <4>5 DEF Leftover
    <3> QED
      BY <3>2, <3>3, <3>4
  <2>2. Prompt'
    <3> SUFFICES ASSUME "slow" \notin hazards
                 PROVE (upset = {} /\ Awaited /\ Lone /\ Framed /\ Outcome)'
      BY <1>1 DEF Prompt, LastWords, Thread, dev, seen
    <3>1. upset = {} /\ InStep /\ Types /\ Awaited /\ Lone /\ Framed /\ Outcome
      BY DEF Inv, Prompt
    <3>2. upset' = {}
      BY <1>1, <3>1 DEF LastWords, seen
    <3>3. (Awaited /\ Lone /\ Framed)'
      BY <1>1, <3>1 DEF LastWords, Thread, SpiSent, DmaSent, Running, Awaited, Lone, Framed
    <3>4. Outcome'
      BY <1>1 DEF LastWords, Thread, Outcome, NeverStalls, Returned
    <3> QED
      BY <3>2, <3>3, <3>4
  <2> QED
    BY <2>1, <2>2 DEF Inv
<1>2. CASE NoLastWords
  <2>1. InStep'
    <3> SUFFICES ASSUME "left" \notin upset'
                 PROVE (Sized /\ Idle /\ Exchange /\ Ended /\ Drained /\ Leftover /\ Copied)'
      BY DEF InStep
    <3>1. "left" \notin upset /\ InStep /\ Types
      BY <1>2 DEF NoLastWords, Thread, Shifts, dev, seen, Inv
    <3> QED
      BY <1>2, <3>1
        DEF NoLastWords, Thread, InStep, Idle, Ended, Drained, Leftover, Copied, Running, Exchange
  <2>2. Prompt'
    <3> SUFFICES ASSUME "slow" \notin hazards
                 PROVE (upset = {} /\ Awaited /\ Lone /\ Framed /\ Outcome)'
      BY <1>2 DEF Prompt, NoLastWords, Thread, Shifts, dev, seen
    <3>1. upset = {} /\ InStep /\ Types /\ Awaited /\ Lone /\ Framed /\ Outcome
      BY DEF Inv, Prompt
    <3>2. upset' = {}
      BY <1>2, <3>1 DEF NoLastWords, seen
    <3>3. (Awaited /\ Lone /\ Framed)'
      BY <1>2, <3>1
        DEF NoLastWords, Thread, SpiSent, DmaSent, Running, Awaited, Lone, Framed
    <3>4. Outcome'
      <4>1. pc = "last" /\ pc' = "disable" /\ hw.rx = 0 /\ ~Shifts /\ ~call.dma
        BY <1>2, <3>1, Fields DEF NoLastWords, Thread, InStep, Copied
      <4>2. hw.sent = xlen /\ hw.sent = rlen + hw.rx /\ rlen < xlen /\ rlen \in 0 .. xlen
        BY <3>1, <4>1 DEF InStep, Exchange, Ended, Running
      <4> QED
        BY <3>1, <4>1, <4>2 DEF Types, Counted
    <3> QED
      BY <3>2, <3>3, <3>4
  <2> QED
    BY <2>1, <2>2 DEF Inv
<1>3. CASE Drain
  <2>1. InStep'
    <3> SUFFICES ASSUME "left" \notin upset'
                 PROVE (Sized /\ Idle /\ Exchange /\ Ended /\ Drained /\ Leftover /\ Copied)'
      BY DEF InStep
    <3>1. "left" \notin upset /\ InStep /\ Types
      BY <1>3 DEF Drain, Thread, Least, dev, seen, Inv
    <3>0. Quiet
      BY <3>1 DEF Quiet
    <3>2. (Sized /\ Idle /\ Exchange /\ Ended /\ Copied)'
      BY <1>3, <3>1, <3>0, WordDrained
        DEF Drain, Thread, InStep, Sized, Idle, Ended, Copied, Running, Exchange
    <3>3. Drained'
      <4>1. /\ ~call.dma /\ todo > 0 /\ todo = hw.rx /\ todo' = todo - 1
            /\ rlen' = rlen + 1 /\ good' = good + 1 /\ hw'.rx = hw.rx - 1 /\ hw'.tx = hw.tx
        BY <1>3, <3>0, WordDrained
      <4>2. /\ pc = "drain" /\ pc' = IF todo > 1 THEN "drain" ELSE "disable"
            /\ UNCHANGED <<call, xlen, stat>>
        BY <1>3 DEF Drain, Thread
      <4>3. todo = xlen - rlen /\ rlen >= 0 /\ good = rlen /\ hw.tx = 0 /\ stat = {}
            /\ xlen = call.len
        BY <3>1, <4>1, <4>2 DEF InStep, Drained
      <4>4. todo \in Int /\ rlen \in Int /\ xlen \in Nat /\ hw.rx \in Nat
        BY <3>1, Fields DEF Types, Counted
      <4>5. todo' = xlen - rlen' /\ rlen' >= 0 /\ good' = rlen' /\ todo' = hw'.rx
        BY <4>1, <4>3, <4>4
      <4>6. pc' = "drain" => todo' > 0
        BY <4>1, <4>2, <4>4
      <4>7. pc' = "disable" => rlen' = call.len
        BY <4>1, <4>2, <4>3, <4>4
      <4> QED
        BY <4>1, <4>2, <4>3, <4>5, <4>6, <4>7 DEF Drained
    <3>4. Leftover'
      <4>1. /\ ~call.dma /\ rlen' = rlen + 1 /\ hw'.rx = hw.rx - 1 /\ hw'.tx = hw.tx
        BY <1>3, <3>0, WordDrained
      <4>2. pc = "drain" /\ UNCHANGED <<tlen, stat>>
        BY <1>3 DEF Drain, Thread
      <4>3. /\ rlen >= -1 /\ hw.tx + hw.rx <= Fifo /\ hw.tx + hw.rx <= tlen - rlen
            /\ stat = {}
        BY <3>1, <4>1, <4>2 DEF InStep, Leftover, Drained
      <4>4. rlen \in Int /\ tlen \in Int /\ hw.tx \in Nat /\ hw.rx \in Nat /\ Fifo \in Nat
        BY Fields, SpiAssumption DEF SpiAssumption, Types, Counted
      <4>5. rlen' >= -1 /\ hw'.tx + hw'.rx <= Fifo /\ hw'.tx + hw'.rx <= tlen' - rlen'
        BY <4>1, <4>2, <4>3, <4>4
      <4> QED
        BY <4>2, <4>3, <4>5 DEF Leftover
    <3> QED
      BY <3>2, <3>3, <3>4
  <2>2. Prompt'
    <3> SUFFICES ASSUME "slow" \notin hazards
                 PROVE (upset = {} /\ Awaited /\ Lone /\ Framed /\ Outcome)'
      BY <1>3 DEF Prompt, Drain, Thread, Least, dev, seen
    <3>1. upset = {} /\ InStep /\ Types /\ Awaited /\ Lone /\ Framed /\ Outcome
      BY DEF Inv, Prompt
    <3>0. Quiet
      BY <3>1 DEF Quiet
    <3>2. upset' = {}
      BY <1>3, <3>1 DEF Drain
    <3>3. Awaited'
      BY <1>3 DEF Drain, Thread, Running, Awaited
    <3>4. Lone'
      BY <1>3, <3>1 DEF Drain, Thread, SpiSent, Lone
    <3>5. Framed'
      BY <1>3, <3>1, <3>0, WordDrained DEF Drain, DmaSent, Framed
    <3>6. Outcome'
      <4>1. /\ ~call.dma /\ todo > 0 /\ rlen' = rlen + 1 /\ hw'.tx = hw.tx
        BY <1>3, <3>0, WordDrained
      <4>2. /\ pc = "drain" /\ pc' = (IF todo > 1 THEN "drain" ELSE "disable")
            /\ UNCHANGED <<call, stat, hazards>>
        BY <1>3 DEF Drain, Thread
      <4>3. todo = xlen - rlen /\ hw.tx = 0 /\ stat = {} /\ xlen = call.len
        BY <3>1, <4>1, <4>2 DEF InStep, Drained
      <4>4. todo \in Int /\ rlen \in Int /\ xlen \in Nat
        BY DEF Types, Counted
      <4>5. pc' = "disable" => rlen' = call.len
        BY <4>1, <4>2, <4>3, <4>4
      <4> QED
        BY <4>1, <4>2, <4>3, <4>5 DEF Outcome, NeverStalls, Returned
    <3> QED
      BY <3>2, <3>3, <3>4, <3>5, <3>6
  <2> QED
    BY <2>1, <2>2 DEF Inv
<1> QED
  BY <1>1, <1>2, <1>3

\* The channel and the controller are switched off.
LEMMA Ending ==
    ASSUME Types, Types', Inv, Disable \/ Off PROVE Inv'
<1>1. CASE Disable
  <2>1. InStep'
    <3> SUFFICES ASSUME "left" \notin upset'
                 PROVE (Sized /\ Idle /\ Exchange /\ Ended /\ Drained /\ Leftover /\ Copied)'
      BY DEF InStep
    <3>1. "left" \notin upset /\ InStep /\ Types
      BY <1>1 DEF Disable, Thread, dev, seen, Inv
    <3> QED
      BY <1>1, <3>1
        DEF Disable, Thread, SpiSent, dev, seen, InStep, Sized, Idle, Ended, Drained,
            Leftover, Copied, Running, Exchange
  <2>2. Prompt'
    <3> SUFFICES ASSUME "slow" \notin hazards
                 PROVE (upset = {} /\ Awaited /\ Lone /\ Framed /\ Outcome)'
      BY <1>1 DEF Prompt, Disable, Thread, dev, seen
    <3>1. upset = {} /\ InStep /\ Types /\ Awaited /\ Lone /\ Framed /\ Outcome
      BY DEF Inv, Prompt
    <3>2. upset' = {}
      BY <1>1, <3>1 DEF Disable, seen
    <3>3. (Awaited /\ Lone /\ Framed)'
      BY <1>1, <3>1 DEF Disable, Thread, SpiSent, DmaSent, Running, Awaited, Lone, Framed
    <3>4. Outcome'
      BY <1>1, <3>1 DEF Disable, Thread, dev, Outcome, NeverStalls, Returned
    <3> QED
      BY <3>2, <3>3, <3>4
  <2> QED
    BY <2>1, <2>2 DEF Inv
<1>2. CASE Off
  <2>1. InStep'
    <3> SUFFICES ASSUME "left" \notin upset'
                 PROVE (Sized /\ Idle /\ Exchange /\ Ended /\ Drained /\ Leftover /\ Copied)'
      BY DEF InStep
    <3>1. "left" \notin upset /\ InStep /\ Types
      BY <1>2 DEF Off, Thread, ChannelOff, dev, seen, Inv
    <3>0. Quiet
      BY <3>1 DEF Quiet
    <3>2. (Sized /\ Exchange /\ Ended /\ Drained /\ Leftover /\ Copied)'
      BY <1>2, <3>1
        DEF Off, Thread, InStep, Sized, Running, Exchange, Ended, Drained, Leftover,
            Copied
    <3>3. Idle'
      <4>1. pc' = "idle" /\ UNCHANGED <<call, ie, stat, pulses, good>>
            /\ result' = IF call.dma THEN result ELSE rlen
        BY <1>2 DEF Off, Thread
      <4>2. hw' = ChannelOff /\ dma'.left = 0 /\ ~dma'.frame /\ "EOW" \notin stat /\ ~SpiSent
        BY <1>2, <3>0, SwitchingOff
      <4>3. ~ie
        BY <1>2, <3>1, Fields DEF Off, Thread, InStep, Types, Ended, Copied
      <4>4. call.n > 0 /\ result' >= 0 /\ "late" \notin upset =>
               result' = call.len /\ good = call.len
        <5>1. CASE call.dma
          <6>1. result' = result /\ good + dma.left = call.len
                /\ (result = -1 \/ (result = call.len /\ dma.left = 0))
            BY <1>2, <3>1, <4>1, <5>1 DEF Off, Thread, InStep, Types, Copied
          <6> QED
            BY <3>1, <6>1, Fields DEF InStep, Types, Named, Counted
        <5>2. CASE ~call.dma
          BY <1>2, <3>1, <4>1, <5>2 DEF Off, Thread, InStep, Types, Drained, Named, Counted
        <5> QED
          BY <5>1, <5>2
      <4>5. ~SpiSent'
        BY <4>1, <4>2 DEF SpiSent
      <4>6. "late" \in upset => "late" \in upset'
        BY <1>2 DEF Off
      <4> QED
        BY <4>1, <4>2, <4>3, <4>4, <4>5, <4>6 DEF Idle
    <3> QED
      BY <3>2, <3>3
  <2>2. Prompt'
    <3> SUFFICES ASSUME "slow" \notin hazards
                 PROVE (upset = {} /\ Awaited /\ Lone /\ Framed /\ Outcome)'
      BY <1>2 DEF Prompt, Off, Thread, ChannelOff, dev, seen
    <3>1. upset = {} /\ InStep /\ Types /\ Awaited /\ Lone /\ Framed /\ Outcome
      BY DEF Inv, Prompt
    <3>0. Quiet
      BY <3>1 DEF Quiet
    <3>2. upset' = {}
      BY <1>2, <3>1, <3>0, SwitchingOff DEF Off, Thread, InStep, Copied, Lone, Outcome
    <3>3. (Awaited /\ Lone /\ Framed)'
      BY <1>2, <3>1, <3>0, SwitchingOff
        DEF Off, Thread, DmaSent, Running, Awaited, Lone, Framed
    <3>4. Outcome'
      BY <1>2, <3>1 DEF Off, Thread, Outcome, NeverStalls
    <3> QED
      BY <3>2, <3>3, <3>4
  <2> QED
    BY <2>1, <2>2 DEF Inv
<1> QED
  BY <1>1, <1>2

\* The interrupt handler.
LEMMA Serving ==
    ASSUME Types, Types', Inv, IsrEnd \/ IsrWords PROVE Inv'
<1>1. CASE IsrEnd
  <2>1. InStep'
    <3> SUFFICES ASSUME "left" \notin upset'
                 PROVE (Sized /\ Idle /\ Exchange /\ Ended /\ Drained /\ Leftover /\ Copied)'
      BY DEF InStep
    <3>1. "left" \notin upset /\ InStep /\ Types
      BY <1>1 DEF IsrEnd, Isr, Interrupt, dev, seen, Inv
    <3> QED
      BY <1>1, <3>1
        DEF IsrEnd, Isr, seen, InStep, Sized, Idle, Ended, Drained, Leftover, Copied, Running,
            Exchange
  <2>2. Prompt'
    <3> SUFFICES ASSUME "slow" \notin hazards
                 PROVE (upset = {} /\ Awaited /\ Lone /\ Framed /\ Outcome)'
      BY <1>1 DEF Prompt, IsrEnd, Isr, Interrupt, dev, seen
    <3>1. upset = {} /\ InStep /\ Types /\ Awaited /\ Lone /\ Framed /\ Outcome
      BY DEF Inv, Prompt
    <3>0. Quiet
      BY <3>1 DEF Quiet
    <3>2. upset' = {}
      BY <1>1, <3>1 DEF IsrEnd, seen
    <3>3. (Awaited /\ Framed)'
      BY <1>1, <3>1, <3>0, Reporting, Fields
        DEF IsrEnd, Isr, Interrupt, Running, Awaited, Framed
    <3>4. Lone'
      <4>1. One(pulses) /\ (pc \in {"last", "drain", "disable", "off"} => ~SpiSent)
        BY <3>1 DEF Lone
      <4>2. pc # "disable"
        BY <1>1, <3>0, <3>1, Reporting DEF Outcome
      <4>3. pc = "wait" /\ ~SpiSent /\ pc' = pc
        BY <1>1, <3>0, <4>2, Reporting DEF IsrEnd, Isr
      <4>4. One(pulses')
        BY <1>1, <3>0, <4>1, <4>3, Reporting
      <4> QED
        BY <4>3, <4>4 DEF Lone
    <3>5. Outcome'
      BY <1>1, <3>1 DEF IsrEnd, Isr, Outcome, NeverStalls, Returned
    <3> QED
      BY <3>2, <3>3, <3>4, <3>5
  <2> QED
    BY <2>1, <2>2 DEF Inv
<1>2. CASE IsrWords
  <2>1. InStep'
    <3> SUFFICES ASSUME "left" \notin upset'
                 PROVE (Sized /\ Idle /\ Exchange /\ Ended /\ Drained /\ Leftover /\ Copied)'
      BY DEF InStep
    <3>1. "left" \notin upset /\ InStep /\ Types
      BY <1>2 DEF IsrWords, Isr, Interrupt, Refill, ToRead, Least, dev, seen, Inv
    <3>0. Quiet
      BY <3>1 DEF Quiet
    <3>2. (Sized /\ Idle /\ Ended /\ Copied)'
      BY <1>2, <3>1
        DEF IsrWords, Isr, Interrupt, SpiSent, InStep, Sized, Idle, Ended, Copied, Running
    <3>3. Exchange'
      <4> SUFFICES ASSUME pc = "wait" PROVE Exchange'
        BY <1>2, <3>0, RoundsAgain DEF IsrWords, Isr, Exchange, Running
      <4>2. /\ ~call.dma /\ hw.rx = Fifo /\ rlen + Fifo <= tlen
            /\ rlen' = rlen + Fifo /\ good' = good + Fifo
                 /\ tlen' = tlen + Least(Fifo, xlen - tlen)
            /\ hw'.on = hw.on /\ hw'.words = hw.words /\ hw'.sent = hw.sent
            /\ hw'.rx = 0 /\ hw'.tx = hw.tx + Least(Fifo, xlen - tlen) /\ stat' = {}
            /\ UNCHANGED <<pc, call, xlen>>
        BY <1>2, <3>0, Rounds DEF IsrWords, Isr
      <4>3. /\ xlen = call.len /\ rlen \in 0 .. xlen /\ good = rlen
                 /\ tlen = Least(rlen + Fifo, xlen)
            /\ hw.on /\ hw.words = xlen % Wrap
            /\ hw.tx + hw.rx = tlen - rlen /\ hw.sent = rlen + hw.rx
        BY <3>1, <4>2 DEF InStep, Types, Exchange, Running
      <4>4. xlen \in Nat /\ tlen \in Int /\ Fifo \in Nat \ {0} /\ hw.tx \in Nat
        BY <3>1, Fields, SpiAssumption DEF SpiAssumption, InStep, Types, Named, Counted
      <4>5. tlen = rlen + Fifo /\ tlen <= xlen /\ tlen' = Least(rlen' + Fifo, xlen)
        BY <4>2, <4>3, <4>4 DEF Least
      <4>6. rlen' \in 0 .. xlen /\ good' = rlen' /\ hw'.sent = rlen' + hw'.rx
            /\ hw'.tx + hw'.rx = tlen' - rlen'
        <5>1. Least(Fifo, xlen - tlen) \in Int
          BY <4>4 DEF Least
        <5>2. rlen' \in 0 .. xlen /\ good' = rlen'
          BY <4>2, <4>3, <4>4, <4>5
        <5>3. hw'.sent = rlen' + hw'.rx
          BY <4>2, <4>3, <4>4
        <5>4. hw'.tx + hw'.rx = tlen' - rlen'
          BY <4>2, <4>3, <4>4, <5>1
        <5> QED
          BY <5>2, <5>3, <5>4
      <4> QED
        BY <4>2, <4>3, <4>5, <4>6 DEF Exchange
    <3>4. (Drained /\ Leftover)'
      <4>1. CASE pc = "wait"
        BY <1>2, <4>1 DEF IsrWords, Isr, Drained, Leftover
      <4>2. CASE pc # "wait"
        <5>1. pc' = "disable" /\ "late" \in upset' /\ stat' = {} /\ rlen' >= 0
              /\ hw'.tx + hw'.rx <= Fifo /\ hw'.tx + hw'.rx <= tlen' - rlen'
          BY <1>2, <3>0, <4>2, RoundsAgain DEF IsrWords, Isr
        <5>2. rlen' >= -1
          BY <5>1 DEF Types, Counted
        <5> QED
          BY <5>1, <5>2 DEF Drained, Leftover
      <4> QED
        BY <4>1, <4>2
    <3> QED
      BY <3>2, <3>3, <3>4
  <2>2. Prompt'
    <3> SUFFICES ASSUME "slow" \notin hazards
                 PROVE (upset = {} /\ Awaited /\ Lone /\ Framed /\ Outcome)'
      BY <1>2 DEF Prompt, IsrWords, Isr, Interrupt, Refill, ToRead, Least, dev, seen
    <3>1. upset = {} /\ InStep /\ Types /\ Awaited /\ Lone /\ Framed /\ Outcome
      BY DEF Inv, Prompt
    <3>0. Quiet
      BY <3>1 DEF Quiet
    <3>2. pc = "wait"
      <4>1. ie /\ "RXF" \in stat /\ "EOW" \notin stat
        BY <1>2 DEF IsrWords, Isr, Interrupt
      <4>2. ~call.dma /\ pc \in {"wait", "last", "drain", "disable"}
        BY <3>1, <4>1, Fields DEF InStep, Idle, Copied, Ended
      <4> QED
        BY <3>1, <4>1, <4>2 DEF InStep, Ended, Drained, Outcome, Running
    <3>3. upset' = {}
      BY <1>2, <3>0, <3>1, <3>2, Rounds
    <3>4. (Awaited /\ Lone /\ Framed)'
      BY <1>2, <3>1, <3>0, <3>2, Rounds, SpiAssumption
        DEF IsrWords, Isr, SpiSent, DmaSent, InStep, Running, Exchange, Awaited, Lone,
            Framed
    <3>5. Outcome'
      BY <1>2, <3>1 DEF IsrWords, Isr, Interrupt, Outcome, NeverStalls, Returned
    <3> QED
      BY <3>3, <3>4, <3>5
  <2> QED
    BY <2>1, <2>2 DEF Inv
<1> QED
  BY <1>1, <1>2

\* The hardware moves words.
LEMMA Moving ==
    ASSUME Types, Types', Inv, Shift \/ DmaWord PROVE Inv'
<1>1. CASE Shift
  <2>1. InStep'
    <3> SUFFICES ASSUME "left" \notin upset'
                 PROVE (Sized /\ Idle /\ Exchange /\ Ended /\ Drained /\ Leftover /\ Copied)'
      BY DEF InStep
    <3>1. "left" \notin upset /\ InStep /\ Types
      BY <1>1 DEF Shift, Shifts, Device, dev, seen, Inv
    <3>0. Quiet
      BY <3>1 DEF Quiet
    <3>2. (Sized /\ Idle /\ Drained /\ Copied)'
      BY <1>1, <3>1, <3>0, Shifting
        DEF Shift, Device, dev, InStep, Sized, Idle, Drained, Leftover, Copied
    <3>3. Exchange'
      <4>1. /\ hw'.on = hw.on /\ hw'.words = hw.words /\ hw'.sent = hw.sent + 1
            /\ hw'.rx = hw.rx + 1 /\ hw'.tx = hw.tx - 1 /\ hw.tx > 0
            /\ "RXF" \in stat' <=> "RXF" \in stat \/ hw.rx + 1 = Fifo
            /\ "TXE" \in stat' <=> "TXE" \in stat \/ hw.tx - 1 <= Fifo
        BY <1>1, <3>0, Shifting
      <4>2. UNCHANGED <<pc, call, xlen, tlen, rlen, good>>
        BY <1>1 DEF Shift, Device, dev
      <4> SUFFICES ASSUME Running PROVE Exchange'
        BY <4>2 DEF Exchange, Running
      <4>3. /\ xlen = call.len /\ rlen \in 0 .. xlen /\ good = rlen
            /\ tlen = Least(rlen + Fifo, xlen)
            /\ hw.on /\ hw.words = xlen % Wrap
            /\ hw.tx + hw.rx = tlen - rlen /\ hw.sent = rlen + hw.rx
            /\ pc = "last" => rlen < xlen
        BY <3>1 DEF InStep, Types, Exchange
      <4>4. "RXF" \in stat => hw.rx = Fifo /\ "TXE" \in stat
        BY <3>1 DEF InStep, Types, Exchange
      <4>5. hw.tx \in Nat /\ hw.rx \in Nat /\ xlen \in Nat /\ Fifo \in Nat
        BY <3>1, Fields, SpiAssumption DEF SpiAssumption, InStep, Types, Named, Counted
      <4>6. hw.tx + hw.rx <= Fifo
        BY <4>3, <4>5 DEF Least
      <4>7. "RXF" \notin stat
        BY <4>1, <4>4, <4>5, <4>6
      <4>8. "RXF" \in stat' => hw'.rx = Fifo /\ "TXE" \in stat'
        BY <4>1, <4>5, <4>6, <4>7
      <4>9. hw'.tx + hw'.rx = tlen - rlen /\ hw'.sent = rlen + hw'.rx
        BY <4>1, <4>3, <4>5
      <4> QED
        BY <4>1, <4>2, <4>3, <4>8, <4>9 DEF Exchange
    <3>4. Ended'
      <4>1. /\ hw'.words = hw.words /\ hw'.sent = hw.sent + 1 /\ hw.tx > 0
            /\ "EOW" \in stat' <=> "EOW" \in stat \/ hw.sent + 1 = hw.words
            /\ ~call.dma
        BY <1>1, <3>0, Shifting
      <4>2. UNCHANGED <<pc, call, xlen, rlen, ie, dma, pulses>>
        BY <1>1 DEF Shift, Device, dev
      <4>3. dma.left = 0 /\ ~dma.frame /\ (ie <=> pc \in {"wait", "last", "drain", "disable"})
        BY <3>1, <4>1 DEF InStep, Types, Ended
      <4>4. CASE ~Running
        BY <4>2, <4>3, <4>4 DEF Ended, Running
      <4>5. CASE Running
        <5>1. /\ xlen = call.len /\ rlen \in 0 .. xlen /\ tlen = Least(rlen + Fifo, xlen)
              /\ hw.words = xlen % Wrap /\ hw.tx + hw.rx = tlen - rlen /\ hw.sent = rlen + hw.rx
          BY <3>1, <4>5 DEF InStep, Types, Exchange
        <5>2. /\ hw.tx \in Nat /\ hw.rx \in Nat /\ xlen \in Nat /\ Fifo \in Nat
                   /\ Wrap \in Nat \ {0}
              /\ xlen > 0 /\ xlen <= Wrap
          BY <3>1, <4>5, <5>1, Fields, SpiAssumption
            DEF SpiAssumption, Sized, InStep, Types, Named, Counted, Running
        <5>3. hw.sent < xlen
          BY <4>1, <5>1, <5>2 DEF Least
        <5>4. "EOW" \notin stat /\ ~SpiSent /\ pc # "last"
          BY <3>1, <4>1, <4>5, <5>2, <5>3, Fields DEF InStep, Types, Ended
        <5>5. hw.words = IF xlen = Wrap THEN 0 ELSE xlen
          <6>1. xlen < Wrap => xlen % Wrap = xlen
            BY <5>2
          <6>2. Wrap % Wrap = 0
            BY <5>2
          <6>3. CASE xlen = Wrap
            BY <5>1, <6>2, <6>3
          <6>4. CASE xlen < Wrap
            BY <5>1, <5>2, <6>1, <6>4
          <6> QED
            BY <5>2, <6>3, <6>4
        <5>6. hw.sent + 1 = hw.words => hw.sent + 1 = xlen
          BY <5>1, <5>2, <5>5
        <5>7. "EOW" \in stat' => hw'.sent = xlen
          BY <4>1, <5>4, <5>6
        <5>8. ~SpiSent'
          BY <4>2, <5>4 DEF SpiSent
        <5> QED
          BY <4>2, <4>3, <5>4, <5>7, <5>8 DEF Ended, Running
      <4> QED
        BY <4>4, <4>5
    <3>5. Leftover'
      <4>1. /\ hw'.rx = hw.rx + 1 /\ hw'.tx = hw.tx - 1 /\ hw.tx > 0
            /\ "RXF" \in stat' <=> "RXF" \in stat \/ hw.rx + 1 = Fifo
        BY <1>1, <3>0, Shifting
      <4>2. UNCHANGED <<pc, call, tlen, rlen>>
        BY <1>1 DEF Shift, Device, dev
      <4> SUFFICES ASSUME ~call.dma, pc \in {"drain", "disable"} PROVE Leftover'
        BY <4>2 DEF Leftover
      <4>3. /\ rlen >= -1 /\ hw.tx + hw.rx <= Fifo /\ hw.tx + hw.rx <= tlen - rlen
            /\ "RXF" \in stat => hw.rx = Fifo
        BY <3>1 DEF InStep, Leftover
      <4>4. hw.tx \in Nat /\ hw.rx \in Nat /\ Fifo \in Nat
        BY Fields, SpiAssumption DEF SpiAssumption
      <4>5. hw'.tx + hw'.rx = hw.tx + hw.rx
        BY <4>1, <4>4
      <4>6. "RXF" \notin stat
        BY <4>1, <4>3, <4>4
      <4>7. "RXF" \in stat' => hw'.rx = Fifo
        BY <4>1, <4>6
      <4> QED
        BY <4>2, <4>3, <4>5, <4>7 DEF Leftover
    <3> QED
      BY <3>2, <3>3, <3>4, <3>5
  <2>2. Prompt'
    <3> SUFFICES ASSUME "slow" \notin hazards
                 PROVE (upset = {} /\ Awaited /\ Lone /\ Framed /\ Outcome)'
      BY <1>1 DEF Prompt, Shift, Shifts, Device, dev, seen
    <3>1. upset = {} /\ InStep /\ Types /\ Awaited /\ Lone /\ Framed /\ Outcome
      BY DEF Inv, Prompt
    <3>0. Quiet
      BY <3>1 DEF Quiet
    <3>2. upset' = {}
      BY <1>1, <3>1 DEF Shift, Device
    <3>3. Awaited'
      <4>1. /\ hw'.words = hw.words /\ hw'.sent = hw.sent + 1 /\ hw'.rx = hw.rx + 1 /\ hw.tx > 0
            /\ "EOW" \in stat' <=> "EOW" \in stat \/ hw.sent + 1 = hw.words
            /\ "RXF" \in stat' <=> "RXF" \in stat \/ hw.rx + 1 = Fifo
        BY <1>1, <3>0, Shifting
      <4>2. UNCHANGED <<pc, call, xlen>>
        BY <1>1 DEF Shift, Device, dev
      <4> SUFFICES ASSUME Running PROVE Awaited'
        BY <4>2 DEF Awaited, Running
      <4>3. xlen = call.len /\ hw.words = xlen % Wrap
        BY <3>1 DEF InStep, Types, Exchange
      <4>4. xlen \in Nat /\ Wrap \in Nat \ {0}
        BY <3>1, SpiAssumption DEF SpiAssumption, InStep, Types, Named, Counted
      <4>5. xlen < Wrap => xlen % Wrap = xlen
        BY <4>4
      <4>6. call'.len < Wrap /\ hw'.sent = xlen' => "EOW" \in stat'
        BY <4>1, <4>2, <4>3, <4>5
      <4>7. hw'.rx = Fifo => "RXF" \in stat'
        BY <4>1
      <4> QED
        BY <4>6, <4>7 DEF Awaited
    <3>4. (Lone /\ Framed)'
      BY <1>1, <3>1 DEF Shift, Device, SpiSent, DmaSent, Lone, Framed
    <3>5. Outcome'
      BY <1>1, <3>1, <3>0, Shifting
        DEF Shift, Device, Copied, Awaited, Outcome, NeverStalls, Returned
    <3> QED
      BY <3>2, <3>3, <3>4, <3>5
  <2> QED
    BY <2>1, <2>2 DEF Inv
<1>2. CASE DmaWord
  <2>1. InStep'
    <3> SUFFICES ASSUME "left" \notin upset'
                 PROVE (Sized /\ Idle /\ Exchange /\ Ended /\ Drained /\ Leftover /\ Copied)'
      BY DEF InStep
    <3>1. "left" \notin upset /\ InStep /\ Types
      BY <1>2 DEF DmaWord, Device, dev, seen, Inv
    <3>0. Quiet
      BY <3>1 DEF Quiet
    <3>2. (Sized /\ Idle /\ Exchange /\ Ended /\ Drained)'
      BY <1>2, <3>1
        DEF DmaWord, Device, InStep, Sized, Idle, Ended, Drained, Running, Exchange
    <3>3. Copied'
      <4>1. /\ dma.left > 0 /\ call.dma /\ pc \in {"wait", "disable", "off"}
            /\ dma'.left = dma.left - 1 /\ (dma'.frame <=> dma.frame \/ dma.left = 1)
            /\ (SpiSent' <=> SpiSent)
        BY <1>2, <3>0, Copying
      <4>2. UNCHANGED <<pc, call, result, ie, stat, hw>> /\ good' = good + 1
        BY <1>2 DEF DmaWord, Device
      <4>3. /\ ~ie /\ hw = ChannelOff /\ ~SpiSent /\ "EOW" \notin stat
            /\ good + dma.left = call.len /\ (dma.frame => dma.left = 0)
            /\ (pc = "wait" => result = call.len)
            /\ (pc \in {"disable", "off"} => result = -1 \/ (result = call.len /\ dma.left = 0))
        BY <3>1, <4>1 DEF InStep, Copied
      <4>4. dma.left \in Nat /\ good \in Nat /\ call.len \in Nat
        BY <3>1, Fields DEF Types, Counted
      <4>5. good' + dma'.left = call.len
        BY <4>1, <4>2, <4>3, <4>4
      <4>6. dma'.frame => dma'.left = 0
        BY <4>1, <4>3, <4>4
      <4>7. dma.left # 0
        BY <4>1, <4>4
      <4> QED
        BY <4>1, <4>2, <4>3, <4>5, <4>6, <4>7 DEF Copied
    <3>4. Leftover'
      BY <1>2, <3>0, Copying DEF DmaWord, Device, Leftover
    <3> QED
      BY <3>2, <3>3, <3>4
  <2>2. Prompt'
    <3> SUFFICES ASSUME "slow" \notin hazards
                 PROVE (upset = {} /\ Awaited /\ Lone /\ Framed /\ Outcome)'
      BY <1>2 DEF Prompt, DmaWord, Device, dev, seen
    <3>1. upset = {} /\ InStep /\ Types /\ Awaited /\ Lone /\ Framed /\ Outcome
      BY DEF Inv, Prompt
    <3>0. Quiet
      BY <3>1 DEF Quiet
    <3>2. upset' = {}
      BY <1>2, <3>1 DEF DmaWord, Device
    <3>3. (Awaited /\ Lone /\ Framed)'
      BY <1>2, <3>1, <3>0, Copying
        DEF DmaWord, Device, Reported, Running, Awaited, Drained, Leftover, Copied, Lone, Framed
    <3>4. Outcome'
      BY <1>2, <3>1, <3>0, Copying DEF DmaWord, Device, InStep, Copied, Outcome, NeverStalls
    <3> QED
      BY <3>2, <3>3, <3>4
  <2> QED
    BY <2>1, <2>2 DEF Inv
<1> QED
  BY <1>1, <1>2

(***************************************************************************)
(* The theorems.                                                           *)
(***************************************************************************)

\* In the initial states the channel is disabled and nothing is under way.
LEMMA Starts == Init => Types /\ Inv
<1> SUFFICES ASSUME Init PROVE Types /\ Inv
  OBVIOUS
<1>1. Fifo \in Nat \ {0} /\ Wrap \in Nat \ {0} /\ MaxCalls \in Nat
  BY SpiAssumption DEF SpiAssumption
<1>2. Types
  <2>1. Named
    <3>1. 0 \in 0 .. MaxCalls
      BY <1>1
    <3>2. call \in Exchanges
      BY <3>1 DEF Init, Exchanges
    <3> QED
      BY <3>2 DEF Init, Named, States
  <2>2. Counted /\ Room /\ pulses \in Seq(Pulses)
    BY DEF Init, Counted, Room
  <2>3. dma \in Copies
    BY DEF Init, Copies
  <2>4. Filled
    <3>1. 0 \in 0 .. MaxCalls /\ 0 \in 0 .. Wrap - 1 /\ 0 \in 0 .. 2 * Fifo
      BY <1>1
    <3> QED
      BY <3>1 DEF Init, Filled, Channels, ChannelOff
  <2> QED
    BY <2>1, <2>2, <2>3, <2>4 DEF Types, Reported
<1>3. ~SpiSent /\ One(pulses)
  BY DEF Init, SpiSent, Has, One
<1>4. InStep
  BY <1>3 DEF Init, InStep, Sized, Idle, Exchange, Running, Ended, Drained, Leftover, Copied
<1>5. Prompt
  BY <1>3 DEF Init, Prompt, Awaited, Running, Lone, Framed, Outcome, NeverStalls, Returned
<1> QED
  BY <1>2, <1>4, <1>5 DEF Inv

\* So it stays while nothing happens.
LEMMA Stays == ASSUME Types, Inv, UNCHANGED vars PROVE (Types /\ Inv)'
<1> USE DEF vars, dev, seen
<1>1. Types'
  BY DEF Types, Named, Counted, Reported, Filled, Room
<1>2. SpiSent' = SpiSent /\ DmaSent' = DmaSent /\ (One(pulses))' = One(pulses)
  BY DEF SpiSent, DmaSent, Has, One
<1>3. InStep'
  BY <1>2 DEF Inv, InStep, Sized, Idle, Exchange, Running, Ended, Drained, Leftover, Copied
<1>4. Prompt'
  BY <1>2 DEF Inv, Prompt, Awaited, Running, Lone, Framed, Outcome, NeverStalls, Returned
<1> QED
  BY <1>1, <1>3, <1>4 DEF Inv

\* Every step preserves the types.
LEMMA Typed == Types /\ [Next]_vars => Types'
<1> SUFFICES ASSUME Types, [Next]_vars PROVE Types'
  OBVIOUS
<1>1. CASE UNCHANGED vars
  BY <1>1 DEF vars, dev, Types, Named, Counted, Reported, Filled, Room, seen
<1>2. CASE Next
  BY <1>2, CallingTyped, WaitingTyped, DrainingTyped, EndingTyped, ServingTyped, MovingTyped
    DEF Next, Client, Driver
<1> QED
  BY <1>1, <1>2

\* Every step preserves the invariant.
LEMMA Inductive == Spec => [](Types /\ Inv)
<1>1. Types /\ Inv /\ [Next]_vars => (Types /\ Inv)'
  <2> SUFFICES ASSUME Types, Inv, [Next]_vars PROVE (Types /\ Inv)'
    OBVIOUS
  <2>1. CASE UNCHANGED vars
    BY <2>1, Stays
  <2>2. CASE Next
    <3>1. Types'
      BY <2>2, Typed
    <3> QED
      BY <2>2, <3>1, Calling, Waiting, Draining, Ending, Serving, Moving
        DEF Next, Client, Driver
  <2> QED
    BY <2>1, <2>2
<1> QED
  BY <1>1, Starts, PTL DEF Spec

\* Every reachable state is well typed, also after a time-out that came too late;
\* in particular no FIFO is ever written beyond its end.
THEOREM Typing == Spec => []TypeOK
<1>1. Types => TypeOK
  BY DEF Types, Named, Counted, Reported, Filled, States, Exchanges, Channels, Copies,
         Pulses, TypeOK
<1> QED
  BY <1>1, Inductive, PTL

\* An exchange that returns a length has moved all its words, whatever its length
\* is to the FIFO, unless spi_intr() went on with it after its time-out, or a
\* time-out before it left an event behind (omap3530_xfer(), omap3530_dmaxfer()).
THEOREM Moved == Spec => []LengthMeansMoved
<1>1. Inv => LengthMeansMoved
  BY DEF Inv, InStep, Idle, LengthMeansMoved, Returned
<1> QED
  BY <1>1, Inductive, PTL

\* Every word is read when it has come in, and put inside the buffer, but for one
\* word before the buffer between a time-out and the disabling of the interrupts,
\* as long as no event was left behind (spi_intr(), omap3530_xfer()).
THEOREM Placed == Spec => WordsInPlace
<1>1. ASSUME Types, Inv, [Next]_vars, "left" \notin upset
      PROVE  astray' = astray \/ (GivenUp /\ astray' = astray \cup {"before"})
  <2>1. Quiet
    BY <1>1 DEF Inv, Quiet
  <2>2. CASE IsrWords
    BY <2>1, <2>2, Rounds, RoundsAgain DEF GivenUp
  <2>3. CASE Drain
    BY <2>1, <2>3, WordDrained
  <2>4. CASE ~IsrWords /\ ~Drain
    BY <1>1, <2>4
      DEF Next, Client, Driver, Xfer, DmaXfer, Enable, TakeEvent, TakeSdma, TimeOut, LastWords,
          NoLastWords, Disable, Off, IsrEnd, Shift, DmaWord, Device, seen, vars
  <2> QED
    BY <2>2, <2>3, <2>4
<1>2. Types /\ Inv /\ [Next]_vars =>
        [\/ astray' = astray
         \/ "left" \in upset
         \/ GivenUp /\ astray' = astray \cup {"before"}]_vars
  BY <1>1
<1> QED
  BY <1>2, Inductive, PTL DEF Spec, WordsInPlace

\* No exchange that the word counter can hold times out on a bus that is not slow
\* (omap3530_wait(), spi_intr()).
THEOREM Refilled == Spec => []NeverStalls
<1>1. Inv => NeverStalls
  BY DEF Inv, Prompt, Outcome, NeverStalls
<1> QED
  BY <1>1, Inductive, PTL
=============================================================================
