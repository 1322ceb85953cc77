----------------------------- MODULE UartStream -----------------------------
(***************************************************************************)
(* One bound instance of App/uart_stream/uart_stream.c: the transmit and   *)
(* receive rings, the interrupt service that moves bytes between them and  *)
(* the USART, and the foreground calls.                                    *)
(*                                                                         *)
(* Three agents.  The USART shifts bytes out and in by itself.  The ISR    *)
(* runs in small steps, one per register access that matters, and holds    *)
(* the foreground off while it runs.  The foreground makes one call at a   *)
(* time, interruptible between any two of its steps.  A byte is its        *)
(* position in its stream: the n-th byte accepted for transmission is n,   *)
(* the n-th byte that arrived on the RX line is n.                         *)
(*                                                                         *)
(* The memcpy of a block call is one step here; ByteQueueSpsc takes it     *)
(* byte by byte.                                                           *)
(***************************************************************************)
EXTENDS ByteQueue, Sequences

CONSTANTS TxSize, RxSize,   \* ring sizes
          FifoDepth,        \* depth of the USART's TX and RX FIFOs
          MaxTx, MaxRx,     \* bounds: bytes offered and bytes that arrive
          MaxMinor,         \* bound: bytes of the less busy direction
          DrainTimeouts     \* whether the callers' own time limits may expire

ASSUME UartAssumption ==
    /\ TxSize \in 2..(IndexMod - 1) /\ RxSize \in 2..(IndexMod - 1)
    /\ FifoDepth \in Nat \ {0} /\ MaxTx \in Nat /\ MaxRx \in Nat /\ MaxMinor \in Nat
    /\ DrainTimeouts \in BOOLEAN

VARIABLES
    tx, rx,          \* the rings: [buf, head, tail]
    txeie,           \* CR1.TXEIE_TXFNFIE (RXNEIE stays set from init on)
    errors,          \* u32_error_count
    fg,              \* the foreground call in progress and its locals
    isr,             \* the interrupt service: where it is, and u32_isr
    txFifo, shift,   \* bytes in the USART's TX FIFO and its shift register
    tc,              \* ISR.TC, transmission complete
    rxFifo, ore,     \* bytes in the RX FIFO; ISR.ORE, overrun
    wire,            \* history: bytes completely sent
    accepted,        \* history: bytes accepted into the TX ring
    arrived,         \* history: bytes that arrived on the RX line
    got,             \* history: bytes handed to the foreground
    lost, untold     \* history: bytes dropped, in all and since the error
                     \* count was last cleared

txVars == <<tx, txeie, txFifo, shift, tc, wire, accepted>>
rxVars == <<rx, errors, rxFifo, ore, arrived, got, lost, untold>>
vars == <<txVars, rxVars, fg, isr>>

TxPending == QUsed(tx.head, tx.tail, TxSize)
RxPending == QUsed(rx.head, rx.tail, RxSize)
RingContents(q, size) ==
    [k \in 1..QUsed(q.head, q.tail, size) |-> q.buf[QAdvance(q.tail, k - 1, size)]]

\* queue.c on a ring that is a record.
EnqueueOne(q, x, size) ==
    [q EXCEPT !.buf[q.head] = x, !.head = QNext(q.head, size)]
DequeueOne(q, size) == [q EXCEPT !.tail = QNext(q.tail, size)]
\* memcpy of the n bytes x + 1 .. x + n to index at on.
CopyIn(q, at, n, x, size) ==
    [q EXCEPT !.buf = [s \in DOMAIN q.buf |->
        IF \E j \in 0..(n - 1) : BlockSlot(at, n, j, size) = s
        THEN x + 1 + (CHOOSE j \in 0..(n - 1) : BlockSlot(at, n, j, size) = s)
        ELSE q.buf[s]]]
CopyOut(q, at, n, size) == [j \in 1..n |-> q.buf[BlockSlot(at, n, j - 1, size)]]

\* A foreground call.  kind is the call, pc the next step of it; left is
\* u16_remaining, at and n the block in hand, ok that no time limit expired.
Idle == [kind |-> "none", pc |-> "idle", left |-> 0, at |-> 0, n |-> 0, ok |-> TRUE]
Call(kind, pc, left) == [Idle EXCEPT !.kind = kind, !.pc = pc, !.left = left]

IsrIdle == [pc |-> "idle", rxne |-> FALSE, txe |-> FALSE, err |-> FALSE]
\* Reading the USART's ISR register.
ReadIsr(pc) == [pc |-> pc, rxne |-> rxFifo # << >>,
                txe |-> Len(txFifo) < FifoDepth, err |-> ore]

\* x_uart_stream_init, on a UART the HAL has just brought up.
Init ==
    /\ tx = [buf |-> [s \in 0..(TxSize - 1) |-> 0], head |-> 0, tail |-> 0]
    /\ rx = [buf |-> [s \in 0..(RxSize - 1) |-> 0], head |-> 0, tail |-> 0]
    /\ txeie = FALSE /\ errors = 0
    /\ fg = Idle /\ isr = IsrIdle
    /\ txFifo = << >> /\ shift = << >> /\ tc = TRUE
    /\ rxFifo = << >> /\ ore = FALSE
    /\ wire = << >> /\ accepted = 0
    /\ arrived = 0 /\ got = << >> /\ lost = {} /\ untold = {}

----------------------------------------------------------------------------
(* The USART.                                                              *)

\* The shift register takes the oldest byte of the TX FIFO.
ShiftLoad ==
    /\ shift = << >> /\ txFifo # << >>
    /\ shift' = <<Head(txFifo)>> /\ txFifo' = Tail(txFifo)
    /\ UNCHANGED <<tx, txeie, tc, wire, accepted, rxVars, fg, isr>>

\* A frame ends; TC rises when nothing is left to send.
ShiftDone ==
    /\ shift # << >>
    /\ wire' = wire \o shift /\ shift' = << >>
    /\ tc' = (txFifo = << >>)
    /\ UNCHANGED <<tx, txeie, txFifo, accepted, rxVars, fg, isr>>

\* A frame arrives; with the FIFO full it is dropped and ORE rises.
Arrive ==
    /\ arrived < MaxRx
    /\ arrived < MaxMinor \/ accepted + fg.left <= MaxMinor
    /\ arrived' = arrived + 1
    /\ IF Len(rxFifo) < FifoDepth
       THEN /\ rxFifo' = Append(rxFifo, arrived + 1)
            /\ UNCHANGED <<ore, lost, untold>>
       ELSE /\ ore' = TRUE
            /\ lost' = lost \cup {arrived + 1}
            /\ untold' = untold \cup {arrived + 1}
            /\ UNCHANGED rxFifo
    /\ UNCHANGED <<txVars, rx, errors, got, fg, isr>>

----------------------------------------------------------------------------
(* The interrupt: b_uart_stream_service_uart and v_uart_stream_service.    *)

IrqLine == rxFifo # << >> \/ ore \/ (txeie /\ Len(txFifo) < FifoDepth)

\* The gate on the ISR register passes whenever the line is up, and the service
\* takes its first snapshot.
IsrEnter ==
    /\ isr.pc = "idle" /\ IrqLine
    /\ isr' = ReadIsr("rx")
    /\ UNCHANGED <<txVars, rxVars, fg>>

\* RDR is read and its byte stored, or counted as lost when the ring is full.
IsrTakeByte ==
    /\ isr.pc = "rx" /\ isr.rxne
    /\ rxFifo' = Tail(rxFifo)
    /\ IF QFull(rx.head, rx.tail, RxSize)
       THEN /\ errors' = errors + 1
            /\ lost' = lost \cup {Head(rxFifo)}
            /\ untold' = untold \cup {Head(rxFifo)}
            /\ UNCHANGED rx
       ELSE /\ rx' = EnqueueOne(rx, Head(rxFifo), RxSize)
            /\ UNCHANGED <<errors, lost, untold>>
    /\ isr' = [isr EXCEPT !.pc = "rxPoll"]
    /\ UNCHANGED <<txVars, ore, arrived, got, fg>>

IsrRxPoll ==
    /\ isr.pc = "rxPoll"
    /\ isr' = ReadIsr("rx")
    /\ UNCHANGED <<txVars, rxVars, fg>>

IsrRxDone ==
    /\ isr.pc = "rx" /\ ~isr.rxne
    /\ isr' = [isr EXCEPT !.pc = "tx"]
    /\ UNCHANGED <<txVars, rxVars, fg>>

\* One byte from the ring to TDR, which clears TC.
IsrGiveByte ==
    /\ isr.pc = "tx" /\ isr.txe /\ ~QEmpty(tx.head, tx.tail)
    /\ txFifo' = Append(txFifo, tx.buf[tx.tail])
    /\ tx' = DequeueOne(tx, TxSize)
    /\ tc' = FALSE
    /\ isr' = [isr EXCEPT !.pc = "txPoll"]
    /\ UNCHANGED <<txeie, shift, wire, accepted, rxVars, fg>>

IsrTxPoll ==
    /\ isr.pc = "txPoll"
    /\ isr' = ReadIsr("tx")
    /\ UNCHANGED <<txVars, rxVars, fg>>

\* Mutant of IsrErrors: the flags are cleared whether or not they were seen.
IsrErrorsBlind ==
    /\ isr.pc = "tx" /\ (~isr.txe \/ QEmpty(tx.head, tx.tail))
    /\ ore' = FALSE
    /\ errors' = IF isr.err THEN errors + 1 ELSE errors
    /\ isr' = [isr EXCEPT !.pc = "disarm"]
    /\ UNCHANGED <<txVars, rx, rxFifo, arrived, got, lost, untold, fg>>

\* Mutant of IsrErrors: errors are left alone.
IsrErrorsIgnored ==
    /\ isr.pc = "tx" /\ (~isr.txe \/ QEmpty(tx.head, tx.tail))
    /\ isr' = [isr EXCEPT !.pc = "disarm"]
    /\ UNCHANGED <<txVars, rxVars, fg>>

\* Errors of the last snapshot are cleared and counted once; the clear also
\* takes any that came since.
IsrErrors ==
    /\ isr.pc = "tx" /\ (~isr.txe \/ QEmpty(tx.head, tx.tail))
    /\ IF isr.err THEN ore' = FALSE /\ errors' = errors + 1
                  ELSE UNCHANGED <<ore, errors>>
    /\ isr' = [isr EXCEPT !.pc = "disarm"]
    /\ UNCHANGED <<txVars, rx, rxFifo, arrived, got, lost, untold, fg>>

\* Mutant of IsrDisarm: the transmit interrupt is disarmed whenever the FIFO
\* filled up, whatever the ring still holds.
IsrDisarmAlways ==
    /\ isr.pc = "disarm"
    /\ txeie' = FALSE
    /\ isr' = IsrIdle
    /\ UNCHANGED <<tx, txFifo, shift, tc, wire, accepted, rxVars, fg>>

\* The transmit interrupt goes off when the ring is empty, and the ISR returns.
IsrDisarm ==
    /\ isr.pc = "disarm"
    /\ txeie' = (txeie /\ ~QEmpty(tx.head, tx.tail))
    /\ isr' = IsrIdle
    /\ UNCHANGED <<tx, txFifo, shift, tc, wire, accepted, rxVars, fg>>

IsrStep ==
    \/ IsrEnter \/ IsrTakeByte \/ IsrRxPoll \/ IsrRxDone
    \/ IsrGiveByte \/ IsrTxPoll \/ IsrErrors \/ IsrDisarm

----------------------------------------------------------------------------
(* The foreground.  It runs only while the ISR does not.                   *)

Fg(kind, pc) == isr.pc = "idle" /\ fg.kind = kind /\ fg.pc = pc
Goto(pc) == fg' = [fg EXCEPT !.pc = pc]
Return == fg' = Idle

\* A call that offers n more bytes is within the bounds.
Offers(n) ==
    /\ accepted + n <= MaxTx
    /\ accepted + n <= MaxMinor \/ arrived <= MaxMinor

\* b_queue_enqueue of the next byte, which must fit.
StoreByte ==
    /\ ~QFull(tx.head, tx.tail, TxSize)
    /\ tx' = EnqueueOne(tx, accepted + 1, TxSize)
    /\ accepted' = accepted + 1
    /\ UNCHANGED <<txeie, txFifo, shift, tc, wire, rxVars, isr>>

\* b_uart_stream_tx_byte: a full ring is reported and changes nothing.
TxByte ==
    /\ Fg("none", "idle") /\ Offers(1)
    /\ StoreByte
    /\ fg' = Call("byte", "arm", 0)

\* b_uart_stream_tx_byte_blocking.
TxByteBlocking ==
    /\ Fg("none", "idle") /\ Offers(1)
    /\ fg' = Call("byteBlocking", "try", 1)
    /\ UNCHANGED <<txVars, rxVars, isr>>

TryByte ==
    /\ Fg("byteBlocking", "try")
    /\ \/ StoreByte /\ fg' = [fg EXCEPT !.pc = "arm", !.left = 0]
       \/ /\ QFull(tx.head, tx.tail, TxSize)
          /\ Goto("arm")
          /\ UNCHANGED <<txVars, rxVars, isr>>

\* u16_uart_stream_tx_multi and its blocking form, up to the snapshot.
TxMulti(len) ==
    /\ Fg("none", "idle") /\ Offers(len)
    /\ \E kind \in {"multi", "multiBlocking"} : fg' = Call(kind, "try", len)
    /\ UNCHANGED <<txVars, rxVars, isr>>

Multi == fg.kind \in {"multi", "multiBlocking"}

\* u16_queue_enqueue_multi: snapshot, copy, publish.  A call that finds no
\* room stores nothing; only the blocking form then arms and tries again.
TryMulti ==
    LET n == Clip(fg.left, QFree(tx.head, tx.tail, TxSize)) IN
    /\ isr.pc = "idle" /\ Multi /\ fg.pc = "try"
    /\ fg' = IF n > 0 THEN [fg EXCEPT !.pc = "copy", !.at = tx.head, !.n = n]
             ELSE IF fg.kind = "multi" THEN Idle ELSE [fg EXCEPT !.pc = "arm"]
    /\ UNCHANGED <<txVars, rxVars, isr>>

CopyMulti ==
    /\ isr.pc = "idle" /\ Multi /\ fg.pc = "copy"
    /\ tx' = CopyIn(tx, fg.at, fg.n, accepted, TxSize)
    /\ Goto("publish")
    /\ UNCHANGED <<txeie, txFifo, shift, tc, wire, accepted, rxVars, isr>>

PublishMulti ==
    /\ isr.pc = "idle" /\ Multi /\ fg.pc = "publish"
    /\ tx' = [tx EXCEPT !.head = QAdvance(fg.at, fg.n, TxSize)]
    /\ accepted' = accepted + fg.n
    /\ fg' = [fg EXCEPT !.pc = "arm", !.left = @ - fg.n, !.at = 0, !.n = 0]
    /\ UNCHANGED <<txeie, txFifo, shift, tc, wire, rxVars, isr>>

\* Mutant of ArmTx: only the calls that stored something arm the interrupt, so
\* that the blocking loop does not re-arm on a full ring.
ArmTxOnSuccess ==
    /\ isr.pc = "idle" /\ fg.pc = "arm"
    /\ txeie' = (txeie \/ fg.left = 0)
    /\ IF fg.left = 0 \/ fg.kind = "multi" THEN Return ELSE Goto("again")
    /\ UNCHANGED <<tx, txFifo, shift, tc, wire, accepted, rxVars, isr>>

\* v_uart_stream_tx_arm after an attempt of any of the four transmit calls.
\* The non-blocking forms return; the blocking ones look at what is left.
ArmTx ==
    /\ isr.pc = "idle" /\ fg.pc = "arm"
    /\ txeie' = TRUE
    /\ IF fg.left = 0 \/ fg.kind = "multi" THEN Return ELSE Goto("again")
    /\ UNCHANGED <<tx, txFifo, shift, tc, wire, accepted, rxVars, isr>>

TryAgain ==
    /\ isr.pc = "idle" /\ fg.pc = "again"
    /\ \/ Goto("try")
       \/ DrainTimeouts /\ Return
    /\ UNCHANGED <<txVars, rxVars, isr>>

----------------------------------------------------------------------------
\* v_uart_stream_tx_flush_timeout: arm; re-arm until the ring is empty or the
\* caller's limit is up; wait for TC or its own limit; clear TC.
Flush ==
    /\ Fg("none", "idle")
    /\ txeie' = TRUE
    /\ fg' = Call("flush", "drain", 0)
    /\ UNCHANGED <<tx, txFifo, shift, tc, wire, accepted, rxVars, isr>>

FlushDrained ==
    /\ Fg("flush", "drain") /\ QEmpty(tx.head, tx.tail)
    /\ Goto("tcWait")
    /\ UNCHANGED <<txVars, rxVars, isr>>

FlushRearm ==
    /\ Fg("flush", "drain") /\ ~QEmpty(tx.head, tx.tail)
    /\ \/ txeie' = TRUE /\ UNCHANGED fg
       \/ /\ DrainTimeouts
          /\ fg' = [fg EXCEPT !.pc = "tcWait", !.ok = FALSE]
          /\ UNCHANGED txeie
    /\ UNCHANGED <<tx, txFifo, shift, tc, wire, accepted, rxVars, isr>>

FlushTcSeen ==
    /\ Fg("flush", "tcWait") /\ tc
    /\ Goto("tcClear")
    /\ UNCHANGED <<txVars, rxVars, isr>>

\* The limit is derived from the baud rate, but the loop may also be held off
\* by other interrupts: it can expire with or without a frame on its way.
FlushTcTimeout ==
    /\ Fg("flush", "tcWait") /\ ~tc
    /\ fg' = [fg EXCEPT !.pc = "tcClear", !.ok = FALSE]
    /\ UNCHANGED <<txVars, rxVars, isr>>

FlushClearTc ==
    /\ Fg("flush", "tcClear")
    /\ tc' = FALSE
    /\ Return
    /\ UNCHANGED <<tx, txeie, txFifo, shift, wire, accepted, rxVars, isr>>

\* Mutant of IsTxBusy: only TC is looked at.
IsTxBusyTcOnly ==
    /\ Fg("none", "idle")
    /\ fg' = Call("busy", "tcRead", 0)
    /\ UNCHANGED <<txVars, rxVars, isr>>

\* b_uart_stream_is_tx_busy: the ring first, then, if empty, TC.
IsTxBusy ==
    /\ Fg("none", "idle")
    /\ IF QEmpty(tx.head, tx.tail) THEN fg' = Call("busy", "tcRead", 0)
                                   ELSE UNCHANGED fg
    /\ UNCHANGED <<txVars, rxVars, isr>>

IsTxBusyTc ==
    /\ Fg("busy", "tcRead")
    /\ Return
    /\ UNCHANGED <<txVars, rxVars, isr>>

----------------------------------------------------------------------------
\* i16_uart_stream_rx_byte.
RxByte ==
    /\ Fg("none", "idle") /\ ~QEmpty(rx.head, rx.tail)
    /\ got' = Append(got, rx.buf[rx.tail])
    /\ rx' = DequeueOne(rx, RxSize)
    /\ UNCHANGED <<txVars, errors, rxFifo, ore, arrived, lost, untold, fg, isr>>

\* u16_uart_stream_rx_multi: snapshot, copy, publish.
RxMulti(len) ==
    /\ Fg("none", "idle") /\ RxPending > 0
    /\ fg' = [Call("rxMulti", "copy", 0) EXCEPT
                 !.at = rx.tail, !.n = Clip(len, RxPending)]
    /\ UNCHANGED <<txVars, rxVars, isr>>

RxCopy ==
    /\ Fg("rxMulti", "copy")
    /\ got' = got \o CopyOut(rx, fg.at, fg.n, RxSize)
    /\ Goto("publish")
    /\ UNCHANGED <<txVars, rx, errors, rxFifo, ore, arrived, lost, untold, isr>>

\* Mutant of RxPublish: the tail moves to where the head is by now.
RxPublishFresh ==
    /\ Fg("rxMulti", "publish")
    /\ rx' = [rx EXCEPT !.tail = rx.head]
    /\ Return
    /\ UNCHANGED <<txVars, errors, rxFifo, ore, arrived, got, lost, untold, isr>>

RxPublish ==
    /\ Fg("rxMulti", "publish")
    /\ rx' = [rx EXCEPT !.tail = QAdvance(fg.at, fg.n, RxSize)]
    /\ Return
    /\ UNCHANGED <<txVars, errors, rxFifo, ore, arrived, got, lost, untold, isr>>

\* v_uart_stream_clear_error_count.
ClearErrorCount ==
    /\ Fg("none", "idle") /\ errors > 0
    /\ errors' = 0 /\ untold' = {}
    /\ UNCHANGED <<txVars, rx, rxFifo, ore, arrived, got, lost, fg, isr>>

----------------------------------------------------------------------------
FgContinue ==
    \/ TryByte \/ TryMulti \/ CopyMulti \/ PublishMulti \/ ArmTx \/ TryAgain
    \/ FlushDrained \/ FlushRearm \/ FlushTcSeen \/ FlushTcTimeout \/ FlushClearTc
    \/ IsTxBusyTc \/ RxCopy \/ RxPublish

FgCall ==
    \/ TxByte \/ TxByteBlocking
    \/ \E len \in 1..MaxTx : TxMulti(len)
    \/ Flush \/ IsTxBusy
    \/ RxByte \/ (\E len \in 1..RxSize : RxMulti(len))
    \/ ClearErrorCount

Usart == ShiftLoad \/ ShiftDone \/ Arrive

Next == Usart \/ IsrStep \/ FgContinue \/ FgCall

\* The USART keeps shifting, a pending interrupt is taken and its service runs
\* on, and a call in progress keeps running when the ISR lets it.  Nobody has
\* to make a call, and no byte has to arrive.
Fairness ==
    /\ WF_vars(ShiftLoad) /\ WF_vars(ShiftDone)
    /\ WF_vars(IsrStep) /\ WF_vars(FgContinue)

Spec == Init /\ [][Next]_vars /\ Fairness

----------------------------------------------------------------------------
FgPcs == {"idle", "try", "copy", "publish", "arm", "again", "drain", "tcWait",
          "tcClear", "tcRead"}
RingType(size) == [buf : [0..(size - 1) -> 0..(MaxTx + MaxRx)],
                   head : 0..(size - 1), tail : 0..(size - 1)]

\* Every variable holds a value of its C or register type; no ring index leaves
\* its buffer and no FIFO holds more than its depth.
TypeOK ==
    /\ tx \in RingType(TxSize) /\ rx \in RingType(RxSize)
    /\ txeie \in BOOLEAN /\ tc \in BOOLEAN /\ ore \in BOOLEAN
    /\ errors \in 0..(2 * MaxRx)
    /\ fg.pc \in FgPcs /\ fg.left \in 0..MaxTx /\ fg.n \in 0..(MaxTx + RxSize)
    /\ isr.pc \in {"idle", "rx", "rxPoll", "tx", "txPoll", "disarm"}
    /\ Len(txFifo) <= FifoDepth /\ Len(rxFifo) <= FifoDepth /\ Len(shift) <= 1
    /\ accepted \in 0..MaxTx /\ arrived \in 0..MaxRx

\* Transmission is a bounded FIFO from the calls to the line: what is on the
\* line, in the shift register, in the USART's FIFO and in the ring is, in
\* that order, the stream of accepted bytes.  (A block call's bytes enter when
\* it publishes.)
TxStream == INSTANCE ByteFifo WITH
              Capacity <- (TxSize - 1) + FifoDepth + 1,
              pending  <- shift \o txFifo \o RingContents(tx, TxSize),
              taken    <- wire
TxImplementsFifo == TxStream!FifoSpec

\* Every accepted byte reaches the line, with no further call needed.
TxDrains == \A n \in 1..MaxTx : accepted >= n ~> Len(wire) >= n

\* Every call returns: the blocking forms on a full ring, because each attempt
\* re-arms the interrupt; the flush, because its waits are bounded.
CallsReturn == fg.pc # "idle" ~> fg.pc = "idle"

\* "Sent" means on the line: a flush none of whose limits expired, and an
\* is_tx_busy about to answer "idle", although ring and TC are read at two
\* moments, both find that the last byte has left the shift register.
DoneMeansOnWire ==
    \/ fg.pc = "tcClear" /\ fg.ok
    \/ fg.pc = "tcRead" /\ tc
    => Len(wire) = accepted

\* Reception loses nothing silently and reorders nothing: the bytes handed
\* over are in arrival order, and every byte that arrived was handed over,
\* waits in the ring or the FIFO, or was dropped at a full ring or FIFO.
Handed == IF fg.kind = "rxMulti" /\ fg.pc = "publish"
          THEN SubSeq(got, 1, Len(got) - fg.n) ELSE got
RxStream ==
    LET held == Handed \o RingContents(rx, RxSize) \o rxFifo
    IN  /\ \A i, j \in 1..Len(held) : i < j => held[i] < held[j]
        /\ {held[i] : i \in 1..Len(held)} \cup lost = 1..arrived
        /\ {held[i] : i \in 1..Len(held)} \cap lost = {}

\* A dropped byte leaves a trace: the error count is above zero, or the overrun
\* flag that will raise it is up, ever since the last byte was dropped.
LossLeavesTrace == untold # {} => errors > 0 \/ ore

\* An overrun does not stop reception: it is cleared, and what has arrived gets
\* out of the USART.
ReceptionContinues ==
    /\ ore ~> ~ore
    /\ \A n \in 1..MaxRx : arrived >= n ~>
           n \notin {rxFifo[i] : i \in 1..Len(rxFifo)}
=============================================================================
