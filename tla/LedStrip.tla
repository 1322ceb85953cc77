------------------------------ MODULE LedStrip ------------------------------
(***************************************************************************)
(* led_strip_control.c: strips driven by UART transmit DMA, between the    *)
(* main program that creates, updates, resizes and destroys them and the   *)
(* DMA interrupt that ends a transfer.                                     *)
(*                                                                         *)
(* The HAL underneath has two flags of its own: gState of the UART handle  *)
(* and the DMA channel's state.  The DMA interrupt handlers of             *)
(* stm32g4xx_it.c call HAL_UART_TxCpltCallback after EVERY interrupt of    *)
(* the channel, the half-transfer one included.                            *)
(***************************************************************************)
EXTENDS Integers, FiniteSets

CONSTANTS Handle,         \* led_strip_handle_t objects of the application
          Uart,           \* UARTs with a transmit DMA channel
          RegistryMax,    \* LED_STRIP_REGISTRY_MAX
          BytesPerPixel,  \* encoded bytes per pixel of each strip type
          Count,          \* pixel counts the callers ask for
          TailBytes,      \* reset tail
          FrameMax,       \* 65535, the HAL's length limit
          GrowWhileSending, \* whether callers resize a strip whose DMA runs
          None            \* NULL

ASSUME RegistryAssumption == RegistryMax \in Nat \ {0}
ASSUME FrameAssumption ==
    /\ BytesPerPixel \subseteq Nat \ {0} /\ Count \subseteq Nat \ {0}
    /\ TailBytes \in Nat /\ FrameMax \in Nat
ASSUME NoneAssumption == None \notin Handle \union Uart

VARIABLES strip,      \* the fields of each handle
          registry,   \* s_ap_x_registry
          gState,     \* each UART handle's gState is READY
          dma,        \* each UART's DMA channel and what it is reading
          fg          \* the main program's call in progress

vars == <<strip, registry, gState, dma, fg>>

Slot == 1..RegistryMax

\* A handle as memset leaves it.
Zeroed == [init |-> FALSE, uart |-> None, perPixel |-> 0, count |-> 0,
           frame |-> 0, alloc |-> 0, ownDma |-> FALSE, busy |-> FALSE]

\* source: what has become of the bytes the channel is reading since it
\* started: nothing, encoded over, or freed.
NoTransfer == [phase |-> "off", source |-> "whole", owner |-> None]
Active(u) == dma[u].phase # "off"

Idle == [pc |-> "idle", h |-> None, wait |-> "none"]
At(pc) == fg.pc = pc
Goto(pc) == fg' = [fg EXCEPT !.pc = pc]
Return == fg' = Idle

Frame(count, perPixel) == count * perPixel + TailBytes

InRegistry(h) == \E s \in Slot : registry[s] = h
UartInUse(u) == \E s \in Slot : registry[s] # None /\ strip[registry[s]].uart = u

Init ==
    /\ strip = [h \in Handle |-> Zeroed]
    /\ registry = [s \in Slot |-> None]
    /\ gState = [u \in Uart |-> "ready"]
    /\ dma = [u \in Uart |-> NoTransfer]
    /\ fg = Idle

----------------------------------------------------------------------------
(* Interrupts                                                              *)

\* v_led_strip_uart_tx_complete, and v_led_strip_uart_error, which differs in
\* nothing: clear the flag of the strips on this UART and, if there is one,
\* bring the UART back to READY.
Completed(u) ==
    /\ strip' = [h \in Handle |->
            IF InRegistry(h) /\ strip[h].init /\ strip[h].uart = u
            THEN [strip[h] EXCEPT !.busy = FALSE] ELSE strip[h]]
    /\ gState' = IF UartInUse(u) THEN [gState EXCEPT ![u] = "ready"] ELSE gState

\* Half-transfer interrupt: the channel goes on.
DmaHalf(u) ==
    /\ dma[u].phase = "first"
    /\ dma' = [dma EXCEPT ![u].phase = "second"]
    /\ Completed(u)
    /\ UNCHANGED <<registry, fg>>

\* Transfer complete, or a transfer error, which can come in either half.
DmaEnd(u) ==
    /\ Active(u)
    /\ dma' = [dma EXCEPT ![u] = NoTransfer]
    /\ Completed(u)
    /\ UNCHANGED <<registry, fg>>

----------------------------------------------------------------------------
(* x_led_strip_create                                                      *)

FreeSlot == {s \in Slot : registry[s] = None}

\* Mutant of Accepts: the UART may drive two strips.
AcceptsShared(u, count, perPixel) ==
    Frame(count, perPixel) <= FrameMax /\ FreeSlot # {}

\* The conditions of create and of x_led_strip_registry_add.
Accepts(u, count, perPixel) ==
    /\ ~UartInUse(u)
    /\ Frame(count, perPixel) <= FrameMax
    /\ FreeSlot # {}

\* ownDma: the driver allocates the DMA buffer.
Create(h, u, count, perPixel, ownDma) ==
    /\ At("idle") /\ ~InRegistry(h)
    /\ Accepts(u, count, perPixel)
    /\ strip' = [strip EXCEPT ![h] =
            [init |-> TRUE, uart |-> u, perPixel |-> perPixel, count |-> count,
             frame |-> Frame(count, perPixel), alloc |-> Frame(count, perPixel),
             ownDma |-> ownDma, busy |-> FALSE]]
    /\ registry' = [registry EXCEPT
            ![CHOOSE s \in FreeSlot : \A t \in FreeSlot : s <= t] = h]
    /\ UNCHANGED <<gState, dma, fg>>

\* Refused, or no memory: the handle is left zeroed.
CreateFails(h) ==
    /\ At("idle") /\ ~InRegistry(h)
    /\ strip' = [strip EXCEPT ![h] = Zeroed]
    /\ UNCHANGED <<registry, gState, dma, fg>>

----------------------------------------------------------------------------
(* x_led_strip_update                                                      *)

\* Whoever the channel of this handle's UART is reading, these bytes change.
Rewritten(h) ==
    [u \in Uart |-> IF Active(u) /\ dma[u].owner = h /\ dma[u].source = "whole"
                    THEN [dma[u] EXCEPT !.source = "rewritten"] ELSE dma[u]]
Freed(h) ==
    [u \in Uart |-> IF Active(u) /\ dma[u].owner = h
                    THEN [dma[u] EXCEPT !.source = "freed"] ELSE dma[u]]

\* v_led_strip_encode_pixels_to_dma, before the HAL is asked.
UpdateEncode(h) ==
    /\ At("idle") /\ strip[h].init
    /\ ~strip[h].busy
    /\ dma' = Rewritten(h)
    /\ fg' = [pc |-> "claim", h |-> h, wait |-> "none"]
    /\ UNCHANGED <<strip, registry, gState>>

\* HAL_UART_Transmit_DMA takes the UART or returns HAL_BUSY.
TransmitClaim ==
    LET u == strip[fg.h].uart IN
    /\ At("claim")
    /\ IF gState[u] = "ready"
       THEN gState' = [gState EXCEPT ![u] = "busy"] /\ Goto("start")
       ELSE UNCHANGED gState /\ Return
    /\ UNCHANGED <<strip, registry, dma>>

\* HAL_DMA_Start_IT starts the channel, or finds it busy: then the UART is
\* released and the caller gets HAL_ERROR.
TransmitStart ==
    LET u == strip[fg.h].uart IN
    /\ At("start")
    /\ IF Active(u)
       THEN gState' = [gState EXCEPT ![u] = "ready"] /\ Return /\ UNCHANGED dma
       ELSE /\ dma' = [dma EXCEPT ![u] = [phase |-> "first", source |-> "whole", owner |-> fg.h]]
            /\ Goto("flag")
            /\ UNCHANGED gState
    /\ UNCHANGED <<strip, registry>>

\* Only now is the transfer marked as in progress.
UpdateFlag ==
    /\ At("flag")
    /\ strip' = [strip EXCEPT ![fg.h].busy = TRUE]
    /\ Return
    /\ UNCHANGED <<registry, gState, dma>>

----------------------------------------------------------------------------
(* x_led_strip_set_pixel_buffer                                            *)

\* Mutant of Fits: a caller's buffer is taken to be as large as the limit.
FitsUnchecked(h, count) == Frame(count, strip[h].perPixel) <= FrameMax

\* Mutant of Fits: nothing keeps the frame within the HAL's limit.
FitsUnlimited(h, count) ==
    strip[h].ownDma \/ Frame(count, strip[h].perPixel) <= strip[h].alloc

\* The frame is representable, and a caller's DMA buffer is large enough.
Fits(h, count) ==
    LET f == Frame(count, strip[h].perPixel) IN
    f <= FrameMax /\ (strip[h].ownDma \/ f <= strip[h].alloc)

\* A driver-owned DMA buffer only grows; realloc frees the old one.
SetPixels(h, count) ==
    LET f == Frame(count, strip[h].perPixel)
        grow == strip[h].ownDma /\ f > strip[h].alloc IN
    /\ At("idle") /\ strip[h].init
    /\ Fits(h, count)
    /\ GrowWhileSending \/ ~grow \/ \A u \in Uart : dma[u].owner # h
    /\ strip' = [strip EXCEPT ![h].count = count, ![h].frame = f,
                              ![h].alloc = IF grow THEN f ELSE @]
    /\ dma' = IF grow THEN Freed(h) ELSE dma
    /\ UNCHANGED <<registry, gState, fg>>

----------------------------------------------------------------------------
(* x_led_strip_destroy                                                     *)

\* Idempotent on a handle that is not initialized; BUSY with no time to wait.
Destroy(h, wait) ==
    /\ At("idle")
    /\ strip[h].init
    /\ ~(strip[h].busy /\ wait = "zero")
    /\ fg' = [pc |-> "wait", h |-> h, wait |-> wait]
    /\ UNCHANGED <<strip, registry, gState, dma>>

\* Mutant of WaitOver: the tick never ends the wait.
WaitOverNever == ~strip[fg.h].busy

\* b_led_strip_wait_transfer_idle: the flag has dropped, or a finite timeout
\* has run out.
WaitOver == ~strip[fg.h].busy \/ fg.wait = "finite"

\* Mutant of DestroyAbort: a strip that is not busy needs no abort.
DestroyAbortBusy ==
    LET u == strip[fg.h].uart IN
    /\ At("wait") /\ WaitOver
    /\ dma' = IF strip[fg.h].busy THEN [dma EXCEPT ![u] = NoTransfer] ELSE dma
    /\ gState' = [gState EXCEPT ![u] = "ready"]
    /\ strip' = [strip EXCEPT ![fg.h].busy = FALSE]
    /\ Goto("free")
    /\ UNCHANGED registry

\* Either way out of the wait, HAL_UART_AbortTransmit stops the channel and
\* the UART is READY.
DestroyAbort ==
    LET u == strip[fg.h].uart IN
    /\ At("wait") /\ WaitOver
    /\ dma' = [dma EXCEPT ![u] = NoTransfer]
    /\ gState' = [gState EXCEPT ![u] = "ready"]
    /\ strip' = [strip EXCEPT ![fg.h].busy = FALSE]
    /\ Goto("free")
    /\ UNCHANGED registry

\* Out of the registry, buffers freed, handle zeroed.
DestroyFree ==
    /\ At("free")
    /\ registry' = [s \in Slot |-> IF registry[s] = fg.h THEN None ELSE registry[s]]
    /\ dma' = Freed(fg.h)
    /\ strip' = [strip EXCEPT ![fg.h] = Zeroed]
    /\ Return
    /\ UNCHANGED gState

Interrupt == \E u \in Uart : DmaHalf(u) \/ DmaEnd(u)
Call ==
    \E h \in Handle :
        \/ \E u \in Uart, c \in Count, b \in BytesPerPixel, own \in BOOLEAN :
               Create(h, u, c, b, own)
        \/ CreateFails(h)
        \/ UpdateEncode(h)
        \/ \E c \in Count : SetPixels(h, c)
        \/ \E wait \in {"zero", "finite", "forever"} : Destroy(h, wait)
Proceed == TransmitClaim \/ TransmitStart \/ UpdateFlag \/ DestroyAbort \/ DestroyFree

Next == Interrupt \/ Call \/ Proceed

\* A call once made runs on, and HAL_GetTick reaches every finite timeout.
Fairness == WF_vars(Proceed)

Spec == Init /\ [][Next]_vars /\ Fairness

----------------------------------------------------------------------------
HandleFields ==
    [init : BOOLEAN, uart : Uart \union {None},
     perPixel : BytesPerPixel \union {0}, count : Count \union {0},
     frame : 0..FrameMax, alloc : 0..FrameMax, ownDma : BOOLEAN, busy : BOOLEAN]
Channel == [phase : {"off", "first", "second"}, source : {"whole", "rewritten", "freed"},
            owner : Handle \union {None}]

\* Handles, registry, UARTs and channels keep their types, and no frame is
\* longer than FrameMax.
TypeOK ==
    /\ strip \in [Handle -> HandleFields]
    /\ registry \in [Slot -> Handle \union {None}]
    /\ gState \in [Uart -> {"ready", "busy"}]
    /\ dma \in [Uart -> Channel]
    /\ fg \in [pc : {"idle", "claim", "start", "flag", "wait", "free"},
               h : Handle \union {None}, wait : {"none", "zero", "finite", "forever"}]

\* The completion dispatch finds each live strip exactly once, and each UART
\* belongs to one strip at most.
RegistryExact ==
    /\ \A h \in Handle : Cardinality({s \in Slot : registry[s] = h}) =
                             IF strip[h].init THEN 1 ELSE 0
    /\ \A s, t \in Slot :
          s # t /\ registry[s] # None /\ registry[t] # None =>
              strip[registry[s]].uart # strip[registry[t]].uart

\* The encoder writes, and the DMA reads, inside the DMA buffer, whatever
\* sequence of growing and shrinking led to it.
FrameInsideBuffer ==
    \A h \in Handle : strip[h].init =>
        /\ strip[h].frame = Frame(strip[h].count, strip[h].perPixel)
        /\ strip[h].frame <= strip[h].alloc

\* No channel reads freed memory: destroy stops it first, even when the flag
\* has dropped before the transfer has ended.
DmaSourceAllocated == \A u \in Uart : dma[u].source # "freed"

\* A destroy with a finite timeout returns although the flag may be stuck.
DestroyReturns == (At("wait") /\ fg.wait = "finite") ~> At("idle")

\* The header's comment on b_transfer_in_progress, "UART DMA TX currently in
\* flight": between calls, a strip whose DMA is sending has its flag up.
FlagCoversTransfer ==
    At("idle") => \A u \in Uart : Active(u) => strip[dma[u].owner].busy
=============================================================================
