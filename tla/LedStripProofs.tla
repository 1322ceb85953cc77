--------------------------- MODULE LedStripProofs ---------------------------
(***************************************************************************)
(* Proofs about the LED strips, for every number of handles, UARTs and     *)
(* registry slots and every set of pixel counts and types.                 *)
(***************************************************************************)
EXTENDS LedStrip, FiniteSetTheorems, WellFoundedInduction, TLAPS

\* The registry holds each live strip once and nothing else, and no two live
\* strips share a UART.
RegistryInv ==
    /\ \A s, t \in Slot : registry[s] # None /\ registry[s] = registry[t] => s = t
    /\ \A h \in Handle : strip[h].init <=> InRegistry(h)
    /\ \A h \in Handle : strip[h].init => strip[h].uart \in Uart
    /\ \A g, h \in Handle :
          strip[g].init /\ strip[h].init /\ strip[g].uart = strip[h].uart => g = h

\* A call works on a live strip; between its abort and the freeing of its
\* buffers the channel is off.
CallInv ==
    ~At("idle") =>
        /\ fg.h \in Handle /\ strip[fg.h].init
        /\ At("free") => ~Active(strip[fg.h].uart)

\* A channel that runs was started by the live strip of its UART.
OwnerInv ==
    \A u \in Uart :
        /\ Active(u) => /\ dma[u].owner \in Handle
                        /\ strip[dma[u].owner].init
                        /\ strip[dma[u].owner].uart = u
        /\ ~Active(u) => dma[u] = NoTransfer

LedInv == TypeOK /\ RegistryInv /\ CallInv /\ OwnerInv /\ FrameInsideBuffer

----------------------------------------------------------------------------
\* A set of numbers has a least element.
LEMMA LeastExists ==
    ASSUME NEW S \in SUBSET Nat, S # {}
    PROVE  \E m \in S : \A n \in S : m <= n
<1> DEFINE R == StrictSubsetOrdering(Nat)
           D == FiniteSubsetsOf(Nat)
           Below == {0..n : n \in S}
<1>1. Below \subseteq D /\ Below # {}
  <2>1. \A n \in S : 0..n \in SUBSET Nat /\ IsFiniteSet(0..n)
    BY FS_Interval
  <2> QED  BY <2>1 DEF FiniteSubsetsOf
<1>2. PICK m \in S : \A n \in S : ~(<<0..n, 0..m>> \in R)
  <2>1. IsWellFoundedOn(R, D)
    BY FS_StrictSubsetOrderingWellFounded
  <2>2. PICK B \in Below : \A C \in Below : ~(<<C, B>> \in R)
    <3> HIDE DEF R, D, Below
    <3> QED  BY <1>1, <2>1, WFMin
  <2> QED  BY <2>2
<1>3. ASSUME NEW n \in S, n < m PROVE FALSE
  <2>1. 0..n \subseteq 0..m /\ m \in 0..m /\ m \notin 0..n
    BY <1>3
  <2>2. <<0..n, 0..m>> \in R
    BY <2>1 DEF StrictSubsetOrdering
  <2> QED  BY <2>2, <1>2
<1> QED  BY <1>3

\* Create registers the handle in a slot that is free.
FirstFree == CHOOSE s \in FreeSlot : \A t \in FreeSlot : s <= t

LEMMA FirstFreeIsFree ==
    ASSUME FreeSlot # {} PROVE FirstFree \in Slot /\ registry[FirstFree] = None
<1>1. FreeSlot \in SUBSET Nat
  BY RegistryAssumption DEF FreeSlot, Slot
<1>2. \E s \in FreeSlot : \A t \in FreeSlot : s <= t
  BY <1>1, LeastExists
<1>3. FirstFree \in FreeSlot
  BY <1>2 DEF FirstFree
<1> QED  BY <1>3 DEF FreeSlot

LEMMA FrameIsNat == \A c, p \in Nat : Frame(c, p) \in Nat
  BY FrameAssumption DEF Frame

----------------------------------------------------------------------------
\* A handle's fields, unfolded once for the typing steps below.
LEMMA FieldsTyped ==
    ASSUME TypeOK, NEW h \in Handle
    PROVE  /\ strip[h] \in HandleFields
           /\ strip[h].init \in BOOLEAN /\ strip[h].busy \in BOOLEAN /\ strip[h].ownDma \in BOOLEAN
           /\ strip[h].uart \in Uart \union {None}
           /\ strip[h].perPixel \in Nat /\ strip[h].count \in Nat
           /\ strip[h].frame \in Nat /\ strip[h].alloc \in Nat
<1>1. strip[h] \in HandleFields
  BY DEF TypeOK
<1>2. /\ strip[h].init \in BOOLEAN /\ strip[h].busy \in BOOLEAN /\ strip[h].ownDma \in BOOLEAN
      /\ strip[h].uart \in Uart \union {None}
      /\ strip[h].perPixel \in BytesPerPixel \union {0}
      /\ strip[h].count \in Count \union {0}
      /\ strip[h].frame \in 0..FrameMax /\ strip[h].alloc \in 0..FrameMax
  BY <1>1 DEF HandleFields
<1>3. strip[h].perPixel \in Nat /\ strip[h].count \in Nat
  <2>1. BytesPerPixel \union {0} \subseteq Nat /\ Count \union {0} \subseteq Nat
    BY FrameAssumption
  <2> QED  BY <1>2, <2>1
<1>4. strip[h].frame \in Nat /\ strip[h].alloc \in Nat
  BY <1>2, FrameAssumption
<1> QED  BY <1>1, <1>2, <1>3, <1>4

\* A step that changes only flags keeps everything else of the handles.
FlagsOnly ==
    \A h \in Handle : \/ strip'[h] = strip[h]
                      \/ \E b \in BOOLEAN : strip'[h] = [strip[h] EXCEPT !.busy = b]

LEMMA FlagsKeep ==
    ASSUME TypeOK, FlagsOnly, NEW h \in Handle
    PROVE  /\ strip'[h] \in HandleFields
           /\ strip'[h].init = strip[h].init /\ strip'[h].uart = strip[h].uart
           /\ strip'[h].perPixel = strip[h].perPixel
           /\ strip'[h].count = strip[h].count /\ strip'[h].frame = strip[h].frame
           /\ strip'[h].alloc = strip[h].alloc
<1>1. strip[h] \in HandleFields
  BY DEF TypeOK
<1>2. CASE strip'[h] = strip[h]
  BY <1>1, <1>2
<1>3. ASSUME NEW b \in BOOLEAN, strip'[h] = [strip[h] EXCEPT !.busy = b]
      PROVE  /\ strip'[h] \in HandleFields
             /\ strip'[h].init = strip[h].init /\ strip'[h].uart = strip[h].uart
             /\ strip'[h].perPixel = strip[h].perPixel
             /\ strip'[h].count = strip[h].count /\ strip'[h].frame = strip[h].frame
             /\ strip'[h].alloc = strip[h].alloc
  BY <1>1, <1>3 DEF HandleFields
<1> QED  BY <1>2, <1>3 DEF FlagsOnly

\* What the DMA interrupt does to the strips: it lowers flags.
LEMMA CompletedKeeps ==
    ASSUME TypeOK, NEW u \in Uart, Completed(u)
    PROVE  /\ gState' \in [Uart -> {"ready", "busy"}]
           /\ strip' \in [Handle -> HandleFields]
           /\ FlagsOnly
<1>1. gState' \in [Uart -> {"ready", "busy"}]
  BY DEF TypeOK, Completed
<1>2. FlagsOnly
  BY DEF Completed, FlagsOnly
<1>3. \A h \in Handle : strip'[h] \in HandleFields
  BY <1>2, FlagsKeep
<1>4. strip' = [h \in Handle |-> strip'[h]]
  BY DEF Completed
<1> QED  BY <1>1, <1>2, <1>3, <1>4

\* What makes LedInv survive a step that lowers or raises flags, moves the call
\* on and does to each channel one of three things.
LEMMA InterruptKeepsLedInv ==
    ASSUME LedInv, NEW u \in Uart, DmaHalf(u) \/ DmaEnd(u)
    PROVE  LedInv'
<1> USE DEF LedInv
<1>1. Completed(u) /\ registry' = registry /\ fg' = fg
  BY DEF DmaHalf, DmaEnd
<1>2. FlagsOnly /\ strip' \in [Handle -> HandleFields] /\ gState' \in [Uart -> {"ready", "busy"}]
  BY <1>1, CompletedKeeps
<1>3. \A h \in Handle : /\ strip'[h].init = strip[h].init /\ strip'[h].uart = strip[h].uart
                        /\ strip'[h].perPixel = strip[h].perPixel
                        /\ strip'[h].count = strip[h].count /\ strip'[h].frame = strip[h].frame
                        /\ strip'[h].alloc = strip[h].alloc
  BY <1>2, FlagsKeep
<1>4. \A v \in Uart : \/ dma'[v] = dma[v]
                      \/ dma'[v] = [dma[v] EXCEPT !.phase = "second"] /\ Active(v)
                      \/ dma'[v] = NoTransfer
  BY DEF DmaHalf, DmaEnd, TypeOK, Active
<1>5. TypeOK'
  <2>1. dma' \in [Uart -> Channel]
    BY DEF DmaHalf, DmaEnd, TypeOK, NoTransfer, Channel
  <2> QED  BY <1>1, <1>2, <2>1 DEF TypeOK
<1>6. RegistryInv'
  BY <1>1, <1>3 DEF RegistryInv, InRegistry
<1>7. CallInv'
  <2> DEFINE u0 == strip[fg.h].uart
  <2> SUFFICES ASSUME ~At("idle")
               PROVE  /\ fg.h \in Handle /\ strip'[fg.h].init
                      /\ At("free") => dma'[u0].phase = "off"
    <3>1. At("idle")' = At("idle") /\ At("free")' = At("free")
      BY <1>1 DEF At
    <3>2. CallInv => (At("idle") \/ fg.h \in Handle)
      BY DEF CallInv
    <3> QED  BY <1>1, <1>3, <3>1, <3>2 DEF CallInv, Active
  <2>1. fg.h \in Handle /\ strip[fg.h].init /\ (At("free") => dma[u0].phase = "off")
    BY DEF CallInv, Active
  <2>2. u0 \in Uart /\ strip'[fg.h].init
    BY <2>1, <1>3 DEF RegistryInv
  <2>3. dma[u0].phase = "off" => dma'[u0].phase = "off"
    <3> HIDE DEF u0
    <3>1. NoTransfer.phase = "off"
      BY DEF NoTransfer
    <3> QED  BY <2>2, <3>1, <1>4 DEF Active
  <2> QED  BY <2>1, <2>2, <2>3
<1>8. OwnerInv'
  <2> SUFFICES ASSUME NEW v \in Uart
               PROVE /\ Active(v)' => /\ dma'[v].owner \in Handle
                                      /\ strip'[dma'[v].owner].init
                                      /\ strip'[dma'[v].owner].uart = v
                     /\ ~Active(v)' => dma'[v] = NoTransfer
    BY DEF OwnerInv
  <2>1. CASE dma'[v] = dma[v]
    BY <1>3, <2>1 DEF OwnerInv, Active
  <2>2. CASE dma'[v] = [dma[v] EXCEPT !.phase = "second"] /\ Active(v)
    <3>1. dma'[v].owner = dma[v].owner /\ dma'[v].phase = "second"
      BY <2>2 DEF TypeOK, Channel
    <3> QED  BY <1>3, <2>2, <3>1 DEF OwnerInv, Active
  <2>3. CASE dma'[v] = NoTransfer
    BY <2>3 DEF Active, NoTransfer
  <2> QED  BY <1>4, <2>1, <2>2, <2>3
<1>9. FrameInsideBuffer'
  BY <1>3 DEF FrameInsideBuffer
<1> QED  BY <1>5, <1>6, <1>7, <1>8, <1>9

----------------------------------------------------------------------------
\* Three parts of LedInv under a step that leaves the identity of the strips
\* alone: which handles are live, and on which UART.
SameStrips ==
    \A h \in Handle : strip'[h].init = strip[h].init /\ strip'[h].uart = strip[h].uart
SameChannels ==
    \A v \in Uart : /\ dma'[v].phase = dma[v].phase /\ dma'[v].owner = dma[v].owner
                    /\ ~Active(v) => dma'[v] = dma[v]

LEMMA RegistryKept ==
    ASSUME RegistryInv, SameStrips, registry' = registry PROVE RegistryInv'
  BY DEF RegistryInv, SameStrips, InRegistry

LEMMA OwnerKept ==
    ASSUME OwnerInv, SameStrips, SameChannels PROVE OwnerInv'
<1> SUFFICES ASSUME NEW v \in Uart
             PROVE /\ dma'[v].phase # "off" => /\ dma'[v].owner \in Handle
                                               /\ strip'[dma'[v].owner].init
                                               /\ strip'[dma'[v].owner].uart = v
                   /\ dma'[v].phase = "off" => dma'[v] = NoTransfer
  BY DEF OwnerInv, Active
<1>1. /\ dma[v].phase # "off" => /\ dma[v].owner \in Handle
                                 /\ strip[dma[v].owner].init
                                 /\ strip[dma[v].owner].uart = v
      /\ dma[v].phase = "off" => dma[v] = NoTransfer
  BY DEF OwnerInv, Active
<1> QED  BY <1>1 DEF SameStrips, SameChannels, Active

\* Encoding over, or freeing, what a channel reads leaves the channel itself.
LEMMA SourceKeeps ==
    ASSUME TypeOK, NEW h \in Handle, dma' = Rewritten(h) \/ dma' = Freed(h)
    PROVE  SameChannels /\ dma' \in [Uart -> Channel]
<1>1. dma \in [Uart -> Channel]
  BY DEF TypeOK
<1>2. CASE dma' = Rewritten(h)
  <2>1. SameChannels
    BY <1>1, <1>2 DEF Rewritten, Active, SameChannels, Channel
  <2> QED  BY <1>1, <1>2, <2>1 DEF Rewritten, Channel
<1>3. CASE dma' = Freed(h)
  <2>1. SameChannels
    BY <1>1, <1>3 DEF Freed, Active, SameChannels, Channel
  <2> QED  BY <1>1, <1>3, <2>1 DEF Freed, Channel
<1> QED  BY <1>2, <1>3

LEMMA CreateKeepsLedInv ==
    ASSUME LedInv, NEW h \in Handle, NEW u \in Uart, NEW c \in Count,
           NEW b \in BytesPerPixel, NEW own \in BOOLEAN, Create(h, u, c, b, own)
    PROVE  LedInv'
<1> USE DEF LedInv
<1> DEFINE f == Frame(c, b)
           new == [init |-> TRUE, uart |-> u, perPixel |-> b, count |-> c,
                   frame |-> f, alloc |-> f, ownDma |-> own, busy |-> FALSE]
<1>1. /\ strip' = [strip EXCEPT ![h] = new] /\ registry' = [registry EXCEPT ![FirstFree] = h]
      /\ dma' = dma /\ gState' = gState /\ fg' = fg /\ At("idle") /\ ~InRegistry(h)
      /\ ~UartInUse(u) /\ f <= FrameMax /\ FreeSlot # {}
  BY DEF Create, Accepts, FirstFree
<1>2. FirstFree \in Slot /\ registry[FirstFree] = None
  BY <1>1, FirstFreeIsFree
<1>3. /\ registry \in [Slot -> Handle \union {None}] /\ strip \in [Handle -> HandleFields]
      /\ dma \in [Uart -> Channel] /\ None \notin Handle
  BY NoneAssumption DEF TypeOK
<1>4. f \in 0..FrameMax
  <2>1. c \in Nat /\ b \in Nat
    BY FrameAssumption
  <2>2. f \in Nat
    BY <2>1, FrameIsNat
  <2> QED  BY <1>1, <2>2, FrameAssumption
<1> HIDE DEF f
<1>5. new \in HandleFields
  BY <1>4 DEF HandleFields
<1>6. TypeOK'
  BY <1>1, <1>3, <1>5 DEF TypeOK
<1>7. ~strip[h].init
  BY <1>1 DEF RegistryInv
<1>8. \A g \in Handle : strip'[g] = IF g = h THEN new ELSE strip[g]
  BY <1>1, <1>3
<1>9. \A s \in Slot : registry'[s] = IF s = FirstFree THEN h ELSE registry[s]
  BY <1>1, <1>3
<1>10. RegistryInv'
  <2>1. \A s, t \in Slot : registry'[s] # None /\ registry'[s] = registry'[t] => s = t
    BY <1>1, <1>9 DEF RegistryInv, InRegistry
  <2>2. \A g \in Handle : strip'[g].init <=> \E s \in Slot : registry'[s] = g
    <3> TAKE g \in Handle
    <3>1. CASE g = h
      BY <3>1, <1>2, <1>8, <1>9
    <3>2. CASE g # h
      <4>1. strip'[g] = strip[g]
        BY <3>2, <1>8
      <4>2. strip[g].init <=> \E s \in Slot : registry[s] = g
        BY DEF RegistryInv, InRegistry
      <4>3. (\E s \in Slot : registry[s] = g) <=> \E s \in Slot : registry'[s] = g
        BY <3>2, <1>2, <1>3, <1>9
      <4> QED  BY <4>1, <4>2, <4>3
    <3> QED  BY <3>1, <3>2
  <2>3. \A g \in Handle : strip'[g].init => strip'[g].uart \in Uart
    BY <1>8 DEF RegistryInv
  <2>4. \A g \in Handle : g # h /\ strip[g].init => strip[g].uart # u
    BY <1>1, <1>3 DEF RegistryInv, UartInUse, InRegistry
  <2>5. \A g, k \in Handle :
            strip'[g].init /\ strip'[k].init /\ strip'[g].uart = strip'[k].uart => g = k
    <3> TAKE g, k \in Handle
    <3>1. strip[g].init /\ strip[k].init /\ strip[g].uart = strip[k].uart => g = k
      BY DEF RegistryInv
    <3> QED  BY <3>1, <1>8, <2>4
  <2> QED  BY <2>1, <2>2, <2>3, <2>5 DEF RegistryInv, InRegistry
<1>11. CallInv'
  BY <1>1 DEF CallInv, At
<1>12. OwnerInv'
  <2>1. \A v \in Uart : Active(v) => dma[v].owner \in Handle /\ dma[v].owner # h
    BY <1>7 DEF OwnerInv
  <2> QED  BY <1>1, <1>8, <2>1 DEF OwnerInv, Active
<1>13. FrameInsideBuffer'
  BY <1>4, <1>8 DEF FrameInsideBuffer, f
<1> QED  BY <1>6, <1>10, <1>11, <1>12, <1>13

LEMMA CreateFailsKeepsLedInv ==
    ASSUME LedInv, NEW h \in Handle, CreateFails(h)
    PROVE  LedInv'
<1> USE DEF LedInv
<1>1. /\ strip' = [strip EXCEPT ![h] = Zeroed] /\ registry' = registry
      /\ dma' = dma /\ gState' = gState /\ fg' = fg /\ At("idle") /\ ~strip[h].init
  BY DEF CreateFails, RegistryInv
<1>2. Zeroed \in HandleFields
  BY FrameAssumption DEF Zeroed, HandleFields
<1>3. strip \in [Handle -> HandleFields]
  BY DEF TypeOK
<1>4. \A g \in Handle : strip'[g] = IF g = h THEN Zeroed ELSE strip[g]
  BY <1>1, <1>3
<1>5. \A g \in Handle : /\ ~strip[g].init => ~strip'[g].init
                        /\ strip[g].init => strip'[g] = strip[g]
  BY <1>1, <1>4 DEF Zeroed
<1>6. TypeOK'
  BY <1>1, <1>2, <1>3 DEF TypeOK
<1>7. RegistryInv'
  BY <1>1, <1>5 DEF RegistryInv, InRegistry
<1>8. CallInv'
  BY <1>1 DEF CallInv, At
<1>9. OwnerInv'
  BY <1>1, <1>5 DEF OwnerInv, Active
<1>10. FrameInsideBuffer'
  BY <1>5 DEF FrameInsideBuffer
<1> QED  BY <1>6, <1>7, <1>8, <1>9, <1>10

LEMMA UpdateEncodeKeepsLedInv ==
    ASSUME LedInv, NEW h \in Handle, UpdateEncode(h)
    PROVE  LedInv'
<1> USE DEF LedInv
<1>1. /\ strip' = strip /\ registry' = registry /\ gState' = gState
      /\ fg' = [pc |-> "claim", h |-> h, wait |-> "none"] /\ dma' = Rewritten(h)
      /\ strip[h].init
  BY DEF UpdateEncode
<1>2. SameStrips /\ SameChannels /\ dma' \in [Uart -> Channel]
  BY <1>1, SourceKeeps DEF SameStrips
<1>3. TypeOK'
  BY <1>1, <1>2 DEF TypeOK
<1>4. CallInv'
  BY <1>1 DEF CallInv, At
<1>5. FrameInsideBuffer'
  BY <1>1 DEF FrameInsideBuffer
<1> QED  BY <1>1, <1>2, <1>3, <1>4, <1>5, RegistryKept, OwnerKept

LEMMA SetPixelsKeepsLedInv ==
    ASSUME LedInv, NEW h \in Handle, NEW c \in Count, SetPixels(h, c)
    PROVE  LedInv'
<1> USE DEF LedInv
<1> DEFINE f == Frame(c, strip[h].perPixel)
           grow == strip[h].ownDma /\ f > strip[h].alloc
           new == [strip[h] EXCEPT !.count = c, !.frame = f,
                                   !.alloc = IF grow THEN f ELSE @]
<1>1. /\ strip' = [strip EXCEPT ![h] = new] /\ registry' = registry /\ gState' = gState
      /\ fg' = fg /\ At("idle") /\ dma' = IF grow THEN Freed(h) ELSE dma
      /\ f <= FrameMax /\ (strip[h].ownDma \/ f <= strip[h].alloc)
  BY DEF SetPixels, Fits
<1>2. strip \in [Handle -> HandleFields] /\ dma \in [Uart -> Channel]
  BY DEF TypeOK
<1>3. f \in 0..FrameMax
  <2>1. c \in Nat /\ strip[h].perPixel \in Nat
    BY FrameAssumption, FieldsTyped
  <2>2. f \in Nat
    BY <2>1, FrameIsNat
  <2> QED  BY <1>1, <2>2, FrameAssumption
<1>4. /\ new \in HandleFields /\ new.init = strip[h].init /\ new.uart = strip[h].uart
      /\ new.frame = f /\ new.count = c /\ new.perPixel = strip[h].perPixel
      /\ new.alloc = IF grow THEN f ELSE strip[h].alloc
  <2> HIDE DEF f, grow
  <2> QED  BY <1>2, <1>3 DEF HandleFields
<1>5. new.frame <= new.alloc
  <2>1. strip[h].alloc \in Nat /\ f \in Nat
    BY <1>3, FieldsTyped, FrameAssumption
  <2> HIDE DEF f, new
  <2> QED  BY <1>1, <1>4, <2>1
<1> HIDE DEF new
<1>6. \A g \in Handle : strip'[g] = IF g = h THEN new ELSE strip[g]
  BY <1>1, <1>2
<1>7. SameStrips
  BY <1>4, <1>6 DEF SameStrips
<1>8. SameChannels /\ dma' \in [Uart -> Channel]
  <2>1. CASE grow
    <3>1. dma' = Freed(h)
      BY <1>1, <2>1
    <3> QED  BY <3>1, SourceKeeps
  <2>2. CASE ~grow
    BY <1>1, <1>2, <2>2 DEF SameChannels
  <2> QED  BY <2>1, <2>2
<1>9. TypeOK'
  BY <1>1, <1>2, <1>4, <1>8 DEF TypeOK
<1>10. CallInv'
  BY <1>1 DEF CallInv, At
<1>11. FrameInsideBuffer'
  BY <1>4, <1>5, <1>6 DEF FrameInsideBuffer
<1> QED  BY <1>1, <1>7, <1>8, <1>9, <1>10, <1>11, RegistryKept, OwnerKept

LEMMA DestroyKeepsLedInv ==
    ASSUME LedInv, NEW h \in Handle, NEW wait \in {"zero", "finite", "forever"},
           Destroy(h, wait)
    PROVE  LedInv'
<1> USE DEF LedInv
<1>1. /\ strip' = strip /\ registry' = registry /\ gState' = gState /\ dma' = dma
      /\ fg' = [pc |-> "wait", h |-> h, wait |-> wait] /\ strip[h].init
  BY DEF Destroy
<1>2. SameStrips /\ SameChannels
  BY <1>1 DEF SameStrips, SameChannels
<1>3. TypeOK'
  BY <1>1 DEF TypeOK
<1>4. CallInv'
  BY <1>1 DEF CallInv, At
<1>5. FrameInsideBuffer'
  BY <1>1 DEF FrameInsideBuffer
<1> QED  BY <1>1, <1>2, <1>3, <1>4, <1>5, RegistryKept, OwnerKept

----------------------------------------------------------------------------
\* A call in progress works on a live strip, which has a UART.
LEMMA CallHasUart ==
    ASSUME LedInv, ~At("idle")
    PROVE  fg.h \in Handle /\ strip[fg.h].init /\ strip[fg.h].uart \in Uart
  BY DEF LedInv, CallInv, RegistryInv

LEMMA TransmitClaimKeepsLedInv ==
    ASSUME LedInv, TransmitClaim PROVE LedInv'
<1> USE DEF LedInv
<1>1. /\ strip' = strip /\ registry' = registry /\ dma' = dma /\ At("claim")
      /\ gState' \in [Uart -> {"ready", "busy"}]
      /\ fg' = Idle \/ fg' = [fg EXCEPT !.pc = "start"]
  BY DEF TransmitClaim, TypeOK, Goto, Return
<1>2. SameStrips /\ SameChannels
  BY <1>1 DEF SameStrips, SameChannels
<1>3. TypeOK'
  BY <1>1 DEF TypeOK, Idle
<1>4. CallInv'
  <2>1. fg.h \in Handle /\ strip[fg.h].init
    BY <1>1, CallHasUart DEF At
  <2> QED  BY <1>1, <2>1 DEF CallInv, At, Idle, TypeOK
<1>5. FrameInsideBuffer'
  BY <1>1 DEF FrameInsideBuffer
<1> QED  BY <1>1, <1>2, <1>3, <1>4, <1>5, RegistryKept, OwnerKept

LEMMA TransmitStartKeepsLedInv ==
    ASSUME LedInv, TransmitStart PROVE LedInv'
<1> USE DEF LedInv
<1> DEFINE u0 == strip[fg.h].uart
           new == [phase |-> "first", source |-> "whole", owner |-> fg.h]
<1>1. /\ strip' = strip /\ registry' = registry /\ At("start")
      /\ gState' \in [Uart -> {"ready", "busy"}]
      /\ \/ fg' = Idle /\ dma' = dma
         \/ fg' = [fg EXCEPT !.pc = "flag"] /\ dma' = [dma EXCEPT ![u0] = new]
  BY DEF TransmitStart, TypeOK, Goto, Return
<1>2. fg.h \in Handle /\ strip[fg.h].init /\ u0 \in Uart
  BY <1>1, CallHasUart DEF At
<1>3. dma \in [Uart -> Channel] /\ new \in Channel
  BY <1>2 DEF TypeOK, Channel
<1>4. SameStrips
  BY <1>1 DEF SameStrips
<1>5. TypeOK'
  BY <1>1, <1>3 DEF TypeOK, Idle
<1>6. CallInv'
  BY <1>1, <1>2 DEF CallInv, At, Idle, TypeOK
<1>7. OwnerInv'
  <2>1. CASE dma' = dma
    BY <1>4, <2>1, OwnerKept DEF SameChannels
  <2>2. CASE dma' = [dma EXCEPT ![u0] = new]
    <3>1. \A v \in Uart : dma'[v] = IF v = u0 THEN new ELSE dma[v]
      BY <1>3, <2>2
    <3> QED  BY <1>1, <1>2, <3>1 DEF OwnerInv, Active
  <2> QED  BY <1>1, <2>1, <2>2
<1>8. FrameInsideBuffer'
  BY <1>1 DEF FrameInsideBuffer
<1> QED  BY <1>1, <1>4, <1>5, <1>6, <1>7, <1>8, RegistryKept

LEMMA UpdateFlagKeepsLedInv ==
    ASSUME LedInv, UpdateFlag PROVE LedInv'
<1> USE DEF LedInv
<1>1. /\ strip' = [strip EXCEPT ![fg.h].busy = TRUE] /\ registry' = registry
      /\ gState' = gState /\ dma' = dma /\ fg' = Idle
  BY DEF UpdateFlag, Return
<1>2. strip \in [Handle -> HandleFields]
  BY DEF TypeOK
<1>3. FlagsOnly
  BY <1>1, <1>2 DEF FlagsOnly
<1>4. \A h \in Handle : /\ strip'[h] \in HandleFields
                        /\ strip'[h].init = strip[h].init /\ strip'[h].uart = strip[h].uart
                        /\ strip'[h].perPixel = strip[h].perPixel
                        /\ strip'[h].count = strip[h].count /\ strip'[h].frame = strip[h].frame
                        /\ strip'[h].alloc = strip[h].alloc
  BY <1>3, FlagsKeep
<1>5. SameStrips /\ SameChannels
  BY <1>1, <1>4 DEF SameStrips, SameChannels
<1>6. TypeOK'
  <2>1. strip' = [h \in Handle |-> strip'[h]]
    BY <1>1, <1>2
  <2>2. strip' \in [Handle -> HandleFields]
    BY <1>4, <2>1
  <2> QED  BY <1>1, <2>2 DEF TypeOK, Idle
<1>7. CallInv'
  BY <1>1 DEF CallInv, At, Idle
<1>8. FrameInsideBuffer'
  BY <1>4 DEF FrameInsideBuffer
<1> QED  BY <1>1, <1>5, <1>6, <1>7, <1>8, RegistryKept, OwnerKept

\* The abort stops the channel of the strip that is destroyed.
LEMMA DestroyAbortKeepsLedInv ==
    ASSUME LedInv, DestroyAbort PROVE LedInv'
<1> USE DEF LedInv
<1> DEFINE u0 == strip[fg.h].uart
<1>1. /\ strip' = [strip EXCEPT ![fg.h].busy = FALSE] /\ registry' = registry
      /\ gState' = [gState EXCEPT ![u0] = "ready"] /\ dma' = [dma EXCEPT ![u0] = NoTransfer]
      /\ fg' = [fg EXCEPT !.pc = "free"] /\ At("wait")
  BY DEF DestroyAbort, Goto
<1>2. strip \in [Handle -> HandleFields] /\ dma \in [Uart -> Channel]
  BY DEF TypeOK
<1>3. FlagsOnly
  BY <1>1, <1>2 DEF FlagsOnly
<1>4. \A h \in Handle : /\ strip'[h] \in HandleFields
                        /\ strip'[h].init = strip[h].init /\ strip'[h].uart = strip[h].uart
                        /\ strip'[h].perPixel = strip[h].perPixel
                        /\ strip'[h].count = strip[h].count /\ strip'[h].frame = strip[h].frame
                        /\ strip'[h].alloc = strip[h].alloc
  BY <1>3, FlagsKeep
<1>5. SameStrips
  BY <1>4 DEF SameStrips
<1>6. fg.h \in Handle /\ strip[fg.h].init /\ u0 \in Uart
  BY <1>1, CallHasUart DEF At
<1>7. \A v \in Uart : dma'[v] = IF v = u0 THEN NoTransfer ELSE dma[v]
  BY <1>1, <1>2
<1>8. TypeOK'
  <2>1. strip' = [h \in Handle |-> strip'[h]]
    BY <1>1, <1>2
  <2>2. strip' \in [Handle -> HandleFields]
    BY <1>4, <2>1
  <2>3. dma' \in [Uart -> Channel] /\ gState' \in [Uart -> {"ready", "busy"}]
    BY <1>1, <1>2 DEF NoTransfer, Channel, TypeOK
  <2> QED  BY <1>1, <2>2, <2>3 DEF TypeOK
<1>9. CallInv'
  <2>1. fg'.h = fg.h /\ strip'[fg.h].uart = u0 /\ strip'[fg.h].init
    BY <1>1, <1>4, <1>6 DEF TypeOK
  <2>2. dma'[u0].phase = "off"
    BY <1>6, <1>7 DEF NoTransfer
  <2> QED  BY <1>6, <2>1, <2>2 DEF CallInv, Active
<1>10. OwnerInv'
  <2> SUFFICES ASSUME NEW v \in Uart
               PROVE /\ dma'[v].phase # "off" => /\ dma'[v].owner \in Handle
                                                 /\ strip'[dma'[v].owner].init
                                                 /\ strip'[dma'[v].owner].uart = v
                     /\ dma'[v].phase = "off" => dma'[v] = NoTransfer
    BY DEF OwnerInv, Active
  <2>1. CASE v = u0
    BY <1>7, <2>1 DEF NoTransfer
  <2>2. CASE v # u0
    BY <1>4, <1>7, <2>2 DEF OwnerInv, Active
  <2> QED  BY <2>1, <2>2
<1>11. FrameInsideBuffer'
  BY <1>4 DEF FrameInsideBuffer
<1> QED  BY <1>1, <1>5, <1>8, <1>9, <1>10, <1>11, RegistryKept

\* No channel reads the strip that is freed.
LEMMA FreedReadsNothing ==
    ASSUME LedInv, DestroyFree PROVE dma' = dma
<1>1. At("free") /\ dma' = Freed(fg.h) /\ dma \in [Uart -> Channel]
  BY DEF DestroyFree, LedInv, TypeOK
<1>2. fg.h \in Handle /\ ~Active(strip[fg.h].uart)
  BY <1>1 DEF LedInv, CallInv, At
<1>3. \A u \in Uart : ~(Active(u) /\ dma[u].owner = fg.h)
  BY <1>2 DEF LedInv, OwnerInv
<1> QED  BY <1>1, <1>3 DEF Freed

LEMMA DestroyFreeKeepsLedInv ==
    ASSUME LedInv, DestroyFree PROVE LedInv'
<1> USE DEF LedInv
<1>1. /\ strip' = [strip EXCEPT ![fg.h] = Zeroed] /\ gState' = gState /\ fg' = Idle
      /\ registry' = [s \in Slot |-> IF registry[s] = fg.h THEN None ELSE registry[s]]
      /\ At("free")
  BY DEF DestroyFree, Return
<1>2. dma' = dma
  BY FreedReadsNothing
<1>3. strip \in [Handle -> HandleFields] /\ registry \in [Slot -> Handle \union {None}]
  BY DEF TypeOK
<1>4. fg.h \in Handle /\ strip[fg.h].uart \in Uart /\ ~Active(strip[fg.h].uart)
  BY <1>1, CallHasUart DEF CallInv, At
<1>5. Zeroed \in HandleFields
  BY FrameAssumption DEF Zeroed, HandleFields
<1>6. \A g \in Handle : strip'[g] = IF g = fg.h THEN Zeroed ELSE strip[g]
  BY <1>1, <1>3
<1>7. ~Zeroed.init
  BY DEF Zeroed
<1>8. TypeOK'
  BY <1>1, <1>2, <1>3, <1>5 DEF TypeOK, Idle
<1>9. RegistryInv'
  <2>1. \A s, t \in Slot : registry'[s] # None /\ registry'[s] = registry'[t] => s = t
    BY <1>1 DEF RegistryInv
  <2>2. \A g \in Handle : strip'[g].init <=> \E s \in Slot : registry'[s] = g
    <3> TAKE g \in Handle
    <3>1. CASE g = fg.h
      BY <3>1, <1>1, <1>6, <1>7, <1>4, NoneAssumption
    <3>2. CASE g # fg.h
      <4>1. strip[g].init <=> \E s \in Slot : registry[s] = g
        BY DEF RegistryInv, InRegistry
      <4>2. (\E s \in Slot : registry[s] = g) <=> \E s \in Slot : registry'[s] = g
        BY <3>2, <1>1, NoneAssumption
      <4> QED  BY <3>2, <4>1, <4>2, <1>6
    <3> QED  BY <3>1, <3>2
  <2>3. \A g \in Handle : strip'[g].init => strip'[g].uart \in Uart
    BY <1>6, <1>7 DEF RegistryInv
  <2>4. \A g, k \in Handle :
            strip'[g].init /\ strip'[k].init /\ strip'[g].uart = strip'[k].uart => g = k
    BY <1>6, <1>7 DEF RegistryInv
  <2> QED  BY <2>1, <2>2, <2>3, <2>4 DEF RegistryInv, InRegistry
<1>10. CallInv'
  BY <1>1 DEF CallInv, At, Idle
<1>11. OwnerInv'
  <2>1. \A v \in Uart : Active(v) => dma[v].owner \in Handle /\ dma[v].owner # fg.h
    BY <1>4 DEF OwnerInv
  <2> QED  BY <1>2, <1>6, <2>1 DEF OwnerInv, Active
<1>12. FrameInsideBuffer'
  BY <1>6, <1>7 DEF FrameInsideBuffer
<1> QED  BY <1>8, <1>9, <1>10, <1>11, <1>12

----------------------------------------------------------------------------
LEMMA InitLedInv == ASSUME Init PROVE LedInv
<1> USE DEF Init
<1>1. TypeOK
  BY FrameAssumption DEF TypeOK, Zeroed, HandleFields, NoTransfer, Channel, Idle
<1>2. RegistryInv
  BY NoneAssumption DEF RegistryInv, Zeroed, InRegistry
<1>3. CallInv /\ OwnerInv /\ FrameInsideBuffer
  BY DEF CallInv, OwnerInv, FrameInsideBuffer, At, Idle, Zeroed, Active, NoTransfer
<1> QED  BY <1>1, <1>2, <1>3 DEF LedInv

LEMMA StutterLedInv == ASSUME LedInv, UNCHANGED vars PROVE LedInv'
  BY DEF LedInv, TypeOK, RegistryInv, CallInv, OwnerInv, FrameInsideBuffer,
         InRegistry, At, Active, vars

LEMMA NextLedInv == ASSUME LedInv, [Next]_vars PROVE LedInv'
<1>1. CASE Interrupt
  BY <1>1, InterruptKeepsLedInv DEF Interrupt
<1>2. CASE Call
  BY <1>2, CreateKeepsLedInv, CreateFailsKeepsLedInv, UpdateEncodeKeepsLedInv,
     SetPixelsKeepsLedInv, DestroyKeepsLedInv DEF Call
<1>3. CASE Proceed
  BY <1>3, TransmitClaimKeepsLedInv, TransmitStartKeepsLedInv, UpdateFlagKeepsLedInv,
     DestroyAbortKeepsLedInv, DestroyFreeKeepsLedInv DEF Proceed
<1>4. CASE UNCHANGED vars
  BY <1>4, StutterLedInv
<1> QED  BY <1>1, <1>2, <1>3, <1>4 DEF Next

\* The inductive invariant: whatever the callers and the DMA interrupt do, the
\* registry, the handles and the channels agree with each other.
THEOREM LedInvariant == Spec => []LedInv
<1>1. Init => LedInv
  BY InitLedInv
<1>2. LedInv /\ [Next]_vars => LedInv'
  BY NextLedInv
<1> QED  BY <1>1, <1>2, PTL DEF Spec

\* Handles, registry, UARTs and channels keep their types, and no frame is longer
\* than the HAL's 16-bit length.
THEOREM LedTypeCorrect == Spec => []TypeOK
<1>1. LedInv => TypeOK
  BY DEF LedInv
<1> QED  BY <1>1, LedInvariant, PTL

\* x_led_strip_set_pixel_buffer may grow and shrink a strip in any order: what is
\* encoded and sent stays inside the DMA buffer.
THEOREM LedFrameInside == Spec => []FrameInsideBuffer
<1>1. LedInv => FrameInsideBuffer
  BY DEF LedInv
<1> QED  BY <1>1, LedInvariant, PTL

\* The completion callback, which walks the registry by UART, finds each live
\* strip exactly once, and one strip at most on a UART.
THEOREM LedRegistryExact == Spec => []RegistryExact
<1>1. ASSUME LedInv PROVE RegistryExact
  <2>1. ASSUME NEW h \in Handle
        PROVE  Cardinality({s \in Slot : registry[s] = h}) = IF strip[h].init THEN 1 ELSE 0
    <3> DEFINE S == {s \in Slot : registry[s] = h}
    <3>1. CASE strip[h].init
      <4>1. PICK s \in Slot : registry[s] = h
        BY <1>1, <3>1 DEF LedInv, RegistryInv, InRegistry
      <4>2. S = {s}
        BY <1>1, <4>1, NoneAssumption DEF LedInv, RegistryInv
      <4> HIDE DEF S
      <4>3. Cardinality(S) = 1
        BY <4>2, FS_Singleton
      <4> QED  BY <3>1, <4>3 DEF S
    <3>2. CASE ~strip[h].init
      <4>1. S = {}
        BY <1>1, <3>2 DEF LedInv, RegistryInv, InRegistry
      <4> HIDE DEF S
      <4>2. Cardinality(S) = 0
        BY <4>1, FS_EmptySet
      <4> QED  BY <3>2, <4>2 DEF S
    <3> QED  BY <3>1, <3>2
  <2>2. ASSUME NEW s \in Slot, NEW t \in Slot, s # t, registry[s] # None, registry[t] # None
        PROVE  strip[registry[s]].uart # strip[registry[t]].uart
    <3>1. registry[s] \in Handle /\ registry[t] \in Handle /\ registry[s] # registry[t]
      BY <1>1, <2>2 DEF LedInv, TypeOK, RegistryInv
    <3>2. strip[registry[s]].init /\ strip[registry[t]].init
      BY <1>1, <3>1 DEF LedInv, RegistryInv, InRegistry
    <3> QED  BY <1>1, <3>1, <3>2 DEF LedInv, RegistryInv
  <2> QED  BY <2>1, <2>2 DEF RegistryExact
<1> QED  BY <1>1, LedInvariant, PTL

----------------------------------------------------------------------------
\* When no caller grows a strip whose transfer runs, no channel ever reads memory
\* that was freed: x_led_strip_destroy stops the channel before it frees, also
\* when the flag had dropped at the half-transfer interrupt.
THEOREM LedDmaSourceAllocated ==
    ASSUME ~GrowWhileSending PROVE Spec => []DmaSourceAllocated
<1>1. Init => DmaSourceAllocated
  BY DEF Init, DmaSourceAllocated, NoTransfer
<1>2. ASSUME LedInv, DmaSourceAllocated, [Next]_vars PROVE DmaSourceAllocated'
  <2> USE <1>2 DEF LedInv
  <2>1. dma \in [Uart -> Channel] /\ \A v \in Uart : dma[v].source # "freed"
    BY DEF TypeOK, DmaSourceAllocated
  <2>2. ASSUME NEW u \in Uart, DmaHalf(u) \/ DmaEnd(u) PROVE DmaSourceAllocated'
    BY <2>1, <2>2 DEF DmaHalf, DmaEnd, NoTransfer, Channel, DmaSourceAllocated
  <2>3. ASSUME NEW h \in Handle, UpdateEncode(h) PROVE DmaSourceAllocated'
    BY <2>1, <2>3 DEF UpdateEncode, Rewritten, Channel, DmaSourceAllocated
  <2>4. ASSUME NEW h \in Handle, NEW c \in Count, SetPixels(h, c) PROVE DmaSourceAllocated'
    <3>1. dma' = dma \/ (dma' = Freed(h) /\ \A v \in Uart : dma[v].owner # h)
      BY <2>4 DEF SetPixels
    <3>2. (\A v \in Uart : dma[v].owner # h) => Freed(h) = dma
      BY <2>1 DEF Freed
    <3> QED  BY <2>1, <3>1, <3>2 DEF DmaSourceAllocated
  <2>5. ASSUME TransmitStart PROVE DmaSourceAllocated'
    BY <2>1, <2>5 DEF TransmitStart, DmaSourceAllocated
  <2>6. ASSUME DestroyAbort PROVE DmaSourceAllocated'
    BY <2>1, <2>6 DEF DestroyAbort, NoTransfer, DmaSourceAllocated
  <2>7. ASSUME DestroyFree PROVE DmaSourceAllocated'
    BY <2>1, <2>7, FreedReadsNothing DEF DmaSourceAllocated
  <2>8. CASE dma' = dma
    BY <2>1, <2>8 DEF DmaSourceAllocated
  <2> QED  BY <2>2, <2>3, <2>4, <2>5, <2>6, <2>7, <2>8
           DEF Next, Interrupt, Call, Proceed, Create, CreateFails, Destroy,
               TransmitClaim, UpdateFlag, vars
<1> QED  BY <1>1, <1>2, LedInvariant, PTL DEF Spec
=============================================================================
