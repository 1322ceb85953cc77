------------------------- MODULE FileTransferProofs -------------------------
(***************************************************************************)
(* Proofs about one transfer, for every length of the file, size of the    *)
(* sequence number, number of tries and number of mishaps.                 *)
(***************************************************************************)
EXTENDS FileTransfer, SequenceTheorems, TLAPS

----------------------------------------------------------------------------
(* What the variables hold.                                                *)

ItemKinds == {"pkt", "part", "ack", "nak", "can", "noise", "cmd", "ready",
              "text_ok", "text_error"}
ItemSet == [k : ItemKinds, seq : 0..(SeqMod - 1), chunk : 0..Garbage, crc : BOOLEAN]

\* A packet whose CRC is right carries a chunk of the file, or none.
Item == {m \in ItemSet : m.k = "pkt" /\ m.crc => m.chunk \in 0..Chunks}

DevPlaces == {"repl", "go", "go2", "send", "answer", "recv", "mid", "store"}
HostPlaces == {"start", "ready", "send", "answer", "recv", "mid", "store", "final", "done"}
DevVerdicts == {"none", "ok", "open", "nogo", "xfer", "seq", "overflow", "write",
                "short", "eot", "read", "close"}
HostVerdicts == {"none", "ok", "fail"}

PcTyped ==
    /\ pc \in [Side -> DevPlaces \union HostPlaces]
    /\ pc["dev"] \in DevPlaces /\ pc["host"] \in HostPlaces
VerdictTyped ==
    /\ verdict \in [Side -> DevVerdicts \union HostVerdicts]
    /\ verdict["dev"] \in DevVerdicts /\ verdict["host"] \in HostVerdicts
LineTyped ==
    /\ chan \in [Side -> Seq(Item)]
    /\ left \in 0..MaxMishaps /\ seen \subseteq Mishaps
FileTyped ==
    /\ pos \in [Side -> 0..Chunks]
    /\ file \in Seq(1..Chunks) /\ Len(file) = pos[Receiver]

TypeInv ==
    /\ op \in Ops /\ PcTyped /\ VerdictTyped /\ LineTyped /\ FileTyped
    /\ try \in [Side -> 0..MaxRetries]
    /\ held \in Item /\ held.k = "pkt" /\ held.crc
    /\ junk \in BOOLEAN

LEMMA SidesAre ==
    /\ Side = {"dev", "host"} /\ "dev" # "host"
    /\ Peer("dev") = "host" /\ Peer("host") = "dev"
    /\ Sender \in Side /\ Receiver \in Side /\ Sender # Receiver
    /\ Peer(Sender) = Receiver /\ Peer(Receiver) = Sender
    /\ op = "PU" => Sender = "host" /\ Receiver = "dev"
    /\ op = "GT" => Sender = "dev" /\ Receiver = "host"
  BY DEF Side, Peer, Sender, Receiver

LEMMA BoundsAreNat ==
    /\ Chunks \in Nat \ {0} /\ SeqMod \in Nat /\ SeqMod > 2
    /\ MaxRetries \in Nat \ {0} /\ MaxMishaps \in Nat /\ Ops \subseteq {"PU", "GT"}
  BY TransferAssumption

\* The receiver is the same side throughout.
LEMMA SidesStay == ASSUME op' = op PROVE Sender' = Sender /\ Receiver' = Receiver
  BY DEF Sender, Receiver, Peer

LEMMA BytesAreItems ==
    ASSUME NEW k \in ItemKinds, k # "pkt"
    PROVE  Byte(k) \in Item /\ Byte(k).k = k
  BY BoundsAreNat DEF Byte, Item, ItemSet, Garbage

LEMMA PacketsAreItems ==
    ASSUME NEW seq \in 0..(SeqMod - 1), NEW chunk \in 0..Chunks
    PROVE  /\ Packet(seq, chunk) \in Item /\ Packet(seq, chunk).k = "pkt"
           /\ Packet(seq, chunk).crc /\ Packet(seq, chunk).seq = seq
           /\ Packet(seq, chunk).chunk = chunk
  BY BoundsAreNat DEF Packet, Item, ItemSet, ItemKinds, Garbage

----------------------------------------------------------------------------
(* What the line makes of an item.                                         *)

\* The item m went out and x arrives: itself; a packet whose CRC tells; or what
\* takes a mishap of another kind, on the line or in what made a side send m.
Becomes(m, x) ==
    \/ x = m /\ left' = left /\ seen' = seen
    \/ /\ m.k = "pkt" /\ x.k = "pkt" /\ ~x.crc /\ (m.chunk = 0 => x.chunk = 0)
       /\ left' = left - 1 /\ seen' = seen \union {"garbled"}
    \/ /\ ~(seen' \subseteq {"garbled"})
       /\ \/ x = m
          \/ /\ m.k = "pkt" /\ x.k = "pkt" /\ "header" \in seen'
             /\ m.chunk = 0 => x.chunk = 0
          \/ m.k = "pkt" /\ x.k \in {"part", "can"}
          \/ m.k # "pkt" /\ x.k = "noise"

\* m goes out to s over the channels ch.
Delivers(ch, s, m) ==
    /\ chan' \in [Side -> Seq(Item)]
    /\ left' \in 0..MaxMishaps /\ seen' \subseteq Mishaps /\ seen \subseteq seen'
    /\ chan'[Peer(s)] = ch[Peer(s)]
    /\ \/ chan'[s] = ch[s] /\ ~(seen' \subseteq {"garbled"})
       \/ \E x \in Item : chan'[s] = Append(ch[s], x) /\ Becomes(m, x)

LEMMA SpoiltIs ==
    ASSUME NEW kind, NEW m \in Item, NEW arrives \in Spoilt(kind, m)
    PROVE  \/ arrives = << >> /\ kind \in {"dropped", "lost"}
           \/ \E x \in Item :
                 /\ arrives = <<x>>
                 /\ \/ m.k = "pkt" /\ x.k = "pkt" /\ ~x.crc /\ kind = "garbled" /\ (m.chunk = 0 => x.chunk = 0)
                    \/ m.k = "pkt" /\ x.k = "pkt" /\ kind = "header" /\ (m.chunk = 0 => x.chunk = 0)
                    \/ m.k = "pkt" /\ x.k = "part" /\ kind = "cut"
                    \/ m.k = "pkt" /\ x.k = "can" /\ kind = "dropped"
                    \/ m.k # "pkt" /\ x.k = "noise" /\ kind = "noise"
<1>1. m \in ItemSet /\ (m.k = "pkt" /\ m.crc => m.chunk \in 0..Chunks)
  BY DEF Item
<1>2. CASE m.k = "pkt" /\ kind = "garbled"
  <2> DEFINE c == IF m.chunk = 0 THEN 0 ELSE Garbage
             x == [m EXCEPT !.crc = FALSE, !.chunk = c]
  <2>1. arrives = <<x>>
    BY <1>2 DEF Spoilt
  <2>2. c \in 0..Garbage
    BY BoundsAreNat DEF Garbage
  <2> HIDE DEF c
  <2>3. x \in Item /\ x.k = "pkt" /\ ~x.crc /\ x.chunk = c
    BY <1>1, <1>2, <2>2 DEF Item, ItemSet
  <2>4. m.chunk = 0 => c = 0
    BY DEF c
  <2> HIDE DEF x
  <2> QED  BY <1>2, <2>1, <2>3, <2>4
<1>3. CASE m.k = "pkt" /\ kind = "cut"
  <2> DEFINE x == [m EXCEPT !.k = "part"]
  <2>1. arrives = <<x>>
    BY <1>3 DEF Spoilt
  <2>2. x \in Item /\ x.k = "part"
    BY <1>1, <1>3 DEF Item, ItemSet, ItemKinds
  <2> HIDE DEF x
  <2> QED  BY <1>3, <2>1, <2>2
<1>4. CASE m.k = "pkt" /\ kind = "dropped"
  <2>1. arrives = << >> \/ arrives = <<Byte("can")>>
    BY <1>4 DEF Spoilt
  <2>2. Byte("can") \in Item /\ Byte("can").k = "can"
    BY BytesAreItems DEF ItemKinds
  <2> QED  BY <1>4, <2>1, <2>2
<1>5. CASE m.k = "pkt" /\ kind = "header"
  <2>1. \/ \E q \in 0..(SeqMod - 1) : arrives = <<[m EXCEPT !.seq = q]>>
        \/ arrives = <<[m EXCEPT !.chunk = 0]>>
    BY <1>5 DEF Spoilt
  <2>2. CASE arrives = <<[m EXCEPT !.chunk = 0]>>
    <3> DEFINE x == [m EXCEPT !.chunk = 0]
    <3>1. x \in Item /\ x.k = "pkt" /\ x.chunk = 0
      BY <1>1, <1>5, BoundsAreNat DEF Item, ItemSet, Garbage
    <3>2. arrives = <<x>>
      BY <2>2
    <3> HIDE DEF x
    <3> QED  BY <1>5, <3>1, <3>2
  <2>3. ASSUME NEW q \in 0..(SeqMod - 1), arrives = <<[m EXCEPT !.seq = q]>>
        PROVE  \E x \in Item : arrives = <<x>> /\ x.k = "pkt" /\ (m.chunk = 0 => x.chunk = 0)
    <3> DEFINE x == [m EXCEPT !.seq = q]
    <3>1. x \in Item /\ x.k = "pkt" /\ x.chunk = m.chunk
      BY <1>1, <1>5 DEF Item, ItemSet
    <3>2. arrives = <<x>>
      BY <2>3
    <3> HIDE DEF x
    <3> QED  BY <3>1, <3>2
  <2> QED  BY <1>5, <2>1, <2>2, <2>3
<1>6. CASE m.k = "pkt" /\ kind \notin {"garbled", "cut", "dropped", "header"}
  BY <1>6 DEF Spoilt
<1>7. CASE m.k # "pkt" /\ kind = "lost"
  BY <1>7 DEF Spoilt
<1>8. CASE m.k # "pkt" /\ kind = "noise"
  <2>1. arrives = <<Byte("noise")>>
    BY <1>8 DEF Spoilt
  <2>2. Byte("noise") \in Item /\ Byte("noise").k = "noise"
    BY BytesAreItems DEF ItemKinds
  <2> QED  BY <1>8, <2>1, <2>2
<1>9. CASE m.k # "pkt" /\ kind \notin {"lost", "noise"}
  BY <1>9 DEF Spoilt
<1> QED  BY <1>2, <1>3, <1>4, <1>5, <1>6, <1>7, <1>8, <1>9

LEMMA MishapTyped ==
    ASSUME LineTyped, NEW kind, Mishap(kind)
    PROVE  /\ left' \in 0..MaxMishaps /\ seen' \subseteq Mishaps
           /\ kind \in Mishaps /\ seen' = seen \union {kind}
           /\ left' = left - 1
  BY BoundsAreNat DEF LineTyped, Mishap

LEMMA SendDelivers ==
    ASSUME LineTyped, NEW ch \in [Side -> Seq(Item)], NEW s \in Side, NEW m \in Item,
           SendOver(ch, s, m)
    PROVE  Delivers(ch, s, m)
<1>1. Peer(s) \in Side /\ Peer(s) # s /\ ch[s] \in Seq(Item)
  BY DEF Peer, Side
<1>2. CASE chan' = [ch EXCEPT ![s] = Append(@, m)] /\ Quiet
  <2>1. Append(ch[s], m) \in Seq(Item)
    BY <1>1, AppendProperties
  <2>2. /\ chan' \in [Side -> Seq(Item)] /\ chan'[Peer(s)] = ch[Peer(s)]
        /\ chan'[s] = Append(ch[s], m)
    BY <1>1, <1>2, <2>1
  <2> QED  BY <1>2, <2>2 DEF Delivers, Becomes, Quiet, LineTyped
<1>3. ASSUME NEW kind \in Mishaps, NEW arrives \in Spoilt(kind, m), Mishap(kind),
             chan' = [ch EXCEPT ![s] = @ \o arrives]
      PROVE  Delivers(ch, s, m)
  <2>1. /\ left' \in 0..MaxMishaps /\ seen' \subseteq Mishaps /\ seen \subseteq seen'
        /\ kind \in seen' /\ kind \in Mishaps /\ seen' = seen \union {kind}
        /\ left' = left - 1
    BY <1>3, MishapTyped
  <2>2. CASE arrives = << >> /\ kind \in {"dropped", "lost"}
    <3>1. ch[s] \o << >> = ch[s]
      BY <1>1, ConcatEmptySeq
    <3>2. chan' \in [Side -> Seq(Item)] /\ chan'[Peer(s)] = ch[Peer(s)] /\ chan'[s] = ch[s]
      BY <1>1, <1>3, <2>2, <3>1
    <3> QED  BY <2>1, <2>2, <3>2 DEF Delivers
  <2>3. ASSUME NEW x \in Item, arrives = <<x>>,
               \/ m.k = "pkt" /\ x.k = "pkt" /\ ~x.crc /\ kind = "garbled" /\ (m.chunk = 0 => x.chunk = 0)
               \/ m.k = "pkt" /\ x.k = "pkt" /\ kind = "header" /\ (m.chunk = 0 => x.chunk = 0)
               \/ m.k = "pkt" /\ x.k = "part" /\ kind = "cut"
               \/ m.k = "pkt" /\ x.k = "can" /\ kind = "dropped"
               \/ m.k # "pkt" /\ x.k = "noise" /\ kind = "noise"
        PROVE  Delivers(ch, s, m)
    <3>1. ch[s] \o <<x>> = Append(ch[s], x) /\ Append(ch[s], x) \in Seq(Item)
      BY <1>1, AppendIsConcat, AppendProperties
    <3>2. /\ chan' \in [Side -> Seq(Item)] /\ chan'[Peer(s)] = ch[Peer(s)]
          /\ chan'[s] = Append(ch[s], x)
      BY <1>1, <1>3, <2>3, <3>1
    <3>3. Becomes(m, x)
      BY <2>1, <2>3 DEF Becomes
    <3> QED  BY <2>1, <3>2, <3>3 DEF Delivers
  <2> QED  BY <2>2, <2>3, SpoiltIs
<1> QED  BY <1>2, <1>3 DEF SendOver

\* What is left to read when an item has been taken off the line.
LEMMA RestIs ==
    ASSUME chan \in [Side -> Seq(Item)], NEW s \in Side, chan[s] # << >>
    PROVE  /\ Rest(s) \in [Side -> Seq(Item)] /\ Rest(s)[s] = Tail(chan[s])
           /\ Rest(s)[Peer(s)] = chan[Peer(s)]
           /\ Len(chan[s]) \in Nat \ {0} /\ Len(Tail(chan[s])) = Len(chan[s]) - 1
           /\ Head(chan[s]) = chan[s][1] /\ chan[s][1] \in Item
           /\ \A i \in 1..(Len(chan[s]) - 1) : Tail(chan[s])[i] = chan[s][i + 1]
<1>1. chan[s] \in Seq(Item) /\ Peer(s) # s /\ Peer(s) \in Side
  BY DEF Peer, Side
<1>2. /\ Tail(chan[s]) \in Seq(Item) /\ Head(chan[s]) = chan[s][1] /\ Head(chan[s]) \in Item
      /\ Len(Tail(chan[s])) = Len(chan[s]) - 1
      /\ \A i \in 1..(Len(chan[s]) - 1) : Tail(chan[s])[i] = chan[s][i + 1]
  BY <1>1, HeadTailProperties
<1>3. Len(chan[s]) \in Nat \ {0}
  BY <1>1, EmptySeq
<1> QED  BY <1>1, <1>2, <1>3 DEF Rest

LEMMA ConsumeTyped ==
    ASSUME LineTyped, NEW s \in Side, chan[s] # << >>, Consume(s)
    PROVE  LineTyped' /\ chan' = Rest(s) /\ left' = left /\ seen' = seen
  BY RestIs DEF LineTyped, Consume, Quiet

\* A wait that ends, in silence or because an answer is late.
LEMMA ExpiresSends ==
    ASSUME LineTyped, NEW s \in Side, NEW m \in Item, ExpiresThenSend(s, m)
    PROVE  Delivers(chan, Peer(s), m) /\ (Silent(s) \/ "late" \in seen')
<1>1. Peer(s) \in Side /\ chan \in [Side -> Seq(Item)]
  BY DEF LineTyped, Peer, Side
<1>2. CASE Silent(s)
  BY <1>1, <1>2, SendDelivers DEF ExpiresThenSend
<1>3. CASE ~Silent(s)
  <2>1. Mishap("late") /\ chan' = [chan EXCEPT ![Peer(s)] = Append(@, m)]
    BY <1>3 DEF ExpiresThenSend
  <2>2. Append(chan[Peer(s)], m) \in Seq(Item) /\ Peer(Peer(s)) # Peer(s) /\ Peer(Peer(s)) \in Side
    BY <1>1, AppendProperties DEF Peer, Side
  <2>3. /\ chan' \in [Side -> Seq(Item)] /\ chan'[Peer(s)] = Append(chan[Peer(s)], m)
        /\ chan'[Peer(Peer(s))] = chan[Peer(Peer(s))]
    BY <1>1, <2>1, <2>2
  <2>4. left' \in 0..MaxMishaps /\ seen' \subseteq Mishaps /\ seen' = seen \union {"late"}
    BY <2>1, MishapTyped
  <2>5. "late" \in seen' /\ ~(seen' \subseteq {"garbled"}) /\ seen \subseteq seen'
    BY <2>4
  <2> QED  BY <2>3, <2>4, <2>5 DEF Delivers, Becomes
<1> QED  BY <1>2, <1>3

LEMMA ExpiresIs ==
    ASSUME LineTyped, NEW s \in Side, Expires(s)
    PROVE  /\ LineTyped' /\ chan' = chan /\ seen \subseteq seen'
           /\ \/ Silent(s) /\ left' = left /\ seen' = seen
              \/ "late" \in seen'
  BY MishapTyped DEF LineTyped, Expires, Quiet

LEMMA DeliversTyped ==
    ASSUME NEW ch, NEW s \in Side, NEW m, Delivers(ch, s, m) PROVE LineTyped'
  BY DEF Delivers, LineTyped

\* The device ends a transfer: on its own account or because of its flash.
DevStops(ch, how) ==
    /\ verdict' = [verdict EXCEPT !["dev"] = how]
    /\ pc' = [pc EXCEPT !["dev"] = "repl"]
    /\ Delivers(ch, "host", Byte(IF how = "ok" THEN "text_ok" ELSE "text_error"))

HostStops(ch) ==
    /\ verdict' = [verdict EXCEPT !["host"] = "fail"]
    /\ pc' = [pc EXCEPT !["host"] = "done"]
    /\ Delivers(ch, "dev", Byte("can"))

LEMMA TextsAreItems ==
    /\ Byte("text_ok") \in Item /\ Byte("text_error") \in Item /\ Byte("can") \in Item
    /\ Byte("ack") \in Item /\ Byte("nak") \in Item /\ Byte("cmd") \in Item
    /\ Byte("ready") \in Item
    /\ Byte("text_ok").k = "text_ok" /\ Byte("text_error").k = "text_error"
    /\ Byte("can").k = "can" /\ Byte("ack").k = "ack" /\ Byte("nak").k = "nak"
    /\ Byte("cmd").k = "cmd" /\ Byte("ready").k = "ready"
  BY BytesAreItems DEF ItemKinds

LEMMA DevEndsStops ==
    ASSUME LineTyped, NEW ch \in [Side -> Seq(Item)], NEW how, DevEnds(ch, how)
    PROVE  DevStops(ch, how)
<1>1. CASE how = "ok"
  BY <1>1, TextsAreItems, SendDelivers DEF DevEnds, DevStops, Goto, Side
<1>2. CASE how # "ok"
  BY <1>2, TextsAreItems, SendDelivers DEF DevEnds, DevStops, Goto, Side
<1> QED  BY <1>1, <1>2

LEMMA FlashStops ==
    ASSUME LineTyped, NEW ch \in [Side -> Seq(Item)], NEW how, how # "ok",
           DevEndsOnFlash(ch, how)
    PROVE  DevStops(ch, how) /\ ~(seen' \subseteq {"garbled"})
<1>1. Mishap("flash") /\ chan' = [ch EXCEPT !["host"] = Append(@, Byte("text_error"))]
  BY DEF DevEndsOnFlash
<1>2. Byte("text_error") \in Item /\ ch["host"] \in Seq(Item)
  BY TextsAreItems DEF Side
<1>3. Append(ch["host"], Byte("text_error")) \in Seq(Item)
  BY <1>2, AppendProperties
<1>4. /\ chan' \in [Side -> Seq(Item)] /\ chan'["dev"] = ch["dev"]
      /\ chan'["host"] = Append(ch["host"], Byte("text_error"))
  BY <1>1, <1>3 DEF Side
<1>5. /\ left' \in 0..MaxMishaps /\ seen' \subseteq Mishaps /\ seen' = seen \union {"flash"}
  BY <1>1, MishapTyped
<1>6. ~(seen' \subseteq {"garbled"}) /\ seen \subseteq seen'
  BY <1>5
<1>7. Delivers(ch, "host", Byte("text_error"))
  BY <1>2, <1>4, <1>5, <1>6, SidesAre DEF Delivers, Becomes
<1> QED  BY <1>6, <1>7 DEF DevEndsOnFlash, DevStops, Goto

LEMMA GivesUpStops ==
    ASSUME LineTyped, NEW s \in Side, NEW ch \in [Side -> Seq(Item)], NEW why, GivesUp(s, ch, why)
    PROVE  IF s = "dev" THEN DevStops(ch, why) ELSE HostStops(ch)
<1>1. CASE s = "dev"
  BY <1>1, DevEndsStops DEF GivesUp
<1>2. CASE s = "host"
  BY <1>2, SendDelivers, TextsAreItems DEF GivesUp, HostCancels, HostEnds, HostStops, Goto, Side
<1> QED  BY <1>1, <1>2 DEF Side

LEMMA StopsTyped ==
    ASSUME PcTyped, VerdictTyped, NEW ch, NEW how \in DevVerdicts,
           DevStops(ch, how) \/ HostStops(ch)
    PROVE  PcTyped' /\ VerdictTyped' /\ LineTyped'
<1>1. CASE DevStops(ch, how)
  BY <1>1, DeliversTyped DEF DevStops, PcTyped, VerdictTyped, Side, DevPlaces, HostPlaces
<1>2. CASE HostStops(ch)
  BY <1>2, DeliversTyped DEF HostStops, PcTyped, VerdictTyped, Side, DevPlaces, HostPlaces,
     HostVerdicts
<1> QED  BY <1>1, <1>2

----------------------------------------------------------------------------
(* The actions, one side at a time: each keeps the types, and sends and    *)
(* reads what it says.                                                     *)

PlacesOf(s) == IF s = "dev" THEN DevPlaces ELSE HostPlaces

LEMMA GotoIs ==
    ASSUME PcTyped, NEW s \in Side, NEW where \in PlacesOf(s), Goto(s, where)
    PROVE  PcTyped' /\ pc'[s] = where /\ pc'[Peer(s)] = pc[Peer(s)]
<1>1. pc' = [pc EXCEPT ![s] = where]
  BY DEF Goto
<1>2. where \in DevPlaces \union HostPlaces
  BY DEF PlacesOf
<1> QED  BY <1>1, <1>2 DEF PcTyped, PlacesOf, Side, Peer

LEMMA StaysTyped ==
    ASSUME TypeInv, UNCHANGED <<op, pos, file>>, PcTyped', VerdictTyped', LineTyped',
           try' \in [Side -> 0..MaxRetries], junk' \in BOOLEAN,
           held' \in Item, held'.k = "pkt", held'.crc
    PROVE  TypeInv'
  BY SidesStay DEF TypeInv, FileTyped

LEMMA TryIs ==
    ASSUME TypeInv, NEW s \in Side, NEW n \in 0..MaxRetries, try' = [try EXCEPT ![s] = n]
    PROVE  /\ try' \in [Side -> 0..MaxRetries] /\ try'[s] = n
           /\ try'[Peer(s)] = try[Peer(s)]
  BY DEF TypeInv, Side, Peer

LEMMA TryMore ==
    ASSUME TypeInv, NEW s \in Side, try[s] < MaxRetries, try' = [try EXCEPT ![s] = @ + 1]
    PROVE  /\ try' \in [Side -> 0..MaxRetries] /\ try'[s] = try[s] + 1
           /\ try'[Peer(s)] = try[Peer(s)]
<1>1. try[s] + 1 \in 0..MaxRetries
  BY BoundsAreNat DEF TypeInv
<1> QED  BY <1>1, TryIs

\* Side s ends the transfer, after reading an item or not.
Stops(s, how) ==
    /\ how \in DevVerdicts
    /\ \E ch \in [Side -> Seq(Item)] :
          /\ ch = chan \/ (chan[s] # << >> /\ ch = Rest(s))
          /\ IF s = "dev" THEN DevStops(ch, how) ELSE HostStops(ch)
    /\ UNCHANGED <<op, try, pos, held, file, junk>>

LEMMA StopsIs ==
    ASSUME TypeInv, NEW s \in Side, NEW how, Stops(s, how)
    PROVE  /\ TypeInv' /\ seen \subseteq seen'
           /\ verdict'[s] = IF s = "dev" THEN how ELSE "fail"
           /\ pc'[s] = IF s = "dev" THEN "repl" ELSE "done"
           /\ verdict'[Peer(s)] = verdict[Peer(s)] /\ pc'[Peer(s)] = pc[Peer(s)]
           /\ chan'[s] = chan[s] \/ (chan[s] # << >> /\ chan'[s] = Tail(chan[s]))
           /\ \/ chan'[Peer(s)] = chan[Peer(s)]
              \/ \E x \in Item :
                    /\ chan'[Peer(s)] = Append(chan[Peer(s)], x)
                    /\ x.k \in {"noise"} \union
                          IF s = "host" THEN {"can"}
                          ELSE IF how = "ok" THEN {"text_ok"} ELSE {"text_error"}
<1>1. PICK ch \in [Side -> Seq(Item)] :
          /\ ch = chan \/ (chan[s] # << >> /\ ch = Rest(s))
          /\ IF s = "dev" THEN DevStops(ch, how) ELSE HostStops(ch)
  BY DEF Stops
<1>2. /\ ch[Peer(s)] = chan[Peer(s)]
      /\ ch[s] = chan[s] \/ (chan[s] # << >> /\ ch[s] = Tail(chan[s]))
  BY <1>1, RestIs DEF TypeInv, LineTyped
<1>3. PcTyped' /\ VerdictTyped' /\ LineTyped'
  BY <1>1, StopsTyped DEF Stops, TypeInv
<1>4. TypeInv'
  BY <1>3, StaysTyped DEF Stops, TypeInv
<1>5. CASE s = "dev"
  <2> DEFINE k == IF how = "ok" THEN "text_ok" ELSE "text_error"
  <2>1. /\ verdict' = [verdict EXCEPT !["dev"] = how] /\ pc' = [pc EXCEPT !["dev"] = "repl"]
        /\ Delivers(ch, "host", Byte(k))
    BY <1>1, <1>5 DEF DevStops
  <2>2. Byte(k).k = k
    BY TextsAreItems
  <2>3. k = IF how = "ok" THEN "text_ok" ELSE "text_error"
    OBVIOUS
  <2> HIDE DEF k
  <2>4. /\ verdict'["dev"] = how /\ pc'["dev"] = "repl" /\ Peer("dev") = "host"
        /\ verdict'["host"] = verdict["host"] /\ pc'["host"] = pc["host"]
    BY <2>1, SidesAre DEF TypeInv, PcTyped, VerdictTyped, Side
  <2>5. /\ chan'["dev"] = ch["dev"] /\ seen \subseteq seen'
        /\ \/ chan'["host"] = ch["host"]
           \/ \E x \in Item : chan'["host"] = Append(ch["host"], x) /\ x.k \in {k, "noise"}
    BY <2>1, <2>2, <2>3, SidesAre DEF Delivers, Becomes
  <2> QED  BY <1>2, <1>4, <1>5, <2>3, <2>4, <2>5
<1>6. CASE s = "host"
  <2>1. /\ verdict' = [verdict EXCEPT !["host"] = "fail"] /\ pc' = [pc EXCEPT !["host"] = "done"]
        /\ Delivers(ch, "dev", Byte("can"))
    BY <1>1, <1>6 DEF HostStops
  <2>2. /\ verdict'["host"] = "fail" /\ pc'["host"] = "done" /\ Peer("host") = "dev"
        /\ verdict'["dev"] = verdict["dev"] /\ pc'["dev"] = pc["dev"]
    BY <2>1, SidesAre DEF TypeInv, PcTyped, VerdictTyped, Side
  <2>3. /\ chan'["host"] = ch["host"] /\ seen \subseteq seen'
        /\ \/ chan'["dev"] = ch["dev"]
           \/ \E x \in Item : chan'["dev"] = Append(ch["dev"], x) /\ x.k \in {"can", "noise"}
    BY <2>1, TextsAreItems, SidesAre DEF Delivers, Becomes
  <2> QED  BY <1>2, <1>4, <1>6, <2>2, <2>3
<1> QED  BY <1>5, <1>6 DEF Side

LEMMA GivesUpIs ==
    ASSUME TypeInv, NEW s \in Side, NEW ch, ch = chan \/ (chan[s] # << >> /\ ch = Rest(s)),
           NEW why \in DevVerdicts, GivesUp(s, ch, why),
           UNCHANGED <<op, try, pos, held, file, junk>>
    PROVE  Stops(s, why)
<1>1. ch \in [Side -> Seq(Item)] /\ LineTyped
  BY RestIs DEF TypeInv, LineTyped
<1> QED  BY <1>1, GivesUpStops DEF Stops

LEMMA DevEndsIs ==
    ASSUME TypeInv, NEW ch, ch = chan \/ (chan["dev"] # << >> /\ ch = Rest("dev")),
           NEW how \in DevVerdicts,
           DevEnds(ch, how) \/ (how # "ok" /\ DevEndsOnFlash(ch, how)),
           UNCHANGED <<op, try, pos, held, file, junk>>
    PROVE  Stops("dev", how)
<1>1. ch \in [Side -> Seq(Item)] /\ LineTyped /\ "dev" \in Side
  BY RestIs DEF TypeInv, LineTyped, Side
<1> QED  BY <1>1, DevEndsStops, FlashStops DEF Stops

\* Side s sends m, and has q left to read.
Puts(s, m, q) ==
    /\ chan'[s] = q /\ seen \subseteq seen'
    /\ \/ chan'[Peer(s)] = chan[Peer(s)] /\ ~(seen' \subseteq {"garbled"})
       \/ \E x \in Item : chan'[Peer(s)] = Append(chan[Peer(s)], x) /\ Becomes(m, x)

LEMMA PutsIs ==
    ASSUME TypeInv, NEW s \in Side, NEW m \in Item,
           NEW ch, ch = chan \/ (chan[s] # << >> /\ ch = Rest(s)),
           SendOver(ch, Peer(s), m) \/ Delivers(ch, Peer(s), m)
    PROVE  LineTyped' /\ Puts(s, m, ch[s])
<1>1. /\ ch \in [Side -> Seq(Item)] /\ LineTyped /\ Peer(s) \in Side /\ Peer(Peer(s)) = s
      /\ ch[Peer(s)] = chan[Peer(s)]
  BY RestIs DEF TypeInv, LineTyped, Side, Peer
<1>2. Delivers(ch, Peer(s), m)
  BY <1>1, SendDelivers
<1>3. LineTyped'
  BY <1>1, <1>2, DeliversTyped
<1>4. Puts(s, m, ch[s])
  BY <1>1, <1>2 DEF Delivers, Puts
<1> QED  BY <1>3, <1>4

\* A side stops for good only while it is in the transfer; and the device says
\* "ok" only of a file of the announced length.
EndsWell(s, how) ==
    /\ Stops(s, how) /\ how # "none"
    /\ IF s = "dev" THEN pc["dev"] # "repl" \/ verdict["dev"] = "none"
                    ELSE pc["host"] \in {"send", "answer", "recv", "mid", "store"}
    /\ how = "ok" =>
          /\ s = "dev" /\ pos["dev"] = Chunks
          /\ \/ /\ Sender = "dev" /\ pc["dev"] = "answer"
                /\ chan["dev"] # << >> /\ Head(chan["dev"]).k = "ack"
             \/ /\ Receiver = "dev" /\ pc["dev"] = "store" /\ held.chunk = 0
                /\ chan'["dev"] = chan["dev"]

LEMMA EndsWellIs ==
    ASSUME TypeInv, NEW s \in Side, NEW how, how \notin {"ok", "none"}, Stops(s, how),
           \/ pc[s] \in {"go", "go2", "send", "answer", "recv", "mid", "store"}
           \/ s = "dev" /\ verdict["dev"] = "none"
    PROVE  EndsWell(s, how)
  BY DEF EndsWell, Side, TypeInv, PcTyped, HostPlaces

LEMMA HostCommandIs ==
    ASSUME TypeInv, HostCommand
    PROVE  /\ TypeInv' /\ Puts("host", Byte("cmd"), chan["host"])
           /\ pc'["host"] = "ready" /\ pc'["dev"] = pc["dev"]
<1>1. LineTyped' /\ Puts("host", Byte("cmd"), chan["host"])
  <2>1. SendOver(chan, "dev", Byte("cmd"))
    BY DEF HostCommand
  <2> QED  BY <2>1, PutsIs, TextsAreItems, SidesAre
<1>2. PcTyped' /\ pc'["host"] = "ready" /\ pc'["dev"] = pc["dev"]
  BY GotoIs, SidesAre DEF HostCommand, TypeInv, PlacesOf, HostPlaces
<1> QED  BY <1>1, <1>2, StaysTyped DEF HostCommand, TypeInv, VerdictTyped

LEMMA DevOpensIs ==
    ASSUME TypeInv, DevOpens
    PROVE  \/ /\ TypeInv' /\ Puts("dev", Byte("ready"), Tail(chan["dev"]))
              /\ pc'["dev"] = "go" /\ pc'["host"] = pc["host"] /\ verdict' = verdict
           \/ EndsWell("dev", "open")
<1>1. CASE SendOver(Rest("dev"), "host", Byte("ready")) /\ Goto("dev", "go") /\ verdict' = verdict
  <2>1. Rest("dev")["dev"] = Tail(chan["dev"]) /\ chan["dev"] # << >>
    BY RestIs, SidesAre DEF DevOpens, TypeInv, LineTyped
  <2>2. LineTyped' /\ Puts("dev", Byte("ready"), Tail(chan["dev"]))
    BY <1>1, <2>1, PutsIs, TextsAreItems, SidesAre
  <2>3. PcTyped' /\ pc'["dev"] = "go" /\ pc'["host"] = pc["host"]
    BY <1>1, GotoIs, SidesAre DEF TypeInv, PlacesOf, DevPlaces
  <2> QED  BY <1>1, <2>2, <2>3, StaysTyped DEF DevOpens, TypeInv, VerdictTyped
<1>2. CASE DevEndsOnFlash(Rest("dev"), "open")
  <2>1. Stops("dev", "open")
    BY <1>2, DevEndsIs DEF DevOpens, DevVerdicts
  <2> QED  BY <2>1, EndsWellIs, SidesAre DEF DevOpens
<1> QED  BY <1>1, <1>2 DEF DevOpens

LEMMA HostReadyIs ==
    ASSUME TypeInv, HostReady
    PROVE  /\ TypeInv' /\ verdict' = verdict /\ pc'["dev"] = pc["dev"] /\ chan["host"] # << >>
           /\ \/ /\ Head(chan["host"]).k = "ready"
                 /\ pc'["host"] = IF op = "PU" THEN "send" ELSE "recv"
                 /\ Puts("host", Byte("ack"), << >>)
              \/ /\ Head(chan["host"]).k # "ready"
                 /\ chan' = Rest("host") /\ pc'["host"] = pc["host"]
                 /\ left' = left /\ seen' = seen
<1>1. CASE Head(chan["host"]).k = "ready"
  <2> DEFINE ch == [chan EXCEPT !["host"] = << >>]
  <2>1. SendOver(ch, "dev", Byte("ack")) /\ Goto("host", IF op = "PU" THEN "send" ELSE "recv")
    BY <1>1 DEF HostReady
  <2>2. << >> \in Seq(Item)
    OBVIOUS
  <2>3. ch \in [Side -> Seq(Item)] /\ ch["dev"] = chan["dev"] /\ ch["host"] = << >>
    BY <2>2 DEF TypeInv, LineTyped, Side
  <2> HIDE DEF ch
  <2>4. Delivers(ch, "dev", Byte("ack"))
    BY <2>1, <2>3, SendDelivers, TextsAreItems, SidesAre DEF TypeInv
  <2>5. LineTyped' /\ Puts("host", Byte("ack"), << >>)
    BY <2>3, <2>4, DeliversTyped, SidesAre DEF Delivers, Puts
  <2>6. /\ PcTyped' /\ pc'["host"] = IF op = "PU" THEN "send" ELSE "recv"
        /\ pc'["dev"] = pc["dev"]
    <3>1. CASE op = "PU"
      BY <2>1, <3>1, GotoIs, SidesAre DEF TypeInv, PlacesOf, HostPlaces
    <3>2. CASE op # "PU"
      BY <2>1, <3>2, GotoIs, SidesAre DEF TypeInv, PlacesOf, HostPlaces
    <3> QED  BY <3>1, <3>2
  <2> QED  BY <1>1, <2>5, <2>6, StaysTyped DEF HostReady, TypeInv, VerdictTyped
<1>2. CASE Head(chan["host"]).k # "ready"
  <2>1. /\ Consume("host") /\ chan["host"] # << >> /\ UNCHANGED <<op, pc, try, pos, held, file, verdict, junk>>
    BY <1>2 DEF HostReady
  <2>2. LineTyped' /\ chan' = Rest("host") /\ left' = left /\ seen' = seen
    BY <2>1, ConsumeTyped, SidesAre DEF TypeInv
  <2> QED  BY <1>2, <2>1, <2>2, StaysTyped DEF TypeInv, VerdictTyped, PcTyped
<1> QED  BY <1>1, <1>2

\* The host ends by a time limit, or at the frame that it waited for.
LEMMA HostEndsIs ==
    ASSUME TypeInv, NEW how \in {"ok", "fail"}, HostEnds(how),
           UNCHANGED <<op, try, pos, held, file, junk>>, LineTyped'
    PROVE  /\ TypeInv' /\ verdict'["host"] = how /\ verdict'["dev"] = verdict["dev"]
           /\ pc'["host"] = "done" /\ pc'["dev"] = pc["dev"]
<1>1. /\ verdict' = [verdict EXCEPT !["host"] = how] /\ Goto("host", "done")
  BY DEF HostEnds
<1>2. PcTyped' /\ pc'["host"] = "done" /\ pc'["dev"] = pc["dev"]
  BY <1>1, GotoIs, SidesAre DEF TypeInv, PlacesOf, HostPlaces
<1>3. VerdictTyped' /\ verdict'["host"] = how /\ verdict'["dev"] = verdict["dev"]
  BY <1>1 DEF TypeInv, VerdictTyped, HostVerdicts, Side
<1> QED  BY <1>2, <1>3, StaysTyped DEF TypeInv

LEMMA HostReadyTimeoutIs ==
    ASSUME TypeInv, HostReadyTimeout
    PROVE  /\ TypeInv' /\ verdict'["host"] = "fail" /\ verdict'["dev"] = verdict["dev"]
           /\ pc'["host"] = "done" /\ pc'["dev"] = pc["dev"] /\ chan' = chan
           /\ seen \subseteq seen'
<1>1. LineTyped' /\ chan' = chan /\ seen \subseteq seen'
  BY ExpiresIs, SidesAre DEF HostReadyTimeout, TypeInv
<1> QED  BY <1>1, HostEndsIs DEF HostReadyTimeout

LEMMA DevGoIs ==
    ASSUME TypeInv, DevGo
    PROVE  /\ pc["dev"] \in {"go", "go2"} /\ chan["dev"] # << >>
           /\ \/ /\ TypeInv' /\ verdict' = verdict /\ pc'["host"] = pc["host"]
                 /\ chan' = Rest("dev") /\ left' = left /\ seen' = seen
                 /\ \/ /\ pc'["dev"] = IF op = "PU" THEN "recv" ELSE "send"
                       /\ op = "PU" => Head(chan["dev"]).k = "ack"
                    \/ /\ op = "PU" /\ pc["dev"] = "go" /\ pc'["dev"] = "go2"
                       /\ Head(chan["dev"]).k # "ack"
              \/ EndsWell("dev", "nogo")
<1> DEFINE m == Head(chan["dev"])
<1>1. pc["dev"] \in {"go", "go2"} /\ chan["dev"] # << >>
  BY DEF DevGo
<1>2. ASSUME Consume("dev"), verdict' = verdict, NEW where \in {"recv", "send", "go2"},
             Goto("dev", where)
      PROVE  /\ TypeInv' /\ pc'["host"] = pc["host"] /\ pc'["dev"] = where
             /\ chan' = Rest("dev") /\ left' = left /\ seen' = seen
  <2>1. LineTyped' /\ chan' = Rest("dev") /\ left' = left /\ seen' = seen
    BY <1>1, <1>2, ConsumeTyped, SidesAre DEF TypeInv
  <2>2. PcTyped' /\ pc'["dev"] = where /\ pc'["host"] = pc["host"]
    BY <1>2, GotoIs, SidesAre DEF TypeInv, PlacesOf, DevPlaces
  <2> QED  BY <1>2, <2>1, <2>2, StaysTyped DEF DevGo, TypeInv, VerdictTyped
<1>3. CASE DevEnds(Rest("dev"), "nogo")
  <2>1. Stops("dev", "nogo")
    BY <1>1, <1>3, DevEndsIs DEF DevGo, DevVerdicts
  <2> QED  BY <1>1, <2>1, EndsWellIs, SidesAre
<1>4. CASE /\ IF op = "PU" THEN m.k = "ack" ELSE m.k # "can"
           /\ Goto("dev", IF op = "PU" THEN "recv" ELSE "send")
           /\ Consume("dev") /\ verdict' = verdict
  BY <1>1, <1>2, <1>4
<1>5. CASE /\ op = "PU" /\ pc["dev"] = "go" /\ m.k \notin {"ack", "can"}
           /\ Goto("dev", "go2") /\ Consume("dev") /\ verdict' = verdict
  BY <1>1, <1>2, <1>5
<1> QED  BY <1>3, <1>4, <1>5 DEF DevGo

LEMMA DevGoTimeoutIs ==
    ASSUME TypeInv, DevGoTimeout PROVE EndsWell("dev", "nogo")
<1>1. Delivers(chan, "host", Byte("text_error"))
  BY ExpiresSends, TextsAreItems, SidesAre DEF DevGoTimeout, TypeInv
<1>2. DevStops(chan, "nogo")
  BY <1>1 DEF DevStops, DevGoTimeout, Goto
<1>3. chan \in [Side -> Seq(Item)]
  BY DEF TypeInv, LineTyped
<1>4. Stops("dev", "nogo")
  BY <1>2, <1>3 DEF Stops, DevGoTimeout, DevVerdicts
<1> QED  BY <1>4, EndsWellIs, SidesAre DEF DevGoTimeout

----------------------------------------------------------------------------
(* The sender's actions.                                                   *)

\* The packet that carries position p of the stream: chunk p + 1, or the end.
At(p) == Packet(p % SeqMod, IF p < Chunks THEN p + 1 ELSE 0)
PosOf(m) == IF m.chunk = 0 THEN Chunks ELSE m.chunk - 1

LEMMA AtIs ==
    ASSUME NEW p \in 0..Chunks
    PROVE  /\ At(p) \in Item /\ At(p).k = "pkt" /\ At(p).crc /\ PosOf(At(p)) = p
           /\ At(p).seq = p % SeqMod
           /\ At(p).chunk = IF p < Chunks THEN p + 1 ELSE 0
<1> DEFINE seq == p % SeqMod
           chunk == IF p < Chunks THEN p + 1 ELSE 0
<1>1. seq \in 0..(SeqMod - 1) /\ chunk \in 0..Chunks
  BY BoundsAreNat
<1>2. At(p) = Packet(seq, chunk) /\ (chunk = 0 => p = Chunks) /\ (chunk # 0 => p = chunk - 1)
  BY BoundsAreNat DEF At
<1> HIDE DEF seq, chunk
<1>3. At(p).chunk = chunk /\ At(p).seq = seq /\ At(p) \in Item /\ At(p).k = "pkt" /\ At(p).crc
  BY <1>1, <1>2, PacketsAreItems
<1>4. PosOf(At(p)) = p
  BY <1>2, <1>3 DEF PosOf
<1> QED  BY <1>3, <1>4 DEF seq, chunk

LEMMA NextPacketIs ==
    ASSUME TypeInv, NEW s \in Side PROVE NextPacket(s) = At(pos[s])
<1>1. pos[s] \in 0..Chunks
  BY DEF TypeInv, FileTyped
<1>2. pos[s] < Chunks => Source[pos[s] + 1] = pos[s] + 1
  BY <1>1, BoundsAreNat DEF Source
<1> QED  BY <1>2 DEF NextPacket, At

LEMMA SendPacketIs ==
    ASSUME TypeInv, NEW s \in Side, SendPacket(s)
    PROVE  /\ TypeInv' /\ s = Sender /\ pc[s] = "send" /\ try[s] < MaxRetries
           /\ pc'[s] = "answer" /\ pc'[Peer(s)] = pc[Peer(s)]
           /\ try'[s] = try[s] + 1 /\ try'[Peer(s)] = try[Peer(s)]
           /\ Puts(s, At(pos[s]), chan[s])
           /\ UNCHANGED <<op, pos, held, file, verdict, junk>>
<1>1. /\ s = Sender /\ pc[s] = "send" /\ try[s] < MaxRetries
      /\ SendOver(chan, Peer(s), At(pos[s])) /\ try' = [try EXCEPT ![s] = @ + 1]
      /\ Goto(s, "answer") /\ UNCHANGED <<op, pos, held, file, verdict, junk>>
  BY NextPacketIs DEF SendPacket
<1>2. At(pos[s]) \in Item
  BY AtIs DEF TypeInv, FileTyped
<1>3. LineTyped' /\ Puts(s, At(pos[s]), chan[s])
  BY <1>1, <1>2, PutsIs
<1>4. PcTyped' /\ pc'[s] = "answer" /\ pc'[Peer(s)] = pc[Peer(s)]
  BY <1>1, GotoIs DEF TypeInv, PlacesOf, DevPlaces, HostPlaces
<1>5. try' \in [Side -> 0..MaxRetries] /\ try'[s] = try[s] + 1 /\ try'[Peer(s)] = try[Peer(s)]
  BY <1>1, TryMore
<1> QED  BY <1>1, <1>3, <1>4, <1>5, StaysTyped DEF TypeInv, VerdictTyped

LEMMA SenderGivesUpIs ==
    ASSUME TypeInv, NEW s \in Side, SenderGivesUp(s)
    PROVE  \E how : EndsWell(s, how)
<1>1. \E why \in {"xfer", "eot"} : Stops(s, why)
  BY GivesUpIs DEF SenderGivesUp, DevVerdicts
<1> QED  BY <1>1, EndsWellIs DEF SenderGivesUp

LEMMA DevReadFailsIs ==
    ASSUME TypeInv, DevReadFails
    PROVE  /\ TypeInv' /\ pc["dev"] = "send" /\ Sender = "dev" /\ ~(seen' \subseteq {"garbled"})
           /\ pc'["dev"] = "repl" /\ pc'["host"] = pc["host"]
           /\ verdict'["dev"] = "read" /\ verdict'["host"] = verdict["host"]
           /\ chan'["dev"] = chan["dev"] /\ seen \subseteq seen'
           /\ chan'["host"] = Append(Append(chan["host"], Byte("can")), Byte("text_error"))
<1> DEFINE q == Append(Append(chan["host"], Byte("can")), Byte("text_error"))
<1>1. /\ Mishap("flash") /\ chan' = [chan EXCEPT !["host"] = @ \o <<Byte("can"), Byte("text_error")>>]
      /\ verdict' = [verdict EXCEPT !["dev"] = "read"] /\ Goto("dev", "repl")
      /\ UNCHANGED <<op, try, pos, held, file, junk>> /\ pc["dev"] = "send" /\ Sender = "dev"
  BY DEF DevReadFails
<1>2. chan \in [Side -> Seq(Item)] /\ chan["host"] \in Seq(Item)
  BY DEF TypeInv, LineTyped, Side
<1>3. chan["host"] \o <<Byte("can"), Byte("text_error")>> = q /\ q \in Seq(Item)
  <2> DEFINE a == Byte("can")
             b == Byte("text_error")
             c == chan["host"]
  <2>1. a \in Item /\ b \in Item /\ c \in Seq(Item)
    BY <1>2, TextsAreItems
  <2> HIDE DEF a, b, c
  <2>2. c \o <<a, b>> = Append(Append(c, a), b) /\ Append(Append(c, a), b) \in Seq(Item)
    BY <2>1
  <2> QED  BY <2>2 DEF a, b, c
<1> HIDE DEF q
<1>4. chan' \in [Side -> Seq(Item)] /\ chan'["host"] = q /\ chan'["dev"] = chan["dev"]
  BY <1>1, <1>2, <1>3 DEF Side
<1>5. left' \in 0..MaxMishaps /\ seen' \subseteq Mishaps /\ seen' = seen \union {"flash"}
  BY <1>1, MishapTyped DEF TypeInv
<1>6. LineTyped' /\ seen \subseteq seen' /\ ~(seen' \subseteq {"garbled"})
  BY <1>4, <1>5 DEF LineTyped
<1>7. PcTyped' /\ pc'["dev"] = "repl" /\ pc'["host"] = pc["host"]
  BY <1>1, GotoIs, SidesAre DEF TypeInv, PlacesOf, DevPlaces
<1>8. VerdictTyped' /\ verdict'["dev"] = "read" /\ verdict'["host"] = verdict["host"]
  BY <1>1 DEF TypeInv, VerdictTyped, DevVerdicts, Side
<1>9. TypeInv'
  BY <1>1, <1>6, <1>7, <1>8, StaysTyped DEF TypeInv
<1> QED  BY <1>1, <1>4, <1>6, <1>7, <1>8, <1>9 DEF q

\* A step that only reads an item, or that ends a wait.
Reads(s) == chan[s] # << >> /\ chan' = Rest(s) /\ left' = left /\ seen' = seen

LEMMA ConsumeIs ==
    ASSUME TypeInv, NEW s \in Side, chan[s] # << >>, Consume(s)
    PROVE  LineTyped' /\ Reads(s)
  BY ConsumeTyped DEF TypeInv, Reads

LEMMA AckedChunkIs ==
    ASSUME TypeInv, NEW s \in Side, AckedChunk(s)
    PROVE  /\ TypeInv' /\ s = Sender /\ pc[s] = "answer" /\ Reads(s)
           /\ Head(chan[s]).k = "ack" /\ pos[s] < Chunks
           /\ pc'[s] = "send" /\ pc'[Peer(s)] = pc[Peer(s)]
           /\ pos'[s] = pos[s] + 1 /\ pos'[Peer(s)] = pos[Peer(s)]
           /\ try'[s] = 0 /\ try'[Peer(s)] = try[Peer(s)]
           /\ UNCHANGED <<op, held, file, verdict, junk>>
<1>1. /\ s = Sender /\ pc[s] = "answer" /\ chan[s] # << >> /\ Head(chan[s]).k = "ack"
      /\ pos[s] < Chunks /\ pos' = [pos EXCEPT ![s] = @ + 1]
      /\ try' = [try EXCEPT ![s] = 0] /\ Goto(s, "send") /\ Consume(s)
      /\ UNCHANGED <<op, held, file, verdict, junk>>
  BY DEF AckedChunk, Answered
<1>2. LineTyped' /\ Reads(s)
  BY <1>1, ConsumeIs
<1>3. PcTyped' /\ pc'[s] = "send" /\ pc'[Peer(s)] = pc[Peer(s)]
  BY <1>1, GotoIs DEF TypeInv, PlacesOf, DevPlaces, HostPlaces
<1>4. try' \in [Side -> 0..MaxRetries] /\ try'[s] = 0 /\ try'[Peer(s)] = try[Peer(s)]
  <2>1. 0 \in 0..MaxRetries
    BY BoundsAreNat
  <2> QED  BY <1>1, <2>1, TryIs
<1>5. /\ pos' \in [Side -> 0..Chunks] /\ pos'[s] = pos[s] + 1 /\ pos'[Peer(s)] = pos[Peer(s)]
  <2>1. pos \in [Side -> 0..Chunks] /\ pos[s] + 1 \in 0..Chunks /\ Peer(s) \in Side /\ Peer(s) # s
    BY <1>1, BoundsAreNat DEF TypeInv, FileTyped, Side, Peer
  <2> QED  BY <1>1, <2>1
<1>6. FileTyped'
  <2>1. Receiver' = Receiver /\ Receiver = Peer(s)
    BY <1>1, SidesStay, SidesAre
  <2> QED  BY <1>1, <1>5, <2>1 DEF TypeInv, FileTyped
<1> QED  BY <1>1, <1>2, <1>3, <1>4, <1>5, <1>6 DEF TypeInv, VerdictTyped

LEMMA AckedEndIs ==
    ASSUME TypeInv, NEW s \in Side, AckedEnd(s)
    PROVE  \/ /\ TypeInv' /\ s = "host" /\ s = Sender /\ pc[s] = "answer" /\ Reads(s)
              /\ Head(chan[s]).k = "ack" /\ pos[s] = Chunks
              /\ pc'["host"] = "final" /\ pc'["dev"] = pc["dev"]
              /\ UNCHANGED <<op, try, pos, held, file, verdict, junk>>
           \/ s = "dev" /\ \E how : EndsWell(s, how)
<1>1. /\ s = Sender /\ pc[s] = "answer" /\ chan[s] # << >> /\ Head(chan[s]).k = "ack"
      /\ pos[s] = Chunks /\ UNCHANGED <<op, try, pos, held, file, junk>>
  BY DEF AckedEnd, Answered
<1>2. CASE s = "host" /\ Goto(s, "final") /\ Consume(s) /\ verdict' = verdict
  <2>1. LineTyped' /\ Reads(s)
    BY <1>1, <1>2, ConsumeIs
  <2>2. PcTyped' /\ pc'["host"] = "final" /\ pc'["dev"] = pc["dev"]
    BY <1>2, GotoIs, SidesAre DEF TypeInv, PlacesOf, HostPlaces
  <2>3. TypeInv'
    BY <1>1, <1>2, <2>1, <2>2, StaysTyped DEF TypeInv, VerdictTyped
  <2> QED  BY <1>1, <1>2, <2>1, <2>2, <2>3
<1>3. CASE s = "dev" /\ DevEnds(Rest(s), "ok")
  <2>1. Stops("dev", "ok")
    BY <1>1, <1>3, DevEndsIs DEF DevVerdicts
  <2> QED  BY <1>1, <1>3, <2>1 DEF EndsWell
<1>4. CASE s = "dev" /\ DevEndsOnFlash(Rest(s), "close")
  <2>1. Stops("dev", "close")
    BY <1>1, <1>4, DevEndsIs DEF DevVerdicts
  <2> QED  BY <1>1, <1>4, <2>1, EndsWellIs
<1> QED  BY <1>2, <1>3, <1>4 DEF AckedEnd

LEMMA RefusedIs ==
    ASSUME TypeInv, NEW s \in Side, Refused(s)
    PROVE  /\ TypeInv' /\ s = Sender /\ pc[s] = "answer" /\ chan[s] # << >>
           /\ Head(chan[s]).k \notin {"ack", "can"}
           /\ IF Multibyte(Head(chan[s])) THEN UNCHANGED <<chan, left, seen>> ELSE Reads(s)
           /\ pc'[s] = "send" /\ pc'[Peer(s)] = pc[Peer(s)]
           /\ UNCHANGED <<op, try, pos, held, file, verdict, junk>>
<1>1. /\ s = Sender /\ pc[s] = "answer" /\ chan[s] # << >> /\ Head(chan[s]).k \notin {"ack", "can"}
      /\ Goto(s, "send") /\ UNCHANGED <<op, try, pos, held, file, verdict, junk>>
      /\ IF Multibyte(Head(chan[s])) THEN UNCHANGED <<chan, left, seen>> ELSE Consume(s)
  BY DEF Refused, Answered
<1>2. LineTyped' /\ (IF Multibyte(Head(chan[s])) THEN UNCHANGED <<chan, left, seen>> ELSE Reads(s))
  <2>1. CASE Multibyte(Head(chan[s]))
    BY <1>1, <2>1 DEF TypeInv, LineTyped
  <2>2. CASE ~Multibyte(Head(chan[s]))
    BY <1>1, <2>2, ConsumeIs
  <2> QED  BY <2>1, <2>2
<1>3. PcTyped' /\ pc'[s] = "send" /\ pc'[Peer(s)] = pc[Peer(s)]
  BY <1>1, GotoIs DEF TypeInv, PlacesOf, DevPlaces, HostPlaces
<1>4. TypeInv'
  BY <1>1, <1>2, <1>3, StaysTyped DEF TypeInv, VerdictTyped
<1> QED  BY <1>1, <1>2, <1>3, <1>4

LEMMA CancelledIs ==
    ASSUME TypeInv, NEW s \in Side, Cancelled(s)
    PROVE  \E how : EndsWell(s, how)
<1>1. Stops(s, "xfer")
  BY GivesUpIs DEF Cancelled, Answered, DevVerdicts
<1> QED  BY <1>1, EndsWellIs DEF Cancelled, Answered

LEMMA AnswerTimeoutIs ==
    ASSUME TypeInv, NEW s \in Side, AnswerTimeout(s)
    PROVE  /\ TypeInv' /\ s = Sender /\ pc[s] = "answer" /\ chan' = chan /\ seen \subseteq seen'
           /\ (Silent(s) /\ left' = left /\ seen' = seen) \/ "late" \in seen'
           /\ pc'[s] = "send" /\ pc'[Peer(s)] = pc[Peer(s)]
           /\ UNCHANGED <<op, try, pos, held, file, verdict, junk>>
<1>1. /\ s = Sender /\ pc[s] = "answer" /\ Expires(s) /\ Goto(s, "send")
      /\ UNCHANGED <<op, try, pos, held, file, verdict, junk>>
  BY DEF AnswerTimeout
<1>2. /\ LineTyped' /\ chan' = chan /\ seen \subseteq seen'
      /\ (Silent(s) /\ left' = left /\ seen' = seen) \/ "late" \in seen'
  BY <1>1, ExpiresIs DEF TypeInv
<1>3. PcTyped' /\ pc'[s] = "send" /\ pc'[Peer(s)] = pc[Peer(s)]
  BY <1>1, GotoIs DEF TypeInv, PlacesOf, DevPlaces, HostPlaces
<1>4. TypeInv'
  BY <1>1, <1>2, <1>3, StaysTyped DEF TypeInv, VerdictTyped
<1> QED  BY <1>1, <1>2, <1>3, <1>4

----------------------------------------------------------------------------
(* The receiver's actions.                                                 *)

LEMMA TakePacketIs ==
    ASSUME TypeInv, NEW s \in Side, TakePacket(s)
    PROVE  /\ TypeInv' /\ s = Receiver /\ pc[s] = "recv" /\ chan[s] # << >>
           /\ Head(chan[s]).k = "pkt" /\ Head(chan[s]).crc /\ held' = Head(chan[s])
           /\ Puts(s, Byte("ack"), Tail(chan[s]))
           /\ pc'[s] = "store" /\ pc'[Peer(s)] = pc[Peer(s)]
           /\ UNCHANGED <<op, try, pos, file, verdict, junk>>
<1>1. /\ s = Receiver /\ pc[s] = "recv" /\ chan[s] # << >>
      /\ Head(chan[s]).k = "pkt" /\ Head(chan[s]).crc /\ held' = Head(chan[s])
      /\ SendOver(Rest(s), Peer(s), Byte("ack")) /\ Goto(s, "store")
      /\ UNCHANGED <<op, try, pos, file, verdict, junk>>
  BY DEF TakePacket, Arriving
<1>2. Rest(s)[s] = Tail(chan[s]) /\ Head(chan[s]) \in Item
  BY <1>1, RestIs DEF TypeInv, LineTyped
<1>3. LineTyped' /\ Puts(s, Byte("ack"), Tail(chan[s]))
  BY <1>1, <1>2, PutsIs, TextsAreItems
<1>4. PcTyped' /\ pc'[s] = "store" /\ pc'[Peer(s)] = pc[Peer(s)]
  BY <1>1, GotoIs DEF TypeInv, PlacesOf, DevPlaces, HostPlaces
<1>5. TypeInv'
  BY <1>1, <1>2, <1>3, <1>4, StaysTyped DEF TypeInv, VerdictTyped
<1> QED  BY <1>1, <1>3, <1>4, <1>5

LEMMA TriesAreNat == ASSUME TypeInv, NEW s \in Side PROVE try[s] \in Nat
  BY BoundsAreNat DEF TypeInv

\* The receiver counts a try, or the last one, having sent a NAK.
Naks(s, q, where) ==
    /\ TypeInv' /\ s = Receiver /\ Puts(s, Byte("nak"), q)
    /\ try[s] < MaxRetries /\ try'[s] > try[s] /\ try'[Peer(s)] = try[Peer(s)]
    /\ pc'[s] = where /\ pc'[Peer(s)] = pc[Peer(s)]
    /\ UNCHANGED <<op, pos, held, file, verdict, junk>>

LEMMA NakPacketIs ==
    ASSUME TypeInv, NEW s \in Side, NakPacket(s)
    PROVE  /\ pc[s] = "recv" /\ chan[s] # << >>
           /\ Head(chan[s]).k = "pkt" /\ ~Head(chan[s]).crc
           /\ Naks(s, Tail(chan[s]), "recv") /\ try'[s] = try[s] + 1
<1>1. /\ s = Receiver /\ pc[s] = "recv" /\ chan[s] # << >> /\ try[s] < MaxRetries
      /\ Head(chan[s]).k = "pkt" /\ ~Head(chan[s]).crc
      /\ SendOver(Rest(s), Peer(s), Byte("nak")) /\ try' = [try EXCEPT ![s] = @ + 1]
      /\ UNCHANGED <<op, pc, pos, held, file, verdict, junk>>
  BY DEF NakPacket, Arriving
<1>2. Rest(s)[s] = Tail(chan[s])
  BY <1>1, RestIs DEF TypeInv, LineTyped
<1>3. LineTyped' /\ Puts(s, Byte("nak"), Tail(chan[s]))
  BY <1>1, <1>2, PutsIs, TextsAreItems
<1>4. try' \in [Side -> 0..MaxRetries] /\ try'[s] = try[s] + 1 /\ try'[Peer(s)] = try[Peer(s)]
  BY <1>1, TryMore
<1>5. TypeInv'
  BY <1>1, <1>3, <1>4, StaysTyped DEF TypeInv, VerdictTyped, PcTyped
<1>6. try'[s] > try[s]
  BY <1>4, TriesAreNat
<1> QED  BY <1>1, <1>3, <1>4, <1>5, <1>6 DEF Naks

\* The receiver drops an item, and is at "where" afterwards.
Drops(s, where) ==
    /\ TypeInv' /\ s = Receiver /\ Reads(s)
    /\ pc'[s] = where /\ pc'[Peer(s)] = pc[Peer(s)]
    /\ UNCHANGED <<op, try, pos, held, file, verdict, junk>>

LEMMA StartPartialIs ==
    ASSUME TypeInv, NEW s \in Side, StartPartial(s)
    PROVE  pc[s] = "recv" /\ Head(chan[s]).k = "part" /\ Drops(s, "mid")
<1>1. /\ s = Receiver /\ pc[s] = "recv" /\ chan[s] # << >> /\ Head(chan[s]).k = "part"
      /\ Consume(s) /\ Goto(s, "mid") /\ UNCHANGED <<op, try, pos, held, file, verdict, junk>>
  BY DEF StartPartial, Arriving
<1>2. LineTyped' /\ Reads(s)
  BY <1>1, ConsumeIs
<1>3. PcTyped' /\ pc'[s] = "mid" /\ pc'[Peer(s)] = pc[Peer(s)]
  BY <1>1, GotoIs DEF TypeInv, PlacesOf, DevPlaces, HostPlaces
<1>4. TypeInv'
  BY <1>1, <1>2, <1>3, StaysTyped DEF TypeInv, VerdictTyped
<1> QED  BY <1>1, <1>2, <1>3, <1>4 DEF Drops

LEMMA SkipToSohIs ==
    ASSUME TypeInv, NEW s \in Side, SkipToSoh(s)
    PROVE  /\ pc[s] = "recv" /\ Head(chan[s]).k \notin {"pkt", "part", "can"}
           /\ Drops(s, "recv")
<1>1. /\ s = Receiver /\ pc[s] = "recv" /\ chan[s] # << >>
      /\ Head(chan[s]).k \notin {"pkt", "part", "can"}
      /\ Consume(s) /\ UNCHANGED <<op, pc, try, pos, held, file, verdict, junk>>
  BY DEF SkipToSoh, Arriving
<1>2. LineTyped' /\ Reads(s)
  BY <1>1, ConsumeIs
<1>3. TypeInv'
  BY <1>1, <1>2, StaysTyped DEF TypeInv, VerdictTyped, PcTyped
<1> QED  BY <1>1, <1>2, <1>3 DEF Drops

LEMMA TakeCancelIs ==
    ASSUME TypeInv, NEW s \in Side, TakeCancel(s)
    PROVE  \E how : EndsWell(s, how)
<1>1. Stops(s, "xfer")
  BY GivesUpIs DEF TakeCancel, Arriving, DevVerdicts
<1> QED  BY <1>1, EndsWellIs DEF TakeCancel, Arriving

LEMMA FillPartialIs ==
    ASSUME TypeInv, NEW s \in Side, FillPartial(s)
    PROVE  /\ pc[s] = "mid" /\ chan[s] # << >>
           /\ \/ Drops(s, "mid")
              \/ Naks(s, Tail(chan[s]), "recv") \/ Naks(s, Tail(chan[s]), "mid")
<1>1. /\ s = Receiver /\ pc[s] = "mid" /\ chan[s] # << >> /\ try[s] < MaxRetries
      /\ UNCHANGED <<op, pos, held, file, verdict, junk>>
  BY DEF FillPartial, Arriving
<1>2. CASE Consume(s) /\ UNCHANGED <<pc, try>>
  <2>1. LineTyped' /\ Reads(s)
    BY <1>1, <1>2, ConsumeIs
  <2>2. TypeInv'
    BY <1>1, <1>2, <2>1, StaysTyped DEF TypeInv, VerdictTyped, PcTyped
  <2> QED  BY <1>1, <1>2, <2>1, <2>2 DEF Drops
<1>3. CASE /\ SendOver(Rest(s), Peer(s), Byte("nak")) /\ (Goto(s, "recv") \/ pc' = pc)
           /\ try' = [try EXCEPT ![s] = @ + 1] \/ try' = [try EXCEPT ![s] = MaxRetries]
  <2>1. Rest(s)[s] = Tail(chan[s])
    BY <1>1, RestIs DEF TypeInv, LineTyped
  <2>2. LineTyped' /\ Puts(s, Byte("nak"), Tail(chan[s]))
    BY <1>1, <1>3, <2>1, PutsIs, TextsAreItems
  <2>3. try' \in [Side -> 0..MaxRetries] /\ try'[s] > try[s] /\ try'[Peer(s)] = try[Peer(s)]
    <3>1. CASE try' = [try EXCEPT ![s] = @ + 1]
      <4>1. /\ try' \in [Side -> 0..MaxRetries] /\ try'[s] = try[s] + 1
            /\ try'[Peer(s)] = try[Peer(s)]
        BY <1>1, <3>1, TryMore
      <4> QED  BY <4>1, TriesAreNat
    <3>2. CASE try' = [try EXCEPT ![s] = MaxRetries]
      BY <1>1, <3>2, SidesAre, BoundsAreNat DEF TypeInv
    <3> QED  BY <1>3, <3>1, <3>2
  <2>4. PcTyped' /\ pc'[s] \in {"recv", "mid"} /\ pc'[Peer(s)] = pc[Peer(s)]
    <3>1. CASE Goto(s, "recv")
      BY <3>1, GotoIs DEF TypeInv, PlacesOf, DevPlaces, HostPlaces
    <3>2. CASE pc' = pc
      BY <1>1, <3>2 DEF TypeInv, PcTyped
    <3> QED  BY <1>3, <3>1, <3>2
  <2>5. TypeInv'
    BY <1>1, <2>2, <2>3, <2>4, StaysTyped DEF TypeInv, VerdictTyped
  <2> QED  BY <1>1, <2>2, <2>3, <2>4, <2>5 DEF Naks
<1>4. \/ Consume(s) /\ UNCHANGED <<pc, try>>
      \/ /\ SendOver(Rest(s), Peer(s), Byte("nak")) /\ (Goto(s, "recv") \/ pc' = pc)
         /\ try' = [try EXCEPT ![s] = @ + 1] \/ try' = [try EXCEPT ![s] = MaxRetries]
  BY DEF FillPartial
<1> QED  BY <1>1, <1>2, <1>3, <1>4

LEMMA ReceiveTimeoutIs ==
    ASSUME TypeInv, NEW s \in Side, ReceiveTimeout(s)
    PROVE  /\ pc[s] \in {"recv", "mid"} /\ (Silent(s) \/ "late" \in seen')
           /\ Naks(s, chan[s], "recv")
<1>1. /\ s = Receiver /\ pc[s] \in {"recv", "mid"} /\ try[s] < MaxRetries
      /\ ExpiresThenSend(s, Byte("nak")) /\ try' = [try EXCEPT ![s] = @ + 1] /\ Goto(s, "recv")
      /\ UNCHANGED <<op, pos, held, file, verdict, junk>>
  BY DEF ReceiveTimeout
<1>2. Delivers(chan, Peer(s), Byte("nak")) /\ (Silent(s) \/ "late" \in seen')
  BY <1>1, ExpiresSends, TextsAreItems DEF TypeInv
<1>3. LineTyped' /\ Puts(s, Byte("nak"), chan[s])
  BY <1>2, PutsIs, TextsAreItems
<1>4. PcTyped' /\ pc'[s] = "recv" /\ pc'[Peer(s)] = pc[Peer(s)]
  BY <1>1, GotoIs DEF TypeInv, PlacesOf, DevPlaces, HostPlaces
<1>5. try' \in [Side -> 0..MaxRetries] /\ try'[s] = try[s] + 1 /\ try'[Peer(s)] = try[Peer(s)]
  BY <1>1, TryMore
<1>6. TypeInv'
  BY <1>1, <1>3, <1>4, <1>5, StaysTyped DEF TypeInv, VerdictTyped
<1>7. try'[s] > try[s]
  BY <1>5, TriesAreNat
<1> QED  BY <1>1, <1>2, <1>3, <1>4, <1>5, <1>6, <1>7 DEF Naks

LEMMA ReceiverGivesUpIs ==
    ASSUME TypeInv, NEW s \in Side, ReceiverGivesUp(s)
    PROVE  s = Receiver /\ try[s] = MaxRetries /\ \E how : EndsWell(s, how)
<1>1. Stops(s, "xfer")
  BY GivesUpIs DEF ReceiverGivesUp, DevVerdicts
<1> QED  BY <1>1, EndsWellIs DEF ReceiverGivesUp

LEMMA EndOfFileIs ==
    ASSUME TypeInv, NEW s \in Side, EndOfFile(s)
    PROVE  /\ s = Receiver /\ pc[s] = "store" /\ held.chunk = 0
           /\ \/ /\ TypeInv' /\ s = "host" /\ pc'["host"] = "final" /\ pc'["dev"] = pc["dev"]
                 /\ UNCHANGED <<op, try, pos, held, file, verdict, junk, chan, left, seen>>
              \/ s = "dev" /\ EndsWell("dev", "short") /\ pos["dev"] # Chunks
              \/ s = "dev" /\ EndsWell("dev", "ok")
              \/ s = "dev" /\ EndsWell("dev", "close") /\ ~(seen' \subseteq {"garbled"})
<1>1. /\ s = Receiver /\ pc[s] = "store" /\ held.chunk = 0
      /\ UNCHANGED <<op, try, pos, held, file, junk>>
  BY DEF EndOfFile, Holding
<1>2. CASE s = "host" /\ Goto(s, "final") /\ UNCHANGED <<verdict, chan, left, seen>>
  <2>1. PcTyped' /\ pc'["host"] = "final" /\ pc'["dev"] = pc["dev"]
    BY <1>2, GotoIs, SidesAre DEF TypeInv, PlacesOf, HostPlaces
  <2>2. TypeInv'
    BY <1>1, <1>2, <2>1, StaysTyped DEF TypeInv, VerdictTyped, LineTyped
  <2> QED  BY <1>1, <1>2, <2>1, <2>2
<1>3. CASE s = "dev" /\ pos[s] # Chunks /\ DevEnds(chan, "short")
  <2>1. Stops("dev", "short")
    BY <1>1, <1>3, DevEndsIs DEF DevVerdicts
  <2> QED  BY <1>1, <1>3, <2>1, EndsWellIs
<1>4. CASE s = "dev" /\ pos[s] = Chunks /\ DevEnds(chan, "ok")
  <2>1. Stops("dev", "ok")
    BY <1>1, <1>4, DevEndsIs DEF DevVerdicts
  <2>2. DevStops(chan, "ok")
    BY <1>4, DevEndsStops DEF TypeInv, LineTyped
  <2>3. chan'["dev"] = chan["dev"]
    BY <2>2, SidesAre DEF DevStops, Delivers
  <2> QED  BY <1>1, <1>4, <2>1, <2>3 DEF EndsWell
<1>5. CASE s = "dev" /\ DevEndsOnFlash(chan, "close")
  <2>1. Stops("dev", "close")
    BY <1>1, <1>5, DevEndsIs DEF DevVerdicts
  <2>2. ~(seen' \subseteq {"garbled"})
    BY <1>5, FlashStops DEF TypeInv, LineTyped
  <2> QED  BY <1>1, <1>5, <2>1, <2>2, EndsWellIs
<1> QED  BY <1>1, <1>2, <1>3, <1>4, <1>5 DEF EndOfFile

LEMMA WrongTurnIs ==
    ASSUME TypeInv, NEW s \in Side, WrongTurn(s)
    PROVE  s = Receiver /\ pc[s] = "store" /\ ~InTurn(s) /\ EndsWell(s, "seq")
<1>1. Stops(s, "seq")
  BY GivesUpIs DEF WrongTurn, DevVerdicts
<1> QED  BY <1>1, EndsWellIs DEF WrongTurn, Holding

LEMMA OverflowIs ==
    ASSUME TypeInv, NEW s \in Side, Overflow(s)
    PROVE  /\ s = Receiver /\ pc[s] = "store" /\ held.chunk # 0 /\ pos[s] = Chunks
           /\ EndsWell(s, "overflow")
<1>1. Stops(s, "overflow")
  BY GivesUpIs DEF Overflow, DevVerdicts
<1> QED  BY <1>1, EndsWellIs DEF Overflow, Holding

LEMMA StoreChunkIs ==
    ASSUME TypeInv, NEW s \in Side, StoreChunk(s)
    PROVE  /\ s = Receiver /\ pc[s] = "store" /\ held.chunk # 0 /\ InTurn(s) /\ pos[s] < Chunks
           /\ \/ /\ TypeInv' /\ file' = Append(file, held.chunk)
                 /\ pos'[s] = pos[s] + 1 /\ pos'[Peer(s)] = pos[Peer(s)]
                 /\ try'[s] = 0 /\ try'[Peer(s)] = try[Peer(s)]
                 /\ pc'[s] = "recv" /\ pc'[Peer(s)] = pc[Peer(s)]
                 /\ UNCHANGED <<op, held, verdict, junk, chan, left, seen>>
              \/ s = "dev" /\ EndsWell("dev", "write") /\ ~(seen' \subseteq {"garbled"})
<1>1. /\ s = Receiver /\ pc[s] = "store" /\ held.chunk # 0 /\ InTurn(s) /\ pos[s] < Chunks
      /\ UNCHANGED <<op, held, junk>>
  BY DEF StoreChunk, Holding
<1>2. CASE /\ file' = Append(file, held.chunk) /\ pos' = [pos EXCEPT ![s] = @ + 1]
           /\ try' = [try EXCEPT ![s] = 0] /\ Goto(s, "recv")
           /\ UNCHANGED <<verdict, chan, left, seen>>
  <2>1. 0 \in 0..MaxRetries
    BY BoundsAreNat
  <2>2. try' \in [Side -> 0..MaxRetries] /\ try'[s] = 0 /\ try'[Peer(s)] = try[Peer(s)]
    BY <1>2, <2>1, TryIs
  <2>3. PcTyped' /\ pc'[s] = "recv" /\ pc'[Peer(s)] = pc[Peer(s)]
    BY <1>2, GotoIs DEF TypeInv, PlacesOf, DevPlaces, HostPlaces
  <2>4. /\ pos' \in [Side -> 0..Chunks] /\ pos'[s] = pos[s] + 1 /\ pos'[Peer(s)] = pos[Peer(s)]
    <3>1. pos \in [Side -> 0..Chunks] /\ pos[s] + 1 \in 0..Chunks /\ Peer(s) \in Side /\ Peer(s) # s
      BY <1>1, BoundsAreNat DEF TypeInv, FileTyped, Side, Peer
    <3> QED  BY <1>2, <3>1
  <2>5. held.chunk \in 1..Chunks /\ file \in Seq(1..Chunks) /\ Len(file) = pos[s]
    BY <1>1, BoundsAreNat DEF TypeInv, FileTyped, Item
  <2>6. FileTyped'
    <3> DEFINE c == held.chunk
    <3>1. c \in 1..Chunks /\ file' = Append(file, c)
      BY <1>2, <2>5
    <3> HIDE DEF c
    <3>2. file' \in Seq(1..Chunks) /\ Len(file') = Len(file) + 1
      BY <2>5, <3>1, AppendProperties
    <3>3. Receiver' = Receiver
      BY <1>1, SidesStay
    <3> QED  BY <1>1, <2>4, <2>5, <3>2, <3>3 DEF FileTyped
  <2>7. TypeInv'
    BY <1>1, <1>2, <2>2, <2>3, <2>6 DEF TypeInv, VerdictTyped, LineTyped
  <2> QED  BY <1>1, <1>2, <2>2, <2>3, <2>4, <2>7
<1>3. CASE s = "dev" /\ DevEndsOnFlash(chan, "write") /\ UNCHANGED <<file, pos, try>>
  <2>1. Stops("dev", "write")
    BY <1>1, <1>3, DevEndsIs DEF DevVerdicts
  <2>2. ~(seen' \subseteq {"garbled"})
    BY <1>3, FlashStops DEF TypeInv, LineTyped
  <2> QED  BY <1>1, <1>3, <2>1, <2>2, EndsWellIs
<1> QED  BY <1>1, <1>2, <1>3 DEF StoreChunk

----------------------------------------------------------------------------
(* The last steps of both sides.                                           *)

LEMMA HostFinalIs ==
    ASSUME TypeInv, HostFinal
    PROVE  /\ TypeInv' /\ pc["host"] = "final" /\ Reads("host")
           /\ verdict'["dev"] = verdict["dev"] /\ pc'["dev"] = pc["dev"]
           /\ UNCHANGED <<op, try, pos, held, file, junk>>
           /\ \/ verdict' = verdict /\ pc' = pc
                 /\ Head(chan["host"]).k \notin {"text_ok", "text_error"}
              \/ /\ pc'["host"] = "done" /\ verdict'["host"] = "fail"
              \/ /\ pc'["host"] = "done" /\ verdict'["host"] = "ok"
                 /\ Head(chan["host"]).k = "text_ok" /\ (op = "GT" => pos["host"] = Chunks)
<1> DEFINE k == Head(chan["host"]).k
           how == IF k = "text_ok" /\ (op = "GT" => pos["host"] = Chunks) THEN "ok" ELSE "fail"
<1>1. /\ pc["host"] = "final" /\ chan["host"] # << >> /\ Consume("host")
      /\ UNCHANGED <<op, try, pos, held, file, junk>>
      /\ IF k \in {"text_ok", "text_error"} THEN HostEnds(how) ELSE UNCHANGED <<pc, verdict>>
  BY DEF HostFinal
<1>2. LineTyped' /\ Reads("host")
  BY <1>1, ConsumeIs, SidesAre
<1>3. CASE k \in {"text_ok", "text_error"}
  <2>1. HostEnds(how) /\ how \in {"ok", "fail"}
    BY <1>1, <1>3
  <2>2. how = "ok" => k = "text_ok" /\ (op = "GT" => pos["host"] = Chunks)
    OBVIOUS
  <2> HIDE DEF how, k
  <2>3. /\ TypeInv' /\ verdict'["host"] = how /\ verdict'["dev"] = verdict["dev"]
        /\ pc'["host"] = "done" /\ pc'["dev"] = pc["dev"]
    BY <1>1, <1>2, <2>1, HostEndsIs
  <2>4. CASE how = "ok"
    BY <1>1, <1>2, <2>2, <2>3, <2>4 DEF k
  <2>5. CASE how = "fail"
    BY <1>1, <1>2, <2>3, <2>5
  <2> QED  BY <2>1, <2>4, <2>5
<1>4. CASE k \notin {"text_ok", "text_error"}
  <2>1. UNCHANGED <<pc, verdict>>
    BY <1>1, <1>4
  <2>2. TypeInv'
    BY <1>1, <1>2, <2>1, StaysTyped DEF TypeInv, VerdictTyped, PcTyped
  <2> QED  BY <1>1, <1>2, <1>4, <2>1, <2>2
<1> QED  BY <1>3, <1>4

LEMMA HostFinalTimeoutIs ==
    ASSUME TypeInv, HostFinalTimeout
    PROVE  /\ TypeInv' /\ pc["host"] = "final" /\ chan' = chan /\ seen \subseteq seen'
           /\ (Silent("host") /\ left' = left /\ seen' = seen) \/ "late" \in seen'
           /\ UNCHANGED <<op, try, pos, held, file, junk>>
           /\ pc'["host"] = "done" /\ pc'["dev"] = pc["dev"] /\ verdict'["dev"] = verdict["dev"]
           /\ verdict'["host"] \in {"ok", "fail"}
           /\ verdict'["host"] = "ok" => op = "GT" /\ pos["host"] = Chunks
<1> DEFINE how == IF op = "GT" /\ pos["host"] = Chunks THEN "ok" ELSE "fail"
<1>1. /\ pc["host"] = "final" /\ Expires("host") /\ HostEnds(how)
      /\ UNCHANGED <<op, try, pos, held, file, junk>>
  BY DEF HostFinalTimeout
<1>2. /\ LineTyped' /\ chan' = chan /\ seen \subseteq seen'
      /\ (Silent("host") /\ left' = left /\ seen' = seen) \/ "late" \in seen'
  BY <1>1, ExpiresIs, SidesAre DEF TypeInv
<1>3. how \in {"ok", "fail"} /\ (how = "ok" => op = "GT" /\ pos["host"] = Chunks)
  OBVIOUS
<1> HIDE DEF how
<1>4. /\ TypeInv' /\ verdict'["host"] = how /\ verdict'["dev"] = verdict["dev"]
      /\ pc'["host"] = "done" /\ pc'["dev"] = pc["dev"]
  BY <1>1, <1>2, <1>3, HostEndsIs
<1> QED  BY <1>1, <1>2, <1>3, <1>4

LEMMA DevReadsJunkIs ==
    ASSUME TypeInv, DevReadsJunk
    PROVE  /\ TypeInv' /\ pc["dev"] = "repl" /\ Reads("dev") /\ Head(chan["dev"]).k # "cmd"
           /\ junk' = TRUE /\ UNCHANGED <<op, pc, try, pos, held, file, verdict>>
<1>1. /\ pc["dev"] = "repl" /\ chan["dev"] # << >> /\ Consume("dev") /\ Head(chan["dev"]).k # "cmd"
      /\ junk' = TRUE /\ UNCHANGED <<op, pc, try, pos, held, file, verdict>>
  BY DEF DevReadsJunk
<1>2. LineTyped' /\ Reads("dev")
  BY <1>1, ConsumeIs, SidesAre
<1>3. TypeInv'
  BY <1>1, <1>2, StaysTyped DEF TypeInv, VerdictTyped, PcTyped
<1> QED  BY <1>1, <1>2, <1>3

----------------------------------------------------------------------------
(* Types.                                                                  *)

LEMMA InitTyped == ASSUME Init PROVE TypeInv
<1>1. PcTyped /\ VerdictTyped
  BY DEF Init, PcTyped, VerdictTyped, Side, DevPlaces, HostPlaces, DevVerdicts, HostVerdicts
<1>2. LineTyped
  BY BoundsAreNat DEF Init, LineTyped
<1>3. FileTyped
  BY BoundsAreNat, SidesAre DEF Init, FileTyped
<1>4. held \in Item /\ held.k = "pkt" /\ held.crc
  BY BoundsAreNat, PacketsAreItems DEF Init
<1>5. try \in [Side -> 0..MaxRetries]
  BY BoundsAreNat DEF Init
<1> QED  BY <1>1, <1>2, <1>3, <1>4, <1>5 DEF Init, TypeInv

LEMMA SendsTyped ==
    ASSUME TypeInv, NEW s \in Side, Sends(s) PROVE TypeInv'
<1>1. \A how : EndsWell(s, how) => TypeInv'
  BY StopsIs DEF EndsWell
<1>2. CASE SendPacket(s) \/ SenderGivesUp(s) \/ AckedChunk(s)
  BY <1>1, <1>2, SendPacketIs, SenderGivesUpIs, AckedChunkIs
<1>3. CASE AckedEnd(s)
  BY <1>1, <1>3, AckedEndIs
<1>4. CASE Refused(s) \/ Cancelled(s) \/ AnswerTimeout(s)
  BY <1>1, <1>4, RefusedIs, CancelledIs, AnswerTimeoutIs
<1> QED  BY <1>2, <1>3, <1>4 DEF Sends

LEMMA ReceivesTyped ==
    ASSUME TypeInv, NEW s \in Side, Receives(s) PROVE TypeInv'
<1>1. \A how : EndsWell(s, how) => TypeInv'
  BY StopsIs DEF EndsWell
<1>2. CASE TakePacket(s) \/ NakPacket(s) \/ StartPartial(s) \/ TakeCancel(s)
  BY <1>1, <1>2, TakePacketIs, NakPacketIs, StartPartialIs, TakeCancelIs DEF Naks, Drops
<1>3. CASE SkipToSoh(s) \/ FillPartial(s) \/ ReceiveTimeout(s) \/ ReceiverGivesUp(s)
  BY <1>1, <1>3, SkipToSohIs, FillPartialIs, ReceiveTimeoutIs, ReceiverGivesUpIs DEF Naks, Drops
<1>4. CASE EndOfFile(s)
  BY <1>1, <1>4, EndOfFileIs
<1>5. CASE WrongTurn(s) \/ Overflow(s)
  BY <1>1, <1>5, WrongTurnIs, OverflowIs
<1>6. CASE StoreChunk(s)
  BY <1>1, <1>6, StoreChunkIs
<1> QED  BY <1>2, <1>3, <1>4, <1>5, <1>6 DEF Receives

LEMMA NextTyped == ASSUME TypeInv, [Next]_vars PROVE TypeInv'
<1>1. \A how : EndsWell("dev", how) => TypeInv'
  BY StopsIs, SidesAre DEF EndsWell
<1>2. CASE HostCommand \/ HostReady \/ HostReadyTimeout
  BY <1>2, HostCommandIs, HostReadyIs, HostReadyTimeoutIs
<1>3. CASE HostFinal \/ HostFinalTimeout
  BY <1>3, HostFinalIs, HostFinalTimeoutIs
<1>4. CASE DevOpens \/ DevGo \/ DevGoTimeout
  BY <1>1, <1>4, DevOpensIs, DevGoIs, DevGoTimeoutIs
<1>5. CASE DevReadFails \/ DevReadsJunk
  BY <1>5, DevReadFailsIs, DevReadsJunkIs
<1>6. CASE \E s \in Side : Sends(s) \/ Receives(s)
  BY <1>6, SendsTyped, ReceivesTyped
<1>7. CASE UNCHANGED vars
  BY <1>7 DEF vars, ends, TypeInv, PcTyped, VerdictTyped, LineTyped, FileTyped, Receiver, Sender, Peer
<1> QED  BY <1>2, <1>3, <1>4, <1>5, <1>6, <1>7, SidesAre DEF Next, HostNext, DevNext

\* Every field keeps its type, the file no longer than announced and the tries
\* within the limit, whatever the line and the clocks do.
THEOREM FileTypeCorrect == Spec => []TypeOK
<1>1. Init => TypeInv
  BY InitTyped
<1>2. TypeInv /\ [Next]_vars => TypeInv'
  BY NextTyped
<1>3. TypeInv => TypeOK
  <2> SUFFICES ASSUME TypeInv PROVE TypeOK
    OBVIOUS
  <2>1. \A s \in Side : \A i \in DOMAIN chan[s] : chan[s][i] \in Item
    BY DEF TypeInv, LineTyped
  <2>2. \A s \in Side : \A i \in DOMAIN chan[s] : chan[s][i] \in ItemSet
    BY <2>1 DEF Item
  <2>3. held \in [k : {"pkt"}, seq : 0..(SeqMod - 1), chunk : 0..Chunks, crc : {TRUE}]
    <3>1. held \in ItemSet /\ held.k = "pkt" /\ held.crc /\ held.chunk \in 0..Chunks
      BY DEF TypeInv, Item
    <3> QED  BY <3>1 DEF ItemSet
  <2>4. file \in Seq(1..Chunks) /\ Len(file) <= Chunks
    BY SidesAre, BoundsAreNat DEF TypeInv, FileTyped
  <2> QED  BY <2>2, <2>3, <2>4 DEF TypeOK, TypeInv, PcTyped, VerdictTyped, LineTyped, FileTyped,
               ItemSet, ItemKinds, DevPlaces, HostPlaces, DevVerdicts, HostVerdicts
<1> QED  BY <1>1, <1>2, <1>3, PTL DEF Spec

----------------------------------------------------------------------------
(* How a transfer ends.                                                    *)

Has(s, k) == \E i \in 1..Len(chan[s]) : chan[s][i].k = k

\* A side that has said how it ended has ended, and its verdict is not revised.
\* Of a PU, "ok" is first the device's: it is what the host may read in the frame.
EndInv ==
    /\ verdict["host"] = "none" <=> pc["host"] # "done"
    /\ pc["dev"] # "repl" => verdict["dev"] = "none"
    /\ op = "PU" => /\ Has("host", "text_ok") => verdict["dev"] = "ok"
                    /\ verdict["dev"] = "ok" => pos["dev"] = Chunks
                    /\ verdict["host"] = "ok" => verdict["dev"] = "ok"
    /\ op = "GT" /\ verdict["host"] = "ok" => pos["host"] = Chunks

\* What is in a channel after an item has been added, or taken.
LEMMA AppendHas ==
    ASSUME NEW q \in Seq(Item), NEW x \in Item
    PROVE  /\ Append(q, x) \in Seq(Item) /\ Len(Append(q, x)) = Len(q) + 1
           /\ Len(q) \in Nat
           /\ \A i \in 1..Len(q) : Append(q, x)[i] = q[i]
           /\ Append(q, x)[Len(q) + 1] = x
  BY AppendProperties, LenProperties

\* Every item in the channel of s was there before, or has one of the kinds K.
Gains(s, K) == \A k : Has(s, k)' => Has(s, k) \/ k \in K

LEMMA GainsOne ==
    ASSUME TypeInv, NEW s \in Side, NEW x \in Item, chan'[s] = Append(chan[s], x)
    PROVE  Gains(s, {x.k})
<1>1. chan[s] \in Seq(Item)
  BY DEF TypeInv, LineTyped
<1> QED  BY <1>1, AppendHas DEF Gains, Has

LEMMA GainsNone ==
    ASSUME TypeInv, NEW s \in Side,
           chan'[s] = chan[s] \/ (chan[s] # << >> /\ chan'[s] = Tail(chan[s])) \/ chan'[s] = << >>
    PROVE  Gains(s, {})
<1>1. CASE chan'[s] = chan[s]
  BY <1>1 DEF Gains, Has
<1>2. CASE chan[s] # << >> /\ chan'[s] = Tail(chan[s])
  <2>1. /\ Len(Tail(chan[s])) = Len(chan[s]) - 1 /\ Len(chan[s]) \in Nat \ {0}
        /\ \A i \in 1..(Len(chan[s]) - 1) : Tail(chan[s])[i] = chan[s][i + 1]
    BY <1>2, RestIs DEF TypeInv, LineTyped
  <2> QED  BY <1>2, <2>1 DEF Gains, Has
<1>3. CASE chan'[s] = << >>
  BY <1>3 DEF Gains, Has
<1> QED  BY <1>1, <1>2, <1>3

LEMMA PutsGains ==
    ASSUME TypeInv, NEW s \in Side, NEW m \in Item, NEW q, Puts(s, m, q)
    PROVE  Gains(Peer(s), IF m.k = "pkt" THEN {"pkt", "part", "can"} ELSE {m.k, "noise"})
<1>1. Peer(s) \in Side
  BY DEF Peer, Side
<1>2. CASE chan'[Peer(s)] = chan[Peer(s)]
  BY <1>1, <1>2, GainsNone DEF Gains
<1>3. ASSUME NEW x \in Item, chan'[Peer(s)] = Append(chan[Peer(s)], x), Becomes(m, x)
      PROVE  Gains(Peer(s), IF m.k = "pkt" THEN {"pkt", "part", "can"} ELSE {m.k, "noise"})
  <2>1. x.k \in IF m.k = "pkt" THEN {"pkt", "part", "can"} ELSE {m.k, "noise"}
    BY <1>3 DEF Becomes
  <2>2. Gains(Peer(s), {x.k})
    BY <1>1, <1>3, GainsOne
  <2> QED  BY <2>1, <2>2 DEF Gains
<1> QED  BY <1>2, <1>3 DEF Puts

LEMMA StopsGains ==
    ASSUME TypeInv, NEW s \in Side, NEW how, Stops(s, how)
    PROVE  /\ Gains(s, {})
           /\ s = "dev" => Gains("host", {"noise", IF how = "ok" THEN "text_ok" ELSE "text_error"})
           /\ s = "host" => Gains("dev", {"noise", "can"})
<1>1. Gains(s, {})
  BY StopsIs, GainsNone
<1>2. Peer(s) \in Side
  BY DEF Peer, Side
<1> DEFINE K == {"noise"} \union IF s = "host" THEN {"can"}
                                 ELSE IF how = "ok" THEN {"text_ok"} ELSE {"text_error"}
<1>3. Gains(Peer(s), K)
  <2>1. CASE chan'[Peer(s)] = chan[Peer(s)]
    BY <1>2, <2>1, GainsNone DEF Gains
  <2>2. ASSUME NEW x \in Item, chan'[Peer(s)] = Append(chan[Peer(s)], x), x.k \in K
        PROVE  Gains(Peer(s), K)
    <3>1. Gains(Peer(s), {x.k})
      BY <1>2, <2>2, GainsOne
    <3> QED  BY <2>2, <3>1 DEF Gains
  <2>3. chan'[Peer(s)] = chan[Peer(s)] \/ \E x \in Item : chan'[Peer(s)] = Append(chan[Peer(s)], x) /\ x.k \in K
    BY StopsIs
  <2> HIDE DEF K
  <2> QED  BY <2>1, <2>2, <2>3
<1>4. s = "dev" => Peer(s) = "host" /\ K = {"noise", IF how = "ok" THEN "text_ok" ELSE "text_error"}
  BY DEF Peer
<1>5. s = "host" => Peer(s) = "dev" /\ K = {"noise", "can"}
  BY DEF Peer
<1> HIDE DEF K
<1> QED  BY <1>1, <1>3, <1>4, <1>5

\* EndInv, when the verdicts and positions stay and no "ok" text sets out.
LEMMA StaysEnded ==
    ASSUME TypeInv, EndInv, UNCHANGED <<op, verdict>>,
           op = "PU" => pos'["dev"] = pos["dev"] \/ verdict["dev"] # "ok",
           op = "GT" => pos'["host"] = pos["host"] \/ verdict["host"] # "ok",
           pc'["host"] # "done" <=> pc["host"] # "done",
           pc'["dev"] # "repl" => verdict["dev"] = "none",
           op = "PU" => \E K : Gains("host", K) /\ "text_ok" \notin K
    PROVE  EndInv'
<1>1. op = "PU" => (Has("host", "text_ok")' => Has("host", "text_ok"))
  BY DEF Gains
<1> HIDE DEF Has
<1> QED  BY <1>1 DEF EndInv

LEMMA StopsEnded ==
    ASSUME TypeInv, EndInv, NEW s \in Side, NEW how, EndsWell(s, how)
    PROVE  EndInv'
<1>1. /\ Stops(s, how) /\ UNCHANGED <<op, pos>>
      /\ IF s = "dev" THEN pc["dev"] # "repl" \/ verdict["dev"] = "none"
                      ELSE pc["host"] \in {"send", "answer", "recv", "mid", "store"}
      /\ how = "ok" => s = "dev" /\ pos["dev"] = Chunks
  BY DEF EndsWell, Stops
<1>2. /\ verdict'[s] = (IF s = "dev" THEN how ELSE "fail")
      /\ pc'[s] = IF s = "dev" THEN "repl" ELSE "done"
      /\ verdict'[Peer(s)] = verdict[Peer(s)] /\ pc'[Peer(s)] = pc[Peer(s)]
  BY <1>1, StopsIs
<1>3. CASE s = "dev"
  <2>1. Gains("host", {"noise", IF how = "ok" THEN "text_ok" ELSE "text_error"})
    BY <1>1, <1>3, StopsGains
  <2>2. Has("host", "text_ok")' => Has("host", "text_ok") \/ how = "ok"
    BY <2>1 DEF Gains
  <2>3. /\ verdict["dev"] = "none" /\ verdict'["dev"] = how /\ verdict'["host"] = verdict["host"]
        /\ pc'["dev"] = "repl" /\ pc'["host"] = pc["host"]
    BY <1>1, <1>2, <1>3, SidesAre DEF EndInv
  <2> HIDE DEF Has
  <2> QED  BY <1>1, <2>2, <2>3 DEF EndInv
<1>4. CASE s = "host"
  <2>1. Has("host", "text_ok")' => Has("host", "text_ok")
    BY <1>1, <1>4, StopsGains DEF Gains
  <2>2. /\ verdict'["dev"] = verdict["dev"] /\ verdict'["host"] = "fail"
        /\ pc'["host"] = "done" /\ pc'["dev"] = pc["dev"] /\ verdict["host"] = "none"
    BY <1>1, <1>2, <1>4, SidesAre DEF EndInv
  <2> HIDE DEF Has
  <2> QED  BY <1>1, <2>1, <2>2 DEF EndInv
<1> QED  BY <1>3, <1>4 DEF Side

LEMMA ReadsGains ==
    ASSUME TypeInv, NEW s \in Side, Reads(s) PROVE Gains("host", {}) /\ Gains("dev", {})
<1>1. chan[s] # << >> /\ chan'[s] = Tail(chan[s]) /\ chan'[Peer(s)] = chan[Peer(s)]
  BY RestIs DEF Reads, TypeInv, LineTyped
<1>2. Gains(s, {}) /\ Gains(Peer(s), {}) /\ Peer(s) \in Side
  BY <1>1, GainsNone DEF Peer, Side
<1> QED  BY <1>2, SidesAre DEF Peer, Side

LEMMA StillsGains ==
    ASSUME TypeInv, chan' = chan PROVE Gains("host", {}) /\ Gains("dev", {})
  BY GainsNone, SidesAre

LEMMA SendsEnded ==
    ASSUME TypeInv, EndInv, NEW s \in Side, Sends(s) PROVE EndInv'
<1>1. \A how : EndsWell(s, how) => EndInv'
  BY StopsEnded
<1>2. CASE SendPacket(s)
  <2>1. op = "PU" => Gains("host", {})
    <3>1. op = "PU" => s = "host" /\ chan'["host"] = chan["host"]
      BY <1>2, SendPacketIs, SidesAre DEF Puts
    <3> QED  BY <3>1, GainsNone, SidesAre
  <2>2. /\ s = Sender /\ pc[s] = "send" /\ pc'[s] = "answer" /\ pc'[Peer(s)] = pc[Peer(s)]
        /\ UNCHANGED <<op, pos, verdict>>
    BY <1>2, SendPacketIs
  <2>3. (pc'["host"] # "done" <=> pc["host"] # "done") /\ (pc'["dev"] # "repl" => pc["dev"] # "repl")
    BY <2>2, SidesAre DEF Side
  <2> QED  BY <2>1, <2>2, <2>3, StaysEnded DEF EndInv
<1>3. CASE AckedChunk(s)
  <2>1. /\ s = Sender /\ pc[s] = "answer" /\ pc'[s] = "send" /\ pc'[Peer(s)] = pc[Peer(s)]
        /\ UNCHANGED <<op, verdict>> /\ Reads(s) /\ pos'[Peer(s)] = pos[Peer(s)]
    BY <1>3, AckedChunkIs
  <2>2. (pc'["host"] # "done" <=> pc["host"] # "done") /\ (pc'["dev"] # "repl" => pc["dev"] # "repl")
    BY <2>1, SidesAre DEF Side
  <2>3. (op = "PU" => pos'["dev"] = pos["dev"]) /\ (op = "GT" => pos'["host"] = pos["host"])
    BY <2>1, SidesAre
  <2>4. Gains("host", {})
    BY <2>1, ReadsGains
  <2> QED  BY <2>1, <2>2, <2>3, <2>4, StaysEnded DEF EndInv
<1>4. CASE AckedEnd(s)
  <2>1. CASE /\ s = "host" /\ pc[s] = "answer" /\ Reads(s)
             /\ pc'["host"] = "final" /\ pc'["dev"] = pc["dev"]
             /\ UNCHANGED <<op, try, pos, held, file, verdict, junk>>
    <3>1. Gains("host", {})
      BY <2>1, ReadsGains
    <3> QED  BY <2>1, <3>1, StaysEnded DEF EndInv
  <2> QED  BY <1>1, <1>4, <2>1, AckedEndIs
<1>5. CASE Refused(s) \/ AnswerTimeout(s)
  <2>1. /\ pc[s] = "answer" /\ pc'[s] = "send" /\ pc'[Peer(s)] = pc[Peer(s)]
        /\ UNCHANGED <<op, pos, verdict>> /\ (Reads(s) \/ chan' = chan)
    BY <1>5, RefusedIs, AnswerTimeoutIs
  <2>2. (pc'["host"] # "done" <=> pc["host"] # "done") /\ (pc'["dev"] # "repl" => pc["dev"] # "repl")
    BY <2>1, SidesAre DEF Side
  <2>3. Gains("host", {})
    BY <2>1, ReadsGains, StillsGains
  <2> QED  BY <2>1, <2>2, <2>3, StaysEnded DEF EndInv
<1>6. CASE SenderGivesUp(s) \/ Cancelled(s)
  BY <1>1, <1>6, SenderGivesUpIs, CancelledIs
<1> QED  BY <1>2, <1>3, <1>4, <1>5, <1>6 DEF Sends

LEMMA ReceivesEnded ==
    ASSUME TypeInv, EndInv, NEW s \in Side, Receives(s) PROVE EndInv'
<1>1. \A how : EndsWell(s, how) => EndInv'
  BY StopsEnded
<1>2. \A m \in Item : \A q : Puts(s, m, q) /\ op = "PU" /\ s = Receiver /\ m.k \in {"ack", "nak"} =>
            Gains("host", {m.k, "noise"})
  BY PutsGains, SidesAre
<1>3. CASE TakePacket(s)
  <2>1. /\ s = Receiver /\ pc[s] = "recv" /\ pc'[s] = "store" /\ pc'[Peer(s)] = pc[Peer(s)]
        /\ UNCHANGED <<op, pos, verdict>> /\ Puts(s, Byte("ack"), Tail(chan[s]))
    BY <1>3, TakePacketIs
  <2>2. (pc'["host"] # "done" <=> pc["host"] # "done") /\ (pc'["dev"] # "repl" => pc["dev"] # "repl")
    BY <2>1, SidesAre DEF Side
  <2>3. op = "PU" => Gains("host", {"ack", "noise"})
    BY <1>2, <2>1, TextsAreItems
  <2>4. op = "PU" => \E K : Gains("host", K) /\ "text_ok" \notin K
    BY <2>3
  <2> QED  BY <2>1, <2>2, <2>4, StaysEnded DEF EndInv
<1>4. ASSUME NEW where \in {"recv", "mid"}, NEW q, Naks(s, q, where), pc[s] \in {"recv", "mid"}
      PROVE  EndInv'
  <2>1. /\ s = Receiver /\ pc'[s] = where /\ pc'[Peer(s)] = pc[Peer(s)]
        /\ UNCHANGED <<op, pos, verdict>> /\ Puts(s, Byte("nak"), q)
    BY <1>4 DEF Naks
  <2>2. (pc'["host"] # "done" <=> pc["host"] # "done") /\ (pc'["dev"] # "repl" => pc["dev"] # "repl")
    BY <1>4, <2>1, SidesAre DEF Side
  <2>3. op = "PU" => Gains("host", {"nak", "noise"})
    BY <1>2, <2>1, TextsAreItems
  <2>4. op = "PU" => \E K : Gains("host", K) /\ "text_ok" \notin K
    BY <2>3
  <2> QED  BY <2>1, <2>2, <2>4, StaysEnded DEF EndInv
<1>5. ASSUME NEW where \in {"recv", "mid"}, Drops(s, where), pc[s] \in {"recv", "mid"}
      PROVE  EndInv'
  <2>1. /\ pc'[s] = where /\ pc'[Peer(s)] = pc[Peer(s)]
        /\ UNCHANGED <<op, pos, verdict>> /\ Reads(s)
    BY <1>5 DEF Drops
  <2>2. (pc'["host"] # "done" <=> pc["host"] # "done") /\ (pc'["dev"] # "repl" => pc["dev"] # "repl")
    BY <1>5, <2>1, SidesAre DEF Side
  <2>3. Gains("host", {})
    BY <2>1, ReadsGains
  <2> QED  BY <2>1, <2>2, <2>3, StaysEnded DEF EndInv
<1>6. CASE NakPacket(s) \/ FillPartial(s) \/ ReceiveTimeout(s) \/ StartPartial(s) \/ SkipToSoh(s)
  BY <1>4, <1>5, <1>6, NakPacketIs, FillPartialIs, ReceiveTimeoutIs, StartPartialIs, SkipToSohIs
<1>7. CASE EndOfFile(s)
  <2>1. CASE /\ s = "host" /\ pc["host"] = "store" /\ pc'["host"] = "final" /\ pc'["dev"] = pc["dev"]
             /\ UNCHANGED <<op, pos, verdict, chan>>
    BY <2>1, StillsGains, StaysEnded DEF EndInv
  <2> QED  BY <1>1, <1>7, <2>1, EndOfFileIs
<1>8. CASE StoreChunk(s)
  <2>1. CASE /\ pc[s] = "store" /\ s = Receiver /\ pos'[Peer(s)] = pos[Peer(s)]
             /\ pc'[s] = "recv" /\ pc'[Peer(s)] = pc[Peer(s)] /\ UNCHANGED <<op, verdict, chan>>
    <3>1. (pc'["host"] # "done" <=> pc["host"] # "done") /\ (pc'["dev"] # "repl" => pc["dev"] # "repl")
      BY <2>1, SidesAre DEF Side
    <3>2. op = "PU" => verdict["dev"] # "ok"
      BY <2>1, SidesAre DEF EndInv
    <3>3. op = "GT" => verdict["host"] # "ok"
      BY <2>1, SidesAre DEF EndInv
    <3> QED  BY <2>1, <3>1, <3>2, <3>3, StillsGains, StaysEnded DEF EndInv
  <2> QED  BY <1>1, <1>8, <2>1, StoreChunkIs
<1>9. CASE TakeCancel(s) \/ ReceiverGivesUp(s) \/ WrongTurn(s) \/ Overflow(s)
  BY <1>1, <1>9, TakeCancelIs, ReceiverGivesUpIs, WrongTurnIs, OverflowIs
<1> QED  BY <1>3, <1>6, <1>7, <1>8, <1>9 DEF Receives

LEMMA InitEnded == ASSUME Init PROVE EndInv
<1>1. Len(chan["host"]) = 0
  BY DEF Init, Side
<1> QED  BY <1>1, BoundsAreNat DEF Init, EndInv, Has, Side

LEMMA NextEnded == ASSUME TypeInv, EndInv, [Next]_vars PROVE EndInv'
<1>1. \A how : EndsWell("dev", how) => EndInv'
  BY StopsEnded, SidesAre
<1>2. CASE HostCommand
  <2>1. chan'["host"] = chan["host"]
    BY <1>2, HostCommandIs DEF Puts
  <2>2. Gains("host", {})
    BY <2>1, GainsNone, SidesAre
  <2> QED  BY <1>2, <2>2, HostCommandIs, StaysEnded DEF HostCommand, EndInv
<1>3. CASE HostReady
  <2>1. Gains("host", {})
    <3>1. chan'["host"] = << >> \/ (chan["host"] # << >> /\ chan'["host"] = Tail(chan["host"]))
      BY <1>3, HostReadyIs, RestIs, SidesAre DEF Puts, TypeInv, LineTyped
    <3> QED  BY <3>1, GainsNone, SidesAre
  <2>2. /\ UNCHANGED <<op, pos, verdict>> /\ pc["host"] = "ready" /\ pc'["host"] # "done"
        /\ pc'["dev"] = pc["dev"]
    BY <1>3, HostReadyIs DEF HostReady
  <2> QED  BY <2>1, <2>2, StaysEnded DEF EndInv
<1>4. CASE HostReadyTimeout
  <2>1. Has("host", "text_ok")' => Has("host", "text_ok")
    BY <1>4, HostReadyTimeoutIs, StillsGains DEF Gains
  <2> HIDE DEF Has
  <2> QED  BY <1>4, <2>1, HostReadyTimeoutIs DEF EndInv, HostReadyTimeout
<1>5. CASE HostFinal
  <2>1. Has("host", "text_ok")' => Has("host", "text_ok")
    BY <1>5, HostFinalIs, ReadsGains, SidesAre DEF Gains
  <2>2. Head(chan["host"]).k = "text_ok" => Has("host", "text_ok")
    BY <1>5, HostFinalIs, RestIs, SidesAre DEF Has, TypeInv, LineTyped, Reads
  <2> HIDE DEF Has
  <2> QED  BY <1>5, <2>1, <2>2, HostFinalIs DEF EndInv
<1>6. CASE HostFinalTimeout
  <2>1. Has("host", "text_ok")' => Has("host", "text_ok")
    BY <1>6, HostFinalTimeoutIs, StillsGains DEF Gains
  <2>2. ~(op = "PU" /\ op = "GT")
    OBVIOUS
  <2> HIDE DEF Has
  <2> QED  BY <1>6, <2>1, <2>2, HostFinalTimeoutIs DEF EndInv
<1>7. CASE DevOpens
  <2>1. CASE /\ Puts("dev", Byte("ready"), Tail(chan["dev"]))
             /\ pc'["dev"] = "go" /\ pc'["host"] = pc["host"] /\ verdict' = verdict
    <3>1. Gains("host", {"ready", "noise"})
      BY <2>1, PutsGains, TextsAreItems, SidesAre
    <3>2. \E K : Gains("host", K) /\ "text_ok" \notin K
      BY <3>1
    <3> QED  BY <1>7, <2>1, <3>2, StaysEnded DEF DevOpens
  <2> QED  BY <1>1, <1>7, <2>1, DevOpensIs
<1>8. CASE DevGo
  <2>1. CASE /\ pc["dev"] \in {"go", "go2"} /\ chan["dev"] # << >> /\ verdict' = verdict
             /\ pc'["host"] = pc["host"]
             /\ chan' = Rest("dev") /\ left' = left /\ seen' = seen
    <3>1. Gains("host", {})
      BY <2>1, ReadsGains, SidesAre DEF Reads
    <3>2. UNCHANGED <<op, pos>>
      BY <1>8 DEF DevGo
    <3> QED  BY <2>1, <3>1, <3>2, StaysEnded DEF EndInv
  <2> QED  BY <1>1, <1>8, <2>1, DevGoIs
<1>9. CASE DevGoTimeout
  BY <1>1, <1>9, DevGoTimeoutIs
<1>10. CASE DevReadFails
  <2>1. /\ op = "GT" /\ pc["dev"] = "send" /\ pc'["dev"] = "repl" /\ pc'["host"] = pc["host"]
        /\ verdict'["host"] = verdict["host"] /\ UNCHANGED <<op, pos>>
    BY <1>10, DevReadFailsIs, BoundsAreNat, SidesAre DEF DevReadFails, TypeInv
  <2> QED  BY <2>1 DEF EndInv
<1>11. CASE DevReadsJunk
  <2>1. Gains("host", {})
    BY <1>11, DevReadsJunkIs, ReadsGains, SidesAre
  <2> QED  BY <1>11, <2>1, DevReadsJunkIs, StaysEnded DEF EndInv
<1>12. CASE \E s \in Side : Sends(s) \/ Receives(s)
  BY <1>12, SendsEnded, ReceivesEnded
<1>13. CASE UNCHANGED vars
  BY <1>13 DEF vars, ends, EndInv, Has
<1> QED  BY <1>2, <1>3, <1>4, <1>5, <1>6, <1>7, <1>8, <1>9, <1>10, <1>11, <1>12, <1>13, SidesAre
         DEF Next, HostNext, DevNext

----------------------------------------------------------------------------
(* How a transfer opens.                                                   *)

\* The host says GO once, to a device that waits for it; until the device has
\* opened the file nothing is on its way to the host, and until it has read the
\* GO nothing of the transfer itself is.
OpenInv ==
    /\ pc["host"] = "start" =>
          chan["dev"] = << >> /\ pc["dev"] = "repl" /\ verdict["dev"] = "none"
    /\ pc["host"] = "ready" =>
          pc["dev"] = "repl" \/ (pc["dev"] \in {"go", "go2"} /\ chan["dev"] = << >>)
    /\ pc["dev"] = "repl" /\ verdict["dev"] = "none" =>
          /\ chan["host"] = << >> /\ Len(chan["dev"]) <= 1
          /\ pc["host"] \in {"start", "ready", "done"}
    /\ pc["dev"] \in {"go", "go2"} =>
          /\ pc["host"] \notin {"start", "store", "final"}
          /\ ~Has("host", "pkt") /\ ~Has("host", "ack")
          /\ \A i \in 1..Len(chan["dev"]) : chan["dev"][i].k = "ack" => i = 1

FirstAckOnly(q) == \A i \in 1..Len(q) : q[i].k = "ack" => i = 1

LEMMA FirstAckKept ==
    ASSUME NEW q \in Seq(Item), FirstAckOnly(q)
    PROVE  /\ q # << >> => FirstAckOnly(Tail(q)) /\ \A i \in 1..Len(Tail(q)) : Tail(q)[i].k # "ack"
           /\ \A x \in Item : x.k # "ack" => FirstAckOnly(Append(q, x))
<1>1. ASSUME q # << >>
      PROVE  FirstAckOnly(Tail(q)) /\ \A i \in 1..Len(Tail(q)) : Tail(q)[i].k # "ack"
  <2>1. /\ Len(Tail(q)) = Len(q) - 1 /\ Len(q) \in Nat
        /\ \A i \in 1..(Len(q) - 1) : Tail(q)[i] = q[i + 1]
    BY <1>1, HeadTailProperties
  <2> QED  BY <2>1 DEF FirstAckOnly
<1>2. ASSUME NEW x \in Item, x.k # "ack" PROVE FirstAckOnly(Append(q, x))
  BY <1>2, AppendHas DEF FirstAckOnly
<1> QED  BY <1>1, <1>2

\* A step of the host in the transfer proper: it sends nothing like an ack unless
\* it has taken a packet.
LEMMA HostStepOpen ==
    ASSUME TypeInv, OpenInv, UNCHANGED op, pc'["dev"] = pc["dev"], verdict'["dev"] = verdict["dev"],
           pc["host"] \in {"send", "answer", "recv", "mid", "store", "final"},
           pc'["host"] \notin {"start", "ready"},
           pc["dev"] \in {"go", "go2"} =>
              /\ pc'["host"] \notin {"store", "final"} /\ Gains("host", {})
              /\ \/ chan'["dev"] = chan["dev"]
                 \/ \E x \in Item : chan'["dev"] = Append(chan["dev"], x) /\ x.k # "ack"
    PROVE  OpenInv'
<1>1. ~(pc["dev"] = "repl" /\ verdict["dev"] = "none")
  BY DEF OpenInv
<1>2. ASSUME pc["dev"] \in {"go", "go2"} PROVE FirstAckOnly(chan'["dev"])
  <2>1. chan["dev"] \in Seq(Item) /\ FirstAckOnly(chan["dev"])
    BY <1>2, SidesAre DEF TypeInv, LineTyped, OpenInv, FirstAckOnly
  <2> QED  BY <1>2, <2>1, FirstAckKept
<1>3. pc["dev"] \in {"go", "go2"} => ~Has("host", "pkt")' /\ ~Has("host", "ack")'
  BY DEF OpenInv, Gains
<1> HIDE DEF Has
<1> QED  BY <1>1, <1>2, <1>3 DEF OpenInv, FirstAckOnly

\* A step of the device in the transfer proper leaves it there or ends it.
LEMMA DevStepOpen ==
    ASSUME TypeInv, OpenInv, UNCHANGED op, pc'["host"] = pc["host"],
           pc["dev"] \in {"send", "answer", "recv", "mid", "store"},
           \/ pc'["dev"] \in {"send", "answer", "recv", "mid", "store"}
           \/ pc'["dev"] = "repl" /\ verdict'["dev"] # "none"
    PROVE  OpenInv'
  BY DEF OpenInv

LEMMA StopsOpen ==
    ASSUME TypeInv, OpenInv, NEW s \in Side, NEW how, EndsWell(s, how),
           s = "dev" => pc["host"] # "start"
    PROVE  OpenInv'
<1>1. /\ Stops(s, how) /\ how # "none" /\ op' = op
      /\ s = "host" => pc["host"] \in {"send", "answer", "recv", "mid", "store"}
  BY DEF EndsWell, Stops
<1>2. /\ verdict'[s] = (IF s = "dev" THEN how ELSE "fail")
      /\ pc'[s] = (IF s = "dev" THEN "repl" ELSE "done")
      /\ verdict'[Peer(s)] = verdict[Peer(s)] /\ pc'[Peer(s)] = pc[Peer(s)]
      /\ \/ chan'[Peer(s)] = chan[Peer(s)]
         \/ \E x \in Item :
               /\ chan'[Peer(s)] = Append(chan[Peer(s)], x)
               /\ x.k \in {"noise"} \union
                          IF s = "host" THEN {"can"}
                          ELSE IF how = "ok" THEN {"text_ok"} ELSE {"text_error"}
  BY <1>1, StopsIs
<1>3. CASE s = "dev"
  BY <1>1, <1>2, <1>3, SidesAre DEF OpenInv
<1>4. CASE s = "host"
  <2>1. Gains("host", {})
    BY <1>1, <1>4, StopsGains
  <2>2. \/ chan'["dev"] = chan["dev"]
        \/ \E x \in Item : chan'["dev"] = Append(chan["dev"], x) /\ x.k # "ack"
    BY <1>2, <1>4, SidesAre
  <2> QED  BY <1>1, <1>2, <1>4, <2>1, <2>2, HostStepOpen, SidesAre
<1> QED  BY <1>3, <1>4 DEF Side

LEMMA HeadHas ==
    ASSUME TypeInv, NEW s \in Side, chan[s] # << >> PROVE Has(s, Head(chan[s]).k)
<1>1. Head(chan[s]) = chan[s][1] /\ Len(chan[s]) \in Nat \ {0}
  BY RestIs DEF TypeInv, LineTyped
<1>2. 1 \in 1..Len(chan[s])
  BY <1>1
<1> QED  BY <1>1, <1>2 DEF Has

LEMMA SendsOpen ==
    ASSUME TypeInv, OpenInv, NEW s \in Side, Sends(s) PROVE OpenInv'
<1>1. pc[s] \in {"send", "answer"} /\ s = Sender /\ op' = op
  BY DEF Sends, SendPacket, SenderGivesUp, AckedChunk, AckedEnd, Refused, Cancelled,
         AnswerTimeout, Answered
<1>2. s = "dev" => pc["host"] # "start"
  BY <1>1 DEF OpenInv
<1>3. \A how : EndsWell(s, how) => OpenInv'
  BY <1>2, StopsOpen
<1>4. CASE s = "dev" /\ ~ \E how : EndsWell(s, how)
  <2>1. /\ pc'["host"] = pc["host"] /\ pc'["dev"] \in {"send", "answer", "recv", "mid", "store"}
    <3>1. CASE SendPacket(s) \/ AckedChunk(s) \/ AckedEnd(s)
      BY <1>4, <3>1, SendPacketIs, AckedChunkIs, AckedEndIs, SidesAre
    <3>2. CASE Refused(s) \/ AnswerTimeout(s) \/ SenderGivesUp(s) \/ Cancelled(s)
      BY <1>4, <3>2, RefusedIs, AnswerTimeoutIs, SenderGivesUpIs, CancelledIs, SidesAre
    <3> QED  BY <3>1, <3>2 DEF Sends
  <2> QED  BY <1>1, <1>4, <2>1, DevStepOpen
<1>5. CASE s = "host" /\ ~ \E how : EndsWell(s, how)
  <2>1. ASSUME pc["dev"] \in {"go", "go2"}, chan["host"] # << >>
        PROVE  Head(chan["host"]).k # "ack"
    BY <2>1, HeadHas, SidesAre DEF OpenInv
  <2>2. CASE SendPacket(s)
    <3>1. /\ pc'["host"] = "answer" /\ pc'["dev"] = pc["dev"] /\ verdict' = verdict
          /\ Puts(s, At(pos[s]), chan[s])
      BY <1>5, <2>2, SendPacketIs, SidesAre
    <3>2. pos[s] \in 0..Chunks
      BY DEF TypeInv, FileTyped
    <3>3. At(pos[s]).k = "pkt" /\ chan'["host"] = chan["host"]
      BY <1>5, <3>1, <3>2, AtIs DEF Puts
    <3>4. \/ chan'["dev"] = chan["dev"]
          \/ \E x \in Item : chan'["dev"] = Append(chan["dev"], x) /\ x.k # "ack"
      BY <1>5, <3>1, <3>3, SidesAre DEF Puts, Becomes
    <3>5. Gains("host", {})
      BY <3>3, GainsNone, SidesAre
    <3> QED  BY <1>1, <1>5, <3>1, <3>4, <3>5, HostStepOpen
  <2>3. CASE AckedChunk(s) \/ AckedEnd(s)
    <3>1. /\ pc'["host"] \in {"send", "final"} /\ pc'["dev"] = pc["dev"] /\ verdict' = verdict
          /\ Reads("host") /\ Head(chan["host"]).k = "ack"
      BY <1>5, <2>3, AckedChunkIs, AckedEndIs, SidesAre
    <3>2. pc["dev"] \notin {"go", "go2"}
      BY <2>1, <3>1 DEF Reads
    <3> QED  BY <1>1, <1>5, <3>1, <3>2, HostStepOpen
  <2>4. CASE Refused(s) \/ AnswerTimeout(s)
    <3>1. /\ pc'["host"] = "send" /\ pc'["dev"] = pc["dev"] /\ verdict' = verdict
          /\ Reads("host") \/ chan' = chan
      BY <1>5, <2>4, RefusedIs, AnswerTimeoutIs, SidesAre
    <3>2. Gains("host", {})
      BY <3>1, ReadsGains, StillsGains, SidesAre
    <3>3. chan'["dev"] = chan["dev"]
      BY <3>1, RestIs, SidesAre DEF Reads, TypeInv, LineTyped
    <3> QED  BY <1>1, <1>5, <3>1, <3>2, <3>3, HostStepOpen
  <2>5. CASE SenderGivesUp(s) \/ Cancelled(s)
    BY <1>3, <2>5, SenderGivesUpIs, CancelledIs
  <2> QED  BY <2>2, <2>3, <2>4, <2>5 DEF Sends
<1> QED  BY <1>3, <1>4, <1>5 DEF Side

LEMMA ReceivesOpen ==
    ASSUME TypeInv, OpenInv, NEW s \in Side, Receives(s) PROVE OpenInv'
<1>1. pc[s] \in {"recv", "mid", "store"} /\ s = Receiver /\ op' = op
  BY DEF Receives, TakePacket, NakPacket, StartPartial, TakeCancel, SkipToSoh, FillPartial,
         ReceiveTimeout, ReceiverGivesUp, EndOfFile, WrongTurn, Overflow, StoreChunk,
         Arriving, Holding
<1>2. s = "dev" => pc["host"] # "start"
  BY <1>1 DEF OpenInv
<1>3. \A how : EndsWell(s, how) => OpenInv'
  BY <1>2, StopsOpen
<1>4. CASE s = "dev" /\ ~ \E how : EndsWell(s, how)
  <2>1. /\ pc'["host"] = pc["host"] /\ pc'["dev"] \in {"send", "answer", "recv", "mid", "store"}
    <3>1. CASE TakePacket(s) \/ NakPacket(s) \/ StartPartial(s) \/ TakeCancel(s)
      BY <1>4, <3>1, TakePacketIs, NakPacketIs, StartPartialIs, TakeCancelIs, SidesAre DEF Naks, Drops
    <3>2. CASE SkipToSoh(s) \/ FillPartial(s) \/ ReceiveTimeout(s) \/ ReceiverGivesUp(s)
      BY <1>4, <3>2, SkipToSohIs, FillPartialIs, ReceiveTimeoutIs, ReceiverGivesUpIs, SidesAre
         DEF Naks, Drops
    <3>3. CASE EndOfFile(s) \/ WrongTurn(s) \/ Overflow(s) \/ StoreChunk(s)
      BY <1>4, <3>3, EndOfFileIs, WrongTurnIs, OverflowIs, StoreChunkIs, SidesAre
    <3> QED  BY <3>1, <3>2, <3>3 DEF Receives
  <2> QED  BY <1>1, <1>4, <2>1, DevStepOpen
<1>5. CASE s = "host" /\ ~ \E how : EndsWell(s, how)
  <2>1. CASE TakePacket(s)
    <3>1. /\ pc'["host"] = "store" /\ pc'["dev"] = pc["dev"] /\ verdict' = verdict
          /\ chan["host"] # << >> /\ Head(chan["host"]).k = "pkt"
      BY <1>5, <2>1, TakePacketIs, SidesAre
    <3>2. pc["dev"] \notin {"go", "go2"}
      BY <3>1, HeadHas, SidesAre DEF OpenInv
    <3> QED  BY <1>1, <1>5, <3>1, <3>2, HostStepOpen
  <2>2. ASSUME NEW where \in {"recv", "mid"}, NEW q, Naks(s, q, where),
               q = chan[s] \/ (chan[s] # << >> /\ q = Tail(chan[s]))
        PROVE  OpenInv'
    <3>1. /\ pc'["host"] = where /\ pc'["dev"] = pc["dev"] /\ verdict' = verdict
          /\ Puts("host", Byte("nak"), q)
      BY <1>5, <2>2, SidesAre DEF Naks
    <3>2. Gains("host", {})
      BY <1>5, <2>2, <3>1, GainsNone, SidesAre DEF Puts
    <3>3. \/ chan'["dev"] = chan["dev"]
          \/ \E x \in Item : chan'["dev"] = Append(chan["dev"], x) /\ x.k # "ack"
      BY <3>1, TextsAreItems, SidesAre DEF Puts, Becomes
    <3> QED  BY <1>1, <1>5, <3>1, <3>2, <3>3, HostStepOpen
  <2>3. ASSUME NEW where \in {"recv", "mid"}, Drops(s, where) PROVE OpenInv'
    <3>1. /\ pc'["host"] = where /\ pc'["dev"] = pc["dev"] /\ verdict' = verdict /\ Reads("host")
      BY <1>5, <2>3, SidesAre DEF Drops
    <3>2. Gains("host", {}) /\ chan'["dev"] = chan["dev"]
      BY <3>1, ReadsGains, RestIs, SidesAre DEF Reads, TypeInv, LineTyped
    <3> QED  BY <1>1, <1>5, <3>1, <3>2, HostStepOpen
  <2>4. CASE NakPacket(s) \/ FillPartial(s) \/ ReceiveTimeout(s) \/ StartPartial(s) \/ SkipToSoh(s)
    BY <2>2, <2>3, <2>4, NakPacketIs, FillPartialIs, ReceiveTimeoutIs, StartPartialIs, SkipToSohIs
  <2>5. CASE EndOfFile(s) \/ StoreChunk(s)
    <3>1. /\ pc["host"] = "store" /\ pc'["dev"] = pc["dev"] /\ verdict' = verdict
          /\ pc'["host"] \in {"final", "recv"}
      BY <1>5, <2>5, EndOfFileIs, StoreChunkIs, SidesAre
    <3>2. pc["dev"] \notin {"go", "go2"}
      BY <3>1 DEF OpenInv
    <3> QED  BY <1>1, <1>5, <3>1, <3>2, HostStepOpen
  <2>6. CASE TakeCancel(s) \/ ReceiverGivesUp(s) \/ WrongTurn(s) \/ Overflow(s)
    BY <1>3, <2>6, TakeCancelIs, ReceiverGivesUpIs, WrongTurnIs, OverflowIs
  <2> QED  BY <2>1, <2>4, <2>5, <2>6 DEF Receives
<1> QED  BY <1>3, <1>4, <1>5 DEF Side

LEMMA InitOpen == ASSUME Init PROVE OpenInv
  BY DEF Init, OpenInv, Side

LEMMA ShortTail ==
    ASSUME TypeInv, NEW s \in Side, chan[s] # << >>, Len(chan[s]) <= 1 PROVE Tail(chan[s]) = << >>
<1>1. chan[s] \in Seq(Item)
  BY DEF TypeInv, LineTyped
<1>2. Tail(chan[s]) \in Seq(Item)
  BY <1>1, HeadTailProperties
<1>3. Len(Tail(chan[s])) = 0
  <2> DEFINE n == Len(chan[s])
             m == Len(Tail(chan[s]))
  <2>1. m = n - 1 /\ n \in Nat \ {0} /\ n <= 1
    BY RestIs DEF TypeInv, LineTyped
  <2> HIDE DEF n, m
  <2>2. m = 0
    BY <2>1
  <2> QED  BY <2>2 DEF m
<1> QED  BY <1>2, <1>3, EmptySeq

LEMMA NextOpen == ASSUME TypeInv, EndInv, OpenInv, [Next]_vars PROVE OpenInv'
<1>1. \A how : EndsWell("dev", how) /\ pc["host"] # "start" => OpenInv'
  BY StopsOpen, SidesAre
<1>2. \A x \in Item : Len(Append(<< >>, x)) = 1 /\ Append(<< >>, x)[1] = x
  <2>1. << >> \in Seq(Item)
    OBVIOUS
  <2> QED  BY <2>1, AppendHas
<1>3. CASE HostCommand
  <2>1. /\ pc["host"] = "start" /\ pc'["host"] = "ready" /\ pc'["dev"] = pc["dev"]
        /\ UNCHANGED <<op, verdict>>
        /\ chan'["host"] = chan["host"]
        /\ chan'["dev"] = chan["dev"] \/ \E x \in Item : chan'["dev"] = Append(chan["dev"], x)
    BY <1>3, HostCommandIs, SidesAre DEF HostCommand, Puts
  <2>2. Len(chan'["dev"]) <= 1
    BY <1>2, <2>1 DEF OpenInv
  <2> QED  BY <2>1, <2>2 DEF OpenInv
<1>4. CASE HostReady
  <2>1. pc["host"] = "ready" /\ UNCHANGED <<op, verdict>> /\ pc'["dev"] = pc["dev"] /\ chan["host"] # << >>
    BY <1>4, HostReadyIs DEF HostReady
  <2>2. CASE pc'["host"] \in {"send", "recv"} /\ Puts("host", Byte("ack"), << >>)
    <3>1. Gains("host", {})
      BY <2>2, GainsNone, SidesAre DEF Puts
    <3>2. pc["dev"] \in {"go", "go2"} => ~Has("host", "pkt")' /\ ~Has("host", "ack")'
      BY <3>1 DEF OpenInv, Gains
    <3>3. chan'["dev"] = chan["dev"] \/ \E x \in Item : chan'["dev"] = Append(chan["dev"], x)
      BY <2>2, SidesAre DEF Puts
    <3>4. pc["dev"] \in {"go", "go2"} => FirstAckOnly(chan'["dev"])
      BY <1>2, <2>1, <3>3 DEF OpenInv, FirstAckOnly
    <3> HIDE DEF Has
    <3> QED  BY <2>1, <2>2, <3>2, <3>4 DEF OpenInv, FirstAckOnly
  <2>3. CASE chan' = Rest("host") /\ pc'["host"] = pc["host"] /\ left' = left /\ seen' = seen
    <3>1. Gains("host", {}) /\ chan'["dev"] = chan["dev"]
      BY <2>1, <2>3, ReadsGains, RestIs, SidesAre DEF Reads, TypeInv, LineTyped
    <3>2. pc["dev"] \in {"go", "go2"} => ~Has("host", "pkt")' /\ ~Has("host", "ack")'
      BY <3>1 DEF OpenInv, Gains
    <3> HIDE DEF Has
    <3> QED  BY <2>1, <2>3, <3>1, <3>2 DEF OpenInv
  <2> QED  BY <1>4, <2>2, <2>3, HostReadyIs
<1>5. CASE HostReadyTimeout
  <2>1. /\ pc["host"] = "ready" /\ pc'["host"] = "done" /\ pc'["dev"] = pc["dev"]
        /\ verdict'["dev"] = verdict["dev"] /\ chan' = chan
    BY <1>5, HostReadyTimeoutIs DEF HostReadyTimeout
  <2> QED  BY <2>1 DEF OpenInv, Has
<1>6. CASE HostFinal \/ HostFinalTimeout
  <2>1. /\ pc["host"] = "final" /\ pc'["host"] \in {"final", "done"} /\ pc'["dev"] = pc["dev"]
        /\ verdict'["dev"] = verdict["dev"] /\ op' = op
    BY <1>6, HostFinalIs, HostFinalTimeoutIs
  <2> QED  BY <2>1, HostStepOpen DEF OpenInv
<1>7. CASE DevOpens
  <2>1. /\ pc["dev"] = "repl" /\ verdict["dev"] = "none" /\ chan["dev"] # << >>
        /\ pc["host"] \in {"ready", "done"}
    BY <1>7 DEF DevOpens, OpenInv
  <2>2. CASE /\ Puts("dev", Byte("ready"), Tail(chan["dev"]))
             /\ pc'["dev"] = "go" /\ pc'["host"] = pc["host"] /\ verdict' = verdict
    <3>1. chan'["dev"] = << >>
      BY <2>1, <2>2, ShortTail, SidesAre DEF OpenInv, Puts
    <3>2. Gains("host", {"ready", "noise"})
      BY <2>2, PutsGains, TextsAreItems, SidesAre
    <3>3. ~Has("host", "pkt")' /\ ~Has("host", "ack")'
      <4>1. \A k : ~Has("host", k)
        BY <2>1 DEF OpenInv, Has
      <4> HIDE DEF Has
      <4> QED  BY <3>2, <4>1 DEF Gains
    <3> HIDE DEF Has
    <3> QED  BY <2>1, <2>2, <3>1, <3>3 DEF OpenInv
  <2> QED  BY <1>1, <1>7, <2>1, <2>2, DevOpensIs
<1>8. CASE DevGo
  <2>1. pc["dev"] \in {"go", "go2"} /\ chan["dev"] # << >>
    BY <1>8, DevGoIs
  <2>2. pc["host"] \notin {"start", "ready"}
    BY <2>1 DEF OpenInv
  <2>3. CASE /\ verdict' = verdict /\ pc'["host"] = pc["host"]
             /\ chan' = Rest("dev") /\ left' = left /\ seen' = seen
             /\ pc'["dev"] \in {"recv", "send", "go2"}
    <3>1. chan'["dev"] = Tail(chan["dev"]) /\ chan["dev"] \in Seq(Item)
      BY <2>1, <2>3, RestIs, SidesAre DEF TypeInv, LineTyped
    <3>2. FirstAckOnly(chan'["dev"])
      BY <2>1, <3>1, FirstAckKept DEF OpenInv, FirstAckOnly
    <3>3. Gains("host", {})
      BY <2>1, <2>3, ReadsGains, SidesAre DEF Reads
    <3>4. ~Has("host", "pkt")' /\ ~Has("host", "ack")'
      BY <2>1, <3>3 DEF Gains, OpenInv
    <3> HIDE DEF Has
    <3> QED  BY <2>1, <2>2, <2>3, <3>2, <3>4 DEF OpenInv, FirstAckOnly
  <2> QED  BY <1>1, <1>8, <2>2, <2>3, DevGoIs
<1>9. CASE DevGoTimeout
  BY <1>1, <1>9, DevGoTimeoutIs DEF DevGoTimeout, OpenInv
<1>10. CASE DevReadFails
  <2>1. pc["dev"] = "send" /\ pc'["dev"] = "repl" /\ pc'["host"] = pc["host"] /\ verdict'["dev"] = "read" /\ op' = op
    BY <1>10, DevReadFailsIs DEF DevReadFails
  <2> QED  BY <2>1, DevStepOpen
<1>11. CASE DevReadsJunk
  <2>1. /\ pc' = pc /\ verdict' = verdict /\ pc["dev"] = "repl"
        /\ chan["dev"] # << >> /\ chan'["dev"] = Tail(chan["dev"]) /\ chan'["host"] = chan["host"]
        /\ Len(chan["dev"]) \in Nat /\ Len(Tail(chan["dev"])) = Len(chan["dev"]) - 1
    BY <1>11, DevReadsJunkIs, RestIs, SidesAre DEF Reads, TypeInv, LineTyped
  <2> QED  BY <2>1 DEF OpenInv
<1>12. CASE \E s \in Side : Sends(s) \/ Receives(s)
  BY <1>12, SendsOpen, ReceivesOpen
<1>13. CASE UNCHANGED vars
  BY <1>13 DEF vars, ends, OpenInv, Has
<1> QED  BY <1>3, <1>4, <1>5, <1>6, <1>7, <1>8, <1>9, <1>10, <1>11, <1>12, <1>13, SidesAre
         DEF Next, HostNext, DevNext

----------------------------------------------------------------------------
(* Sequence numbers.                                                       *)

\* A sequence number tells a position from the one before it.
LEMMA SeqTells ==
    ASSUME NEW M \in Nat, M > 2, NEW r \in Nat PROVE (r + 1) % M # r % M
<1>1. \A n \in Nat : n = M * (n \div M) + (n % M) /\ n \div M \in Nat /\ n % M \in Nat
  BY SMTT(30)
<1>2. ASSUME NEW a \in Nat, NEW b \in Nat, M * a + 1 = M * b PROVE FALSE
  <2>1. M * (b - a) = 1
    BY <1>2
  <2>2. CASE b <= a
    <3>1. M * (b - a) <= 0
      BY <2>2
    <3> QED  BY <2>1, <3>1
  <2>3. CASE b >= a + 1
    <3>1. M * (b - a) >= M
      BY <2>3
    <3> QED  BY <2>1, <3>1
  <2> QED  BY <2>2, <2>3
<1>3. ASSUME (r + 1) % M = r % M PROVE FALSE
  <2> DEFINE a == r \div M
             b == (r + 1) \div M
             c == r % M
  <2>1. r = M * a + c /\ a \in Nat /\ c \in Nat
    BY <1>1
  <2>2. r + 1 = M * b + c /\ b \in Nat
    BY <1>1, <1>3
  <2> HIDE DEF a, b, c
  <2>3. M * a + 1 = M * b
    BY <2>1, <2>2
  <2> QED  BY <1>2, <2>1, <2>2, <2>3
<1> QED  BY <1>3

Sound(m) == m.k = "pkt" /\ m.crc

\* The whole packets of q carry positions from lo - 1 to hi, the older ones first.
InOrder(q, lo, hi) ==
    /\ \A i \in 1..Len(q) : Sound(q[i]) =>
          q[i] = At(PosOf(q[i])) /\ lo <= PosOf(q[i]) + 1 /\ PosOf(q[i]) <= hi
    /\ \A i, j \in 1..Len(q) : i < j /\ Sound(q[i]) /\ Sound(q[j]) => PosOf(q[i]) <= PosOf(q[j])

LEMMA PosTyped == ASSUME NEW m \in Item, Sound(m) PROVE PosOf(m) \in 0..Chunks
<1>1. m.chunk \in 0..Chunks
  BY DEF Item, Sound
<1> QED  BY <1>1, BoundsAreNat DEF PosOf

LEMMA InOrderTail ==
    ASSUME NEW q \in Seq(Item), q # << >>, NEW lo \in Nat, NEW hi \in Nat, InOrder(q, lo, hi)
    PROVE  /\ InOrder(Tail(q), lo, hi)
           /\ Sound(Head(q)) => /\ InOrder(Tail(q), PosOf(Head(q)) + 1, hi)
                                /\ Head(q) = At(PosOf(Head(q)))
                                /\ lo <= PosOf(Head(q)) + 1 /\ PosOf(Head(q)) <= hi
<1>1. /\ Len(Tail(q)) = Len(q) - 1 /\ Len(q) \in Nat \ {0} /\ Head(q) = q[1] /\ q[1] \in Item
      /\ \A i \in 1..(Len(q) - 1) : Tail(q)[i] = q[i + 1] /\ q[i + 1] \in Item
  BY HeadTailProperties, EmptySeq
<1> DEFINE t == Tail(q)
           n == Len(q)
<1>2. /\ Len(t) = n - 1 /\ n \in Nat \ {0} /\ q[1] \in Item
      /\ \A i \in 1..(n - 1) : t[i] = q[i + 1] /\ i + 1 \in 1..n
  BY <1>1
<1> HIDE DEF t, n
<1>3. /\ \A i \in 1..n : Sound(q[i]) =>
            q[i] = At(PosOf(q[i])) /\ lo <= PosOf(q[i]) + 1 /\ PosOf(q[i]) <= hi
      /\ \A i, j \in 1..n : i < j /\ Sound(q[i]) /\ Sound(q[j]) => PosOf(q[i]) <= PosOf(q[j])
  BY DEF InOrder, n
<1>4. InOrder(t, lo, hi)
  BY <1>2, <1>3 DEF InOrder
<1>5. ASSUME Sound(q[1])
      PROVE  /\ InOrder(t, PosOf(q[1]) + 1, hi) /\ q[1] = At(PosOf(q[1]))
             /\ lo <= PosOf(q[1]) + 1 /\ PosOf(q[1]) <= hi
  <2>1. PosOf(q[1]) \in 0..Chunks
    BY <1>2, <1>5, PosTyped
  <2>2. \A i \in 1..(n - 1) : Sound(t[i]) => PosOf(q[1]) <= PosOf(t[i])
    BY <1>2, <1>3, <1>5
  <2>3. \A i \in 1..(n - 1) : Sound(t[i]) => PosOf(t[i]) \in 0..Chunks
    BY <1>1, <1>2, PosTyped DEF n, t
  <2>4. \A i \in 1..(n - 1) : Sound(t[i]) => PosOf(q[1]) + 1 <= PosOf(t[i]) + 1
    BY <2>1, <2>2, <2>3, BoundsAreNat
  <2>5. InOrder(t, PosOf(q[1]) + 1, hi)
    BY <1>2, <1>4, <2>4 DEF InOrder
  <2> QED  BY <1>2, <1>3, <1>5, <2>5
<1> QED  BY <1>1, <1>4, <1>5 DEF t

LEMMA InOrderAppend ==
    ASSUME NEW q \in Seq(Item), NEW x \in Item, NEW lo \in Nat, NEW hi \in Nat, InOrder(q, lo, hi),
           Sound(x) => x = At(PosOf(x)) /\ PosOf(x) = hi /\ lo <= hi + 1
    PROVE  InOrder(Append(q, x), lo, hi)
<1> DEFINE a == Append(q, x)
           n == Len(q)
<1>1. Len(a) = n + 1 /\ n \in Nat /\ a[n + 1] = x /\ \A i \in 1..n : a[i] = q[i]
  BY AppendHas
<1> HIDE DEF a, n
<1>2. /\ \A i \in 1..n : Sound(q[i]) =>
            q[i] = At(PosOf(q[i])) /\ lo <= PosOf(q[i]) + 1 /\ PosOf(q[i]) <= hi
      /\ \A i, j \in 1..n : i < j /\ Sound(q[i]) /\ Sound(q[j]) => PosOf(q[i]) <= PosOf(q[j])
  BY DEF InOrder, n
<1>3. \A i \in 1..(n + 1) : Sound(a[i]) =>
            a[i] = At(PosOf(a[i])) /\ lo <= PosOf(a[i]) + 1 /\ PosOf(a[i]) <= hi
  BY <1>1, <1>2
<1>4. ASSUME NEW i \in 1..(n + 1), NEW j \in 1..(n + 1), i < j, Sound(a[i]), Sound(a[j])
      PROVE  PosOf(a[i]) <= PosOf(a[j])
  <2>1. CASE j = n + 1
    BY <1>1, <1>2, <1>4, <2>1
  <2>2. CASE j \in 1..n
    BY <1>1, <1>2, <1>4, <2>2
  <2> QED  BY <1>1, <2>1, <2>2
<1>5. InOrder(a, lo, hi)
  BY <1>1, <1>3, <1>4 DEF InOrder
<1> QED  BY <1>5 DEF a

LEMMA InOrderMore ==
    ASSUME NEW q \in Seq(Item), NEW lo \in Nat, NEW hi \in Nat, InOrder(q, lo, hi)
    PROVE  InOrder(q, lo, hi + 1)
<1>1. \A i \in 1..Len(q) : Sound(q[i]) => PosOf(q[i]) \in 0..Chunks
  BY PosTyped
<1> QED  BY <1>1, BoundsAreNat DEF InOrder

\* The acks of q: one at most, and that only when n is 1.
OneAck(q, n) ==
    /\ \A i \in 1..Len(q) : q[i].k = "ack" => n = 1
    /\ \A i, j \in 1..Len(q) : q[i].k = "ack" /\ q[j].k = "ack" => i = j

LEMMA OneAckTail ==
    ASSUME NEW q \in Seq(Item), q # << >>, NEW n, OneAck(q, n)
    PROVE  /\ OneAck(Tail(q), n)
           /\ Head(q).k = "ack" => n = 1 /\ \A m : OneAck(Tail(q), m)
<1> DEFINE t == Tail(q)
           l == Len(q)
<1>1. /\ Len(t) = l - 1 /\ l \in Nat \ {0} /\ Head(q) = q[1]
      /\ \A i \in 1..(l - 1) : t[i] = q[i + 1] /\ i + 1 \in 1..l
  BY HeadTailProperties, EmptySeq
<1>2. /\ \A i \in 1..l : q[i].k = "ack" => n = 1
      /\ \A i, j \in 1..l : q[i].k = "ack" /\ q[j].k = "ack" => i = j
  BY DEF OneAck
<1> HIDE DEF t, l
<1>3. OneAck(t, n)
  <2>1. \A i \in 1..(l - 1) : t[i].k = "ack" => n = 1
    BY <1>1, <1>2
  <2>2. ASSUME NEW i \in 1..(l - 1), NEW j \in 1..(l - 1), t[i].k = "ack", t[j].k = "ack"
        PROVE  i = j
    <3>1. i + 1 = j + 1
      BY <1>1, <1>2, <2>2
    <3> QED  BY <1>1, <3>1
  <2> QED  BY <1>1, <2>1, <2>2 DEF OneAck
<1>4. ASSUME q[1].k = "ack" PROVE n = 1 /\ \A i \in 1..(l - 1) : t[i].k # "ack"
  BY <1>1, <1>2, <1>4
<1>5. q[1].k = "ack" => n = 1 /\ \A m : OneAck(t, m)
  BY <1>1, <1>4 DEF OneAck
<1> QED  BY <1>1, <1>3, <1>5 DEF t

LEMMA OneAckAppend ==
    ASSUME NEW q \in Seq(Item), NEW x \in Item, NEW n, NEW m, OneAck(q, n)
    PROVE  /\ x.k # "ack" => OneAck(Append(q, x), n)
           /\ n # 1 /\ m = 1 => OneAck(Append(q, x), m)
<1> DEFINE a == Append(q, x)
           l == Len(q)
<1>1. Len(a) = l + 1 /\ l \in Nat /\ a[l + 1] = x /\ \A i \in 1..l : a[i] = q[i]
  BY AppendHas
<1>2. /\ \A i \in 1..l : q[i].k = "ack" => n = 1
      /\ \A i, j \in 1..l : q[i].k = "ack" /\ q[j].k = "ack" => i = j
  BY DEF OneAck
<1> HIDE DEF a, l
<1>3. ASSUME x.k # "ack" PROVE OneAck(a, n)
  <2>1. \A i \in 1..(l + 1) : a[i].k = "ack" => i \in 1..l
    BY <1>1, <1>3
  <2> QED  BY <1>1, <1>2, <2>1 DEF OneAck
<1>4. ASSUME n # 1, m = 1 PROVE OneAck(a, m)
  <2>1. \A i \in 1..(l + 1) : a[i].k = "ack" => i = l + 1
    BY <1>1, <1>2, <1>4
  <2> QED  BY <1>1, <1>4, <2>1 DEF OneAck
<1> QED  BY <1>3, <1>4 DEF a

----------------------------------------------------------------------------
(* The packets on the line and the two positions.                          *)

\* The receiver is still in the transfer, and not about to end it.
Alive ==
    IF Receiver = "dev" THEN verdict["dev"] = "none" ELSE pc["host"] \notin {"final", "done"}
Doomed == pc[Receiver] = "store" /\ (held.chunk = 0 \/ ~InTurn(Receiver))

\* The chunks that the receiver has acknowledged.
Taken == IF pc[Receiver] = "store" THEN pos[Receiver] + 1 ELSE pos[Receiver]

\* The sender is at the receiver's position or one behind, its acknowledgement
\* on the way, and no packet on the line is older than the one before that.
PacketInv ==
    Alive /\ ~Doomed =>
        /\ pos[Sender] <= Taken /\ Taken <= pos[Sender] + 1
        /\ InOrder(chan[Receiver], Taken, pos[Sender])
        /\ pc[Sender] \in {"send", "answer"} => OneAck(chan[Sender], Taken - pos[Sender])
        /\ pc[Receiver] = "store" => held = At(pos[Receiver]) /\ pos[Receiver] < Chunks

\* The channel of s, after a step that adds at most an item of another kind.
Moves(s, k) ==
    \/ chan'[s] = chan[s] \/ chan'[s] = << >>
    \/ chan[s] # << >> /\ chan'[s] = Tail(chan[s])
    \/ \E x \in Item : chan'[s] = Append(chan[s], x) /\ x.k # k

LEMMA MovesInOrder ==
    ASSUME TypeInv, NEW s \in Side, Moves(s, "pkt"), NEW lo \in Nat, NEW hi \in Nat,
           InOrder(chan[s], lo, hi)
    PROVE  InOrder(chan'[s], lo, hi)
<1>1. chan[s] \in Seq(Item)
  BY DEF TypeInv, LineTyped
<1>2. CASE chan'[s] = << >>
  BY <1>2 DEF InOrder
<1>3. CASE chan[s] # << >> /\ chan'[s] = Tail(chan[s])
  BY <1>1, <1>3, InOrderTail
<1>4. ASSUME NEW x \in Item, chan'[s] = Append(chan[s], x), x.k # "pkt"
      PROVE  InOrder(chan'[s], lo, hi)
  BY <1>1, <1>4, InOrderAppend DEF Sound
<1> QED  BY <1>2, <1>3, <1>4 DEF Moves

LEMMA MovesOneAck ==
    ASSUME TypeInv, NEW s \in Side, Moves(s, "ack"), NEW n, OneAck(chan[s], n)
    PROVE  OneAck(chan'[s], n)
<1>1. chan[s] \in Seq(Item)
  BY DEF TypeInv, LineTyped
<1>2. CASE chan'[s] = << >>
  BY <1>2 DEF OneAck
<1>3. CASE chan[s] # << >> /\ chan'[s] = Tail(chan[s])
  BY <1>1, <1>3, OneAckTail
<1>4. ASSUME NEW x \in Item, chan'[s] = Append(chan[s], x), x.k # "ack"
      PROVE  OneAck(chan'[s], n)
  BY <1>1, <1>4, OneAckAppend
<1> QED  BY <1>2, <1>3, <1>4 DEF Moves

\* PacketInv across a step that moves neither position.
LEMMA StaysInOrder ==
    ASSUME TypeInv, PacketInv, UNCHANGED <<op, pos, held>>,
           Alive' => Alive,
           Moves(Receiver, "pkt"),
           pc'[Sender] \in {"send", "answer"} => pc[Sender] \in {"send", "answer"} /\ Moves(Sender, "ack"),
           pc'[Receiver] = "store" <=> pc[Receiver] = "store"
    PROVE  PacketInv'
<1> SUFFICES ASSUME Alive', ~Doomed' PROVE PacketInv'
  BY DEF PacketInv
<1>1. Sender' = Sender /\ Receiver' = Receiver /\ Sender \in Side /\ Receiver \in Side
  BY SidesStay, SidesAre
<1>2. Taken' = Taken /\ pos' = pos /\ held' = held /\ Alive /\ ~Doomed
  BY <1>1 DEF Taken, Doomed, InTurn
<1>3. /\ pos[Sender] <= Taken /\ Taken <= pos[Sender] + 1
      /\ InOrder(chan[Receiver], Taken, pos[Sender])
      /\ pc[Sender] \in {"send", "answer"} => OneAck(chan[Sender], Taken - pos[Sender])
      /\ pc[Receiver] = "store" => held = At(pos[Receiver]) /\ pos[Receiver] < Chunks
  BY <1>2 DEF PacketInv
<1>4. Taken \in Nat /\ pos[Sender] \in Nat
  BY <1>1, BoundsAreNat DEF TypeInv, FileTyped, Taken
<1>5. InOrder(chan'[Receiver], Taken, pos[Sender])
  BY <1>1, <1>3, <1>4, MovesInOrder
<1>6. pc'[Sender] \in {"send", "answer"} => OneAck(chan'[Sender], Taken - pos[Sender])
  BY <1>1, <1>3, MovesOneAck
<1> QED  BY <1>1, <1>2, <1>3, <1>5, <1>6 DEF PacketInv

LEMMA StopsInOrder ==
    ASSUME TypeInv, PacketInv, NEW s \in Side, NEW how, EndsWell(s, how) PROVE PacketInv'
<1>1. Stops(s, how) /\ how # "none" /\ UNCHANGED <<op, pos, held>>
  BY DEF EndsWell, Stops
<1>2. /\ verdict'[s] = (IF s = "dev" THEN how ELSE "fail")
      /\ pc'[s] = (IF s = "dev" THEN "repl" ELSE "done")
      /\ verdict'[Peer(s)] = verdict[Peer(s)] /\ pc'[Peer(s)] = pc[Peer(s)]
      /\ \/ chan'[Peer(s)] = chan[Peer(s)]
         \/ \E x \in Item :
               /\ chan'[Peer(s)] = Append(chan[Peer(s)], x)
               /\ x.k \in {"noise"} \union
                          IF s = "host" THEN {"can"}
                          ELSE IF how = "ok" THEN {"text_ok"} ELSE {"text_error"}
  BY <1>1, StopsIs
<1>3. Receiver' = Receiver
  BY <1>1, SidesStay
<1>4. CASE s = Receiver
  <2>1. ~Alive'
    BY <1>1, <1>2, <1>3, <1>4, SidesAre DEF Alive, Side
  <2> QED  BY <2>1 DEF PacketInv
<1>5. CASE s = Sender
  <2>1. Moves(Receiver, "pkt")
    BY <1>2, <1>5, SidesAre DEF Moves
  <2>2. Alive' => Alive
    BY <1>2, <1>3, <1>5, SidesAre DEF Alive, Side
  <2>3. pc'[Sender] \notin {"send", "answer"} /\ pc'[Receiver] = pc[Receiver]
    BY <1>2, <1>5, SidesAre
  <2> QED  BY <1>1, <2>1, <2>2, <2>3, StaysInOrder
<1> QED  BY <1>4, <1>5, SidesAre DEF Side

\* The sender leaves the receiver where it is.
LEMMA SenderLeaves ==
    ASSUME TypeInv, NEW s \in Side, s = Sender, UNCHANGED <<op, verdict>>, pc'[Peer(s)] = pc[Peer(s)]
    PROVE  (Alive' <=> Alive) /\ pc'[Receiver] = pc[Receiver]
<1>1. Receiver' = Receiver /\ Peer(s) = Receiver
  BY SidesStay, SidesAre
<1> QED  BY <1>1, SidesAre DEF Alive, Side

LEMMA ReadsMoves ==
    ASSUME TypeInv, NEW s \in Side, Reads(s)
    PROVE  \A k : Moves(s, k) /\ Moves(Peer(s), k)
  BY RestIs DEF Reads, Moves, TypeInv, LineTyped

LEMMA SendPacketInOrder ==
    ASSUME "header" \notin seen', TypeInv, PacketInv, NEW s \in Side, SendPacket(s)
    PROVE  PacketInv'
<1> SUFFICES ASSUME Alive', ~Doomed' PROVE PacketInv'
  BY DEF PacketInv
<1>1. /\ s = Sender /\ pc[s] = "send" /\ pc'[s] = "answer" /\ pc'[Peer(s)] = pc[Peer(s)]
      /\ Puts(s, At(pos[s]), chan[s]) /\ UNCHANGED <<op, pos, held, file, verdict, junk>>
  BY SendPacketIs
<1>2. /\ Sender' = Sender /\ Receiver' = Receiver /\ Sender \in Side /\ Receiver \in Side
      /\ Peer(s) = Receiver
  BY <1>1, SidesStay, SidesAre
<1>3. Alive /\ pc'[Receiver] = pc[Receiver]
  BY <1>1, SenderLeaves
<1>4. Taken' = Taken /\ ~Doomed
  BY <1>1, <1>2, <1>3 DEF Taken, Doomed, InTurn
<1>5. /\ pos[Sender] <= Taken /\ Taken <= pos[Sender] + 1
      /\ InOrder(chan[Receiver], Taken, pos[Sender])
      /\ OneAck(chan[Sender], Taken - pos[Sender])
      /\ pc[Receiver] = "store" => held = At(pos[Receiver]) /\ pos[Receiver] < Chunks
  BY <1>1, <1>3, <1>4 DEF PacketInv
<1>6. Taken \in Nat /\ pos[Sender] \in 0..Chunks /\ pos[Sender] \in Nat /\ chan[Receiver] \in Seq(Item)
  BY <1>2, BoundsAreNat DEF TypeInv, FileTyped, LineTyped, Taken
<1> DEFINE m == At(pos[Sender])
<1>7. m.k = "pkt" /\ PosOf(m) = pos[Sender] /\ m = At(pos[Sender])
  BY <1>6, AtIs
<1> HIDE DEF m
<1>8. \A x \in Item : Becomes(m, x) => (Sound(x) => x = m)
  BY <1>7 DEF Becomes, Sound
<1>9. InOrder(chan'[Receiver], Taken, pos[Sender])
  <2>1. CASE chan'[Receiver] = chan[Receiver]
    BY <1>5, <2>1
  <2>2. ASSUME NEW x \in Item, chan'[Receiver] = Append(chan[Receiver], x), Becomes(m, x)
        PROVE  InOrder(chan'[Receiver], Taken, pos[Sender])
    <3>1. Sound(x) => x = At(PosOf(x)) /\ PosOf(x) = pos[Sender] /\ Taken <= pos[Sender] + 1
      BY <1>5, <1>7, <1>8, <2>2
    <3> QED  BY <1>5, <1>6, <2>2, <3>1, InOrderAppend
  <2> QED  BY <1>1, <1>2, <1>7, <2>1, <2>2 DEF Puts
<1>10. chan'[Sender] = chan[Sender]
  BY <1>1 DEF Puts
<1> QED  BY <1>1, <1>2, <1>3, <1>4, <1>5, <1>9, <1>10 DEF PacketInv

LEMMA AckedChunkInOrder ==
    ASSUME TypeInv, PacketInv, NEW s \in Side, AckedChunk(s) PROVE PacketInv'
<1> SUFFICES ASSUME Alive', ~Doomed' PROVE PacketInv'
  BY DEF PacketInv
<1>1. /\ s = Sender /\ pc[s] = "answer" /\ Reads(s) /\ Head(chan[s]).k = "ack"
      /\ pc'[s] = "send" /\ pc'[Peer(s)] = pc[Peer(s)]
      /\ pos'[s] = pos[s] + 1 /\ pos'[Peer(s)] = pos[Peer(s)]
      /\ UNCHANGED <<op, held, file, verdict, junk>>
  BY AckedChunkIs
<1>2. /\ Sender' = Sender /\ Receiver' = Receiver /\ Sender \in Side /\ Receiver \in Side
      /\ Peer(s) = Receiver
  BY <1>1, SidesStay, SidesAre
<1>3. Alive /\ pc'[Receiver] = pc[Receiver]
  BY <1>1, SenderLeaves
<1>4. Taken' = Taken /\ ~Doomed
  BY <1>1, <1>2, <1>3 DEF Taken, Doomed, InTurn
<1>5. /\ pos[Sender] <= Taken /\ Taken <= pos[Sender] + 1
      /\ InOrder(chan[Receiver], Taken, pos[Sender])
      /\ OneAck(chan[Sender], Taken - pos[Sender])
      /\ pc[Receiver] = "store" => held = At(pos[Receiver]) /\ pos[Receiver] < Chunks
  BY <1>1, <1>3, <1>4 DEF PacketInv
<1>6. /\ Taken \in Nat /\ pos[Sender] \in Nat
      /\ chan[Receiver] \in Seq(Item) /\ chan[Sender] \in Seq(Item)
  BY <1>2, BoundsAreNat DEF TypeInv, FileTyped, LineTyped, Taken
<1>7. chan[s] # << >> /\ chan'[s] = Tail(chan[s]) /\ chan'[Receiver] = chan[Receiver]
  BY <1>1, <1>2, RestIs DEF Reads, TypeInv, LineTyped
<1>8. Taken - pos[Sender] = 1 /\ \A n : OneAck(chan'[Sender], n)
  BY <1>1, <1>5, <1>6, <1>7, OneAckTail
<1>9. Taken = pos'[Sender] /\ pos'[Sender] = pos[Sender] + 1
  BY <1>1, <1>6, <1>8
<1>10. InOrder(chan'[Receiver], Taken, pos'[Sender])
  BY <1>5, <1>6, <1>7, <1>9, InOrderMore
<1> QED  BY <1>1, <1>2, <1>3, <1>4, <1>5, <1>6, <1>8, <1>9, <1>10 DEF PacketInv

LEMMA SendsInOrder ==
    ASSUME "header" \notin seen', TypeInv, PacketInv, NEW s \in Side, Sends(s) PROVE PacketInv'
<1>1. \A how : EndsWell(s, how) => PacketInv'
  BY StopsInOrder
<1>2. CASE SendPacket(s)
  BY <1>2, SendPacketInOrder
<1>3. CASE AckedChunk(s)
  BY <1>3, AckedChunkInOrder
<1>4. ASSUME s = Sender, pc[s] = "answer", pc'[s] \in {"send", "final"}, pc'[Peer(s)] = pc[Peer(s)],
             UNCHANGED <<op, pos, held, verdict>>, Reads(s) \/ chan' = chan
      PROVE  PacketInv'
  <2>1. Moves(Sender, "ack") /\ Moves(Receiver, "pkt")
    <3>1. CASE Reads(s)
      BY <1>4, <3>1, ReadsMoves, SidesAre
    <3>2. CASE chan' = chan
      BY <3>2 DEF Moves
    <3> QED  BY <1>4, <3>1, <3>2
  <2>2. (Alive' <=> Alive) /\ pc'[Receiver] = pc[Receiver]
    BY <1>4, SenderLeaves
  <2> QED  BY <1>4, <2>1, <2>2, StaysInOrder
<1>5. CASE AckedEnd(s) \/ Refused(s) \/ AnswerTimeout(s)
  BY <1>1, <1>4, <1>5, AckedEndIs, RefusedIs, AnswerTimeoutIs, SidesAre
<1>6. CASE SenderGivesUp(s) \/ Cancelled(s)
  BY <1>1, <1>6, SenderGivesUpIs, CancelledIs
<1> QED  BY <1>2, <1>3, <1>5, <1>6 DEF Sends

\* A receiver that stays in the transfer stays alive.
LEMMA ReceiverStays ==
    ASSUME TypeInv, NEW s \in Side, s = Receiver, UNCHANGED <<op, verdict>>,
           pc[s] \in {"recv", "mid", "store"}
    PROVE  Alive' => Alive
<1>1. Receiver' = Receiver
  BY SidesStay
<1> QED  BY <1>1, SidesAre DEF Alive, Side

LEMMA PutsMoves ==
    ASSUME TypeInv, NEW s \in Side, NEW m \in Item, m.k \notin {"ack", "pkt"}, NEW q, Puts(s, m, q)
    PROVE  Moves(Peer(s), "ack") /\ Moves(Peer(s), "pkt")
  BY DEF Puts, Becomes, Moves

LEMMA TakePacketInOrder ==
    ASSUME TypeInv, PacketInv, NEW s \in Side, TakePacket(s) PROVE PacketInv'
<1> SUFFICES ASSUME Alive', ~Doomed' PROVE PacketInv'
  BY DEF PacketInv
<1>1. /\ s = Receiver /\ pc[s] = "recv" /\ chan[s] # << >>
      /\ Head(chan[s]).k = "pkt" /\ Head(chan[s]).crc /\ held' = Head(chan[s])
      /\ Puts(s, Byte("ack"), Tail(chan[s]))
      /\ pc'[s] = "store" /\ pc'[Peer(s)] = pc[Peer(s)]
      /\ UNCHANGED <<op, try, pos, file, verdict, junk>>
  BY TakePacketIs
<1>2. /\ Sender' = Sender /\ Receiver' = Receiver /\ Sender \in Side /\ Receiver \in Side
      /\ Peer(s) = Sender
  BY <1>1, SidesStay, SidesAre
<1>3. Alive /\ ~Doomed /\ Taken = pos[Receiver] /\ Taken' = pos[Receiver] + 1
  BY <1>1, <1>2, ReceiverStays DEF Doomed, Taken
<1>4. /\ pos[Sender] <= Taken /\ Taken <= pos[Sender] + 1
      /\ InOrder(chan[Receiver], Taken, pos[Sender])
      /\ pc[Sender] \in {"send", "answer"} => OneAck(chan[Sender], Taken - pos[Sender])
  BY <1>3 DEF PacketInv
<1>5. /\ pos[Receiver] \in 0..Chunks /\ pos[Sender] \in 0..Chunks
      /\ pos[Receiver] \in Nat /\ pos[Sender] \in Nat
      /\ chan[Receiver] \in Seq(Item) /\ chan[Sender] \in Seq(Item)
  BY <1>2, BoundsAreNat DEF TypeInv, FileTyped, LineTyped
<1> DEFINE m == Head(chan[Receiver])
           p == PosOf(m)
<1>6. m \in Item /\ Sound(m) /\ m = held'
  BY <1>1, <1>5, HeadTailProperties DEF Sound
<1>7. /\ m = At(p) /\ pos[Receiver] <= p + 1 /\ p <= pos[Sender]
      /\ InOrder(Tail(chan[Receiver]), p + 1, pos[Sender])
  BY <1>1, <1>3, <1>4, <1>5, <1>6, InOrderTail
<1>8. p \in 0..Chunks /\ p \in Nat
  BY <1>6, PosTyped, BoundsAreNat
<1>9. m.seq = p % SeqMod /\ m.chunk = IF p < Chunks THEN p + 1 ELSE 0
  BY <1>7, <1>8, AtIs
<1>10. m.chunk # 0 /\ m.seq = pos[Receiver] % SeqMod
  BY <1>1, <1>2, <1>6 DEF Doomed, InTurn
<1> HIDE DEF m, p
<1>11. p < Chunks
  BY <1>8, <1>9, <1>10, BoundsAreNat
<1>12. p = pos[Receiver] \/ p + 1 = pos[Receiver]
  BY <1>3, <1>4, <1>5, <1>7, <1>8
<1>13. p + 1 # pos[Receiver]
  BY <1>8, <1>9, <1>10, SeqTells, BoundsAreNat
<1>14. p = pos[Receiver] /\ pos[Sender] = p
  BY <1>3, <1>4, <1>5, <1>7, <1>8, <1>12, <1>13
<1>15. chan'[Receiver] = Tail(chan[Receiver]) /\ InOrder(chan'[Receiver], Taken', pos[Sender])
  BY <1>1, <1>3, <1>7, <1>14 DEF Puts
<1>16. pc[Sender] \in {"send", "answer"} => OneAck(chan'[Sender], Taken' - pos[Sender])
  <2>1. Taken - pos[Sender] # 1 /\ Taken' - pos[Sender] = 1
    BY <1>3, <1>5, <1>14
  <2> SUFFICES ASSUME OneAck(chan[Sender], Taken - pos[Sender])
               PROVE  OneAck(chan'[Sender], Taken' - pos[Sender])
    BY <1>4
  <2>2. CASE chan'[Sender] = chan[Sender]
    BY <2>1, <2>2 DEF OneAck
  <2>3. ASSUME NEW x \in Item, chan'[Sender] = Append(chan[Sender], x)
        PROVE  OneAck(chan'[Sender], Taken' - pos[Sender])
    BY <1>5, <2>1, <2>3, OneAckAppend
  <2> QED  BY <1>1, <1>2, <2>2, <2>3 DEF Puts
<1>17. held' = At(pos[Receiver]) /\ pos[Receiver] < Chunks
  BY <1>6, <1>7, <1>11, <1>14
<1>18. pos[Sender] <= Taken' /\ Taken' <= pos[Sender] + 1
  BY <1>3, <1>5, <1>14
<1> QED  BY <1>1, <1>2, <1>15, <1>16, <1>17, <1>18 DEF PacketInv

LEMMA StoreChunkInOrder ==
    ASSUME TypeInv, PacketInv, NEW s \in Side, s = Receiver, pc[s] = "store",
           held.chunk # 0, InTurn(s),
           pos'[s] = pos[s] + 1, pos'[Peer(s)] = pos[Peer(s)],
           pc'[s] = "recv", pc'[Peer(s)] = pc[Peer(s)],
           UNCHANGED <<op, held, verdict, junk, chan, left, seen>>
    PROVE  PacketInv'
<1> SUFFICES ASSUME Alive', ~Doomed' PROVE PacketInv'
  BY DEF PacketInv
<1>1. /\ Sender' = Sender /\ Receiver' = Receiver /\ Peer(s) = Sender
  BY SidesStay, SidesAre
<1>2. Alive /\ ~Doomed /\ Taken' = Taken
  BY <1>1, ReceiverStays DEF Doomed, Taken
<1> QED  BY <1>1, <1>2 DEF PacketInv

LEMMA ReceivesInOrder ==
    ASSUME TypeInv, PacketInv, NEW s \in Side, Receives(s) PROVE PacketInv'
<1>1. \A how : EndsWell(s, how) => PacketInv'
  BY StopsInOrder
<1>2. CASE TakePacket(s)
  BY <1>2, TakePacketInOrder
<1>3. ASSUME NEW where \in {"recv", "mid"}, NEW q, Naks(s, q, where), pc[s] \in {"recv", "mid"},
             q = chan[s] \/ (chan[s] # << >> /\ q = Tail(chan[s]))
      PROVE  PacketInv'
  <2>1. /\ s = Receiver /\ pc'[s] = where /\ pc'[Peer(s)] = pc[Peer(s)]
        /\ UNCHANGED <<op, pos, held, verdict>> /\ Puts(s, Byte("nak"), q)
    BY <1>3 DEF Naks
  <2>2. Moves(Peer(s), "ack") /\ Peer(s) = Sender
    BY <2>1, PutsMoves, TextsAreItems, SidesAre
  <2>3. Moves(s, "pkt")
    BY <1>3, <2>1 DEF Puts, Moves
  <2> QED  BY <1>3, <2>1, <2>2, <2>3, ReceiverStays, StaysInOrder
<1>4. ASSUME NEW where \in {"recv", "mid"}, Drops(s, where), pc[s] \in {"recv", "mid"}
      PROVE  PacketInv'
  <2>1. /\ s = Receiver /\ pc'[s] = where /\ pc'[Peer(s)] = pc[Peer(s)]
        /\ UNCHANGED <<op, pos, held, verdict>> /\ Reads(s)
    BY <1>4 DEF Drops
  <2>2. Moves(Peer(s), "ack") /\ Peer(s) = Sender /\ Moves(s, "pkt")
    BY <2>1, ReadsMoves, SidesAre
  <2> QED  BY <1>4, <2>1, <2>2, ReceiverStays, StaysInOrder
<1>5. CASE NakPacket(s) \/ FillPartial(s) \/ ReceiveTimeout(s) \/ StartPartial(s) \/ SkipToSoh(s)
  BY <1>3, <1>4, <1>5, NakPacketIs, FillPartialIs, ReceiveTimeoutIs, StartPartialIs, SkipToSohIs
<1>6. CASE EndOfFile(s)
  <2>1. CASE s = "host" /\ s = Receiver /\ pc'["host"] = "final" /\ op' = op
    <3>1. ~Alive'
      BY <2>1, SidesStay DEF Alive
    <3> QED  BY <3>1 DEF PacketInv
  <2> QED  BY <1>1, <1>6, <2>1, EndOfFileIs
<1>7. CASE StoreChunk(s)
  BY <1>1, <1>7, StoreChunkIs, StoreChunkInOrder
<1>8. CASE TakeCancel(s) \/ ReceiverGivesUp(s) \/ WrongTurn(s) \/ Overflow(s)
  BY <1>1, <1>8, TakeCancelIs, ReceiverGivesUpIs, WrongTurnIs, OverflowIs
<1> QED  BY <1>2, <1>5, <1>6, <1>7, <1>8 DEF Receives

LEMMA InitInOrder == ASSUME Init PROVE PacketInv
<1>1. /\ Taken = 0 /\ pos[Sender] = 0 /\ chan[Receiver] = << >> /\ chan[Sender] = << >>
      /\ pc[Receiver] # "store"
  BY SidesAre DEF Init, Taken, Side
<1>2. InOrder(<< >>, 0, 0) /\ OneAck(<< >>, 0)
  BY DEF InOrder, OneAck
<1> QED  BY <1>1, <1>2 DEF PacketInv

\* The opening moves neither the receiver's place in the transfer nor the sender's.
LEMMA OpeningInOrder ==
    ASSUME TypeInv, PacketInv, UNCHANGED <<op, pos, held, verdict>>, NEW s \in Side,
           pc'[Peer(s)] = pc[Peer(s)], pc[s] \notin {"store", "final", "done"}, pc'[s] # "store",
           Moves("dev", "pkt"), Moves("host", "pkt"),
           pc'[Sender] \in {"send", "answer"} => pc[Sender] \in {"send", "answer"} /\ Moves(Sender, "ack")
    PROVE  PacketInv'
<1>1. Receiver' = Receiver /\ Receiver \in {s, Peer(s)} /\ Receiver \in {"dev", "host"}
  BY SidesStay, SidesAre DEF Side, Peer
<1>2. Alive' => Alive
  BY <1>1 DEF Alive, Side, Peer
<1>3. pc'[Receiver] = "store" <=> pc[Receiver] = "store"
  BY <1>1
<1>4. Moves(Receiver, "pkt")
  BY <1>1
<1> QED  BY <1>2, <1>3, <1>4, StaysInOrder

LEMMA HostReadyInOrder ==
    ASSUME TypeInv, OpenInv, PacketInv, HostReady PROVE PacketInv'
<1>1. /\ pc["host"] = "ready" /\ UNCHANGED <<op, pos, held, verdict>> /\ pc'["dev"] = pc["dev"]
      /\ chan["host"] # << >>
  BY HostReadyIs DEF HostReady
<1>2. CASE pc'["host"] = (IF op = "PU" THEN "send" ELSE "recv") /\ Puts("host", Byte("ack"), << >>)
  <2>1. Moves("host", "pkt") /\ chan'["host"] = << >>
    BY <1>2 DEF Puts, Moves
  <2>2. Moves("dev", "pkt")
    BY <1>2, TextsAreItems, SidesAre DEF Puts, Becomes, Moves
  <2>3. CASE op = "PU"
    <3> SUFFICES ASSUME Alive', ~Doomed' PROVE PacketInv'
      BY DEF PacketInv
    <3>1. /\ Sender = "host" /\ Receiver = "dev" /\ Sender' = "host" /\ Receiver' = "dev"
          /\ pc["dev"] # "store" /\ "dev" \in Side
      BY <1>1, <2>3, SidesStay, SidesAre DEF OpenInv
    <3>2. Alive /\ ~Doomed /\ Taken = pos["dev"] /\ Taken' = pos["dev"]
      BY <1>1, <3>1 DEF Alive, Doomed, Taken
    <3>3. /\ pos["host"] <= Taken /\ Taken <= pos["host"] + 1
          /\ InOrder(chan["dev"], Taken, pos["host"])
      BY <3>1, <3>2 DEF PacketInv
    <3>4. Taken \in Nat /\ pos["host"] \in Nat
      BY <3>2, BoundsAreNat, SidesAre DEF TypeInv, FileTyped, Side
    <3>5. InOrder(chan'["dev"], Taken, pos["host"])
      BY <2>2, <3>1, <3>3, <3>4, MovesInOrder
    <3>6. OneAck(chan'["host"], Taken - pos["host"])
      BY <2>1 DEF OneAck
    <3> QED  BY <1>1, <3>1, <3>2, <3>3, <3>5, <3>6 DEF PacketInv
  <2>4. CASE op # "PU"
    <3>1. Sender = "dev" /\ pc["dev"] \notin {"send", "answer"}
      BY <1>1, <2>4 DEF Sender, OpenInv
    <3>2. pc'["host"] = "recv" /\ Peer("host") = "dev" /\ "host" \in Side
      BY <1>2, <2>4, SidesAre
    <3> QED  BY <1>1, <2>1, <2>2, <3>1, <3>2, OpeningInOrder
  <2> QED  BY <2>3, <2>4
<1>3. CASE chan' = Rest("host") /\ pc'["host"] = pc["host"] /\ left' = left /\ seen' = seen
  <2>1. \A k : Moves("host", k) /\ Moves("dev", k)
    BY <1>1, <1>3, ReadsMoves, SidesAre DEF Reads
  <2>2. pc'["host"] = "ready" /\ Peer("host") = "dev" /\ "host" \in Side
    BY <1>1, <1>3, SidesAre
  <2>3. pc'[Sender] = pc[Sender] /\ Sender \in {"host", "dev"}
    BY <1>1, <1>3, SidesAre DEF Sender
  <2> QED  BY <1>1, <2>1, <2>2, <2>3, OpeningInOrder
<1> QED  BY <1>2, <1>3, HostReadyIs

LEMMA DevGoInOrder ==
    ASSUME TypeInv, OpenInv, PacketInv, DevGo PROVE PacketInv'
<1>1. /\ pc["dev"] \in {"go", "go2"} /\ chan["dev"] # << >> /\ UNCHANGED <<op, pos, held>>
  BY DevGoIs DEF DevGo
<1>2. CASE EndsWell("dev", "nogo")
  BY <1>2, StopsInOrder, SidesAre
<1>3. CASE /\ verdict' = verdict /\ pc'["host"] = pc["host"]
           /\ chan' = Rest("dev") /\ left' = left /\ seen' = seen
           /\ pc'["dev"] = (IF op = "PU" THEN "recv" ELSE "send") \/ (op = "PU" /\ pc'["dev"] = "go2")
  <2>1. \A k : Moves("host", k) /\ Moves("dev", k)
    BY <1>1, <1>3, ReadsMoves, SidesAre DEF Reads
  <2>2. Peer("dev") = "host" /\ "dev" \in Side
    BY SidesAre
  <2>3. CASE op = "PU"
    <3>1. Sender = "host" /\ pc'["dev"] \in {"recv", "go2"}
      BY <1>3, <2>3, SidesAre
    <3> QED  BY <1>1, <1>3, <2>1, <2>2, <3>1, OpeningInOrder
  <2>4. CASE op # "PU"
    <3> SUFFICES ASSUME Alive', ~Doomed' PROVE PacketInv'
      BY DEF PacketInv
    <3>1. /\ Sender = "dev" /\ Receiver = "host" /\ Sender' = "dev" /\ Receiver' = "host"
          /\ pc["host"] # "store" /\ "host" \in Side
      BY <1>1, <2>4, SidesStay, SidesAre DEF OpenInv, Sender, Receiver, Peer
    <3>2. Alive /\ ~Doomed /\ Taken = pos["host"] /\ Taken' = pos["host"]
      BY <1>1, <1>3, <3>1 DEF Alive, Doomed, Taken
    <3>3. /\ pos["dev"] <= Taken /\ Taken <= pos["dev"] + 1
          /\ InOrder(chan["host"], Taken, pos["dev"])
      BY <3>1, <3>2 DEF PacketInv
    <3>4. Taken \in Nat /\ pos["dev"] \in Nat
      BY <3>2, BoundsAreNat, SidesAre DEF TypeInv, FileTyped, Side
    <3>5. InOrder(chan'["host"], Taken, pos["dev"])
      BY <2>1, <3>1, <3>3, <3>4, MovesInOrder
    <3>6. OneAck(chan'["dev"], Taken - pos["dev"])
      <4>1. chan["dev"] \in Seq(Item) /\ chan'["dev"] = Tail(chan["dev"]) /\ FirstAckOnly(chan["dev"])
        BY <1>1, <1>3, RestIs, SidesAre DEF TypeInv, LineTyped, OpenInv, FirstAckOnly
      <4>2. \A i \in 1..Len(chan'["dev"]) : chan'["dev"][i].k # "ack"
        BY <1>1, <4>1, FirstAckKept
      <4> QED  BY <4>2 DEF OneAck
    <3> QED  BY <1>1, <1>3, <3>1, <3>2, <3>3, <3>5, <3>6 DEF PacketInv
  <2> QED  BY <2>3, <2>4
<1> QED  BY <1>2, <1>3, DevGoIs

LEMMA DevReadFailsInOrder ==
    ASSUME TypeInv, PacketInv, DevReadFails PROVE PacketInv'
<1> SUFFICES ASSUME Alive', ~Doomed' PROVE PacketInv'
  BY DEF PacketInv
<1>1. /\ Sender = "dev" /\ pc'["dev"] = "repl" /\ pc'["host"] = pc["host"] /\ UNCHANGED <<op, pos, held>>
      /\ chan'["host"] = Append(Append(chan["host"], Byte("can")), Byte("text_error"))
  BY DevReadFailsIs DEF DevReadFails
<1>2. Sender' = "dev" /\ Receiver = "host" /\ Receiver' = "host" /\ "host" \in Side /\ "dev" \in Side
  BY <1>1, SidesStay, SidesAre
<1>3. Alive /\ ~Doomed /\ Taken' = Taken
  BY <1>1, <1>2 DEF Alive, Doomed, Taken, InTurn
<1>4. /\ pos["dev"] <= Taken /\ Taken <= pos["dev"] + 1
      /\ InOrder(chan["host"], Taken, pos["dev"])
      /\ pc["host"] = "store" => held = At(pos["host"]) /\ pos["host"] < Chunks
  BY <1>1, <1>2, <1>3 DEF PacketInv
<1>5. Taken \in Nat /\ pos["dev"] \in Nat /\ chan["host"] \in Seq(Item)
  BY <1>2, BoundsAreNat DEF TypeInv, FileTyped, LineTyped, Taken
<1>6. InOrder(chan'["host"], Taken, pos["dev"])
  <2> DEFINE a == Append(chan["host"], Byte("can"))
  <2>1. a \in Seq(Item) /\ InOrder(a, Taken, pos["dev"])
    BY <1>4, <1>5, TextsAreItems, InOrderAppend, AppendHas DEF Sound
  <2> HIDE DEF a
  <2>2. InOrder(Append(a, Byte("text_error")), Taken, pos["dev"])
    BY <1>5, <2>1, TextsAreItems, InOrderAppend DEF Sound
  <2> QED  BY <1>1, <2>2 DEF a
<1> QED  BY <1>1, <1>2, <1>3, <1>4, <1>6 DEF PacketInv

LEMMA NextInOrder ==
    ASSUME "header" \notin seen', TypeInv, OpenInv, PacketInv, [Next]_vars PROVE PacketInv'
<1>1. CASE HostCommand
  <2>1. /\ UNCHANGED <<op, pos, held, verdict>> /\ pc["host"] = "start" /\ pc'["host"] = "ready"
        /\ pc'["dev"] = pc["dev"] /\ Puts("host", Byte("cmd"), chan["host"])
    BY <1>1, HostCommandIs DEF HostCommand
  <2>2. Moves("dev", "pkt") /\ Moves("dev", "ack")
    BY <2>1, PutsMoves, TextsAreItems, SidesAre
  <2>3. Moves("host", "pkt") /\ Moves("host", "ack")
    BY <2>1 DEF Puts, Moves
  <2>4. pc'[Sender] \in {"send", "answer"} => pc[Sender] \in {"send", "answer"} /\ Moves(Sender, "ack")
    BY <2>1, <2>2, <2>3, SidesAre DEF Side
  <2> QED  BY <2>1, <2>2, <2>3, <2>4, OpeningInOrder, SidesAre
<1>2. CASE HostReadyTimeout \/ HostFinal \/ HostFinalTimeout
  <2>1. /\ UNCHANGED <<op, pos, held>> /\ verdict'["dev"] = verdict["dev"]
        /\ pc["host"] \in {"ready", "final"} /\ pc'["host"] \in {"final", "done"}
        /\ pc'["dev"] = pc["dev"] /\ (Reads("host") \/ chan' = chan)
    BY <1>2, HostReadyTimeoutIs, HostFinalIs, HostFinalTimeoutIs DEF HostReadyTimeout
  <2>2. CASE Receiver = "host"
    <3>1. ~Alive'
      BY <2>1, <2>2, SidesStay DEF Alive
    <3> QED  BY <3>1 DEF PacketInv
  <2>3. CASE Receiver = "dev"
    <3>1. Sender = "host" /\ Receiver' = "dev"
      BY <2>1, <2>3, SidesStay, SidesAre DEF Side
    <3>2. Alive' => Alive
      BY <2>1, <2>3, <3>1 DEF Alive
    <3>3. Moves("dev", "pkt")
      <4>1. CASE Reads("host")
        BY <4>1, ReadsMoves, SidesAre
      <4>2. CASE chan' = chan
        BY <4>2 DEF Moves
      <4> QED  BY <2>1, <4>1, <4>2
    <3> QED  BY <2>1, <2>3, <3>1, <3>2, <3>3, StaysInOrder
  <2> QED  BY <2>2, <2>3, SidesAre DEF Side
<1>3. CASE DevOpens
  <2>1. pc["dev"] = "repl" /\ chan["dev"] # << >> /\ UNCHANGED <<op, pos, held>>
    BY <1>3 DEF DevOpens
  <2>2. CASE /\ Puts("dev", Byte("ready"), Tail(chan["dev"]))
             /\ pc'["dev"] = "go" /\ pc'["host"] = pc["host"] /\ verdict' = verdict
    <3>1. Moves("host", "pkt") /\ Moves("host", "ack")
      BY <2>2, PutsMoves, TextsAreItems, SidesAre
    <3>2. Moves("dev", "pkt") /\ Moves("dev", "ack")
      BY <2>1, <2>2 DEF Puts, Moves
    <3>3. pc'[Sender] \in {"send", "answer"} => pc[Sender] \in {"send", "answer"} /\ Moves(Sender, "ack")
      BY <2>2, <3>1, <3>2, SidesAre DEF Side
    <3> QED  BY <2>1, <2>2, <3>1, <3>2, <3>3, OpeningInOrder, SidesAre
  <2> QED  BY <1>3, <2>2, DevOpensIs, StopsInOrder, SidesAre
<1>4. CASE DevReadsJunk
  <2>1. UNCHANGED <<op, pc, pos, held, verdict>> /\ Reads("dev")
    BY <1>4, DevReadsJunkIs
  <2>2. \A k : Moves("dev", k) /\ Moves("host", k)
    BY <2>1, ReadsMoves, SidesAre
  <2>3. Moves(Receiver, "pkt") /\ Moves(Sender, "ack") /\ (Alive' => Alive)
    BY <2>1, <2>2, SidesStay, SidesAre DEF Alive, Side
  <2> QED  BY <2>1, <2>3, StaysInOrder
<1>5. CASE \E s \in Side : Sends(s) \/ Receives(s)
  BY <1>5, SendsInOrder, ReceivesInOrder
<1>6. CASE HostReady \/ DevGo \/ DevGoTimeout \/ DevReadFails
  BY <1>6, HostReadyInOrder, DevGoInOrder, DevGoTimeoutIs, StopsInOrder, DevReadFailsInOrder, SidesAre
<1>7. CASE UNCHANGED vars
  <2>1. UNCHANGED <<op, pc, pos, held, verdict, chan>>
    BY <1>7 DEF vars, ends
  <2>2. Moves(Receiver, "pkt") /\ Moves(Sender, "ack") /\ (Alive' => Alive)
    BY <2>1, SidesStay DEF Moves, Alive
  <2> QED  BY <2>1, <2>2, StaysInOrder
<1> QED  BY <1>1, <1>2, <1>3, <1>4, <1>5, <1>6, <1>7, SidesAre DEF Next, HostNext, DevNext

----------------------------------------------------------------------------
(* The file.                                                               *)

\* What is stored is the beginning of the file, in order.
FileInv == \A i \in 1..Len(file) : file[i] = i

\* A step stores the next chunk, or it lets the file be.
LEMMA StoresNext ==
    ASSUME TypeInv, EndInv, PacketInv, [Next]_vars
    PROVE  \/ file' = file
           \/ /\ file' = Append(file, pos[Receiver] + 1) /\ pos[Receiver] + 1 \in 1..Chunks
              /\ verdict'["host"] = verdict["host"] /\ verdict["host"] # "ok"
<1>1. ASSUME NEW s \in Side, StoreChunk(s), file' # file
      PROVE  /\ file' = Append(file, pos[Receiver] + 1) /\ pos[Receiver] + 1 \in 1..Chunks
             /\ verdict'["host"] = verdict["host"] /\ verdict["host"] # "ok"
  <2>1. \A how : EndsWell("dev", how) => file' = file
    BY DEF EndsWell, Stops
  <2>2. /\ s = Receiver /\ pc[s] = "store" /\ held.chunk # 0 /\ InTurn(s) /\ pos[s] < Chunks
        /\ file' = Append(file, held.chunk) /\ verdict' = verdict
    BY <1>1, <2>1, StoreChunkIs
  <2>3. Alive /\ ~Doomed
    BY <2>2, SidesAre DEF Alive, Doomed, EndInv, Side
  <2>4. pos[Receiver] \in 0..Chunks /\ held = At(pos[Receiver])
    BY <2>2, <2>3, SidesAre DEF PacketInv, TypeInv, FileTyped
  <2>5. held.chunk = pos[Receiver] + 1
    BY <2>2, <2>4, AtIs
  <2>6. op \in {"PU", "GT"}
    BY BoundsAreNat DEF TypeInv
  <2>7. verdict["host"] # "ok"
    BY <2>2, <2>6, SidesAre DEF EndInv
  <2> QED  BY <2>2, <2>4, <2>5, <2>7, BoundsAreNat
<1>2. ASSUME NEW s \in Side, Sends(s) PROVE file' = file
  BY <1>2 DEF Sends, SendPacket, SenderGivesUp, AckedChunk, AckedEnd, Refused, Cancelled, AnswerTimeout
<1>3. ASSUME NEW s \in Side, Receives(s), ~StoreChunk(s) PROVE file' = file
  BY <1>3 DEF Receives, TakePacket, NakPacket, StartPartial, TakeCancel, SkipToSoh, FillPartial,
         ReceiveTimeout, ReceiverGivesUp, EndOfFile, WrongTurn, Overflow
<1>4. CASE HostCommand \/ HostReady \/ HostReadyTimeout \/ HostFinal \/ HostFinalTimeout
           \/ DevOpens \/ DevGo \/ DevGoTimeout \/ DevReadFails \/ DevReadsJunk
  BY <1>4 DEF HostCommand, HostReady, HostReadyTimeout, HostFinal, HostFinalTimeout,
         DevOpens, DevGo, DevGoTimeout, DevReadFails, DevReadsJunk
<1>5. CASE UNCHANGED vars
  BY <1>5 DEF vars, ends
<1> QED  BY <1>1, <1>2, <1>3, <1>4, <1>5, SidesAre DEF Next, HostNext, DevNext

LEMMA FileInvKept ==
    ASSUME TypeInv, EndInv, PacketInv, FileInv, [Next]_vars PROVE FileInv'
<1>1. CASE file' = file
  BY <1>1 DEF FileInv
<1>2. CASE file' = Append(file, pos[Receiver] + 1) /\ pos[Receiver] + 1 \in 1..Chunks
  <2> DEFINE c == pos[Receiver] + 1
  <2>1. file \in Seq(1..Chunks) /\ c = Len(file) + 1 /\ file' = Append(file, c) /\ c \in 1..Chunks
    BY <1>2 DEF TypeInv, FileTyped
  <2> HIDE DEF c
  <2>2. /\ Len(file') = Len(file) + 1 /\ Len(file) \in Nat /\ file'[Len(file) + 1] = c
        /\ \A i \in 1..Len(file) : file'[i] = file[i]
    BY <2>1, AppendProperties
  <2> QED  BY <2>1, <2>2 DEF FileInv
<1> QED  BY <1>1, <1>2, StoresNext

\* The host revises nothing that it has said.
LEMMA HostSaysOnce ==
    ASSUME TypeInv, EndInv, [Next]_vars, verdict'["host"] # verdict["host"]
    PROVE  verdict["host"] = "none" /\ verdict'["host"] \in {"ok", "fail"} /\ file' = file
<1>1. ASSUME NEW s \in Side, NEW how, EndsWell(s, how), verdict'["host"] # verdict["host"]
      PROVE  verdict["host"] = "none" /\ verdict'["host"] = "fail" /\ file' = file
  <2>1. Stops(s, how) /\ file' = file
    BY <1>1 DEF EndsWell, Stops
  <2>2. verdict'[s] = (IF s = "dev" THEN how ELSE "fail") /\ verdict'[Peer(s)] = verdict[Peer(s)]
    BY <2>1, StopsIs
  <2>3. s = "host"
    BY <1>1, <2>2, SidesAre DEF Side
  <2> QED  BY <1>1, <2>1, <2>2, <2>3 DEF EndsWell, EndInv
<1>2. ASSUME NEW s \in Side, Sends(s)
      PROVE  verdict["host"] = "none" /\ verdict'["host"] \in {"ok", "fail"} /\ file' = file
  <2>1. CASE SendPacket(s) \/ AckedChunk(s) \/ Refused(s) \/ AnswerTimeout(s)
    BY <2>1 DEF SendPacket, AckedChunk, Refused, AnswerTimeout
  <2>2. CASE AckedEnd(s) \/ SenderGivesUp(s) \/ Cancelled(s)
    BY <1>1, <2>2, AckedEndIs, SenderGivesUpIs, CancelledIs
  <2> QED  BY <1>2, <2>1, <2>2 DEF Sends
<1>3. ASSUME NEW s \in Side, Receives(s)
      PROVE  verdict["host"] = "none" /\ verdict'["host"] \in {"ok", "fail"} /\ file' = file
  <2>1. CASE TakePacket(s) \/ NakPacket(s) \/ StartPartial(s) \/ SkipToSoh(s) \/ FillPartial(s)
             \/ ReceiveTimeout(s)
    BY <2>1 DEF TakePacket, NakPacket, StartPartial, SkipToSoh, FillPartial, ReceiveTimeout
  <2>2. CASE TakeCancel(s) \/ ReceiverGivesUp(s) \/ WrongTurn(s) \/ Overflow(s)
    BY <1>1, <2>2, TakeCancelIs, ReceiverGivesUpIs, WrongTurnIs, OverflowIs
  <2>3. CASE EndOfFile(s) \/ StoreChunk(s)
    BY <1>1, <2>3, EndOfFileIs, StoreChunkIs, SidesAre
  <2> QED  BY <1>3, <2>1, <2>2, <2>3 DEF Receives
<1>4. CASE HostReadyTimeout
  BY <1>4, HostReadyTimeoutIs DEF HostReadyTimeout, EndInv
<1>5. CASE HostFinal \/ HostFinalTimeout
  BY <1>5, HostFinalIs, HostFinalTimeoutIs DEF EndInv
<1>6. CASE DevOpens \/ DevGo \/ DevGoTimeout
  BY <1>1, <1>6, DevOpensIs, DevGoIs, DevGoTimeoutIs, SidesAre
<1>7. CASE HostCommand \/ HostReady \/ DevReadFails \/ DevReadsJunk
  BY <1>7, DevReadFailsIs DEF HostCommand, HostReady, DevReadsJunk
<1>8. ~UNCHANGED vars
  BY DEF vars, ends
<1> QED  BY <1>2, <1>3, <1>4, <1>5, <1>6, <1>7, <1>8, SidesAre DEF Next, HostNext, DevNext

LEMMA SeenGrows == ASSUME TypeInv, [Next]_vars PROVE seen \subseteq seen'
<1>1. ASSUME NEW s \in Side, NEW how, EndsWell(s, how) PROVE seen \subseteq seen'
  BY <1>1, StopsIs DEF EndsWell
<1>2. ASSUME NEW s \in Side, Sends(s) PROVE seen \subseteq seen'
  <2>1. CASE SendPacket(s) \/ AckedChunk(s) \/ Refused(s) \/ AnswerTimeout(s)
    BY <2>1, SendPacketIs, AckedChunkIs, RefusedIs, AnswerTimeoutIs DEF Puts, Reads
  <2>2. CASE AckedEnd(s) \/ SenderGivesUp(s) \/ Cancelled(s)
    BY <1>1, <2>2, AckedEndIs, SenderGivesUpIs, CancelledIs DEF Reads
  <2> QED  BY <1>2, <2>1, <2>2 DEF Sends
<1>3. ASSUME NEW s \in Side, Receives(s) PROVE seen \subseteq seen'
  <2>1. CASE TakePacket(s) \/ NakPacket(s) \/ StartPartial(s) \/ SkipToSoh(s)
    BY <2>1, TakePacketIs, NakPacketIs, StartPartialIs, SkipToSohIs DEF Puts, Naks, Drops, Reads
  <2>2. CASE FillPartial(s) \/ ReceiveTimeout(s)
    BY <2>2, FillPartialIs, ReceiveTimeoutIs DEF Puts, Naks, Drops, Reads
  <2>3. CASE TakeCancel(s) \/ ReceiverGivesUp(s) \/ WrongTurn(s) \/ Overflow(s)
    BY <1>1, <2>3, TakeCancelIs, ReceiverGivesUpIs, WrongTurnIs, OverflowIs
  <2>4. CASE EndOfFile(s) \/ StoreChunk(s)
    BY <1>1, <2>4, EndOfFileIs, StoreChunkIs, SidesAre
  <2> QED  BY <1>3, <2>1, <2>2, <2>3, <2>4 DEF Receives
<1>4. CASE HostCommand \/ HostReady \/ HostReadyTimeout \/ HostFinal \/ HostFinalTimeout
  BY <1>4, HostCommandIs, HostReadyIs, HostReadyTimeoutIs, HostFinalIs, HostFinalTimeoutIs DEF Puts, Reads
<1>5. CASE DevOpens \/ DevGo \/ DevGoTimeout \/ DevReadFails \/ DevReadsJunk
  BY <1>1, <1>5, DevOpensIs, DevGoIs, DevGoTimeoutIs, DevReadFailsIs, DevReadsJunkIs, SidesAre
     DEF Puts, Reads
<1>6. CASE UNCHANGED vars
  BY <1>6 DEF vars
<1> QED  BY <1>2, <1>3, <1>4, <1>5, <1>6, SidesAre DEF Next, HostNext, DevNext

\* While the line has damaged no header, PU and GT say "done" only of a file that
\* is whole, in order and left alone afterwards, whatever else goes wrong on the
\* line, with the clocks or in the file system.  (The CRC covers the payload
\* alone: after a damaged header a late answer can make a file of chunks 1, 1, 3.)
THEOREM FileDeliversWhole == Spec => DeliversWhole
<1> DEFINE InTurnInv == "header" \notin seen => PacketInv /\ FileInv
           Inv == TypeInv /\ EndInv /\ OpenInv /\ InTurnInv
           Honest == Delivery!DeliveryNext \/ "header" \in seen'
<1>1. Init => Inv
  <2>1. Init => FileInv
    BY DEF Init, FileInv
  <2> QED  BY <2>1, InitTyped, InitEnded, InitOpen, InitInOrder
<1>2. Inv /\ [Next]_vars => Inv'
  <2> SUFFICES ASSUME Inv, [Next]_vars PROVE Inv'
    OBVIOUS
  <2>1. TypeInv' /\ EndInv' /\ OpenInv'
    BY NextTyped, NextEnded, NextOpen
  <2>2. "header" \notin seen' => PacketInv /\ FileInv
    BY SeenGrows
  <2>3. "header" \notin seen' => PacketInv' /\ FileInv'
    BY <2>2, NextInOrder, FileInvKept
  <2> QED  BY <2>1, <2>3
<1>3. Init => Delivery!DeliveryInit
  BY SidesAre DEF Init, Delivery!DeliveryInit
<1>4. Inv /\ Inv' /\ [Next]_vars => [Honest]_Delivery!deliveryVars
  <2> SUFFICES ASSUME Inv, Inv', [Next]_vars, "header" \notin seen'
               PROVE  [Delivery!DeliveryNext]_Delivery!deliveryVars
    OBVIOUS
  <2>0. PacketInv /\ FileInv'
    BY SeenGrows
  <2>1. CASE verdict'["host"] = verdict["host"] /\ file' = file
    BY <2>1 DEF Delivery!deliveryVars
  <2>2. CASE verdict'["host"] = verdict["host"] /\ file' # file
    <3>1. /\ file' = Append(file, pos[Receiver] + 1) /\ pos[Receiver] + 1 \in 1..Chunks
          /\ verdict["host"] # "ok"
      BY <2>0, <2>2, StoresNext
    <3>2. Delivery!Store(pos[Receiver] + 1)
      BY <2>2, <3>1 DEF Delivery!Store
    <3> QED  BY <3>1, <3>2 DEF Delivery!DeliveryNext
  <2>3. CASE verdict'["host"] # verdict["host"]
    <3>1. verdict["host"] = "none" /\ verdict'["host"] \in {"ok", "fail"} /\ file' = file
      BY <2>3, HostSaysOnce
    <3>2. CASE verdict'["host"] = "fail"
      BY <3>1, <3>2 DEF Delivery!DeliveryNext, Delivery!SayFailed
    <3>3. CASE verdict'["host"] = "ok"
      <4>1. op' \in {"PU", "GT"} /\ Receiver' = IF op' = "PU" THEN "dev" ELSE "host"
        BY BoundsAreNat DEF TypeInv, Receiver, Sender, Peer
      <4>2. pos'[Receiver'] = Chunks
        BY <3>3, <4>1 DEF EndInv
      <4>3. file' \in Seq(1..Chunks) /\ Len(file') = Chunks /\ \A i \in 1..Chunks : file'[i] = i
        BY <2>0, <4>2 DEF TypeInv, FileTyped, FileInv
      <4>4. file = Source
        BY <3>1, <4>3 DEF Source
      <4> QED  BY <3>1, <3>3, <4>4 DEF Delivery!DeliveryNext, Delivery!SayDone
    <3> QED  BY <3>1, <3>2, <3>3
  <2> QED  BY <2>1, <2>2, <2>3
<1> HIDE DEF Inv
<1> QED  BY <1>1, <1>2, <1>3, <1>4, PTL DEF Spec, DeliversWhole

----------------------------------------------------------------------------
(* A PU in lock step.                                                      *)

\* Nothing is late, and the host has not given up.
LockOn == op = "PU" /\ "late" \notin seen /\ verdict["host"] \in {"none", "ok"}

Load == Len(chan["dev"]) + Len(chan["host"])

\* Until the device has ended: it receives; junk has left its command line empty
\* again; and once all chunks are acknowledged only the end is on its way.
InShell ==
    verdict["dev"] = "none" =>
        /\ pc["dev"] \notin {"send", "answer"}
        /\ pc["host"] = "start" => ~junk
        /\ junk => chan["dev"] = << >> /\ pc["dev"] = "repl"
        /\ pos["host"] = Chunks =>
              \A i \in 1..Len(chan["dev"]) : chan["dev"][i].k = "pkt" => chan["dev"][i].chunk = 0

\* The device waits for GO: the GO and one packet may be on their way.
AtGo ==
    pc["dev"] \in {"go", "go2"} =>
        /\ pc["host"] \in {"ready", "send", "answer"}
        /\ pc["host"] = "send" => chan["host"] = << >> /\ Len(chan["dev"]) <= 1
        /\ pc["host"] = "answer" => chan["host"] = << >> /\ Len(chan["dev"]) <= 2
        /\ pc["dev"] = "go2" => pc["host"] # "ready" /\ ~Has("dev", "ack")

\* In the transfer one item is on its way, either way; and the host believes in
\* the end of it only while the device holds the packet that says so.
InTransfer ==
    pc["dev"] \in {"recv", "mid", "store"} =>
        /\ pc["host"] \in {"send", "answer", "final"} /\ Load <= 1
        /\ pc["host"] \in {"send", "final"} => Load = 0
        /\ \A i \in 1..Len(chan["host"]) : ~Multibyte(chan["host"][i])
        /\ pc["host"] = "final" \/ (pos["host"] = Chunks /\ Has("host", "ack")) =>
              pc["dev"] = "store" /\ held.chunk = 0

\* The device has confirmed: the host reads its last ack first, or not at all.
Confirmed ==
    verdict["dev"] = "ok" =>
        /\ pc["host"] \in {"send", "answer", "final", "done"}
        /\ FirstAckOnly(chan["host"])
        /\ pc["host"] \in {"final", "done"} \/ Has("host", "ack") =>
              pc["host"] # "send" /\ chan["dev"] = << >> /\ ~junk

Lock == LockOn => InShell /\ AtGo /\ InTransfer /\ Confirmed

LEMMA Sizes ==
    ASSUME TypeInv, NEW s \in Side
    PROVE  /\ Len(chan[s]) \in Nat /\ (Len(chan[s]) = 0 <=> chan[s] = << >>)
           /\ Len(chan[s]) = 0 => \A k : ~Has(s, k)
<1>1. chan[s] \in Seq(Item)
  BY DEF TypeInv, LineTyped
<1> QED  BY <1>1, EmptySeq, LenProperties DEF Has

LEMMA SizesAfter ==
    ASSUME TypeInv', NEW s \in Side
    PROVE  /\ Len(chan'[s]) \in Nat /\ (Len(chan'[s]) = 0 <=> chan'[s] = << >>)
           /\ Len(chan'[s]) = 0 => \A k : ~Has(s, k)'
<1>1. chan'[s] \in Seq(Item)
  BY DEF TypeInv, LineTyped
<1> QED  BY <1>1, EmptySeq, LenProperties DEF Has

LEMMA PutsSize ==
    ASSUME TypeInv, NEW s \in Side, NEW m, NEW q, Puts(s, m, q)
    PROVE  Len(chan'[Peer(s)]) <= Len(chan[Peer(s)]) + 1 /\ chan'[s] = q
<1>1. chan[Peer(s)] \in Seq(Item) /\ Len(chan[Peer(s)]) \in Nat
  BY Sizes DEF TypeInv, LineTyped, Peer, Side
<1>2. CASE chan'[Peer(s)] = chan[Peer(s)]
  BY <1>1, <1>2 DEF Puts
<1>3. ASSUME NEW x \in Item, chan'[Peer(s)] = Append(chan[Peer(s)], x)
      PROVE  Len(chan'[Peer(s)]) <= Len(chan[Peer(s)]) + 1
  BY <1>1, <1>3, AppendHas
<1> QED  BY <1>2, <1>3 DEF Puts

LEMMA ReadsSize ==
    ASSUME TypeInv, NEW s \in Side, Reads(s)
    PROVE  /\ chan[s] # << >> /\ chan'[s] = Tail(chan[s]) /\ chan'[Peer(s)] = chan[Peer(s)]
           /\ Len(chan[s]) \in Nat \ {0} /\ Len(chan'[s]) = Len(chan[s]) - 1
  BY RestIs DEF Reads, TypeInv, LineTyped

LEMMA TailSize ==
    ASSUME TypeInv, NEW s \in Side, chan[s] # << >>
    PROVE  Len(chan[s]) \in Nat \ {0} /\ Len(Tail(chan[s])) = Len(chan[s]) - 1
  BY RestIs DEF TypeInv, LineTyped

\* A property of the items that a step adds, too, holds of all that are there.
LEMMA EveryKept ==
    ASSUME TypeInv, NEW s \in Side, NEW P,
           \A i \in 1..Len(chan[s]) : chan[s][i] \in P,
           \/ chan'[s] = chan[s] \/ chan'[s] = << >>
           \/ chan[s] # << >> /\ chan'[s] = Tail(chan[s])
           \/ \E x \in P : x \in Item /\ chan'[s] = Append(chan[s], x)
    PROVE  \A i \in 1..Len(chan'[s]) : chan'[s][i] \in P
<1>1. chan[s] \in Seq(Item)
  BY DEF TypeInv, LineTyped
<1>2. CASE chan[s] # << >> /\ chan'[s] = Tail(chan[s])
  BY <1>2, RestIs DEF TypeInv, LineTyped
<1>3. CASE \E x \in P : x \in Item /\ chan'[s] = Append(chan[s], x)
  <2>1. PICK x \in P : x \in Item /\ chan'[s] = Append(chan[s], x)
    BY <1>3
  <2>2. /\ Len(chan'[s]) = Len(chan[s]) + 1 /\ Len(chan[s]) \in Nat
        /\ \A i \in 1..Len(chan[s]) : chan'[s][i] = chan[s][i]
        /\ chan'[s][Len(chan[s]) + 1] = x
    BY <1>1, <2>1, AppendHas
  <2> QED  BY <2>1, <2>2
<1> QED  BY <1>2, <1>3

LEMMA LockBefore ==
    ASSUME TypeInv, EndInv, [Next]_vars, LockOn' PROVE LockOn
<1>1. op' = op
  <2>1. ASSUME NEW s \in Side, Sends(s) PROVE op' = op
    BY <2>1 DEF Sends, SendPacket, SenderGivesUp, AckedChunk, AckedEnd, Refused, Cancelled, AnswerTimeout
  <2>2. ASSUME NEW s \in Side, Receives(s) PROVE op' = op
    BY <2>2 DEF Receives, TakePacket, NakPacket, StartPartial, TakeCancel, SkipToSoh, FillPartial,
           ReceiveTimeout, ReceiverGivesUp, EndOfFile, WrongTurn, Overflow, StoreChunk
  <2>3. CASE HostCommand \/ HostReady \/ HostReadyTimeout \/ HostFinal \/ HostFinalTimeout
             \/ DevOpens \/ DevGo \/ DevGoTimeout \/ DevReadFails \/ DevReadsJunk
    BY <2>3 DEF HostCommand, HostReady, HostReadyTimeout, HostFinal, HostFinalTimeout,
           DevOpens, DevGo, DevGoTimeout, DevReadFails, DevReadsJunk
  <2>4. CASE UNCHANGED vars
    BY <2>4 DEF vars, ends
  <2> QED  BY <2>1, <2>2, <2>3, <2>4, SidesAre DEF Next, HostNext, DevNext
<1>2. verdict'["host"] = verdict["host"] \/ verdict["host"] = "none"
  BY HostSaysOnce
<1> QED  BY <1>1, <1>2, SeenGrows DEF LockOn

\* The state before a step of a PU in lock step.
LockedState == TypeInv /\ EndInv /\ OpenInv /\ Lock /\ LockOn

LEMMA LockedIs ==
    ASSUME LockedState
    PROVE  /\ InShell /\ AtGo /\ InTransfer /\ Confirmed /\ TypeInv /\ EndInv /\ OpenInv
           /\ op = "PU" /\ Sender = "host" /\ Receiver = "dev" /\ verdict["host"] \in {"none", "ok"}
           /\ Len(chan["dev"]) \in Nat /\ Len(chan["host"]) \in Nat
           /\ Len(chan["dev"]) = 0 => chan["dev"] = << >> /\ \A k : ~Has("dev", k)
           /\ Len(chan["host"]) = 0 => chan["host"] = << >> /\ \A k : ~Has("host", k)
           /\ pc["dev"] # "repl" => verdict["dev"] = "none"
           /\ verdict["host"] = "ok" => verdict["dev"] = "ok"
  BY Sizes, SidesAre DEF LockedState, Lock, LockOn, EndInv

\* What Load says of the two channels.
LEMMA LoadIs ==
    ASSUME TypeInv
    PROVE  /\ Load \in Nat
           /\ Load = 0 <=> chan["dev"] = << >> /\ chan["host"] = << >>
           /\ Load <= 1 => /\ chan["dev"] = << >> \/ chan["host"] = << >>
                           /\ Len(chan["dev"]) <= 1 /\ Len(chan["host"]) <= 1
                           /\ FirstAckOnly(chan["dev"]) /\ FirstAckOnly(chan["host"])
<1> DEFINE d == Len(chan["dev"])
           h == Len(chan["host"])
<1>1. d \in Nat /\ h \in Nat /\ (d = 0 <=> chan["dev"] = << >>) /\ (h = 0 <=> chan["host"] = << >>)
  BY Sizes, SidesAre
<1>2. Load = d + h /\ (d <= 1 => FirstAckOnly(chan["dev"])) /\ (h <= 1 => FirstAckOnly(chan["host"]))
  <2>1. ASSUME NEW q, Len(q) \in Nat, Len(q) <= 1 PROVE FirstAckOnly(q)
    BY <2>1 DEF FirstAckOnly
  <2> QED  BY <1>1, <2>1 DEF Load
<1> HIDE DEF d, h
<1>3. d + h \in Nat /\ (d + h = 0 <=> d = 0 /\ h = 0) /\ (d + h <= 1 => (d = 0 \/ h = 0) /\ d <= 1 /\ h <= 1)
  BY <1>1
<1> QED  BY <1>1, <1>2, <1>3 DEF d, h

\* The same of the next state, and when it is small.
LEMMA LoadAfter ==
    ASSUME TypeInv'
    PROVE  /\ Load' = 0 <=> chan'["dev"] = << >> /\ chan'["host"] = << >>
           /\ chan'["dev"] = << >> /\ Len(chan'["host"]) <= 1 => Load' <= 1
           /\ chan'["host"] = << >> /\ Len(chan'["dev"]) <= 1 => Load' <= 1
<1> DEFINE d == Len(chan'["dev"])
           h == Len(chan'["host"])
<1>1. d \in Nat /\ h \in Nat /\ (d = 0 <=> chan'["dev"] = << >>) /\ (h = 0 <=> chan'["host"] = << >>)
  BY SizesAfter, SidesAre
<1>2. Load' = d + h
  BY DEF Load
<1> HIDE DEF d, h
<1>3. (d + h = 0 <=> d = 0 /\ h = 0) /\ (d = 0 /\ h <= 1 => d + h <= 1) /\ (h = 0 /\ d <= 1 => d + h <= 1)
  BY <1>1
<1> QED  BY <1>1, <1>2, <1>3 DEF d, h

LEMMA HostCommandLock ==
    ASSUME LockedState, HostCommand PROVE Lock'
<1>1. /\ pc["host"] = "start" /\ pc'["host"] = "ready" /\ pc'["dev"] = pc["dev"]
      /\ UNCHANGED <<op, pos, held, verdict, junk>> /\ Puts("host", Byte("cmd"), chan["host"])
  BY HostCommandIs, LockedIs DEF HostCommand
<1>2. /\ pc["dev"] = "repl" /\ verdict["dev"] = "none" /\ ~junk /\ chan["dev"] = << >>
  BY <1>1, LockedIs DEF OpenInv, InShell
<1>3. Gains("dev", {"cmd", "noise"}) /\ \A k : ~Has("dev", k)
  BY <1>1, <1>2, PutsGains, TextsAreItems, SidesAre, LockedIs, Sizes
<1>4. ~Has("dev", "pkt")'
  BY <1>3 DEF Gains
<1>5. \A i \in 1..Len(chan'["dev"]) : chan'["dev"][i].k # "pkt"
  BY <1>4 DEF Has
<1> QED  BY <1>1, <1>2, <1>5 DEF Lock, InShell, AtGo, InTransfer, Confirmed

LEMMA HostReadyLock ==
    ASSUME LockedState, TypeInv', HostReady PROVE Lock'
<1>1. /\ pc["host"] = "ready" /\ pc'["dev"] = pc["dev"] /\ chan["host"] # << >>
      /\ UNCHANGED <<op, pos, held, verdict, junk>>
  BY HostReadyIs, LockedIs DEF HostReady
<1>2. /\ verdict["dev"] # "ok" /\ pc["dev"] \notin {"recv", "mid", "store", "go2"}
      /\ pc["dev"] = "go" \/ verdict["dev"] # "none"
      /\ pc["dev"] = "go" => ~junk /\ chan["dev"] = << >>
  BY <1>1, LockedIs DEF OpenInv, InShell, AtGo, InTransfer, Confirmed
<1>3. CASE pc'["host"] = "send" /\ Puts("host", Byte("ack"), << >>)
  <2>1. chan'["host"] = << >> /\ Len(chan'["dev"]) <= Len(chan["dev"]) + 1
    BY <1>3, PutsSize, SidesAre, LockedIs
  <2>2. Gains("dev", {"ack", "noise"})
    BY <1>3, PutsGains, TextsAreItems, SidesAre, LockedIs
  <2>3. pc["dev"] = "go" => ~Has("dev", "pkt")' /\ Len(chan'["dev"]) <= 1
    BY <1>2, <2>1, <2>2, SidesAre, LockedIs, Sizes DEF Gains
  <2>4. pc["dev"] = "go" => \A i \in 1..Len(chan'["dev"]) : chan'["dev"][i].k # "pkt"
    BY <2>3 DEF Has
  <2> QED  BY <1>1, <1>2, <1>3, <2>1, <2>3, <2>4 DEF Lock, InShell, AtGo, InTransfer, Confirmed
<1>4. CASE chan' = Rest("host") /\ pc'["host"] = pc["host"] /\ left' = left /\ seen' = seen
  <2>1. chan'["dev"] = chan["dev"]
    BY <1>1, <1>4, ReadsSize, SidesAre, LockedIs DEF Reads
  <2>2. InShell /\ AtGo
    BY LockedIs
  <2> QED  BY <1>1, <1>2, <1>4, <2>1, <2>2 DEF Lock, InShell, AtGo, InTransfer, Confirmed, Has
<1> QED  BY <1>3, <1>4, HostReadyIs, LockedIs

\* The device's own endings: a failure leaves nothing to show.
LEMMA DevStopsLock ==
    ASSUME LockedState, TypeInv', NEW how, EndsWell("dev", how) PROVE Lock'
<1>1. /\ Stops("dev", how) /\ how # "none" /\ UNCHANGED <<op, pos, held, junk>>
  BY DEF EndsWell, Stops
<1>2. /\ verdict'["dev"] = how /\ pc'["dev"] = "repl"
      /\ verdict'["host"] = verdict["host"] /\ pc'["host"] = pc["host"]
      /\ \/ chan'["host"] = chan["host"]
         \/ \E x \in Item : chan'["host"] = Append(chan["host"], x) /\ x.k # "ack"
  BY <1>1, StopsIs, SidesAre, LockedIs
<1>3. CASE how # "ok"
  BY <1>1, <1>2, <1>3 DEF Lock, InShell, AtGo, InTransfer, Confirmed
<1>4. CASE how = "ok"
  <2>1. pc["dev"] = "store" /\ held.chunk = 0 /\ chan'["dev"] = chan["dev"]
    BY <1>4, SidesAre, LockedIs DEF EndsWell
  <2>2. /\ pc["host"] \in {"send", "answer", "final"} /\ Load <= 1 /\ ~junk
        /\ pc["host"] \in {"send", "final"} => Load = 0
    BY <2>1, LockedIs DEF InTransfer, InShell
  <2>3. /\ chan["dev"] = << >> \/ chan["host"] = << >>
        /\ pc["host"] \in {"send", "final"} => chan["dev"] = << >> /\ chan["host"] = << >>
    BY <2>2, LoadIs, LockedIs
  <2>4. FirstAckOnly(chan["host"])
    BY <2>2, LoadIs, LockedIs
  <2>5. FirstAckOnly(chan'["host"])
    BY <1>2, <2>4, FirstAckKept, SidesAre, LockedIs DEF TypeInv, LineTyped
  <2>6. Has("host", "ack")' => Has("host", "ack")
    <3>1. CASE chan'["host"] = chan["host"]
      BY <3>1, GainsNone, SidesAre, LockedIs DEF Gains
    <3>2. ASSUME NEW x \in Item, chan'["host"] = Append(chan["host"], x), x.k # "ack"
          PROVE  Has("host", "ack")' => Has("host", "ack")
      BY <3>2, GainsOne, SidesAre, LockedIs DEF Gains
    <3> QED  BY <1>2, <3>1, <3>2
  <2>7. Has("host", "ack") => chan["host"] # << >>
    BY Sizes, SidesAre, LockedIs
  <2>8. pc["host"] = "final" \/ Has("host", "ack") => pc["host"] # "send" /\ chan["dev"] = << >>
    BY <2>2, <2>3, <2>7
  <2> HIDE DEF Has
  <2>9. Confirmed'
    BY <1>1, <1>2, <2>1, <2>2, <2>5, <2>6, <2>8 DEF Confirmed
  <2> QED  BY <1>2, <1>4, <2>9 DEF Lock, InShell, AtGo, InTransfer
<1> QED  BY <1>3, <1>4

LEMMA DevOpensLock ==
    ASSUME LockedState, TypeInv', DevOpens PROVE Lock'
<1>1. /\ pc["dev"] = "repl" /\ verdict["dev"] = "none" /\ chan["dev"] # << >>
      /\ UNCHANGED <<op, pos, held, junk>>
  BY DEF DevOpens
<1>2. pc["host"] = "ready" /\ ~junk /\ Len(chan["dev"]) <= 1 /\ pos' = pos
  BY <1>1, LockedIs DEF OpenInv, InShell, EndInv
<1>3. CASE /\ Puts("dev", Byte("ready"), Tail(chan["dev"]))
           /\ pc'["dev"] = "go" /\ pc'["host"] = pc["host"] /\ verdict' = verdict
  <2>1. chan'["dev"] = << >>
    BY <1>1, <1>2, <1>3, ShortTail, SidesAre, LockedIs DEF Puts
  <2>2. \A i \in 1..Len(chan'["dev"]) : chan'["dev"][i].k # "pkt"
    BY <2>1
  <2> QED  BY <1>1, <1>2, <1>3, <2>1, <2>2 DEF Lock, InShell, AtGo, InTransfer, Confirmed
<1> QED  BY <1>3, DevOpensIs, DevStopsLock, LockedIs

LEMMA DevGoLock ==
    ASSUME LockedState, TypeInv', DevGo PROVE Lock'
<1>1. /\ pc["dev"] \in {"go", "go2"} /\ chan["dev"] # << >> /\ UNCHANGED <<op, pos, held, junk>>
      /\ verdict["dev"] = "none"
  BY DevGoIs, LockedIs DEF DevGo
<1>2. CASE /\ verdict' = verdict /\ pc'["host"] = pc["host"]
           /\ chan' = Rest("dev") /\ left' = left /\ seen' = seen
           /\ \/ pc'["dev"] = "recv" /\ Head(chan["dev"]).k = "ack"
              \/ pc["dev"] = "go" /\ pc'["dev"] = "go2" /\ Head(chan["dev"]).k # "ack"
  <2>1. /\ chan'["dev"] = Tail(chan["dev"]) /\ chan'["host"] = chan["host"]
        /\ Len(chan'["dev"]) = Len(chan["dev"]) - 1 /\ Len(chan["dev"]) \in Nat \ {0}
    BY <1>1, <1>2, ReadsSize, SidesAre, LockedIs DEF Reads
  <2>2. /\ pc["host"] \in {"send", "answer"} /\ ~junk /\ chan["host"] = << >>
        /\ pc["host"] = "send" => Len(chan["dev"]) <= 1
        /\ Len(chan["dev"]) <= 2
        /\ pos["host"] = Chunks =>
              \A i \in 1..Len(chan["dev"]) : chan["dev"][i].k = "pkt" => chan["dev"][i].chunk = 0
    BY <1>1, LockedIs DEF OpenInv, AtGo, InShell
  <2>3. pos["host"] = Chunks =>
              \A i \in 1..Len(chan'["dev"]) : chan'["dev"][i].k = "pkt" => chan'["dev"][i].chunk = 0
    BY <1>1, <2>1, <2>2, RestIs, SidesAre, LockedIs DEF TypeInv, LineTyped
  <2>4. InShell'
    BY <1>1, <1>2, <2>2, <2>3 DEF InShell
  <2>5. \A k : ~Has("host", k)'
    BY <2>1, <2>2 DEF Has
  <2>6. CASE pc'["dev"] = "recv" /\ Head(chan["dev"]).k = "ack"
    <3>1. chan'["host"] = << >>
      BY <2>1, <2>2
    <3> DEFINE d == Len(chan["dev"])
    <3>2. Len(chan'["dev"]) <= 1 /\ (pc["host"] = "send" => chan'["dev"] = << >>)
      <4>1. d \in Nat \ {0} /\ d <= 2 /\ Len(chan'["dev"]) = d - 1 /\ (pc["host"] = "send" => d <= 1)
        BY <2>1, <2>2
      <4> HIDE DEF d
      <4>2. Len(chan'["dev"]) <= 1 /\ (pc["host"] = "send" => Len(chan'["dev"]) = 0)
        BY <4>1
      <4> QED  BY <4>2, SizesAfter, SidesAre
    <3>4. Load' <= 1 /\ (pc["host"] = "send" => Load' = 0)
      BY <3>1, <3>2, LoadAfter
    <3>3. InTransfer'
      BY <1>1, <1>2, <2>2, <2>5, <2>6, <3>1, <3>4 DEF InTransfer
    <3> QED  BY <1>1, <1>2, <2>4, <2>6, <3>3 DEF Lock, AtGo, Confirmed
  <2>7. CASE pc["dev"] = "go" /\ pc'["dev"] = "go2"
    <3>1. FirstAckOnly(chan["dev"]) /\ chan["dev"] \in Seq(Item)
      BY <1>1, SidesAre, LockedIs DEF OpenInv, FirstAckOnly, TypeInv, LineTyped
    <3>2. ~Has("dev", "ack")'
      BY <1>1, <2>1, <3>1, FirstAckKept DEF Has
    <3> HIDE DEF Has
    <3>3. AtGo'
      BY <1>1, <1>2, <2>1, <2>2, <2>7, <3>2 DEF AtGo
    <3> QED  BY <1>1, <1>2, <2>4, <2>7, <3>3 DEF Lock, InTransfer, Confirmed
  <2> QED  BY <1>2, <2>6, <2>7
<1> QED  BY <1>2, DevGoIs, DevStopsLock, LockedIs

LEMMA DevReadsJunkLock ==
    ASSUME LockedState, TypeInv', DevReadsJunk PROVE Lock'
<1>1. /\ pc["dev"] = "repl" /\ Reads("dev") /\ UNCHANGED <<op, pc, try, pos, held, file, verdict>>
  BY DevReadsJunkIs, LockedIs
<1>2. /\ chan["dev"] # << >> /\ chan'["dev"] = Tail(chan["dev"]) /\ chan'["host"] = chan["host"]
  BY <1>1, ReadsSize, SidesAre, LockedIs
<1>3. CASE verdict["dev"] = "none"
  <2>1. chan'["dev"] = << >> /\ pc["host"] # "start"
    BY <1>1, <1>2, <1>3, ShortTail, SidesAre, LockedIs DEF OpenInv
  <2> QED  BY <1>1, <1>3, <2>1 DEF Lock, InShell, AtGo, InTransfer, Confirmed
<1>4. CASE verdict["dev"] # "none"
  <2>1. Has("host", "ack")' <=> Has("host", "ack")
    BY <1>2 DEF Has
  <2>2. Confirmed
    BY LockedIs
  <2> HIDE DEF Has
  <2>3. Confirmed'
    BY <1>1, <1>2, <2>1, <2>2 DEF Confirmed
  <2> QED  BY <1>1, <1>4, <2>3 DEF Lock, InShell, AtGo, InTransfer
<1> QED  BY <1>3, <1>4

\* The host is in the transfer, so the device has left its command line.
LEMMA NoJunkYet ==
    ASSUME LockedState, pc["host"] \in {"send", "answer", "final"}, verdict["dev"] = "none"
    PROVE  ~junk /\ pc["dev"] \in {"go", "go2", "recv", "mid", "store"}
  BY LockedIs DEF InShell, OpenInv, TypeInv, PcTyped, DevPlaces

LEMMA SendPacketLock ==
    ASSUME LockedState, TypeInv', SendPacket("host") PROVE Lock'
<1>1. /\ pc["host"] = "send" /\ pc'["host"] = "answer" /\ pc'["dev"] = pc["dev"]
      /\ UNCHANGED <<op, pos, held, verdict, junk>>
      /\ Puts("host", At(pos["host"]), chan["host"]) /\ pos["host"] \in 0..Chunks
  BY SendPacketIs, SidesAre, LockedIs DEF TypeInv, FileTyped
<1>2. At(pos["host"]) \in Item /\ At(pos["host"]).k = "pkt" /\ (pos["host"] = Chunks => At(pos["host"]).chunk = 0)
  BY <1>1, AtIs, BoundsAreNat
<1>3. /\ chan'["host"] = chan["host"] /\ Len(chan'["dev"]) <= Len(chan["dev"]) + 1
      /\ Gains("dev", {"pkt", "part", "can"})
  BY <1>1, <1>2, PutsSize, PutsGains, SidesAre, LockedIs
<1>4. InShell'
  <2> DEFINE P == {x \in Item : x.k = "pkt" => x.chunk = 0}
  <2>1. ASSUME pos["host"] = Chunks, \A i \in 1..Len(chan["dev"]) : chan["dev"][i] \in P
        PROVE  \A i \in 1..Len(chan'["dev"]) : chan'["dev"][i] \in P
    <3>1. \/ chan'["dev"] = chan["dev"]
          \/ \E x \in P : x \in Item /\ chan'["dev"] = Append(chan["dev"], x)
      BY <1>1, <1>2, <2>1, SidesAre DEF Puts, Becomes
    <3> HIDE DEF P
    <3> QED  BY <2>1, <3>1, EveryKept, SidesAre, LockedIs
  <2>2. \A i \in 1..Len(chan["dev"]) : chan["dev"][i] \in Item
    BY LockedIs, SidesAre, ElementOfSeq DEF TypeInv, LineTyped
  <2>3. verdict["dev"] = "none" /\ pos["host"] = Chunks =>
           \A i \in 1..Len(chan["dev"]) : chan["dev"][i] \in P
    BY <2>2, LockedIs DEF InShell
  <2>4. verdict["dev"] = "none" => ~junk /\ pc["dev"] \notin {"send", "answer"}
    BY <1>1, NoJunkYet
  <2> QED  BY <1>1, <2>1, <2>3, <2>4 DEF InShell
<1>5. AtGo'
  <2>1. pc["dev"] \in {"go", "go2"} => chan["host"] = << >> /\ Len(chan'["dev"]) <= 2
    <3> DEFINE d == Len(chan["dev"])
    <3>1. d \in Nat /\ (pc["dev"] \in {"go", "go2"} => d <= 1 /\ chan["host"] = << >>)
      BY <1>1, LockedIs DEF AtGo
    <3>2. Len(chan'["dev"]) <= d + 1 /\ Len(chan'["dev"]) \in Nat
      BY <1>3, SizesAfter, SidesAre
    <3> HIDE DEF d
    <3> QED  BY <3>1, <3>2
  <2>2. pc["dev"] = "go2" => ~Has("dev", "ack")'
    BY <1>3, LockedIs DEF AtGo, Gains
  <2> HIDE DEF Has
  <2> QED  BY <1>1, <1>3, <2>1, <2>2 DEF AtGo
<1>6. InTransfer'
  <2>1. pc["dev"] \in {"recv", "mid", "store"} => chan["dev"] = << >> /\ chan["host"] = << >>
    BY <1>1, LoadIs, LockedIs DEF InTransfer
  <2>2. pc["dev"] \in {"recv", "mid", "store"} => chan'["host"] = << >> /\ Len(chan'["dev"]) <= 1
    <3>1. chan["dev"] = << >> => Len(chan'["dev"]) <= 1
      BY <1>3, Sizes, SizesAfter, SidesAre, LockedIs
    <3> QED  BY <1>3, <2>1, <3>1
  <2>3. pc["dev"] \in {"recv", "mid", "store"} => Load' <= 1 /\ \A k : ~Has("host", k)'
    BY <2>2, LoadAfter, SizesAfter, SidesAre
  <2> HIDE DEF Has
  <2> QED  BY <1>1, <2>2, <2>3 DEF InTransfer
<1>7. Confirmed'
  <2>1. Has("host", "ack")' <=> Has("host", "ack")
    BY <1>3 DEF Has
  <2> HIDE DEF Has
  <2> QED  BY <1>1, <1>3, <2>1, LockedIs DEF Confirmed
<1> QED  BY <1>4, <1>5, <1>6, <1>7 DEF Lock

\* The host takes an item off the line and goes on: of what is on its way to the
\* device nothing changes.
LEMMA HostReadsLock ==
    ASSUME LockedState, TypeInv', Reads("host"), UNCHANGED <<op, held, verdict, junk>>,
           pc["host"] = "answer", pc'["host"] \in {"send", "final"}, pc'["dev"] = pc["dev"],
           pc["dev"] \notin {"go", "go2"},
           pc'["host"] = "final" => Head(chan["host"]).k = "ack" /\ pos["host"] = Chunks
    PROVE  AtGo' /\ InTransfer' /\ Confirmed'
<1>1. /\ chan'["dev"] = chan["dev"] /\ chan'["host"] = Tail(chan["host"]) /\ chan["host"] # << >>
      /\ chan["host"] \in Seq(Item)
  BY ReadsSize, SidesAre, LockedIs DEF TypeInv, LineTyped
<1>2. Has("host", Head(chan["host"]).k)
  BY <1>1, HeadHas, SidesAre, LockedIs
<1>3. AtGo'
  BY DEF AtGo
<1>4. InTransfer'
  <2>1. ASSUME pc["dev"] \in {"recv", "mid", "store"} PROVE chan'["dev"] = << >> /\ chan'["host"] = << >>
    BY <1>1, <2>1, LoadIs, ShortTail, LockedIs, SidesAre DEF InTransfer
  <2>2. pc["dev"] \in {"recv", "mid", "store"} => Load' = 0 /\ \A k : ~Has("host", k)'
    BY <2>1, LoadAfter, SizesAfter, SidesAre
  <2>3. pc["dev"] \in {"recv", "mid", "store"} => \A i \in 1..Len(chan'["host"]) : ~Multibyte(chan'["host"][i])
    BY <2>1
  <2> HIDE DEF Has
  <2>4. pc["dev"] \in {"recv", "mid", "store"} /\ pc'["host"] = "final" => pc["dev"] = "store" /\ held.chunk = 0
    BY <1>2, LockedIs DEF InTransfer
  <2> QED  BY <2>2, <2>3, <2>4 DEF InTransfer
<1>5. Confirmed'
  <2>1. verdict["dev"] = "ok" => FirstAckOnly(chan'["host"]) /\ ~Has("host", "ack")'
    BY <1>1, FirstAckKept, LockedIs DEF Confirmed, Has
  <2> HIDE DEF Has
  <2>2. verdict["dev"] = "ok" /\ pc'["host"] = "final" => chan["dev"] = << >> /\ ~junk
    BY <1>2, LockedIs DEF Confirmed
  <2> QED  BY <1>1, <2>1, <2>2 DEF Confirmed
<1> QED  BY <1>3, <1>4, <1>5


LEMMA AckedChunkLock ==
    ASSUME LockedState, TypeInv', AckedChunk("host") PROVE Lock'
<1>1. /\ Reads("host") /\ pc["host"] = "answer" /\ pc'["host"] = "send" /\ pc'["dev"] = pc["dev"]
      /\ Head(chan["host"]).k = "ack" /\ UNCHANGED <<op, held, verdict, junk>>
  BY AckedChunkIs, SidesAre, LockedIs
<1>2. Has("host", "ack") /\ pc["dev"] \notin {"go", "go2"} /\ chan'["dev"] = chan["dev"]
  BY <1>1, HeadHas, ReadsSize, SidesAre, LockedIs DEF OpenInv, Reads
<1>3. AtGo' /\ InTransfer' /\ Confirmed'
  BY <1>1, <1>2, HostReadsLock
<1>4. InShell'
  <2>1. verdict["dev"] = "none" => ~junk /\ pc["dev"] \in {"recv", "mid", "store"}
    BY <1>1, <1>2, NoJunkYet
  <2>2. verdict["dev"] = "none" => chan["dev"] = << >>
    BY <1>1, <2>1, LoadIs, LockedIs DEF InTransfer, Reads
  <2>3. verdict["dev"] = "none" =>
           \A i \in 1..Len(chan'["dev"]) : chan'["dev"][i].k = "pkt" => chan'["dev"][i].chunk = 0
    BY <1>2, <2>2
  <2> QED  BY <1>1, <2>1, <2>3 DEF InShell
<1> QED  BY <1>3, <1>4 DEF Lock

LEMMA AckedEndLock ==
    ASSUME LockedState, TypeInv', AckedEnd("host") PROVE Lock'
<1>1. /\ Reads("host") /\ pc["host"] = "answer" /\ pc'["host"] = "final" /\ pc'["dev"] = pc["dev"]
      /\ Head(chan["host"]).k = "ack" /\ pos["host"] = Chunks
      /\ UNCHANGED <<op, pos, held, verdict, junk>>
  BY AckedEndIs, SidesAre, LockedIs
<1>2. pc["dev"] \notin {"go", "go2"} /\ chan'["dev"] = chan["dev"]
  BY <1>1, HeadHas, ReadsSize, SidesAre, LockedIs DEF OpenInv, Reads
<1>3. AtGo' /\ InTransfer' /\ Confirmed'
  BY <1>1, <1>2, HostReadsLock
<1>4. InShell'
  BY <1>1, <1>2, NoJunkYet, LockedIs DEF InShell
<1> QED  BY <1>3, <1>4 DEF Lock

LEMMA RefusedLock ==
    ASSUME LockedState, TypeInv', Refused("host") PROVE Lock'
<1>1. /\ pc["host"] = "answer" /\ pc'["host"] = "send" /\ pc'["dev"] = pc["dev"]
      /\ chan["host"] # << >> /\ Head(chan["host"]).k # "ack"
      /\ IF Multibyte(Head(chan["host"])) THEN UNCHANGED <<chan, left, seen>> ELSE Reads("host")
      /\ UNCHANGED <<op, pos, held, verdict, junk>>
  BY RefusedIs, SidesAre, LockedIs
<1>2. pc["dev"] \notin {"go", "go2"} /\ chan'["dev"] = chan["dev"]
  BY <1>1, ReadsSize, SidesAre, LockedIs DEF AtGo
<1>3. CASE Reads("host")
  <2>1. AtGo' /\ InTransfer' /\ Confirmed'
    BY <1>1, <1>2, <1>3, HostReadsLock
  <2>2. InShell'
    BY <1>1, <1>2, NoJunkYet, LockedIs DEF InShell
  <2> QED  BY <2>1, <2>2 DEF Lock
<1>4. CASE Multibyte(Head(chan["host"])) /\ UNCHANGED <<chan, left, seen>>
  <2>1. /\ chan["host"] \in Seq(Item) /\ Head(chan["host"]) = chan["host"][1]
        /\ Len(chan["host"]) \in Nat \ {0}
    BY <1>1, RestIs, SidesAre, LockedIs DEF TypeInv, LineTyped
  <2>2. pc["dev"] \notin {"recv", "mid", "store"}
    BY <1>4, <2>1, LockedIs DEF InTransfer
  <2>3. verdict["dev"] # "none"
    BY <1>1, <1>2, <2>2, NoJunkYet
  <2>4. verdict["dev"] = "ok" => ~Has("host", "ack")
    BY <1>1, <2>1, LockedIs DEF Confirmed, FirstAckOnly, Has
  <2>5. Has("host", "ack")' <=> Has("host", "ack")
    BY <1>4 DEF Has
  <2> HIDE DEF Has
  <2>6. Confirmed'
    BY <1>1, <1>4, <2>4, <2>5, LockedIs DEF Confirmed
  <2> QED  BY <1>1, <1>2, <2>2, <2>3, <2>6 DEF Lock, InShell, AtGo, InTransfer
<1> QED  BY <1>1, <1>3, <1>4

LEMMA AnswerTimeoutLock ==
    ASSUME LockedState, TypeInv', AnswerTimeout("host"), LockOn' PROVE Lock'
<1>1. /\ pc["host"] = "answer" /\ pc'["host"] = "send" /\ pc'["dev"] = pc["dev"]
      /\ chan' = chan /\ Silent("host") /\ UNCHANGED <<op, pos, held, verdict, junk>>
  BY AnswerTimeoutIs, SidesAre, LockedIs DEF LockOn
<1>2. chan["host"] = << >> /\ chan["dev"] = << >>
  BY <1>1, SidesAre, LockedIs DEF Silent, TypeInv, PcTyped, DevPlaces
<1>3. Load' = 0 /\ Len(chan'["dev"]) <= 1 /\ \A k : ~Has("host", k)' /\ ~Has("dev", k)'
  BY <1>1, <1>2, LoadAfter, Sizes, SizesAfter, SidesAre, LockedIs
<1>4. \A i \in 1..Len(chan'["host"]) : ~Multibyte(chan'["host"][i])
  BY <1>1, <1>2
<1> HIDE DEF Has
<1>5. AtGo' /\ InTransfer' /\ Confirmed'
  BY <1>1, <1>2, <1>3, <1>4, LockedIs DEF AtGo, InTransfer, Confirmed
<1>6. InShell'
  BY <1>1, <1>2, LockedIs DEF InShell
<1> QED  BY <1>5, <1>6 DEF Lock

\* A host that gives up is out of the lock step.
LEMMA HostFailsLock ==
    ASSUME LockedState, TypeInv', verdict'["host"] = "fail" PROVE ~LockOn'
  BY DEF LockOn

LEMMA HostFinalLock ==
    ASSUME LockedState, TypeInv', EndInv', HostFinal, LockOn' PROVE Lock'
<1>1. /\ pc["host"] = "final" /\ Reads("host")
      /\ verdict'["dev"] = verdict["dev"] /\ pc'["dev"] = pc["dev"]
      /\ UNCHANGED <<op, pos, held, junk>>
      /\ pc'["host"] \in {"final", "done"}
      /\ pc'["host"] = "done" => verdict'["host"] = "ok"
  BY HostFinalIs, LockedIs DEF LockOn
<1>2. /\ chan'["dev"] = chan["dev"] /\ chan'["host"] = Tail(chan["host"]) /\ chan["host"] # << >>
      /\ chan["host"] \in Seq(Item)
  BY <1>1, ReadsSize, SidesAre, LockedIs DEF TypeInv, LineTyped
<1>3. pc["dev"] \notin {"go", "go2", "recv", "mid", "store"}
  BY <1>1, <1>2, LoadIs, LockedIs DEF AtGo, InTransfer
<1>4. verdict["dev"] # "none"
  BY <1>1, <1>3, NoJunkYet
<1>5. Confirmed'
  BY <1>1, <1>2, FirstAckKept, LockedIs DEF Confirmed
<1> QED  BY <1>1, <1>3, <1>4, <1>5 DEF Lock, InShell, AtGo, InTransfer


\* The device in the transfer: it takes an item off the line, or waits in vain.
DevTurn ==
    /\ LockedState /\ pc["dev"] \in {"recv", "mid"} /\ pc'["host"] = pc["host"]
    /\ UNCHANGED <<op, pos, verdict, junk>>

LEMMA DevTurnIs ==
    ASSUME DevTurn
    PROVE  /\ verdict["dev"] = "none" /\ ~junk /\ pc["host"] \in {"send", "answer"}
           /\ Load <= 1 /\ (pc["host"] = "send" => chan["dev"] = << >> /\ chan["host"] = << >>)
           /\ chan["dev"] # << >> => /\ pc["host"] = "answer" /\ chan["host"] = << >>
                                     /\ Tail(chan["dev"]) = << >>
<1>1. /\ pc["dev"] \in {"recv", "mid"} /\ InTransfer /\ TypeInv
      /\ verdict["dev"] = "none" /\ InShell
  BY LockedIs DEF DevTurn
<1>2. pc["host"] \in {"send", "answer"} /\ Load <= 1 /\ ~junk /\ (pc["host"] = "send" => Load = 0)
  BY <1>1 DEF InTransfer, InShell
<1> QED  BY <1>1, <1>2, LoadIs, ShortTail, SidesAre

\* The device has answered and the line to it is empty.
LEMMA DevAnswersLock ==
    ASSUME DevTurn, TypeInv', NEW m \in Item, m.k \in {"ack", "nak"}, NEW q, q = << >>,
           Puts("dev", m, q), pc["host"] = "answer", chan["host"] = << >>,
           pc'["dev"] \in {"recv", "mid", "store"},
           m.k = "ack" => pc'["dev"] = "store" /\ (pos["host"] = Chunks => held'.chunk = 0)
    PROVE  Lock'
<1>1. chan'["dev"] = << >> /\ Gains("host", {m.k, "noise"}) /\ TypeInv
  BY PutsGains, SidesAre, LockedIs DEF DevTurn, Puts
<1>2. Len(chan'["host"]) <= 1
  BY <1>1, PutsSize, Sizes, SizesAfter, SidesAre
<1>3. \A k : Has("host", k)' => k \in {m.k, "noise"}
  BY <1>1, Sizes, SidesAre DEF Gains
<1>4. \A i \in 1..Len(chan'["host"]) : ~Multibyte(chan'["host"][i])
  <2>1. ASSUME NEW i \in 1..Len(chan'["host"]) PROVE chan'["host"][i].k \in {"ack", "nak", "noise"}
    BY <1>3 DEF Has
  <2> QED  BY <2>1 DEF Multibyte
<1>5. Load' <= 1
  BY <1>1, <1>2, LoadAfter
<1> HIDE DEF Has
<1>6. InTransfer'
  BY <1>3, <1>4, <1>5 DEF InTransfer, DevTurn
<1>7. InShell'
  BY <1>1, DevTurnIs DEF InShell, DevTurn
<1> QED  BY <1>6, <1>7, DevTurnIs DEF Lock, AtGo, Confirmed, DevTurn

LEMMA TakePacketLock ==
    ASSUME LockedState, TypeInv', TakePacket("dev") PROVE Lock'
<1>1. /\ pc["dev"] = "recv" /\ chan["dev"] # << >> /\ pc'["host"] = pc["host"] /\ pc'["dev"] = "store"
      /\ Head(chan["dev"]).k = "pkt" /\ held' = Head(chan["dev"])
      /\ Puts("dev", Byte("ack"), Tail(chan["dev"]))
      /\ UNCHANGED <<op, pos, verdict, junk>>
  BY TakePacketIs, SidesAre, LockedIs
<1>2. DevTurn
  BY <1>1 DEF DevTurn
<1>3. Tail(chan["dev"]) = << >> /\ pc["host"] = "answer" /\ chan["host"] = << >> /\ verdict["dev"] = "none"
  BY <1>1, <1>2, DevTurnIs
<1>4. Head(chan["dev"]) = chan["dev"][1] /\ Len(chan["dev"]) \in Nat \ {0}
  BY <1>1, RestIs, SidesAre, LockedIs DEF TypeInv, LineTyped
<1>5. pos["host"] = Chunks => held'.chunk = 0
  BY <1>1, <1>3, <1>4, LockedIs DEF InShell
<1> QED  BY <1>1, <1>2, <1>3, <1>5, TextsAreItems, DevAnswersLock

LEMMA NaksLock ==
    ASSUME LockedState, pc["dev"] \in {"recv", "mid"}, NEW where \in {"recv", "mid"}, NEW q,
           Naks("dev", q, where),
           \/ chan["dev"] # << >> /\ q = Tail(chan["dev"])
           \/ chan["dev"] = << >> /\ chan["host"] = << >> /\ q = chan["dev"] /\ pc["host"] # "send"
    PROVE  Lock'
<1>1. /\ TypeInv' /\ Puts("dev", Byte("nak"), q) /\ pc'["dev"] = where /\ pc'["host"] = pc["host"]
      /\ UNCHANGED <<op, pos, verdict, junk>>
  BY SidesAre DEF Naks
<1>2. DevTurn
  BY <1>1 DEF DevTurn
<1>3. q = << >> /\ pc["host"] = "answer" /\ chan["host"] = << >>
  BY <1>2, DevTurnIs
<1> QED  BY <1>1, <1>2, <1>3, TextsAreItems, DevAnswersLock

LEMMA DropsLock ==
    ASSUME LockedState, pc["dev"] \in {"recv", "mid"}, NEW where \in {"recv", "mid"},
           Drops("dev", where)
    PROVE  Lock'
<1>1. /\ TypeInv' /\ Reads("dev") /\ pc'["dev"] = where /\ pc'["host"] = pc["host"]
      /\ UNCHANGED <<op, pos, held, verdict, junk>>
  BY SidesAre DEF Drops
<1>2. DevTurn
  BY <1>1 DEF DevTurn
<1>3. chan'["dev"] = << >> /\ chan'["host"] = << >> /\ pc["host"] = "answer"
  BY <1>1, <1>2, ReadsSize, DevTurnIs, SidesAre, LockedIs
<1>4. Load' <= 1 /\ \A k : ~Has("host", k)'
  BY <1>1, <1>3, LoadAfter, SizesAfter, SidesAre
<1>5. \A i \in 1..Len(chan'["host"]) : ~Multibyte(chan'["host"][i])
  BY <1>3
<1> HIDE DEF Has
<1>6. InTransfer'
  BY <1>1, <1>3, <1>4, <1>5 DEF InTransfer
<1>7. InShell'
  BY <1>1, <1>2, <1>3, DevTurnIs DEF InShell
<1> QED  BY <1>1, <1>2, <1>6, <1>7, DevTurnIs DEF Lock, AtGo, Confirmed

LEMMA StoreChunkLock ==
    ASSUME LockedState, TypeInv', StoreChunk("dev") PROVE Lock'
<1>1. pc["dev"] = "store" /\ held.chunk # 0
  BY StoreChunkIs, SidesAre, LockedIs
<1>2. CASE /\ pos'["host"] = pos["host"] /\ pc'["dev"] = "recv" /\ pc'["host"] = pc["host"]
           /\ UNCHANGED <<op, held, verdict, junk, chan, left, seen>>
  <2>1. /\ verdict["dev"] = "none" /\ ~junk
        /\ pc["host"] # "final" /\ ~(pos["host"] = Chunks /\ Has("host", "ack"))
    BY <1>1, LockedIs DEF InTransfer, InShell
  <2>2. (Has("host", "ack")' <=> Has("host", "ack")) /\ Load' = Load
    BY <1>2 DEF Has, Load
  <2> HIDE DEF Has
  <2>3. InTransfer'
    BY <1>1, <1>2, <2>1, <2>2, LockedIs DEF InTransfer
  <2>4. InShell'
    BY <1>2, <2>1, LockedIs DEF InShell
  <2> QED  BY <1>2, <2>1, <2>3, <2>4 DEF Lock, AtGo, Confirmed
<1> QED  BY <1>2, StoreChunkIs, DevStopsLock, SidesAre, LockedIs


LEMMA HostLock ==
    ASSUME LockedState, TypeInv', EndInv', LockOn', HostNext PROVE Lock'
<1>1. op = "PU" /\ Sender = "host" /\ Receiver = "dev" /\ TypeInv
  BY LockedIs
<1>2. ASSUME NEW how, EndsWell("host", how) PROVE FALSE
  BY <1>1, <1>2, StopsIs, SidesAre, HostFailsLock DEF EndsWell
<1>3. ~Receives("host")
  BY <1>1, SidesAre DEF Receives, TakePacket, NakPacket, StartPartial, TakeCancel, SkipToSoh,
     FillPartial, Arriving, ReceiveTimeout, ReceiverGivesUp, EndOfFile, WrongTurn, Overflow,
     StoreChunk, Holding
<1>4. CASE HostReadyTimeout
  BY <1>1, <1>4, HostReadyTimeoutIs, HostFailsLock
<1>5. CASE HostFinalTimeout
  BY <1>1, <1>5, HostFinalTimeoutIs, HostFailsLock
<1>6. CASE SenderGivesUp("host") \/ Cancelled("host")
  BY <1>1, <1>2, <1>6, SenderGivesUpIs, CancelledIs, SidesAre
<1>7. CASE Sends("host")
  BY <1>6, <1>7, SendPacketLock, AckedChunkLock, AckedEndLock, RefusedLock, AnswerTimeoutLock DEF Sends
<1> QED  BY <1>3, <1>4, <1>5, <1>7, HostCommandLock, HostReadyLock, HostFinalLock DEF HostNext

LEMMA ReceiveTimeoutLock ==
    ASSUME LockedState, TypeInv', LockOn', ReceiveTimeout("dev") PROVE Lock'
<1>1. pc["dev"] \in {"recv", "mid"} /\ Silent("dev") /\ Naks("dev", chan["dev"], "recv")
  BY ReceiveTimeoutIs, SidesAre, LockedIs DEF LockOn
<1>2. pc["host"] \in {"send", "answer", "final"}
  BY <1>1, LockedIs DEF InTransfer
<1>3. chan["dev"] = << >> /\ chan["host"] = << >> /\ pc["host"] # "send"
  BY <1>1, <1>2, SidesAre DEF Silent, Waiting
<1> QED  BY <1>1, <1>3, NaksLock

LEMMA DevLock ==
    ASSUME LockedState, TypeInv', LockOn', DevNext PROVE Lock'
<1>1. op = "PU" /\ Sender = "host" /\ Receiver = "dev" /\ TypeInv
  BY LockedIs
<1>2. ~Sends("dev") /\ ~DevReadFails
  BY <1>1, SidesAre DEF Sends, SendPacket, SenderGivesUp, AckedChunk, AckedEnd, Refused, Cancelled,
     AnswerTimeout, Answered, DevReadFails
<1>3. CASE DevOpens \/ DevGo \/ DevGoTimeout \/ DevReadsJunk
  BY <1>1, <1>3, DevOpensLock, DevGoLock, DevGoTimeoutIs, DevStopsLock, DevReadsJunkLock
<1>4. CASE NakPacket("dev") \/ FillPartial("dev")
  BY <1>1, <1>4, NakPacketIs, FillPartialIs, NaksLock, DropsLock, SidesAre
<1>5. CASE StartPartial("dev") \/ SkipToSoh("dev")
  BY <1>1, <1>5, StartPartialIs, SkipToSohIs, DropsLock, SidesAre
<1>6. CASE TakeCancel("dev") \/ ReceiverGivesUp("dev") \/ WrongTurn("dev") \/ Overflow("dev")
  BY <1>1, <1>6, TakeCancelIs, ReceiverGivesUpIs, WrongTurnIs, OverflowIs, DevStopsLock, SidesAre
<1>7. CASE EndOfFile("dev")
  BY <1>1, <1>7, EndOfFileIs, DevStopsLock, SidesAre
<1>8. CASE Receives("dev")
  BY <1>4, <1>5, <1>6, <1>7, <1>8, TakePacketLock, ReceiveTimeoutLock, StoreChunkLock DEF Receives
<1> QED  BY <1>2, <1>3, <1>8 DEF DevNext

LEMMA InitLock == ASSUME Init PROVE Lock
<1>1. /\ pc["dev"] = "repl" /\ pc["host"] = "start" /\ ~junk /\ chan["dev"] = << >>
      /\ verdict["dev"] = "none"
  BY SidesAre DEF Init
<1>2. \A i \in 1..Len(chan["dev"]) : chan["dev"][i].k = "pkt" => chan["dev"][i].chunk = 0
  BY <1>1
<1> QED  BY <1>1, <1>2 DEF Lock, InShell, AtGo, InTransfer, Confirmed

LEMMA NextLock ==
    ASSUME TypeInv, EndInv, OpenInv, Lock, TypeInv', EndInv', [Next]_vars PROVE Lock'
<1>1. CASE ~LockOn'
  BY <1>1 DEF Lock
<1>2. CASE LockOn'
  <2>1. LockedState
    BY <1>2, LockBefore DEF LockedState
  <2>2. CASE UNCHANGED vars
    <3>1. Has("host", "ack")' <=> Has("host", "ack")
      BY <2>2 DEF vars, Has
    <3>2. (Has("dev", "ack")' <=> Has("dev", "ack")) /\ Load' = Load
      BY <2>2 DEF vars, Has, Load
    <3> HIDE DEF Has
    <3> QED  BY <1>2, <2>1, <2>2, <3>1, <3>2, LockedIs
             DEF vars, ends, Lock, InShell, AtGo, InTransfer, Confirmed
  <2> QED  BY <1>2, <2>1, <2>2, HostLock, DevLock DEF Next
<1> QED  BY <1>1, <1>2

\* A PU that the host's tool calls a success is one the device has confirmed, its
\* close included; and unless an answer was late, not a byte is left over for the
\* device's command line.  It holds on a line that damages anything, headers too.
THEOREM FileOkIsConfirmed == Spec => []OkIsConfirmed
<1> DEFINE Inv == TypeInv /\ EndInv /\ OpenInv /\ Lock
<1>1. Init => Inv
  BY InitTyped, InitEnded, InitOpen, InitLock
<1>2. Inv /\ [Next]_vars => Inv'
  BY NextTyped, NextEnded, NextOpen, NextLock
<1>3. Inv => OkIsConfirmed
  BY DEF Inv, EndInv, Lock, LockOn, Confirmed, OkIsConfirmed
<1> QED  BY <1>1, <1>2, <1>3, PTL DEF Spec

----------------------------------------------------------------------------
(* Damage is repaired.                                                     *)

\* What a behaviour has taken of the bound; while only payloads have been
\* garbled, the number of packets that were.
Spent == MaxMishaps - left

Clean == seen \subseteq {"garbled"} /\ Spent < MaxRetries

Untold == verdict["dev"] = "none" /\ verdict["host"] = "none"
DevSure == pc["dev"] = "repl" /\ verdict["dev"] = "ok"

\* m is the packet in hand, or was: each one that was garbled is a try of the
\* sender, and will be one of the receiver.
Due(m) ==
    \/ m = At(pos[Sender]) /\ try[Sender] <= Spent + 1
    \/ m.k = "pkt" /\ ~m.crc /\ try[Sender] <= Spent /\ try[Receiver] < Spent

\* The opening, up to the GO, which the device of a PU may find with the first
\* packet behind it.
AtStart == Untold /\ \A s \in Side : pos[s] = 0 /\ try[s] = 0
Fresh ==
    AtStart /\ pc["host"] = "start" /\ pc["dev"] = "repl" /\ chan["dev"] = << >> /\ chan["host"] = << >>
Called ==
    /\ AtStart /\ pc["host"] = "ready" /\ pc["dev"] = "repl"
    /\ chan["dev"] = <<Byte("cmd")>> /\ chan["host"] = << >>
Readied ==
    /\ AtStart /\ pc["host"] = "ready" /\ pc["dev"] = "go"
    /\ chan["dev"] = << >> /\ chan["host"] = <<Byte("ready")>>
Going ==
    /\ AtStart /\ pc["host"] = (IF op = "PU" THEN "send" ELSE "recv") /\ pc["dev"] = "go"
    /\ chan["dev"] = <<Byte("ack")>> /\ chan["host"] = << >>
Early ==
    /\ op = "PU" /\ Untold /\ pos["dev"] = 0 /\ pos["host"] = 0 /\ try["dev"] = 0
    /\ pc["host"] = "answer" /\ pc["dev"] = "go" /\ chan["host"] = << >>
    /\ \E m \in Item : chan["dev"] = <<Byte("ack"), m>> /\ Due(m)

\* The transfer: nothing is on its way, or the packet, or the answer to it.
Keeps == pc[Receiver] = "recv" \/ (pc[Receiver] = "store" /\ held = At(pos[Receiver]))
Moving == Untold /\ Keeps /\ try[Receiver] <= Spent
Idle ==
    /\ Moving /\ pc[Sender] = "send" /\ Taken = pos[Sender] /\ try[Sender] <= Spent
    /\ chan[Sender] = << >> /\ chan[Receiver] = << >>
OnItsWay ==
    /\ Moving /\ pc[Sender] = "answer" /\ Taken = pos[Sender] /\ chan[Sender] = << >>
    /\ \E m \in Item : chan[Receiver] = <<m>> /\ Due(m)
Asked ==
    /\ Moving /\ pc[Sender] = "answer" /\ pc[Receiver] = "recv" /\ Taken = pos[Sender]
    /\ try[Sender] <= Spent /\ chan[Sender] = <<Byte("nak")>> /\ chan[Receiver] = << >>
Acked ==
    /\ Moving /\ pc[Sender] = "answer" /\ Taken = pos[Sender] + 1
    /\ chan[Sender] = <<Byte("ack")>> /\ chan[Receiver] = << >>

\* The end, a PU's and a GT's.
Confirms ==
    /\ op = "PU" /\ DevSure /\ pc["host"] = "answer" /\ pos["host"] = Chunks
    /\ verdict["host"] = "none" /\ chan["host"] = <<Byte("ack"), Byte("text_ok")>>
Closing ==
    /\ op = "PU" /\ Untold /\ pc["host"] = "final" /\ pc["dev"] = "store" /\ held.chunk = 0
    /\ pos["dev"] = Chunks /\ chan["host"] = << >> /\ chan["dev"] = << >>
Thanked ==
    /\ op = "GT" /\ Untold /\ pc["host"] = "final" /\ pc["dev"] = "answer"
    /\ pos["dev"] = Chunks /\ pos["host"] = Chunks
    /\ chan["dev"] = <<Byte("ack")>> /\ chan["host"] = << >>
Leaving ==
    /\ op = "GT" /\ DevSure /\ pc["host"] = "store" /\ held.chunk = 0 /\ pos["host"] = Chunks
    /\ verdict["host"] = "none" /\ chan["host"] = <<Byte("text_ok")>>
LastWord ==
    /\ DevSure /\ pc["host"] = "final" /\ verdict["host"] = "none"
    /\ op = "GT" => pos["host"] = Chunks
    /\ chan["host"] = <<Byte("text_ok")>>
BothSure == DevSure /\ pc["host"] = "done" /\ verdict["host"] = "ok"

Begins == Fresh \/ Called \/ Readied \/ Going \/ Early
Transfers == Idle \/ OnItsWay \/ Asked \/ Acked
Closes == Confirms \/ Closing \/ Thanked \/ Leaving \/ LastWord \/ BothSure

OnTrack == Begins \/ Transfers \/ Closes
Track == Clean => OnTrack
Tracked == TypeInv /\ Clean /\ OnTrack

LEMMA TrackedIs ==
    ASSUME TypeInv
    PROVE  /\ Spent \in Nat /\ MaxRetries \in Nat /\ Chunks \in Nat
           /\ op \in {"PU", "GT"} /\ Sender \in Side /\ Receiver \in Side /\ Sender # Receiver
           /\ Peer(Sender) = Receiver /\ Peer(Receiver) = Sender
           /\ \A s \in Side : /\ pos[s] \in 0..Chunks /\ try[s] \in Nat /\ chan[s] \in Seq(Item)
                              /\ At(pos[s]) \in Item /\ At(pos[s]).k = "pkt" /\ At(pos[s]).crc
                              /\ At(pos[s]).seq = pos[s] % SeqMod
                              /\ At(pos[s]).chunk = 0 <=> pos[s] = Chunks
<1>1. \A s \in Side : pos[s] \in 0..Chunks /\ try[s] \in Nat /\ chan[s] \in Seq(Item)
  BY BoundsAreNat DEF TypeInv, FileTyped, LineTyped
<1>2. \A p \in 0..Chunks : /\ At(p) \in Item /\ At(p).k = "pkt" /\ At(p).crc
                           /\ At(p).seq = p % SeqMod /\ (At(p).chunk = 0 <=> p = Chunks)
  BY AtIs, BoundsAreNat
<1>3. Spent \in Nat
  BY BoundsAreNat DEF Spent, TypeInv, LineTyped
<1> QED  BY <1>1, <1>2, <1>3, SidesAre, BoundsAreNat DEF TypeInv

\* A channel of one item, or of two.
LEMMA Shorts ==
    ASSUME NEW x \in Item, NEW y \in Item
    PROVE  /\ <<x>> # << >> /\ Head(<<x>>) = x /\ Tail(<<x>>) = << >>
           /\ <<x, y>> # << >> /\ Head(<<x, y>>) = x /\ Tail(<<x, y>>) = <<y>>
           /\ Append(<< >>, x) = <<x>> /\ Append(<<x>>, y) = <<x, y>>
<1>1. <<x>> # << >> /\ Head(<<x>>) = x /\ <<x, y>> # << >> /\ Head(<<x, y>>) = x
  OBVIOUS
<1>2. Tail(<<x>>) = << >>
  OBVIOUS
<1>3. Tail(<<x, y>>) = <<y>>
  <2>1. <<x, y>> \in Seq(Item) /\ Len(<<x, y>>) = 2 /\ <<x, y>> # << >> /\ <<x, y>>[2] = y
    OBVIOUS
  <2>2. /\ Tail(<<x, y>>) \in Seq(Item) /\ Len(Tail(<<x, y>>)) = 1
        /\ Tail(<<x, y>>)[1] = y
    BY <2>1, HeadTailProperties
  <2>3. <<y>> \in Seq(Item) /\ Len(<<y>>) = 1 /\ <<y>>[1] = y
    OBVIOUS
  <2> QED  BY <2>2, <2>3, SeqEqual
<1>4. Append(<< >>, x) = <<x>>
  OBVIOUS
<1>5. Append(<<x>>, y) = <<x, y>>
  <2>1. <<x>> \in Seq(Item) /\ Len(<<x>>) = 1 /\ <<x>>[1] = x
    OBVIOUS
  <2>2. /\ Append(<<x>>, y) \in Seq(Item) /\ Len(Append(<<x>>, y)) = 2
        /\ Append(<<x>>, y)[1] = x /\ Append(<<x>>, y)[2] = y
    BY <2>1, AppendProperties
  <2>3. <<x, y>> \in Seq(Item) /\ Len(<<x, y>>) = 2 /\ <<x, y>>[1] = x /\ <<x, y>>[2] = y
    OBVIOUS
  <2>4. \A i \in 1..2 : Append(<<x>>, y)[i] = <<x, y>>[i]
    BY <2>2, <2>3
  <2> QED  BY <2>2, <2>3, <2>4, SeqEqual
<1> QED  BY <1>1, <1>2, <1>3, <1>4, <1>5

----------------------------------------------------------------------------
\* A behaviour that is clean has been so.

Falls == left' \in Nat /\ left' <= left

LEMMA LineFalls ==
    ASSUME TypeInv
    PROVE  /\ Quiet => Falls
           /\ \A kind : Mishap(kind) => Falls
           /\ \A ch, s, m : SendOver(ch, s, m) => Falls
           /\ \A s : Consume(s) => Falls
           /\ \A s : Expires(s) => Falls
           /\ \A s, m : ExpiresThenSend(s, m) => Falls
           /\ \A ch, how : DevEnds(ch, how) => Falls
           /\ \A ch, how : DevEndsOnFlash(ch, how) => Falls
           /\ \A s, ch, why : GivesUp(s, ch, why) => Falls
<1>1. left \in Nat /\ (Quiet => Falls)
  BY BoundsAreNat DEF TypeInv, LineTyped, Quiet, Falls
<1>2. \A kind : Mishap(kind) => Falls
  BY <1>1 DEF Mishap, Falls
<1>3. \A ch, s, m : SendOver(ch, s, m) => Falls
  BY <1>1, <1>2 DEF SendOver
<1>4. /\ \A s : Consume(s) => Falls
      /\ \A s : Expires(s) => Falls
      /\ \A s, m : ExpiresThenSend(s, m) => Falls
  BY <1>1, <1>2, <1>3 DEF Consume, Expires, ExpiresThenSend
<1>5. /\ \A ch, how : DevEnds(ch, how) => Falls
      /\ \A ch, how : DevEndsOnFlash(ch, how) => Falls
  BY <1>2, <1>3 DEF DevEnds, DevEndsOnFlash
<1>6. \A s, ch, why : GivesUp(s, ch, why) => Falls
  BY <1>3, <1>5 DEF GivesUp, HostCancels
<1> QED  BY <1>1, <1>2, <1>3, <1>4, <1>5, <1>6

LEMMA LeftFalls == ASSUME TypeInv, [Next]_vars PROVE Falls
<1>1. UNCHANGED <<left, seen>> => Falls
  BY LineFalls DEF Quiet
<1>2. ASSUME NEW s \in Side, Sends(s) PROVE Falls
  <2>1. CASE SendPacket(s) \/ SenderGivesUp(s) \/ AckedChunk(s) \/ AckedEnd(s)
    BY <2>1, LineFalls DEF SendPacket, SenderGivesUp, AckedChunk, AckedEnd
  <2>2. CASE Refused(s) \/ Cancelled(s) \/ AnswerTimeout(s)
    BY <1>1, <2>2, LineFalls DEF Refused, Cancelled, AnswerTimeout
  <2> QED  BY <1>2, <2>1, <2>2 DEF Sends
<1>3. ASSUME NEW s \in Side, Receives(s) PROVE Falls
  <2>1. CASE TakePacket(s) \/ NakPacket(s) \/ StartPartial(s) \/ TakeCancel(s) \/ SkipToSoh(s)
    BY <2>1, LineFalls DEF TakePacket, NakPacket, StartPartial, TakeCancel, SkipToSoh
  <2>2. CASE FillPartial(s) \/ ReceiveTimeout(s) \/ ReceiverGivesUp(s)
    BY <2>2, LineFalls DEF FillPartial, ReceiveTimeout, ReceiverGivesUp
  <2>3. CASE EndOfFile(s) \/ WrongTurn(s) \/ Overflow(s) \/ StoreChunk(s)
    BY <1>1, <2>3, LineFalls DEF EndOfFile, WrongTurn, Overflow, StoreChunk
  <2> QED  BY <1>3, <2>1, <2>2, <2>3 DEF Receives
<1>4. CASE HostCommand \/ HostReady \/ HostReadyTimeout \/ HostFinal \/ HostFinalTimeout
  BY <1>4, LineFalls DEF HostCommand, HostReady, HostReadyTimeout, HostFinal, HostFinalTimeout
<1>5. CASE DevOpens \/ DevGo \/ DevGoTimeout \/ DevReadFails \/ DevReadsJunk
  BY <1>5, LineFalls DEF DevOpens, DevGo, DevGoTimeout, DevReadFails, DevReadsJunk
<1>6. CASE UNCHANGED vars
  BY <1>1, <1>6 DEF vars
<1> QED  BY <1>2, <1>3, <1>4, <1>5, <1>6, SidesAre DEF Next, HostNext, DevNext

LEMMA CleanBefore == ASSUME TypeInv, [Next]_vars, Clean' PROVE Clean
<1>1. left \in Nat /\ left' \in Nat /\ left' <= left
  BY LeftFalls, BoundsAreNat DEF Falls, TypeInv, LineTyped
<1>2. MaxMishaps \in Nat /\ MaxRetries \in Nat
  BY BoundsAreNat
<1>3. ASSUME NEW a \in Nat, NEW b \in Nat, NEW m \in Nat, NEW r \in Nat, b <= a, m - b < r
      PROVE  m - a < r
  BY <1>3
<1> QED  BY <1>1, <1>2, <1>3, SeenGrows DEF Clean, Spent

\* What goes out arrives, if with a payload that the CRC does not fit.
LEMMA PutsClean ==
    ASSUME TypeInv, Clean', NEW s \in Side, NEW m \in Item, NEW q, Puts(s, m, q),
           chan[Peer(s)] = << >>
    PROVE  \E x \in Item :
              /\ chan'[Peer(s)] = <<x>> /\ chan'[s] = q
              /\ \/ x = m /\ Spent' = Spent
                 \/ m.k = "pkt" /\ x.k = "pkt" /\ ~x.crc /\ Spent' = Spent + 1
<1>1. PICK x \in Item : chan'[Peer(s)] = Append(chan[Peer(s)], x) /\ Becomes(m, x)
  BY DEF Puts, Clean
<1>2. \/ x = m /\ left' = left
      \/ m.k = "pkt" /\ x.k = "pkt" /\ ~x.crc /\ left' = left - 1
  BY <1>1 DEF Becomes, Clean
<1>3. left \in Nat /\ MaxMishaps \in Nat
  BY BoundsAreNat DEF TypeInv, LineTyped
<1>4. chan'[Peer(s)] = <<x>>
  BY <1>1, Shorts
<1> QED  BY <1>2, <1>3, <1>4 DEF Puts, Spent

LEMMA ByteClean ==
    ASSUME TypeInv, Clean', NEW s \in Side, NEW m \in Item, m.k # "pkt", NEW q, Puts(s, m, q)
    PROVE  chan'[Peer(s)] = Append(chan[Peer(s)], m) /\ chan'[s] = q /\ Spent' = Spent
<1>1. PICK x \in Item : chan'[Peer(s)] = Append(chan[Peer(s)], x) /\ Becomes(m, x)
  BY DEF Puts, Clean
<1>2. x = m /\ left' = left
  BY <1>1 DEF Becomes, Clean
<1> QED  BY <1>1, <1>2 DEF Puts, Spent

----------------------------------------------------------------------------
\* Where a side's place puts the transfer.

LEMMA AtSend == ASSUME Tracked, pc[Sender] = "send" PROVE Idle \/ (Going /\ op = "PU")
<1>1. CASE Begins
  BY <1>1, SidesAre, TrackedIs DEF Tracked, Begins, Fresh, Called, Readied, Going, Early
<1>2. CASE Transfers
  BY <1>2 DEF Transfers, OnItsWay, Asked, Acked
<1>3. CASE Closes
  BY <1>3, SidesAre, TrackedIs DEF Tracked, Closes, Confirms, Closing, Thanked, Leaving, LastWord,
     BothSure, DevSure
<1> QED  BY <1>1, <1>2, <1>3 DEF Tracked, OnTrack

LEMMA AtAnswer ==
    ASSUME Tracked, pc[Sender] = "answer"
    PROVE  Early \/ OnItsWay \/ Asked \/ Acked \/ Confirms \/ Thanked
<1>1. CASE Begins
  BY <1>1, SidesAre, TrackedIs DEF Tracked, Begins, Fresh, Called, Readied, Going
<1>2. CASE Transfers
  BY <1>2 DEF Transfers, Idle
<1>3. CASE Closes
  BY <1>3, SidesAre, TrackedIs DEF Tracked, Closes, Closing, Leaving, LastWord, BothSure, DevSure
<1> QED  BY <1>1, <1>2, <1>3 DEF Tracked, OnTrack

LEMMA AtReceive ==
    ASSUME Tracked, pc[Receiver] \in {"recv", "mid"}
    PROVE  pc[Receiver] = "recv" /\ (Transfers \/ (Going /\ op = "GT"))
<1>1. CASE Begins
  BY <1>1, SidesAre, TrackedIs DEF Tracked, Begins, Fresh, Called, Readied, Going, Early
<1>2. CASE Transfers
  BY <1>2 DEF Transfers, Idle, OnItsWay, Asked, Acked, Moving, Keeps
<1>3. CASE Closes
  BY <1>3, SidesAre, TrackedIs DEF Tracked, Closes, Confirms, Closing, Thanked, Leaving, LastWord,
     BothSure, DevSure
<1> QED  BY <1>1, <1>2, <1>3 DEF Tracked, OnTrack

LEMMA AtStore ==
    ASSUME Tracked, pc[Receiver] = "store"
    PROVE  \/ (Idle \/ OnItsWay \/ Acked) /\ held = At(pos[Receiver])
           \/ Closing \/ Leaving
<1>1. CASE Begins
  BY <1>1, SidesAre, TrackedIs DEF Tracked, Begins, Fresh, Called, Readied, Going, Early
<1>2. CASE Transfers
  BY <1>2 DEF Transfers, Idle, OnItsWay, Asked, Acked, Moving, Keeps
<1>3. CASE Closes
  BY <1>3, SidesAre, TrackedIs DEF Tracked, Closes, Confirms, Thanked, LastWord,
     BothSure, DevSure
<1> QED  BY <1>1, <1>2, <1>3 DEF Tracked, OnTrack

\* The places that only the opening and the end know.
LEMMA AtEnds ==
    ASSUME Tracked
    PROVE  /\ pc["host"] = "start" => Fresh
           /\ pc["host"] = "ready" => Called \/ Readied
           /\ pc["dev"] \in {"go", "go2"} => Readied \/ Going \/ Early
           /\ pc["host"] = "final" => Closing \/ Thanked \/ LastWord
           /\ pc["host"] = "done" => BothSure
           /\ pc["dev"] = "repl" /\ verdict["dev"] = "none" => Fresh \/ Called
<1>1. CASE Begins
  BY <1>1 DEF Begins, Fresh, Called, Readied, Going, Early
<1>2. CASE Transfers
  <2>1. pc[Sender] \in {"send", "answer"} /\ pc[Receiver] \in {"recv", "store"}
    BY <1>2 DEF Transfers, Idle, OnItsWay, Asked, Acked, Moving, Keeps
  <2>2. pc["host"] \in {"send", "answer", "recv", "store"} /\ pc["dev"] \in {"send", "answer", "recv", "store"}
    BY <2>1, SidesAre, TrackedIs DEF Tracked
  <2> QED  BY <2>2
<1>3. CASE Closes
  BY <1>3 DEF Closes, Confirms, Closing, Thanked, Leaving, LastWord, BothSure, DevSure
<1> QED  BY <1>1, <1>2, <1>3 DEF Tracked, OnTrack

\* There is always something to read for a side that waits with a time limit.
LEMMA Awake ==
    ASSUME Tracked, NEW s \in Side, pc[s] \in {"ready", "go", "go2", "answer", "recv", "mid", "final"}
    PROVE  ~Silent(s)
<1>1. \A x \in Item : <<x>> # << >>
  OBVIOUS
<1>2. \A x, y \in Item : <<x, y>> # << >>
  OBVIOUS
<1>3. CASE Begins
  <2>1. Peer("dev") = "host" /\ Peer("host") = "dev" /\ s \in {"dev", "host"}
    BY SidesAre
  <2>2. CASE Fresh \/ Called \/ Readied
    BY <1>1, <2>1, <2>2, TextsAreItems DEF Fresh, Called, Readied, Silent, Waiting
  <2>3. CASE Going \/ Early
    BY <1>1, <1>2, <2>1, <2>3, TextsAreItems DEF Going, Early, Silent, Waiting
  <2> QED  BY <1>3, <2>2, <2>3 DEF Begins
<1>4. CASE Transfers
  <2>1. /\ Peer(Sender) = Receiver /\ Peer(Receiver) = Sender /\ s \in {Sender, Receiver}
    BY SidesAre
  <2>2. CASE Idle
    BY <2>1, <2>2 DEF Idle, Silent, Waiting
  <2>3. CASE OnItsWay
    BY <1>1, <2>1, <2>3 DEF OnItsWay, Moving, Keeps, Silent, Waiting
  <2>4. CASE Asked \/ Acked
    BY <1>1, <2>1, <2>4, TextsAreItems DEF Asked, Acked, Silent, Waiting
  <2> QED  BY <1>4, <2>2, <2>3, <2>4 DEF Transfers
<1>5. CASE Closes
  <2>1. Peer("dev") = "host" /\ Peer("host") = "dev" /\ s \in {"dev", "host"}
    BY SidesAre
  <2>2. CASE Confirms \/ Leaving \/ LastWord
    BY <1>1, <1>2, <2>1, <2>2, TextsAreItems DEF Confirms, Leaving, LastWord, DevSure, Silent, Waiting
  <2>3. CASE Closing \/ Thanked
    BY <1>1, <2>1, <2>3, TextsAreItems DEF Closing, Thanked, Silent, Waiting
  <2>4. CASE BothSure
    BY <2>1, <2>4 DEF BothSure, DevSure
  <2> QED  BY <1>5, <2>2, <2>3, <2>4 DEF Closes
<1> QED  BY <1>3, <1>4, <1>5 DEF Tracked, OnTrack

LEMMA NoTimeouts ==
    ASSUME Tracked, Clean', NEW s \in Side
    PROVE  ~HostReadyTimeout /\ ~DevGoTimeout /\ ~HostFinalTimeout /\ ~AnswerTimeout(s) /\ ~ReceiveTimeout(s)
<1>1. \A t \in Side : Expires(t) => pc[t] \notin {"ready", "answer", "final"}
  BY Awake, ExpiresIs DEF Tracked, TypeInv, Clean
<1>2. \A t \in Side, m \in Item : ExpiresThenSend(t, m) => pc[t] \notin {"go", "go2", "recv", "mid"}
  BY Awake, ExpiresSends DEF Tracked, TypeInv, Clean
<1> QED  BY <1>1, <1>2, SidesAre, TextsAreItems
         DEF HostReadyTimeout, DevGoTimeout, HostFinalTimeout, AnswerTimeout, ReceiveTimeout

\* No side has reason to give up, to cancel or to drop anything.
LEMMA NoSurrender ==
    ASSUME Tracked, NEW s \in Side
    PROVE  /\ ~SenderGivesUp(s) /\ ~Cancelled(s) /\ ~StartPartial(s) /\ ~TakeCancel(s) /\ ~SkipToSoh(s)
           /\ ~FillPartial(s) /\ ~ReceiverGivesUp(s) /\ ~WrongTurn(s) /\ ~Overflow(s)
<1>1. TypeInv /\ Spent < MaxRetries
  BY DEF Tracked, Clean
<1>2. ~SenderGivesUp(s)
  <2>1. SenderGivesUp(s) => s = Sender /\ pc[Sender] = "send" /\ try[Sender] = MaxRetries
    BY DEF SenderGivesUp
  <2>2. pc[Sender] = "send" => try[Sender] <= Spent
    BY <1>1, AtSend, TrackedIs DEF Idle, Going, AtStart
  <2> QED  BY <1>1, <2>1, <2>2, TrackedIs
<1>3. ~Cancelled(s)
  <2>1. Cancelled(s) => /\ pc[Sender] = "answer" /\ chan[Sender] # << >> /\ Head(chan[Sender]).k = "can"
    BY DEF Cancelled, Answered
  <2>2. CASE Early \/ Confirms \/ Thanked
    BY <1>1, <2>1, <2>2, TextsAreItems, Shorts, SidesAre DEF Early, Confirms, Thanked
  <2>3. CASE OnItsWay \/ Asked \/ Acked
    BY <1>1, <2>1, <2>3, TextsAreItems, Shorts DEF OnItsWay, Asked, Acked
  <2> QED  BY <2>1, <2>2, <2>3, AtAnswer
<1>4. ~StartPartial(s) /\ ~TakeCancel(s) /\ ~SkipToSoh(s) /\ ~FillPartial(s)
  <2>1. StartPartial(s) \/ TakeCancel(s) \/ SkipToSoh(s) =>
            pc[Receiver] = "recv" /\ chan[Receiver] # << >> /\ Head(chan[Receiver]).k # "pkt"
    BY DEF StartPartial, TakeCancel, SkipToSoh, Arriving
  <2>2. FillPartial(s) => pc[Receiver] = "mid"
    BY DEF FillPartial, Arriving
  <2>3. pc[Receiver] = "recv" /\ chan[Receiver] # << >> => Head(chan[Receiver]).k = "pkt"
    <3> SUFFICES ASSUME pc[Receiver] = "recv", chan[Receiver] # << >>
                 PROVE  Head(chan[Receiver]).k = "pkt"
      OBVIOUS
    <3>1. OnItsWay
      BY AtReceive, SidesAre DEF Transfers, Idle, Asked, Acked, Going
    <3> QED  BY <1>1, <3>1, TrackedIs, Shorts DEF OnItsWay, Due
  <2> QED  BY <2>1, <2>2, <2>3, AtReceive
<1>5. ~ReceiverGivesUp(s)
  <2>1. ReceiverGivesUp(s) => pc[Receiver] \in {"recv", "mid"} /\ try[Receiver] = MaxRetries
    BY DEF ReceiverGivesUp
  <2>2. pc[Receiver] \in {"recv", "mid"} => try[Receiver] <= Spent
    BY <1>1, AtReceive, TrackedIs DEF Transfers, Idle, OnItsWay, Asked, Acked, Moving, Going, AtStart
  <2> QED  BY <1>1, <2>1, <2>2, TrackedIs
<1>6. ~WrongTurn(s) /\ ~Overflow(s)
  <2>1. WrongTurn(s) \/ Overflow(s) =>
            /\ pc[Receiver] = "store" /\ held.chunk # 0
            /\ held.seq # pos[Receiver] % SeqMod \/ pos[Receiver] = Chunks
    BY DEF WrongTurn, Overflow, Holding, InTurn
  <2>2. pc[Receiver] = "store" => held = At(pos[Receiver]) \/ held.chunk = 0
    BY AtStore DEF Closing, Leaving
  <2> QED  BY <1>1, <2>1, <2>2, TrackedIs
<1> QED  BY <1>2, <1>3, <1>4, <1>5, <1>6

----------------------------------------------------------------------------
\* The steps, along the track.

\* What a step needs to know of the next state.
LEMMA TrackStep ==
    ASSUME Tracked, TypeInv', Clean', op' = op
    PROVE  /\ TypeInv /\ Sender' = Sender /\ Receiver' = Receiver
           /\ Spent \in Nat /\ Spent' \in Nat /\ Spent' < MaxRetries
<1>1. TypeInv /\ Sender' = Sender /\ Receiver' = Receiver /\ Spent \in Nat
  BY SidesStay, TrackedIs DEF Tracked
<1>2. left' \in 0..MaxMishaps /\ MaxMishaps \in Nat
  BY BoundsAreNat DEF TypeInv, LineTyped
<1>3. ASSUME NEW a \in 0..MaxMishaps PROVE MaxMishaps - a \in Nat
  BY <1>2
<1> QED  BY <1>1, <1>2, <1>3 DEF Clean, Spent

LEMMA HostCommandTrack == ASSUME Tracked, TypeInv', Clean', HostCommand PROVE Called'
<1>1. Fresh /\ UNCHANGED <<op, try, pos, held, file, verdict, junk>>
  BY AtEnds DEF HostCommand
<1>2. Puts("host", Byte("cmd"), chan["host"]) /\ pc'["host"] = "ready" /\ pc'["dev"] = pc["dev"]
  BY HostCommandIs DEF Tracked
<1>3. chan'["dev"] = <<Byte("cmd")>> /\ chan'["host"] = << >>
  BY <1>1, <1>2, ByteClean, TextsAreItems, SidesAre, Shorts DEF Tracked, Fresh
<1> QED  BY <1>1, <1>2, <1>3 DEF Fresh, Called, AtStart, Untold

LEMMA DevOpensTrack == ASSUME Tracked, TypeInv', Clean', DevOpens PROVE Readied'
<1>1. /\ pc["dev"] = "repl" /\ verdict["dev"] = "none" /\ chan["dev"] # << >>
      /\ UNCHANGED <<op, try, pos, held, file, junk>>
  BY DEF DevOpens
<1>2. Called
  BY <1>1, AtEnds DEF Fresh
<1>3. ~DevEndsOnFlash(Rest("dev"), "open")
  BY DEF DevEndsOnFlash, Mishap, Clean
<1>4. SendOver(Rest("dev"), "host", Byte("ready")) /\ Goto("dev", "go") /\ verdict' = verdict
  BY <1>3 DEF DevOpens
<1>5. Puts("dev", Byte("ready"), Tail(chan["dev"]))
  <2>1. Rest("dev")["dev"] = Tail(chan["dev"])
    BY <1>1, RestIs, SidesAre DEF Tracked, TypeInv, LineTyped
  <2> QED  BY <1>1, <1>4, <2>1, PutsIs, TextsAreItems, SidesAre DEF Tracked
<1>6. pc'["dev"] = "go" /\ pc'["host"] = pc["host"]
  BY <1>4, GotoIs, SidesAre DEF Tracked, TypeInv, PlacesOf, DevPlaces
<1>7. chan'["host"] = <<Byte("ready")>> /\ chan'["dev"] = << >>
  BY <1>2, <1>5, ByteClean, TextsAreItems, SidesAre, Shorts DEF Tracked, Called
<1> QED  BY <1>1, <1>2, <1>4, <1>6, <1>7 DEF Called, Readied, AtStart, Untold

LEMMA HostReadyTrack == ASSUME Tracked, TypeInv', Clean', HostReady PROVE Going'
<1>1. /\ pc["host"] = "ready" /\ chan["host"] # << >>
      /\ UNCHANGED <<op, try, pos, held, file, verdict, junk>>
  BY DEF HostReady
<1>2. Readied
  BY <1>1, AtEnds DEF Called
<1>3. Head(chan["host"]).k = "ready"
  BY <1>2, TextsAreItems, Shorts DEF Readied
<1>4. /\ pc'["host"] = (IF op = "PU" THEN "send" ELSE "recv") /\ pc'["dev"] = pc["dev"]
      /\ Puts("host", Byte("ack"), << >>)
  BY <1>3, HostReadyIs DEF Tracked
<1>5. chan'["dev"] = <<Byte("ack")>> /\ chan'["host"] = << >>
  BY <1>2, <1>4, ByteClean, TextsAreItems, SidesAre, Shorts DEF Tracked, Readied
<1> QED  BY <1>1, <1>2, <1>4, <1>5 DEF Readied, Going, AtStart, Untold

LEMMA DevGoTrack == ASSUME Tracked, TypeInv', Clean', DevGo PROVE OnTrack'
<1>1. pc["dev"] \in {"go", "go2"} /\ chan["dev"] # << >> /\ UNCHANGED <<op, try, pos, held, file, junk>>
  BY DEF DevGo
<1>2. Going \/ Early
  BY <1>1, AtEnds DEF Readied
<1>3. Head(chan["dev"]).k = "ack"
  BY <1>2, TextsAreItems, Shorts DEF Going, Early
<1>4. /\ Goto("dev", IF op = "PU" THEN "recv" ELSE "send") /\ Consume("dev") /\ verdict' = verdict
  BY <1>3 DEF DevGo
<1>5. /\ chan'["dev"] = Tail(chan["dev"]) /\ chan'["host"] = chan["host"] /\ Spent' = Spent
  BY <1>1, <1>4, ConsumeTyped, RestIs, SidesAre DEF Tracked, TypeInv, LineTyped, Spent
<1>6. pc'["dev"] = (IF op = "PU" THEN "recv" ELSE "send") /\ pc'["host"] = pc["host"]
  <2>1. CASE op = "PU"
    BY <1>4, <2>1, GotoIs, SidesAre DEF Tracked, TypeInv, PlacesOf, DevPlaces
  <2>2. CASE op # "PU"
    BY <1>4, <2>2, GotoIs, SidesAre DEF Tracked, TypeInv, PlacesOf, DevPlaces
  <2> QED  BY <2>1, <2>2
<1>7. Sender' = Sender /\ Receiver' = Receiver /\ Spent \in Nat /\ op \in {"PU", "GT"}
  BY <1>1, TrackStep, TrackedIs
<1>8. Untold' /\ (op = "PU" => Sender = "host" /\ Receiver = "dev") /\ (op = "GT" => Sender = "dev" /\ Receiver = "host")
  BY <1>2, <1>4, SidesAre DEF Going, Early, AtStart, Untold
<1>9. CASE Going
  <2>1. chan'["dev"] = << >> /\ chan'["host"] = << >>
    BY <1>5, <1>9, TextsAreItems, Shorts DEF Going
  <2>2. pc'[Receiver] = "recv" /\ pc'[Sender] = "send" /\ \A s \in Side : pos[s] = 0 /\ try[s] = 0
    BY <1>6, <1>7, <1>8, <1>9 DEF Going, AtStart
  <2>3. Taken' = 0 /\ pos[Sender] = 0 /\ try[Sender] = 0 /\ try[Receiver] = 0
    BY <1>1, <1>7, <2>2, SidesAre DEF Taken
  <2>4. Idle'
    BY <1>1, <1>5, <1>7, <1>8, <2>1, <2>2, <2>3, SidesAre DEF Idle, Moving, Keeps
  <2> QED  BY <2>4 DEF OnTrack, Transfers
<1>10. CASE Early
  <2>1. PICK m \in Item : chan["dev"] = <<Byte("ack"), m>> /\ Due(m)
    BY <1>10 DEF Early
  <2>2. chan'["dev"] = <<m>> /\ chan'["host"] = << >>
    BY <1>5, <1>10, <2>1, TextsAreItems, Shorts DEF Early
  <2>3. Due(m)'
    BY <1>1, <1>5, <1>7, <2>1 DEF Due
  <2>4. /\ Sender = "host" /\ Receiver = "dev" /\ pc'["dev"] = "recv" /\ pc'["host"] = "answer"
        /\ pos["dev"] = 0 /\ pos["host"] = 0 /\ try["dev"] = 0
    BY <1>6, <1>8, <1>10 DEF Early
  <2>5. Moving' /\ Taken' = 0
    BY <1>1, <1>5, <1>7, <1>8, <2>4 DEF Moving, Keeps, Taken
  <2>6. OnItsWay'
    BY <1>1, <1>7, <2>2, <2>3, <2>4, <2>5 DEF OnItsWay
  <2> QED  BY <2>6 DEF OnTrack, Transfers
<1> QED  BY <1>2, <1>9, <1>10

LEMMA SendPacketTrack == ASSUME Tracked, TypeInv', Clean', SendPacket(Sender) PROVE OnTrack'
<1>1. /\ pc[Sender] = "send" /\ pc'[Sender] = "answer" /\ pc'[Receiver] = pc[Receiver]
      /\ try'[Sender] = try[Sender] + 1 /\ try'[Receiver] = try[Receiver]
      /\ Puts(Sender, At(pos[Sender]), chan[Sender])
      /\ UNCHANGED <<op, pos, held, file, verdict, junk>>
  BY SendPacketIs, TrackedIs DEF Tracked
<1>2. TypeInv /\ Sender' = Sender /\ Receiver' = Receiver /\ Spent \in Nat /\ Spent' \in Nat
  BY <1>1, TrackStep
<1>3. try[Sender] \in Nat /\ try[Receiver] \in Nat /\ At(pos[Sender]) \in Item /\ At(pos[Sender]).k = "pkt"
  BY <1>2, TrackedIs
<1>4. ASSUME NEW x \in Item, try[Sender] <= Spent, try[Receiver] <= Spent,
             \/ x = At(pos[Sender]) /\ Spent' = Spent
             \/ x.k = "pkt" /\ ~x.crc /\ Spent' = Spent + 1
      PROVE  Due(x)' /\ try'[Receiver] <= Spent'
  <2>1. CASE x = At(pos[Sender]) /\ Spent' = Spent
    BY <1>1, <1>2, <1>3, <1>4, <2>1 DEF Due
  <2>2. CASE x.k = "pkt" /\ ~x.crc /\ Spent' = Spent + 1
    BY <1>1, <1>2, <1>3, <1>4, <2>2 DEF Due
  <2> QED  BY <1>4, <2>1, <2>2
<1>5. CASE Idle
  <2>1. PICK x \in Item :
           /\ chan'[Receiver] = <<x>> /\ chan'[Sender] = << >>
           /\ \/ x = At(pos[Sender]) /\ Spent' = Spent
              \/ x.k = "pkt" /\ ~x.crc /\ Spent' = Spent + 1
    BY <1>1, <1>2, <1>3, <1>5, PutsClean, TrackedIs DEF Idle
  <2>2. Due(x)' /\ try'[Receiver] <= Spent'
    BY <1>4, <1>5, <2>1 DEF Idle, Moving
  <2>3. Moving' /\ Taken' = Taken
    BY <1>1, <1>2, <1>5, <2>2 DEF Idle, Moving, Keeps, Untold, Taken
  <2>4. OnItsWay'
    BY <1>1, <1>2, <1>5, <2>1, <2>2, <2>3 DEF Idle, OnItsWay
  <2> QED  BY <2>4 DEF OnTrack, Transfers
<1>6. CASE Going /\ op = "PU"
  <2>1. /\ Sender = "host" /\ Receiver = "dev" /\ Peer("host") = "dev" /\ "host" \in Side /\ "dev" \in Side
        /\ pos["host"] = 0 /\ pos["dev"] = 0 /\ try["host"] = 0 /\ try["dev"] = 0 /\ pc["dev"] = "go"
        /\ chan["dev"] = <<Byte("ack")>> /\ chan["host"] = << >> /\ Untold
    BY <1>6, SidesAre DEF Going, AtStart
  <2>2. PICK x \in Item :
           chan'["dev"] = Append(chan["dev"], x) /\ Becomes(At(pos["host"]), x) /\ chan'["host"] = << >>
    BY <1>1, <2>1 DEF Puts, Clean
  <2>3. \/ x = At(pos[Sender]) /\ left' = left
        \/ x.k = "pkt" /\ ~x.crc /\ left' = left - 1
    BY <2>1, <2>2 DEF Becomes, Clean
  <2>4. left \in Nat /\ MaxMishaps \in Nat
    BY <1>2, BoundsAreNat DEF TypeInv, LineTyped
  <2>5. \/ x = At(pos[Sender]) /\ Spent' = Spent
        \/ x.k = "pkt" /\ ~x.crc /\ Spent' = Spent + 1
    BY <2>3, <2>4 DEF Spent
  <2>6. Due(x)'
    BY <1>2, <1>4, <2>1, <2>5
  <2>7. chan'["dev"] = <<Byte("ack"), x>>
    <3>1. Byte("ack") \in Item
      BY TextsAreItems
    <3>2. Append(<<Byte("ack")>>, x) = <<Byte("ack"), x>>
      BY <3>1, Shorts
    <3> QED  BY <2>1, <2>2, <3>2
  <2>8. Early'
    BY <1>1, <1>6, <2>1, <2>2, <2>6, <2>7 DEF Early, Untold
  <2> QED  BY <2>8 DEF OnTrack, Begins
<1> QED  BY <1>1, <1>5, <1>6, AtSend

\* The sender reads the answer.
LEMMA SenderReads ==
    ASSUME Tracked, TypeInv', Clean', Reads(Sender), op' = op, NEW x \in Item, chan[Sender] = <<x>>
    PROVE  chan'[Sender] = << >> /\ chan'[Receiver] = chan[Receiver] /\ Spent' = Spent
<1>1. chan'[Sender] = Tail(chan[Sender]) /\ chan'[Receiver] = chan[Receiver]
  BY RestIs, TrackedIs DEF Reads, Tracked, TypeInv, LineTyped
<1> QED  BY <1>1, Shorts DEF Reads, Spent

LEMMA AckedChunkTrack == ASSUME Tracked, TypeInv', Clean', AckedChunk(Sender) PROVE Idle'
<1>1. /\ pc[Sender] = "answer" /\ Reads(Sender) /\ chan[Sender] # << >> /\ Head(chan[Sender]).k = "ack"
      /\ pos[Sender] < Chunks /\ pc'[Sender] = "send" /\ pc'[Receiver] = pc[Receiver]
      /\ pos'[Sender] = pos[Sender] + 1 /\ pos'[Receiver] = pos[Receiver]
      /\ try'[Sender] = 0 /\ try'[Receiver] = try[Receiver]
      /\ UNCHANGED <<op, held, file, verdict, junk>>
  BY AckedChunkIs, TrackedIs DEF Tracked, Reads
<1>2. TypeInv /\ Sender' = Sender /\ Receiver' = Receiver /\ Spent \in Nat /\ Chunks \in Nat
  BY <1>1, TrackStep, TrackedIs
<1>3. ~Early /\ ~Confirms /\ ~Thanked
  BY <1>1, <1>2, SidesAre DEF Early, Confirms, Thanked
<1>4. ~OnItsWay /\ ~Asked
  BY <1>1, TextsAreItems, Shorts DEF OnItsWay, Asked
<1>5. Acked
  BY <1>1, <1>3, <1>4, AtAnswer
<1>6. chan'[Sender] = << >> /\ chan'[Receiver] = << >> /\ Spent' = Spent
  BY <1>1, <1>5, SenderReads, TextsAreItems DEF Acked
<1>7. Moving' /\ Taken' = Taken
  BY <1>1, <1>2, <1>5, <1>6 DEF Acked, Moving, Keeps, Untold, Taken
<1> QED  BY <1>1, <1>2, <1>5, <1>6, <1>7 DEF Acked, Idle

LEMMA RefusedTrack == ASSUME Tracked, TypeInv', Clean', Refused(Sender) PROVE Idle'
<1>1. /\ pc[Sender] = "answer" /\ chan[Sender] # << >> /\ Head(chan[Sender]).k \notin {"ack", "can"}
      /\ IF Multibyte(Head(chan[Sender])) THEN UNCHANGED <<chan, left, seen>> ELSE Reads(Sender)
      /\ pc'[Sender] = "send" /\ pc'[Receiver] = pc[Receiver]
      /\ UNCHANGED <<op, try, pos, held, file, verdict, junk>>
  BY RefusedIs, TrackedIs DEF Tracked
<1>2. TypeInv /\ Sender' = Sender /\ Receiver' = Receiver
  BY <1>1, TrackStep
<1>3. ~Early /\ ~Confirms /\ ~Thanked
  BY <1>1, <1>2, SidesAre, TextsAreItems, Shorts DEF Early, Confirms, Thanked
<1>4. ~OnItsWay /\ ~Acked
  BY <1>1, TextsAreItems, Shorts DEF OnItsWay, Acked
<1>5. Asked
  BY <1>1, <1>3, <1>4, AtAnswer
<1>6. ~Multibyte(Head(chan[Sender]))
  BY <1>5, TextsAreItems, Shorts DEF Asked, Multibyte
<1>7. chan'[Sender] = << >> /\ chan'[Receiver] = << >> /\ Spent' = Spent
  BY <1>1, <1>5, <1>6, SenderReads, TextsAreItems DEF Asked
<1>8. Moving' /\ Taken' = Taken
  BY <1>1, <1>2, <1>5, <1>7 DEF Asked, Moving, Keeps, Untold, Taken
<1> QED  BY <1>1, <1>2, <1>5, <1>7, <1>8 DEF Asked, Idle

\* The device ends well: its frame goes out behind what the host has to read.
LEMMA DevSaysOk ==
    ASSUME Tracked, Clean', NEW ch, ch = chan \/ (chan["dev"] # << >> /\ ch = Rest("dev")),
           DevEnds(ch, "ok")
    PROVE  /\ DevSure' /\ verdict'["host"] = verdict["host"] /\ pc'["host"] = pc["host"]
           /\ chan'["host"] = Append(chan["host"], Byte("text_ok"))
<1>1. verdict' = [verdict EXCEPT !["dev"] = "ok"] /\ Goto("dev", "repl") /\ SendOver(ch, "host", Byte("text_ok"))
  BY DEF DevEnds
<1>2. Puts("dev", Byte("text_ok"), ch["dev"])
  BY <1>1, PutsIs, TextsAreItems, SidesAre DEF Tracked
<1>3. chan'["host"] = Append(chan["host"], Byte("text_ok"))
  BY <1>2, ByteClean, TextsAreItems, SidesAre DEF Tracked
<1>4. pc'["dev"] = "repl" /\ pc'["host"] = pc["host"]
  BY <1>1, GotoIs, SidesAre DEF Tracked, TypeInv, PlacesOf, DevPlaces
<1>5. verdict'["dev"] = "ok" /\ verdict'["host"] = verdict["host"]
  BY <1>1, SidesAre DEF Tracked, TypeInv, VerdictTyped
<1> QED  BY <1>3, <1>4, <1>5 DEF DevSure

\* A flash that fails is not a clean behaviour.
LEMMA NoFlash == ASSUME Clean' PROVE \A ch, how : ~DevEndsOnFlash(ch, how)
  BY DEF DevEndsOnFlash, Mishap, Clean

\* The receiver has acknowledged the end: both have the whole file.
LEMMA EndTaken ==
    ASSUME Tracked, Acked, pos[Sender] = Chunks
    PROVE  pc[Receiver] = "store" /\ pos[Receiver] = Chunks /\ held.chunk = 0
<1>1. TypeInv /\ Taken = Chunks + 1 /\ Keeps
  BY DEF Tracked, Acked, Moving
<1>2. pos[Receiver] \in 0..Chunks /\ Chunks \in Nat /\ (At(pos[Receiver]).chunk = 0 <=> pos[Receiver] = Chunks)
  BY <1>1, TrackedIs
<1>3. pc[Receiver] = "store" /\ pos[Receiver] = Chunks
  BY <1>1, <1>2 DEF Taken
<1> QED  BY <1>1, <1>2, <1>3 DEF Keeps

LEMMA AckedEndTrack == ASSUME Tracked, TypeInv', Clean', AckedEnd(Sender) PROVE Closes'
<1>1. /\ pc[Sender] = "answer" /\ chan[Sender] # << >> /\ Head(chan[Sender]).k = "ack"
      /\ pos[Sender] = Chunks /\ UNCHANGED <<op, try, pos, held, file, junk>>
  BY DEF AckedEnd, Answered
<1>2. TypeInv /\ op \in {"PU", "GT"} /\ (op = "PU" => Sender = "host" /\ Receiver = "dev")
      /\ (op = "GT" => Sender = "dev" /\ Receiver = "host")
  BY SidesAre, TrackedIs DEF Tracked
<1>3. ~Early /\ ~OnItsWay /\ ~Asked
  BY <1>1, <1>2, TextsAreItems, Shorts DEF Early, OnItsWay, Asked
<1>4. Acked \/ Confirms \/ Thanked
  BY <1>1, <1>3, AtAnswer
<1>5. Acked => /\ pc[Receiver] = "store" /\ pos[Receiver] = Chunks /\ held.chunk = 0
               /\ chan[Sender] = <<Byte("ack")>> /\ chan[Receiver] = << >> /\ Untold
  BY <1>1, EndTaken DEF Acked, Moving
<1>6. CASE op = "PU"
  <2>1. Goto("host", "final") /\ Consume("host") /\ verdict' = verdict
    BY <1>2, <1>6, NoFlash DEF AckedEnd
  <2>2. chan'["host"] = Tail(chan["host"]) /\ chan'["dev"] = chan["dev"]
    BY <1>1, <1>2, <1>6, <2>1, ConsumeTyped, RestIs, SidesAre DEF TypeInv, LineTyped
  <2>3. pc'["host"] = "final" /\ pc'["dev"] = pc["dev"]
    BY <1>2, <2>1, GotoIs, SidesAre DEF TypeInv, PlacesOf, HostPlaces
  <2>4. CASE Acked
    <3>1. chan'["host"] = << >> /\ chan'["dev"] = << >>
      <4>1. chan["host"] = <<Byte("ack")>> /\ chan["dev"] = << >> /\ Byte("ack") \in Item
        BY <1>2, <1>5, <1>6, <2>4, TextsAreItems
      <4>2. Tail(<<Byte("ack")>>) = << >>
        BY <4>1, Shorts
      <4> QED  BY <2>2, <4>1, <4>2
    <3>2. Closing'
      BY <1>1, <1>2, <1>5, <1>6, <2>1, <2>3, <2>4, <3>1 DEF Closing, Untold
    <3> QED  BY <3>2 DEF Closes
  <2>5. CASE Confirms
    <3>1. chan'["host"] = <<Byte("text_ok")>>
      BY <2>2, <2>5, TextsAreItems, Shorts DEF Confirms
    <3>2. LastWord'
      BY <1>1, <1>6, <2>1, <2>3, <2>5, <3>1 DEF Confirms, LastWord, DevSure
    <3> QED  BY <3>2 DEF Closes
  <2> QED  BY <1>4, <1>6, <2>4, <2>5 DEF Thanked
<1>7. CASE op = "GT"
  <2>1. DevEnds(Rest("dev"), "ok")
    BY <1>2, <1>7, NoFlash DEF AckedEnd
  <2>2. /\ DevSure' /\ verdict'["host"] = verdict["host"] /\ pc'["host"] = pc["host"]
        /\ chan'["host"] = Append(chan["host"], Byte("text_ok"))
    BY <1>1, <1>2, <1>7, <2>1, DevSaysOk
  <2>3. CASE Acked
    <3>1. chan'["host"] = <<Byte("text_ok")>>
      <4>1. chan["host"] = << >> /\ Byte("text_ok") \in Item
        BY <1>2, <1>5, <1>7, <2>3, TextsAreItems
      <4>2. Append(<< >>, Byte("text_ok")) = <<Byte("text_ok")>>
        BY <4>1, Shorts
      <4> QED  BY <2>2, <4>1, <4>2
    <3>2. Leaving'
      BY <1>1, <1>2, <1>5, <1>7, <2>2, <2>3, <3>1 DEF Leaving, Untold
    <3> QED  BY <3>2 DEF Closes
  <2>4. CASE Thanked
    <3>1. chan'["host"] = <<Byte("text_ok")>>
      BY <2>2, <2>4, TextsAreItems, Shorts DEF Thanked
    <3>2. LastWord'
      BY <1>1, <1>7, <2>2, <2>4, <3>1 DEF Thanked, LastWord, Untold
    <3> QED  BY <3>2 DEF Closes
  <2> QED  BY <1>4, <1>7, <2>3, <2>4 DEF Confirms
<1> QED  BY <1>2, <1>6, <1>7

LEMMA TakePacketTrack == ASSUME Tracked, TypeInv', Clean', TakePacket(Receiver) PROVE Acked'
<1>1. /\ pc[Receiver] = "recv" /\ chan[Receiver] # << >> /\ Head(chan[Receiver]).crc
      /\ held' = Head(chan[Receiver]) /\ Puts(Receiver, Byte("ack"), Tail(chan[Receiver]))
      /\ pc'[Receiver] = "store" /\ pc'[Sender] = pc[Sender]
      /\ UNCHANGED <<op, try, pos, file, verdict, junk>>
  BY TakePacketIs, TrackedIs DEF Tracked
<1>2. TypeInv /\ Sender' = Sender /\ Receiver' = Receiver
  BY <1>1, TrackStep
<1>3. OnItsWay
  BY <1>1, AtReceive, SidesAre DEF Transfers, Idle, Asked, Acked, Going
<1>4. PICK m \in Item : chan[Receiver] = <<m>> /\ Due(m)
  BY <1>3 DEF OnItsWay
<1>5. held' = m /\ m = At(pos[Sender]) /\ Tail(chan[Receiver]) = << >>
  BY <1>1, <1>4, Shorts DEF Due
<1>6. chan'[Sender] = <<Byte("ack")>> /\ chan'[Receiver] = << >> /\ Spent' = Spent
  BY <1>1, <1>2, <1>3, <1>5, ByteClean, TrackedIs, TextsAreItems, Shorts DEF OnItsWay
<1>7. pos[Sender] = pos[Receiver] /\ Taken' = pos[Receiver] + 1
  BY <1>1, <1>2, <1>3 DEF OnItsWay, Taken
<1>8. Moving'
  BY <1>1, <1>2, <1>3, <1>5, <1>6, <1>7 DEF OnItsWay, Moving, Keeps, Untold
<1> QED  BY <1>1, <1>2, <1>3, <1>6, <1>7, <1>8 DEF OnItsWay, Acked

LEMMA NakPacketTrack == ASSUME Tracked, TypeInv', Clean', NakPacket(Receiver) PROVE Asked'
<1>1. /\ pc[Receiver] = "recv" /\ chan[Receiver] # << >> /\ ~Head(chan[Receiver]).crc
      /\ Puts(Receiver, Byte("nak"), Tail(chan[Receiver]))
      /\ pc'[Receiver] = "recv" /\ pc'[Sender] = pc[Sender]
      /\ try'[Receiver] = try[Receiver] + 1 /\ try'[Sender] = try[Sender]
      /\ UNCHANGED <<op, pos, held, file, verdict, junk>>
  BY NakPacketIs, TrackedIs DEF Tracked, Naks
<1>2. TypeInv /\ Sender' = Sender /\ Receiver' = Receiver /\ Spent \in Nat
  BY <1>1, TrackStep
<1>3. OnItsWay
  BY <1>1, AtReceive, SidesAre DEF Transfers, Idle, Asked, Acked, Going
<1>4. PICK m \in Item : chan[Receiver] = <<m>> /\ Due(m)
  BY <1>3 DEF OnItsWay
<1>5. try[Sender] <= Spent /\ try[Receiver] < Spent /\ Tail(chan[Receiver]) = << >>
  BY <1>1, <1>2, <1>4, Shorts, TrackedIs DEF Due
<1>6. chan'[Sender] = <<Byte("nak")>> /\ chan'[Receiver] = << >> /\ Spent' = Spent
  BY <1>1, <1>2, <1>3, <1>5, ByteClean, TrackedIs, TextsAreItems, Shorts DEF OnItsWay
<1>7. try'[Receiver] <= Spent'
  BY <1>1, <1>2, <1>5, <1>6, TrackedIs
<1>8. Moving' /\ Taken' = Taken
  BY <1>1, <1>2, <1>3, <1>7 DEF OnItsWay, Moving, Keeps, Untold, Taken
<1> QED  BY <1>1, <1>2, <1>3, <1>5, <1>6, <1>8 DEF OnItsWay, Asked

LEMMA EndOfFileTrack == ASSUME Tracked, TypeInv', Clean', EndOfFile(Receiver) PROVE Closes'
<1>1. pc[Receiver] = "store" /\ held.chunk = 0 /\ UNCHANGED <<op, try, pos, held, file, junk>>
  BY DEF EndOfFile, Holding
<1>2. TypeInv /\ op \in {"PU", "GT"} /\ (op = "PU" => Sender = "host" /\ Receiver = "dev")
      /\ (op = "GT" => Sender = "dev" /\ Receiver = "host")
  BY SidesAre, TrackedIs DEF Tracked
<1>3. (Acked /\ pos[Sender] = Chunks /\ pos[Receiver] = Chunks) \/ Closing \/ Leaving
  <2>1. CASE (Idle \/ OnItsWay \/ Acked) /\ held = At(pos[Receiver])
    <3>1. pos[Receiver] = Chunks /\ pos[Sender] \in 0..Chunks /\ Chunks \in Nat
      BY <1>1, <1>2, <2>1, TrackedIs
    <3>2. Taken = Chunks + 1
      BY <1>1, <3>1 DEF Taken
    <3> QED  BY <2>1, <3>1, <3>2 DEF Idle, OnItsWay, Acked
  <2> QED  BY <1>1, <2>1, AtStore
<1>4. CASE op = "PU"
  <2>1. pos["dev"] = Chunks
    BY <1>2, <1>3, <1>4 DEF Closing, Leaving
  <2>2. DevEnds(chan, "ok")
    BY <1>2, <1>4, <2>1, NoFlash DEF EndOfFile
  <2>3. /\ DevSure' /\ verdict'["host"] = verdict["host"] /\ pc'["host"] = pc["host"]
        /\ chan'["host"] = Append(chan["host"], Byte("text_ok"))
    BY <2>2, DevSaysOk
  <2>4. CASE Acked /\ pos[Sender] = Chunks
    <3>1. chan["host"] = <<Byte("ack")>> /\ Byte("ack") \in Item /\ Byte("text_ok") \in Item
      BY <1>2, <1>4, <2>4, TextsAreItems DEF Acked
    <3>2. Append(<<Byte("ack")>>, Byte("text_ok")) = <<Byte("ack"), Byte("text_ok")>>
      BY <3>1, Shorts
    <3>3. Confirms'
      BY <1>1, <1>2, <1>4, <2>3, <2>4, <3>1, <3>2 DEF Acked, Moving, Untold, Confirms
    <3> QED  BY <3>3 DEF Closes
  <2>5. CASE Closing
    <3>1. chan'["host"] = <<Byte("text_ok")>>
      BY <2>3, <2>5, TextsAreItems, Shorts DEF Closing
    <3>2. LastWord'
      BY <1>1, <1>4, <2>3, <2>5, <3>1 DEF Closing, LastWord, Untold
    <3> QED  BY <3>2 DEF Closes
  <2> QED  BY <1>3, <1>4, <2>4, <2>5 DEF Leaving
<1>5. CASE op = "GT"
  <2>1. Goto("host", "final") /\ UNCHANGED <<verdict, chan, left, seen>>
    BY <1>2, <1>5 DEF EndOfFile
  <2>2. pc'["host"] = "final" /\ pc'["dev"] = pc["dev"]
    BY <1>2, <2>1, GotoIs, SidesAre DEF TypeInv, PlacesOf, HostPlaces
  <2>3. CASE Acked /\ pos[Sender] = Chunks /\ pos[Receiver] = Chunks
    <3>1. Thanked'
      BY <1>1, <1>2, <1>5, <2>1, <2>2, <2>3 DEF Acked, Moving, Untold, Thanked
    <3> QED  BY <3>1 DEF Closes
  <2>4. CASE Leaving
    <3>1. LastWord'
      BY <1>1, <2>1, <2>2, <2>4 DEF Leaving, LastWord, DevSure
    <3> QED  BY <3>1 DEF Closes
  <2> QED  BY <1>3, <1>5, <2>3, <2>4 DEF Closing
<1> QED  BY <1>2, <1>4, <1>5

LEMMA StoreChunkTrack == ASSUME Tracked, TypeInv', Clean', StoreChunk(Receiver) PROVE Transfers'
<1>1. /\ pc[Receiver] = "store" /\ held.chunk # 0
      /\ pos'[Receiver] = pos[Receiver] + 1 /\ pos'[Sender] = pos[Sender]
      /\ try'[Receiver] = 0 /\ try'[Sender] = try[Sender]
      /\ pc'[Receiver] = "recv" /\ pc'[Sender] = pc[Sender]
      /\ UNCHANGED <<op, held, verdict, junk, chan, left, seen>>
  BY StoreChunkIs, TrackedIs DEF Tracked, Clean
<1>2. TypeInv /\ Sender' = Sender /\ Receiver' = Receiver /\ Spent \in Nat /\ Spent' = Spent
  BY <1>1, TrackStep DEF Spent
<1>3. Idle \/ OnItsWay \/ Acked
  BY <1>1, AtStore DEF Closing, Leaving
<1>4. Moving' /\ Taken' = Taken
  BY <1>1, <1>2, <1>3 DEF Idle, OnItsWay, Acked, Moving, Keeps, Untold, Taken
<1>5. \A m : Due(m) => Due(m)'
  BY <1>1, <1>2, TrackedIs DEF Due
<1>6. CASE Idle
  BY <1>1, <1>2, <1>4, <1>6 DEF Idle, Transfers
<1>7. CASE OnItsWay
  <2>1. PICK m \in Item : chan[Receiver] = <<m>> /\ Due(m)
    BY <1>7 DEF OnItsWay
  <2>2. chan'[Receiver] = <<m>> /\ Due(m)'
    BY <1>1, <1>5, <2>1
  <2>3. OnItsWay'
    BY <1>1, <1>2, <1>4, <1>7, <2>2 DEF OnItsWay
  <2> QED  BY <2>3 DEF Transfers
<1>8. CASE Acked
  BY <1>1, <1>2, <1>4, <1>8 DEF Acked, Transfers
<1> QED  BY <1>3, <1>6, <1>7, <1>8

LEMMA HostFinalTrack == ASSUME Tracked, TypeInv', Clean', HostFinal PROVE BothSure'
<1>1. pc["host"] = "final" /\ chan["host"] # << >> /\ UNCHANGED <<op, try, pos, held, file, junk>>
  BY DEF HostFinal
<1>2. LastWord
  BY <1>1, AtEnds DEF Closing, Thanked
<1>3. Head(chan["host"]).k = "text_ok" /\ (op = "GT" => pos["host"] = Chunks)
  BY <1>2, TextsAreItems, Shorts DEF LastWord
<1>4. HostEnds("ok")
  BY <1>3 DEF HostFinal
<1>5. pc'["host"] = "done" /\ pc'["dev"] = pc["dev"]
  BY <1>4, GotoIs, SidesAre DEF HostEnds, Tracked, TypeInv, PlacesOf, HostPlaces
<1>6. verdict'["host"] = "ok" /\ verdict'["dev"] = verdict["dev"]
  BY <1>4, SidesAre DEF HostEnds, Tracked, TypeInv, VerdictTyped
<1> QED  BY <1>2, <1>5, <1>6 DEF LastWord, BothSure, DevSure

\* The command line of a device that is done is nobody's concern.
LEMMA DevReadsJunkTrack == ASSUME Tracked, TypeInv', Clean', DevReadsJunk PROVE OnTrack'
<1>1. /\ pc["dev"] = "repl" /\ chan["dev"] # << >> /\ Head(chan["dev"]).k # "cmd" /\ Reads("dev")
      /\ UNCHANGED <<op, pc, try, pos, held, file, verdict>>
  BY DevReadsJunkIs DEF Tracked, DevReadsJunk
<1>2. verdict["dev"] # "none"
  <2>1. ~Fresh /\ ~Called
    BY <1>1, TextsAreItems, Shorts DEF Fresh, Called
  <2> QED  BY <1>1, <2>1, AtEnds
<1>3. chan'["host"] = chan["host"]
  BY <1>1, ReadsSize, SidesAre DEF Tracked
<1>4. Confirms \/ Leaving \/ LastWord \/ BothSure
  BY <1>1, <1>2 DEF Tracked, OnTrack, Begins, Fresh, Called, Readied, Going, Early, AtStart, Untold,
     Transfers, Idle, OnItsWay, Asked, Acked, Moving, Closes, Closing, Thanked
<1>5. Confirms' \/ Leaving' \/ LastWord' \/ BothSure'
  BY <1>1, <1>3, <1>4 DEF Confirms, Leaving, LastWord, BothSure, DevSure
<1> QED  BY <1>5 DEF OnTrack, Closes

LEMMA InitTrack == ASSUME Init PROVE Track
<1>1. Fresh
  BY SidesAre DEF Init, Fresh, AtStart, Untold
<1> QED  BY <1>1 DEF Track, OnTrack, Begins

LEMMA NextTrack == ASSUME TypeInv, Track, TypeInv', [Next]_vars PROVE Track'
<1> SUFFICES ASSUME Clean' PROVE OnTrack'
  BY DEF Track
<1>1. Tracked
  BY CleanBefore DEF Track, Tracked
<1>2. ASSUME NEW s \in Side, Sends(s) PROVE OnTrack'
  <2>1. s = Sender
    BY <1>2 DEF Sends, SendPacket, SenderGivesUp, AckedChunk, AckedEnd, Refused, Cancelled,
       AnswerTimeout, Answered
  <2>2. SendPacket(Sender) \/ AckedChunk(Sender) \/ AckedEnd(Sender) \/ Refused(Sender)
    BY <1>1, <1>2, <2>1, NoSurrender, NoTimeouts DEF Sends
  <2> QED  BY <1>1, <2>2, SendPacketTrack, AckedChunkTrack, AckedEndTrack, RefusedTrack
           DEF OnTrack, Transfers
<1>3. ASSUME NEW s \in Side, Receives(s) PROVE OnTrack'
  <2>1. s = Receiver
    BY <1>3 DEF Receives, TakePacket, NakPacket, StartPartial, TakeCancel, SkipToSoh, FillPartial,
       Arriving, ReceiveTimeout, ReceiverGivesUp, EndOfFile, WrongTurn, Overflow, StoreChunk, Holding
  <2>2. TakePacket(Receiver) \/ NakPacket(Receiver) \/ EndOfFile(Receiver) \/ StoreChunk(Receiver)
    BY <1>1, <1>3, <2>1, NoSurrender, NoTimeouts DEF Receives
  <2> QED  BY <1>1, <2>2, TakePacketTrack, NakPacketTrack, EndOfFileTrack, StoreChunkTrack
           DEF OnTrack, Transfers
<1>4. CASE HostCommand \/ HostReady \/ HostReadyTimeout \/ HostFinal \/ HostFinalTimeout
  BY <1>1, <1>4, SidesAre, NoTimeouts, HostCommandTrack, HostReadyTrack, HostFinalTrack
     DEF OnTrack, Begins, Closes
<1>5. CASE DevOpens \/ DevGo \/ DevGoTimeout \/ DevReadFails \/ DevReadsJunk
  <2>1. ~DevReadFails
    BY <1>1, DevReadFailsIs DEF Tracked, Clean
  <2> QED  BY <1>1, <1>5, <2>1, SidesAre, NoTimeouts, DevOpensTrack, DevGoTrack, DevReadsJunkTrack
           DEF OnTrack, Begins
<1>6. CASE UNCHANGED vars
  <2>1. Sender' = Sender /\ Receiver' = Receiver
    BY <1>6, SidesStay DEF vars, ends
  <2>2. Spent' = Spent /\ Taken' = Taken /\ (Keeps' <=> Keeps) /\ (Untold' <=> Untold) /\ (DevSure' <=> DevSure)
    BY <1>6, <2>1 DEF vars, ends, Spent, Taken, Keeps, Untold, DevSure
  <2>3. \A m : Due(m)' <=> Due(m)
    BY <1>6, <2>1, <2>2 DEF vars, ends, Due
  <2>4. Begins' <=> Begins
    BY <1>6, <2>2, <2>3 DEF vars, ends, Begins, Fresh, Called, Readied, Going, Early, AtStart
  <2>5. Transfers' <=> Transfers
    BY <1>6, <2>1, <2>2, <2>3 DEF vars, ends, Transfers, Idle, OnItsWay, Asked, Acked, Moving
  <2>6. Closes' <=> Closes
    BY <1>6, <2>2 DEF vars, ends, Closes, Confirms, Closing, Thanked, Leaving, LastWord, BothSure
  <2> QED  BY <1>1, <2>4, <2>5, <2>6 DEF Tracked, OnTrack
<1> QED  BY <1>2, <1>3, <1>4, <1>5, <1>6, SidesAre DEF Next, HostNext, DevNext

\* As long as all that happens on the line is that the payloads of packets are
\* garbled, and fewer of them than a packet has tries, a transfer that is over is
\* one that both ends call a success.
THEOREM FileRepairsDamage == Spec => []RepairsDamage
<1> DEFINE Inv == TypeInv /\ Track
<1>1. Init => Inv
  BY InitTyped, InitTrack
<1>2. Inv /\ [Next]_vars => Inv'
  BY NextTyped, NextTrack
<1>3. Inv => RepairsDamage
  <2> SUFFICES ASSUME TypeInv, Track, Over, seen \subseteq {"garbled"}, left > MaxMishaps - MaxRetries
               PROVE  verdict["host"] = "ok" /\ verdict["dev"] = "ok"
    BY DEF RepairsDamage
  <2>1. left \in Nat /\ MaxMishaps \in Nat /\ MaxRetries \in Nat
    BY BoundsAreNat DEF TypeInv, LineTyped
  <2>2. Spent < MaxRetries
    BY <2>1 DEF Spent
  <2>3. Tracked
    BY <2>2 DEF Track, Tracked, Clean
  <2> QED  BY <2>3, AtEnds DEF Over, BothSure, DevSure
<1> QED  BY <1>1, <1>2, <1>3, PTL DEF Spec

=============================================================================
