---------------------------- MODULE FileTransfer ----------------------------
(***************************************************************************)
(* One PU (host to device) or GT (device to host) of the file shell: the   *)
(* device's end in App/Src/fs_shell_hrn.c, the host's in                   *)
(* scripts/fs_shell/xfer.py, and the serial line between them.             *)
(*                                                                         *)
(* The two ends run the same stop-and-wait protocol, so a step of the      *)
(* sender or of the receiver is one action with the side as a parameter;   *)
(* where the C and the Python differ, the difference is a disjunct.        *)
(*                                                                         *)
(* The line carries items: a packet, or one byte, or a line of text.  A    *)
(* chunk is its position in the file, and 0 an empty payload, which ends   *)
(* the transfer.  What can go wrong is a "mishap", and a behaviour has at  *)
(* most MaxMishaps of them.                                                *)
(***************************************************************************)
EXTENDS Naturals, Sequences

CONSTANTS Chunks,       \* the file's length in chunks; the announced size
          SeqMod,       \* the sequence number is a byte: 256
          MaxRetries,   \* R_MAX_RETRIES, tries per packet on either side
          MaxMishaps,   \* bound: mishaps in a behaviour
          Mishaps,      \* the kinds that may happen
          Ops           \* the commands that may be given

PacketMishaps == {"garbled", "cut", "dropped", "header"}
ByteMishaps == {"lost", "noise"}

ASSUME TransferAssumption ==
    /\ Chunks \in Nat \ {0} /\ SeqMod \in Nat /\ SeqMod > 2
    /\ MaxRetries \in Nat \ {0} /\ MaxMishaps \in Nat
    /\ Mishaps \subseteq PacketMishaps \cup ByteMishaps \cup {"late", "flash"}
    /\ Ops \subseteq {"PU", "GT"}

VARIABLES
    op,        \* the command
    pc,        \* where each side is
    try,       \* tries used for the packet in hand
    pos,       \* chunks sent and acknowledged, or received in order
    held,      \* the packet the receiver has just acknowledged
    chan,      \* what is on its way to each side
    file,      \* what the receiving side has stored
    verdict,   \* how each side says it ended
    junk,      \* the device's command line holds bytes of no command
    left,      \* mishaps still allowed
    seen       \* history: the kinds that happened

ends == <<op, pc, try, pos, held, file, verdict, junk>>
vars == <<ends, chan, left, seen>>

Side == {"dev", "host"}
Peer(s) == IF s = "dev" THEN "host" ELSE "dev"
Sender == IF op = "PU" THEN "host" ELSE "dev"
Receiver == Peer(Sender)

Source == [i \in 1..Chunks |-> i]
Garbage == Chunks + 1   \* what a chunk becomes when its bytes are damaged
Byte(k) == [k |-> k, seq |-> 0, chunk |-> 0, crc |-> TRUE]
Packet(seq, chunk) == [k |-> "pkt", seq |-> seq, chunk |-> chunk, crc |-> TRUE]
Multibyte(m) == m.k \in {"pkt", "part", "text_ok", "text_error"}

----------------------------------------------------------------------------
\* What the line may do to an item: the sequence that arrives instead.  The
\* CRC covers the payload alone, so a packet whose sequence number changed,
\* or whose length became 0 in front of four zero bytes, still looks right.
\* Of a packet without its SOH the receiver only sees a byte that is CAN.
Spoilt(kind, m) ==
    IF m.k = "pkt"
    THEN CASE kind = "garbled" ->
                  {<<[m EXCEPT !.crc = FALSE, !.chunk = IF @ = 0 THEN 0 ELSE Garbage]>>}
           [] kind = "cut"     -> {<<[m EXCEPT !.k = "part"]>>}
           [] kind = "dropped" -> {<< >>, <<Byte("can")>>}
           [] kind = "header"  -> {<<[m EXCEPT !.seq = q]>> :
                                       q \in 0..(SeqMod - 1) \ {m.seq}}
                                  \cup {<<[m EXCEPT !.chunk = 0]>>}
           [] OTHER            -> {}
    ELSE CASE kind = "lost"    -> {<< >>}
           [] kind = "noise"   -> {<<Byte("noise")>>}
           [] OTHER            -> {}

Mishap(kind) ==
    /\ kind \in Mishaps
    /\ left > 0
    /\ left' = left - 1
    /\ seen' = seen \cup {kind}

Quiet == UNCHANGED <<left, seen>>

\* The item m sets out for side s, over the channels ch.
SendOver(ch, s, m) ==
    \/ chan' = [ch EXCEPT ![s] = Append(@, m)] /\ Quiet
    \/ \E kind \in Mishaps : \E arrives \in Spoilt(kind, m) :
          Mishap(kind) /\ chan' = [ch EXCEPT ![s] = @ \o arrives]

Rest(s) == [chan EXCEPT ![s] = Tail(@)]
Consume(s) == chan' = Rest(s) /\ Quiet

\* Side s is blocked in a read that ends by itself.
Waiting(s) == pc[s] \in {"ready", "go", "go2", "answer", "recv", "mid", "final",
                         "repl", "done"}

\* Nothing is on its way to s, and nothing will set out for it by itself.
Silent(s) ==
    /\ chan[s] = << >>
    /\ pc[Peer(s)] = "done" \/ (Waiting(Peer(s)) /\ chan[Peer(s)] = << >>)

\* A time limit of s expires.  Each side answers at once and waits seconds,
\* so it only expires in silence, unless an answer is late.
Expires(s) ==
    /\ UNCHANGED chan
    /\ IF Silent(s) THEN Quiet ELSE Mishap("late")

ExpiresThenSend(s, m) ==
    IF Silent(s)
    THEN SendOver(chan, Peer(s), m)
    ELSE /\ Mishap("late")
         /\ chan' = [chan EXCEPT ![Peer(s)] = Append(@, m)]

Goto(s, where) == pc' = [pc EXCEPT ![s] = where]

----------------------------------------------------------------------------
\* Endings.  The device closes the file, prints a frame and is back in its
\* command loop; a host that gives up sends CAN.
DevEnds(ch, how) ==
    /\ verdict' = [verdict EXCEPT !["dev"] = how]
    /\ Goto("dev", "repl")
    /\ SendOver(ch, "host", Byte(IF how = "ok" THEN "text_ok" ELSE "text_error"))

HostEnds(how) ==
    /\ verdict' = [verdict EXCEPT !["host"] = how]
    /\ Goto("host", "done")

HostCancels(ch) == HostEnds("fail") /\ SendOver(ch, "dev", Byte("can"))

GivesUp(s, ch, why) == IF s = "dev" THEN DevEnds(ch, why) ELSE HostCancels(ch)

\* The file system refuses.
DevEndsOnFlash(ch, how) ==
    /\ Mishap("flash")
    /\ chan' = [ch EXCEPT !["host"] = Append(@, Byte("text_error"))]
    /\ verdict' = [verdict EXCEPT !["dev"] = how]
    /\ Goto("dev", "repl")

----------------------------------------------------------------------------
\* Opening: command, ready line, GO.

HostCommand ==
    /\ pc["host"] = "start"
    /\ SendOver(chan, "dev", Byte("cmd"))
    /\ Goto("host", "ready")
    /\ UNCHANGED <<op, try, pos, held, file, verdict, junk>>

DevOpens ==
    /\ pc["dev"] = "repl" /\ verdict["dev"] = "none"
    /\ chan["dev"] # << >> /\ Head(chan["dev"]).k = "cmd"
    /\ \/ /\ SendOver(Rest("dev"), "host", Byte("ready"))
          /\ Goto("dev", "go")
          /\ UNCHANGED verdict
       \/ DevEndsOnFlash(Rest("dev"), "open")
    /\ UNCHANGED <<op, try, pos, held, file, junk>>

\* The host throws away what else has arrived, then says GO.
HostReady ==
    /\ pc["host"] = "ready" /\ chan["host"] # << >>
    /\ IF Head(chan["host"]).k = "ready"
       THEN /\ SendOver([chan EXCEPT !["host"] = << >>], "dev", Byte("ack"))
            /\ Goto("host", IF op = "PU" THEN "send" ELSE "recv")
       ELSE Consume("host") /\ UNCHANGED pc
    /\ UNCHANGED <<op, try, pos, held, file, verdict, junk>>

HostReadyTimeout ==
    /\ pc["host"] = "ready"
    /\ Expires("host")
    /\ HostEnds("fail")
    /\ UNCHANGED <<op, try, pos, held, file, junk>>

\* PU takes ACK for GO and forgives one stray byte; GT takes any byte but CAN.
DevGo ==
    /\ pc["dev"] \in {"go", "go2"} /\ chan["dev"] # << >>
    /\ LET m == Head(chan["dev"]) IN
       \/ /\ IF op = "PU" THEN m.k = "ack" ELSE m.k # "can"
          /\ Goto("dev", IF op = "PU" THEN "recv" ELSE "send")
          /\ Consume("dev") /\ UNCHANGED verdict
       \/ /\ op = "PU" /\ pc["dev"] = "go" /\ m.k \notin {"ack", "can"}
          /\ ~Multibyte(m)
          /\ Goto("dev", "go2")
          /\ Consume("dev") /\ UNCHANGED verdict
       \/ /\ \/ m.k = "can"
             \/ op = "PU" /\ m.k # "ack" /\ (pc["dev"] = "go2" \/ Multibyte(m))
          /\ DevEnds(Rest("dev"), "nogo")
    /\ UNCHANGED <<op, try, pos, held, file, junk>>

DevGoTimeout ==
    /\ pc["dev"] \in {"go", "go2"}
    /\ ExpiresThenSend("dev", Byte("text_error"))
    /\ verdict' = [verdict EXCEPT !["dev"] = "nogo"]
    /\ Goto("dev", "repl")
    /\ UNCHANGED <<op, try, pos, held, file, junk>>

----------------------------------------------------------------------------
\* The sender: i_send_data_pkt and _send_pkt, and the loops around them.

NextPacket(s) ==
    Packet(pos[s] % SeqMod, IF pos[s] < Chunks THEN Source[pos[s] + 1] ELSE 0)

\* Mutant: one try too many.
SendPacketOnceMore(s) ==
    /\ s = Sender /\ pc[s] = "send" /\ try[s] <= MaxRetries
    /\ SendOver(chan, Peer(s), NextPacket(s))
    /\ try' = [try EXCEPT ![s] = @ + 1]
    /\ Goto(s, "answer")
    /\ UNCHANGED <<op, pos, held, file, verdict, junk>>

SendPacket(s) ==
    /\ s = Sender /\ pc[s] = "send" /\ try[s] < MaxRetries
    /\ SendOver(chan, Peer(s), NextPacket(s))
    /\ try' = [try EXCEPT ![s] = @ + 1]
    /\ Goto(s, "answer")
    /\ UNCHANGED <<op, pos, held, file, verdict, junk>>

SenderGivesUp(s) ==
    /\ s = Sender /\ pc[s] = "send" /\ try[s] = MaxRetries
    /\ GivesUp(s, chan, IF pos[s] < Chunks THEN "xfer" ELSE "eot")
    /\ UNCHANGED <<op, try, pos, held, file, junk>>

\* The device reads the next chunk from the file before it sends it.
DevReadFails ==
    /\ Sender = "dev" /\ pc["dev"] = "send" /\ try["dev"] = 0 /\ pos["dev"] < Chunks
    /\ Mishap("flash")
    /\ chan' = [chan EXCEPT !["host"] = @ \o <<Byte("can"), Byte("text_error")>>]
    /\ verdict' = [verdict EXCEPT !["dev"] = "read"]
    /\ Goto("dev", "repl")
    /\ UNCHANGED <<op, try, pos, held, file, junk>>

\* An answer other than ACK and CAN is a reason to send again.  Of a line of
\* text it is one byte, and there are more where that came from.
Answered(s) == s = Sender /\ pc[s] = "answer" /\ chan[s] # << >>

AckedChunk(s) ==
    /\ Answered(s) /\ Head(chan[s]).k = "ack" /\ pos[s] < Chunks
    /\ pos' = [pos EXCEPT ![s] = @ + 1]
    /\ try' = [try EXCEPT ![s] = 0]
    /\ Goto(s, "send")
    /\ Consume(s)
    /\ UNCHANGED <<op, held, file, verdict, junk>>

AckedEnd(s) ==
    /\ Answered(s) /\ Head(chan[s]).k = "ack" /\ pos[s] = Chunks
    /\ \/ s = "host" /\ Goto(s, "final") /\ Consume(s) /\ UNCHANGED verdict
       \/ s = "dev" /\ DevEnds(Rest(s), "ok")
       \/ s = "dev" /\ DevEndsOnFlash(Rest(s), "close")
    /\ UNCHANGED <<op, try, pos, held, file, junk>>

\* Mutant: a NAK ends the transfer like a CAN.
RefusedGivesUp(s) ==
    /\ Answered(s) /\ Head(chan[s]).k \notin {"ack", "can"}
    /\ GivesUp(s, Rest(s), "xfer")
    /\ UNCHANGED <<op, try, pos, held, file, junk>>

Refused(s) ==
    /\ Answered(s) /\ Head(chan[s]).k \notin {"ack", "can"}
    /\ Goto(s, "send")
    /\ IF Multibyte(Head(chan[s])) THEN UNCHANGED <<chan, left, seen>> ELSE Consume(s)
    /\ UNCHANGED <<op, try, pos, held, file, verdict, junk>>

Cancelled(s) ==
    /\ Answered(s) /\ Head(chan[s]).k = "can"
    /\ GivesUp(s, Rest(s), "xfer")
    /\ UNCHANGED <<op, try, pos, held, file, junk>>

\* Mutant: a time-out does not count as a try.
AnswerTimeoutForgiven(s) ==
    /\ s = Sender /\ pc[s] = "answer"
    /\ Expires(s)
    /\ try' = [try EXCEPT ![s] = @ - 1]
    /\ Goto(s, "send")
    /\ UNCHANGED <<op, pos, held, file, verdict, junk>>

AnswerTimeout(s) ==
    /\ s = Sender /\ pc[s] = "answer"
    /\ Expires(s)
    /\ Goto(s, "send")
    /\ UNCHANGED <<op, try, pos, held, file, verdict, junk>>

----------------------------------------------------------------------------
\* The receiver: i_recv_data_pkt and _recv_pkt.  "recv" skips to the next
\* SOH; "mid" is inside a packet that lost bytes, and takes what comes next
\* for the missing ones.

Arriving(s) ==
    /\ s = Receiver /\ pc[s] \in {"recv", "mid"} /\ try[s] < MaxRetries
    /\ chan[s] # << >>

\* Mutant: the CRC is not looked at.
TakePacketUnchecked(s) ==
    /\ Arriving(s) /\ pc[s] = "recv"
    /\ Head(chan[s]).k = "pkt"
    /\ held' = Head(chan[s])
    /\ SendOver(Rest(s), Peer(s), Byte("ack"))
    /\ Goto(s, "store")
    /\ UNCHANGED <<op, try, pos, file, verdict, junk>>

TakePacket(s) ==
    /\ Arriving(s) /\ pc[s] = "recv"
    /\ Head(chan[s]).k = "pkt" /\ Head(chan[s]).crc
    /\ held' = Head(chan[s])
    /\ SendOver(Rest(s), Peer(s), Byte("ack"))
    /\ Goto(s, "store")
    /\ UNCHANGED <<op, try, pos, file, verdict, junk>>

NakPacket(s) ==
    /\ Arriving(s) /\ pc[s] = "recv"
    /\ Head(chan[s]).k = "pkt" /\ ~Head(chan[s]).crc
    /\ SendOver(Rest(s), Peer(s), Byte("nak"))
    /\ try' = [try EXCEPT ![s] = @ + 1]
    /\ UNCHANGED <<op, pc, pos, held, file, verdict, junk>>

StartPartial(s) ==
    /\ Arriving(s) /\ pc[s] = "recv" /\ Head(chan[s]).k = "part"
    /\ Goto(s, "mid")
    /\ Consume(s)
    /\ UNCHANGED <<op, try, pos, held, file, verdict, junk>>

\* A CAN counts between packets only.
TakeCancel(s) ==
    /\ Arriving(s) /\ pc[s] = "recv" /\ Head(chan[s]).k = "can"
    /\ GivesUp(s, Rest(s), "xfer")
    /\ UNCHANGED <<op, try, pos, held, file, junk>>

SkipToSoh(s) ==
    /\ Arriving(s) /\ pc[s] = "recv" /\ Head(chan[s]).k \notin {"pkt", "part", "can"}
    /\ Consume(s)
    /\ UNCHANGED <<op, pc, try, pos, held, file, verdict, junk>>

\* The item is too short for the gap, or fills it and fails the CRC; what is
\* left of a long one may hold a byte that looks like SOH, or first one that
\* looks like CAN, which ends the tries.
FillPartial(s) ==
    /\ Arriving(s) /\ pc[s] = "mid"
    /\ \/ Consume(s) /\ UNCHANGED <<pc, try>>
       \/ /\ SendOver(Rest(s), Peer(s), Byte("nak"))
          /\ \/ try' = [try EXCEPT ![s] = @ + 1] /\ Goto(s, "recv")
             \/ /\ Multibyte(Head(chan[s]))
                /\ \/ try' = [try EXCEPT ![s] = @ + 1] /\ UNCHANGED pc
                   \/ try' = [try EXCEPT ![s] = MaxRetries] /\ Goto(s, "recv")
    /\ UNCHANGED <<op, pos, held, file, verdict, junk>>

ReceiveTimeout(s) ==
    /\ s = Receiver /\ pc[s] \in {"recv", "mid"} /\ try[s] < MaxRetries
    /\ ExpiresThenSend(s, Byte("nak"))
    /\ try' = [try EXCEPT ![s] = @ + 1]
    /\ Goto(s, "recv")
    /\ UNCHANGED <<op, pos, held, file, verdict, junk>>

ReceiverGivesUp(s) ==
    /\ s = Receiver /\ pc[s] \in {"recv", "mid"} /\ try[s] = MaxRetries
    /\ GivesUp(s, chan, "xfer")
    /\ UNCHANGED <<op, try, pos, held, file, junk>>

----------------------------------------------------------------------------
\* What is done with a packet once it has been acknowledged.

Holding(s) == s = Receiver /\ pc[s] = "store"
InTurn(s) == held.seq = pos[s] % SeqMod

\* Any sequence number will do for the end.
EndOfFile(s) ==
    /\ Holding(s) /\ held.chunk = 0
    /\ \/ s = "host" /\ Goto(s, "final") /\ UNCHANGED <<verdict, chan, left, seen>>
       \/ s = "dev" /\ pos[s] # Chunks /\ DevEnds(chan, "short")
       \/ s = "dev" /\ pos[s] = Chunks /\ DevEnds(chan, "ok")
       \/ s = "dev" /\ DevEndsOnFlash(chan, "close")
    /\ UNCHANGED <<op, try, pos, held, file, junk>>

WrongTurn(s) ==
    /\ Holding(s) /\ held.chunk # 0 /\ ~InTurn(s)
    /\ GivesUp(s, chan, "seq")
    /\ UNCHANGED <<op, try, pos, held, file, junk>>

\* The device looks at the size before it writes; the host after it has
\* extended the bytes that this failure makes it throw away.
Overflow(s) ==
    /\ Holding(s) /\ held.chunk # 0 /\ InTurn(s) /\ pos[s] = Chunks
    /\ GivesUp(s, chan, "overflow")
    /\ UNCHANGED <<op, try, pos, held, file, junk>>

StoreChunk(s) ==
    /\ Holding(s) /\ held.chunk # 0 /\ InTurn(s) /\ pos[s] < Chunks
    /\ \/ /\ file' = Append(file, held.chunk)
          /\ pos' = [pos EXCEPT ![s] = @ + 1]
          /\ try' = [try EXCEPT ![s] = 0]
          /\ Goto(s, "recv")
          /\ UNCHANGED <<verdict, chan, left, seen>>
       \/ /\ s = "dev" /\ DevEndsOnFlash(chan, "write")
          /\ UNCHANGED <<file, pos, try>>
    /\ UNCHANGED <<op, held, junk>>

----------------------------------------------------------------------------
\* The host's last wait, for the frame with rc; a GT does without it.

HostFinal ==
    /\ pc["host"] = "final" /\ chan["host"] # << >>
    /\ Consume("host")
    /\ LET k == Head(chan["host"]).k IN
       IF k \in {"text_ok", "text_error"}
       THEN HostEnds(IF k = "text_ok" /\ (op = "GT" => pos["host"] = Chunks)
                     THEN "ok" ELSE "fail")
       ELSE UNCHANGED <<pc, verdict>>
    /\ UNCHANGED <<op, try, pos, held, file, junk>>

\* Mutant: a PU does without the last frame too.
HostFinalTimeoutHopeful ==
    /\ pc["host"] = "final"
    /\ Expires("host")
    /\ HostEnds(IF op = "PU" \/ pos["host"] = Chunks THEN "ok" ELSE "fail")
    /\ UNCHANGED <<op, try, pos, held, file, junk>>

HostFinalTimeout ==
    /\ pc["host"] = "final"
    /\ Expires("host")
    /\ HostEnds(IF op = "GT" /\ pos["host"] = Chunks THEN "ok" ELSE "fail")
    /\ UNCHANGED <<op, try, pos, held, file, junk>>

\* The command loop takes whatever comes for the beginning of a command.
DevReadsJunk ==
    /\ pc["dev"] = "repl" /\ chan["dev"] # << >>
    /\ Head(chan["dev"]).k # "cmd"
    /\ Consume("dev")
    /\ junk' = TRUE
    /\ UNCHANGED <<op, pc, try, pos, held, file, verdict>>

----------------------------------------------------------------------------
Init ==
    /\ op \in Ops
    /\ pc = [dev |-> "repl", host |-> "start"]
    /\ try = [s \in Side |-> 0] /\ pos = [s \in Side |-> 0]
    /\ held = Packet(0, 0)
    /\ chan = [s \in Side |-> << >>]
    /\ file = << >>
    /\ verdict = [s \in Side |-> "none"]
    /\ junk = FALSE
    /\ left = MaxMishaps /\ seen = {}

Sends(s) ==
    \/ SendPacket(s) \/ SenderGivesUp(s) \/ AckedChunk(s) \/ AckedEnd(s)
    \/ Refused(s) \/ Cancelled(s) \/ AnswerTimeout(s)

Receives(s) ==
    \/ TakePacket(s) \/ NakPacket(s) \/ StartPartial(s) \/ TakeCancel(s)
    \/ SkipToSoh(s) \/ FillPartial(s) \/ ReceiveTimeout(s) \/ ReceiverGivesUp(s)
    \/ EndOfFile(s) \/ WrongTurn(s) \/ Overflow(s) \/ StoreChunk(s)

HostNext ==
    \/ HostCommand \/ HostReady \/ HostReadyTimeout \/ HostFinal \/ HostFinalTimeout
    \/ Sends("host") \/ Receives("host")

DevNext ==
    \/ DevOpens \/ DevGo \/ DevGoTimeout \/ DevReadFails \/ DevReadsJunk
    \/ Sends("dev") \/ Receives("dev")

Next == HostNext \/ DevNext

\* Neither program is ever suspended for good.
Fairness == WF_vars(HostNext) /\ WF_vars(DevNext)

Spec == Init /\ [][Next]_vars /\ Fairness

----------------------------------------------------------------------------
TypeOK ==
    /\ op \in Ops
    /\ pc["dev"] \in {"repl", "go", "go2", "send", "answer", "recv", "mid", "store"}
    /\ pc["host"] \in {"start", "ready", "send", "answer", "recv", "mid", "store",
                       "final", "done"}
    /\ try \in [Side -> 0..MaxRetries] /\ pos \in [Side -> 0..Chunks]
    /\ held \in [k : {"pkt"}, seq : 0..(SeqMod - 1), chunk : 0..Chunks, crc : {TRUE}]
    /\ \A s \in Side : \A i \in DOMAIN chan[s] :
          chan[s][i] \in [k : {"pkt", "part", "ack", "nak", "can", "noise", "cmd",
                               "ready", "text_ok", "text_error"},
                          seq : 0..(SeqMod - 1), chunk : 0..Garbage, crc : BOOLEAN]
    /\ file \in Seq(1..Chunks) /\ Len(file) <= Chunks
    /\ verdict["host"] \in {"none", "ok", "fail"}
    /\ verdict["dev"] \in {"none", "ok", "open", "nogo", "xfer", "seq", "overflow",
                           "write", "short", "eot", "read", "close"}
    /\ junk \in BOOLEAN /\ left \in 0..MaxMishaps /\ seen \subseteq Mishaps

\* put_file and get_file say success only of a file that is complete, in
\* order and unchanged from then on, whatever else the line, the clocks and the
\* file system did, as long as no header has been damaged.  After a damaged
\* header, which the CRC does not cover, nothing is claimed: see the README for
\* a file stored wrong and called a success.
Delivery == INSTANCE FileDelivery WITH
    Chunk <- 1..Chunks, told <- verdict["host"]
DeliversWhole ==
    /\ Delivery!DeliveryInit
    /\ [][Delivery!DeliveryNext \/ "header" \in seen']_(Delivery!deliveryVars)

Over == pc["host"] = "done" /\ pc["dev"] = "repl" /\ verdict["dev"] # "none"

\* A successful PU is one the device has confirmed, close included, and it
\* leaves the device's command line empty for the next command.
OkIsConfirmed ==
    op = "PU" /\ verdict["host"] = "ok" =>
        /\ verdict["dev"] = "ok"
        /\ "late" \notin seen => ~junk /\ chan["dev"] = << >>

\* Stop-and-wait with a CRC repairs what it is made for: packets whose payload
\* is garbled, fewer than there are tries, cost time and not the transfer.
RepairsDamage ==
    Over /\ seen \subseteq {"garbled"} /\ left > MaxMishaps - MaxRetries
        => verdict["host"] = "ok" /\ verdict["dev"] = "ok"

\* host-fs-shell-plan.md:602: "NAK or timeout -> retransmit that seq": a packet
\* sent again is no reason to end the transfer.
RetransmitIsAccepted == verdict["dev"] # "seq"

\* Both ends always come back: the host to its prompt and the device to its
\* command loop, in whatever state the other was left.
BothComeBack == <>[](pc["host"] = "done" /\ pc["dev"] = "repl" /\ chan["dev"] = << >>)
=============================================================================
