------------------------------- MODULE Framing -------------------------------
(***************************************************************************)
(* One connection down to its bytes: the handshakes of peer_worker and     *)
(* inbound_peer_worker (src/peer/peer.cpp), the messages of                *)
(* src/peer/peer_messaging.cpp, and recv_exact and send_all of             *)
(* src/utils/socket_utils.cpp over a TCP stream that takes and hands out   *)
(* any number of bytes at a time.  PeerLoop and Swarm take from here that  *)
(* a message is read whole and as it was sent, or the read fails.          *)
(*                                                                         *)
(* A message is [id, pieces, words, data]: the pieces whose bit is set in  *)
(* a Bitfield, the 32-bit fields of the others, and the bytes after them.  *)
(***************************************************************************)
EXTENDS Naturals, SequencesExt

CONSTANTS
    Protocol,       \* the 19 bytes of "BitTorrent protocol"
    Zero,           \* the 8 reserved bytes
    Hashes,         \* the info_hashes of the torrents there are
    PeerId,         \* the peer_id each end sends
    total_pieces,
    Messages,       \* the messages a thread may send
    MaxMessages,    \* how many are sent before the model stops
    Capacity        \* how many bytes the socket buffers of one direction hold

Ends == {"out", "in"}           \* peer_worker and inbound_peer_worker
Other(e) == IF e = "out" THEN "in" ELSE "out"

Byte == 0 .. 255

Choke == 0
Have == 4
Bitfield == 5
Request == 6
Piece == 7
Cancel == 8
KeepAlive == 255

(* The numbers of four bytes. *)
Word == {n \in Nat : ((n \div 256) \div 256) \div 256 \in Byte}

Message == [id : Byte, pieces : SUBSET (0 .. total_pieces - 1),
            words : Seq(Word), data : Seq(Byte)]

VARIABLES
    info_hash,      \* the torrent of each end
    pc,             \* where the thread of each end is
    out,            \* what its send_all has yet to send
    got,            \* what its recv_exact has received
    len,            \* the length field of the message being read
    id,             \* its id
    wire,           \* the bytes an end sent and the other has not received
    sent,           \* the messages each end sent
    delivered       \* the messages read_message returned to each end

vars == <<info_hash, pc, out, got, len, id, wire, sent, delivered>>

Sending == {"send handshake", "send"}
Receiving == {"recv handshake", "recv length", "recv id", "recv payload"}

-----------------------------------------------------------------------------
(* htonl and ntohl *)
FaultyBigEndian(n) == <<0, 0, 0, n>>        \* only the low byte is stored

BigEndian(n) ==
    LET high == n \div 256
        higher == high \div 256
    IN <<(higher \div 256) % 256, higher % 256, high % 256, n % 256>>

Number(bytes) == 256 * (256 * (256 * bytes[1] + bytes[2]) + bytes[3]) + bytes[4]

Fields(words) == [k \in 1 .. 4 * Len(words) |->
                     BigEndian(words[(k + 3) \div 4])[1 + ((k + 3) % 4)]]

(* The bits of a Bitfield, piece 0 in the highest bit of the first byte.   *)
Weight == <<128, 64, 32, 16, 8, 4, 2, 1>>

Pack(pieces) ==
    [k \in 1 .. (total_pieces + 7) \div 8 |->
        LET bit(j) == IF 8 * (k - 1) + j \in pieces THEN Weight[j + 1] ELSE 0
        IN bit(0) + bit(1) + bit(2) + bit(3) + bit(4) + bit(5) + bit(6) + bit(7)]

FaultyUnpack(bytes) ==                      \* piece 0 in the lowest bit
    {i \in 0 .. total_pieces - 1 :
        /\ i \div 8 < Len(bytes)
        /\ (bytes[i \div 8 + 1] \div Weight[8 - (i % 8)]) % 2 = 1}

Unpack(bytes) ==
    {i \in 0 .. total_pieces - 1 :
        /\ i \div 8 < Len(bytes)
        /\ (bytes[i \div 8 + 1] \div Weight[1 + (i % 8)]) % 2 = 1}

Payload(m) ==
    IF m.id = Bitfield THEN Pack(m.pieces) ELSE Fields(m.words) \o m.data

build_message(m) ==
    IF m.id = KeepAlive THEN BigEndian(0)
    ELSE BigEndian(1 + Len(Payload(m))) \o <<m.id>> \o Payload(m)

(* How many 32-bit fields the handler of a message copies out; a message   *)
(* too short to hold them is ignored.                                      *)
Words(i) == CASE i = Have -> 1
              [] i = Request -> 3
              [] i \in {Piece, Cancel} -> 2
              [] OTHER -> 0

Parsed(i, payload) ==
    [id |-> i,
     pieces |-> IF i = Bitfield THEN Unpack(payload) ELSE {},
     words |-> [w \in 1 .. Words(i) |-> Number(SubSeq(payload, 4 * w - 3, 4 * w))],
     data |-> IF i = Piece THEN SubSeq(payload, 9, Len(payload)) ELSE <<>>]

(* A message as the program sends them: with the fields its id goes with,  *)
(* and short enough for its length field.                                  *)
Sendable(m) ==
    /\ m \in Message
    /\ m.id # Bitfield => m.pieces = {}
    /\ Len(m.words) = Words(m.id)
    /\ m.id # Piece => m.data = <<>>
    /\ 1 + Len(Payload(m)) \in Word

ASSUME FramingAssumption ==
    /\ Protocol \in Seq(Byte) /\ Zero \in Seq(Byte)
    /\ \A h \in Hashes : h \in Seq(Byte)
    /\ \A h, g \in Hashes : Len(h) = Len(g)
    /\ \A e \in Ends : PeerId[e] \in Seq(Byte) /\ Len(PeerId[e]) = Len(PeerId[Other(e)])
    /\ total_pieces \in Nat \ {0}
    /\ \A m \in Messages : Sendable(m)
    /\ MaxMessages \in Nat
    /\ Capacity \in Nat \ {0}

handshake(e) == <<19>> \o Protocol \o Zero \o info_hash[e] \o PeerId[e]

HashAt == 1 + Len(Protocol) + Len(Zero)     \* 28

(* Does an end go on after a handshake?  The one that connected looks at   *)
(* nothing but the torrent.                                                *)
FaultyAccepts(e, hs) ==                     \* the first byte only
    e = "in" => hs[1] = 19

Accepts(e, hs) ==
    /\ e = "in" => hs[1] = 19 /\ SubSeq(hs, 2, 1 + Len(Protocol)) = Protocol
    /\ SubSeq(hs, HashAt + 1, HashAt + Len(info_hash[e])) = info_hash[e]

-----------------------------------------------------------------------------
Init ==
    /\ info_hash \in [Ends -> Hashes]
    /\ pc = [e \in Ends |-> IF e = "out" THEN "send handshake" ELSE "recv handshake"]
    /\ out = [e \in Ends |-> <<>>]
    /\ got = [e \in Ends |-> <<>>]
    /\ len = [e \in Ends |-> 0]
    /\ id = [e \in Ends |-> 0]
    /\ wire = [e \in Ends |-> <<>>]
    /\ sent = [e \in Ends |-> <<>>]
    /\ delivered = [e \in Ends |-> <<>>]

Goto(e, to) == pc' = [pc EXCEPT ![e] = to]

Room(e) == Capacity - Len(wire[e])

(* The stream takes the first n of some bytes.                             *)
Transmit(e, bytes, n) == wire' = [wire EXCEPT ![e] = @ \o SubSeq(bytes, 1, n)]

(* The handshake is one call of send; if that takes less, the thread gives *)
(* up, with a part of it sent.                                             *)
SendHandshake(e) ==
    /\ pc[e] = "send handshake"
    /\ \E n \in 0 .. Len(handshake(e)) :
          /\ n <= Room(e)
          /\ Transmit(e, handshake(e), n)
          /\ Goto(e, CASE n < Len(handshake(e)) -> "closed"
                       [] n = Len(handshake(e)) /\ e = "out" -> "recv handshake"
                       [] n = Len(handshake(e)) /\ e = "in" -> "loop")
    /\ UNCHANGED <<info_hash, out, got, len, id, sent, delivered>>

(* Between two reads a thread sends what it has to.                        *)
SendMessage(e) ==
    /\ pc[e] = "loop"
    /\ Len(sent["out"]) + Len(sent["in"]) < MaxMessages
    /\ \E m \in Messages :
          /\ sent' = [sent EXCEPT ![e] = Append(@, m)]
          /\ out' = [out EXCEPT ![e] = build_message(m)]
    /\ Goto(e, "send")
    /\ UNCHANGED <<info_hash, got, len, id, wire, delivered>>

(* One call of send in send_all: it blocks while the buffers are full.     *)
Send(e) ==
    /\ pc[e] = "send"
    /\ \E n \in 1 .. Len(out[e]) :
          /\ n <= Room(e)
          /\ Transmit(e, out[e], n)
          /\ out' = [out EXCEPT ![e] = SubSeq(@, n + 1, Len(@))]
          /\ Goto(e, IF n = Len(out[e]) THEN "loop" ELSE "send")
    /\ UNCHANGED <<info_hash, got, len, id, sent, delivered>>

(* send fails once the other end is gone; the loop goes on to its read.    *)
SendFails(e) ==
    /\ pc[e] = "send"
    /\ pc[Other(e)] = "closed"
    /\ out' = [out EXCEPT ![e] = <<>>]
    /\ Goto(e, "loop")
    /\ UNCHANGED <<info_hash, got, len, id, wire, sent, delivered>>

(* The thread calls read_message.                                          *)
CallRead(e) ==
    /\ pc[e] = "loop"
    /\ Goto(e, "recv length")
    /\ UNCHANGED <<info_hash, out, got, len, id, wire, sent, delivered>>

(* How many bytes the current recv_exact asks for.                         *)
Wanted(e) ==
    CASE pc[e] = "recv handshake" -> Len(handshake(e))
      [] pc[e] = "recv length" -> 4
      [] pc[e] = "recv id" -> 1
      [] pc[e] = "recv payload" -> len[e] - 1

(* read_message returns a message; its handler ignores it if it is short.  *)
Deliver(e, i, payload) ==
    /\ Goto(e, "loop")
    /\ delivered' = IF Len(payload) < 4 * Words(i) THEN delivered
                    ELSE [delivered EXCEPT ![e] = Append(@, Parsed(i, payload))]

HandshakeRead(e, bytes) ==
    /\ pc[e] = "recv handshake"
    /\ Goto(e, CASE ~ Accepts(e, bytes) -> "closed"
                 [] Accepts(e, bytes) /\ e = "out" -> "loop"
                 [] Accepts(e, bytes) /\ e = "in" -> "send handshake")
    /\ UNCHANGED <<len, id, delivered>>

FaultyLengthRead(e, bytes) ==               \* no special case for zero
    /\ pc[e] = "recv length"
    /\ len' = [len EXCEPT ![e] = Number(bytes)]
    /\ Goto(e, "recv id")
    /\ UNCHANGED <<id, delivered>>

LengthRead(e, bytes) ==
    /\ pc[e] = "recv length"
    /\ len' = [len EXCEPT ![e] = Number(bytes)]
    /\ IF Number(bytes) = 0
          THEN Deliver(e, KeepAlive, <<>>)
          ELSE Goto(e, "recv id") /\ UNCHANGED delivered
    /\ UNCHANGED id

IdRead(e, bytes) ==
    /\ pc[e] = "recv id"
    /\ id' = [id EXCEPT ![e] = bytes[1]]
    /\ IF len[e] > 1
          THEN Goto(e, "recv payload") /\ UNCHANGED delivered
          ELSE Deliver(e, bytes[1], <<>>)
    /\ UNCHANGED len

PayloadRead(e, bytes) ==
    /\ pc[e] = "recv payload"
    /\ Deliver(e, id[e], bytes)
    /\ UNCHANGED <<len, id>>

(* One call of recv in recv_exact, which blocks while nothing has arrived; *)
(* with the last byte, what the caller does with them all.                 *)
Recv(e) ==
    /\ pc[e] \in Receiving
    /\ \E n \in 1 .. Len(wire[Other(e)]) :
          LET bytes == got[e] \o SubSeq(wire[Other(e)], 1, n) IN
          /\ Len(bytes) <= Wanted(e)
          /\ wire' = [wire EXCEPT ![Other(e)] = SubSeq(@, n + 1, Len(@))]
          /\ IF Len(bytes) < Wanted(e)
                THEN /\ got' = [got EXCEPT ![e] = bytes]
                     /\ UNCHANGED <<pc, len, id, delivered>>
                ELSE /\ got' = [got EXCEPT ![e] = <<>>]
                     /\ \/ HandshakeRead(e, bytes)
                        \/ LengthRead(e, bytes)
                        \/ IdRead(e, bytes)
                        \/ PayloadRead(e, bytes)
    /\ UNCHANGED <<info_hash, out, sent>>

(* recv returns 0, or an error that drops what has arrived, once the other *)
(* end is gone.                                                            *)
RecvFails(e) ==
    /\ pc[e] \in Receiving
    /\ pc[Other(e)] = "closed"
    /\ Goto(e, "closed")
    /\ UNCHANGED <<info_hash, out, got, len, id, wire, sent, delivered>>

(* An end goes at any moment: the download is over, or the process killed. *)
Dies(e) ==
    /\ pc[e] # "closed"
    /\ Goto(e, "closed")
    /\ UNCHANGED <<info_hash, out, got, len, id, wire, sent, delivered>>

Thread(e) ==
    \/ SendHandshake(e) \/ Send(e) \/ SendFails(e)
    \/ CallRead(e) \/ Recv(e) \/ RecvFails(e)

Next == \E e \in Ends : Thread(e) \/ SendMessage(e) \/ Dies(e)

Spec == Init /\ [][Next]_vars

(* A thread that can go on does; nothing makes it send, or an end die.     *)
FairSpec == Spec /\ \A e \in Ends : WF_vars(Thread(e))

-----------------------------------------------------------------------------
(* What is on its way is bytes, within what the buffers hold, and a read   *)
(* never holds more than was asked for.                                    *)
TypeOK ==
    /\ info_hash \in [Ends -> Hashes]
    /\ \A e \in Ends :
          /\ pc[e] \in Sending \cup Receiving \cup {"loop", "closed"}
          /\ \A i \in DOMAIN out[e] : out[e][i] \in Byte
          /\ \A i \in DOMAIN wire[e] : wire[e][i] \in Byte
          /\ Len(wire[e]) <= Capacity
          /\ pc[e] \in Receiving => Len(got[e]) < Wanted(e)
          /\ pc[e] = "send" => out[e] # <<>>
          /\ id[e] \in Byte /\ len[e] \in Nat

(* What a thread is handed is what the other sent, field by field and in   *)
(* that order, however the stream cuts it and wherever it ends.            *)
ReadAsSent ==
    \A e \in Ends : IsPrefix(delivered[e], sent[Other(e)])

(* No end reaches its message loop with a remote of another torrent.       *)
OneTorrent ==
    \A e \in Ends :
        pc[e] \in {"loop", "send", "recv length", "recv id", "recv payload"} =>
            info_hash[e] = info_hash[Other(e)]

(* In the end every message sent has been read and both threads wait for   *)
(* more, or both have left; the only other end is both of them blocked in  *)
(* send, each waiting for the other to read.                               *)
Settled ==
    \/ \A e \in Ends : pc[e] = "recv length" /\ delivered[Other(e)] = sent[e]
    \/ \A e \in Ends : pc[e] = "closed"
    \/ \A e \in Ends : pc[e] = "send" /\ Room(e) = 0

AllReadOrGone == <>[]Settled

=============================================================================
