--------------------------- MODULE FramingProofs ---------------------------
(***************************************************************************)
(* Proofs about Framing: for any messages, torrents and buffer sizes, and  *)
(* however the stream cuts the bytes, what is read is what was sent.       *)
(*                                                                         *)
(* First, that the conversions undo each other; then that a sequence of    *)
(* framed messages can be added to at its end and taken from at its head;  *)
(* then an invariant that says, for each place a reader can be in, what    *)
(* the bytes still to come are.                                            *)
(***************************************************************************)
EXTENDS Framing, SequenceTheorems, TLAPS

-----------------------------------------------------------------------------
(* Numbers.                                                                *)

LEMMA BigEndianRead ==
    ASSUME NEW n \in Word
    PROVE  /\ BigEndian(n) \in Seq(Byte) /\ Len(BigEndian(n)) = 4
           /\ Number(BigEndian(n)) = n
<1> DEFINE high == n \div 256
           higher == high \div 256
           highest == higher \div 256
<1>1. n \in Nat /\ highest \in Byte
  BY DEF Word
<1>2. /\ high \in Nat /\ n = 256 * high + (n % 256) /\ n % 256 \in Byte
      /\ higher \in Nat /\ high = 256 * higher + (high % 256) /\ high % 256 \in Byte
      /\ higher = 256 * highest + (higher % 256) /\ higher % 256 \in Byte
      /\ highest % 256 = highest
  BY <1>1 DEF Byte
<1>3. BigEndian(n) = <<highest % 256, higher % 256, high % 256, n % 256>>
  BY DEF BigEndian
<1> HIDE DEF high, higher, highest
<1>4. BigEndian(n) \in Seq(Byte) /\ Len(BigEndian(n)) = 4
  BY <1>1, <1>2, <1>3
<1>5. Number(BigEndian(n)) = n
  <2>1. Number(BigEndian(n)) =
            256 * (256 * (256 * highest + (higher % 256)) + (high % 256)) + (n % 256)
    BY <1>2, <1>3 DEF Number
  <2>2. /\ highest \in Int /\ higher % 256 \in Int /\ high % 256 \in Int /\ n % 256 \in Int
    BY <1>1, <1>2 DEF Byte
  <2>3. QED
    BY <1>1, <1>2, <2>1, <2>2
<1>6. QED
  BY <1>4, <1>5

LEMMA NumberIsWord ==
    ASSUME NEW b \in Seq(Byte), Len(b) = 4
    PROVE  Number(b) \in Word
<1>1. \A k \in 1 .. 4 : b[k] \in Byte
  BY ElementOfSeq
<1>2. b[1] \in 0 .. 255 /\ b[2] \in 0 .. 255 /\ b[3] \in 0 .. 255 /\ b[4] \in 0 .. 255
  BY <1>1 DEF Byte
<1>3. PICK x \in 0 .. 255 : x = b[1]
  BY <1>2
<1>4. PICK y \in 0 .. 255 : y = b[2]
  BY <1>2
<1>5. PICK z \in 0 .. 255 : z = b[3]
  BY <1>2
<1>6. PICK w \in 0 .. 255 : w = b[4]
  BY <1>2
<1>7. PICK n : n = Number(b)
  OBVIOUS
<1>8. n = 256 * (256 * (256 * x + y) + z) + w
  BY <1>3, <1>4, <1>5, <1>6, <1>7 DEF Number
<1>9. PICK h \in Nat : h = 256 * x + y
  OBVIOUS
<1>10. PICK g \in Nat : g = 256 * h + z
  OBVIOUS
<1>11. n \in Nat /\ n = 256 * g + w
  BY <1>8, <1>9, <1>10
<1>12. n \div 256 = g /\ g \div 256 = h /\ h \div 256 = x
  BY <1>9, <1>10, <1>11
<1>13. n \in Word
  BY <1>11, <1>12 DEF Word, Byte
<1>14. QED
  BY <1>7, <1>13

(* The fields of a message, in order, are read from its first bytes.       *)
LEMMA FieldsRead ==
    ASSUME NEW words \in Seq(Word), NEW data \in Seq(Byte)
    PROVE  /\ Fields(words) \in Seq(Byte)
           /\ Len(Fields(words)) = 4 * Len(words)
           /\ \A w \in 1 .. Len(words) :
                  Number(SubSeq(Fields(words) \o data, 4 * w - 3, 4 * w)) = words[w]
<1> DEFINE f == Fields(words)
           n == Len(words)
           P == f \o data
<1>1. n \in Nat /\ 4 * n \in Nat
  OBVIOUS
<1>2. ASSUME NEW k \in 1 .. 4 * n
      PROVE  /\ (k + 3) \div 4 \in 1 .. n /\ 1 + ((k + 3) % 4) \in 1 .. 4
             /\ BigEndian(words[(k + 3) \div 4])[1 + ((k + 3) % 4)] \in Byte
  <2>1. (k + 3) \div 4 \in 1 .. n /\ 1 + ((k + 3) % 4) \in 1 .. 4
    BY <1>1
  <2>2. words[(k + 3) \div 4] \in Word
    BY <2>1
  <2>3. QED
    BY <2>1, <2>2, BigEndianRead
<1>3. f \in [1 .. 4 * n -> Byte]
  BY <1>2 DEF Fields
<1>4. f \in Seq(Byte) /\ Len(f) = 4 * n
  <2>1. PICK l \in Nat : l = 4 * n
    BY <1>1
  <2>2. f \in [1 .. l -> Byte]
    BY <1>3, <2>1
  <2> HIDE DEF f
  <2>3. f \in Seq(Byte) /\ Len(f) = l
    BY <2>1, <2>2
  <2>4. QED
    BY <2>1, <2>3
<1>5. ASSUME NEW w \in 1 .. n
      PROVE  Number(SubSeq(P, 4 * w - 3, 4 * w)) = words[w]
  <2> DEFINE s == SubSeq(P, 4 * w - 3, 4 * w)
             b == BigEndian(words[w])
  <2>1. /\ 4 * w - 3 \in 1 .. 4 * n /\ 4 * w - 2 \in 1 .. 4 * n
        /\ 4 * w - 1 \in 1 .. 4 * n /\ 4 * w \in 1 .. 4 * n
        /\ 4 * w - 3 \in Int /\ 4 * w \in Int
    BY <1>1
  <2>2. \A k \in 1 .. 4 * n : P[k] = f[k] /\ P[k] \in Byte
    BY <1>3, <1>4
  <2> HIDE DEF P
  <2>3. \A i \in 4 * w - 3 .. 4 * w : P[i] \in Byte
    BY <2>1, <2>2
  <2>4. \A i \in 1 .. 4 : s[i] = P[4 * w - 4 + i]
    BY <2>1, <2>3, SubSeqProperties
  <2>5. /\ s[1] = P[4 * w - 3] /\ s[2] = P[4 * w - 2] /\ s[3] = P[4 * w - 1] /\ s[4] = P[4 * w]
    BY <2>1, <2>4
  <2>6. /\ f[4 * w - 3] = b[1] /\ f[4 * w - 2] = b[2] /\ f[4 * w - 1] = b[3] /\ f[4 * w] = b[4]
    <3>1. /\ (4 * w - 3 + 3) \div 4 = w /\ 1 + ((4 * w - 3 + 3) % 4) = 1
          /\ (4 * w - 2 + 3) \div 4 = w /\ 1 + ((4 * w - 2 + 3) % 4) = 2
          /\ (4 * w - 1 + 3) \div 4 = w /\ 1 + ((4 * w - 1 + 3) % 4) = 3
          /\ (4 * w + 3) \div 4 = w /\ 1 + ((4 * w + 3) % 4) = 4
      OBVIOUS
    <3>2. QED
      BY <2>1, <3>1 DEF Fields
  <2>7. Number(s) = Number(b)
    BY <2>1, <2>2, <2>5, <2>6 DEF Number
  <2>8. words[w] \in Word
    OBVIOUS
  <2>9. QED
    BY <2>7, <2>8, BigEndianRead
<1>6. QED
  BY <1>4, <1>5

-----------------------------------------------------------------------------
(* Bits.                                                                   *)

LEMMA OneByte ==
    ASSUME NEW b0 \in {0, 128}, NEW b1 \in {0, 64}, NEW b2 \in {0, 32}, NEW b3 \in {0, 16},
           NEW b4 \in {0, 8}, NEW b5 \in {0, 4}, NEW b6 \in {0, 2}, NEW b7 \in {0, 1}
    PROVE  LET byte == b0 + b1 + b2 + b3 + b4 + b5 + b6 + b7
           IN /\ byte \in Byte
              /\ (byte \div 128) % 2 = 1 <=> b0 = 128
              /\ (byte \div 64) % 2 = 1 <=> b1 = 64
              /\ (byte \div 32) % 2 = 1 <=> b2 = 32
              /\ (byte \div 16) % 2 = 1 <=> b3 = 16
              /\ (byte \div 8) % 2 = 1 <=> b4 = 8
              /\ (byte \div 4) % 2 = 1 <=> b5 = 4
              /\ (byte \div 2) % 2 = 1 <=> b6 = 2
              /\ (byte \div 1) % 2 = 1 <=> b7 = 1
BY DEF Byte

LEMMA Packs ==
    ASSUME NEW pieces \in SUBSET (0 .. total_pieces - 1)
    PROVE  /\ Pack(pieces) \in Seq(Byte)
           /\ Len(Pack(pieces)) = (total_pieces + 7) \div 8
           /\ \A k \in 1 .. (total_pieces + 7) \div 8, j \in 0 .. 7 :
                 (Pack(pieces)[k] \div Weight[1 + j]) % 2 = 1 <=> 8 * (k - 1) + j \in pieces
<1> DEFINE n == (total_pieces + 7) \div 8
           bit(k, j) == IF 8 * (k - 1) + j \in pieces THEN Weight[j + 1] ELSE 0
           byte(k) == bit(k, 0) + bit(k, 1) + bit(k, 2) + bit(k, 3)
                          + bit(k, 4) + bit(k, 5) + bit(k, 6) + bit(k, 7)
<1>1. n \in Nat
  BY FramingAssumption
<1>2. Pack(pieces) = [k \in 1 .. n |-> byte(k)]
  BY DEF Pack
<1>3. ASSUME NEW k \in 1 .. n
      PROVE  /\ byte(k) \in Byte
             /\ \A j \in 0 .. 7 : (byte(k) \div Weight[1 + j]) % 2 = 1
                                      <=> 8 * (k - 1) + j \in pieces
  <2>1. /\ Weight[1] = 128 /\ Weight[2] = 64 /\ Weight[3] = 32 /\ Weight[4] = 16
        /\ Weight[5] = 8 /\ Weight[6] = 4 /\ Weight[7] = 2 /\ Weight[8] = 1
    BY DEF Weight
  <2>2. /\ bit(k, 0) \in {0, 128} /\ bit(k, 1) \in {0, 64} /\ bit(k, 2) \in {0, 32}
        /\ bit(k, 3) \in {0, 16} /\ bit(k, 4) \in {0, 8} /\ bit(k, 5) \in {0, 4}
        /\ bit(k, 6) \in {0, 2} /\ bit(k, 7) \in {0, 1}
    BY <2>1
  <2>3. /\ bit(k, 0) = 128 <=> 8 * (k - 1) + 0 \in pieces
        /\ bit(k, 1) = 64 <=> 8 * (k - 1) + 1 \in pieces
        /\ bit(k, 2) = 32 <=> 8 * (k - 1) + 2 \in pieces
        /\ bit(k, 3) = 16 <=> 8 * (k - 1) + 3 \in pieces
        /\ bit(k, 4) = 8 <=> 8 * (k - 1) + 4 \in pieces
        /\ bit(k, 5) = 4 <=> 8 * (k - 1) + 5 \in pieces
        /\ bit(k, 6) = 2 <=> 8 * (k - 1) + 6 \in pieces
        /\ bit(k, 7) = 1 <=> 8 * (k - 1) + 7 \in pieces
    BY <2>1
  <2> HIDE DEF bit
  <2>4. /\ byte(k) \in Byte
        /\ (byte(k) \div 128) % 2 = 1 <=> bit(k, 0) = 128
        /\ (byte(k) \div 64) % 2 = 1 <=> bit(k, 1) = 64
        /\ (byte(k) \div 32) % 2 = 1 <=> bit(k, 2) = 32
        /\ (byte(k) \div 16) % 2 = 1 <=> bit(k, 3) = 16
        /\ (byte(k) \div 8) % 2 = 1 <=> bit(k, 4) = 8
        /\ (byte(k) \div 4) % 2 = 1 <=> bit(k, 5) = 4
        /\ (byte(k) \div 2) % 2 = 1 <=> bit(k, 6) = 2
        /\ (byte(k) \div 1) % 2 = 1 <=> bit(k, 7) = 1
    BY <2>2, OneByte
  <2> HIDE DEF byte
  <2>5. ASSUME NEW j \in 0 .. 7
        PROVE  (byte(k) \div Weight[1 + j]) % 2 = 1 <=> 8 * (k - 1) + j \in pieces
    BY <2>1, <2>3, <2>4
  <2>6. QED
    BY <2>4, <2>5
<1> HIDE DEF byte
<1>4. Pack(pieces) \in [1 .. n -> Byte]
  BY <1>2, <1>3
<1>5. Pack(pieces) \in Seq(Byte) /\ Len(Pack(pieces)) = n
  BY <1>1, <1>4
<1>6. QED
  BY <1>2, <1>3, <1>5

LEMMA PackRead ==
    ASSUME NEW pieces \in SUBSET (0 .. total_pieces - 1)
    PROVE  Unpack(Pack(pieces)) = pieces
<1> DEFINE n == (total_pieces + 7) \div 8
<1>1. total_pieces \in Nat \ {0}
  BY FramingAssumption
<1>2. ASSUME NEW i \in 0 .. total_pieces - 1
      PROVE  i \in Unpack(Pack(pieces)) <=> i \in pieces
  <2>1. /\ i \div 8 < n /\ i \div 8 + 1 \in 1 .. n
        /\ i % 8 \in 0 .. 7 /\ 8 * ((i \div 8 + 1) - 1) + (i % 8) = i
    BY <1>1
  <2>2. (Pack(pieces)[i \div 8 + 1] \div Weight[1 + (i % 8)]) % 2 = 1
            <=> 8 * ((i \div 8 + 1) - 1) + (i % 8) \in pieces
    BY <2>1, Packs
  <2>3. (Pack(pieces)[i \div 8 + 1] \div Weight[1 + (i % 8)]) % 2 = 1 <=> i \in pieces
    BY <2>1, <2>2
  <2>4. Len(Pack(pieces)) = n
    BY Packs
  <2>5. QED
    BY <2>1, <2>3, <2>4 DEF Unpack
<1>3. Unpack(Pack(pieces)) \subseteq 0 .. total_pieces - 1
  BY DEF Unpack
<1>4. QED
  BY <1>2, <1>3

-----------------------------------------------------------------------------
(* What is parsed from the payload of a message is the message.            *)

LEMMA RoundTrip ==
    ASSUME NEW m \in Messages
    PROVE  /\ m.id \in Byte
           /\ Payload(m) \in Seq(Byte)
           /\ 1 + Len(Payload(m)) \in Word
           /\ 4 * Words(m.id) <= Len(Payload(m))
           /\ Parsed(m.id, Payload(m)) = m
           /\ m.id = KeepAlive => Payload(m) = <<>>
<1>1. Sendable(m)
  BY FramingAssumption
<1>2. /\ m \in Message /\ m.id \in Byte /\ m.pieces \in SUBSET (0 .. total_pieces - 1)
      /\ m.words \in Seq(Word) /\ m.data \in Seq(Byte)
      /\ m.id # Bitfield => m.pieces = {}
      /\ Len(m.words) = Words(m.id)
      /\ m.id # Piece => m.data = <<>>
      /\ 1 + Len(Payload(m)) \in Word
  BY <1>1 DEF Sendable, Message
<1>3. ASSUME NEW i, NEW ps, NEW ws, NEW ds, i = m.id, ps = m.pieces, ws = m.words, ds = m.data
      PROVE  m = [id |-> i, pieces |-> ps, words |-> ws, data |-> ds]
  BY <1>2, <1>3 DEF Message
<1>4. CASE m.id = Bitfield
  <2>1. Words(m.id) = 0 /\ m.words = <<>> /\ m.data = <<>>
    BY <1>2, <1>4 DEF Words, Bitfield, Have, Request, Piece, Cancel
  <2>2. Payload(m) = Pack(m.pieces) /\ Payload(m) \in Seq(Byte) /\ Len(Payload(m)) \in Nat
    BY <1>2, <1>4, Packs DEF Payload
  <2>3. Unpack(Payload(m)) = m.pieces
    BY <1>2, <2>2, PackRead
  <2>4. [w \in 1 .. 0 |-> Number(SubSeq(Payload(m), 4 * w - 3, 4 * w))] = <<>>
    OBVIOUS
  <2>5. Parsed(m.id, Payload(m))
            = [id |-> m.id, pieces |-> m.pieces, words |-> <<>>, data |-> <<>>]
    BY <1>4, <2>1, <2>3, <2>4 DEF Parsed, Bitfield, Piece
  <2>6. m.id # KeepAlive
    BY <1>4 DEF Bitfield, KeepAlive
  <2>7. QED
    BY <1>2, <1>3, <2>1, <2>2, <2>5, <2>6
<1>5. CASE m.id # Bitfield
  <2> DEFINE f == Fields(m.words)
             P == f \o m.data
             n == Len(m.words)
  <2>1. Payload(m) = P
    BY <1>5 DEF Payload
  <2>2. /\ f \in Seq(Byte) /\ Len(f) = 4 * n /\ n \in Nat
        /\ \A w \in 1 .. n : Number(SubSeq(P, 4 * w - 3, 4 * w)) = m.words[w]
    BY <1>2, FieldsRead
  <2> HIDE DEF f
  <2>3. P \in Seq(Byte) /\ Len(P) = 4 * n + Len(m.data) /\ Len(m.data) \in Nat
    <3>1. f \in Seq(Byte) /\ m.data \in Seq(Byte) /\ Len(f) = 4 * n /\ n \in Nat
      BY <1>2, <2>2
    <3>2. Len(f \o m.data) = Len(f) + Len(m.data) /\ f \o m.data \in Seq(Byte)
      BY <3>1, ConcatProperties
    <3>3. Len(m.data) \in Nat
      BY <3>1, LenProperties
    <3>4. QED
      BY <3>1, <3>2, <3>3
  <2>4. [w \in 1 .. Words(m.id) |-> Number(SubSeq(P, 4 * w - 3, 4 * w))] = m.words
    <3> HIDE DEF P
    <3>1. [w \in 1 .. n |-> Number(SubSeq(P, 4 * w - 3, 4 * w))] = [w \in 1 .. n |-> m.words[w]]
      BY <2>2
    <3>2. [w \in 1 .. n |-> m.words[w]] = m.words
      BY <1>2
    <3>3. QED
      BY <1>2, <3>1, <3>2
  <2>5. m.id = Piece => SubSeq(P, 9, Len(P)) = m.data
    <3> SUFFICES ASSUME m.id = Piece
                 PROVE  SubSeq(P, 9, Len(P)) = m.data
      OBVIOUS
    <3>1. n = 2
      BY <1>2 DEF Words, Have, Request, Piece, Cancel
    <3>2. Len(f) = 8 /\ Len(P) = 8 + Len(m.data)
      BY <2>2, <2>3, <3>1
    <3>3. \A k \in 1 .. Len(P) : P[k] \in Byte
      BY <2>3, ElementOfSeq
    <3>4. \A k \in 1 .. Len(m.data) : P[8 + k] = m.data[k]
      BY <1>2, <2>2, <3>2
    <3> HIDE DEF P
    <3>a. Len(P) \in Nat /\ Len(m.data) \in Nat
      BY <2>3, LenProperties
    <3>b. Len(P) \in Int /\ 9 \in Int /\ \A k \in 9 .. Len(P) : P[k] \in Byte
      BY <3>3, <3>a
    <3>c. /\ SubSeq(P, 9, Len(P)) \in Seq(Byte)
          /\ Len(SubSeq(P, 9, Len(P))) = IF 9 <= Len(P) THEN Len(P) - 9 + 1 ELSE 0
          /\ \A k \in 1 .. Len(P) - 9 + 1 : SubSeq(P, 9, Len(P))[k] = P[9 + k - 1]
      BY <3>b, SubSeqProperties
    <3>5. /\ SubSeq(P, 9, Len(P)) \in Seq(Byte)
          /\ Len(SubSeq(P, 9, Len(P))) = Len(m.data)
          /\ \A k \in 1 .. Len(m.data) : SubSeq(P, 9, Len(P))[k] = P[9 + k - 1]
      BY <3>2, <3>a, <3>c
    <3>6. \A k \in 1 .. Len(m.data) : SubSeq(P, 9, Len(P))[k] = m.data[k]
      BY <3>4, <3>5
    <3>7. QED
      BY <1>2, <3>5, <3>6, SeqEqual
  <2>6. Parsed(m.id, P) = [id |-> m.id, pieces |-> {}, words |-> m.words, data |-> m.data]
    BY <1>2, <1>5, <2>4, <2>5 DEF Parsed
  <2>7. Parsed(m.id, P) = m
    BY <1>2, <1>3, <1>5, <2>6
  <2>8. m.id = KeepAlive => P = <<>>
    <3> SUFFICES ASSUME m.id = KeepAlive
                 PROVE  P = <<>>
      OBVIOUS
    <3>1. n = 0 /\ m.data = <<>>
      BY <1>2 DEF Words, Have, Request, Piece, Cancel, KeepAlive
    <3>2. Len(P) = 0
      BY <2>3, <3>1
    <3>3. QED
      BY <2>3, <3>2
  <2>9. 4 * Words(m.id) <= Len(P)
    BY <1>2, <2>2, <2>3
  <2>10. QED
    BY <1>2, <2>1, <2>3, <2>7, <2>8, <2>9
<1>6. QED
  BY <1>4, <1>5

-----------------------------------------------------------------------------
(* Framed messages, one after another.                                     *)

(* The bytes U are the messages ms, framed one after another: rest[k] is   *)
(* what follows the first k of them.                                       *)
Framed(U, ms) ==
    \E rest \in [0 .. Len(ms) -> Seq(Byte)] :
        /\ rest[0] = U
        /\ rest[Len(ms)] = <<>>
        /\ \A k \in 1 .. Len(ms) : rest[k - 1] = build_message(ms[k]) \o rest[k]

(* The provers expand \o position by position; named, it is left as it is. *)
Cat(x, y) == x \o y

LEMMA BytesCat ==
    /\ \A x, y \in Seq(Byte) : Cat(x, y) \in Seq(Byte)
    /\ \A x, y, z \in Seq(Byte) : Cat(Cat(x, y), z) = Cat(x, Cat(y, z))
<1>1. \A x, y \in Seq(Byte) : Cat(x, y) \in Seq(Byte)
  BY ConcatProperties DEF Cat
<1>2. \A x, y, z \in Seq(Byte) : Cat(Cat(x, y), z) = Cat(x, Cat(y, z))
  BY ConcatAssociative DEF Cat
<1>3. QED
  BY <1>1, <1>2

LEMMA CatLength ==
    ASSUME NEW x \in Seq(Byte), NEW y \in Seq(Byte)
    PROVE  Len(Cat(x, y)) = Len(x) + Len(y)
BY ConcatProperties DEF Cat

LEMMA MessagesCat ==
    /\ \A x, y \in Seq(Messages) : Cat(x, y) \in Seq(Messages)
    /\ \A x, y, z \in Seq(Messages) : Cat(Cat(x, y), z) = Cat(x, Cat(y, z))
<1>1. \A x, y \in Seq(Messages) : Cat(x, y) \in Seq(Messages)
  BY ConcatProperties DEF Cat
<1>2. \A x, y, z \in Seq(Messages) : Cat(Cat(x, y), z) = Cat(x, Cat(y, z))
  BY ConcatAssociative DEF Cat
<1>3. QED
  BY <1>1, <1>2

LEMMA Bytes ==
    /\ <<>> \in Seq(Byte) /\ Len(<<>>) = 0
    /\ \A x \in Seq(Byte) : x \o <<>> = x /\ <<>> \o x = x
    /\ \A x \in Seq(Byte) : Len(x) \in Nat /\ (Len(x) = 0 <=> x = <<>>)
    /\ \A x, y \in Seq(Byte) : x \o y \in Seq(Byte) /\ Len(x \o y) = Len(x) + Len(y)
    /\ \A x, y, z \in Seq(Byte) : (x \o y) \o z = x \o (y \o z)
<1>1. <<>> \in Seq(Byte) /\ Len(<<>>) = 0
  BY EmptySeq
<1>2. \A x \in Seq(Byte) : x \o <<>> = x /\ <<>> \o x = x
  BY ConcatEmptySeq
<1>3. \A x \in Seq(Byte) : Len(x) \in Nat /\ (Len(x) = 0 <=> x = <<>>)
  BY EmptySeq, LenProperties
<1>4. \A x, y \in Seq(Byte) : x \o y \in Seq(Byte) /\ Len(x \o y) = Len(x) + Len(y)
  BY ConcatProperties
<1>5. \A x, y, z \in Seq(Byte) : (x \o y) \o z = x \o (y \o z)
  BY ConcatAssociative
<1>6. QED
  BY <1>1, <1>2, <1>3, <1>4, <1>5

LEMMA Joined ==
    ASSUME NEW x \in Seq(Byte), NEW y \in Seq(Byte), NEW z \in Seq(Byte)
    PROVE  (x \o y) \o z = x \o (y \o z) /\ x \o y \in Seq(Byte) /\ y \o z \in Seq(Byte)
BY ConcatAssociative, ConcatProperties

LEMMA EmptyParts ==
    ASSUME NEW x \in Seq(Byte), NEW y \in Seq(Byte), NEW z \in Seq(Byte),
           x \o (y \o z) = <<>>
    PROVE  x = <<>> /\ y = <<>> /\ z = <<>>
<1>1. y \o z \in Seq(Byte)
  BY Bytes
<1>2. x = <<>> /\ y \o z = <<>>
  BY <1>1, ConcatEqualIffEmpty
<1>3. QED
  BY <1>2, ConcatEqualIffEmpty

LEMMA SplitAt ==
    ASSUME NEW a \in Seq(Byte), NEW b \in Seq(Byte), NEW c \in Seq(Byte), NEW d \in Seq(Byte),
           a \o b = c \o d, Len(a) = Len(c)
    PROVE  a = c /\ b = d
<1>1. /\ Len(a) \in Nat /\ Len(b) \in Nat /\ Len(c) \in Nat /\ Len(d) \in Nat
      /\ Len(a \o b) = Len(a) + Len(b) /\ Len(c \o d) = Len(c) + Len(d)
  BY LenProperties, ConcatProperties
<1>2. Len(b) = Len(d)
  BY <1>1
<1>3. \A i \in 1 .. Len(a) : a[i] = c[i]
  <2> SUFFICES ASSUME NEW i \in 1 .. Len(a)
               PROVE  a[i] = c[i]
    OBVIOUS
  <2>1. (a \o b)[i] = a[i] /\ (c \o d)[i] = c[i]
    BY <1>1, ConcatProperties
  <2>2. QED
    BY <2>1
<1>4. \A i \in 1 .. Len(b) : b[i] = d[i]
  <2> SUFFICES ASSUME NEW i \in 1 .. Len(b)
               PROVE  b[i] = d[i]
    OBVIOUS
  <2> DEFINE j == Len(a) + i
  <2>a. /\ j \in 1 .. Len(a) + Len(b) /\ j \in 1 .. Len(c) + Len(d)
        /\ ~ (j <= Len(a)) /\ ~ (j <= Len(c)) /\ j - Len(a) = i /\ j - Len(c) = i
    BY <1>1, <1>2
  <2> HIDE DEF j
  <2>1. (a \o b)[j] = b[i] /\ (c \o d)[j] = d[i]
    BY <2>a, ConcatProperties
  <2>2. QED
    BY <2>1
<1>5. QED
  BY <1>2, <1>3, <1>4, SeqEqual

LEMMA Built ==
    ASSUME NEW m \in Messages
    PROVE  /\ build_message(m) \in Seq(Byte) /\ build_message(m) # <<>>
           /\ Len(build_message(m)) >= 4
           /\ m.id = KeepAlive => build_message(m) = BigEndian(0)
           /\ m.id # KeepAlive =>
                  build_message(m) =
                      BigEndian(1 + Len(Payload(m))) \o (<<m.id>> \o Payload(m))
<1>1. m.id \in Byte /\ Payload(m) \in Seq(Byte) /\ 1 + Len(Payload(m)) \in Word
  BY RoundTrip
<1>2. 0 \in Word
  BY DEF Word, Byte
<1> DEFINE n == BigEndian(1 + Len(Payload(m)))
           z == BigEndian(0)
           i == <<m.id>>
<1>3. n \in Seq(Byte) /\ Len(n) = 4 /\ z \in Seq(Byte) /\ Len(z) = 4 /\ i \in Seq(Byte)
  BY <1>1, <1>2, BigEndianRead
<1>4. build_message(m) = IF m.id = KeepAlive THEN z ELSE n \o i \o Payload(m)
  BY DEF build_message
<1> HIDE DEF n, i, z
<1>5. n \o i \o Payload(m) = n \o (i \o Payload(m))
  <2>1. n \in Seq(Byte) /\ i \in Seq(Byte) /\ Payload(m) \in Seq(Byte)
    BY <1>1, <1>3
  <2>2. Cat(Cat(n, i), Payload(m)) = Cat(n, Cat(i, Payload(m)))
    BY <2>1, BytesCat
  <2>3. QED
    BY <2>2 DEF Cat
<1>6. i \o Payload(m) \in Seq(Byte) /\ Len(i \o Payload(m)) \in Nat
  BY <1>1, <1>3, ConcatProperties, LenProperties
<1> DEFINE r == i \o Payload(m)
<1> HIDE DEF r
<1>7. n \o r \in Seq(Byte) /\ Len(n \o r) = 4 + Len(r)
  <2>1. r \in Seq(Byte) /\ n \in Seq(Byte)
    BY <1>3, <1>6 DEF r
  <2>2. n \o r \in Seq(Byte) /\ Len(n \o r) = Len(n) + Len(r)
    BY <2>1, Bytes
  <2>3. QED
    BY <1>3, <2>2
<1>8. build_message(m) \in Seq(Byte) /\ Len(build_message(m)) >= 4
  <2>1. build_message(m) = IF m.id = KeepAlive THEN z ELSE n \o r
    BY <1>4, <1>5 DEF r
  <2>2. Len(r) \in Nat
    BY <1>6 DEF r
  <2>3. CASE m.id = KeepAlive
    <3>1. build_message(m) = z
      BY <2>1, <2>3
    <3>2. z \in Seq(Byte) /\ Len(z) = 4
      BY <1>3
    <3>3. QED
      BY <3>1, <3>2
  <2>4. CASE m.id # KeepAlive
    BY <1>7, <2>1, <2>2, <2>4
  <2>5. QED
    BY <2>3, <2>4
<1>9. build_message(m) # <<>>
  BY <1>8, EmptySeq
<1>10. QED
  BY <1>4, <1>5, <1>8, <1>9 DEF n, i, z

LEMMA FramedNone == Framed(<<>>, <<>>) /\ \A U : Framed(U, <<>>) => U = <<>>
<1>1. Framed(<<>>, <<>>)
  <2> DEFINE rest == [k \in 0 .. 0 |-> <<>>]
  <2>1. Len(<<>>) = 0 /\ <<>> \in Seq(Byte)
    OBVIOUS
  <2>2. rest \in [0 .. 0 -> Seq(Byte)] /\ rest[0] = <<>>
    BY <2>1
  <2> HIDE DEF rest
  <2>3. /\ rest \in [0 .. Len(<<>>) -> Seq(Byte)]
        /\ rest[0] = <<>>
        /\ rest[Len(<<>>)] = <<>>
        /\ \A k \in 1 .. Len(<<>>) : rest[k - 1] = build_message(<<>>[k]) \o rest[k]
    BY <2>1, <2>2
  <2>4. QED
    BY <2>3 DEF Framed
<1>2. \A U : Framed(U, <<>>) => U = <<>>
  BY DEF Framed
<1>3. QED
  BY <1>1, <1>2

(* U begins with the first of the messages ms, and goes on with the others. *)
BeginsWith(U, ms) ==
    \E m \in Messages, p \in Seq(Messages), V \in Seq(Byte) :
        ms = <<m>> \o p /\ U = build_message(m) \o V /\ Framed(V, p)

LEMMA FramedFirst ==
    ASSUME NEW ms \in Seq(Messages), ms # <<>>, NEW U, Framed(U, ms)
    PROVE  BeginsWith(U, ms)
<1> DEFINE n == Len(ms)
           m == Head(ms)
           p == Tail(ms)
<1>1. n \in Nat \ {0}
  BY EmptySeq
<1>2. /\ m \in Messages /\ p \in Seq(Messages) /\ Len(p) = n - 1
      /\ \A k \in 1 .. n - 1 : p[k] = ms[k + 1]
  BY HeadTailProperties
<1>3. m = ms[1]
  OBVIOUS
<1>4. ms = <<m>> \o p
  <2>1. <<m>> \in Seq(Messages) /\ Len(<<m>>) = 1 /\ <<m>>[1] = m
    BY <1>2
  <2>2. /\ <<m>> \o p \in Seq(Messages) /\ Len(<<m>> \o p) = n
        /\ \A i \in 1 .. n : (<<m>> \o p)[i] = IF i <= 1 THEN <<m>>[i] ELSE p[i - 1]
    BY <1>1, <1>2, <2>1, ConcatProperties
  <2>3. \A i \in 1 .. n : (<<m>> \o p)[i] = ms[i]
    BY <1>1, <1>2, <1>3, <2>1, <2>2
  <2>4. QED
    BY <2>2, <2>3, SeqEqual
<1>5. PICK rest \in [0 .. n -> Seq(Byte)] :
          /\ rest[0] = U
          /\ rest[n] = <<>>
          /\ \A k \in 1 .. n : rest[k - 1] = build_message(ms[k]) \o rest[k]
  BY DEF Framed
<1> HIDE DEF m, p
<1> DEFINE rest2 == [k \in 0 .. n - 1 |-> rest[k + 1]]
<1>6. rest[1] \in Seq(Byte) /\ U = build_message(m) \o rest[1]
  <2>1. 1 \in 0 .. n /\ 1 \in 1 .. n /\ 1 - 1 = 0
    BY <1>1
  <2>2. QED
    BY <1>3, <1>5, <2>1
<1>7. Framed(rest[1], p)
  <2>1. rest2 \in [0 .. Len(p) -> Seq(Byte)]
    <3>1. rest \in [0 .. n -> Seq(Byte)] /\ \A k \in 0 .. n - 1 : k + 1 \in 0 .. n
      BY <1>1
    <3>2. rest2 \in [0 .. n - 1 -> Seq(Byte)]
      BY <3>1
    <3>3. QED
      BY <1>2, <3>2
  <2>2. rest2[0] = rest[1] /\ rest2[Len(p)] = <<>>
    BY <1>1, <1>2, <1>5
  <2>3. ASSUME NEW k \in 1 .. Len(p)
        PROVE  rest2[k - 1] = build_message(p[k]) \o rest2[k]
    <3>1. k + 1 \in 1 .. n /\ k \in 0 .. n - 1 /\ k - 1 \in 0 .. n - 1
      BY <1>1, <1>2
    <3>2. (k + 1) - 1 = k
      BY <1>1, <1>2
    <3>3. rest[k] = build_message(ms[k + 1]) \o rest[k + 1]
      BY <1>5, <3>1, <3>2
    <3>4. rest2[k] = rest[k + 1] /\ rest2[k - 1] = rest[k]
      BY <3>1, <3>2
    <3>5. p[k] = ms[k + 1]
      BY <1>2
    <3>6. QED
      BY <3>3, <3>4, <3>5
  <2> HIDE DEF rest2
  <2>4. QED
    BY <2>1, <2>2, <2>3 DEF Framed
<1>8. QED
  BY <1>2, <1>4, <1>6, <1>7 DEF BeginsWith

LEMMA FramedLast ==
    ASSUME NEW ms \in Seq(Messages), NEW m \in Messages, NEW U \in Seq(Byte), Framed(U, ms)
    PROVE  Framed(U \o build_message(m), Append(ms, m))
<1> DEFINE n == Len(ms)
           ns == Append(ms, m)
           b == build_message(m)
<1>1. n \in Nat /\ Len(ns) = n + 1 /\ ns[n + 1] = m /\ \A k \in 1 .. n : ns[k] = ms[k]
  BY LenProperties, AppendProperties
<1>2. b \in Seq(Byte)
  BY Built
<1>3. PICK rest \in [0 .. n -> Seq(Byte)] :
          /\ rest[0] = U
          /\ rest[n] = <<>>
          /\ \A k \in 1 .. n : rest[k - 1] = build_message(ms[k]) \o rest[k]
  BY DEF Framed
<1> DEFINE rest2 == [k \in 0 .. n + 1 |-> IF k = n + 1 THEN <<>> ELSE rest[k] \o b]
<1>4. \A k \in 0 .. n : rest[k] \in Seq(Byte) /\ rest[k] \o b \in Seq(Byte)
  BY <1>2, <1>3, ConcatProperties
<1> HIDE DEF b, ns
<1>5. rest2 \in [0 .. n + 1 -> Seq(Byte)]
  BY <1>1, <1>4
<1>6. rest2[0] = U \o b /\ rest2[n + 1] = <<>>
  BY <1>1, <1>3
<1>7. ASSUME NEW k \in 1 .. n + 1
      PROVE  rest2[k - 1] = build_message(ns[k]) \o rest2[k]
  <2>1. CASE k = n + 1
    <3>a. k - 1 = n /\ n # n + 1 /\ n \in 0 .. n + 1 /\ n + 1 \in 0 .. n + 1
      BY <1>1, <2>1
    <3>b. rest2[n] = rest[n] \o b /\ rest2[n + 1] = <<>>
      BY <3>a
    <3>1. rest2[k - 1] = <<>> \o b /\ rest2[k] = <<>>
      BY <1>3, <2>1, <3>a, <3>b
    <3>2. <<>> \o b = b /\ b \o <<>> = b
      BY <1>2, ConcatEmptySeq
    <3>3. build_message(ns[k]) = b
      BY <1>1, <2>1 DEF b
    <3>4. QED
      BY <3>1, <3>2, <3>3
  <2>2. CASE k # n + 1
    <3>1. k \in 1 .. n /\ k - 1 \in 0 .. n /\ k \in 0 .. n + 1 /\ k - 1 \in 0 .. n + 1 /\ k - 1 # n + 1
      BY <1>1, <2>2
    <3>2. rest2[k - 1] = rest[k - 1] \o b /\ rest2[k] = rest[k] \o b
      BY <2>2, <3>1
    <3>a. rest[k - 1] = build_message(ms[k]) \o rest[k]
      BY <1>3, <3>1
    <3>b. ns[k] = ms[k]
      BY <1>1, <3>1
    <3>c. ms[k] \in Messages
      BY <3>1, ElementOfSeq
    <3>3. rest[k - 1] = build_message(ms[k]) \o rest[k] /\ ns[k] = ms[k]
      BY <3>a, <3>b
    <3>4. build_message(ms[k]) \in Seq(Byte) /\ rest[k] \in Seq(Byte)
      <4>1. build_message(ms[k]) \in Seq(Byte)
        BY <3>c, Built
      <4>2. k \in 0 .. n
        BY <1>1, <3>1
      <4>3. QED
        BY <1>4, <4>1, <4>2
    <3>5. (build_message(ms[k]) \o rest[k]) \o b = build_message(ms[k]) \o (rest[k] \o b)
      <4>1. build_message(ms[k]) \in Seq(Byte) /\ rest[k] \in Seq(Byte) /\ b \in Seq(Byte)
        BY <1>2, <3>4
      <4>2. Cat(Cat(build_message(ms[k]), rest[k]), b) = Cat(build_message(ms[k]), Cat(rest[k], b))
        BY <4>1, BytesCat
      <4>3. QED
        BY <4>2 DEF Cat
    <3>6. QED
      BY <3>2, <3>3, <3>5
  <2>3. QED
    BY <2>1, <2>2
<1> HIDE DEF rest2
<1>8. Framed(U \o b, ns)
  BY <1>1, <1>5, <1>6, <1>7 DEF Framed
<1>9. QED
  BY <1>8 DEF b, ns

-----------------------------------------------------------------------------
(* The invariant.                                                          *)

Places == Sending \cup Receiving \cup {"loop", "closed"}

(* The handshakes are there to be read, all of the same length.            *)
Typed ==
    /\ info_hash \in [Ends -> Hashes]
    /\ pc \in [Ends -> Places]
    /\ out \in [Ends -> Seq(Byte)]
    /\ got \in [Ends -> Seq(Byte)]
    /\ wire \in [Ends -> Seq(Byte)]
    /\ len \in [Ends -> Nat]
    /\ id \in [Ends -> Byte]
    /\ sent \in [Ends -> Seq(Messages)]
    /\ delivered \in [Ends -> Seq(Messages)]

(* The bytes a thread holds between two calls are those of the send or of  *)
(* the receive it is in.                                                   *)
Buffers ==
    \A e \in Ends :
        /\ Len(wire[e]) <= Capacity
        /\ pc[e] = "send" => out[e] # <<>>
        /\ pc[e] \notin {"send", "closed"} => out[e] = <<>>
        /\ pc[e] \in Receiving => Len(got[e]) < Wanted(e)
        /\ pc[e] \notin Receiving \cup {"closed"} => got[e] = <<>>
        /\ pc[e] = "send handshake" /\ e = "out" => wire[e] = <<>>

(* All the bytes a reader has yet to take up.                              *)
Coming(r) == got[r] \o (wire[Other(r)] \o out[Other(r)])

(* An end that has not sent its handshake, and one that has not read one.  *)
Unsent(e) == pc[e] = "send handshake" \/ (e = "in" /\ pc[e] = "recv handshake")
Unread(r) == pc[r] = "recv handshake" \/ (r = "out" /\ pc[r] = "send handshake")

Unbegun(r) ==
    /\ Unsent(Other(r)) /\ Unread(r)
    /\ Coming(r) = <<>> /\ sent[Other(r)] = <<>> /\ delivered[r] = <<>>

(* The handshake and then the messages sent; or the end of a stream that   *)
(* holds less than a handshake.                                            *)
BeforeHandshake(r) ==
    LET e == Other(r) IN
    /\ ~ Unsent(e) /\ Unread(r)
    /\ delivered[r] = <<>>
    /\ \/ \E V \in Seq(Byte) : Coming(r) = handshake(e) \o V /\ Framed(V, sent[e])
       \/ pc[e] = "closed" /\ Len(Coming(r)) < Len(handshake(e))

(* The messages not yet delivered.                                         *)
BeforeLength(r) ==
    \E p \in Seq(Messages) :
        sent[Other(r)] = delivered[r] \o p /\ Framed(Coming(r), p)

(* The first of them without its length.                                   *)
BeforeId(r) ==
    \E m \in Messages, p \in Seq(Messages), V \in Seq(Byte) :
        /\ sent[Other(r)] = delivered[r] \o (<<m>> \o p)
        /\ len[r] = 1 + Len(Payload(m))
        /\ Coming(r) = <<m.id>> \o (Payload(m) \o V)
        /\ Framed(V, p)

(* The first of them without its length and its id.                        *)
BeforePayload(r) ==
    \E m \in Messages, p \in Seq(Messages), V \in Seq(Byte) :
        /\ sent[Other(r)] = delivered[r] \o (<<m>> \o p)
        /\ id[r] = m.id
        /\ len[r] = 1 + Len(Payload(m)) /\ len[r] > 1
        /\ Coming(r) = Payload(m) \o V
        /\ Framed(V, p)

Connected(r) ==
    /\ ~ Unsent(Other(r)) /\ ~ Unread(r)
    /\ info_hash[r] = info_hash[Other(r)]
    /\ CASE pc[r] = "recv id" -> BeforeId(r)
         [] pc[r] = "recv payload" -> BeforePayload(r)
         [] OTHER -> BeforeLength(r)

Expected(r) == Unbegun(r) \/ BeforeHandshake(r) \/ Connected(r)

(* What was delivered is the beginning of what was sent; and a reader that *)
(* is still there finds what it expects.                                   *)
AsSent ==
    \A r \in Ends : \E p \in Seq(Messages) : sent[Other(r)] = delivered[r] \o p

FramingInv ==
    /\ Typed
    /\ Buffers
    /\ AsSent
    /\ \A r \in Ends : pc[r] # "closed" => Expected(r)

-----------------------------------------------------------------------------
(* The handshakes, and the bytes of a stream cut in two.                   *)

LEMMA Opposite ==
    \A e \in Ends : Other(e) \in Ends /\ Other(e) # e /\ Other(Other(e)) = e
                    /\ \A d \in Ends : d = e \/ d = Other(e)
BY DEF Ends, Other

LEMMA Cut ==
    ASSUME NEW s \in Seq(Byte), NEW n \in 0 .. Len(s)
    PROVE  /\ SubSeq(s, 1, n) \in Seq(Byte) /\ Len(SubSeq(s, 1, n)) = n
           /\ SubSeq(s, n + 1, Len(s)) \in Seq(Byte)
           /\ Len(SubSeq(s, n + 1, Len(s))) = Len(s) - n
           /\ SubSeq(s, 1, n) \o SubSeq(s, n + 1, Len(s)) = s
<1>1. Len(s) \in Nat /\ \A k \in 1 .. Len(s) : s[k] \in Byte
  BY LenProperties, ElementOfSeq
<1>2. /\ 1 \in Int /\ n \in Int /\ n + 1 \in Int /\ Len(s) \in Int
      /\ \A k \in 1 .. n : s[k] \in Byte
      /\ \A k \in n + 1 .. Len(s) : s[k] \in Byte
  BY <1>1
<1>3. SubSeq(s, 1, n) \in Seq(Byte) /\ Len(SubSeq(s, 1, n)) = n
  BY <1>1, <1>2, SubSeqProperties
<1>4. /\ SubSeq(s, n + 1, Len(s)) \in Seq(Byte)
      /\ Len(SubSeq(s, n + 1, Len(s))) = Len(s) - n
  BY <1>1, <1>2, SubSeqProperties
<1>5. SubSeq(s, 1, n) \o SubSeq(s, n + 1, Len(s)) = SubSeq(s, 1, Len(s))
  <2>1. 1 \in 1 .. Len(s) + 1 /\ n \in 1 - 1 .. Len(s) /\ Len(s) \in n .. Len(s)
    BY <1>1
  <2>2. QED
    BY <2>1, ConcatAdjacentSubSeq
<1>6. SubSeq(s, 1, Len(s)) = s
  BY SubSeqFull
<1>7. QED
  BY <1>3, <1>4, <1>5, <1>6

(* The handshakes of both ends are of one length, and the torrent of a     *)
(* handshake is where Accepts looks for it.                                *)
LEMMA Handshakes ==
    ASSUME info_hash \in [Ends -> Hashes], NEW e \in Ends
    PROVE  /\ handshake(e) \in Seq(Byte) /\ Len(handshake(e)) \in Nat /\ 0 < Len(handshake(e))
           /\ Len(handshake(e)) = Len(handshake(Other(e)))
           /\ Accepts(e, handshake(Other(e))) => info_hash[e] = info_hash[Other(e)]
<1> DEFINE start == <<19>> \o Protocol \o Zero
<1>1. start \in Seq(Byte) /\ Len(start) = HashAt /\ HashAt \in Nat /\ 0 < HashAt
  <2>1. <<19>> \in Seq(Byte) /\ Len(<<19>>) = 1
    BY DEF Byte
  <2>2. Protocol \in Seq(Byte) /\ Zero \in Seq(Byte)
    BY FramingAssumption
  <2>3. <<19>> \o Protocol \in Seq(Byte) /\ Len(<<19>> \o Protocol) = 1 + Len(Protocol)
    BY <2>1, <2>2, Bytes
  <2>4. start \in Seq(Byte) /\ Len(start) = Len(<<19>> \o Protocol) + Len(Zero)
    BY <2>2, <2>3, Bytes
  <2>5. Len(Protocol) \in Nat /\ Len(Zero) \in Nat
    BY <2>2, Bytes
  <2>6. QED
    BY <2>3, <2>4, <2>5 DEF HashAt
<1>2. ASSUME NEW d \in Ends
      PROVE  /\ info_hash[d] \in Seq(Byte) /\ PeerId[d] \in Seq(Byte)
             /\ Len(info_hash[d]) \in Nat /\ Len(PeerId[d]) \in Nat
             /\ handshake(d) = start \o info_hash[d] \o PeerId[d]
             /\ start \o info_hash[d] \in Seq(Byte)
             /\ Len(start \o info_hash[d]) = HashAt + Len(info_hash[d])
             /\ handshake(d) \in Seq(Byte)
             /\ Len(handshake(d)) = HashAt + Len(info_hash[d]) + Len(PeerId[d])
  <2>1. info_hash[d] \in Seq(Byte) /\ PeerId[d] \in Seq(Byte)
    BY FramingAssumption
  <2>2. handshake(d) = start \o info_hash[d] \o PeerId[d]
    BY DEF handshake
  <2> HIDE DEF start
  <2>3. /\ start \o info_hash[d] \in Seq(Byte)
        /\ Len(start \o info_hash[d]) = HashAt + Len(info_hash[d])
    BY <1>1, <2>1, Bytes
  <2>4. /\ start \o info_hash[d] \o PeerId[d] \in Seq(Byte)
        /\ Len(start \o info_hash[d] \o PeerId[d]) = Len(start \o info_hash[d]) + Len(PeerId[d])
    BY <2>1, <2>3, Bytes
  <2>5. Len(info_hash[d]) \in Nat /\ Len(PeerId[d]) \in Nat
    BY <2>1, Bytes
  <2>6. QED
    BY <2>1, <2>2, <2>3, <2>4, <2>5
<1> HIDE DEF start
<1> DEFINE o == Other(e)
<1>3. o \in Ends
  BY Opposite
<1>4. Len(info_hash[e]) = Len(info_hash[o]) /\ Len(PeerId[e]) = Len(PeerId[o])
  <2>1. info_hash[e] \in Hashes /\ info_hash[o] \in Hashes
    BY <1>3
  <2>2. QED
    BY <2>1, FramingAssumption
<1> HIDE DEF o
<1>5. SubSeq(handshake(o), HashAt + 1, HashAt + Len(info_hash[e])) = info_hash[o]
  <2> DEFINE hs == handshake(o)
             l == Len(info_hash[o])
  <2>1. /\ l \in Nat /\ hs \in Seq(Byte) /\ Len(hs) \in Nat /\ HashAt + l <= Len(hs)
        /\ info_hash[o] \in Seq(Byte)
    <3>1. /\ l \in Nat /\ hs \in Seq(Byte) /\ info_hash[o] \in Seq(Byte)
          /\ Len(hs) = HashAt + l + Len(PeerId[o]) /\ Len(PeerId[o]) \in Nat
      BY <1>2, <1>3
    <3>2. HashAt \in Nat
      BY <1>1
    <3> HIDE DEF hs, l
    <3>3. \A x, y, z \in Nat : x + y + z \in Nat /\ x + y <= x + y + z
      OBVIOUS
    <3>4. Len(hs) \in Nat /\ HashAt + l <= Len(hs)
      BY <3>1, <3>2, <3>3
    <3>5. QED
      BY <3>1, <3>4
  <2>2. \A k \in 1 .. l : hs[HashAt + k] = info_hash[o][k]
    <3> SUFFICES ASSUME NEW k \in 1 .. l
                 PROVE  hs[HashAt + k] = info_hash[o][k]
      OBVIOUS
    <3> DEFINE a == start \o info_hash[o]
               i == HashAt + k
    <3>1. /\ a \in Seq(Byte) /\ Len(a) = HashAt + l /\ hs = a \o PeerId[o]
          /\ PeerId[o] \in Seq(Byte) /\ Len(PeerId[o]) \in Nat
      BY <1>2, <1>3
    <3>2. /\ i \in 1 .. Len(a) /\ i \in 1 .. Len(a) + Len(PeerId[o])
          /\ i \in 1 .. Len(start) + l /\ ~ (i <= Len(start)) /\ i - Len(start) = k
      <4>1. PICK p \in Nat : p = Len(PeerId[o])
        BY <3>1
      <4>2. PICK n \in Nat : n = HashAt
        BY <1>1
      <4>3. l \in Nat
        BY <2>1
      <4> HIDE DEF l
      <4>4. /\ n + k \in 1 .. n + l /\ n + k \in 1 .. n + l + p
            /\ ~ (n + k <= n) /\ n + k - n = k
        BY <4>3
      <4>5. Len(a) = n + l /\ Len(start) = n /\ i = n + k
        BY <1>1, <3>1, <4>2
      <4> HIDE DEF a, i
      <4>6. QED
        BY <4>1, <4>4, <4>5
    <3> HIDE DEF a, i, hs
    <3>3. (a \o PeerId[o])[i] = a[i]
      BY <3>1, <3>2, ConcatProperties
    <3>4. a[i] = info_hash[o][k]
      BY <1>1, <2>1, <3>2, ConcatProperties DEF a
    <3>5. QED
      BY <3>1, <3>3, <3>4 DEF i
  <2> HIDE DEF hs
  <2>3. /\ HashAt + 1 \in Int /\ HashAt + l \in Int
        /\ \A k \in HashAt + 1 .. HashAt + l : hs[k] \in Byte
    <3>1. \A k \in 1 .. Len(hs) : hs[k] \in Byte
      BY <2>1, ElementOfSeq
    <3>2. QED
      BY <1>1, <2>1, <3>1
  <2> DEFINE x == HashAt + 1
             y == HashAt + l
             s == SubSeq(hs, x, y)
  <2>4. /\ x \in Int /\ y \in Int /\ \A k \in x .. y : hs[k] \in Byte
        /\ (IF x <= y THEN y - x + 1 ELSE 0) = l /\ y - x + 1 = l
        /\ \A k \in 1 .. l : x + k - 1 = HashAt + k
    BY <1>1, <2>1, <2>3
  <2> HIDE DEF x, y
  <2>5. /\ s \in Seq(Byte)
        /\ Len(s) = IF x <= y THEN y - x + 1 ELSE 0
        /\ \A k \in 1 .. y - x + 1 : s[k] = hs[x + k - 1]
    BY <2>4, SubSeqProperties
  <2> HIDE DEF s, l
  <2>6. Len(s) = l /\ \A k \in 1 .. l : s[k] = info_hash[o][k]
    BY <2>2, <2>4, <2>5
  <2>7. s = info_hash[o]
    BY <2>1, <2>5, <2>6, SeqEqual DEF l
  <2>8. QED
    BY <1>4, <2>7 DEF x, y, s, hs, l
<1>6. Accepts(e, handshake(o)) => info_hash[e] = info_hash[o]
  BY <1>5 DEF Accepts
<1>7. /\ Len(handshake(e)) = Len(handshake(o))
      /\ Len(handshake(e)) \in Nat /\ 0 < Len(handshake(e))
  <2>1. /\ Len(handshake(e)) = HashAt + Len(info_hash[e]) + Len(PeerId[e])
        /\ Len(handshake(o)) = HashAt + Len(info_hash[o]) + Len(PeerId[o])
        /\ Len(info_hash[e]) \in Nat /\ Len(PeerId[e]) \in Nat
    BY <1>2, <1>3
  <2>2. PICK n \in Nat : n = HashAt /\ 0 < n
    BY <1>1
  <2>3. PICK x, y \in Nat : x = Len(info_hash[e]) /\ y = Len(PeerId[e])
    BY <2>1
  <2>4. Len(handshake(e)) = n + x + y /\ Len(handshake(o)) = n + x + y
    BY <1>4, <2>1, <2>2, <2>3
  <2>5. n + x + y \in Nat /\ 0 < n + x + y
    BY <2>2
  <2>6. QED
    BY <2>4, <2>5
<1>8. QED
  BY <1>2, <1>6, <1>7 DEF o

-----------------------------------------------------------------------------
(* What a step of one thread leaves alone.                                 *)

(* A reader finds what it expects as long as the bytes to come, the        *)
(* messages and its own place among them are what they were.               *)
LEMMA Undisturbed ==
    ASSUME NEW r \in Ends, NEW e, e = Other(r), Expected(r),
           Coming(r)' = Coming(r), sent'[e] = sent[e], delivered'[r] = delivered[r],
           info_hash' = info_hash, handshake(e)' = handshake(e),
           Unsent(e)' <=> Unsent(e), Unread(r)' <=> Unread(r),
           pc[e] = "closed" => pc'[e] = "closed",
           \/ pc'[r] = pc[r] /\ len'[r] = len[r] /\ id'[r] = id[r]
           \/ /\ pc[r] \notin {"recv id", "recv payload"}
              /\ pc'[r] \notin {"recv id", "recv payload"}
    PROVE  Expected(r)'
<1>1. CASE Unbegun(r)
  BY <1>1 DEF Unbegun, Expected
<1>2. CASE BeforeHandshake(r)
  <2>1. BeforeHandshake(r)'
    BY <1>2 DEF BeforeHandshake
  <2>2. QED
    BY <2>1 DEF Expected
<1>3. CASE Connected(r)
  <2>1. BeforeLength(r) => BeforeLength(r)'
    BY DEF BeforeLength
  <2>2. len'[r] = len[r] /\ BeforeId(r) => BeforeId(r)'
    BY DEF BeforeId
  <2>3. len'[r] = len[r] /\ id'[r] = id[r] /\ BeforePayload(r) => BeforePayload(r)'
    BY DEF BeforePayload
  <2>4. Connected(r)'
    BY <1>3, <2>1, <2>2, <2>3 DEF Connected
  <2>5. QED
    BY <2>4 DEF Expected
<1>4. QED
  BY <1>1, <1>2, <1>3 DEF Expected

(* Nor does it matter to a reader that the other end goes.                 *)
LEMMA Gone ==
    ASSUME Typed, NEW r \in Ends, NEW e, e = Other(r), Expected(r),
           Coming(r)' = Coming(r), sent'[e] = sent[e], delivered'[r] = delivered[r],
           info_hash' = info_hash, handshake(e)' = handshake(e),
           pc'[r] = pc[r], len'[r] = len[r], id'[r] = id[r],
           pc'[e] = "closed"
    PROVE  Expected(r)'
<1>1. ~ Unsent(e)' /\ (Unread(r)' <=> Unread(r))
  BY DEF Unsent, Unread
<1>2. CASE Unbegun(r)
  <2>1. Len(Coming(r)) < Len(handshake(e))
    BY <1>2, Handshakes, Opposite, Bytes DEF Unbegun, Typed
  <2>2. BeforeHandshake(r)'
    BY <1>1, <1>2, <2>1 DEF BeforeHandshake, Unbegun
  <2>3. QED
    BY <2>2 DEF Expected
<1>3. CASE ~ Unbegun(r)
  <2>1. ~ Unsent(e)
    BY <1>3 DEF Expected, BeforeHandshake, Connected
  <2>2. QED
    BY <1>1, <2>1, Undisturbed
<1>4. QED
  BY <1>2, <1>3

-----------------------------------------------------------------------------
(* One step keeps the invariant.  In each lemma e takes the step and r is  *)
(* the other end.                                                          *)

LEMMA InitHolds ==
    ASSUME Init
    PROVE  FramingInv
<1>1. /\ pc \in [Ends -> Places] /\ pc["out"] = "send handshake" /\ pc["in"] = "recv handshake"
      /\ \A e \in Ends : /\ pc[e] = IF e = "out" THEN "send handshake" ELSE "recv handshake"
                         /\ out[e] = <<>> /\ got[e] = <<>> /\ wire[e] = <<>>
                         /\ sent[e] = <<>> /\ delivered[e] = <<>>
      /\ info_hash \in [Ends -> Hashes]
  BY DEF Init, Ends, Places, Sending, Receiving
<1>2. Typed
  <2>1. 0 \in Byte /\ <<>> \in Seq(Byte) /\ <<>> \in Seq(Messages)
    BY EmptySeq DEF Byte
  <2>2. QED
    BY <1>1, <2>1 DEF Init, Typed
<1>3. Buffers
  <2>1. \A e \in Ends : pc[e] = "recv handshake" => 0 < Wanted(e)
    <3> SUFFICES ASSUME NEW e \in Ends, pc[e] = "recv handshake"
                 PROVE  0 < Wanted(e)
      OBVIOUS
    <3>1. 0 < Len(handshake(e))
      BY <1>1, Handshakes
    <3>3. Wanted(e) = Len(handshake(e))
      BY DEF Wanted
    <3>4. QED
      BY <3>1, <3>3
  <2>2. Len(<<>>) = 0 /\ 0 <= Capacity
    BY FramingAssumption, Bytes
  <2>3. QED
    BY <1>1, <2>1, <2>2 DEF Buffers, Receiving
<1>4. AsSent
  <2>1. <<>> \in Seq(Messages) /\ <<>> \o <<>> = <<>>
    BY EmptySeq, ConcatEmptySeq
  <2>2. QED
    BY <1>1, <2>1, Opposite DEF AsSent
<1>5. ASSUME NEW r \in Ends
      PROVE  Expected(r)
  <2>1. <<>> \o (<<>> \o <<>>) = <<>>
    BY Bytes
  <2>2. Coming(r) = <<>>
    BY <1>1, <2>1, Opposite DEF Coming
  <2>3. Unsent(Other(r)) /\ Unread(r)
    BY <1>1 DEF Unsent, Unread, Other, Ends
  <2>4. QED
    BY <1>1, <2>2, <2>3, Opposite DEF Expected, Unbegun
<1>6. QED
  BY <1>2, <1>3, <1>4, <1>5 DEF FramingInv

(* The two ends, and the bytes each has coming.                            *)
LEMMA Between ==
    ASSUME NEW e \in Ends, NEW r, r = Other(e)
    PROVE  /\ r \in Ends /\ e # r /\ e = Other(r)
           /\ \A d \in Ends : d = e \/ d = r
           /\ Coming(r) = Cat(got[r], Cat(wire[e], out[e]))
           /\ Coming(e) = Cat(got[e], Cat(wire[r], out[r]))
           /\ Coming(r)' = Cat(got'[r], Cat(wire'[e], out'[e]))
           /\ Coming(e)' = Cat(got'[e], Cat(wire'[r], out'[r]))
           /\ info_hash' = info_hash =>
                  /\ handshake(e)' = handshake(e) /\ handshake(r)' = handshake(r)
<1>1. /\ r \in Ends /\ e # r /\ e = Other(r)
      /\ \A d \in Ends : d = e \/ d = r
  BY Opposite
<1>2. QED
  BY <1>1 DEF Coming, handshake, Cat

LEMMA SendHandshakeKeeps ==
    ASSUME FramingInv, NEW e \in Ends, SendHandshake(e)
    PROVE  FramingInv'
<1> DEFINE r == Other(e)
           h == handshake(e)
<1>1. /\ r \in Ends /\ e # r /\ e = Other(r)
      /\ \A d \in Ends : d = e \/ d = r
      /\ Coming(r) = got[r] \o (wire[e] \o out[e])
      /\ Coming(r)' = got'[r] \o (wire'[e] \o out'[e])
      /\ Coming(e) = got[e] \o (wire[r] \o out[r])
      /\ Coming(e)' = got'[e] \o (wire'[r] \o out'[r])
      /\ info_hash' = info_hash /\ handshake(e)' = handshake(e) /\ handshake(r)' = handshake(r)
  <2>1. /\ r \in Ends /\ e # r /\ e = Other(r)
        /\ \A d \in Ends : d = e \/ d = r
        /\ Coming(r) = Cat(got[r], Cat(wire[e], out[e]))
        /\ Coming(r)' = Cat(got'[r], Cat(wire'[e], out'[e]))
        /\ Coming(e) = Cat(got[e], Cat(wire[r], out[r]))
        /\ Coming(e)' = Cat(got'[e], Cat(wire'[r], out'[r]))
        /\ info_hash' = info_hash /\ handshake(e)' = handshake(e) /\ handshake(r)' = handshake(r)
    <3>1. info_hash' = info_hash
      BY DEF SendHandshake
    <3>2. r = Other(e)
      OBVIOUS
    <3> HIDE DEF r
    <3> QED
      BY <3>1, <3>2, Between
  <2>2. QED
    BY <2>1 DEF Cat
<1>2. h \in Seq(Byte) /\ Len(h) \in Nat /\ 0 < Len(h) /\ Len(handshake(r)) = Len(h)
  BY <1>1, Handshakes DEF FramingInv, Typed
<1>3. PICK n \in 0 .. Len(h) :
          /\ n <= Room(e)
          /\ wire' = [wire EXCEPT ![e] = @ \o SubSeq(h, 1, n)]
          /\ pc' = [pc EXCEPT ![e] = CASE n < Len(h) -> "closed"
                                       [] n = Len(h) /\ e = "out" -> "recv handshake"
                                       [] n = Len(h) /\ e = "in" -> "loop"]
  BY DEF SendHandshake, Transmit, Goto
<1>4. /\ pc[e] = "send handshake"
      /\ UNCHANGED <<info_hash, out, got, len, id, sent, delivered>>
      /\ Typed /\ Buffers /\ AsSent /\ (\A d \in Ends : pc[d] # "closed" => Expected(d))
  BY DEF SendHandshake, FramingInv
<1> HIDE DEF h, r
<1>5. SubSeq(h, 1, n) \in Seq(Byte) /\ Len(SubSeq(h, 1, n)) = n /\ (n = Len(h) => SubSeq(h, 1, n) = h)
  BY <1>2, Cut, SubSeqFull
<1>6. /\ pc'[r] = pc[r] /\ wire'[r] = wire[r]
      /\ wire'[e] = wire[e] \o SubSeq(h, 1, n) /\ wire[e] \in Seq(Byte)
      /\ \/ n < Len(h) /\ pc'[e] = "closed"
         \/ n = Len(h) /\ e = "out" /\ pc'[e] = "recv handshake"
         \/ n = Len(h) /\ e # "out" /\ pc'[e] = "loop"
  <2>1. pc'[r] = pc[r] /\ wire'[r] = wire[r]
    BY <1>1, <1>3, <1>4 DEF Typed
  <2>2. wire'[e] = wire[e] \o SubSeq(h, 1, n) /\ wire[e] \in Seq(Byte)
    BY <1>3, <1>4 DEF Typed
  <2>3. pc'[e] = CASE n < Len(h) -> "closed"
                   [] n = Len(h) /\ e = "out" -> "recv handshake"
                   [] n = Len(h) /\ e = "in" -> "loop"
    BY <1>3, <1>4 DEF Typed
  <2>4. PICK l \in Nat : l = Len(h)
    BY <1>2
  <2>5. n \in Nat /\ (n < l \/ n = l) /\ ~ (n < l /\ n = l)
    BY <2>4
  <2>6. \/ n < l /\ pc'[e] = "closed"
        \/ n = l /\ e = "out" /\ pc'[e] = "recv handshake"
        \/ n = l /\ e # "out" /\ pc'[e] = "loop"
    <3>1. e = "in" \/ e = "out"
      BY DEF Ends
    <3>2. CASE n < l
      BY <2>3, <2>4, <2>5, <3>2
    <3>3. CASE n = l /\ e = "out"
      BY <2>3, <2>4, <2>5, <3>3
    <3>4. CASE n = l /\ e = "in"
      BY <2>3, <2>4, <2>5, <3>4
    <3>5. QED
      BY <2>5, <3>1, <3>2, <3>3, <3>4
  <2>7. QED
    BY <2>1, <2>2, <2>4, <2>6
<1>7. Typed'
  <2>1. wire' \in [Ends -> Seq(Byte)]
    BY <1>3, <1>4, <1>5, <1>6, Bytes DEF Typed
  <2>2. pc' \in [Ends -> Places]
    BY <1>3, <1>4, <1>6 DEF Typed, Places, Sending, Receiving
  <2>3. QED
    BY <1>4, <2>1, <2>2 DEF Typed
<1>8. Buffers'
  <2>1. Len(wire'[e]) <= Capacity
    <3>1. SubSeq(h, 1, n) \in Seq(Byte) /\ wire[e] \in Seq(Byte)
      BY <1>5, <1>6
    <3>2. Len(wire[e] \o SubSeq(h, 1, n)) = Len(wire[e]) + Len(SubSeq(h, 1, n))
      BY <3>1, Bytes
    <3>3. PICK w, c \in Nat : w = Len(wire[e]) /\ c = Capacity
      BY <3>1, Bytes, FramingAssumption
    <3>4. Len(wire'[e]) = w + n /\ n <= c - w
      BY <1>3, <1>5, <1>6, <3>2, <3>3 DEF Room
    <3>5. n \in Nat
      BY <1>2
    <3>6. w + n <= c
      BY <3>4, <3>5
    <3>7. QED
      BY <3>3, <3>4, <3>6
  <2>2. out[e] = <<>> /\ got[e] = <<>>
    BY <1>4 DEF Buffers, Receiving
  <2>3. pc'[e] = "recv handshake" => Len(got[e]) < Wanted(e)'
    <3>1. Len(got[e]) = 0
      BY <2>2, Bytes
    <3>2. pc'[e] = "recv handshake" => Wanted(e)' = Len(h)
      BY <1>1 DEF Wanted, h
    <3>3. 0 < Len(h)
      BY <1>2
    <3>4. QED
      BY <3>1, <3>2, <3>3
  <2>4. Wanted(r)' = Wanted(r)
    BY <1>1, <1>4, <1>6 DEF Wanted
  <2>5. ASSUME NEW d \in Ends
        PROVE  /\ Len(wire'[d]) <= Capacity
               /\ pc'[d] = "send" => out'[d] # <<>>
               /\ pc'[d] \notin {"send", "closed"} => out'[d] = <<>>
               /\ pc'[d] \in Receiving => Len(got'[d]) < Wanted(d)'
               /\ pc'[d] \notin Receiving \cup {"closed"} => got'[d] = <<>>
               /\ pc'[d] = "send handshake" /\ d = "out" => wire'[d] = <<>>
    <3>1. CASE d = e
      BY <1>4, <1>6, <2>1, <2>2, <2>3, <3>1 DEF Receiving
    <3>2. CASE d = r
      BY <1>1, <1>4, <1>6, <2>4, <3>2 DEF Buffers
    <3>3. QED
      BY <1>1, <3>1, <3>2
  <2>6. QED
    BY <2>5 DEF Buffers
<1>9. AsSent'
  BY <1>4 DEF AsSent
<1>10. ASSUME pc'[e] # "closed"
       PROVE  Expected(e)'
  <2>1. Coming(e)' = Coming(e)
    BY <1>1, <1>4, <1>6
  <2>2. (Unsent(r)' <=> Unsent(r)) /\ (Unread(e)' <=> Unread(e))
    BY <1>4, <1>6, <1>10 DEF Unsent, Unread
  <2>3. pc[e] \notin {"recv id", "recv payload"} /\ pc'[e] \notin {"recv id", "recv payload"}
    BY <1>4, <1>6
  <2>4. Expected(e) /\ r = Other(e)
    BY <1>4 DEF r
  <2>5. QED
    BY <1>1, <1>4, <1>6, <2>1, <2>2, <2>3, <2>4, Undisturbed
<1>11. ASSUME pc'[r] # "closed"
       PROVE  Expected(r)'
  <2>1. Unbegun(r) /\ Unread(r) /\ Coming(r) = <<>> /\ sent[e] = <<>> /\ delivered[r] = <<>>
    <3>1. Unsent(e) /\ Expected(r)
      BY <1>1, <1>4, <1>6, <1>11 DEF Unsent
    <3>2. QED
      BY <1>1, <3>1 DEF Expected, Unbegun, BeforeHandshake, Connected
  <2>2. got[r] = <<>> /\ wire[e] = <<>> /\ out[e] = <<>>
    <3>1. got[r] \in Seq(Byte) /\ wire[e] \in Seq(Byte) /\ out[e] \in Seq(Byte)
      BY <1>1, <1>4 DEF Typed
    <3>2. got[r] \o (wire[e] \o out[e]) = <<>>
      BY <1>1, <2>1
    <3>3. QED
      BY <3>1, <3>2, EmptyParts
  <2>3. Coming(r)' = SubSeq(h, 1, n)
    <3>1. wire'[e] = <<>> \o SubSeq(h, 1, n) /\ out'[e] = <<>> /\ got'[r] = <<>>
      BY <1>4, <1>6, <2>2
    <3>2. wire'[e] = SubSeq(h, 1, n)
      BY <1>5, <3>1, Bytes
    <3>3. Coming(r)' = <<>> \o (SubSeq(h, 1, n) \o <<>>)
      BY <1>1, <3>1, <3>2
    <3>4. QED
      BY <1>5, <3>3, Bytes
  <2>4. ~ Unsent(e)' /\ Unread(r)'
    BY <1>4, <1>6, <2>1 DEF Unsent, Unread
  <2>5. CASE n < Len(h)
    <3>a. Len(Coming(r)') = n /\ handshake(e)' = h
      BY <1>1, <1>5, <2>3 DEF h
    <3>b. n < Len(h) /\ pc'[e] = "closed"
      <4>1. PICK l \in Nat : l = Len(h)
        BY <1>2
      <4>2. n # l
        BY <2>5, <4>1
      <4>3. QED
        BY <1>6, <2>5, <4>1, <4>2
    <3>1. pc'[e] = "closed" /\ Len(Coming(r)') < Len(handshake(e)')
      BY <3>a, <3>b
    <3>2. BeforeHandshake(r)'
      BY <1>1, <1>4, <2>1, <2>4, <3>1 DEF BeforeHandshake
    <3>3. QED
      BY <3>2 DEF Expected
  <2>6. CASE n = Len(h)
    <3>1. Coming(r)' = handshake(e)' \o <<>> /\ <<>> \in Seq(Byte)
      <4>1. SubSeq(h, 1, n) = h
        BY <1>2, <2>6, SubSeqFull
      <4>2. handshake(e)' = h
        BY <1>1 DEF h
      <4>3. h \o <<>> = h /\ <<>> \in Seq(Byte)
        BY <1>2, Bytes
      <4>4. QED
        BY <2>3, <4>1, <4>2, <4>3
    <3>2. Framed(<<>>, sent'[e])
      BY <1>4, <2>1, FramedNone
    <3>3. BeforeHandshake(r)'
      <4>1. \E V \in Seq(Byte) : Coming(r)' = handshake(e)' \o V /\ Framed(V, sent'[e])
        BY <3>1, <3>2
      <4>2. ~ Unsent(e)' /\ Unread(r)' /\ delivered'[r] = <<>>
        BY <1>4, <2>1, <2>4
      <4>3. QED
        BY <1>1, <4>1, <4>2 DEF BeforeHandshake, Framed
    <3>4. QED
      BY <3>3 DEF Expected
  <2>7. QED
    BY <2>5, <2>6
<1>12. QED
  BY <1>1, <1>7, <1>8, <1>9, <1>10, <1>11 DEF FramingInv

(* Messages appended to a sequence are appended to its end.                *)
LEMMA AppendTo ==
    ASSUME NEW d \in Seq(Messages), NEW p \in Seq(Messages), NEW m \in Messages
    PROVE  /\ Append(p, m) \in Seq(Messages)
           /\ Append(d \o p, m) = d \o Append(p, m)
<1>1. d \o p \in Seq(Messages) /\ <<m>> \in Seq(Messages)
  BY ConcatProperties
<1>2. Append(d \o p, m) = (d \o p) \o <<m>>
  BY <1>1, AppendIsConcat
<1>3. Append(p, m) = p \o <<m>> /\ Append(p, m) \in Seq(Messages)
  BY AppendIsConcat, AppendProperties
<1>4. (d \o p) \o <<m>> = d \o (p \o <<m>>)
  <2>1. d \in Seq(Messages) /\ p \in Seq(Messages) /\ <<m>> \in Seq(Messages)
    BY <1>1
  <2>2. Cat(Cat(d, p), <<m>>) = Cat(d, Cat(p, <<m>>))
    BY <2>1, MessagesCat
  <2>3. QED
    BY <2>2 DEF Cat
<1>5. QED
  BY <1>2, <1>3, <1>4

LEMMA SendMessageKeeps ==
    ASSUME FramingInv, NEW e \in Ends, SendMessage(e)
    PROVE  FramingInv'
<1> DEFINE r == Other(e)
<1>1. /\ r \in Ends /\ e # r /\ e = Other(r)
      /\ \A d \in Ends : d = e \/ d = r
      /\ Coming(r) = got[r] \o (wire[e] \o out[e])
      /\ Coming(r)' = got'[r] \o (wire'[e] \o out'[e])
      /\ Coming(e) = got[e] \o (wire[r] \o out[r])
      /\ Coming(e)' = got'[e] \o (wire'[r] \o out'[r])
      /\ info_hash' = info_hash /\ handshake(e)' = handshake(e) /\ handshake(r)' = handshake(r)
  <2>1. /\ r \in Ends /\ e # r /\ e = Other(r)
        /\ \A d \in Ends : d = e \/ d = r
        /\ Coming(r) = Cat(got[r], Cat(wire[e], out[e]))
        /\ Coming(r)' = Cat(got'[r], Cat(wire'[e], out'[e]))
        /\ Coming(e) = Cat(got[e], Cat(wire[r], out[r]))
        /\ Coming(e)' = Cat(got'[e], Cat(wire'[r], out'[r]))
        /\ info_hash' = info_hash /\ handshake(e)' = handshake(e) /\ handshake(r)' = handshake(r)
    BY Between DEF SendMessage
  <2>2. QED
    BY <2>1 DEF Cat
<1>2. PICK m \in Messages :
          /\ sent' = [sent EXCEPT ![e] = Append(@, m)]
          /\ out' = [out EXCEPT ![e] = build_message(m)]
  BY DEF SendMessage
<1>3. /\ pc[e] = "loop" /\ pc' = [pc EXCEPT ![e] = "send"]
      /\ UNCHANGED <<info_hash, got, len, id, wire, delivered>>
      /\ Typed /\ Buffers /\ AsSent /\ (\A d \in Ends : pc[d] # "closed" => Expected(d))
  BY DEF SendMessage, Goto, FramingInv
<1> DEFINE b == build_message(m)
<1>4. b \in Seq(Byte) /\ b # <<>>
  BY Built
<1> HIDE DEF r, b
<1>5. /\ pc'[e] = "send" /\ pc'[r] = pc[r]
      /\ out'[e] = b /\ out'[r] = out[r] /\ out[e] = <<>>
      /\ sent'[e] = Append(sent[e], m) /\ sent'[r] = sent[r]
  BY <1>1, <1>2, <1>3 DEF Typed, Buffers, b
<1>6. Typed'
  <2>1. sent[e] \in Seq(Messages) /\ Append(sent[e], m) \in Seq(Messages)
    BY <1>3, AppendProperties DEF Typed
  <2>2. sent' \in [Ends -> Seq(Messages)]
    BY <1>2, <1>3, <2>1 DEF Typed
  <2>3. out' \in [Ends -> Seq(Byte)]
    BY <1>2, <1>3, <1>4 DEF Typed, b
  <2>4. pc' \in [Ends -> Places]
    BY <1>3 DEF Typed, Places, Sending
  <2>5. QED
    BY <1>3, <2>2, <2>3, <2>4 DEF Typed
<1>7. Buffers'
  <2>1. Wanted(r)' = Wanted(r)
    BY <1>1, <1>3, <1>5 DEF Wanted
  <2>2. ASSUME NEW d \in Ends
        PROVE  /\ Len(wire'[d]) <= Capacity
               /\ pc'[d] = "send" => out'[d] # <<>>
               /\ pc'[d] \notin {"send", "closed"} => out'[d] = <<>>
               /\ pc'[d] \in Receiving => Len(got'[d]) < Wanted(d)'
               /\ pc'[d] \notin Receiving \cup {"closed"} => got'[d] = <<>>
               /\ pc'[d] = "send handshake" /\ d = "out" => wire'[d] = <<>>
    <3>1. CASE d = e
      BY <1>3, <1>4, <1>5, <3>1 DEF Receiving, Buffers
    <3>2. CASE d = r
      BY <1>1, <1>3, <1>5, <2>1, <3>2 DEF Buffers
    <3>3. QED
      BY <1>1, <3>1, <3>2
  <2>3. QED
    BY <2>2 DEF Buffers
<1>8. AsSent'
  <2>1. PICK p \in Seq(Messages) : sent[e] = delivered[r] \o p
    BY <1>1, <1>3 DEF AsSent
  <2>2. delivered[r] \in Seq(Messages)
    BY <1>1, <1>3 DEF Typed
  <2>3. Append(p, m) \in Seq(Messages) /\ sent'[e] = delivered'[r] \o Append(p, m)
    BY <1>3, <1>5, <2>1, <2>2, AppendTo
  <2>4. \E q \in Seq(Messages) : sent'[r] = delivered'[e] \o q
    BY <1>3, <1>5 DEF AsSent, r
  <2>5. ASSUME NEW d \in Ends
        PROVE  \E q \in Seq(Messages) : sent'[Other(d)] = delivered'[d] \o q
    <3>1. CASE d = e
      BY <2>4, <3>1 DEF r
    <3>2. CASE d = r
      BY <1>1, <2>3, <3>2
    <3>3. QED
      BY <1>1, <3>1, <3>2
  <2>6. QED
    BY <2>5 DEF AsSent
<1>9. ASSUME pc'[e] # "closed"
      PROVE  Expected(e)'
  <2>1. Coming(e)' = Coming(e)
    BY <1>1, <1>3, <1>5
  <2>2. (Unsent(r)' <=> Unsent(r)) /\ (Unread(e)' <=> Unread(e))
    BY <1>3, <1>5 DEF Unsent, Unread
  <2>3. Expected(e) /\ r = Other(e)
    BY <1>3 DEF r
  <2>4. QED
    BY <1>1, <1>3, <1>5, <2>1, <2>2, <2>3, Undisturbed
<1>10. ASSUME pc'[r] # "closed"
       PROVE  Expected(r)'
  <2>1. Coming(r)' = Coming(r) \o b /\ Coming(r) \in Seq(Byte)
    <3>1. got[r] \in Seq(Byte) /\ wire[e] \in Seq(Byte)
      BY <1>1, <1>3 DEF Typed
    <3>2. Coming(r) = got[r] \o wire[e]
      BY <1>1, <1>5, <3>1, Bytes
    <3>3. (got[r] \o wire[e]) \o b = got[r] \o (wire[e] \o b) /\ got[r] \o wire[e] \in Seq(Byte)
      <4>1. got[r] \in Seq(Byte) /\ wire[e] \in Seq(Byte) /\ b \in Seq(Byte)
        BY <1>4, <3>1
      <4>2. Cat(Cat(got[r], wire[e]), b) = Cat(got[r], Cat(wire[e], b))
        BY <4>1, BytesCat
      <4>3. Cat(got[r], wire[e]) \in Seq(Byte)
        BY <4>1, BytesCat
      <4>4. QED
        BY <4>2, <4>3 DEF Cat
    <3>4. QED
      BY <1>1, <1>3, <1>5, <3>2, <3>3
  <2>2. /\ Expected(r) /\ ~ Unsent(e) /\ ~ Unsent(e)'
        /\ (Unread(r)' <=> Unread(r))
    BY <1>1, <1>3, <1>5, <1>10 DEF Unsent, Unread
  <2>3. delivered[r] \in Seq(Messages) /\ sent[e] \in Seq(Messages)
    BY <1>1, <1>3 DEF Typed
  <2>4. CASE BeforeHandshake(r)
    <3>1. PICK V \in Seq(Byte) : Coming(r) = handshake(e) \o V /\ Framed(V, sent[e])
      BY <1>1, <1>3, <2>4 DEF BeforeHandshake
    <3>2. handshake(e) \in Seq(Byte)
      BY <1>3, Handshakes DEF Typed
    <3>3. Coming(r)' = handshake(e) \o (V \o b) /\ V \o b \in Seq(Byte)
      <4>1. handshake(e) \in Seq(Byte) /\ V \in Seq(Byte) /\ b \in Seq(Byte)
        BY <1>4, <3>2
      <4>2. Cat(Cat(handshake(e), V), b) = Cat(handshake(e), Cat(V, b)) /\ Cat(V, b) \in Seq(Byte)
        BY <4>1, BytesCat
      <4>3. Coming(r)' = (handshake(e) \o V) \o b
        BY <2>1, <3>1
      <4>4. QED
        BY <4>2, <4>3 DEF Cat
    <3>4. Framed(V \o b, Append(sent[e], m))
      BY <2>3, <3>1, FramedLast DEF b
    <3>5. \E W \in Seq(Byte) : Coming(r)' = handshake(e)' \o W /\ Framed(W, sent'[e])
      BY <1>1, <1>5, <3>3, <3>4
    <3>6. BeforeHandshake(r)'
      BY <1>1, <1>3, <2>2, <2>4, <3>5 DEF BeforeHandshake, Framed
    <3>7. QED
      BY <3>6 DEF Expected
  <2>5. CASE Connected(r)
    <3>1. BeforeLength(r) => BeforeLength(r)'
      <4> SUFFICES ASSUME BeforeLength(r)
                   PROVE  BeforeLength(r)'
        OBVIOUS
      <4>1. PICK p \in Seq(Messages) : sent[e] = delivered[r] \o p /\ Framed(Coming(r), p)
        BY <1>1 DEF BeforeLength
      <4>a. Append(p, m) \in Seq(Messages) /\ Append(delivered[r] \o p, m) = delivered[r] \o Append(p, m)
        BY <2>3, <4>1, AppendTo
      <4>2. Append(p, m) \in Seq(Messages) /\ sent'[e] = delivered'[r] \o Append(p, m)
        <5>1. sent'[e] = Append(delivered[r] \o p, m)
          BY <1>5, <4>1
        <5>2. delivered'[r] = delivered[r]
          BY <1>3
        <5>3. QED
          BY <4>a, <5>1, <5>2
      <4>3. Framed(Coming(r)', Append(p, m))
        BY <2>1, <4>1, FramedLast DEF b
      <4>4. QED
        BY <1>1, <4>2, <4>3 DEF BeforeLength, Framed
    <3>2. ASSUME NEW x \in Messages, NEW p \in Seq(Messages),
                 sent[e] = delivered[r] \o (<<x>> \o p)
          PROVE  /\ Append(p, m) \in Seq(Messages)
                 /\ sent'[e] = delivered'[r] \o (<<x>> \o Append(p, m))
      <4>1. <<x>> \in Seq(Messages) /\ <<x>> \o p \in Seq(Messages)
        BY ConcatProperties
      <4>2. Append(p, m) \in Seq(Messages) /\ Append(<<x>> \o p, m) = <<x>> \o Append(p, m)
        BY <4>1, AppendTo
      <4>3. PICK q \in Seq(Messages) : q = <<x>> \o p
        BY <4>1
      <4>4. Append(delivered[r] \o q, m) = delivered[r] \o Append(q, m)
        BY <2>3, AppendTo
      <4>5. sent'[e] = delivered'[r] \o Append(q, m)
        BY <1>3, <1>5, <3>2, <4>3, <4>4
      <4>6. QED
        BY <4>2, <4>3, <4>5
    <3>3. BeforeId(r) => BeforeId(r)'
      <4> SUFFICES ASSUME BeforeId(r)
                   PROVE  BeforeId(r)'
        OBVIOUS
      <4>1. PICK x \in Messages, p \in Seq(Messages), V \in Seq(Byte) :
                /\ sent[e] = delivered[r] \o (<<x>> \o p)
                /\ len[r] = 1 + Len(Payload(x))
                /\ Coming(r) = <<x.id>> \o (Payload(x) \o V)
                /\ Framed(V, p)
        BY <1>1 DEF BeforeId
      <4>2. <<x.id>> \in Seq(Byte) /\ Payload(x) \in Seq(Byte) /\ Payload(x) \o V \in Seq(Byte)
        BY RoundTrip, Bytes
      <4>3. Coming(r)' = <<x.id>> \o (Payload(x) \o (V \o b)) /\ V \o b \in Seq(Byte)
        <5>1. PICK i \in Seq(Byte) : i = <<x.id>>
          BY <4>2
        <5>2. Coming(r)' = (i \o (Payload(x) \o V)) \o b
          BY <2>1, <4>1, <5>1
        <5>3. (i \o (Payload(x) \o V)) \o b = i \o ((Payload(x) \o V) \o b)
          <6>1. i \in Seq(Byte) /\ Payload(x) \in Seq(Byte) /\ V \in Seq(Byte) /\ b \in Seq(Byte)
            BY <1>4, <4>2
          <6>2. Cat(Cat(i, Cat(Payload(x), V)), b) = Cat(i, Cat(Cat(Payload(x), V), b))
            BY <6>1, BytesCat
          <6>3. QED
            BY <6>2 DEF Cat
        <5>4. (Payload(x) \o V) \o b = Payload(x) \o (V \o b) /\ V \o b \in Seq(Byte)
          <6>1. Payload(x) \in Seq(Byte) /\ V \in Seq(Byte) /\ b \in Seq(Byte)
            BY <1>4, <4>2
          <6>2. Cat(Cat(Payload(x), V), b) = Cat(Payload(x), Cat(V, b))
            BY <6>1, BytesCat
          <6>3. Cat(V, b) \in Seq(Byte)
            BY <6>1, BytesCat
          <6>4. QED
            BY <6>2, <6>3 DEF Cat
        <5>5. QED
          BY <5>1, <5>2, <5>3, <5>4
      <4>4. Framed(V \o b, Append(p, m))
        BY <4>1, FramedLast DEF b
      <4>5. /\ Append(p, m) \in Seq(Messages)
            /\ sent'[e] = delivered'[r] \o (<<x>> \o Append(p, m))
            /\ len'[r] = 1 + Len(Payload(x))
        BY <1>3, <3>2, <4>1
      <4>6. QED
        BY <1>1, <4>3, <4>4, <4>5 DEF BeforeId, Framed
    <3>4. BeforePayload(r) => BeforePayload(r)'
      <4> SUFFICES ASSUME BeforePayload(r)
                   PROVE  BeforePayload(r)'
        OBVIOUS
      <4>1. PICK x \in Messages, p \in Seq(Messages), V \in Seq(Byte) :
                /\ sent[e] = delivered[r] \o (<<x>> \o p)
                /\ id[r] = x.id
                /\ len[r] = 1 + Len(Payload(x)) /\ len[r] > 1
                /\ Coming(r) = Payload(x) \o V
                /\ Framed(V, p)
        BY <1>1 DEF BeforePayload
      <4>2. Payload(x) \in Seq(Byte)
        BY RoundTrip
      <4>3. Coming(r)' = Payload(x) \o (V \o b) /\ V \o b \in Seq(Byte)
        <5>1. Payload(x) \in Seq(Byte) /\ V \in Seq(Byte) /\ b \in Seq(Byte)
          BY <1>4, <4>2
        <5>2. Cat(Cat(Payload(x), V), b) = Cat(Payload(x), Cat(V, b)) /\ Cat(V, b) \in Seq(Byte)
          BY <5>1, BytesCat
        <5>3. Coming(r)' = (Payload(x) \o V) \o b
          BY <2>1, <4>1
        <5>4. QED
          BY <5>2, <5>3 DEF Cat
      <4>4. Framed(V \o b, Append(p, m))
        BY <4>1, FramedLast DEF b
      <4>5. /\ Append(p, m) \in Seq(Messages)
            /\ sent'[e] = delivered'[r] \o (<<x>> \o Append(p, m))
            /\ id'[r] = x.id /\ len'[r] = 1 + Len(Payload(x)) /\ len'[r] > 1
        BY <1>3, <3>2, <4>1
      <4>6. QED
        BY <1>1, <4>3, <4>4, <4>5 DEF BeforePayload, Framed
    <3>5. Connected(r)'
      BY <1>1, <1>3, <1>5, <2>2, <2>5, <3>1, <3>3, <3>4 DEF Connected
    <3>6. QED
      BY <3>5 DEF Expected
  <2>6. QED
    BY <1>1, <2>2, <2>4, <2>5 DEF Expected, Unbegun
<1>11. QED
  BY <1>1, <1>6, <1>7, <1>8, <1>9, <1>10 DEF FramingInv

LEMMA SendKeeps ==
    ASSUME FramingInv, NEW e \in Ends, Send(e)
    PROVE  FramingInv'
<1> DEFINE r == Other(e)
<1>1. /\ r \in Ends /\ e # r /\ e = Other(r)
      /\ \A d \in Ends : d = e \/ d = r
      /\ Coming(r) = got[r] \o (wire[e] \o out[e])
      /\ Coming(r)' = got'[r] \o (wire'[e] \o out'[e])
      /\ Coming(e) = got[e] \o (wire[r] \o out[r])
      /\ Coming(e)' = got'[e] \o (wire'[r] \o out'[r])
      /\ info_hash' = info_hash /\ handshake(e)' = handshake(e) /\ handshake(r)' = handshake(r)
  <2>1. /\ r \in Ends /\ e # r /\ e = Other(r)
        /\ \A d \in Ends : d = e \/ d = r
        /\ Coming(r) = Cat(got[r], Cat(wire[e], out[e]))
        /\ Coming(r)' = Cat(got'[r], Cat(wire'[e], out'[e]))
        /\ Coming(e) = Cat(got[e], Cat(wire[r], out[r]))
        /\ Coming(e)' = Cat(got'[e], Cat(wire'[r], out'[r]))
        /\ info_hash' = info_hash /\ handshake(e)' = handshake(e) /\ handshake(r)' = handshake(r)
    BY Between DEF Send
  <2>2. QED
    BY <2>1 DEF Cat
<1>2. PICK n \in 1 .. Len(out[e]) :
          /\ n <= Room(e)
          /\ wire' = [wire EXCEPT ![e] = @ \o SubSeq(out[e], 1, n)]
          /\ out' = [out EXCEPT ![e] = SubSeq(@, n + 1, Len(@))]
          /\ pc' = [pc EXCEPT ![e] = IF n = Len(out[e]) THEN "loop" ELSE "send"]
  BY DEF Send, Transmit, Goto
<1>3. /\ pc[e] = "send"
      /\ UNCHANGED <<info_hash, got, len, id, sent, delivered>>
      /\ Typed /\ Buffers /\ AsSent /\ (\A d \in Ends : pc[d] # "closed" => Expected(d))
  BY DEF Send, FramingInv
<1> HIDE DEF r
<1> DEFINE a == SubSeq(out[e], 1, n)
           z == SubSeq(out[e], n + 1, Len(out[e]))
<1>4. /\ out[e] \in Seq(Byte) /\ wire[e] \in Seq(Byte) /\ Len(out[e]) \in Nat
      /\ n \in 0 .. Len(out[e]) /\ n \in Nat /\ n # 0
  BY <1>3, Bytes DEF Typed
<1>5. /\ a \in Seq(Byte) /\ Len(a) = n /\ z \in Seq(Byte) /\ Len(z) = Len(out[e]) - n
      /\ a \o z = out[e]
  BY <1>4, Cut
<1>6. /\ pc'[e] = IF n = Len(out[e]) THEN "loop" ELSE "send"
      /\ pc'[r] = pc[r] /\ out'[e] = z /\ out'[r] = out[r]
      /\ wire'[e] = wire[e] \o a /\ wire'[r] = wire[r]
  BY <1>1, <1>2, <1>3 DEF Typed
<1>7. n = Len(out[e]) <=> z = <<>>
  <2>1. PICK l \in Nat : l = Len(out[e])
    BY <1>4
  <2>2. Len(z) = l - n /\ (n = l <=> l - n = 0)
    BY <1>4, <1>5, <2>1
  <2>3. Len(z) = 0 <=> z = <<>>
    BY <1>5, Bytes
  <2>4. QED
    BY <2>1, <2>2, <2>3
<1>8. wire' = [wire EXCEPT ![e] = wire[e] \o a] /\ out' = [out EXCEPT ![e] = z]
  BY <1>2, <1>3 DEF Typed
<1> HIDE DEF a, z
<1>9. Typed'
  <2>1. wire' \in [Ends -> Seq(Byte)]
    BY <1>3, <1>4, <1>5, <1>8, Bytes DEF Typed
  <2>2. out' \in [Ends -> Seq(Byte)]
    BY <1>3, <1>5, <1>8 DEF Typed
  <2>3. pc' \in [Ends -> Places]
    BY <1>2, <1>3 DEF Typed, Places, Sending
  <2>4. QED
    BY <1>3, <2>1, <2>2, <2>3 DEF Typed
<1>10. Buffers'
  <2>1. Wanted(r)' = Wanted(r)
    BY <1>1, <1>3, <1>6 DEF Wanted
  <2>2. Len(wire'[e]) <= Capacity
    <3>1. Len(wire[e] \o a) = Len(wire[e]) + Len(a)
      BY <1>4, <1>5, Bytes
    <3>2. PICK w, c \in Nat : w = Len(wire[e]) /\ c = Capacity
      BY <1>4, Bytes, FramingAssumption
    <3>3. Len(wire'[e]) = w + n /\ n <= c - w
      BY <1>2, <1>5, <1>6, <3>1, <3>2 DEF Room
    <3>4. w + n <= c
      BY <1>4, <3>3
    <3>5. QED
      BY <3>2, <3>3, <3>4
  <2>3. got[e] = <<>>
    BY <1>3 DEF Buffers, Receiving
  <2>4. ASSUME NEW d \in Ends
        PROVE  /\ Len(wire'[d]) <= Capacity
               /\ pc'[d] = "send" => out'[d] # <<>>
               /\ pc'[d] \notin {"send", "closed"} => out'[d] = <<>>
               /\ pc'[d] \in Receiving => Len(got'[d]) < Wanted(d)'
               /\ pc'[d] \notin Receiving \cup {"closed"} => got'[d] = <<>>
               /\ pc'[d] = "send handshake" /\ d = "out" => wire'[d] = <<>>
    <3>1. CASE d = e
      BY <1>3, <1>6, <1>7, <2>2, <2>3, <3>1 DEF Receiving
    <3>2. CASE d = r
      BY <1>1, <1>3, <1>6, <2>1, <3>2 DEF Buffers
    <3>3. QED
      BY <1>1, <3>1, <3>2
  <2>5. QED
    BY <2>4 DEF Buffers
<1>11. AsSent'
  BY <1>3 DEF AsSent
<1>12. ASSUME pc'[e] # "closed"
       PROVE  Expected(e)'
  <2>1. Coming(e)' = Coming(e)
    BY <1>1, <1>3, <1>6
  <2>2. (Unsent(r)' <=> Unsent(r)) /\ (Unread(e)' <=> Unread(e))
    BY <1>3, <1>6 DEF Unsent, Unread
  <2>3. Expected(e) /\ r = Other(e)
    BY <1>3 DEF r
  <2>4. pc[e] \notin {"recv id", "recv payload"} /\ pc'[e] \notin {"recv id", "recv payload"}
    BY <1>3, <1>6
  <2>5. QED
    BY <1>1, <1>3, <1>6, <2>1, <2>2, <2>3, <2>4, Undisturbed
<1>13. ASSUME pc'[r] # "closed"
       PROVE  Expected(r)'
  <2>1. Coming(r)' = Coming(r)
    <3>1. (wire[e] \o a) \o z = wire[e] \o (a \o z)
      <4>1. wire[e] \in Seq(Byte) /\ a \in Seq(Byte) /\ z \in Seq(Byte)
        BY <1>4, <1>5
      <4>2. Cat(Cat(wire[e], a), z) = Cat(wire[e], Cat(a, z))
        BY <4>1, BytesCat
      <4>3. QED
        BY <4>2 DEF Cat
    <3>2. QED
      BY <1>1, <1>3, <1>5, <1>6, <3>1
  <2>2. (Unsent(e)' <=> Unsent(e)) /\ (Unread(r)' <=> Unread(r))
    BY <1>3, <1>6 DEF Unsent, Unread
  <2>3. Expected(r)
    BY <1>1, <1>3, <1>6, <1>13
  <2>4. QED
    BY <1>1, <1>3, <1>6, <2>1, <2>2, <2>3, Undisturbed
<1>14. QED
  BY <1>1, <1>9, <1>10, <1>11, <1>12, <1>13 DEF FramingInv

(* The steps that transmit nothing: the thread goes on to its read, or     *)
(* drops what the other end cannot receive any more.                       *)
LEMMA CallReadKeeps ==
    ASSUME FramingInv, NEW e \in Ends, CallRead(e) \/ SendFails(e)
    PROVE  FramingInv'
<1> DEFINE r == Other(e)
<1>1. info_hash' = info_hash
  BY DEF CallRead, SendFails
<1>2. /\ r \in Ends /\ e # r /\ e = Other(r)
      /\ \A d \in Ends : d = e \/ d = r
      /\ Coming(r) = got[r] \o (wire[e] \o out[e])
      /\ Coming(r)' = got'[r] \o (wire'[e] \o out'[e])
      /\ Coming(e) = got[e] \o (wire[r] \o out[r])
      /\ Coming(e)' = got'[e] \o (wire'[r] \o out'[r])
      /\ handshake(e)' = handshake(e) /\ handshake(r)' = handshake(r)
  <2>1. /\ r \in Ends /\ e # r /\ e = Other(r)
        /\ \A d \in Ends : d = e \/ d = r
        /\ Coming(r) = Cat(got[r], Cat(wire[e], out[e]))
        /\ Coming(r)' = Cat(got'[r], Cat(wire'[e], out'[e]))
        /\ Coming(e) = Cat(got[e], Cat(wire[r], out[r]))
        /\ Coming(e)' = Cat(got'[e], Cat(wire'[r], out'[r]))
        /\ handshake(e)' = handshake(e) /\ handshake(r)' = handshake(r)
    BY <1>1, Between
  <2>2. QED
    BY <2>1 DEF Cat
<1>3. /\ UNCHANGED <<info_hash, got, len, id, wire, sent, delivered>>
      /\ Typed /\ Buffers /\ AsSent /\ (\A d \in Ends : pc[d] # "closed" => Expected(d))
  BY DEF CallRead, SendFails, FramingInv
<1> HIDE DEF r
<1>4. \/ /\ pc[e] = "loop" /\ pc' = [pc EXCEPT ![e] = "recv length"] /\ out' = out
      \/ /\ pc[e] = "send" /\ pc' = [pc EXCEPT ![e] = "loop"] /\ pc[r] = "closed"
         /\ out' = [out EXCEPT ![e] = <<>>]
  BY DEF CallRead, SendFails, Goto, r
<1>5. /\ pc'[r] = pc[r] /\ out'[r] = out[r] /\ out'[e] = <<>>
      /\ \/ pc[e] = "loop" /\ pc'[e] = "recv length" /\ out'[e] = out[e]
         \/ pc[e] = "send" /\ pc'[e] = "loop" /\ pc[r] = "closed"
  BY <1>2, <1>3, <1>4 DEF Typed, Buffers
<1>6. Typed'
  <2>1. pc' \in [Ends -> Places]
    BY <1>3, <1>4 DEF Typed, Places, Sending, Receiving
  <2>2. out' \in [Ends -> Seq(Byte)]
    BY <1>3, <1>4, Bytes DEF Typed
  <2>3. QED
    BY <1>3, <2>1, <2>2 DEF Typed
<1>7. Buffers'
  <2>1. Wanted(r)' = Wanted(r)
    BY <1>2, <1>3, <1>5 DEF Wanted
  <2>2. got[e] = <<>>
    BY <1>3, <1>5 DEF Buffers, Receiving
  <2>3. pc'[e] = "recv length" => Len(got[e]) < Wanted(e)'
    <3>1. pc'[e] = "recv length" => Wanted(e)' = 4
      BY DEF Wanted
    <3>2. Len(got[e]) < 4
      BY <2>2, Bytes
    <3>3. QED
      BY <3>1, <3>2
  <2>4. ASSUME NEW d \in Ends
        PROVE  /\ Len(wire'[d]) <= Capacity
               /\ pc'[d] = "send" => out'[d] # <<>>
               /\ pc'[d] \notin {"send", "closed"} => out'[d] = <<>>
               /\ pc'[d] \in Receiving => Len(got'[d]) < Wanted(d)'
               /\ pc'[d] \notin Receiving \cup {"closed"} => got'[d] = <<>>
               /\ pc'[d] = "send handshake" /\ d = "out" => wire'[d] = <<>>
    <3>1. CASE d = e
      BY <1>3, <1>5, <2>2, <2>3, <3>1 DEF Receiving, Buffers
    <3>2. CASE d = r
      BY <1>2, <1>3, <1>5, <2>1, <3>2 DEF Buffers
    <3>3. QED
      BY <1>2, <3>1, <3>2
  <2>5. QED
    BY <2>4 DEF Buffers
<1>8. AsSent'
  BY <1>3 DEF AsSent
<1>9. ASSUME pc'[e] # "closed"
      PROVE  Expected(e)'
  <2>1. Coming(e)' = Coming(e)
    BY <1>2, <1>3, <1>5
  <2>2. (Unsent(r)' <=> Unsent(r)) /\ (Unread(e)' <=> Unread(e))
    BY <1>3, <1>5 DEF Unsent, Unread
  <2>3. Expected(e) /\ r = Other(e)
    BY <1>3, <1>5 DEF r
  <2>4. pc[e] \notin {"recv id", "recv payload"} /\ pc'[e] \notin {"recv id", "recv payload"}
    BY <1>5
  <2>5. QED
    BY <1>2, <1>3, <1>5, <2>1, <2>2, <2>3, <2>4, Undisturbed
<1>10. ASSUME pc'[r] # "closed"
       PROVE  Expected(r)'
  <2>1. Coming(r)' = Coming(r)
    BY <1>2, <1>3, <1>5, <1>10
  <2>2. (Unsent(e)' <=> Unsent(e)) /\ (Unread(r)' <=> Unread(r))
    BY <1>3, <1>5 DEF Unsent, Unread
  <2>3. Expected(r)
    BY <1>2, <1>3, <1>5, <1>10
  <2>4. QED
    BY <1>2, <1>3, <1>5, <2>1, <2>2, <2>3, Undisturbed
<1>11. QED
  BY <1>2, <1>6, <1>7, <1>8, <1>9, <1>10 DEF FramingInv

LEMMA GoneKeeps ==
    ASSUME FramingInv, NEW e \in Ends, RecvFails(e) \/ Dies(e)
    PROVE  FramingInv'
<1> DEFINE r == Other(e)
<1>1. /\ pc' = [pc EXCEPT ![e] = "closed"]
      /\ UNCHANGED <<info_hash, out, got, len, id, wire, sent, delivered>>
      /\ Typed /\ Buffers /\ AsSent /\ (\A d \in Ends : pc[d] # "closed" => Expected(d))
  BY DEF RecvFails, Dies, Goto, FramingInv
<1>2. /\ r \in Ends /\ e # r /\ e = Other(r)
      /\ \A d \in Ends : d = e \/ d = r
      /\ Coming(r)' = Coming(r)
      /\ handshake(e)' = handshake(e) /\ handshake(r)' = handshake(r)
  <2>1. /\ r \in Ends /\ e # r /\ e = Other(r)
        /\ \A d \in Ends : d = e \/ d = r
        /\ Coming(r)' = Coming(r)
        /\ handshake(e)' = handshake(e) /\ handshake(r)' = handshake(r)
    BY <1>1, Between
  <2>2. QED
    BY <2>1 DEF Cat
<1>3. pc'[e] = "closed" /\ pc'[r] = pc[r]
  BY <1>1, <1>2 DEF Typed
<1> HIDE DEF r
<1>4. Typed'
  <2>1. pc' \in [Ends -> Places]
    BY <1>1 DEF Typed, Places
  <2>2. QED
    BY <1>1, <2>1 DEF Typed
<1>5. Buffers'
  <2>1. Wanted(r)' = Wanted(r)
    BY <1>1, <1>2, <1>3 DEF Wanted
  <2>2. ASSUME NEW d \in Ends
        PROVE  /\ Len(wire'[d]) <= Capacity
               /\ pc'[d] = "send" => out'[d] # <<>>
               /\ pc'[d] \notin {"send", "closed"} => out'[d] = <<>>
               /\ pc'[d] \in Receiving => Len(got'[d]) < Wanted(d)'
               /\ pc'[d] \notin Receiving \cup {"closed"} => got'[d] = <<>>
               /\ pc'[d] = "send handshake" /\ d = "out" => wire'[d] = <<>>
    <3>1. CASE d = e
      BY <1>1, <1>3, <3>1 DEF Receiving, Buffers
    <3>2. CASE d = r
      BY <1>1, <1>2, <1>3, <2>1, <3>2 DEF Buffers
    <3>3. QED
      BY <1>2, <3>1, <3>2
  <2>3. QED
    BY <2>2 DEF Buffers
<1>6. AsSent'
  BY <1>1 DEF AsSent
<1>7. ASSUME pc'[r] # "closed"
      PROVE  Expected(r)'
  <2>1. Expected(r)
    BY <1>1, <1>2, <1>3, <1>7
  <2>2. QED
    BY <1>1, <1>2, <1>3, <2>1, Gone
<1>8. QED
  BY <1>2, <1>3, <1>4, <1>5, <1>6, <1>7 DEF FramingInv

-----------------------------------------------------------------------------
(* The reads.  The bytes of a read that got all it wanted are the first of *)
(* those that were coming, W the others.                                   *)

Read(e, bytes, W) ==
    /\ bytes \in Seq(Byte) /\ W \in Seq(Byte)
    /\ Coming(e) = bytes \o W /\ Coming(e)' = W
    /\ Len(bytes) = Wanted(e) /\ bytes # <<>>
    /\ UNCHANGED <<info_hash, out, sent>>

(* What the thread does with them leaves the invariant true of itself, and *)
(* tells the other end nothing.                                            *)
GoesOn(e) ==
    LET r == Other(e) IN
    /\ pc' \in [Ends -> Places] /\ len' \in [Ends -> Nat] /\ id' \in [Ends -> Byte]
    /\ delivered' \in [Ends -> Seq(Messages)]
    /\ pc'[r] = pc[r] /\ len'[r] = len[r] /\ id'[r] = id[r] /\ delivered'[r] = delivered[r]
    /\ pc'[e] # "send" /\ ~ (e = "out" /\ pc'[e] = "send handshake")
    /\ pc'[e] \in Receiving => 0 < Wanted(e)'
    /\ \E p \in Seq(Messages) : sent'[r] = delivered'[e] \o p
    /\ pc'[e] # "closed" => Expected(e)' /\ (Unsent(e)' <=> Unsent(e))

LEMMA HandshakeGoesOn ==
    ASSUME FramingInv, NEW e \in Ends, NEW bytes, NEW W,
           Read(e, bytes, W), HandshakeRead(e, bytes)
    PROVE  GoesOn(e)
<1> DEFINE r == Other(e)
<1>1. /\ Typed /\ Buffers /\ AsSent /\ (\A d \in Ends : pc[d] # "closed" => Expected(d))
      /\ pc[e] = "recv handshake" /\ UNCHANGED <<len, id, delivered>>
      /\ pc' = [pc EXCEPT ![e] = CASE ~ Accepts(e, bytes) -> "closed"
                                   [] Accepts(e, bytes) /\ e = "out" -> "loop"
                                   [] Accepts(e, bytes) /\ e = "in" -> "send handshake"]
  BY DEF FramingInv, HandshakeRead, Goto
<1>2. /\ r \in Ends /\ e # r /\ e = Other(r)
      /\ bytes \in Seq(Byte) /\ W \in Seq(Byte)
      /\ Coming(e) = bytes \o W /\ Coming(e)' = W /\ bytes # <<>>
      /\ info_hash' = info_hash /\ sent' = sent
  BY Opposite DEF Read
<1>3. Len(bytes) = Len(handshake(e))
  BY <1>1 DEF Read, Wanted
<1>4. /\ handshake(r) \in Seq(Byte) /\ Len(handshake(r)) = Len(handshake(e))
      /\ Accepts(e, handshake(r)) => info_hash[e] = info_hash[r]
  BY <1>1, <1>2, Handshakes DEF Typed
<1> HIDE DEF r
<1>5. /\ pc'[r] = pc[r]
      /\ \/ pc'[e] = "closed"
         \/ Accepts(e, bytes) /\ e = "out" /\ pc'[e] = "loop"
         \/ Accepts(e, bytes) /\ e = "in" /\ pc'[e] = "send handshake"
  <2>1. e = "in" \/ e = "out"
    BY DEF Ends
  <2>2. pc'[r] = pc[r]
    BY <1>1, <1>2 DEF Typed
  <2>3. pc'[e] = CASE ~ Accepts(e, bytes) -> "closed"
                   [] Accepts(e, bytes) /\ e = "out" -> "loop"
                   [] Accepts(e, bytes) /\ e = "in" -> "send handshake"
    BY <1>1 DEF Typed
  <2>4. CASE ~ Accepts(e, bytes)
    BY <2>2, <2>3, <2>4
  <2>5. CASE Accepts(e, bytes) /\ e = "out"
    BY <2>2, <2>3, <2>5
  <2>6. CASE Accepts(e, bytes) /\ e = "in"
    BY <2>2, <2>3, <2>6
  <2>7. QED
    BY <2>1, <2>4, <2>5, <2>6
<1>6. BeforeHandshake(e) /\ ~ Unsent(r)
  <2>1. Expected(e) /\ Unread(e)
    BY <1>1 DEF Unread
  <2>2. Coming(e) # <<>>
    BY <1>2, ConcatEqualIffEmpty
  <2>3. QED
    BY <2>1, <2>2 DEF Expected, Unbegun, Connected, BeforeHandshake, r
<1>7. PICK V \in Seq(Byte) : Coming(e) = handshake(r) \o V /\ Framed(V, sent[r])
  <2>1. ~ (Len(Coming(e)) < Len(handshake(r)))
    <3>1. Len(bytes \o W) = Len(bytes) + Len(W) /\ Len(W) \in Nat /\ Len(bytes) \in Nat
      BY <1>2, Bytes
    <3>2. PICK x, y \in Nat : x = Len(bytes) /\ y = Len(W)
      BY <3>1
    <3>3. ~ (x + y < x)
      OBVIOUS
    <3>4. Len(Coming(e)) = x + y /\ Len(handshake(r)) = x
      BY <1>2, <1>3, <1>4, <3>1, <3>2
    <3>5. QED
      BY <3>3, <3>4
  <2>2. QED
    BY <1>6, <2>1 DEF BeforeHandshake, r
<1>8. bytes = handshake(r) /\ W = V
  <2>1. bytes \o W = handshake(r) \o V /\ Len(bytes) = Len(handshake(r))
    BY <1>2, <1>3, <1>4, <1>7
  <2>2. QED
    BY <1>2, <1>4, <2>1, SplitAt
<1>9. ASSUME pc'[e] # "closed"
      PROVE  Expected(e)' /\ (Unsent(e)' <=> Unsent(e))
  <2>1. info_hash[e] = info_hash[r]
    BY <1>4, <1>5, <1>8, <1>9
  <2>2. ~ Unread(e)' /\ ~ Unsent(r)'
    BY <1>5, <1>6, <1>9 DEF Unread, Unsent
  <2>3. delivered[e] = <<>> /\ sent[r] \in Seq(Messages)
    BY <1>1, <1>2, <1>6 DEF BeforeHandshake, Typed
  <2>4. sent'[r] = delivered'[e] \o sent[r]
    BY <1>1, <1>2, <2>3, ConcatEmptySeq
  <2>5. Framed(Coming(e)', sent[r])
    BY <1>2, <1>7, <1>8
  <2>6. BeforeLength(e)'
    BY <1>2, <2>3, <2>4, <2>5 DEF BeforeLength, r, Framed
  <2>7. Connected(e)'
    BY <1>2, <1>5, <1>9, <2>1, <2>2, <2>6 DEF Connected, r
  <2>8. Unsent(e)' <=> Unsent(e)
    BY <1>1, <1>5, <1>9 DEF Unsent
  <2>9. QED
    BY <2>7, <2>8 DEF Expected
<1>10. pc' \in [Ends -> Places]
  <2>1. pc'[e] \in Places
    BY <1>5 DEF Places, Sending
  <2>2. PICK to : pc' = [pc EXCEPT ![e] = to]
    BY <1>1
  <2>3. QED
    BY <1>1, <2>1, <2>2 DEF Typed
<1>11. /\ pc'[e] # "send" /\ ~ (e = "out" /\ pc'[e] = "send handshake")
       /\ pc'[e] \notin Receiving
  BY <1>5 DEF Receiving
<1>12. \E p \in Seq(Messages) : sent'[r] = delivered'[e] \o p
  BY <1>1, <1>2 DEF AsSent, r
<1>13. QED
  BY <1>1, <1>2, <1>5, <1>9, <1>10, <1>11, <1>12 DEF GoesOn, Typed, r

(* A message handed over is the next of those that were sent.              *)
LEMMA DeliverGoesOn ==
    ASSUME FramingInv, NEW e \in Ends, NEW m \in Messages, NEW q \in Seq(Messages),
           Connected(e), sent[Other(e)] = delivered[e] \o (<<m>> \o q),
           Framed(Coming(e)', q), UNCHANGED <<info_hash, out, sent>>,
           pc[e] \in Receiving, ~ Unread(e),
           len' \in [Ends -> Nat] /\ id' \in [Ends -> Byte],
           len'[Other(e)] = len[Other(e)] /\ id'[Other(e)] = id[Other(e)],
           Deliver(e, m.id, Payload(m))
    PROVE  GoesOn(e)
<1> DEFINE r == Other(e)
<1>1. Typed /\ r \in Ends /\ e # r /\ sent' = sent /\ info_hash' = info_hash
  BY Opposite DEF FramingInv
<1>2. delivered' = [delivered EXCEPT ![e] = Append(@, m)]
  <2>1. 4 * Words(m.id) <= Len(Payload(m)) /\ Parsed(m.id, Payload(m)) = m
    BY RoundTrip
  <2>2. Len(Payload(m)) \in Nat /\ Words(m.id) \in Nat
    BY RoundTrip, Bytes DEF Words
  <2>3. ~ (Len(Payload(m)) < 4 * Words(m.id))
    BY <2>1, <2>2
  <2>4. QED
    BY <2>1, <2>3 DEF Deliver
<1>3. pc' = [pc EXCEPT ![e] = "loop"]
  BY DEF Deliver, Goto
<1> HIDE DEF r
<1>4. /\ pc'[e] = "loop" /\ pc'[r] = pc[r] /\ delivered'[r] = delivered[r]
      /\ delivered'[e] = Append(delivered[e], m) /\ delivered[e] \in Seq(Messages)
  BY <1>1, <1>2, <1>3 DEF Typed
<1>5. delivered' \in [Ends -> Seq(Messages)]
  <2>1. Append(delivered[e], m) \in Seq(Messages)
    BY <1>4, AppendProperties
  <2>2. QED
    BY <1>1, <1>2, <2>1 DEF Typed
<1>6. sent'[r] = delivered'[e] \o q
  <2>1. <<m>> \in Seq(Messages)
    OBVIOUS
  <2>2. Append(delivered[e], m) = delivered[e] \o <<m>>
    BY <1>4, AppendIsConcat
  <2>3. PICK x \in Seq(Messages) : x = <<m>>
    BY <2>1
  <2>4. (delivered[e] \o x) \o q = delivered[e] \o (x \o q)
    <3>1. delivered[e] \in Seq(Messages) /\ x \in Seq(Messages) /\ q \in Seq(Messages)
      BY <1>4
    <3>2. Cat(Cat(delivered[e], x), q) = Cat(delivered[e], Cat(x, q))
      BY <3>1, MessagesCat
    <3>3. QED
      BY <3>2 DEF Cat
  <2>5. QED
    BY <1>1, <1>4, <2>2, <2>3, <2>4 DEF r
<1>7. pc' \in [Ends -> Places]
  BY <1>1, <1>3 DEF Typed, Places
<1>8. Expected(e)'
  <2>1. ~ Unsent(r)' /\ ~ Unread(e)'
    BY <1>4 DEF Connected, Unsent, Unread, r
  <2>2. BeforeLength(e)'
    BY <1>6 DEF BeforeLength, r
  <2>3. Connected(e)'
    BY <1>1, <1>4, <2>1, <2>2 DEF Connected, r
  <2>4. QED
    BY <2>3 DEF Expected
<1>9. Unsent(e)' <=> Unsent(e)
  <2>1. e = "out" \/ e = "in"
    BY DEF Ends
  <2>2. QED
    BY <1>4, <2>1 DEF Unsent, Unread, Receiving
<1>10. QED
  BY <1>4, <1>5, <1>6, <1>7, <1>8, <1>9 DEF GoesOn, Receiving, r

LEMMA LengthGoesOn ==
    ASSUME FramingInv, NEW e \in Ends, NEW bytes, NEW W,
           Read(e, bytes, W), LengthRead(e, bytes)
    PROVE  GoesOn(e)
<1> DEFINE r == Other(e)
<1>1. /\ Typed /\ Buffers /\ AsSent /\ (\A d \in Ends : pc[d] # "closed" => Expected(d))
      /\ pc[e] = "recv length" /\ len' = [len EXCEPT ![e] = Number(bytes)] /\ id' = id
  BY DEF FramingInv, LengthRead
<1>2. /\ r \in Ends /\ e # r /\ e = Other(r)
      /\ bytes \in Seq(Byte) /\ W \in Seq(Byte)
      /\ Coming(e) = bytes \o W /\ Coming(e)' = W /\ bytes # <<>>
      /\ UNCHANGED <<info_hash, out, sent>>
  BY Opposite DEF Read
<1>3. Len(bytes) = 4
  BY <1>1 DEF Read, Wanted
<1> HIDE DEF r
<1>4. Connected(e) /\ BeforeLength(e) /\ ~ Unread(e)
  <2>1. ~ Unread(e) /\ Expected(e)
    BY <1>1 DEF Unread
  <2>2. QED
    BY <1>1, <2>1 DEF Expected, Unbegun, BeforeHandshake, Connected
<1>5. PICK p \in Seq(Messages) : sent[r] = delivered[e] \o p /\ Framed(Coming(e), p)
  BY <1>4 DEF BeforeLength, r
<1>6. p # <<>>
  <2>1. Coming(e) # <<>>
    BY <1>2, ConcatEqualIffEmpty
  <2>2. QED
    BY <1>5, <2>1, FramedNone
<1>7. PICK m \in Messages, q \in Seq(Messages), V \in Seq(Byte) :
          p = <<m>> \o q /\ Coming(e) = build_message(m) \o V /\ Framed(V, q)
  <2>1. BeginsWith(Coming(e), p)
    BY <1>5, <1>6, FramedFirst
  <2>2. QED
    BY <2>1 DEF BeginsWith
<1>8. m.id \in Byte /\ Payload(m) \in Seq(Byte) /\ 1 + Len(Payload(m)) \in Word
  BY RoundTrip
<1>9. 0 \in Word
  BY DEF Word, Byte
<1>10. /\ BigEndian(0) \in Seq(Byte) /\ Len(BigEndian(0)) = 4 /\ Number(BigEndian(0)) = 0
       /\ BigEndian(1 + Len(Payload(m))) \in Seq(Byte)
       /\ Len(BigEndian(1 + Len(Payload(m)))) = 4
       /\ Number(BigEndian(1 + Len(Payload(m)))) = 1 + Len(Payload(m))
  BY <1>8, <1>9, BigEndianRead
<1>11. Number(bytes) \in Nat
  BY <1>2, <1>3, NumberIsWord DEF Word
<1>12. len' \in [Ends -> Nat] /\ id' \in [Ends -> Byte] /\ len'[e] = Number(bytes)
       /\ len'[r] = len[r] /\ id'[r] = id[r]
  BY <1>1, <1>2, <1>11 DEF Typed
<1>13. CASE m.id = KeepAlive
  <2>1. build_message(m) = BigEndian(0) /\ Payload(m) = <<>>
    BY <1>13, Built, RoundTrip
  <2>2. bytes = BigEndian(0) /\ W = V
    <3>1. bytes \o W = BigEndian(0) \o V /\ Len(bytes) = Len(BigEndian(0))
      BY <1>2, <1>3, <1>7, <1>10, <2>1
    <3>2. QED
      BY <1>2, <1>10, <3>1, SplitAt
  <2>3. Deliver(e, m.id, Payload(m))
    BY <1>10, <1>13, <2>1, <2>2 DEF LengthRead
  <2>4. sent[r] = delivered[e] \o (<<m>> \o q) /\ Framed(Coming(e)', q)
    BY <1>2, <1>5, <1>7, <2>2
  <2>5. QED
    BY <1>1, <1>2, <1>4, <1>12, <2>3, <2>4, DeliverGoesOn DEF Receiving, r
<1>14. CASE m.id # KeepAlive
  <2> DEFINE l == 1 + Len(Payload(m))
             b == BigEndian(l)
             i == <<m.id>>
  <2>1. build_message(m) = b \o (i \o Payload(m))
    BY <1>14, Built
  <2>2. b \in Seq(Byte) /\ Len(b) = 4 /\ Number(b) = l /\ i \in Seq(Byte)
    BY <1>8, <1>10
  <2>3. l \in Nat /\ l # 0 /\ 1 < l + 1
    BY <1>8, Bytes
  <2> HIDE DEF l, b, i
  <2>4. Coming(e) = b \o (i \o (Payload(m) \o V)) /\ i \o (Payload(m) \o V) \in Seq(Byte)
    <3>1. i \o Payload(m) \in Seq(Byte) /\ Payload(m) \o V \in Seq(Byte)
      BY <1>8, <2>2, Joined
    <3>2. (b \o (i \o Payload(m))) \o V = b \o ((i \o Payload(m)) \o V)
      <4>1. b \in Seq(Byte) /\ i \in Seq(Byte) /\ Payload(m) \in Seq(Byte) /\ V \in Seq(Byte)
        BY <1>8, <2>2
      <4>2. Cat(Cat(b, Cat(i, Payload(m))), V) = Cat(b, Cat(Cat(i, Payload(m)), V))
        BY <4>1, BytesCat
      <4>3. QED
        BY <4>2 DEF Cat
    <3>3. (i \o Payload(m)) \o V = i \o (Payload(m) \o V) /\ i \o (Payload(m) \o V) \in Seq(Byte)
      <4>1. i \in Seq(Byte) /\ Payload(m) \in Seq(Byte) /\ V \in Seq(Byte)
        BY <1>8, <2>2
      <4>2. Cat(Cat(i, Payload(m)), V) = Cat(i, Cat(Payload(m), V))
        BY <4>1, BytesCat
      <4>3. Cat(i, Cat(Payload(m), V)) \in Seq(Byte)
        BY <4>1, BytesCat
      <4>4. QED
        BY <4>2, <4>3 DEF Cat
    <3>4. QED
      BY <1>7, <2>1, <3>2, <3>3
  <2>5. bytes = b /\ W = i \o (Payload(m) \o V)
    <3>1. bytes \o W = b \o (i \o (Payload(m) \o V)) /\ Len(bytes) = Len(b)
      BY <1>2, <1>3, <2>2, <2>4
    <3>2. QED
      BY <1>2, <2>2, <2>4, <3>1, SplitAt
  <2>6. /\ pc' = [pc EXCEPT ![e] = "recv id"] /\ delivered' = delivered
        /\ len'[e] = l
    BY <1>12, <2>2, <2>3, <2>5 DEF LengthRead, Goto
  <2>7. pc'[e] = "recv id" /\ pc'[r] = pc[r] /\ pc' \in [Ends -> Places]
    BY <1>1, <1>2, <2>6 DEF Typed, Places, Receiving
  <2>8. BeforeId(e)'
    <3>1. sent'[r] = delivered'[e] \o (<<m>> \o q)
      BY <1>2, <1>5, <1>7, <2>6
    <3>2. len'[e] = 1 + Len(Payload(m)) /\ Coming(e)' = <<m.id>> \o (Payload(m) \o V)
      BY <1>2, <2>5, <2>6 DEF l, i
    <3>3. QED
      BY <1>7, <3>1, <3>2 DEF BeforeId, r, Framed
  <2>9. Expected(e)'
    <3>1. ~ Unsent(r)' /\ ~ Unread(e)'
      BY <1>4, <2>7 DEF Connected, Unsent, Unread, r
    <3>2. Connected(e)'
      BY <1>2, <1>4, <2>7, <2>8, <3>1 DEF Connected, r
    <3>3. QED
      BY <3>2 DEF Expected
  <2>10. Unsent(e)' <=> Unsent(e)
    BY <1>1, <2>7 DEF Unsent
  <2>11. 0 < Wanted(e)'
    <3>1. Wanted(e)' = 1
      BY <2>7 DEF Wanted
    <3>2. QED
      BY <3>1
  <2>12. \E x \in Seq(Messages) : sent'[r] = delivered'[e] \o x
    BY <1>2, <1>5, <2>6
  <2>13. QED
    BY <1>1, <1>2, <1>12, <2>6, <2>7, <2>9, <2>10, <2>11, <2>12 DEF GoesOn, Typed, r
<1>15. QED
  BY <1>13, <1>14

LEMMA IdGoesOn ==
    ASSUME FramingInv, NEW e \in Ends, NEW bytes, NEW W,
           Read(e, bytes, W), IdRead(e, bytes)
    PROVE  GoesOn(e)
<1> DEFINE r == Other(e)
<1>1. /\ Typed /\ Buffers /\ AsSent /\ (\A d \in Ends : pc[d] # "closed" => Expected(d))
      /\ pc[e] = "recv id" /\ id' = [id EXCEPT ![e] = bytes[1]] /\ len' = len
  BY DEF FramingInv, IdRead
<1>2. /\ r \in Ends /\ e # r /\ e = Other(r)
      /\ bytes \in Seq(Byte) /\ W \in Seq(Byte)
      /\ Coming(e) = bytes \o W /\ Coming(e)' = W
      /\ UNCHANGED <<info_hash, out, sent>>
  BY Opposite DEF Read
<1>3. Len(bytes) = 1
  BY <1>1 DEF Read, Wanted
<1> HIDE DEF r
<1>4. Connected(e) /\ BeforeId(e) /\ ~ Unread(e)
  <2>1. ~ Unread(e) /\ Expected(e)
    BY <1>1 DEF Unread
  <2>2. QED
    BY <1>1, <2>1 DEF Expected, Unbegun, BeforeHandshake, Connected
<1>5. PICK m \in Messages, q \in Seq(Messages), V \in Seq(Byte) :
          /\ sent[r] = delivered[e] \o (<<m>> \o q)
          /\ len[e] = 1 + Len(Payload(m))
          /\ Coming(e) = <<m.id>> \o (Payload(m) \o V)
          /\ Framed(V, q)
  BY <1>4 DEF BeforeId, r
<1>6. /\ m.id \in Byte /\ Payload(m) \in Seq(Byte)
      /\ <<m.id>> \in Seq(Byte) /\ Len(<<m.id>>) = 1 /\ Payload(m) \o V \in Seq(Byte)
  BY RoundTrip, Bytes
<1>7. bytes = <<m.id>> /\ W = Payload(m) \o V
  <2>1. PICK i \in Seq(Byte) : i = <<m.id>>
    BY <1>6
  <2>2. bytes \o W = i \o (Payload(m) \o V) /\ Len(bytes) = Len(i)
    BY <1>2, <1>3, <1>5, <1>6, <2>1
  <2>3. bytes = i /\ W = Payload(m) \o V
    BY <1>2, <1>6, <2>2, SplitAt
  <2>4. QED
    BY <2>1, <2>3
<1>8. bytes[1] = m.id
  BY <1>7
<1>9. /\ len' \in [Ends -> Nat] /\ id' \in [Ends -> Byte]
      /\ id'[e] = m.id /\ id'[r] = id[r] /\ len'[r] = len[r]
  BY <1>1, <1>2, <1>6, <1>8 DEF Typed
<1>10. CASE ~ (len[e] > 1)
  <2>1. Payload(m) = <<>>
    <3>1. PICK l \in Nat : l = Len(Payload(m))
      BY <1>6, Bytes
    <3>2. ~ (1 + l > 1)
      BY <1>5, <1>10, <3>1
    <3>3. l = 0
      BY <3>2
    <3>4. QED
      BY <1>6, <3>1, <3>3, Bytes
  <2>2. W = V
    BY <1>7, <2>1, Bytes
  <2>3. Deliver(e, m.id, Payload(m))
    BY <1>8, <1>10, <2>1 DEF IdRead
  <2>4. Framed(Coming(e)', q)
    BY <1>2, <1>5, <2>2
  <2>5. QED
    BY <1>1, <1>2, <1>4, <1>5, <1>9, <2>3, <2>4, DeliverGoesOn DEF Receiving, r
<1>11. CASE len[e] > 1
  <2>1. pc' = [pc EXCEPT ![e] = "recv payload"] /\ delivered' = delivered
    BY <1>11 DEF IdRead, Goto
  <2>2. pc'[e] = "recv payload" /\ pc'[r] = pc[r] /\ pc' \in [Ends -> Places]
    BY <1>1, <1>2, <2>1 DEF Typed, Places, Receiving
  <2>3. BeforePayload(e)'
    <3>1. /\ sent'[r] = delivered'[e] \o (<<m>> \o q)
          /\ id'[e] = m.id /\ len'[e] = 1 + Len(Payload(m)) /\ len'[e] > 1
          /\ Coming(e)' = Payload(m) \o V
      BY <1>1, <1>2, <1>5, <1>7, <1>9, <1>11, <2>1
    <3>2. QED
      BY <1>5, <3>1 DEF BeforePayload, r, Framed
  <2>4. Expected(e)'
    <3>1. ~ Unsent(r)' /\ ~ Unread(e)'
      BY <1>4, <2>2 DEF Connected, Unsent, Unread, r
    <3>2. Connected(e)'
      BY <1>2, <1>4, <2>2, <2>3, <3>1 DEF Connected, r
    <3>3. QED
      BY <3>2 DEF Expected
  <2>5. Unsent(e)' <=> Unsent(e)
    BY <1>1, <2>2 DEF Unsent
  <2>6. 0 < Wanted(e)'
    <3>1. Wanted(e)' = len[e] - 1 /\ len[e] \in Nat
      BY <1>1, <2>2 DEF Wanted, Typed
    <3>2. QED
      BY <1>11, <3>1
  <2>7. \E x \in Seq(Messages) : sent'[r] = delivered'[e] \o x
    BY <1>1, <1>2, <2>1 DEF AsSent, r
  <2>8. QED
    BY <1>1, <1>2, <1>9, <2>1, <2>2, <2>4, <2>5, <2>6, <2>7 DEF GoesOn, Typed, r
<1>12. QED
  BY <1>10, <1>11

LEMMA PayloadGoesOn ==
    ASSUME FramingInv, NEW e \in Ends, NEW bytes, NEW W,
           Read(e, bytes, W), PayloadRead(e, bytes)
    PROVE  GoesOn(e)
<1> DEFINE r == Other(e)
<1>1. /\ Typed /\ Buffers /\ AsSent /\ (\A d \in Ends : pc[d] # "closed" => Expected(d))
      /\ pc[e] = "recv payload" /\ id' = id /\ len' = len /\ Deliver(e, id[e], bytes)
  BY DEF FramingInv, PayloadRead
<1>2. /\ r \in Ends /\ e # r /\ e = Other(r)
      /\ bytes \in Seq(Byte) /\ W \in Seq(Byte)
      /\ Coming(e) = bytes \o W /\ Coming(e)' = W
      /\ UNCHANGED <<info_hash, out, sent>>
  BY Opposite DEF Read
<1>3. Len(bytes) = len[e] - 1
  BY <1>1 DEF Read, Wanted
<1> HIDE DEF r
<1>4. Connected(e) /\ BeforePayload(e) /\ ~ Unread(e)
  <2>1. ~ Unread(e) /\ Expected(e)
    BY <1>1 DEF Unread
  <2>2. QED
    BY <1>1, <2>1 DEF Expected, Unbegun, BeforeHandshake, Connected
<1>5. PICK m \in Messages, q \in Seq(Messages), V \in Seq(Byte) :
          /\ sent[r] = delivered[e] \o (<<m>> \o q)
          /\ id[e] = m.id
          /\ len[e] = 1 + Len(Payload(m)) /\ len[e] > 1
          /\ Coming(e) = Payload(m) \o V
          /\ Framed(V, q)
  BY <1>4 DEF BeforePayload, r
<1>6. Payload(m) \in Seq(Byte) /\ Len(Payload(m)) \in Nat
  BY RoundTrip, Bytes
<1>7. bytes = Payload(m) /\ W = V
  <2>1. Len(bytes) = Len(Payload(m))
    BY <1>3, <1>5, <1>6
  <2>2. QED
    BY <1>2, <1>5, <1>6, <2>1, SplitAt
<1>8. Framed(Coming(e)', q) /\ Deliver(e, m.id, Payload(m))
  BY <1>1, <1>2, <1>5, <1>7
<1>9. /\ len' \in [Ends -> Nat] /\ id' \in [Ends -> Byte]
      /\ len'[r] = len[r] /\ id'[r] = id[r] /\ pc[e] \in Receiving
  BY <1>1 DEF Typed, Receiving
<1>10. QED
  BY <1>2, <1>4, <1>5, <1>8, <1>9, DeliverGoesOn DEF r

LEMMA RecvKeeps ==
    ASSUME FramingInv, NEW e \in Ends, Recv(e)
    PROVE  FramingInv'
<1> DEFINE r == Other(e)
<1>1. /\ r \in Ends /\ e # r /\ e = Other(r)
      /\ \A d \in Ends : d = e \/ d = r
      /\ Coming(r) = got[r] \o (wire[e] \o out[e])
      /\ Coming(r)' = got'[r] \o (wire'[e] \o out'[e])
      /\ Coming(e) = got[e] \o (wire[r] \o out[r])
      /\ Coming(e)' = got'[e] \o (wire'[r] \o out'[r])
      /\ info_hash' = info_hash /\ handshake(e)' = handshake(e) /\ handshake(r)' = handshake(r)
  <2>1. /\ r \in Ends /\ e # r /\ e = Other(r)
        /\ \A d \in Ends : d = e \/ d = r
        /\ Coming(r) = Cat(got[r], Cat(wire[e], out[e]))
        /\ Coming(r)' = Cat(got'[r], Cat(wire'[e], out'[e]))
        /\ Coming(e) = Cat(got[e], Cat(wire[r], out[r]))
        /\ Coming(e)' = Cat(got'[e], Cat(wire'[r], out'[r]))
        /\ info_hash' = info_hash /\ handshake(e)' = handshake(e) /\ handshake(r)' = handshake(r)
    BY Between DEF Recv
  <2>2. QED
    BY <2>1 DEF Cat
<1>2. PICK n \in 1 .. Len(wire[r]) :
          LET bytes == got[e] \o SubSeq(wire[r], 1, n) IN
          /\ Len(bytes) <= Wanted(e)
          /\ wire' = [wire EXCEPT ![r] = SubSeq(@, n + 1, Len(@))]
          /\ IF Len(bytes) < Wanted(e)
                THEN /\ got' = [got EXCEPT ![e] = bytes]
                     /\ UNCHANGED <<pc, len, id, delivered>>
                ELSE /\ got' = [got EXCEPT ![e] = <<>>]
                     /\ \/ HandshakeRead(e, bytes)
                        \/ LengthRead(e, bytes)
                        \/ IdRead(e, bytes)
                        \/ PayloadRead(e, bytes)
  BY DEF Recv
<1>3. /\ pc[e] \in Receiving /\ UNCHANGED <<info_hash, out, sent>>
      /\ Typed /\ Buffers /\ AsSent /\ (\A d \in Ends : pc[d] # "closed" => Expected(d))
  BY DEF Recv, FramingInv
<1> HIDE DEF r
<1> DEFINE a == SubSeq(wire[r], 1, n)
           z == SubSeq(wire[r], n + 1, Len(wire[r]))
           bytes == got[e] \o a
           W == z \o out[r]
<1>4. /\ wire[r] \in Seq(Byte) /\ got[e] \in Seq(Byte) /\ out[r] \in Seq(Byte)
      /\ Len(wire[r]) \in Nat /\ n \in 0 .. Len(wire[r]) /\ n \in Nat /\ n # 0
  BY <1>1, <1>3, Bytes DEF Typed
<1>5. /\ a \in Seq(Byte) /\ Len(a) = n /\ z \in Seq(Byte) /\ Len(z) = Len(wire[r]) - n
      /\ a \o z = wire[r]
  BY <1>4, Cut
<1>6. /\ wire' = [wire EXCEPT ![r] = z]
      /\ Len(bytes) <= Wanted(e)
      /\ Len(bytes) < Wanted(e) =>
             got' = [got EXCEPT ![e] = bytes] /\ UNCHANGED <<pc, len, id, delivered>>
      /\ ~ (Len(bytes) < Wanted(e)) =>
             /\ got' = [got EXCEPT ![e] = <<>>]
             /\ \/ HandshakeRead(e, bytes) \/ LengthRead(e, bytes)
                \/ IdRead(e, bytes) \/ PayloadRead(e, bytes)
  BY <1>1, <1>2, <1>3 DEF Typed
<1> HIDE DEF a, z
<1>7. wire'[r] = z /\ wire'[e] = wire[e] /\ got'[r] = got[r]
  BY <1>1, <1>3, <1>6 DEF Typed
<1>8. /\ bytes \in Seq(Byte) /\ W \in Seq(Byte) /\ bytes # <<>>
      /\ Coming(e) = bytes \o W
  <2>1. bytes \in Seq(Byte) /\ W \in Seq(Byte)
    BY <1>4, <1>5, Bytes
  <2>2. a # <<>>
    BY <1>4, <1>5, Bytes
  <2>3. bytes # <<>>
    BY <1>4, <1>5, <2>2, ConcatEqualIffEmpty
  <2>4. wire[r] \o out[r] = a \o W
    <3>1. (a \o z) \o out[r] = a \o (z \o out[r])
      <4>1. a \in Seq(Byte) /\ z \in Seq(Byte) /\ out[r] \in Seq(Byte)
        BY <1>4, <1>5
      <4>2. Cat(Cat(a, z), out[r]) = Cat(a, Cat(z, out[r]))
        BY <4>1, BytesCat
      <4>3. QED
        BY <4>2 DEF Cat
    <3>2. QED
      BY <1>5, <3>1
  <2>5. Coming(e) = got[e] \o (a \o W)
    BY <1>1, <2>4
  <2>6. got[e] \o (a \o W) = bytes \o W
    <3>1. PICK w \in Seq(Byte) : w = W
      BY <2>1
    <3>2. (got[e] \o a) \o w = got[e] \o (a \o w)
      <4>1. got[e] \in Seq(Byte) /\ a \in Seq(Byte) /\ w \in Seq(Byte)
        BY <1>4, <1>5
      <4>2. Cat(Cat(got[e], a), w) = Cat(got[e], Cat(a, w))
        BY <4>1, BytesCat
      <4>3. QED
        BY <4>2 DEF Cat
    <3>3. QED
      BY <3>1, <3>2
  <2>7. QED
    BY <2>1, <2>3, <2>5, <2>6
<1>9. Coming(r)' = Coming(r)
  BY <1>1, <1>3, <1>7
<1>10. wire' \in [Ends -> Seq(Byte)]
  BY <1>3, <1>5, <1>6 DEF Typed
<1>11. \A d \in Ends : /\ Len(wire'[d]) <= Capacity
                       /\ pc[d] = "send handshake" /\ d = "out" => wire'[d] = <<>>
  <2>1. Len(z) <= Capacity
    <3>1. PICK l, c \in Nat : l = Len(wire[r]) /\ c = Capacity
      BY <1>4, FramingAssumption
    <3>2. l <= c /\ Len(z) = l - n
      BY <1>1, <1>3, <1>5, <3>1 DEF Buffers
    <3>3. l - n <= c
      BY <1>4, <3>2
    <3>4. QED
      BY <3>1, <3>2, <3>3
  <2>2. ~ (pc[r] = "send handshake" /\ r = "out")
    <3>1. pc[r] = "send handshake" /\ r = "out" => wire[r] = <<>>
      BY <1>1, <1>3 DEF Buffers
    <3>2. wire[r] # <<>>
      BY <1>4, Bytes
    <3>3. QED
      BY <3>1, <3>2
  <2>3. QED
    BY <1>1, <1>3, <1>7, <2>1, <2>2 DEF Buffers
<1> HIDE DEF bytes, W
<1>12. CASE Len(bytes) < Wanted(e)
  <2>1. got' = [got EXCEPT ![e] = bytes] /\ UNCHANGED <<pc, len, id, delivered>>
    BY <1>6, <1>12
  <2>2. got'[e] = bytes
    BY <1>3, <2>1 DEF Typed
  <2>3. Coming(e)' = Coming(e)
    BY <1>1, <1>3, <1>7, <1>8, <2>2 DEF W
  <2>4. Typed'
    <3>1. got' \in [Ends -> Seq(Byte)]
      BY <1>3, <1>8, <2>1 DEF Typed
    <3>2. QED
      BY <1>3, <1>10, <2>1, <3>1 DEF Typed
  <2>5. Buffers'
    <3>1. \A d \in Ends : Wanted(d)' = Wanted(d)
      BY <1>3, <2>1 DEF Wanted, handshake
    <3>2. ASSUME NEW d \in Ends
          PROVE  /\ Len(wire'[d]) <= Capacity
                 /\ pc'[d] = "send" => out'[d] # <<>>
                 /\ pc'[d] \notin {"send", "closed"} => out'[d] = <<>>
                 /\ pc'[d] \in Receiving => Len(got'[d]) < Wanted(d)'
                 /\ pc'[d] \notin Receiving \cup {"closed"} => got'[d] = <<>>
                 /\ pc'[d] = "send handshake" /\ d = "out" => wire'[d] = <<>>
      <4>1. CASE d = e
        BY <1>3, <1>11, <1>12, <2>1, <2>2, <3>1, <4>1 DEF Buffers
      <4>2. CASE d = r
        BY <1>1, <1>3, <1>7, <1>11, <2>1, <3>1, <4>2 DEF Buffers
      <4>3. QED
        BY <1>1, <4>1, <4>2
    <3>3. QED
      BY <3>2 DEF Buffers
  <2>6. AsSent'
    BY <1>3, <2>1 DEF AsSent
  <2>7. \A d \in Ends : (Unsent(d)' <=> Unsent(d)) /\ (Unread(d)' <=> Unread(d))
    BY <2>1 DEF Unsent, Unread
  <2>8. ASSUME pc'[e] # "closed"
        PROVE  Expected(e)'
    <3>1. Expected(e) /\ r = Other(e)
      BY <1>3, <2>1, <2>8 DEF r
    <3>2. QED
      BY <1>1, <1>3, <2>1, <2>3, <2>7, <3>1, Undisturbed
  <2>9. ASSUME pc'[r] # "closed"
        PROVE  Expected(r)'
    <3>1. Expected(r)
      BY <1>1, <1>3, <2>1, <2>9
    <3>2. QED
      BY <1>1, <1>3, <1>9, <2>1, <2>7, <3>1, Undisturbed
  <2>10. QED
    BY <1>1, <2>4, <2>5, <2>6, <2>8, <2>9 DEF FramingInv
<1>13. CASE ~ (Len(bytes) < Wanted(e))
  <2>1. got' = [got EXCEPT ![e] = <<>>]
    BY <1>6, <1>13
  <2>2. got'[e] = <<>>
    BY <1>3, <2>1 DEF Typed
  <2>3. Coming(e)' = W
    <3>1. Coming(e)' = <<>> \o W
      BY <1>1, <1>3, <1>7, <2>2 DEF W
    <3>2. QED
      BY <1>8, <3>1, Bytes
  <2>4. Len(bytes) = Wanted(e)
    <3>1. Wanted(e) \in Nat
      <4>1. Len(handshake(e)) \in Nat /\ len[e] \in Nat
        BY <1>3, Handshakes DEF Typed
      <4>2. pc[e] = "recv payload" => len[e] - 1 \in Nat
        <5>1. pc[e] = "recv payload" => Expected(e) /\ ~ Unread(e)
          BY <1>3 DEF Unread
        <5>2. pc[e] = "recv payload" => len[e] > 1
          BY <5>1 DEF Expected, Unbegun, BeforeHandshake, Connected, BeforePayload
        <5>3. PICK l \in Nat : l = len[e]
          BY <4>1
        <5>4. l > 1 => l - 1 \in Nat
          OBVIOUS
        <5>5. QED
          BY <5>2, <5>3, <5>4
      <4>3. CASE pc[e] = "recv handshake"
        BY <4>1, <4>3 DEF Wanted
      <4>4. CASE pc[e] = "recv length"
        BY <4>4 DEF Wanted
      <4>5. CASE pc[e] = "recv id"
        BY <4>5 DEF Wanted
      <4>6. CASE pc[e] = "recv payload"
        BY <4>2, <4>6 DEF Wanted
      <4>7. QED
        BY <1>3, <4>3, <4>4, <4>5, <4>6 DEF Receiving
    <3>2. PICK x, y \in Nat : x = Len(bytes) /\ y = Wanted(e)
      BY <1>8, <3>1, Bytes
    <3>3. x <= y /\ ~ (x < y)
      BY <1>6, <1>13, <3>2
    <3>4. x = y
      BY <3>3
    <3>5. QED
      BY <3>2, <3>4
  <2>5. Read(e, bytes, W)
    BY <1>3, <1>8, <2>3, <2>4 DEF Read
  <2>6. GoesOn(e)
    <3>1. CASE HandshakeRead(e, bytes)
      BY <2>5, <3>1, HandshakeGoesOn
    <3>2. CASE LengthRead(e, bytes)
      BY <2>5, <3>2, LengthGoesOn
    <3>3. CASE IdRead(e, bytes)
      BY <2>5, <3>3, IdGoesOn
    <3>4. CASE PayloadRead(e, bytes)
      BY <2>5, <3>4, PayloadGoesOn
    <3>5. QED
      BY <1>6, <1>13, <3>1, <3>2, <3>3, <3>4
  <2>7. /\ pc' \in [Ends -> Places] /\ len' \in [Ends -> Nat] /\ id' \in [Ends -> Byte]
        /\ delivered' \in [Ends -> Seq(Messages)]
        /\ pc'[r] = pc[r] /\ len'[r] = len[r] /\ id'[r] = id[r] /\ delivered'[r] = delivered[r]
        /\ pc'[e] # "send" /\ ~ (e = "out" /\ pc'[e] = "send handshake")
        /\ pc'[e] \in Receiving => 0 < Wanted(e)'
        /\ \E p \in Seq(Messages) : sent'[r] = delivered'[e] \o p
        /\ pc'[e] # "closed" => Expected(e)' /\ (Unsent(e)' <=> Unsent(e))
    BY <2>6 DEF GoesOn, r
  <2>8. Typed'
    <3>1. got' \in [Ends -> Seq(Byte)]
      BY <1>3, <2>1, Bytes DEF Typed
    <3>2. QED
      BY <1>3, <1>10, <2>7, <3>1 DEF Typed
  <2>9. Buffers'
    <3>1. Wanted(r)' = Wanted(r)
      BY <1>1, <2>7 DEF Wanted
    <3>2. out[e] = <<>>
      BY <1>3 DEF Buffers, Receiving
    <3>3. pc'[e] \in Receiving => Len(got'[e]) < Wanted(e)'
      <4>1. Len(got'[e]) = 0
        BY <2>2, Bytes
      <4>2. QED
        BY <2>7, <4>1
    <3>4. ASSUME NEW d \in Ends
          PROVE  /\ Len(wire'[d]) <= Capacity
                 /\ pc'[d] = "send" => out'[d] # <<>>
                 /\ pc'[d] \notin {"send", "closed"} => out'[d] = <<>>
                 /\ pc'[d] \in Receiving => Len(got'[d]) < Wanted(d)'
                 /\ pc'[d] \notin Receiving \cup {"closed"} => got'[d] = <<>>
                 /\ pc'[d] = "send handshake" /\ d = "out" => wire'[d] = <<>>
      <4>1. CASE d = e
        BY <1>3, <1>11, <2>2, <2>7, <3>2, <3>3, <4>1
      <4>2. CASE d = r
        BY <1>1, <1>3, <1>7, <1>11, <2>7, <3>1, <4>2 DEF Buffers
      <4>3. QED
        BY <1>1, <4>1, <4>2
    <3>5. QED
      BY <3>4 DEF Buffers
  <2>10. AsSent'
    <3>1. \E p \in Seq(Messages) : sent'[e] = delivered'[r] \o p
      BY <1>1, <1>3, <2>7 DEF AsSent
    <3>2. ASSUME NEW d \in Ends
          PROVE  \E p \in Seq(Messages) : sent'[Other(d)] = delivered'[d] \o p
      <4>1. CASE d = e
        BY <2>7, <4>1 DEF r
      <4>2. CASE d = r
        BY <1>1, <3>1, <4>2
      <4>3. QED
        BY <1>1, <4>1, <4>2
    <3>3. QED
      BY <3>2 DEF AsSent
  <2>11. ASSUME pc'[r] # "closed"
         PROVE  Expected(r)'
    <3>1. Expected(r) /\ (Unread(r)' <=> Unread(r))
      BY <1>1, <1>3, <2>7, <2>11 DEF Unread
    <3>2. CASE pc'[e] = "closed"
      BY <1>1, <1>3, <1>9, <2>7, <3>1, <3>2, Gone
    <3>3. CASE pc'[e] # "closed"
      <4>1. pc[e] # "closed" /\ (Unsent(e)' <=> Unsent(e))
        BY <1>3, <2>7, <3>3 DEF Receiving
      <4>2. QED
        BY <1>1, <1>3, <1>9, <2>7, <3>1, <4>1, Undisturbed
    <3>4. QED
      BY <3>2, <3>3
  <2>12. QED
    BY <1>1, <2>7, <2>8, <2>9, <2>10, <2>11 DEF FramingInv
<1>14. QED
  BY <1>12, <1>13

-----------------------------------------------------------------------------
(* The invariant holds, and the properties of Framing follow from it.      *)

LEMMA StepKeeps ==
    ASSUME FramingInv, [Next]_vars
    PROVE  FramingInv'
<1>1. ASSUME NEW e \in Ends, Thread(e) \/ SendMessage(e) \/ Dies(e)
      PROVE  FramingInv'
  <2>1. CASE SendHandshake(e)
    BY <2>1, SendHandshakeKeeps
  <2>2. CASE Send(e)
    BY <2>2, SendKeeps
  <2>3. CASE CallRead(e) \/ SendFails(e)
    BY <2>3, CallReadKeeps
  <2>4. CASE Recv(e)
    BY <2>4, RecvKeeps
  <2>5. CASE RecvFails(e) \/ Dies(e)
    BY <2>5, GoneKeeps
  <2>6. CASE SendMessage(e)
    BY <2>6, SendMessageKeeps
  <2>7. QED
    BY <1>1, <2>1, <2>2, <2>3, <2>4, <2>5, <2>6 DEF Thread
<1>2. CASE Next
  BY <1>1, <1>2 DEF Next
<1>3. CASE UNCHANGED vars
  <2>1. /\ Typed' /\ Buffers' /\ AsSent'
    BY <1>3 DEF FramingInv, vars, Typed, Buffers, AsSent, Wanted, handshake
  <2>2. ASSUME NEW r \in Ends, pc'[r] # "closed"
        PROVE  Expected(r)'
    <3>1. Expected(r)
      BY <1>3, <2>2 DEF FramingInv, vars
    <3>2. /\ Coming(r)' = Coming(r) /\ handshake(Other(r))' = handshake(Other(r))
          /\ (Unsent(Other(r))' <=> Unsent(Other(r))) /\ (Unread(r)' <=> Unread(r))
      BY <1>3 DEF vars, Coming, handshake, Unsent, Unread
    <3>3. QED
      BY <1>3, <3>1, <3>2, Undisturbed DEF vars
  <2>3. QED
    BY <2>1, <2>2 DEF FramingInv
<1>4. QED
  BY <1>2, <1>3

(* In every state of every run a reader finds before it what its place in  *)
(* the stream calls for: the rest of a message, then whole messages.       *)
THEOREM StreamInvariant == Spec => []FramingInv
<1>1. Init => FramingInv
  BY InitHolds
<1>2. FramingInv /\ [Next]_vars => FramingInv'
  BY StepKeeps
<1>3. QED
  BY <1>1, <1>2, PTL DEF Spec

(* Only bytes travel, never more than the socket buffers hold, and         *)
(* recv_exact never holds more than its caller asked for.                  *)
THEOREM BytesStayInBounds == Spec => []TypeOK
<1>1. ASSUME FramingInv
      PROVE  TypeOK
  <2>1. Typed /\ Buffers
    BY <1>1 DEF FramingInv
  <2>2. ASSUME NEW e \in Ends
        PROVE  /\ pc[e] \in Sending \cup Receiving \cup {"loop", "closed"}
               /\ \A i \in DOMAIN out[e] : out[e][i] \in Byte
               /\ \A i \in DOMAIN wire[e] : wire[e][i] \in Byte
               /\ Len(wire[e]) <= Capacity
               /\ pc[e] \in Receiving => Len(got[e]) < Wanted(e)
               /\ pc[e] = "send" => out[e] # <<>>
               /\ id[e] \in Byte /\ len[e] \in Nat
    <3>1. out[e] \in Seq(Byte) /\ wire[e] \in Seq(Byte)
      BY <2>1 DEF Typed
    <3>2. /\ \A i \in DOMAIN out[e] : out[e][i] \in Byte
          /\ \A i \in DOMAIN wire[e] : wire[e][i] \in Byte
      BY <3>1, LenProperties, ElementOfSeq
    <3>3. QED
      BY <2>1, <3>2 DEF Typed, Buffers, Places
  <2>3. QED
    BY <2>1, <2>2 DEF TypeOK, Typed
<1>2. QED
  BY <1>1, StreamInvariant, PTL

(* What read_message hands to each thread is the beginning of what the     *)
(* other one sent, field by field, however send and recv cut the stream    *)
(* and wherever an end goes.                                               *)
THEOREM ReadsWhatWasSent == Spec => []ReadAsSent
<1>1. ASSUME FramingInv
      PROVE  ReadAsSent
  <2>1. ASSUME NEW e \in Ends
        PROVE  IsPrefix(delivered[e], sent[Other(e)])
    <3> DEFINE d == delivered[e]
    <3>1. PICK p \in Seq(Messages) : sent[Other(e)] = d \o p
      BY <1>1 DEF FramingInv, AsSent
    <3>2. d \in Seq(Messages)
      BY <1>1 DEF FramingInv, Typed
    <3> HIDE DEF d
    <3>3. /\ Len(d) \in Nat /\ Len(p) \in Nat /\ Len(d \o p) = Len(d) + Len(p)
          /\ d \o p \in Seq(Messages)
      BY <3>2, LenProperties, ConcatProperties
    <3>4. Len(d) <= Len(d \o p)
      BY <3>3
    <3>5. SubSeq(d \o p, 1, Len(d)) = SubSeq(d, 1, Len(d))
      <4>1. CASE Len(d) = 0
        BY <4>1, SubSeqEmpty
      <4>2. CASE Len(d) # 0
        <5>1. 1 \in 1 .. Len(d) /\ Len(d) \in 1 .. Len(d)
          BY <3>3, <4>2
        <5>2. QED
          BY <3>2, <5>1, SubSeqOfConcat1
      <4>3. QED
        BY <4>1, <4>2
    <3>6. QED
      BY <3>1, <3>4, <3>5 DEF IsPrefix, d
  <2>2. QED
    BY <2>1 DEF ReadAsSent
<1>2. QED
  BY <1>1, StreamInvariant, PTL

(* Neither thread gets past its handshake with a remote that has another   *)
(* torrent.                                                                *)
THEOREM NoOtherTorrent == Spec => []OneTorrent
<1>1. ASSUME FramingInv
      PROVE  OneTorrent
  <2>1. ASSUME NEW e \in Ends,
               pc[e] \in {"loop", "send", "recv length", "recv id", "recv payload"}
        PROVE  info_hash[e] = info_hash[Other(e)]
    <3>1. Expected(e) /\ ~ Unread(e)
      BY <1>1, <2>1 DEF FramingInv, Unread
    <3>2. QED
      BY <3>1 DEF Expected, Unbegun, BeforeHandshake, Connected
  <2>2. QED
    BY <2>1 DEF OneTorrent
<1>2. QED
  BY <1>1, StreamInvariant, PTL

-----------------------------------------------------------------------------
(* Where the threads may come to rest.                                     *)

(* The thread of e can do nothing until the other end does: it is in send  *)
(* with the buffers full, or in recv with nothing on its way, and the      *)
(* other end is there; or it has gone.                                     *)
Waits(e) ==
    \/ pc[e] = "closed"
    \/ /\ pc[e] = "send" /\ Room(e) = 0
       /\ pc[Other(e)] # "closed"
    \/ /\ pc[e] \in Receiving /\ wire[Other(e)] = <<>>
       /\ pc[Other(e)] # "closed"

OnlySettledRests == (\A e \in Ends : Waits(e)) => Settled

LEMMA NoShorter ==
    ASSUME NEW x \in Seq(Byte), NEW y \in Seq(Byte), NEW w \in Nat, w <= Len(x)
    PROVE  ~ (Len(Cat(x, y)) < w)
<1>1. PICK a, b \in Nat : a = Len(x) /\ b = Len(y)
  BY LenProperties
<1>2. Len(Cat(x, y)) = a + b
  BY <1>1, CatLength
<1>3. w <= a
  BY <1>1
<1>4. QED
  BY <1>2, <1>3

(* The parts of a message, each as long as its reader asks for.            *)
LEMMA Parts ==
    ASSUME NEW m \in Messages
    PROVE  /\ <<m.id>> \in Seq(Byte) /\ 1 <= Len(<<m.id>>)
           /\ Payload(m) \in Seq(Byte)
           /\ \A V \in Seq(Byte) : Payload(m) \o V \in Seq(Byte)
           /\ \A n : n = 1 + Len(Payload(m)) => n - 1 \in Nat /\ n - 1 <= Len(Payload(m))
           /\ build_message(m) \in Seq(Byte) /\ 4 <= Len(build_message(m))
<1>1. <<m.id>> \in Seq(Byte) /\ 1 <= Len(<<m.id>>)
  BY RoundTrip
<1>2. Payload(m) \in Seq(Byte)
  BY RoundTrip
<1>3. \A V \in Seq(Byte) : Payload(m) \o V \in Seq(Byte)
  BY <1>2, ConcatProperties
<1>4. \A n : n = 1 + Len(Payload(m)) => n - 1 \in Nat /\ n - 1 <= Len(Payload(m))
  <2>1. PICK l \in Nat : l = Len(Payload(m))
    BY <1>2, LenProperties
  <2>2. QED
    BY <2>1
<1>5. build_message(m) \in Seq(Byte) /\ 4 <= Len(build_message(m))
  <2>1. build_message(m) \in Seq(Byte) /\ Len(build_message(m)) >= 4
    BY Built
  <2>2. PICK l \in Nat : l = Len(build_message(m))
    BY <2>1, LenProperties
  <2>3. QED
    BY <2>1, <2>2
<1>6. QED
  BY <1>1, <1>2, <1>3, <1>4, <1>5

(* A thread that waits in recv has something of a message or a handshake   *)
(* to come: it waits in the middle of none, and has read all that was sent.*)
LEMMA WaitsForMore ==
    ASSUME FramingInv, NEW r \in Ends, pc[r] \in Receiving, pc[Other(r)] \in Receiving,
           wire[Other(r)] = <<>>
    PROVE  Unbegun(r) \/ (pc[r] = "recv length" /\ delivered[r] = sent[Other(r)])
<1> DEFINE e == Other(r)
           g == got[r]
<1>1. /\ e \in Ends /\ out[e] \in Seq(Byte) /\ g \in Seq(Byte) /\ wire[e] = <<>>
      /\ delivered[r] \in Seq(Messages) /\ info_hash \in [Ends -> Hashes]
  BY Opposite DEF FramingInv, Typed
<1>2. out[e] = <<>> /\ Len(g) < Wanted(r)
  BY <1>1 DEF FramingInv, Buffers, Receiving
<1>3. Coming(r) = g
  <2>1. Coming(r) = g \o (wire[e] \o out[e])
    BY DEF Coming
  <2>2. wire[e] \o out[e] = <<>> /\ g \o <<>> = g
    BY <1>1, <1>2, Bytes
  <2>3. QED
    BY <2>1, <2>2
<1>4. Expected(r) /\ pc[e] # "closed"
  BY DEF FramingInv, Receiving
<1> HIDE DEF g, e
<1>5. ASSUME NEW x \in Seq(Byte), NEW y \in Seq(Byte), Coming(r) = x \o y,
             NEW w \in Nat, Wanted(r) = w, w <= Len(x)
      PROVE  FALSE
  <2>1. g = Cat(x, y)
    BY <1>3, <1>5 DEF Cat
  <2>2. ~ (Len(Cat(x, y)) < w)
    BY <1>5, NoShorter
  <2>3. QED
    BY <1>2, <1>5, <2>1, <2>2
<1>6. ~ BeforeHandshake(r)
  <2> SUFFICES ASSUME BeforeHandshake(r)
               PROVE  FALSE
    OBVIOUS
  <2>1. PICK V \in Seq(Byte) : Coming(r) = handshake(e) \o V
    BY <1>4 DEF BeforeHandshake, e
  <2>2. /\ handshake(e) \in Seq(Byte) /\ Len(handshake(r)) \in Nat
        /\ Len(handshake(r)) <= Len(handshake(e))
    BY <1>1, Handshakes DEF e
  <2>3. pc[r] = "recv handshake"
    BY DEF BeforeHandshake, Unread, Receiving
  <2>4. Wanted(r) = Len(handshake(r))
    BY <2>3 DEF Wanted
  <2>5. QED
    BY <1>5, <2>1, <2>2, <2>4
<1>7. CASE Connected(r)
  <2>1. pc[r] # "recv handshake"
    BY <1>7 DEF Connected, Unread
  <2>2. pc[r] # "recv id"
    <3> SUFFICES ASSUME pc[r] = "recv id"
                 PROVE  FALSE
      OBVIOUS
    <3>1. BeforeId(r)
      BY <1>7 DEF Connected
    <3>2. PICK m \in Messages, V \in Seq(Byte) : Coming(r) = <<m.id>> \o (Payload(m) \o V)
      BY <3>1 DEF BeforeId
    <3>3. <<m.id>> \in Seq(Byte) /\ Payload(m) \o V \in Seq(Byte) /\ 1 <= Len(<<m.id>>)
      BY Parts
    <3>4. Wanted(r) = 1
      BY DEF Wanted
    <3>5. QED
      BY <1>5, <3>2, <3>3, <3>4
  <2>3. pc[r] # "recv payload"
    <3> SUFFICES ASSUME pc[r] = "recv payload"
                 PROVE  FALSE
      OBVIOUS
    <3>1. BeforePayload(r)
      BY <1>7 DEF Connected
    <3>2. PICK m \in Messages, V \in Seq(Byte) :
              Coming(r) = Payload(m) \o V /\ len[r] = 1 + Len(Payload(m))
      BY <3>1 DEF BeforePayload
    <3>3. /\ Payload(m) \in Seq(Byte)
          /\ len[r] - 1 \in Nat /\ len[r] - 1 <= Len(Payload(m))
      BY <3>2, Parts
    <3>4. Wanted(r) = len[r] - 1
      BY DEF Wanted
    <3>5. QED
      BY <1>5, <3>2, <3>3, <3>4
  <2>4. pc[r] = "recv length"
    BY <2>1, <2>2, <2>3 DEF Receiving
  <2>5. PICK p \in Seq(Messages) : sent[e] = delivered[r] \o p /\ Framed(Coming(r), p)
    <3>1. BeforeLength(r)
      BY <1>7, <2>4 DEF Connected
    <3>2. QED
      BY <3>1 DEF BeforeLength, e
  <2>6. p = <<>>
    <3> SUFFICES ASSUME p # <<>>
                 PROVE  FALSE
      OBVIOUS
    <3>1. BeginsWith(Coming(r), p)
      BY <2>5, FramedFirst
    <3>2. PICK m \in Messages, V \in Seq(Byte) : Coming(r) = build_message(m) \o V
      BY <3>1 DEF BeginsWith
    <3>3. build_message(m) \in Seq(Byte) /\ 4 <= Len(build_message(m))
      BY Parts
    <3>4. Wanted(r) = 4
      BY <2>4 DEF Wanted
    <3>5. QED
      BY <1>5, <3>2, <3>3, <3>4
  <2>7. delivered[r] \o <<>> = delivered[r]
    BY <1>1, ConcatEmptySeq
  <2>8. QED
    BY <2>4, <2>5, <2>6, <2>7 DEF e
<1>8. QED
  BY <1>4, <1>6, <1>7 DEF Expected

(* The threads come to rest only where they should: with every message     *)
(* sent read by the other end, with both gone, or with both in send and    *)
(* the buffers full both ways.  In particular none waits for the rest of a *)
(* handshake or of a message that will not come.  This is what             *)
(* AllReadOrGone needs beside fairness.                                    *)
THEOREM RestOnlySettled == Spec => []OnlySettledRests
<1>1. ASSUME FramingInv, \A e \in Ends : Waits(e)
      PROVE  Settled
  <2>1. CASE \E e \in Ends : pc[e] = "closed"
    <3>1. PICK e \in Ends : pc[e] = "closed"
      BY <2>1
    <3>2. pc[Other(e)] = "closed"
      BY <1>1, <3>1, Opposite DEF Waits
    <3>3. QED
      BY <3>1, <3>2, Opposite DEF Settled
  <2>2. CASE \A e \in Ends : pc[e] = "send"
    BY <1>1, <2>2 DEF Waits, Settled, Receiving
  <2>3. ASSUME NEW e \in Ends, pc[e] = "send", pc[Other(e)] \in Receiving
        PROVE  FALSE
    <3>1. Room(e) = 0
      BY <1>1, <2>3 DEF Waits, Receiving
    <3>2. wire[e] = <<>>
      <4>1. Other(e) \in Ends /\ Other(Other(e)) = e
        BY Opposite
      <4>2. Waits(Other(e)) /\ pc[Other(e)] \notin {"closed", "send"}
        BY <1>1, <2>3, <4>1 DEF Receiving
      <4>3. QED
        BY <4>1, <4>2 DEF Waits
    <3>3. Len(wire[e]) = 0
      BY <3>2, Bytes
    <3>4. QED
      BY <3>1, <3>3, FramingAssumption DEF Room
  <2>4. CASE \A e \in Ends : pc[e] \in Receiving
    <3>1. ASSUME NEW r \in Ends
          PROVE  Unbegun(r) \/ (pc[r] = "recv length" /\ delivered[r] = sent[Other(r)])
      <4>1. pc[r] \in Receiving /\ pc[Other(r)] \in Receiving /\ wire[Other(r)] = <<>>
        BY <1>1, <2>4, Opposite DEF Waits, Receiving
      <4>2. QED
        BY <1>1, <4>1, WaitsForMore
    <3>2. ASSUME NEW r \in Ends, Unbegun(r)
          PROVE  FALSE
      <4>1. Unsent(Other(r)) /\ Unread(r)
        BY <3>2 DEF Unbegun
      <4>2. Other(r) = "in" /\ pc["in"] = "recv handshake" /\ pc["out"] = "recv handshake"
        BY <2>4, <4>1, Opposite DEF Unsent, Unread, Receiving, Ends, Other
      <4>3. Unbegun("in")
        BY <3>1, <4>2 DEF Ends
      <4>4. Unsent("out")
        BY <4>3 DEF Unbegun, Other
      <4>5. QED
        BY <4>2, <4>4 DEF Unsent
    <3>3. QED
      BY <3>1, <3>2, Opposite DEF Settled
  <2>5. ASSUME NEW e \in Ends
        PROVE  pc[e] \in Receiving \cup {"send", "closed"}
    BY <1>1 DEF Waits
  <2>6. QED
    BY <2>1, <2>2, <2>3, <2>4, <2>5, Opposite
<1>2. FramingInv => OnlySettledRests
  BY <1>1 DEF OnlySettledRests
<1>3. QED
  BY <1>2, StreamInvariant, PTL

=============================================================================
