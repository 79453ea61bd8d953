------------------------------- MODULE Bencode -------------------------------
(***************************************************************************)
(* The parser of src/Parser/decoder.cpp: torrent files (parse_torrent,     *)
(* parse_info_dict) and tracker responses (parse_response_dict), read one  *)
(* dictionary entry at a time, whole or cut short.  A response is cut when *)
(* the tracker's connection ends early, as recv_inf then returns what came *)
(* so far; a torrent file when it was not copied or written to its end.    *)
(*                                                                         *)
(* Data is a sequence of bytes, and positions count from 0 as in the code; *)
(* a negative position stands for the one its size_t wraps to, beyond all  *)
(* data.  A key is one byte long: what matters is which key it is.  Hashes *)
(* stay bytes, and a peer is [ip, port]; their text forms are left out.    *)
(***************************************************************************)
EXTENDS Integers, SequencesExt

CONSTANTS
    Sha1(_),        \* OpenSSL's SHA1
    HashLength,     \* 20
    PieceLength,    \* 32768
    Documents,      \* what there is to parse: [kind, data], and what it says:
                    \* the fields expected, and the bytes of info
    Oddities,       \* what says nothing that the parser could keep: [kind, data]
    MaxInt,         \* the largest int, 2^31 - 1
    MaxLong,        \* the largest int64_t, 2^63 - 1
    MaxNest,        \* how deep skip_value calls itself before its stack ends
    MaxPast         \* how far past the data it reads before a 0 stops it

Byte == 0 .. 255

(* The bytes of the grammar: d e i l : and the digits from 0.              *)
D == 100
E == 101
I == 105
L == 108
Colon == 58
Plus == 43
Minus == 45
Space == {32} \cup 9 .. 13
Digit == 48 .. 57

Key == [announce |-> <<97>>, created_by |-> <<99>>, info |-> <<I>>,
        length |-> <<L>>, name |-> <<110>>, piece_length |-> <<112>>,
        pieces |-> <<115>>, complete |-> <<111>>, incomplete |-> <<116>>,
        interval |-> <<118>>, mininterval |-> <<109>>, peers |-> <<E>>]

Known == [outer |-> {"announce", "created_by", "info"},
          info |-> {"length", "name", "piece_length", "pieces"},
          response |-> {"complete", "incomplete", "interval", "mininterval", "peers"}]

Counts == {"length", "piece_length", "complete", "incomplete", "interval",
              "mininterval"}
Ints == {"interval", "mininterval"}         \* int, the others are int64_t
Texts == {"announce", "created_by", "name"}
Rows == {"pieces", "peers"}

Nothing == [f \in Counts \cup Texts \cup Rows |-> IF f \in Counts THEN 0 ELSE <<>>]

ASSUME BencodeAssumption ==
    /\ HashLength \in Nat \ {0} /\ PieceLength \in Nat \ {0}
    /\ MaxInt \in Nat /\ MaxLong \in Nat /\ MaxInt <= MaxLong
    /\ MaxNest \in Nat \ {0} /\ MaxPast \in Nat
    /\ \A d \in Documents \cup Oddities :
          d.kind \in {"outer", "response"} /\ d.data \in Seq(Byte)
    /\ \A d \in Documents : DOMAIN d.expected = DOMAIN Nothing

VARIABLES
    doc,            \* the document it should have been
    data,           \* what was read of it
    pos,            \* the parser's position
    at,             \* the dictionary it is in, or how it ended
    nest,           \* 0, or how deep in calls of skip_value it is
    result,         \* the fields read so far
    info_start,     \* where parse_torrent says that the info dictionary is
    info_end

vars == <<doc, data, pos, at, nest, result, info_start, info_end>>

Dictionaries == {"outer", "info", "response"}
Ended == {"done", "threw", "overflow"}

-----------------------------------------------------------------------------
(* Writing.                                                                *)
Digits[n \in Nat] ==
    IF n < 10 THEN <<48 + n>> ELSE Append(Digits[n \div 10], 48 + (n % 10))

Num(n) == <<I>> \o Digits[n] \o <<E>>
Str(s) == Digits[Len(s)] \o <<Colon>> \o s

(* What read fills the buffer with, until it yields nothing.               *)
Chunks(file) ==
    [k \in 1 .. (Len(file) + PieceLength - 1) \div PieceLength |->
        SubSeq(file, (k - 1) * PieceLength + 1, Min({k * PieceLength, Len(file)}))]

create_torrent(file, filename, url) ==
    LET chunks == Chunks(file)
        hashes == [k \in DOMAIN chunks |-> Sha1(chunks[k])]
    IN <<D>> \o Str(Key.announce) \o Str(url)
             \o Str(Key.info)
             \o <<D>> \o Str(Key.length) \o Num(Len(file))
                      \o Str(Key.name) \o Str(filename)
                      \o Str(Key.piece_length) \o Num(PieceLength)
                      \o Str(Key.pieces) \o Str(FlattenSeq(hashes)) \o <<E>>
       \o <<E>>

(* htons(6881) turns the port's two bytes round, and they are then written *)
(* high byte first, as if they had not been: 57626 is announced.           *)
build_tracker_response ==
    <<D>> \o Str(Key.complete) \o Num(4) \o Str(Key.incomplete) \o Num(0)
          \o Str(Key.interval) \o Num(60) \o Str(Key.mininterval) \o Num(60)
          \o Str(Key.peers) \o Str(<<127, 0, 0, 1, 225, 26>>)
    \o <<E>>

-----------------------------------------------------------------------------
(* Reading.                                                                *)
Size == Len(data)

(* data[p]: the byte, the 0 a string ends with, or, outside, undefined: a  *)
(* byte of each kind stands for what memory may hold there.                *)
ByteAt(p) ==
    CASE p \in 0 .. Size - 1 -> {data[p + 1]}
      [] p < 0 \/ (p > Size /\ p < Size + MaxPast) -> {0, D, E, I, 48}
      [] OTHER -> {0}

Found(b, p) == p >= 0 /\ \E q \in p .. Size - 1 : data[q + 1] = b
Find(b, p) == CHOOSE q \in p .. Size - 1 :
                 data[q + 1] = b /\ \A r \in p .. q - 1 : data[r + 1] # b

Bytes(p, q) == SubSeq(data, p + 1, q)           \* those from p to before q

(* stoi and stoll skip spaces, take a sign and read the digits after it;   *)
(* they throw if there is none, or if they say more than fits.             *)
FirstDigit(bytes, b) ==
    /\ bytes[b] \in Digit
    /\ b > 1 => bytes[b - 1] \in Space \cup {Plus, Minus}
    /\ \A i \in 1 .. b - 2 : bytes[i] \in Space

Numeric(bytes) == \E b \in 1 .. Len(bytes) : FirstDigit(bytes, b)

Decimal(bytes, n) ==                \* what the first n of them say
    LET value[k \in 0 .. n] ==
            IF k = 0 THEN 0 ELSE 10 * value[k - 1] + (bytes[k] - 48)
    IN value[n]

Unsigned(bytes) ==
    Decimal(bytes, CHOOSE k \in 1 .. Len(bytes) :
                       /\ \A i \in 1 .. k : bytes[i] \in Digit
                       /\ k < Len(bytes) => bytes[k + 1] \notin Digit)

Number(bytes) ==
    IF bytes[1] \in Digit THEN Unsigned(bytes)
    ELSE LET b == CHOOSE b \in 2 .. Len(bytes) : FirstDigit(bytes, b)
             n == Unsigned(SubSeq(bytes, b, Len(bytes)))
         IN IF bytes[b - 1] = Minus THEN -n ELSE n

FitsIn(n, max) == n \in -(max + 1) .. max

(* read_string at p: does it return, what, and with which position?  A     *)
(* string that is cut short is returned as far as it goes.  One of         *)
(* negative length is all that is left, and the position moves back.       *)
IsString(p) ==
    /\ Found(Colon, p)
    /\ LET digits == Bytes(p, Find(Colon, p))
       IN Numeric(digits) /\ FitsIn(Number(digits), MaxInt)

read_string(p) ==
    LET colon == Find(Colon, p)
        len == Number(Bytes(p, colon))
        next == colon + 1 + len
    IN [value |-> Bytes(colon + 1, IF len < 0 THEN Size ELSE Min({next, Size})),
        next |-> next]

EndOfInteger(p) == IF Found(E, p + 1) THEN Find(E, p + 1) ELSE Size

FaultyIsInteger(p) ==               \* an integer ends where the data does
    LET digits == Bytes(p + 1, EndOfInteger(p))
    IN Numeric(digits) /\ FitsIn(Number(digits), MaxLong)

IsInteger(p) ==
    /\ Found(E, p + 1)
    /\ LET digits == Bytes(p + 1, Find(E, p + 1))
       IN Numeric(digits) /\ FitsIn(Number(digits), MaxLong)

read_integer(p) ==
    [value |-> Number(Bytes(p + 1, EndOfInteger(p))), next |-> EndOfInteger(p) + 1]

(* What a field keeps of a number: an int its lowest bits.                 *)
Kept(f, n) ==
    IF f \notin Ints \/ FitsIn(n, MaxInt) THEN n
    ELSE ((n + MaxInt + 1) % (2 * (MaxInt + 1))) - (MaxInt + 1)

(* Parts of n bytes; what is left over is dropped.                         *)
PartsOf(raw, n) ==
    [k \in 1 .. Len(raw) \div n |-> SubSeq(raw, (k - 1) * n + 1, k * n)]

Peer(p) == [ip |-> SubSeq(p, 1, 4), port |-> 256 * p[5] + p[6]]

FaultyValueOf(f, raw) ==            \* the last hash may be shorter
    IF f # "pieces" THEN <<>>
    ELSE [k \in 1 .. (Len(raw) + HashLength - 1) \div HashLength |->
             SubSeq(raw, (k - 1) * HashLength + 1, Min({k * HashLength, Len(raw)}))]

ValueOf(f, raw) ==
    CASE f = "pieces" -> PartsOf(raw, HashLength)
      [] f = "peers" -> LET parts == PartsOf(raw, 6)
                        IN [k \in DOMAIN parts |-> Peer(parts[k])]
      [] OTHER -> raw

-----------------------------------------------------------------------------
Init ==
    /\ doc \in Documents \cup Oddities
    /\ \E n \in 0 .. Len(doc.data) : data = SubSeq(doc.data, 1, n)
    /\ pos = 1                      \* past the outer 'd'
    /\ at = doc.kind
    /\ nest = 0
    /\ result = Nothing
    /\ info_start = 0 /\ info_end = 0

(* An exception: nothing catches it.                                       *)
Throw == at' = "threw" /\ UNCHANGED <<doc, data, pos, nest, result, info_start, info_end>>

InLoop == at \in Dictionaries /\ nest = 0
More == pos \in 0 .. Size - 1 /\ data[pos + 1] # E

(* The loop of a dictionary ends.                                          *)
EndOfDictionary ==
    /\ InLoop /\ ~ More
    /\ CASE at = "info" -> at' = "outer" /\ pos' = pos + 1 /\ info_end' = pos
         [] at = "response" -> at' = "done" /\ pos' = pos + 1 /\ UNCHANGED info_end
         [] at = "outer" -> at' = "done" /\ UNCHANGED <<pos, info_end>>
    /\ UNCHANGED <<doc, data, nest, result, info_start>>

BadKey == InLoop /\ More /\ ~ IsString(pos) /\ Throw

(* One turn of the loop, with key k read and its value at p.               *)
Entry(k, p) ==
    /\ InLoop /\ More /\ IsString(pos)
    /\ k = read_string(pos).value /\ p = read_string(pos).next

IntegerEntry(f, k, p) ==
    /\ f \in Counts /\ k = Key[f] /\ Entry(k, p)
    /\ IF IsInteger(p)
          THEN /\ result' = [result EXCEPT ![f] = Kept(f, read_integer(p).value)]
               /\ pos' = read_integer(p).next
               /\ UNCHANGED <<doc, data, at, nest, info_start, info_end>>
          ELSE Throw

(* Hashes and peers are appended to those of a key that came before.       *)
StringEntry(f, k, p) ==
    /\ f \in Texts \cup Rows /\ k = Key[f] /\ Entry(k, p)
    /\ IF IsString(p)
          THEN /\ LET value == ValueOf(f, read_string(p).value)
                  IN result' = [result EXCEPT ![f] = IF f \in Rows THEN @ \o value ELSE value]
               /\ pos' = read_string(p).next
               /\ UNCHANGED <<doc, data, at, nest, info_start, info_end>>
          ELSE Throw

InfoEntry(k, p) ==
    /\ at = "outer" /\ k = Key.info /\ Entry(k, p)
    /\ info_start' = p
    /\ at' = "info" /\ pos' = p + 1
    /\ UNCHANGED <<doc, data, nest, result, info_end>>

OtherEntry(k, p) ==
    /\ (\A f \in Known[at] : k # Key[f]) /\ Entry(k, p)
    /\ nest' = 1 /\ pos' = p
    /\ UNCHANGED <<doc, data, at, result, info_start, info_end>>

(* A call of skip_value returns: to the loop of the dictionary, or to that *)
(* of the list or dictionary being skipped.                                *)
Returned == IF nest = 1 THEN 0 ELSE nest

FaultySkipEnd(c) ==                 \* the first 'e' ends them all
    /\ c = E /\ nest > 1
    /\ pos' = pos + 1 /\ nest' = 0 /\ UNCHANGED at

SkipEnd(c) ==
    /\ c = E /\ nest > 1
    /\ pos' = pos + 1 /\ nest' = (IF nest = 2 THEN 0 ELSE nest - 1)
    /\ UNCHANGED at

(* No 'e' takes the parser back to position 0: the check that there is one *)
(* comes after 1 was added.                                                *)
SkipInteger(c) ==
    /\ c = I
    /\ pos' = (IF Found(E, pos + 1) THEN Find(E, pos + 1) + 1 ELSE 0)
    /\ nest' = Returned /\ UNCHANGED at

FaultySkipString(c) ==              \* no branch for strings
    c \in Digit /\ nest' = Returned /\ UNCHANGED <<pos, at>>

SkipString(c) ==
    /\ c \in Digit
    /\ IF IsString(pos)
          THEN pos' = read_string(pos).next /\ nest' = Returned /\ UNCHANGED at
          ELSE at' = "threw" /\ UNCHANGED <<pos, nest>>

SkipInto(c) ==
    /\ c \in {L, D}
    /\ IF nest < MaxNest
          THEN pos' = pos + 1 /\ nest' = nest + 1 /\ UNCHANGED at
          ELSE at' = "overflow" /\ UNCHANGED <<pos, nest>>

(* On any other byte skip_value returns where it was; the loop of a list   *)
(* then calls it again, for ever.                                          *)
SkipNothing(c) ==
    /\ c \notin Digit \cup {I, L, D} /\ (c = E => nest = 1)
    /\ nest' = Returned /\ UNCHANGED <<pos, at>>

Skip ==
    /\ at \in Dictionaries /\ nest > 0
    /\ \E c \in ByteAt(pos) :
          \/ SkipEnd(c) \/ SkipInteger(c) \/ SkipString(c)
          \/ SkipInto(c) \/ SkipNothing(c)
    /\ UNCHANGED <<doc, data, result, info_start, info_end>>

Next ==
    \/ EndOfDictionary \/ BadKey \/ Skip
    \/ /\ InLoop /\ More /\ IsString(pos)
       /\ \E key \in {read_string(pos)} :
             \/ \E f \in Known[at] : \/ IntegerEntry(f, key.value, key.next)
                                    \/ StringEntry(f, key.value, key.next)
             \/ InfoEntry(key.value, key.next)
             \/ OtherEntry(key.value, key.next)

Spec == Init /\ [][Next]_vars /\ WF_vars(Next)

-----------------------------------------------------------------------------
Whole == data = doc.data

(* data.substr(info_start, info_end - info_start + 1) of main.cpp.         *)
InfoRaw == Bytes(info_start, info_end + 1)

TypeOK ==
    /\ doc \in Documents \cup Oddities
    /\ pos \in Int /\ nest \in 0 .. MaxNest
    /\ at \in Dictionaries \cup Ended
    /\ \A f \in Counts : FitsIn(result[f], IF f \in Ints THEN MaxInt ELSE MaxLong)
    /\ \A k \in DOMAIN result.pieces : Len(result.pieces[k]) = HashLength
    /\ \A k \in DOMAIN result.peers : result.peers[k].port \div 256 \in Byte
    /\ info_start \in Int /\ info_end \in Int

(* A whole document is read to its end, every field as it was written, and *)
(* the bytes hashed into info_hash are those of the info dictionary,       *)
(* whatever unknown keys come between and whatever bytes strings hold.     *)
WholeIsRead ==
    doc \in Documents /\ Whole /\ at \in Ended =>
        /\ at = "done"
        /\ result = doc.expected
        /\ doc.kind = "outer" => InfoRaw = doc.info

(* However a document is cut, no number is misread, and no hash, peer or   *)
(* name that the document does not begin with is made up.                  *)
NothingInvented ==
    doc \in Documents =>
    /\ \A f \in Counts : result[f] \in {0, doc.expected[f]}
    /\ \A f \in Texts \cup Rows : IsPrefix(result[f], doc.expected[f])

(* Parsing a document ends, unless the data stops within a list or         *)
(* dictionary that is being skipped: there skip_value reads at or past the *)
(* end again and again.                                                    *)
ParsingEnds ==
    doc \in Documents => <>(at \in Ended) \/ []<>(nest > 1 /\ pos >= Size)

=============================================================================
