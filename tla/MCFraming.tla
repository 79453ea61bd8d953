----------------------------- MODULE MCFraming -----------------------------
(* A small instance of Framing for TLC: two torrents, handshake fields of  *)
(* one or two bytes, and messages whose numbers need more than one byte.   *)
EXTENDS Framing

ShortProtocol == <<66, 84>>
ShortZero == <<0>>
TwoHashes == {<<7>>, <<8>>}
ShortIds == [e \in Ends |-> IF e = "out" THEN <<1>> ELSE <<2>>]

SomeMessages == {
    [id |-> KeepAlive, pieces |-> {}, words |-> <<>>, data |-> <<>>],
    [id |-> Choke, pieces |-> {}, words |-> <<>>, data |-> <<>>],
    [id |-> Have, pieces |-> {}, words |-> <<258>>, data |-> <<>>],
    [id |-> Bitfield, pieces |-> {0, 6, 8}, words |-> <<>>, data |-> <<>>],
    [id |-> Request, pieces |-> {}, words |-> <<1, 32768, 16384>>, data |-> <<>>],
    [id |-> Piece, pieces |-> {}, words |-> <<1, 32768>>, data |-> <<255>>]}

=============================================================================
