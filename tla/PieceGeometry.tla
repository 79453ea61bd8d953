---------------------------- MODULE PieceGeometry ----------------------------
(***************************************************************************)
(* How a torrent's file is cut: into total_pieces pieces of piece_length   *)
(* bytes (the last one may be shorter), each of them into blocks of        *)
(* block_length bytes (the last one of a piece may be shorter).  A block   *)
(* is named as the code names it, by <<piece_index, block_offset>>.        *)
(***************************************************************************)
EXTENDS Integers

CONSTANTS
    length,         \* Controller::length, the bytes of the file
    piece_length,   \* Controller::piece_length, from the torrent
    block_length,   \* Controller::block_length, 16384 in the code
    total_pieces    \* Controller::total_pieces, one SHA-1 hash each

(* create_torrent writes one hash per chunk it reads, so the pieces cover  *)
(* the file and the last one is not empty.                                 *)
ASSUME GeometryAssumption ==
    /\ length \in Nat \ {0}
    /\ piece_length \in Nat \ {0}
    /\ block_length \in Nat \ {0}
    /\ total_pieces \in Nat \ {0}
    /\ piece_length * (total_pieces - 1) < length
    /\ length <= piece_length * total_pieces

Pieces == 0 .. total_pieces - 1

piece_length_for(i) ==
    IF i < total_pieces - 1 THEN piece_length ELSE length - piece_length * i

count_blocks(i) == (piece_length_for(i) + block_length - 1) \div block_length

Offsets(i) == {k * block_length : k \in 0 .. count_blocks(i) - 1}

Blocks == UNION {{i} \X Offsets(i) : i \in Pieces}

=============================================================================
