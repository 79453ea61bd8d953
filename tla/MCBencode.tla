----------------------------- MODULE MCBencode -----------------------------
(* Documents for TLC: torrents as create_torrent writes them and as other  *)
(* programs do, and responses of trackers.  Names and hashes hold bytes of *)
(* the grammar, and a hash has two bytes.                                  *)
EXTENDS Bencode

MCSha1(chunk) == <<chunk[1], 47 + Len(chunk)>>

(* A torrent for a file of two whole pieces, for one with a third, shorter *)
(* piece, and for an empty file.                                           *)
Url == <<104, Colon>>

Created(file, hashes) ==
    [kind |-> "outer", data |-> create_torrent(file, <<E>>, Url),
     info |-> <<D>> \o Str(Key.length) \o Num(Len(file)) \o Str(Key.name) \o Str(<<E>>)
                    \o Str(Key.piece_length) \o Num(2)
                    \o Str(Key.pieces) \o Str(FlattenSeq(hashes)) \o <<E>>,
     expected |-> [Nothing EXCEPT !.announce = Url, !.name = <<E>>,
                      !.length = Len(file), !.piece_length = 2, !.pieces = hashes]]

(* Unknown keys before, in and after info, with lists, dictionaries and    *)
(* integers as their values.                                               *)
Unknown == Str(<<120>>) \o <<L>> \o Num(12) \o <<D>> \o Str(<<I>>) \o Str(<<E, Colon>>)
                        \o Str(<<121>>) \o <<L, E, E, E>>
UnknownInt == Str(<<D>>) \o Num(305)
TheirInfo == <<D>> \o Unknown \o Str(Key.length) \o Num(10) \o UnknownInt
                   \o Str(Key.name) \o Str(<<I, 49, E>>)
                   \o Str(Key.pieces) \o Str(<<Colon, E, L>>) \o <<E>>

Foreign ==
    [kind |-> "outer",
     data |-> <<D>> \o UnknownInt \o Str(Key.announce) \o Str(Url) \o Unknown
                    \o Str(Key.info) \o TheirInfo \o Str(Key.created_by) \o Str(<<D>>)
                    \o UnknownInt \o <<E>>,
     info |-> TheirInfo,
     expected |-> [Nothing EXCEPT !.announce = Url, !.created_by = <<D>>, !.length = 10,
                      !.name = <<I, 49, E>>, !.pieces = << <<Colon, E>> >>]]

(* The response of Tracker.cpp, and one with two peers and an unknown key. *)
OwnTracker ==
    [kind |-> "response", data |-> build_tracker_response, info |-> <<>>,
     expected |-> [Nothing EXCEPT !.complete = 4, !.interval = 60, !.mininterval = 60,
                      !.peers = << [ip |-> <<127, 0, 0, 1>>, port |-> 57626] >>]]

OtherTracker ==
    [kind |-> "response",
     data |-> <<D>> \o Str(Key.incomplete) \o Num(2) \o Unknown \o Str(Key.peers)
                    \o Str(<<10, 0, 0, E, 26, 225, 10, 0, Colon, 1, 0, 80>>) \o <<E>>,
     info |-> <<>>,
     expected |-> [Nothing EXCEPT !.incomplete = 2,
                      !.peers = << [ip |-> <<10, 0, 0, E>>, port |-> 6881],
                                   [ip |-> <<10, 0, Colon, 1>>, port |-> 80] >>]]

(* Numbers with a space and signs, and peers in two parts.                 *)
Signed ==
    [kind |-> "response",
     data |-> <<D>> \o Str(Key.complete) \o <<I, 32, Plus, 55, E>>
                    \o Str(Key.peers) \o Str(<<10, 0, 0, 1, 26, 225>>)
                    \o Str(Key.interval) \o <<I, Minus, 50, E>>
                    \o Str(Key.peers) \o Str(<<10, 0, 0, 2, 26, 225>>) \o <<E>>,
     info |-> <<>>,
     expected |-> [Nothing EXCEPT !.complete = 7, !.interval = -2,
                      !.peers = << [ip |-> <<10, 0, 0, 1>>, port |-> 6881],
                                   [ip |-> <<10, 0, 0, 2>>, port |-> 6881] >>]]

MCDocuments == {
    Created(<<E, 5, Colon, 6>>, << <<E, 49>>, <<Colon, 49>> >>),
    Created(<<E, 5, Colon, 6, D>>, << <<E, 49>>, <<Colon, 49>>, <<D, 48>> >>),
    Created(<<>>, <<>>),
    Foreign, OwnTracker, OtherTracker, Signed}

(* A length with a sign; negative lengths that lead back to the key, to    *)
(* the length itself, and to before the data, in a value, in a key that is *)
(* skipped and in info; numbers too large for an int, for an int64_t and   *)
(* for a length.                                                           *)
Response(entries) == [kind |-> "response", data |-> <<D>> \o entries]

Less(digit) == <<Minus, digit, Colon>>

MCOddities == {
    Response(<<32, Plus, 49, Colon>> \o Key.complete \o Num(7) \o <<E>>),
    Response(Str(Key.peers) \o Less(54) \o <<E>>),
    Response(Str(Key.peers) \o Less(51) \o <<49, 50, 51, 52, 53, 54, E>>),
    Response(Str(Key.peers) \o Less(57) \o <<E>>),
    Response(Less(57) \o <<L, E, E>>),
    [kind |-> "outer", data |-> <<D>> \o Str(Key.info) \o <<D>> \o Str(Key.name)
                                    \o <<Minus, 49, 50, Colon, E, E>>],
    Response(Str(Key.interval) \o Num(300) \o Str(Key.mininterval)
             \o <<I, Minus>> \o Digits[200] \o <<E>>
             \o Str(Key.complete) \o Num(300) \o Str(Key.incomplete) \o Num(40000) \o <<E>>),
    Response(Str(Key.interval) \o Num(5) \o Digits[128] \o <<Colon, E>>)}

=============================================================================
