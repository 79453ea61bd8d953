---------------------------- MODULE MCController ----------------------------
(* Small instances of Controller for TLC.                                  *)
EXTENDS Controller, TLC

CONSTANTS p1, p2

(* No file yet, or the full-size file an earlier run of the program left.  *)
FreshDisk == {[i \in Pieces |-> "absent"]}
AnyEarlierFile == FreshDisk \cup [Pieces -> {"zeros", "bad", "good"}]

PeerSymmetry == Permutations(Peers)

=============================================================================
