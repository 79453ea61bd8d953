----------------------------- MODULE MCPeerLoop -----------------------------
(* Small instances of PeerLoop for TLC.                                    *)
EXTENDS PeerLoop, TLC

CONSTANTS p1, p2

FreshDisk == {[i \in Pieces |-> "absent"]}
WholeOrMissingFile == FreshDisk \cup {[i \in Pieces |-> "good"]}

PeerSymmetry == Permutations(Peers)

=============================================================================
