------------------------------- MODULE MCSwarm -------------------------------
(* Small instances of Swarm for TLC.                                       *)
EXTENDS Swarm

CONSTANTS s1, s2, l1, l2

(* One leecher with two seeders, two leechers with one seeder, the         *)
(* connections being made from either side; and a leecher that can only    *)
(* download from another one.                                              *)
TwoSeeders  == {{<<l1, s1>>, <<l1, s2>>}, {<<s1, l1>>, <<l1, s2>>}}
TwoLeechers == {{<<l1, s1>>, <<l2, s1>>}, {<<l1, s1>>, <<s1, l2>>}}
Chain       == {{<<l1, s1>>, <<l2, l1>>}}

SeededOrChain == TwoSeeders \cup TwoLeechers \cup Chain

=============================================================================
