---------------------------- MODULE Dissemination ----------------------------
(***************************************************************************)
(* What a swarm of this program promises to those who run it: seeders hold *)
(* the whole file, leechers start with none of it, and from there verified *)
(* pieces go from one end of a connection to the other, one at a time,     *)
(* each from a process that holds it, and none is lost.  Bitfields, Haves, *)
(* chokes, requests, reservations and blocks are not visible here; Swarm   *)
(* implements this specification.                                          *)
(***************************************************************************)
CONSTANTS Pieces, Seeders, Leechers, Topologies

VARIABLES
    links,      \* the connections, each named by the process that made it
    have        \* the pieces whose verified bytes each process has on disk

Processes == Seeders \cup Leechers

Init ==
    /\ links \in Topologies
    /\ have = [p \in Processes |-> IF p \in Seeders THEN Pieces ELSE {}]

(* Leecher p completes piece i, the last block of which came from q.       *)
Obtain(p, q, i) ==
    /\ <<p, q>> \in links \/ <<q, p>> \in links
    /\ i \in have[q] \ have[p]
    /\ have' = [have EXCEPT ![p] = @ \cup {i}]
    /\ UNCHANGED links

Next == \E p \in Leechers, q \in Processes, i \in Pieces : Obtain(p, q, i)

Spec == Init /\ [][Next]_<<links, have>>

=============================================================================
