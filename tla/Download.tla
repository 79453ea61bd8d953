------------------------------ MODULE Download ------------------------------
(***************************************************************************)
(* What a leecher promises to whoever started it: verified pieces are      *)
(* saved one by one, none of them is ever lost, and wait_until_done        *)
(* returns only when the whole file is there.  How the pieces are asked    *)
(* for, shared out and checked is not visible here; Controller implements  *)
(* this specification, and PeerLoop implements Controller.                 *)
(***************************************************************************)
CONSTANT Pieces

VARIABLES
    have,       \* the pieces whose verified bytes are in the file
    returned    \* has wait_until_done returned?

(* The file of an earlier run may already hold some of the pieces.         *)
Init == have \subseteq Pieces /\ returned = FALSE

Save(i) == /\ i \in Pieces \ have
           /\ have' = have \cup {i}
           /\ UNCHANGED returned

Return == /\ have = Pieces
          /\ returned' = TRUE
          /\ UNCHANGED have

Next == Return \/ \E i \in Pieces : Save(i)

Spec == Init /\ [][Next]_<<have, returned>>

=============================================================================
