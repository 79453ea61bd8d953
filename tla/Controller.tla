----------------------------- MODULE Controller -----------------------------
(***************************************************************************)
(* The shared piece manager (src/Controller/Controller.hpp).  Its data     *)
(* members are the fields of one record, so that every method is an        *)
(* operator from a record to the record (or the set of records) it leaves, *)
(* and so that several processes can each have one.  Here one process has  *)
(* one manager, and any thread calls any method at any time: the methods   *)
(* hold mtx, so a call is one step.                                        *)
(*                                                                         *)
(* Bytes are abstracted to whether they are the torrent's: a block that    *)
(* arrives is "good", "bad" (right size, other bytes) or "short" (wrong    *)
(* size); SHA-1 is taken to have no collisions.                            *)
(***************************************************************************)
EXTENDS PieceGeometry

CONSTANTS
    Peers,          \* the ids register_peer hands out (crnt_peer++, never reused)
    Mode,           \* "LEECHER" or "SEEDER"
    Data,           \* the kinds of data a Piece message may carry
    InitialDisks,   \* what the file may hold when the process starts
    DiskMayFail     \* can opening, growing or writing the file fail?

Content == {"absent", "zeros", "bad", "good"}

ASSUME ControllerAssumption ==
    /\ Mode \in {"LEECHER", "SEEDER"}
    /\ Data \subseteq {"good", "bad", "short"}
    /\ InitialDisks \subseteq [Pieces -> Content]
    /\ DiskMayFail \in BOOLEAN

VARIABLE manager

Statuses == 0 .. 2      \* 0: not there, 1: done, 2: ongoing

(* waiter is where the main thread is in wait_until_done: about to         *)
(* evaluate the predicate, asleep on cv, or back in run_leecher.           *)
Managers ==
    [piece_status : [Pieces -> Statuses],
     inflight     : SUBSET Blocks,
     piece_blocks : [Blocks -> {"none", "good", "bad"}],
     registered   : SUBSET Peers,
     send_haves   : [Peers -> SUBSET Pieces],
     disk         : [Pieces -> Content],
     waiter       : {"checking", "asleep", "returned"}]

(* The constructor, when the file holds d.                                 *)
Constructed(d) ==
    [piece_status |-> [i \in Pieces |-> IF Mode = "SEEDER" THEN 1 ELSE 0],
     inflight     |-> {},
     piece_blocks |-> [b \in Blocks |-> "none"],
     registered   |-> {},
     send_haves   |-> [p \in Peers |-> {}],
     disk         |-> d,
     waiter       |-> IF Mode = "SEEDER" THEN "returned" ELSE "checking"]

Init == \E d \in InitialDisks : manager = Constructed(d)

-----------------------------------------------------------------------------
(* Methods, as operators on a manager c.                                   *)

Done(c) == {i \in Pieces : c.piece_status[i] = 1}

(* Definitions named Faulty... are one plausible slip in the definition    *)
(* they precede; nothing uses them.  They record which slip each property  *)
(* of the project catches.                                                 *)
FaultyCandidates(c, have) ==        \* forgets what is in flight
    {b \in Blocks : /\ b[1] \in have
                    /\ c.piece_status[b[1]] # 1
                    /\ c.piece_blocks[b] = "none"}

Candidates(c, have) ==
    {b \in Blocks : /\ b[1] \in have
                    /\ c.piece_status[b[1]] # 1
                    /\ c.piece_blocks[b] = "none"
                    /\ b \notin c.inflight}

NotAfter(a, b) == a[1] < b[1] \/ (a[1] = b[1] /\ a[2] <= b[2])

(* The block next_request picks for a peer that has the pieces in have:    *)
(* the first candidate in file order, {} for std::nullopt.                 *)
next_request(c, have) ==
    {b \in Candidates(c, have) :
        Mode = "LEECHER" /\ \A a \in Candidates(c, have) : NotAfter(b, a)}

reserve(c, b) == [c EXCEPT !.inflight = @ \cup {b},
                           !.piece_status = [@ EXCEPT ![b[1]] = 2]]

release_in_flight(c, b) == [c EXCEPT !.inflight = @ \ {b}]

store(c, b, d) == [c EXCEPT !.inflight = @ \ {b},
                            !.piece_blocks = [@ EXCEPT ![b] = d]]

BlocksOf(i) == {b \in Blocks : b[1] = i}

Assembled(c, i) == \A b \in BlocksOf(i) : c.piece_blocks[b] # "none"

HashMatches(c, i) == \A b \in BlocksOf(i) : c.piece_blocks[b] = "good"

Cleared(c, i) ==
    [b \in Blocks |-> IF b[1] = i THEN "none" ELSE c.piece_blocks[b]]

FaultyReject(c, i) ==               \* keeps the blocks that did not match
    [c EXCEPT !.piece_status = [@ EXCEPT ![i] = 0]]

reject(c, i) == [c EXCEPT !.piece_blocks = Cleared(c, i),
                          !.piece_status = [@ EXCEPT ![i] = 0]]

FaultyWrite(c, i) ==                \* opens the file truncating it
    {[j \in Pieces |-> IF j = i THEN "good" ELSE "zeros"]}

Empty  == [j \in Pieces |-> "absent"]
Zeroed == [j \in Pieces |-> "zeros"]

(* A file that held d, after piece i was written into it: what lay between *)
(* its end and the piece reads as zeros.                                   *)
Written(d, i, bytes) ==
    [j \in Pieces |-> IF j = i THEN bytes
                      ELSE IF j < i /\ d[j] = "absent" THEN "zeros" ELSE d[j]]

(* The file after piece i is written.  A file that cannot be opened is     *)
(* created at full size: it was missing, or, where the disk may fail, the  *)
(* open failed for another reason and creating it truncates it.  Creating  *)
(* and writing may fail too, at any point, and no stream state is checked  *)
(* afterwards: the file is as it was, empty or full of zeros, and in it    *)
(* the piece is written, torn (unless those bytes were there) or missing.  *)
write_to_disk(c, i) ==
    LET bytes   == IF HashMatches(c, i) THEN "good" ELSE "bad"
        torn(d) == IF d[i] = bytes THEN bytes ELSE "bad"
    IN {Written(IF c.disk = Empty THEN Zeroed ELSE c.disk, i, bytes)}
       \cup IF DiskMayFail
            THEN UNION {{d, Written(d, i, bytes), Written(d, i, torn(d))} :
                           d \in {c.disk, Empty, Zeroed}}
            ELSE {}

FaultyComplete(c, i, d) ==          \* looks for the last piece before marking it
    [c EXCEPT !.disk = d,
              !.piece_blocks = Cleared(c, i),
              !.piece_status = [@ EXCEPT ![i] = 1],
              !.send_haves = [p \in Peers |-> IF p \in c.registered
                                              THEN @[p] \cup {i} ELSE @[p]],
              !.waiter = IF @ = "asleep" /\ Pieces \subseteq Done(c)
                         THEN "checking" ELSE @]

(* Piece i is verified and d is the file: forget its blocks, mark it done, *)
(* queue a Have for every registered peer, wake the main thread if this    *)
(* was the last one.                                                       *)
complete(c, i, d) ==
    [c EXCEPT !.disk = d,
              !.piece_blocks = Cleared(c, i),
              !.piece_status = [@ EXCEPT ![i] = 1],
              !.send_haves = [p \in Peers |-> IF p \in c.registered
                                              THEN @[p] \cup {i} ELSE @[p]],
              !.waiter = IF @ = "asleep" /\ Pieces \subseteq Done(c) \cup {i}
                         THEN "checking" ELSE @]

FaultyLengthCheck(c, b, d) ==       \* stores blocks of any length
    LET s == store(c, b, d)
        i == b[1]
    IN IF Mode = "SEEDER"          THEN {c}
       ELSE IF ~ Assembled(s, i)   THEN {s}
       ELSE IF ~ HashMatches(s, i) THEN {reject(s, i)}
       ELSE {complete(s, i, f) : f \in write_to_disk(s, i)}

FaultyHashCheck(c, b, d) ==         \* saves what it does not hash
    LET s == store(c, b, d)
        i == b[1]
    IN IF Mode = "SEEDER" \/ d = "short" THEN {c}
       ELSE IF ~ Assembled(s, i)         THEN {s}
       ELSE {complete(s, i, f) : f \in write_to_disk(s, i)}

received_block(c, b, d) ==
    LET s == store(c, b, d)
        i == b[1]
    IN IF Mode = "SEEDER" \/ d = "short" THEN {c}
       ELSE IF ~ Assembled(s, i)         THEN {s}
       ELSE IF ~ HashMatches(s, i)       THEN {reject(s, i)}
       ELSE {complete(s, i, f) : f \in write_to_disk(s, i)}

register_peer(c, p) == [c EXCEPT !.registered = @ \cup {p},
                                 !.send_haves = [@ EXCEPT ![p] = {}]]

unregister_peer(c, p) == [c EXCEPT !.registered = @ \ {p},
                                   !.send_haves = [@ EXCEPT ![p] = {}]]

drain_haves(c, p) == [c EXCEPT !.send_haves = [@ EXCEPT ![p] = {}]]

FaultyGetBlock(c, b) ==             \* does not look at piece_status
    IF c.disk[b[1]] = "absent" THEN "none"
    ELSE IF c.disk[b[1]] = "good" THEN "good" ELSE "bad"

(* What a read of block b from the file returns, "none" for "".            *)
get_block(c, b) ==
    IF c.piece_status[b[1]] # 1 \/ c.disk[b[1]] = "absent" THEN "none"
    ELSE IF c.disk[b[1]] = "good" THEN "good" ELSE "bad"

FaultyBitfield(c) ==                \* counts ongoing pieces
    {i \in Pieces : c.piece_status[i] # 0}

get_bitfield(c) == Done(c)

-----------------------------------------------------------------------------
(* The calls, as steps of the process.                                     *)

NextRequest(have, b) == /\ b \in next_request(manager, have)
                        /\ manager' = reserve(manager, b)

ReleaseInFlight(b) == manager' = release_in_flight(manager, b)

ReceivedBlock(b, d) == manager' \in received_block(manager, b, d)

RegisterPeer(p) == manager' = register_peer(manager, p)

UnregisterPeer(p) == manager' = unregister_peer(manager, p)

DrainHaves(p) == manager' = drain_haves(manager, p)

(* The write to piece_status that the Bitfield handler makes itself,       *)
(* without mtx (peer.cpp:208).  A write that lands inside a locked section *)
(* is the same as one before or after it: a section reads or writes each   *)
(* element once, or, looking for the last piece (Controller.hpp:241-250),  *)
(* reads it again and again but notifies only if it was 1 at every read.   *)
ResetStatus(i) ==
    manager' = [manager EXCEPT !.piece_status = [@ EXCEPT ![i] = 0]]

FaultyWait ==                       \* takes an ongoing piece for a done one
    /\ manager.waiter = "checking"
    /\ manager' = [manager EXCEPT
          !.waiter = IF \A i \in Pieces : manager.piece_status[i] # 0
                     THEN "returned" ELSE "asleep"]

(* One evaluation of the predicate in cv.wait.                             *)
WaitUntilDone ==
    /\ manager.waiter = "checking"
    /\ manager' = [manager EXCEPT !.waiter = IF Pieces \subseteq Done(manager)
                                             THEN "returned" ELSE "asleep"]

SpuriousWakeup ==
    /\ manager.waiter = "asleep"
    /\ manager' = [manager EXCEPT !.waiter = "checking"]

Next ==
    \/ \E have \in SUBSET Pieces, b \in Blocks : NextRequest(have, b)
    \/ \E b \in Blocks : ReleaseInFlight(b)
    \/ \E b \in Blocks, d \in Data : ReceivedBlock(b, d)
    \/ \E p \in Peers : RegisterPeer(p) \/ UnregisterPeer(p) \/ DrainHaves(p)
    \/ \E i \in Pieces : Mode = "LEECHER" /\ ResetStatus(i)
    \/ WaitUntilDone
    \/ SpuriousWakeup

Spec == Init /\ [][Next]_manager

(* The main thread runs whenever it is not asleep; nothing else is owed.   *)
FairSpec == Spec /\ WF_manager(WaitUntilDone)

-----------------------------------------------------------------------------
TypeOK == manager \in Managers

(* A piece is marked done only when its verified bytes are in the file:    *)
(* received_block hashes the assembled piece, saves it, then marks it.     *)
DoneOnDisk == \A i \in Done(manager) : manager.disk[i] = "good"

(* Whatever get_block would hand to another peer is the torrent's data, in *)
(* every state, although it reads piece_status and the file without mtx.   *)
ServedIsVerified == \A b \in Blocks : get_block(manager, b) \in {"none", "good"}

(* No piece is left with every block stored and nobody to assemble it: the *)
(* thread that stores the last block also finishes or rejects the piece.   *)
NoPieceLeftAssembled == \A i \in Pieces : ~ Assembled(manager, i)

(* The main thread is never asleep on cv while every piece is done: the    *)
(* wake-up of the last received_block cannot be lost.                      *)
NoLostWakeup == Pieces \subseteq Done(manager) => manager.waiter # "asleep"

(* When wait_until_done has returned, the whole file is on disk, although  *)
(* piece_status may be reset behind the main thread's back.                *)
ReturnedMeansComplete ==
    manager.waiter = "returned" => \A i \in Pieces : manager.disk[i] = "good"

(* Verified bytes in the file are never overwritten by anything else, even *)
(* when a piece is downloaded again after its status was reset: the file   *)
(* is opened "for read+write without truncating" (Controller.hpp:266).     *)
VerifiedForever ==
    [][\A i \in Pieces : manager.disk[i] = "good" => manager'.disk[i] = "good"]_manager

(* If every piece is done from some point on, wait_until_done returns.     *)
MainReturns ==
    <>[](Pieces \subseteq Done(manager)) => <>(manager.waiter = "returned")

Saved(c) == {i \in Pieces : c.disk[i] = "good"}

D == INSTANCE Download WITH have <- Saved(manager),
                            returned <- (manager.waiter = "returned")

(* Seen from outside, a leecher only ever saves one more verified piece,   *)
(* or returns with the whole file: received_block, the resets and the      *)
(* wake-ups show nothing else.                                             *)
ImplementsDownload == D!Spec

=============================================================================
