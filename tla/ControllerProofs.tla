-------------------------- MODULE ControllerProofs --------------------------
(***************************************************************************)
(* Proofs about Controller, for every file, every cut of it into pieces    *)
(* and blocks and every set of peers.                                      *)
(***************************************************************************)
EXTENDS Controller, TLAPS

-----------------------------------------------------------------------------
(* Geometry.                                                               *)

(* Every piece has at least one byte.                                      *)
LEMMA PieceNotEmpty ==
    ASSUME NEW i \in Pieces
    PROVE  piece_length_for(i) \in Nat \ {0}
BY GeometryAssumption DEF Pieces, piece_length_for

(* So it has at least one block, the one at offset 0.                      *)
LEMMA PieceHasABlock ==
    ASSUME NEW i \in Pieces
    PROVE  <<i, 0>> \in BlocksOf(i)
<1>1. count_blocks(i) \in Nat \ {0}
  BY PieceNotEmpty, GeometryAssumption DEF count_blocks
<1>2. 0 \in Offsets(i)
  BY <1>1, GeometryAssumption DEF Offsets
<1>3. QED
  BY <1>2 DEF BlocksOf, Blocks

(* A block belongs to one of the pieces.                                   *)
LEMMA BlockOfPiece ==
    ASSUME NEW b \in Blocks
    PROVE  b[1] \in Pieces
BY DEF Blocks

-----------------------------------------------------------------------------
(* Every method leaves a well-formed manager.                              *)

LEMMA StatusSet == {0, 1, 2} \subseteq Statuses
BY DEF Statuses

LEMMA WriteType ==
    ASSUME NEW c \in Managers, NEW i \in Pieces, NEW f \in write_to_disk(c, i)
    PROVE  f \in [Pieces -> Content]
<1>1. c.disk \in [Pieces -> Content]
  BY DEF Managers
<1>2. QED
  BY <1>1 DEF write_to_disk, Written, Empty, Zeroed, Content

LEMMA ReserveType ==
    ASSUME NEW c \in Managers, NEW b \in Blocks
    PROVE  reserve(c, b) \in Managers
<1>1. [c.piece_status EXCEPT ![b[1]] = 2] \in [Pieces -> Statuses]
  BY StatusSet, BlockOfPiece DEF Managers
<1>2. QED
  BY <1>1 DEF reserve, Managers

LEMMA ClearedType ==
    ASSUME NEW c \in Managers, NEW i \in Pieces
    PROVE  Cleared(c, i) \in [Blocks -> {"none", "good", "bad"}]
BY DEF Cleared, Managers

LEMMA StoreType ==
    ASSUME NEW c \in Managers, NEW b \in Blocks, NEW d \in {"good", "bad"}
    PROVE  store(c, b, d) \in Managers
BY DEF store, Managers

LEMMA RejectType ==
    ASSUME NEW c \in Managers, NEW i \in Pieces
    PROVE  reject(c, i) \in Managers
<1>1. [c.piece_status EXCEPT ![i] = 0] \in [Pieces -> Statuses]
  BY StatusSet DEF Managers
<1>2. QED
  BY <1>1, ClearedType DEF reject, Managers

LEMMA CompleteType ==
    ASSUME NEW c \in Managers, NEW i \in Pieces, NEW f \in [Pieces -> Content]
    PROVE  complete(c, i, f) \in Managers
<1>1. [c.piece_status EXCEPT ![i] = 1] \in [Pieces -> Statuses]
  BY StatusSet DEF Managers
<1>2. [p \in Peers |-> IF p \in c.registered THEN c.send_haves[p] \cup {i}
                      ELSE c.send_haves[p]] \in [Peers -> SUBSET Pieces]
  BY DEF Managers
<1>3. QED
  BY <1>1, <1>2, ClearedType DEF complete, Managers

LEMMA ReceivedType ==
    ASSUME NEW c \in Managers, NEW b \in Blocks, NEW d \in Data,
           NEW r \in received_block(c, b, d)
    PROVE  r \in Managers
<1> DEFINE s == store(c, b, d)
<1>1. CASE Mode = "SEEDER" \/ d = "short"
  BY <1>1 DEF received_block
<1>2. CASE ~ (Mode = "SEEDER" \/ d = "short")
  <2>1. d \in {"good", "bad"}
    BY <1>2, ControllerAssumption
  <2>2. s \in Managers /\ b[1] \in Pieces
    BY <2>1, StoreType, BlockOfPiece
  <2>3. \/ r = s
        \/ r = reject(s, b[1])
        \/ \E f \in write_to_disk(s, b[1]) : r = complete(s, b[1], f)
    BY <1>2 DEF received_block
  <2>4. QED
    BY <2>2, <2>3, RejectType, CompleteType, WriteType
<1>3. QED
  BY <1>1, <1>2

LEMMA StepKeepsType ==
    ASSUME TypeOK, [Next]_manager
    PROVE  TypeOK'
<1>1. ASSUME NEW have \in SUBSET Pieces, NEW b \in Blocks, NextRequest(have, b)
      PROVE  TypeOK'
  BY <1>1, ReserveType DEF NextRequest, TypeOK
<1>2. ASSUME NEW b \in Blocks, ReleaseInFlight(b)
      PROVE  TypeOK'
  BY <1>2 DEF ReleaseInFlight, release_in_flight, TypeOK, Managers
<1>3. ASSUME NEW b \in Blocks, NEW d \in Data, ReceivedBlock(b, d)
      PROVE  TypeOK'
  BY <1>3, ReceivedType DEF ReceivedBlock, TypeOK
<1>4. ASSUME NEW p \in Peers, RegisterPeer(p)
      PROVE  TypeOK'
  BY <1>4 DEF RegisterPeer, register_peer, TypeOK, Managers
<1>5. ASSUME NEW p \in Peers, UnregisterPeer(p)
      PROVE  TypeOK'
  BY <1>5 DEF UnregisterPeer, unregister_peer, TypeOK, Managers
<1>6. ASSUME NEW p \in Peers, DrainHaves(p)
      PROVE  TypeOK'
  BY <1>6 DEF DrainHaves, drain_haves, TypeOK, Managers
<1>7. ASSUME NEW i \in Pieces, ResetStatus(i)
      PROVE  TypeOK'
  BY <1>7 DEF ResetStatus, TypeOK, Managers, Statuses
<1>8. CASE WaitUntilDone
  BY <1>8 DEF WaitUntilDone, TypeOK, Managers
<1>9. CASE SpuriousWakeup
  BY <1>9 DEF SpuriousWakeup, TypeOK, Managers
<1>10. CASE UNCHANGED manager
  BY <1>10 DEF TypeOK
<1>11. QED
  BY <1>1, <1>2, <1>3, <1>4, <1>5, <1>6, <1>7, <1>8, <1>9, <1>10 DEF Next

(* The manager always has its type: no call, from any thread, in any       *)
(* order, leaves a status, a set or a file content out of range.           *)
THEOREM TypeCorrect == Spec => []TypeOK
<1>1. Init => TypeOK
  BY ControllerAssumption DEF Init, Constructed, TypeOK, Managers, Statuses, Content
<1>2. QED
  BY <1>1, StepKeepsType, PTL DEF Spec

-----------------------------------------------------------------------------
(* What the steps may do to the parts the invariants talk about.           *)

(* A call that neither writes nor assembles, and marks nothing done.       *)
Quiet(c, r) ==
    /\ r.disk = c.disk
    /\ r.piece_blocks = c.piece_blocks
    /\ r.waiter = c.waiter
    /\ Done(r) \subseteq Done(c)

LEMMA ReserveQuiet ==
    ASSUME NEW c \in Managers, NEW b \in Blocks
    PROVE  Quiet(c, reserve(c, b))
<1>1. c.piece_status \in [Pieces -> Statuses]
  BY DEF Managers
<1>2. reserve(c, b).piece_status = [c.piece_status EXCEPT ![b[1]] = 2]
  BY DEF reserve, Managers
<1>3. Done(reserve(c, b)) \subseteq Done(c)
  BY <1>1, <1>2 DEF Done
<1>4. QED
  BY <1>3 DEF Quiet, reserve, Managers

LEMMA ResetQuiet ==
    ASSUME NEW i \in Pieces, TypeOK, ResetStatus(i)
    PROVE  Quiet(manager, manager')
<1>1. manager.piece_status \in [Pieces -> Statuses]
  BY DEF TypeOK, Managers
<1>2. manager'.piece_status = [manager.piece_status EXCEPT ![i] = 0]
  BY DEF ResetStatus, TypeOK, Managers
<1>3. Done(manager') \subseteq Done(manager)
  BY <1>1, <1>2 DEF Done
<1>4. QED
  BY <1>3 DEF Quiet, ResetStatus, TypeOK, Managers

(* A block of another piece does not change what is assembled of piece i.  *)
LEMMA StoreElsewhere ==
    ASSUME NEW c \in Managers, NEW b \in Blocks, NEW d \in {"good", "bad"},
           NEW i \in Pieces, i # b[1]
    PROVE  Assembled(store(c, b, d), i) <=> Assembled(c, i)
<1>1. store(c, b, d).piece_blocks = [c.piece_blocks EXCEPT ![b] = d]
  BY DEF store, Managers
<1>2. c.piece_blocks \in [Blocks -> {"none", "good", "bad"}]
  BY DEF Managers
<1>3. QED
  BY <1>1, <1>2 DEF Assembled, BlocksOf

(* Clearing piece i leaves it unassembled and the others as they were.     *)
LEMMA ClearedAssembled ==
    ASSUME NEW c \in Managers, NEW i \in Pieces, NEW r,
           r.piece_blocks = Cleared(c, i), NEW j \in Pieces, Assembled(r, j)
    PROVE  j # i /\ Assembled(c, j)
<1>1. \A b \in Blocks : r.piece_blocks[b] = IF b[1] = i THEN "none" ELSE c.piece_blocks[b]
  BY DEF Cleared
<1>2. j # i
  <2>1. SUFFICES ASSUME j = i PROVE FALSE
    OBVIOUS
  <2>2. <<i, 0>> \in BlocksOf(j) /\ <<i, 0>> \in Blocks
    BY <2>1, PieceHasABlock DEF BlocksOf
  <2>3. QED
    BY <1>1, <2>2 DEF Assembled
<1>3. Assembled(c, j)
  BY <1>1, <1>2 DEF Assembled, BlocksOf
<1>4. QED
  BY <1>2, <1>3

(* The file after a write that does not fail: piece i holds the assembled  *)
(* bytes, and no piece that held the torrent's bytes loses them.           *)
LEMMA WriteKeepsGood ==
    ASSUME ~ DiskMayFail, NEW c \in Managers, NEW i \in Pieces, HashMatches(c, i),
           NEW f \in write_to_disk(c, i)
    PROVE  /\ \A j \in Pieces : c.disk[j] = "good" => f[j] = "good"
           /\ f[i] = "good"
<1>1. c.disk \in [Pieces -> Content]
  BY DEF Managers
<1>2. QED
  BY <1>1 DEF write_to_disk, Written, Empty

(* What received_block may leave: nothing changed, the block stored, the   *)
(* piece rejected, or the piece completed.                                 *)
LEMMA ReceivedCases ==
    ASSUME NEW c \in Managers, NEW b \in Blocks, NEW d \in Data,
           NEW r \in received_block(c, b, d)
    PROVE  \/ r = c
           \/ /\ d \in {"good", "bad"}
              /\ Mode = "LEECHER"
              /\ \/ r = store(c, b, d) /\ ~ Assembled(r, b[1])
                 \/ r = reject(store(c, b, d), b[1])
                 \/ /\ HashMatches(store(c, b, d), b[1])
                    /\ \E f \in write_to_disk(store(c, b, d), b[1]) :
                           r = complete(store(c, b, d), b[1], f)
<1>1. CASE Mode = "SEEDER" \/ d = "short"
  BY <1>1 DEF received_block
<1>2. CASE ~ (Mode = "SEEDER" \/ d = "short")
  <2>1. d \in {"good", "bad"} /\ Mode = "LEECHER"
    BY <1>2, ControllerAssumption
  <2>2. QED
    BY <1>2, <2>1 DEF received_block
<1>3. QED
  BY <1>1, <1>2

-----------------------------------------------------------------------------
(* Every step is a quiet one, a step of the main thread, or the receipt of *)
(* a block; the invariants below need no other case.                       *)
LEMMA StepCases ==
    ASSUME TypeOK, [Next]_manager
    PROVE  \/ Quiet(manager, manager')
           \/ WaitUntilDone
           \/ SpuriousWakeup
           \/ \E b \in Blocks, d \in Data : ReceivedBlock(b, d)
<1>1. ASSUME NEW have \in SUBSET Pieces, NEW b \in Blocks, NextRequest(have, b)
      PROVE  Quiet(manager, manager')
  BY <1>1, ReserveQuiet DEF NextRequest, TypeOK
<1>2. ASSUME NEW b \in Blocks, ReleaseInFlight(b)
      PROVE  Quiet(manager, manager')
  BY <1>2 DEF ReleaseInFlight, release_in_flight, TypeOK, Managers, Quiet, Done
<1>3. ASSUME NEW p \in Peers, RegisterPeer(p) \/ UnregisterPeer(p) \/ DrainHaves(p)
      PROVE  Quiet(manager, manager')
  BY <1>3 DEF RegisterPeer, register_peer, UnregisterPeer, unregister_peer,
              DrainHaves, drain_haves, TypeOK, Managers, Quiet, Done
<1>4. ASSUME NEW i \in Pieces, ResetStatus(i)
      PROVE  Quiet(manager, manager')
  BY <1>4, ResetQuiet
<1>5. CASE UNCHANGED manager
  BY <1>5 DEF Quiet, Done
<1>6. QED
  BY <1>1, <1>2, <1>3, <1>4, <1>5 DEF Next

-----------------------------------------------------------------------------
(* Verified bytes.                                                         *)

LEMMA StoreRest ==
    ASSUME NEW c \in Managers, NEW b \in Blocks, NEW d \in {"good", "bad"}
    PROVE  LET s == store(c, b, d)
           IN s.disk = c.disk /\ s.waiter = c.waiter /\ s.piece_status = c.piece_status
BY DEF store, Managers

LEMMA RejectRest ==
    ASSUME NEW c \in Managers, NEW i \in Pieces
    PROVE  LET r == reject(c, i)
           IN /\ r.disk = c.disk /\ r.waiter = c.waiter
              /\ r.piece_blocks = Cleared(c, i)
              /\ Done(r) = Done(c) \ {i}
<1>1. c.piece_status \in [Pieces -> Statuses]
  BY DEF Managers
<1>2. reject(c, i).piece_status = [c.piece_status EXCEPT ![i] = 0]
  BY DEF reject, Managers
<1>3. Done(reject(c, i)) = Done(c) \ {i}
  BY <1>1, <1>2 DEF Done
<1>4. QED
  BY <1>3 DEF reject, Managers

LEMMA CompleteRest ==
    ASSUME NEW c \in Managers, NEW i \in Pieces, NEW f
    PROVE  LET r == complete(c, i, f)
           IN /\ r.disk = f
              /\ r.piece_blocks = Cleared(c, i)
              /\ Done(r) = Done(c) \cup {i}
              /\ r.waiter = IF c.waiter = "asleep" /\ Pieces \subseteq Done(c) \cup {i}
                            THEN "checking" ELSE c.waiter
<1>1. c.piece_status \in [Pieces -> Statuses]
  BY DEF Managers
<1>2. complete(c, i, f).piece_status = [c.piece_status EXCEPT ![i] = 1]
  BY DEF complete, Managers
<1>3. Done(complete(c, i, f)) = Done(c) \cup {i}
  BY <1>1, <1>2 DEF Done
<1>4. QED
  BY <1>3 DEF complete, Managers

(* One step, whatever it is, leaves a verified piece verified.             *)
LEMMA StepKeepsGood ==
    ASSUME ~ DiskMayFail, TypeOK, [Next]_manager, NEW i \in Pieces, manager.disk[i] = "good"
    PROVE  manager'.disk[i] = "good"
<1>1. ASSUME NEW b \in Blocks, NEW d \in Data, ReceivedBlock(b, d)
      PROVE  manager'.disk[i] = "good"
  <2>1. manager \in Managers /\ b[1] \in Pieces
    BY BlockOfPiece DEF TypeOK
  <2>2. manager' \in received_block(manager, b, d)
    BY <1>1 DEF ReceivedBlock
  <2>3. CASE manager' = manager
    BY <2>3
  <2>4. CASE d \in {"good", "bad"}
    <3> DEFINE s == store(manager, b, d)
    <3>1. s \in Managers /\ s.disk = manager.disk
      BY <2>1, <2>4, StoreType, StoreRest
    <3>2. CASE manager' = s
      BY <3>1, <3>2
    <3>3. CASE manager' = reject(s, b[1])
      BY <2>1, <3>1, <3>3, RejectRest
    <3>4. ASSUME HashMatches(s, b[1]), NEW f \in write_to_disk(s, b[1]),
                 manager' = complete(s, b[1], f)
          PROVE  manager'.disk[i] = "good"
      BY <2>1, <3>1, <3>4, WriteKeepsGood, CompleteRest
    <3>5. QED
      BY <2>1, <2>2, <2>3, <3>2, <3>3, <3>4, ReceivedCases
  <2>5. QED
    BY <2>1, <2>2, <2>3, <2>4, ReceivedCases
<1>2. CASE Quiet(manager, manager')
  BY <1>2 DEF Quiet
<1>3. CASE WaitUntilDone \/ SpuriousWakeup
  BY <1>3 DEF WaitUntilDone, SpuriousWakeup, TypeOK, Managers
<1>4. QED
  BY <1>1, <1>2, <1>3, StepCases

(* On a disk that does not fail verified bytes are never lost: not when    *)
(* their piece is downloaded again, and not when another is written.       *)
THEOREM GoodIsForever ==
    ASSUME ~ DiskMayFail
    PROVE  Spec => VerifiedForever
<1>1. TypeOK /\ [Next]_manager
          => [\A i \in Pieces : manager.disk[i] = "good" => manager'.disk[i] = "good"]_manager
  BY StepKeepsGood
<1>2. QED
  BY <1>1, TypeCorrect, PTL DEF Spec, VerifiedForever

-----------------------------------------------------------------------------
(* Done pieces.  The status alone does not say enough when the main thread *)
(* returns and a status is reset later, so the invariant is the pair: done *)
(* pieces are on disk, and once wait_until_done returned all pieces are.   *)

LEMMA StepKeepsDoneOnDisk ==
    ASSUME ~ DiskMayFail, TypeOK, DoneOnDisk, [Next]_manager
    PROVE  DoneOnDisk'
<1> SUFFICES ASSUME NEW i \in Pieces, i \in Done(manager')
             PROVE  manager'.disk[i] = "good"
  BY DEF DoneOnDisk, Done
<1>1. CASE i \in Done(manager)
  BY <1>1, StepKeepsGood DEF DoneOnDisk
<1>2. CASE i \notin Done(manager)
  <2>1. ASSUME NEW b \in Blocks, NEW d \in Data, ReceivedBlock(b, d)
        PROVE  manager'.disk[i] = "good"
    <3>1. manager \in Managers /\ b[1] \in Pieces
      BY BlockOfPiece DEF TypeOK
    <3>2. manager' \in received_block(manager, b, d)
      BY <2>1 DEF ReceivedBlock
    <3>3. manager' # manager
      BY <1>2
    <3> DEFINE s == store(manager, b, d)
    <3>4. d \in {"good", "bad"}
      BY <3>1, <3>2, <3>3, ReceivedCases
    <3>5. s \in Managers /\ Done(s) = Done(manager)
      BY <3>1, <3>4, StoreType, StoreRest DEF Done
    <3>6. manager' # s /\ manager' # reject(s, b[1])
      BY <1>2, <3>1, <3>5, RejectRest
    <3>7. PICK f \in write_to_disk(s, b[1]) :
              HashMatches(s, b[1]) /\ manager' = complete(s, b[1], f)
      BY <3>1, <3>2, <3>3, <3>6, ReceivedCases
    <3>8. i = b[1]
      BY <1>2, <3>1, <3>5, <3>7, CompleteRest
    <3>9. QED
      BY <3>1, <3>5, <3>7, <3>8, WriteKeepsGood, CompleteRest
  <2>2. CASE Quiet(manager, manager')
    BY <1>2, <2>2 DEF Quiet
  <2>3. CASE WaitUntilDone \/ SpuriousWakeup
    BY <1>2, <2>3 DEF WaitUntilDone, SpuriousWakeup, TypeOK, Managers, Done
  <2>4. QED
    BY <2>1, <2>2, <2>3, StepCases
<1>3. QED
  BY <1>1, <1>2

(* received_block can wake the main thread but not make it return.         *)
LEMMA ReceivedWaiter ==
    ASSUME NEW c \in Managers, NEW b \in Blocks, NEW d \in Data,
           NEW r \in received_block(c, b, d)
    PROVE  r.waiter = c.waiter \/ r.waiter = "checking"
<1>1. b[1] \in Pieces
  BY BlockOfPiece
<1>2. CASE r = c
  BY <1>2
<1>3. CASE d \in {"good", "bad"}
  <2> DEFINE s == store(c, b, d)
  <2>1. s \in Managers /\ s.waiter = c.waiter
    BY <1>3, StoreType, StoreRest
  <2>2. r.waiter = s.waiter \/ r.waiter = "checking"
    BY <1>1, <1>2, <2>1, ReceivedCases, RejectRest, CompleteRest
  <2>3. QED
    BY <2>1, <2>2
<1>4. QED
  BY <1>2, <1>3, ReceivedCases

LEMMA StepKeepsReturned ==
    ASSUME ~ DiskMayFail, TypeOK, DoneOnDisk, ReturnedMeansComplete, [Next]_manager
    PROVE  ReturnedMeansComplete'
<1> SUFFICES ASSUME manager'.waiter = "returned", NEW i \in Pieces
             PROVE  manager'.disk[i] = "good"
  BY DEF ReturnedMeansComplete
<1>1. CASE manager.waiter = "returned"
  BY <1>1, StepKeepsGood DEF ReturnedMeansComplete
<1>2. CASE manager.waiter # "returned"
  <2>1. WaitUntilDone
    BY <1>2, StepCases, ReceivedWaiter
       DEF Quiet, SpuriousWakeup, ReceivedBlock, TypeOK, Managers
  <2>2. Pieces \subseteq Done(manager) /\ manager'.disk = manager.disk
    BY <2>1 DEF WaitUntilDone, TypeOK, Managers
  <2>3. QED
    BY <2>2 DEF DoneOnDisk
<1>3. QED
  BY <1>1, <1>2

(* In a leecher whose disk does not fail, every piece marked done is on    *)
(* disk and verified, and wait_until_done returns only when the file is    *)
(* complete, whatever the other threads do to piece_status meanwhile.      *)
THEOREM DoneIsOnDisk ==
    ASSUME Mode = "LEECHER", ~ DiskMayFail
    PROVE  Spec => [](DoneOnDisk /\ ReturnedMeansComplete)
<1>1. Init => DoneOnDisk /\ ReturnedMeansComplete
  BY DEF Init, Constructed, DoneOnDisk, ReturnedMeansComplete, Done
<1>2. TypeOK /\ DoneOnDisk /\ ReturnedMeansComplete /\ [Next]_manager
          => (DoneOnDisk /\ ReturnedMeansComplete)'
  BY StepKeepsDoneOnDisk, StepKeepsReturned
<1>3. QED
  BY <1>1, <1>2, TypeCorrect, PTL DEF Spec

(* In particular the process that returns from wait_until_done has the     *)
(* whole file, although all_done may have become false meanwhile.          *)
THEOREM ReturnsOnlyComplete ==
    ASSUME Mode = "LEECHER", ~ DiskMayFail
    PROVE  Spec => []ReturnedMeansComplete
BY DoneIsOnDisk, PTL

-----------------------------------------------------------------------------
(* Controller implements Download.                                         *)

(* A write that does not fail adds the piece written to what is saved, and *)
(* takes nothing away.                                                     *)
LEMMA WriteSaves ==
    ASSUME ~ DiskMayFail, NEW c \in Managers, NEW i \in Pieces, HashMatches(c, i),
           NEW f \in write_to_disk(c, i)
    PROVE  {j \in Pieces : f[j] = "good"} = Saved(c) \cup {i}
<1>1. c.disk \in [Pieces -> Content]
  BY DEF Managers
<1>2. \A j \in Pieces : f[j] = "good" => j = i \/ c.disk[j] = "good"
  BY <1>1 DEF write_to_disk, Written, Empty, Zeroed
<1>3. QED
  BY <1>2, WriteKeepsGood DEF Saved

(* What a call of received_block shows: one piece more, or nothing.        *)
LEMMA ReceivedSaves ==
    ASSUME ~ DiskMayFail, NEW c \in Managers, NEW b \in Blocks, NEW d \in Data,
           NEW r \in received_block(c, b, d)
    PROVE  /\ Saved(r) = Saved(c) \/ Saved(r) = Saved(c) \cup {b[1]}
           /\ r.waiter = "returned" <=> c.waiter = "returned"
<1>1. b[1] \in Pieces
  BY BlockOfPiece
<1>2. CASE r = c
  BY <1>2
<1>3. CASE d \in {"good", "bad"}
  <2> DEFINE s == store(c, b, d)
  <2>1. s \in Managers /\ s.disk = c.disk /\ s.waiter = c.waiter
    BY <1>3, StoreType, StoreRest
  <2>2. CASE r = s
    BY <2>1, <2>2 DEF Saved
  <2>3. CASE r = reject(s, b[1])
    BY <1>1, <2>1, <2>3, RejectRest DEF Saved
  <2>4. ASSUME HashMatches(s, b[1]), NEW f \in write_to_disk(s, b[1]),
               r = complete(s, b[1], f)
        PROVE  /\ Saved(r) = Saved(c) \cup {b[1]}
               /\ r.waiter = "returned" <=> c.waiter = "returned"
    <3>1. r.disk = f /\ (r.waiter = "returned" <=> s.waiter = "returned")
      BY <1>1, <2>1, <2>4, CompleteRest
    <3>2. Saved(r) = Saved(s) \cup {b[1]}
      BY <1>1, <2>1, <2>4, <3>1, WriteSaves DEF Saved
    <3>3. QED
      BY <2>1, <3>1, <3>2 DEF Saved
  <2>5. QED
    BY <1>2, <2>2, <2>3, <2>4, ReceivedCases
<1>4. QED
  BY <1>2, <1>3, ReceivedCases

LEMMA StepIsDownload ==
    ASSUME ~ DiskMayFail, TypeOK, DoneOnDisk, [Next]_manager
    PROVE  [D!Next]_<<Saved(manager), manager.waiter = "returned">>
<1>1. ASSUME NEW b \in Blocks, NEW d \in Data, ReceivedBlock(b, d)
      PROVE  [D!Next]_<<Saved(manager), manager.waiter = "returned">>
  <2>1. manager \in Managers /\ b[1] \in Pieces
    BY BlockOfPiece DEF TypeOK
  <2>2. /\ Saved(manager') = Saved(manager) \/ Saved(manager') = Saved(manager) \cup {b[1]}
        /\ (manager.waiter = "returned")' = (manager.waiter = "returned")
    BY <1>1, <2>1, ReceivedSaves DEF ReceivedBlock
  <2>3. CASE b[1] \notin Saved(manager) /\ Saved(manager') = Saved(manager) \cup {b[1]}
    <3>1. D!Save(b[1])
      BY <2>1, <2>2, <2>3 DEF D!Save, Saved
    <3>2. QED
      BY <2>1, <3>1 DEF D!Next
  <2>4. CASE Saved(manager') = Saved(manager)
    BY <2>2, <2>4 DEF Saved
  <2>5. QED
    BY <2>2, <2>3, <2>4
<1>2. CASE Quiet(manager, manager')
  BY <1>2 DEF Quiet, Saved
<1>3. CASE WaitUntilDone
  <2>1. manager'.disk = manager.disk /\ manager.waiter = "checking"
    BY <1>3 DEF WaitUntilDone, TypeOK, Managers
  <2>2. CASE Pieces \subseteq Done(manager)
    <3>1. manager'.waiter = "returned"
      BY <1>3, <2>2 DEF WaitUntilDone, TypeOK, Managers
    <3>2. Saved(manager) = Pieces
      BY <2>2 DEF DoneOnDisk, Saved
    <3>3. D!Return
      BY <2>1, <3>1, <3>2 DEF D!Return, Saved
    <3>4. QED
      BY <3>3 DEF D!Next
  <2>3. CASE ~ (Pieces \subseteq Done(manager))
    <3>1. manager'.waiter = "asleep"
      BY <1>3, <2>3 DEF WaitUntilDone, TypeOK, Managers
    <3>2. QED
      BY <2>1, <3>1 DEF Saved
  <2>4. QED
    BY <2>2, <2>3
<1>4. CASE SpuriousWakeup
  BY <1>4 DEF SpuriousWakeup, TypeOK, Managers, Saved
<1>5. QED
  BY <1>1, <1>2, <1>3, <1>4, StepCases

(* A leecher whose disk does not fail implements Download: each call of    *)
(* the manager shows one verified piece more, the return with the whole    *)
(* file, or nothing.                                                       *)
THEOREM ControllerImplementsDownload ==
    ASSUME Mode = "LEECHER", ~ DiskMayFail
    PROVE  Spec => ImplementsDownload
<1>1. Init => D!Init
  BY DEF Init, Constructed, D!Init, Saved
<1>2. TypeOK /\ DoneOnDisk /\ [Next]_manager
          => [D!Next]_<<Saved(manager), manager.waiter = "returned">>
  BY StepIsDownload
<1>3. QED
  BY <1>1, <1>2, TypeCorrect, DoneIsOnDisk, PTL DEF Spec, ImplementsDownload, D!Spec

(* So what a leecher serves to other peers is the torrent's data.          *)
THEOREM ServesVerified ==
    ASSUME Mode = "LEECHER", ~ DiskMayFail
    PROVE  Spec => []ServedIsVerified
<1>1. DoneOnDisk => ServedIsVerified
  BY BlockOfPiece DEF DoneOnDisk, ServedIsVerified, get_block, Done
<1>2. QED
  BY <1>1, DoneIsOnDisk, PTL

-----------------------------------------------------------------------------
(* No piece is left with all its blocks stored: the calls are serialised,  *)
(* so the one that stores the last block sees them all.                    *)
LEMMA StepKeepsUnassembled ==
    ASSUME TypeOK, NoPieceLeftAssembled, [Next]_manager
    PROVE  NoPieceLeftAssembled'
<1> SUFFICES ASSUME NEW j \in Pieces, Assembled(manager', j)
             PROVE  Assembled(manager, j)
  BY DEF NoPieceLeftAssembled, Assembled
<1>1. ASSUME NEW b \in Blocks, NEW d \in Data, ReceivedBlock(b, d)
      PROVE  Assembled(manager, j)
  <2>1. manager \in Managers /\ b[1] \in Pieces
    BY BlockOfPiece DEF TypeOK
  <2>2. manager' \in received_block(manager, b, d)
    BY <1>1 DEF ReceivedBlock
  <2>3. CASE manager' = manager
    BY <2>3
  <2>4. CASE d \in {"good", "bad"}
    <3> DEFINE s == store(manager, b, d)
    <3>1. s \in Managers
      BY <2>1, <2>4, StoreType
    <3>2. CASE manager' = s /\ ~ Assembled(manager', b[1])
      BY <2>1, <2>4, <3>2, StoreElsewhere
    <3>3. CASE manager'.piece_blocks = Cleared(s, b[1])
      <4>1. j # b[1] /\ Assembled(s, j)
        BY <2>1, <3>1, <3>3, ClearedAssembled
      <4>2. QED
        BY <2>1, <2>4, <4>1, StoreElsewhere
    <3>4. QED
      BY <2>1, <2>2, <2>3, <3>1, <3>2, <3>3, ReceivedCases, RejectRest, CompleteRest
  <2>5. QED
    BY <2>1, <2>2, <2>3, <2>4, ReceivedCases
<1>2. CASE Quiet(manager, manager')
  BY <1>2 DEF Quiet, Assembled
<1>3. CASE WaitUntilDone \/ SpuriousWakeup
  BY <1>3 DEF WaitUntilDone, SpuriousWakeup, TypeOK, Managers, Assembled
<1>4. QED
  BY <1>1, <1>2, <1>3, StepCases

(* Whichever of several threads delivers the last block of a piece, that   *)
(* call of received_block assembles it: none is left with all its blocks.  *)
THEOREM NothingLeftAssembled == Spec => []NoPieceLeftAssembled
<1>1. Init => NoPieceLeftAssembled
  <2> SUFFICES ASSUME Init, NEW i \in Pieces
               PROVE  ~ Assembled(manager, i)
    BY DEF NoPieceLeftAssembled
  <2>1. <<i, 0>> \in BlocksOf(i) /\ <<i, 0>> \in Blocks
    BY PieceHasABlock DEF BlocksOf
  <2>2. manager.piece_blocks[<<i, 0>>] = "none"
    BY <2>1 DEF Init, Constructed
  <2>3. QED
    BY <2>1, <2>2 DEF Assembled
<1>2. QED
  BY <1>1, StepKeepsUnassembled, TypeCorrect, PTL DEF Spec

-----------------------------------------------------------------------------
(* The wake-up of the main thread is not lost: whichever thread completes  *)
(* the last piece notifies, and a reset can only make a piece not done.    *)
LEMMA StepKeepsWakeup ==
    ASSUME TypeOK, NoLostWakeup, [Next]_manager
    PROVE  NoLostWakeup'
<1> SUFFICES ASSUME Pieces \subseteq Done(manager'), manager'.waiter = "asleep"
             PROVE  Pieces \subseteq Done(manager) /\ manager.waiter = "asleep"
  BY DEF NoLostWakeup, Done
<1>1. ASSUME NEW b \in Blocks, NEW d \in Data, ReceivedBlock(b, d)
      PROVE  Pieces \subseteq Done(manager) /\ manager.waiter = "asleep"
  <2>1. manager \in Managers /\ b[1] \in Pieces
    BY BlockOfPiece DEF TypeOK
  <2>2. manager' \in received_block(manager, b, d)
    BY <1>1 DEF ReceivedBlock
  <2>3. CASE manager' = manager
    BY <2>3
  <2>4. CASE d \in {"good", "bad"}
    <3> DEFINE s == store(manager, b, d)
    <3>1. s \in Managers /\ Done(s) = Done(manager) /\ s.waiter = manager.waiter
      BY <2>1, <2>4, StoreType, StoreRest DEF Done
    <3>2. \A f : manager' # complete(s, b[1], f)
      BY <2>1, <3>1, CompleteRest
    <3>3. manager' = s \/ manager' = reject(s, b[1]) \/ manager' = manager
      BY <2>1, <2>2, <3>2, ReceivedCases
    <3>4. QED
      BY <2>1, <2>3, <3>1, <3>3, RejectRest
  <2>5. QED
    BY <2>1, <2>2, <2>3, <2>4, ReceivedCases
<1>2. CASE Quiet(manager, manager')
  BY <1>2 DEF Quiet
<1>3. CASE WaitUntilDone
  BY <1>3 DEF WaitUntilDone, TypeOK, Managers, Done
<1>4. CASE SpuriousWakeup
  BY <1>4 DEF SpuriousWakeup, TypeOK, Managers
<1>5. QED
  BY <1>1, <1>2, <1>3, <1>4, StepCases

(* The main thread does not sleep in wait_until_done while every piece is  *)
(* done: the notification comes after the status, under the same lock.     *)
THEOREM WakeupNotLost == Spec => []NoLostWakeup
<1>1. Init => NoLostWakeup
  BY ControllerAssumption DEF Init, Constructed, NoLostWakeup
<1>2. QED
  BY <1>1, StepKeepsWakeup, TypeCorrect, PTL DEF Spec

=============================================================================
