--------------------------- MODULE PeerLoopProofs ---------------------------
(***************************************************************************)
(* Proofs about PeerLoop: its type invariant, that the threads of peer.cpp *)
(* use the manager only as Controller allows, so that whatever is proved   *)
(* of Controller holds of the threads together, and what becomes of the    *)
(* blocks in flight.                                                       *)
(***************************************************************************)
EXTENDS PeerLoop, ControllerProofs

(* The type invariant is inductive once it also says that a thread with a  *)
(* block in hand has a real one, and that only a leecher's has.            *)
HasBlock == {"send_request", "probe_have", "probe_bitfield", "reset"}

InHand ==
    \A p \in Peers : pc[p] \in HasBlock => local[p].req \in Blocks /\ Mode = "LEECHER"

PeerInv == PeerTypeOK /\ InHand

-----------------------------------------------------------------------------
(* Every step of a thread or of the main thread is a call of the manager,  *)
(* or leaves it alone.                                                     *)

LEMMA CallsAreSteps ==
    ASSUME PeerInv, [PeerNext]_vars
    PROVE  [Next]_manager
<1>1. ASSUME NEW p \in Peers, Start(p) \/ Handshake(p) \/ ReadFails(p)
      PROVE  [Next]_manager
  BY <1>1 DEF Start, Handshake, ReadFails, Next
<1>2. ASSUME NEW p \in Peers, ThreadStep(p)
      PROVE  [Next]_manager
  <2>1. CASE \/ Greet(p) \/ AllDoneReads(p) \/ AllDoneReadsAgain(p) \/ SendHave(p)
             \/ FlushEnds(p) \/ Serve(p) \/ ServeEnds(p) \/ ChokeEnds(p) \/ AskEnds(p)
             \/ SendRequest(p)
    BY <2>1 DEF Greet, AllDoneReads, AllDoneReadsAgain, SendHave, FlushEnds, Serve, ServeEnds,
                ChokeEnds, AskEnds, SendRequest
  <2>2. CASE Drain(p) \/ CleanupEnds(p)
    BY <2>2 DEF Drain, CleanupEnds, Next
  <2>3. CASE \E b \in Blocks : ReleasePending(p, b)
    BY <2>3 DEF ReleasePending, Next
  <2>4. CASE ReleaseProbe(p) \/ SendRequestFails(p)
    <3>1. local[p].req \in Blocks
      BY <2>4 DEF ReleaseProbe, SendRequestFails, PeerInv, InHand, HasBlock, At
    <3>2. QED
      BY <2>4, <3>1 DEF ReleaseProbe, SendRequestFails, Next
  <2>5. CASE ResetProbed(p)
    <3>1. local[p].req[1] \in Pieces /\ Mode = "LEECHER"
      BY <2>5, BlockOfPiece DEF ResetProbed, PeerInv, InHand, HasBlock, At
    <3>2. QED
      BY <2>5, <3>1 DEF ResetProbed, Next
  <2>6. CASE Ask(p)
    <3>1. state[p].peer_bitfield \in SUBSET Pieces
      BY DEF PeerInv, PeerTypeOK, PeerState
    <3>2. QED
      BY <2>6, <3>1 DEF Ask, Next
  <2>7. QED
    BY <1>2, <2>1, <2>2, <2>3, <2>4, <2>5, <2>6 DEF ThreadStep
<1>3. ASSUME NEW p \in Peers, Recv(p)
      PROVE  [Next]_manager
  <2>1. CASE \/ RecvKeepAlive(p) \/ RecvChoke(p) \/ RecvUnchoke(p)
             \/ RecvInterested(p) \/ RecvNotInterested(p)
             \/ \E b \in Blocks : RecvRequest(p, b) \/ RecvCancel(p, b)
    BY <2>1 DEF RecvKeepAlive, RecvChoke, RecvUnchoke, RecvInterested,
                RecvNotInterested, RecvRequest, RecvCancel
  <2>2. ASSUME NEW i \in Pieces, RecvHave(p, i)
        PROVE  [Next]_manager
    <3>1. state[p].peer_bitfield \cup {i} \in SUBSET Pieces
      BY DEF PeerInv, PeerTypeOK, PeerState
    <3>2. QED
      BY <2>2, <3>1 DEF RecvHave, Probe, Next
  <2>3. ASSUME NEW have \in SUBSET Pieces, RecvBitfield(p, have)
        PROVE  [Next]_manager
    BY <2>3 DEF RecvBitfield, Probe, Next
  <2>4. ASSUME NEW b \in Blocks, NEW d \in Data, RecvPiece(p, b, d)
        PROVE  [Next]_manager
    BY <2>4 DEF RecvPiece, Next
  <2>5. QED
    BY <1>3, <2>1, <2>2, <2>3, <2>4 DEF Recv
<1>4. CASE MainThread
  BY <1>4 DEF MainThread, Next
<1>5. CASE UNCHANGED vars
  BY <1>5 DEF vars
<1>6. QED
  BY <1>1, <1>2, <1>3, <1>4, <1>5 DEF PeerNext

-----------------------------------------------------------------------------
(* PeerInv is inductive.                                                   *)

LEMMA FreshTypes == FreshState \in PeerState /\ FreshLocals \in Locals
<1>1. 0 \in Pieces
  BY GeometryAssumption DEF Pieces
<1>2. QED
  BY <1>1 DEF FreshState, PeerState, FreshLocals, Locals

LEMMA InvStarts == PeerInit => PeerInv
<1> SUFFICES ASSUME PeerInit PROVE PeerInv
  OBVIOUS
<1>1. TypeOK
  BY ControllerAssumption DEF PeerInit, Init, Constructed, TypeOK, Managers, Statuses, Content
<1>2. QED
  BY <1>1, FreshTypes DEF PeerInit, PeerInv, PeerTypeOK, InHand, HasBlock, Labels

(* The manager's part of the type comes from CallsAreSteps.                *)
ThreadTypeOK ==
    /\ pc \in [Peers -> Labels]
    /\ state \in [Peers -> PeerState]
    /\ local \in [Peers -> Locals]
    /\ told \in [Peers -> SUBSET Pieces]
    /\ broken \subseteq Peers

(* One field of a thread's state, or of its locals, may be set at a time.  *)
LEMMA StateUpdates ==
    ASSUME NEW s \in PeerState
    PROVE  /\ \A x \in BOOLEAN : /\ [s EXCEPT !.am_choking = x] \in PeerState
                                 /\ [s EXCEPT !.am_interested = x] \in PeerState
                                 /\ [s EXCEPT !.peer_choking = x] \in PeerState
           /\ \A x \in SUBSET Pieces : [s EXCEPT !.peer_bitfield = x] \in PeerState
           /\ \A x \in SUBSET Blocks : [s EXCEPT !.incoming_requests = x] \in PeerState
           /\ \A b \in Blocks, n \in Nat :
                 [s EXCEPT !.pending_requests = [@ EXCEPT ![b] = n]] \in PeerState
BY DEF PeerState

LEMMA LocalUpdates ==
    ASSUME NEW l \in Locals
    PROVE  /\ \A x \in Pieces : [l EXCEPT !.scan = x] \in Locals
           /\ \A x \in SUBSET Pieces : [l EXCEPT !.haves = x] \in Locals
           /\ \A x \in SUBSET Blocks : [l EXCEPT !.visit = x] \in Locals
           /\ \A x \in Blocks \cup {NoBlock} : [l EXCEPT !.req = x] \in Locals
BY DEF Locals

LEMMA LocalSteps ==
    ASSUME PeerInv, NEW p \in Peers, Start(p) \/ Handshake(p) \/ ReadFails(p) \/ ThreadStep(p) \/ Recv(p)
    PROVE  ThreadTypeOK'
<1> USE DEF Goto, At, SendWorks, SendFails, Labels
<1>0. ThreadTypeOK
  BY DEF PeerInv, PeerTypeOK, ThreadTypeOK
<1>a. state[p] \in PeerState /\ local[p] \in Locals /\ pc[p] \in Labels /\ told[p] \in SUBSET Pieces
  BY <1>0 DEF ThreadTypeOK
<1>b. /\ state[p].peer_bitfield \in SUBSET Pieces
      /\ state[p].incoming_requests \in SUBSET Blocks
      /\ \A b \in Blocks : state[p].pending_requests[b] \in Nat
      /\ local[p].visit \in SUBSET Blocks
      /\ local[p].haves \in SUBSET Pieces
  BY <1>a DEF PeerState, Locals
<1>c. pc[p] = "send_request" => local[p].req \in Blocks
  BY DEF PeerInv, InHand, HasBlock
<1>1. CASE Start(p)
  BY <1>0, <1>1 DEF Start, ThreadTypeOK
<1>2. CASE Handshake(p)
  BY <1>0, <1>2 DEF Handshake, ThreadTypeOK
<1>3. CASE ReadFails(p)
  BY <1>0, <1>3 DEF ReadFails, ThreadTypeOK
<1>4. CASE Greet(p)
  BY <1>0, <1>a, <1>b, <1>4, StateUpdates DEF Greet, get_bitfield, Done, ThreadTypeOK
<1>5. CASE AllDoneReads(p) \/ AllDoneReadsAgain(p)
  <2>1. \A i \in Pieces : [local[p] EXCEPT !.scan = i] \in Locals
    BY <1>a, LocalUpdates
  <2>2. 0 \in Pieces
    BY GeometryAssumption DEF Pieces
  <2>3. UNCHANGED <<state, told, broken>>
    BY <1>5 DEF AllDoneReads, AllDoneReadsAgain
  <2>4. local' = local \/ \E i \in Pieces : local' = [local EXCEPT ![p].scan = i]
    BY <1>5, <2>2 DEF AllDoneReads, AllDoneReadsAgain, Unfinished, Passes
  <2>5. pc' \in [Peers -> Labels]
    BY <1>0, <1>5 DEF AllDoneReads, AllDoneReadsAgain, Unfinished, Passes, ThreadTypeOK
  <2>6. QED
    BY <1>0, <2>1, <2>3, <2>4, <2>5 DEF ThreadTypeOK
<1>6. CASE Drain(p)
  BY <1>0, <1>a, <1>6 DEF Drain, ThreadTypeOK, Locals, PeerInv, PeerTypeOK, TypeOK, Managers
<1>7. CASE SendHave(p)
  BY <1>0, <1>a, <1>7 DEF SendHave, ThreadTypeOK, Locals
<1>8. CASE FlushEnds(p)
  BY <1>0, <1>a, <1>8 DEF FlushEnds, ThreadTypeOK, Locals, ToVisit, PeerState
<1>9. CASE Serve(p)
  <2>1. PICK b \in local[p].visit :
            /\ local' \in {[local EXCEPT ![p].visit = @ \ {b}],
                           [local EXCEPT ![p].visit = {}]}
            /\ state' \in {state, [state EXCEPT ![p].incoming_requests = @ \ {b}]}
    BY <1>9 DEF Serve
  <2>2. local[p].visit \ {b} \in SUBSET Blocks /\ {} \in SUBSET Blocks
    BY <1>b
  <2>3. /\ [local[p] EXCEPT !.visit = @ \ {b}] \in Locals
        /\ [local[p] EXCEPT !.visit = {}] \in Locals
    BY <1>a, <2>2, LocalUpdates
  <2>4. state[p].incoming_requests \ {b} \in SUBSET Blocks
    BY <1>b
  <2>5. [state[p] EXCEPT !.incoming_requests = @ \ {b}] \in PeerState
    BY <1>a, <2>4, StateUpdates
  <2>6. state' \in [Peers -> PeerState] /\ local' \in [Peers -> Locals]
    BY <1>0, <2>1, <2>3, <2>5 DEF ThreadTypeOK
  <2>7. UNCHANGED <<pc, told>> /\ broken' \subseteq Peers
    BY <1>0, <1>9 DEF Serve, ThreadTypeOK
  <2>8. QED
    BY <1>0, <2>6, <2>7 DEF ThreadTypeOK
<1>10. CASE ServeEnds(p)
  BY <1>0, <1>a, <1>10 DEF ServeEnds, ThreadTypeOK
<1>11. ASSUME NEW b \in Blocks, ReleasePending(p, b)
       PROVE  ThreadTypeOK'
  <2> DEFINE n == state[p].pending_requests[b] - 1
             s == [state[p] EXCEPT !.pending_requests =
                      [state[p].pending_requests EXCEPT ![b] = n]]
  <2>1. n \in Nat
    BY <1>b, <1>11 DEF ReleasePending
  <2>2. s \in PeerState
    BY <1>a, <2>1 DEF PeerState
  <2>3. state' = [state EXCEPT ![p] = s]
    BY <1>11 DEF ReleasePending
  <2> HIDE DEF s
  <2>4. state' \in [Peers -> PeerState]
    BY <1>0, <2>2, <2>3 DEF ThreadTypeOK
  <2>5. QED
    BY <1>0, <1>11, <2>4 DEF ReleasePending, ThreadTypeOK
<1>12. CASE ChokeEnds(p)
  BY <1>0, <1>12 DEF ChokeEnds, ThreadTypeOK
<1>13. CASE ReleaseProbe(p)
  <2>1. [state[p] EXCEPT !.am_interested = TRUE] \in PeerState
    BY <1>a, StateUpdates
  <2>2. [local[p] EXCEPT !.req = NoBlock] \in Locals
    BY <1>a, LocalUpdates
  <2>3. /\ state' \in {state, [state EXCEPT ![p].am_interested = TRUE]}
        /\ local' \in {local, [local EXCEPT ![p].req = NoBlock]}
    BY <1>13 DEF ReleaseProbe
  <2>4. state' \in [Peers -> PeerState] /\ local' \in [Peers -> Locals]
    BY <1>0, <2>1, <2>2, <2>3 DEF ThreadTypeOK
  <2>5. UNCHANGED <<told, broken>> /\ pc' \in [Peers -> Labels]
    BY <1>0, <1>13 DEF ReleaseProbe, ThreadTypeOK
  <2>6. QED
    BY <1>0, <2>4, <2>5 DEF ThreadTypeOK
<1>14. CASE ResetProbed(p)
  BY <1>0, <1>a, <1>14 DEF ResetProbed, ThreadTypeOK, Locals, PeerState
<1>15. CASE Ask(p)
  BY <1>0, <1>a, <1>15 DEF Ask, ThreadTypeOK, Locals
<1>16. CASE AskEnds(p)
  BY <1>0, <1>16 DEF AskEnds, ThreadTypeOK
<1>17. CASE SendRequest(p)
  <2> DEFINE b == local[p].req
             n == state[p].pending_requests[b] + 1
             s == [state[p] EXCEPT !.pending_requests =
                      [state[p].pending_requests EXCEPT ![b] = n]]
  <2>1. b \in Blocks
    BY <1>c, <1>17 DEF SendRequest
  <2>2. n \in Nat
    BY <1>b, <2>1
  <2>3. s \in PeerState
    BY <1>a, <2>1, <2>2 DEF PeerState
  <2>4. state' = [state EXCEPT ![p] = s]
    BY <1>17 DEF SendRequest
  <2> HIDE DEF s
  <2>5. state' \in [Peers -> PeerState]
    BY <1>0, <2>3, <2>4 DEF ThreadTypeOK
  <2>6. [local[p] EXCEPT !.req = NoBlock] \in Locals
    BY <1>a, LocalUpdates
  <2>7. local' \in [Peers -> Locals]
    BY <1>0, <1>17, <2>6 DEF SendRequest, ThreadTypeOK
  <2>8. QED
    BY <1>0, <1>17, <2>5, <2>7 DEF SendRequest, ThreadTypeOK
<1>18. CASE SendRequestFails(p)
  BY <1>0, <1>a, <1>18 DEF SendRequestFails, ThreadTypeOK, Locals
<1>19. CASE CleanupEnds(p)
  BY <1>0, <1>a, <1>b, <1>19, FreshTypes DEF CleanupEnds, ThreadTypeOK
<1>20. CASE RecvKeepAlive(p)
  BY <1>0, <1>20 DEF RecvKeepAlive, ThreadTypeOK
<1>21. CASE RecvChoke(p) \/ RecvUnchoke(p) \/ RecvNotInterested(p)
  BY <1>0, <1>a, <1>b, <1>21, StateUpdates DEF RecvChoke, RecvUnchoke, RecvNotInterested, ThreadTypeOK
<1>22. CASE RecvInterested(p)
  BY <1>0, <1>a, <1>22 DEF RecvInterested, ThreadTypeOK, PeerState, Locals, ToVisit
<1>23. ASSUME NEW i \in Pieces, RecvHave(p, i)
       PROVE  ThreadTypeOK'
  <2>1. state[p].peer_bitfield \cup {i} \in SUBSET Pieces
    BY <1>b
  <2>2. [state[p] EXCEPT !.peer_bitfield = @ \cup {i}] \in PeerState
    BY <1>a, <2>1, StateUpdates
  <2>3. \A b \in Blocks : [local[p] EXCEPT !.req = b] \in Locals
    BY <1>a, LocalUpdates
  <2>4. /\ state' = [state EXCEPT ![p].peer_bitfield = @ \cup {i}]
        /\ \/ local' = local
           \/ \E b \in Blocks : local' = [local EXCEPT ![p].req = b]
    BY <1>23 DEF RecvHave, Probe
  <2>5. state' \in [Peers -> PeerState] /\ local' \in [Peers -> Locals]
    BY <1>0, <2>2, <2>3, <2>4 DEF ThreadTypeOK
  <2>6. UNCHANGED <<told, broken>> /\ pc' \in [Peers -> Labels]
    BY <1>0, <1>23 DEF RecvHave, Probe, ThreadTypeOK
  <2>7. QED
    BY <1>0, <2>5, <2>6 DEF ThreadTypeOK
<1>24. ASSUME NEW have \in SUBSET Pieces, RecvBitfield(p, have)
       PROVE  ThreadTypeOK'
  <2>1. /\ [state[p] EXCEPT !.peer_bitfield = have] \in PeerState
        /\ [state[p] EXCEPT !.peer_bitfield = have, !.am_interested = FALSE] \in PeerState
    BY <1>a DEF PeerState
  <2>2. \A b \in Blocks : [local[p] EXCEPT !.req = b] \in Locals
    BY <1>a, LocalUpdates
  <2>3. /\ state' \in {[state EXCEPT ![p].peer_bitfield = have],
                       [state EXCEPT ![p].peer_bitfield = have, ![p].am_interested = FALSE]}
        /\ \/ local' = local
           \/ \E b \in Blocks : local' = [local EXCEPT ![p].req = b]
    BY <1>24 DEF RecvBitfield, Probe
  <2>4. local' \in [Peers -> Locals]
    BY <1>0, <2>2, <2>3 DEF ThreadTypeOK
  <2>5. state' \in [Peers -> PeerState]
    BY <1>0, <2>1, <2>3 DEF ThreadTypeOK
  <2>6. UNCHANGED <<told, broken>> /\ pc' \in [Peers -> Labels]
    BY <1>0, <1>24 DEF RecvBitfield, Probe, ThreadTypeOK
  <2>7. QED
    BY <1>0, <2>4, <2>5, <2>6 DEF ThreadTypeOK
<1>25. ASSUME NEW b \in Blocks, RecvRequest(p, b)
       PROVE  ThreadTypeOK'
  <2>1. state[p].incoming_requests \cup {b} \in SUBSET Blocks
    BY <1>b
  <2>2. [state[p] EXCEPT !.incoming_requests = @ \cup {b}] \in PeerState
    BY <1>a, <2>1, StateUpdates
  <2>3. state' \in {state, [state EXCEPT ![p].incoming_requests = @ \cup {b}]}
    BY <1>25 DEF RecvRequest
  <2>4. state' \in [Peers -> PeerState]
    BY <1>0, <2>2, <2>3 DEF ThreadTypeOK
  <2>5. ToVisit(state'[p]) \in SUBSET Blocks
    BY <2>4 DEF ToVisit, PeerState
  <2>6. [local[p] EXCEPT !.visit = ToVisit(state'[p])] \in Locals
    BY <1>a, <2>5, LocalUpdates
  <2>7. local' \in [Peers -> Locals]
    BY <1>0, <1>25, <2>6 DEF RecvRequest, ThreadTypeOK
  <2>8. UNCHANGED <<told, broken>> /\ pc' \in [Peers -> Labels]
    BY <1>0, <1>25 DEF RecvRequest, ThreadTypeOK
  <2>9. QED
    BY <1>0, <2>4, <2>7, <2>8 DEF ThreadTypeOK
<1>26. ASSUME NEW b \in Blocks, RecvCancel(p, b)
       PROVE  ThreadTypeOK'
  <2>1. state[p].incoming_requests \ {b} \in SUBSET Blocks
    BY <1>b
  <2>2. [state[p] EXCEPT !.incoming_requests = @ \ {b}] \in PeerState
    BY <1>a, <2>1, StateUpdates
  <2>3. QED
    BY <1>0, <1>26, <2>2 DEF RecvCancel, ThreadTypeOK
<1>27. ASSUME NEW b \in Blocks, NEW d \in Data, RecvPiece(p, b, d)
       PROVE  ThreadTypeOK'
  <2>1. [state[p] EXCEPT !.pending_requests = [@ EXCEPT ![b] = 0]] \in PeerState
    BY <1>a, StateUpdates
  <2>2. state' \in {state, [state EXCEPT ![p].pending_requests[b] = 0]}
    BY <1>27 DEF RecvPiece
  <2>3. state' \in [Peers -> PeerState]
    BY <1>0, <2>1, <2>2 DEF ThreadTypeOK
  <2>4. UNCHANGED <<local, told, broken>> /\ pc' \in [Peers -> Labels]
    BY <1>0, <1>27 DEF RecvPiece, ThreadTypeOK
  <2>5. QED
    BY <1>0, <2>3, <2>4 DEF ThreadTypeOK
<1>28. QED
  BY <1>1, <1>2, <1>3, <1>4, <1>5, <1>6, <1>7, <1>8, <1>9, <1>10, <1>11, <1>12, <1>13, <1>14, <1>15, <1>16, <1>17, <1>18, <1>19, <1>20, <1>21, <1>22, <1>23, <1>24, <1>25, <1>26, <1>27 DEF ThreadStep, Recv

(* Any step of the thread p.                                               *)
Step(p) == Start(p) \/ Handshake(p) \/ ReadFails(p) \/ ThreadStep(p) \/ Recv(p)

(* A step of one thread touches no variable of another.                    *)
LEMMA OthersUntouched ==
    ASSUME ThreadTypeOK, NEW p \in Peers,
           Start(p) \/ Handshake(p) \/ ReadFails(p) \/ ThreadStep(p) \/ Recv(p),
           NEW q \in Peers, q # p
    PROVE  pc'[q] = pc[q] /\ state'[q] = state[q] /\ local'[q] = local[q]
<1> USE DEF Goto, At
<1>1. pc' = pc \/ \E x : pc' = [pc EXCEPT ![p] = x]
  BY DEF Start, Handshake, ReadFails, ThreadStep, Greet, AllDoneReads,
         AllDoneReadsAgain, Unfinished, Passes, Drain, SendHave, FlushEnds, Serve, ServeEnds, ReleasePending, ChokeEnds, ReleaseProbe,
         ResetProbed, Ask, AskEnds, SendRequest, SendRequestFails, CleanupEnds, Recv,
         RecvKeepAlive, RecvChoke, RecvUnchoke, RecvInterested, RecvNotInterested,
         RecvHave, RecvBitfield, RecvRequest, RecvPiece, RecvCancel, Probe
<1>2. state' = state \/ \E x : state' = [state EXCEPT ![p] = x]
  BY DEF Start, Handshake, ReadFails, ThreadStep, Greet, AllDoneReads,
         AllDoneReadsAgain, Unfinished, Passes, Drain, SendHave, FlushEnds, Serve, ServeEnds, ReleasePending, ChokeEnds, ReleaseProbe,
         ResetProbed, Ask, AskEnds, SendRequest, SendRequestFails, CleanupEnds, Recv,
         RecvKeepAlive, RecvChoke, RecvUnchoke, RecvInterested, RecvNotInterested,
         RecvHave, RecvBitfield, RecvRequest, RecvPiece, RecvCancel, Probe
<1>3. local' = local \/ \E x : local' = [local EXCEPT ![p] = x]
  BY DEF Start, Handshake, ReadFails, ThreadStep, Greet, AllDoneReads,
         AllDoneReadsAgain, Unfinished, Passes, Drain, SendHave, FlushEnds, Serve, ServeEnds, ReleasePending, ChokeEnds, ReleaseProbe,
         ResetProbed, Ask, AskEnds, SendRequest, SendRequestFails, CleanupEnds, Recv,
         RecvKeepAlive, RecvChoke, RecvUnchoke, RecvInterested, RecvNotInterested,
         RecvHave, RecvBitfield, RecvRequest, RecvPiece, RecvCancel, Probe
<1>4. QED
  BY <1>1, <1>2, <1>3 DEF ThreadTypeOK

(* A thread gets a block in hand only from next_request, which gives none  *)
(* to a seeder, and keeps it until it has left the labels that use it.     *)
LEMMA KeepsInHand ==
    ASSUME PeerInv, NEW p \in Peers,
           Start(p) \/ Handshake(p) \/ ReadFails(p) \/ ThreadStep(p) \/ Recv(p)
    PROVE  InHand'
<1> USE DEF Goto, At
<1>0. ThreadTypeOK /\ InHand
  BY DEF PeerInv, PeerTypeOK, ThreadTypeOK
<1>1. ASSUME NEW q \in Peers, q # p
      PROVE  pc'[q] = pc[q] /\ local'[q] = local[q]
  BY <1>0, <1>1, OthersUntouched
<1>2. pc'[p] \in HasBlock => local'[p].req \in Blocks /\ Mode = "LEECHER"
  <2> USE DEF HasBlock
  <2>a. pc \in [Peers -> Labels] /\ local \in [Peers -> Locals]
    BY <1>0 DEF ThreadTypeOK
  <2>1. ASSUME NEW b \in Blocks, NEW have, NextRequest(have, b),
               local' = [local EXCEPT ![p].req = b]
        PROVE  local'[p].req \in Blocks /\ Mode = "LEECHER"
    BY <2>1, <2>a DEF NextRequest, next_request, Locals
  <2>2. CASE Ask(p)
    BY <2>1, <2>2 DEF Ask
  <2>3. CASE \E i \in Pieces : RecvHave(p, i)
    BY <2>1, <2>3, <2>a DEF RecvHave, Probe
  <2>4. CASE \E have \in SUBSET Pieces : RecvBitfield(p, have)
    BY <2>1, <2>4, <2>a DEF RecvBitfield, Probe
  <2>5. CASE ReleaseProbe(p)
    <3>1. At(p, "probe_bitfield") => local' = local
      BY <2>5 DEF ReleaseProbe
    <3>2. At(p, "probe_have") => pc'[p] = "top"
      BY <2>5, <2>a DEF ReleaseProbe
    <3>3. QED
      BY <1>0, <2>5, <3>1, <3>2 DEF ReleaseProbe, InHand
  <2>6. CASE Serve(p) \/ SendHave(p) \/ \E b \in Blocks : ReleasePending(p, b)
    BY <2>6 DEF Serve, SendHave, ReleasePending
  <2>7. CASE AllDoneReads(p) \/ AllDoneReadsAgain(p)
    BY <2>7, <2>a DEF AllDoneReads, AllDoneReadsAgain, Unfinished, Passes
  <2>8. CASE \/ Start(p) \/ Handshake(p) \/ ReadFails(p) \/ Greet(p) \/ Drain(p)
             \/ FlushEnds(p) \/ ServeEnds(p) \/ ChokeEnds(p) \/ ResetProbed(p)
             \/ AskEnds(p) \/ SendRequest(p) \/ SendRequestFails(p) \/ CleanupEnds(p)
    BY <2>8, <2>a DEF Start, Handshake, ReadFails, Greet, Drain, FlushEnds, ServeEnds,
             ChokeEnds, ResetProbed, AskEnds, SendRequest, SendRequestFails, CleanupEnds
  <2>9. CASE \/ RecvKeepAlive(p) \/ RecvChoke(p) \/ RecvUnchoke(p)
             \/ RecvInterested(p) \/ RecvNotInterested(p)
             \/ \E b \in Blocks : RecvRequest(p, b) \/ RecvCancel(p, b)
             \/ \E b \in Blocks, d \in Data : RecvPiece(p, b, d)
    BY <2>9, <2>a DEF RecvKeepAlive, RecvChoke, RecvUnchoke, RecvInterested,
             RecvNotInterested, RecvRequest, RecvCancel, RecvPiece
  <2>10. QED
    BY <2>2, <2>3, <2>4, <2>5, <2>6, <2>7, <2>8, <2>9 DEF ThreadStep, Recv
<1>3. QED
  BY <1>0, <1>1, <1>2 DEF InHand

LEMMA InvSteps ==
    ASSUME PeerInv, [PeerNext]_vars
    PROVE  PeerInv'
<1>1. TypeOK'
  BY CallsAreSteps, StepKeepsType DEF PeerInv, PeerTypeOK
<1>2. ThreadTypeOK' /\ InHand'
  <2>1. CASE \E p \in Peers : \/ Start(p) \/ Handshake(p) \/ ReadFails(p)
                              \/ ThreadStep(p) \/ Recv(p)
    BY <2>1, LocalSteps, KeepsInHand
  <2>2. CASE MainThread \/ UNCHANGED vars
    BY <2>2 DEF MainThread, vars, PeerInv, PeerTypeOK, ThreadTypeOK, InHand
  <2>3. QED
    BY <2>1, <2>2 DEF PeerNext
<1>3. QED
  BY <1>1, <1>2 DEF PeerInv, PeerTypeOK, ThreadTypeOK

LEMMA PeerInvariant == PeerSpec => []PeerInv
BY InvStarts, InvSteps, PTL DEF PeerSpec

(* Whatever the remotes send about blocks that exist, in whatever order    *)
(* the threads run, every variable of the process keeps its type; in       *)
(* particular no counter of pending_requests goes below zero and no thread *)
(* releases a block it never got.                                          *)
THEOREM PeerTypeCorrect == PeerSpec => []PeerTypeOK
BY PeerInvariant, PTL DEF PeerInv

(* The threads together implement Controller: every step of theirs is one  *)
(* call of the manager that Controller allows, or leaves it alone.         *)
THEOREM Refines == PeerSpec => ImplementsController
<1>1. PeerInit => Init
  BY DEF PeerInit
<1>2. PeerInv /\ [PeerNext]_vars => [Next]_manager
  BY CallsAreSteps
<1>3. QED
  BY <1>1, <1>2, PeerInvariant, PTL DEF PeerSpec, ImplementsController, Spec

(* So what was proved of the manager alone holds under the threads: the    *)
(* main thread's wake-up is not lost, no piece waits for an assembly that  *)
(* nobody will do, and, on a disk that does not fail, verified bytes stay. *)
THEOREM ThreadsKeepManager ==
    /\ PeerSpec => [](NoLostWakeup /\ NoPieceLeftAssembled)
    /\ ~ DiskMayFail => (PeerSpec => VerifiedForever)
<1>1. PeerSpec => [](NoLostWakeup /\ NoPieceLeftAssembled)
  BY Refines, WakeupNotLost, NothingLeftAssembled, PTL DEF ImplementsController
<1>2. ASSUME ~ DiskMayFail
      PROVE  PeerSpec => VerifiedForever
  BY <1>2, Refines, GoodIsForever, PTL DEF ImplementsController
<1>3. QED
  BY <1>1, <1>2

(* And by transitivity the threads of a leecher implement Download.        *)
THEOREM ThreadsImplementDownload ==
    ASSUME Mode = "LEECHER", ~ DiskMayFail
    PROVE  PeerSpec => ImplementsDownload
BY Refines, ControllerImplementsDownload, PTL DEF ImplementsController

-----------------------------------------------------------------------------
(* The reservations: no block is left in flight without a thread that      *)
(* answers for it, and, while remotes send only what they were asked for,  *)
(* no block has two.  Both arguments are about one thread at a time: what  *)
(* it does to the blocks in flight, and to those it answers for itself.    *)

(* The threads that hold a block in hand that is reserved.                 *)
Holding == {"send_request", "probe_have", "probe_bitfield"}

-----------------------------------------------------------------------------
(* What the methods do to the blocks in flight.                            *)

LEMMA CallsInflight ==
    ASSUME NEW c \in Managers
    PROVE  /\ \A b \in Blocks : reserve(c, b).inflight = c.inflight \cup {b}
           /\ \A b \in Blocks : release_in_flight(c, b).inflight = c.inflight \ {b}
           /\ \A p \in Peers : /\ register_peer(c, p).inflight = c.inflight
                               /\ unregister_peer(c, p).inflight = c.inflight
                               /\ drain_haves(c, p).inflight = c.inflight
BY DEF reserve, release_in_flight, register_peer, unregister_peer, drain_haves, Managers

(* A block of the right size is no longer in flight; one of the wrong size *)
(* is left as it was.                                                      *)
LEMMA ReceivedInflight ==
    ASSUME NEW c \in Managers, NEW b \in Blocks, NEW d \in Data,
           NEW r \in received_block(c, b, d)
    PROVE  /\ r.inflight = c.inflight \/ r.inflight = c.inflight \ {b}
           /\ Mode = "LEECHER" /\ d # "short" => r.inflight = c.inflight \ {b}
<1>1. CASE Mode = "SEEDER" \/ d = "short"
  BY <1>1 DEF received_block
<1>2. CASE ~ (Mode = "SEEDER" \/ d = "short")
  <2> DEFINE s == store(c, b, d)
  <2>1. d \in {"good", "bad"}
    BY <1>2, ControllerAssumption
  <2>2. s \in Managers /\ s.inflight = c.inflight \ {b}
    BY <2>1, StoreType DEF store, Managers
  <2>3. \/ r = s
        \/ r = reject(s, b[1])
        \/ \E f \in write_to_disk(s, b[1]) : r = complete(s, b[1], f)
    BY <1>2 DEF received_block
  <2> HIDE DEF s
  <2>4. \A f : complete(s, b[1], f).inflight = s.inflight
    BY <2>2 DEF complete, Managers
  <2>5. reject(s, b[1]).inflight = s.inflight
    BY <2>2 DEF reject, Managers
  <2>6. QED
    BY <2>2, <2>3, <2>4, <2>5
<1>3. QED
  BY <1>1, <1>2

LEMMA NextRequestInflight ==
    ASSUME TypeOK, NEW have, NEW b \in Blocks, NextRequest(have, b)
    PROVE  b \notin manager.inflight /\ manager'.inflight = manager.inflight \cup {b}
BY CallsInflight DEF NextRequest, next_request, Candidates, TypeOK

-----------------------------------------------------------------------------
(* The steps of a thread, by what they do to reservations.                 *)

(* Nothing at all.                                                         *)
Neutral(p) ==
    /\ pc[p] \notin Holding /\ pc'[p] \notin Holding
    /\ manager'.inflight = manager.inflight
    /\ state'[p].pending_requests = state[p].pending_requests

(* Block b becomes p's, in hand.                                           *)
Takes(p, b) ==
    /\ pc[p] \notin Holding /\ pc'[p] \in Holding
    /\ local'[p].req = b
    /\ b \notin manager.inflight
    /\ manager'.inflight = manager.inflight \cup {b}
    /\ state'[p].pending_requests = state[p].pending_requests

(* Block b, asked for, is no longer in hand but pending.                   *)
Sends(p, b) ==
    /\ pc[p] \in Holding /\ pc'[p] \notin Holding
    /\ local[p].req = b
    /\ manager'.inflight = manager.inflight
    /\ state'[p].pending_requests = [state[p].pending_requests EXCEPT ![b] = @ + 1]

(* Block b, in hand, is given back.                                        *)
PutsBack(p, b) ==
    /\ pc[p] \in Holding /\ pc'[p] \notin Holding
    /\ local[p].req = b
    /\ manager'.inflight = manager.inflight \ {b}
    /\ state'[p].pending_requests = state[p].pending_requests

(* Block b, pending, is given back.                                        *)
Releases(p, b) ==
    /\ pc[p] \notin Holding /\ pc'[p] \notin Holding
    /\ state[p].pending_requests[b] > 0
    /\ manager'.inflight = manager.inflight \ {b}
    /\ state'[p].pending_requests = [state[p].pending_requests EXCEPT ![b] = @ - 1]

(* Block b arrives; if its data are short it stays in flight.              *)
Receives(p, b) ==
    /\ pc[p] \notin Holding /\ pc'[p] \notin Holding
    /\ Unsolicited \/ state[p].pending_requests[b] > 0
    /\ state'[p].pending_requests = [state[p].pending_requests EXCEPT ![b] = 0]
    /\ \/ manager'.inflight = manager.inflight \ {b}
       \/ "short" \in Data /\ manager'.inflight = manager.inflight

(* The connection ends with nothing pending.                               *)
Leaves(p) ==
    /\ pc[p] \notin Holding /\ pc'[p] \notin Holding
    /\ NothingPending(p) /\ state'[p] = FreshState
    /\ manager'.inflight = manager.inflight

LEMMA StepKinds ==
    ASSUME PeerInv, NEW p \in Peers, Step(p)
    PROVE  \/ Neutral(p)
           \/ \E b \in Blocks : \/ Takes(p, b) \/ Sends(p, b) \/ PutsBack(p, b)
                                \/ Releases(p, b) \/ Receives(p, b)
           \/ Leaves(p)
<1> USE DEF Goto, At, Reads, Holding
<1>a. /\ manager \in Managers /\ pc \in [Peers -> Labels]
      /\ state \in [Peers -> PeerState] /\ local \in [Peers -> Locals]
  BY DEF PeerInv, PeerTypeOK, TypeOK
<1>b. state[p] \in PeerState /\ local[p] \in Locals
  BY <1>a
<1>c. pc[p] \in HasBlock => local[p].req \in Blocks
  BY DEF PeerInv, InHand
<1>1. CASE \/ Handshake(p) \/ ReadFails(p) \/ AllDoneReads(p) \/ AllDoneReadsAgain(p)
           \/ SendHave(p) \/ FlushEnds(p) \/ ServeEnds(p) \/ ChokeEnds(p) \/ AskEnds(p)
           \/ RecvKeepAlive(p)
  BY <1>1, <1>a DEF Handshake, ReadFails, AllDoneReads, AllDoneReadsAgain, Unfinished,
       Passes, SendHave, FlushEnds, ServeEnds, ChokeEnds, AskEnds, RecvKeepAlive, Neutral
<1>2. CASE \/ Greet(p) \/ RecvChoke(p) \/ RecvUnchoke(p) \/ RecvInterested(p)
           \/ RecvNotInterested(p) \/ Serve(p)
           \/ \E b \in Blocks : RecvRequest(p, b) \/ RecvCancel(p, b)
  <2>1. state'[p].pending_requests = state[p].pending_requests
    BY <1>2, <1>a, <1>b DEF Greet, RecvChoke, RecvUnchoke, RecvInterested,
         RecvNotInterested, Serve, RecvRequest, RecvCancel, PeerState
  <2>2. /\ manager' = manager
        /\ pc[p] \notin Holding /\ pc'[p] \notin Holding
    BY <1>2, <1>a DEF Greet, RecvChoke, RecvUnchoke, RecvInterested,
         RecvNotInterested, Serve, RecvRequest, RecvCancel
  <2>3. QED
    BY <2>1, <2>2 DEF Neutral
<1>3. CASE Start(p) \/ Drain(p)
  BY <1>3, <1>a, CallsInflight DEF Start, RegisterPeer, Drain, DrainHaves, Neutral
<1>4. ASSUME NEW b \in Blocks, ReleasePending(p, b)
      PROVE  Releases(p, b)
  <2>1. state'[p].pending_requests = [state[p].pending_requests EXCEPT ![b] = @ - 1]
    BY <1>4, <1>a, <1>b DEF ReleasePending, PeerState
  <2>2. QED
    BY <1>4, <1>a, <2>1, CallsInflight DEF ReleasePending, ReleaseInFlight, Releases
<1>5. CASE ReleaseProbe(p)
  <2>1. local[p].req \in Blocks
    BY <1>5, <1>c DEF ReleaseProbe, HasBlock
  <2>2. state'[p].pending_requests = state[p].pending_requests
    BY <1>5, <1>a, <1>b DEF ReleaseProbe, PeerState
  <2>3. pc'[p] \notin Holding
    BY <1>5, <1>a DEF ReleaseProbe
  <2>4. PutsBack(p, local[p].req)
    BY <1>5, <1>a, <2>1, <2>2, <2>3, CallsInflight DEF ReleaseProbe, ReleaseInFlight, PutsBack
  <2>5. QED
    BY <2>1, <2>4
<1>6. CASE ResetProbed(p)
  <2>1. state'[p].pending_requests = state[p].pending_requests
    BY <1>6, <1>a, <1>b DEF ResetProbed, PeerState
  <2>2. manager'.inflight = manager.inflight
    BY <1>6, <1>a DEF ResetProbed, ResetStatus, Managers
  <2>3. QED
    BY <1>6, <1>a, <2>1, <2>2 DEF ResetProbed, Neutral
<1>7. CASE Ask(p)
  <2>1. PICK b \in Blocks : /\ NextRequest(state[p].peer_bitfield, b)
                            /\ local' = [local EXCEPT ![p].req = b]
    BY <1>7 DEF Ask
  <2>2. local'[p].req = b
    BY <1>a, <1>b, <2>1 DEF Locals
  <2>3. Takes(p, b)
    BY <1>7, <1>a, <2>1, <2>2, NextRequestInflight DEF Ask, Takes, TypeOK
  <2>4. QED
    BY <2>3
<1>8. CASE SendRequest(p)
  <2>1. local[p].req \in Blocks
    BY <1>8, <1>c DEF SendRequest, HasBlock
  <2>2. state'[p].pending_requests =
            [state[p].pending_requests EXCEPT ![local[p].req] = @ + 1]
    BY <1>8, <1>a, <1>b, <2>1 DEF SendRequest, PeerState
  <2>3. Sends(p, local[p].req)
    BY <1>8, <1>a, <2>2 DEF SendRequest, Sends
  <2>4. QED
    BY <2>1, <2>3
<1>9. CASE SendRequestFails(p)
  <2>1. local[p].req \in Blocks
    BY <1>9, <1>c DEF SendRequestFails, HasBlock
  <2>2. PutsBack(p, local[p].req)
    BY <1>9, <1>a, <2>1, CallsInflight DEF SendRequestFails, ReleaseInFlight, PutsBack
  <2>3. QED
    BY <2>1, <2>2
<1>10. CASE CleanupEnds(p)
  <2>1. manager'.inflight = manager.inflight
    BY <1>10, <1>a, CallsInflight DEF CleanupEnds, UnregisterPeer
  <2>2. QED
    BY <1>10, <1>a, <2>1 DEF CleanupEnds, Leaves
<1>11. ASSUME NEW i \in Pieces, RecvHave(p, i)
       PROVE  Neutral(p) \/ \E b \in Blocks : Takes(p, b)
  <2>1. state'[p].pending_requests = state[p].pending_requests
    BY <1>11, <1>a, <1>b DEF RecvHave, PeerState
  <2>2. CASE manager' = manager /\ pc'[p] = "top"
    BY <1>11, <2>1, <2>2 DEF RecvHave, Neutral
  <2>3. ASSUME NEW b \in Blocks, NEW have, Probe(p, have, b, "probe_have")
        PROVE  Takes(p, b)
    <3>1. local'[p].req = b
      BY <1>a, <1>b, <2>3 DEF Probe, Locals
    <3>2. QED
      BY <1>11, <1>a, <2>1, <2>3, <3>1, NextRequestInflight DEF RecvHave, Probe, Takes, TypeOK
  <2>4. QED
    BY <1>11, <1>a, <2>2, <2>3 DEF RecvHave
<1>12. ASSUME NEW have \in SUBSET Pieces, RecvBitfield(p, have)
       PROVE  Neutral(p) \/ \E b \in Blocks : Takes(p, b)
  <2>1. state'[p].pending_requests = state[p].pending_requests
    BY <1>12, <1>a, <1>b DEF RecvBitfield, PeerState
  <2>2. CASE manager' = manager /\ pc'[p] = "top"
    BY <1>12, <2>1, <2>2 DEF RecvBitfield, Neutral
  <2>3. ASSUME NEW b \in Blocks, Probe(p, have, b, "probe_bitfield")
        PROVE  Takes(p, b)
    <3>1. local'[p].req = b
      BY <1>a, <1>b, <2>3 DEF Probe, Locals
    <3>2. QED
      BY <1>12, <1>a, <2>1, <2>3, <3>1, NextRequestInflight DEF RecvBitfield, Probe, Takes, TypeOK
  <2>4. QED
    BY <1>12, <1>a, <2>2, <2>3 DEF RecvBitfield
<1>13. ASSUME NEW b \in Blocks, NEW d \in Data, RecvPiece(p, b, d)
       PROVE  Neutral(p) \/ Receives(p, b)
  <2>1. CASE Mode = "SEEDER"
    BY <1>13, <1>a, <2>1 DEF RecvPiece, Neutral
  <2>2. CASE Mode = "LEECHER"
    <3>1. state'[p].pending_requests = [state[p].pending_requests EXCEPT ![b] = 0]
      BY <1>13, <1>a, <1>b, <2>2 DEF RecvPiece, PeerState
    <3>2. manager' \in received_block(manager, b, d)
      BY <1>13, <2>2 DEF RecvPiece, ReceivedBlock
    <3>3. \/ manager'.inflight = manager.inflight \ {b}
          \/ "short" \in Data /\ manager'.inflight = manager.inflight
      BY <1>a, <2>2, <3>2, ReceivedInflight
    <3>4. QED
      BY <1>13, <1>a, <2>2, <3>1, <3>3 DEF RecvPiece, Receives
  <2>3. QED
    BY <2>1, <2>2, ControllerAssumption
<1>14. QED
  BY <1>1, <1>2, <1>3, <1>4, <1>5, <1>6, <1>7, <1>8, <1>9, <1>10, <1>11, <1>12, <1>13
     DEF Step, ThreadStep, Recv

-----------------------------------------------------------------------------
(* Reservations have owners.                                               *)

LEMMA OthersKeepOwning ==
    ASSUME PeerInv, NEW p \in Peers, Step(p), NEW q \in Peers, q # p, NEW b
    PROVE  Owns(q, b)' <=> Owns(q, b)
<1>1. pc'[q] = pc[q] /\ state'[q] = state[q] /\ local'[q] = local[q]
  BY OthersUntouched DEF PeerInv, PeerTypeOK, ThreadTypeOK, Step
<1>2. QED
  BY <1>1 DEF Owns

(* A thread stops answering for a block only as the block leaves inflight, *)
(* and answers for each one that enters it.                                *)
LEMMA OwnerAnswers ==
    ASSUME "short" \notin Data, PeerInv, NEW p \in Peers, Step(p),
           NEW b \in Blocks, b \in manager'.inflight
    PROVE  Owns(p, b)' \/ (b \in manager.inflight /\ ~ Owns(p, b))
<1> USE DEF Holding
<1>1. \A c \in Blocks : state[p].pending_requests[c] \in Nat
  BY DEF PeerInv, PeerTypeOK, PeerState
<1>2. state[p].pending_requests \in [Blocks -> Nat]
  BY DEF PeerInv, PeerTypeOK, PeerState
<1>3. CASE Neutral(p)
  BY <1>3 DEF Neutral, Owns
<1>4. ASSUME NEW c \in Blocks, Takes(p, c)
      PROVE  Owns(p, b)' \/ (b \in manager.inflight /\ ~ Owns(p, b))
  BY <1>4 DEF Takes, Owns
<1>5. ASSUME NEW c \in Blocks, Sends(p, c)
      PROVE  Owns(p, b)' \/ (b \in manager.inflight /\ ~ Owns(p, b))
  BY <1>1, <1>2, <1>5 DEF Sends, Owns
<1>6. ASSUME NEW c \in Blocks, PutsBack(p, c)
      PROVE  Owns(p, b)' \/ (b \in manager.inflight /\ ~ Owns(p, b))
  BY <1>6 DEF PutsBack, Owns
<1>7. ASSUME NEW c \in Blocks, Releases(p, c) \/ Receives(p, c)
      PROVE  Owns(p, b)' \/ (b \in manager.inflight /\ ~ Owns(p, b))
  BY <1>2, <1>7 DEF Releases, Receives, Owns
<1>8. CASE Leaves(p)
  BY <1>1, <1>8 DEF Leaves, NothingPending, Owns
<1>9. QED
  BY <1>3, <1>4, <1>5, <1>6, <1>7, <1>8, StepKinds

(* If no remote sends a block of the wrong length, a block in flight is    *)
(* always somebody's, whatever else the remotes send and however often     *)
(* they choke, close or repeat themselves: no block is withheld for ever   *)
(* from next_request.                                                      *)
THEOREM NoOrphans ==
    ASSUME "short" \notin Data
    PROVE  PeerSpec => []NoOrphanInflight
<1>1. PeerInit => NoOrphanInflight
  BY DEF PeerInit, Init, Constructed, NoOrphanInflight
<1>2. PeerInv /\ NoOrphanInflight /\ [PeerNext]_vars => NoOrphanInflight'
  <2> SUFFICES ASSUME PeerInv, NoOrphanInflight, [PeerNext]_vars
               PROVE  NoOrphanInflight'
    OBVIOUS
  <2>1. ASSUME NEW p \in Peers, Step(p)
        PROVE  NoOrphanInflight'
    <3> SUFFICES ASSUME NEW b \in manager'.inflight
                 PROVE  \E q \in Peers : Owns(q, b)'
      BY DEF NoOrphanInflight
    <3>1. b \in Blocks
      BY InvSteps DEF PeerInv, PeerTypeOK, TypeOK, Managers
    <3>2. CASE Owns(p, b)'
      BY <3>2
    <3>3. CASE b \in manager.inflight /\ ~ Owns(p, b)
      <4>1. PICK q \in Peers : Owns(q, b)
        BY <3>3 DEF NoOrphanInflight
      <4>2. QED
        BY <2>1, <3>3, <4>1, OthersKeepOwning
    <3>4. QED
      BY <2>1, <3>1, <3>2, <3>3, OwnerAnswers
  <2>2. CASE MainThread \/ UNCHANGED vars
    <3>1. manager'.inflight = manager.inflight /\ UNCHANGED <<pc, state, local>>
      BY <2>2 DEF MainThread, WaitUntilDone, SpuriousWakeup, vars, PeerInv,
           PeerTypeOK, TypeOK, Managers
    <3>2. QED
      BY <3>1 DEF NoOrphanInflight, Owns
  <2>3. QED
    BY <2>1, <2>2 DEF PeerNext, Step
<1>3. QED
  BY <1>1, <1>2, PeerInvariant, PTL DEF PeerSpec

-----------------------------------------------------------------------------
(* And no more than one.                                                   *)

(* A block in hand is not also pending in the same thread: it was reserved *)
(* after the last one asked for it.                                        *)
HandNotPending ==
    \A p \in Peers :
        pc[p] \in Holding => state[p].pending_requests[local[p].req] = 0

(* What p owns after a step is in flight, and is new or was p's; what is   *)
(* no longer in flight was p's.                                            *)
LEMMA OwnershipSteps ==
    ASSUME ~ Unsolicited, PeerInv, OneOwner, HandNotPending,
           NEW p \in Peers, Step(p), NEW b \in Blocks
    PROVE  /\ Owns(p, b)' => /\ b \in manager'.inflight
                             /\ b \notin manager.inflight \/ Owns(p, b)
           /\ b \in manager.inflight /\ b \notin manager'.inflight => Owns(p, b)
           /\ state'[p].pending_requests[b] <= 1
           /\ pc'[p] \in Holding => state'[p].pending_requests[local'[p].req] = 0
<1> USE DEF Holding
<1> DEFINE pend == state[p].pending_requests
           Goal == /\ Owns(p, b)' => /\ b \in manager'.inflight
                                     /\ b \notin manager.inflight \/ Owns(p, b)
                   /\ b \in manager.inflight /\ b \notin manager'.inflight => Owns(p, b)
                   /\ state'[p].pending_requests[b] <= 1
                   /\ pc'[p] \in Holding => state'[p].pending_requests[local'[p].req] = 0
<1>1. pend \in [Blocks -> Nat] /\ \A c \in Blocks : pend[c] \in 0 .. 1
  <2>1. pend \in [Blocks -> Nat]
    BY DEF PeerInv, PeerTypeOK, PeerState
  <2>2. \A c \in Blocks : pend[c] <= 1
    BY DEF OneOwner
  <2>3. QED
    BY <2>1, <2>2
<1>2. \A c \in Blocks : Owns(p, c) => c \in manager.inflight
  BY DEF OneOwner
<1>3. CASE Neutral(p)
  BY <1>1, <1>2, <1>3 DEF Neutral, Owns
<1>4. ASSUME NEW c \in Blocks, Takes(p, c)
      PROVE  Goal
  <2>1. pend[c] = 0
    BY <1>1, <1>2, <1>4 DEF Takes, Owns
  <2>2. QED
    BY <1>1, <1>2, <1>4, <2>1 DEF Takes, Owns
<1>5. ASSUME NEW c \in Blocks, Sends(p, c)
      PROVE  Goal
  <2>1. pend[c] = 0 /\ Owns(p, c)
    BY <1>5 DEF Sends, HandNotPending, Owns
  <2>2. \A e \in Blocks : state'[p].pending_requests[e] = IF e = c THEN 1 ELSE pend[e]
    BY <1>1, <1>5, <2>1 DEF Sends
  <2>3. QED
    BY <1>1, <1>2, <1>5, <2>1, <2>2 DEF Sends, Owns
<1>6. ASSUME NEW c \in Blocks, PutsBack(p, c)
      PROVE  Goal
  <2>1. pend[c] = 0 /\ Owns(p, c)
    BY <1>6 DEF PutsBack, HandNotPending, Owns
  <2>2. QED
    BY <1>1, <1>2, <1>6, <2>1 DEF PutsBack, Owns
<1>7. ASSUME NEW c \in Blocks, Releases(p, c) \/ Receives(p, c)
      PROVE  Goal
  <2>1. pend[c] = 1 /\ Owns(p, c)
    BY <1>1, <1>7 DEF Releases, Receives, Owns
  <2>2. \A e \in Blocks : state'[p].pending_requests[e] = IF e = c THEN 0 ELSE pend[e]
    BY <1>1, <1>7, <2>1 DEF Releases, Receives
  <2>3. /\ pc'[p] \notin Holding
        /\ manager'.inflight \in {manager.inflight, manager.inflight \ {c}}
    BY <1>7 DEF Releases, Receives
  <2>4. QED
    BY <1>1, <1>2, <2>1, <2>2, <2>3 DEF Owns
<1>8. CASE Leaves(p)
  BY <1>1, <1>8 DEF Leaves, FreshState, Owns
<1>9. QED
  BY <1>3, <1>4, <1>5, <1>6, <1>7, <1>8, StepKinds

LEMMA OneOwnerSteps ==
    ASSUME ~ Unsolicited, PeerInv, OneOwner, HandNotPending, [PeerNext]_vars
    PROVE  (OneOwner /\ HandNotPending)'
<1>1. ASSUME NEW p \in Peers, Step(p)
      PROVE  (OneOwner /\ HandNotPending)'
  <2>1. \A q \in Peers, b \in Blocks : q # p => (Owns(q, b)' <=> Owns(q, b))
    BY <1>1, OthersKeepOwning
  <2>2. \A q \in Peers : q # p => /\ pc'[q] = pc[q] /\ state'[q] = state[q]
                                  /\ local'[q] = local[q]
    BY <1>1, OthersUntouched DEF PeerInv, PeerTypeOK, ThreadTypeOK, Step
  <2>3. \A b \in Blocks :
           /\ Owns(p, b)' => /\ b \in manager'.inflight
                             /\ b \notin manager.inflight \/ Owns(p, b)
           /\ b \in manager.inflight /\ b \notin manager'.inflight => Owns(p, b)
           /\ state'[p].pending_requests[b] <= 1
    BY <1>1, OwnershipSteps
  <2>4. \A q, r \in Peers, b \in Blocks :
           /\ Owns(q, b) => b \in manager.inflight
           /\ state[q].pending_requests[b] <= 1
           /\ Owns(q, b) /\ Owns(r, b) => q = r
    BY DEF OneOwner
  <2>5. ASSUME NEW q \in Peers, NEW b \in Blocks
        PROVE  /\ Owns(q, b)' => b \in manager'.inflight
               /\ state'[q].pending_requests[b] <= 1
    BY <2>1, <2>2, <2>3, <2>4
  <2>6. ASSUME NEW q \in Peers, NEW r \in Peers, NEW b \in Blocks,
               Owns(q, b)', Owns(r, b)'
        PROVE  q = r
    BY <2>1, <2>3, <2>4, <2>6
  <2>7. OneOwner'
    BY <2>5, <2>6 DEF OneOwner
  <2>8. pc'[p] \in Holding => state'[p].pending_requests[local'[p].req] = 0
    <3>1. PICK i \in Pieces : <<i, 0>> \in Blocks
      <4>1. 0 \in Pieces
        BY GeometryAssumption DEF Pieces
      <4>2. QED
        BY <4>1, PieceHasABlock DEF BlocksOf
    <3>2. QED
      BY <1>1, <3>1, OwnershipSteps
  <2>9. HandNotPending'
    BY <2>2, <2>8 DEF HandNotPending
  <2>10. QED
    BY <2>7, <2>9
<1>2. CASE MainThread \/ UNCHANGED vars
  <2>1. manager'.inflight = manager.inflight /\ UNCHANGED <<pc, state, local>>
    BY <1>2 DEF MainThread, WaitUntilDone, SpuriousWakeup, vars, PeerInv,
         PeerTypeOK, TypeOK, Managers
  <2>2. QED
    BY <2>1 DEF OneOwner, HandNotPending, Owns
<1>3. QED
  BY <1>1, <1>2 DEF PeerNext, Step

(* If remotes send only blocks they were asked for, of whatever length and *)
(* content, each block is asked of one remote at a time, once, and stays   *)
(* reserved until that remote answers or its thread gives it back.         *)
THEOREM OneOwnerAlways ==
    ASSUME ~ Unsolicited
    PROVE  PeerSpec => []OneOwner
<1>1. PeerInit => OneOwner /\ HandNotPending
  BY DEF PeerInit, FreshState, OneOwner, Owns, HandNotPending, Holding
<1>2. PeerInv /\ OneOwner /\ HandNotPending /\ [PeerNext]_vars
          => (OneOwner /\ HandNotPending)'
  BY OneOwnerSteps
<1>3. QED
  BY <1>1, <1>2, PeerInvariant, PTL DEF PeerSpec

=============================================================================
