------------------------- MODULE AnnouncementProofs -------------------------
(***************************************************************************)
(* Proofs about what the threads of PeerLoop tell the remotes, and give    *)
(* them: the Haves a completed piece leaves behind are neither lost nor    *)
(* untrue, a thread that reads each status once leaves the loop only when  *)
(* the file is there, and a seeder has served what it can before it reads  *)
(* again.                                                                  *)
(***************************************************************************)
EXTENDS PeerLoopProofs

-----------------------------------------------------------------------------
(* What the methods do to the queued Haves.                                *)

(* A call that queues nothing and marks nothing done.                      *)
NoMail(c, r) ==
    /\ r.send_haves = c.send_haves
    /\ r.registered = c.registered
    /\ Done(r) \subseteq Done(c)

(* Piece i is done, and queued for every registered connection.            *)
Mails(c, r, i) ==
    /\ \A q \in c.registered : r.send_haves[q] = c.send_haves[q] \cup {i}
    /\ \A q \in Peers \ c.registered : r.send_haves[q] = c.send_haves[q]
    /\ r.registered = c.registered
    /\ Done(r) = Done(c) \cup {i}
    /\ ~ DiskMayFail => r.disk[i] = "good"

(* The queue of p is emptied.                                              *)
Empties(c, r, p) ==
    /\ r.send_haves = [c.send_haves EXCEPT ![p] = {}]
    /\ Done(r) = Done(c)

LEMMA ReserveNoMail ==
    ASSUME NEW c \in Managers, NEW b \in Blocks
    PROVE  NoMail(c, reserve(c, b))
<1>1. c.piece_status \in [Pieces -> Statuses]
  BY DEF Managers
<1>2. reserve(c, b).piece_status = [c.piece_status EXCEPT ![b[1]] = 2]
  BY DEF reserve, Managers
<1>3. Done(reserve(c, b)) \subseteq Done(c)
  BY <1>1, <1>2 DEF Done
<1>4. QED
  BY <1>3 DEF reserve, Managers, NoMail

LEMMA ResetNoMail ==
    ASSUME TypeOK, NEW i \in Pieces, ResetStatus(i)
    PROVE  NoMail(manager, manager')
<1>1. manager.piece_status \in [Pieces -> Statuses]
  BY DEF TypeOK, Managers
<1>2. manager'.piece_status = [manager.piece_status EXCEPT ![i] = 0]
  BY DEF ResetStatus, TypeOK, Managers
<1>3. Done(manager') \subseteq Done(manager)
  BY <1>1, <1>2 DEF Done
<1>4. QED
  BY <1>3 DEF ResetStatus, TypeOK, Managers, NoMail

LEMMA ReleaseNoMail ==
    ASSUME NEW c \in Managers, NEW b
    PROVE  NoMail(c, release_in_flight(c, b))
BY DEF release_in_flight, Managers, NoMail, Done

LEMMA CallsEmpty ==
    ASSUME NEW c \in Managers, NEW p \in Peers
    PROVE  /\ Empties(c, register_peer(c, p), p)
           /\ register_peer(c, p).registered = c.registered \cup {p}
           /\ Empties(c, unregister_peer(c, p), p)
           /\ unregister_peer(c, p).registered = c.registered \ {p}
           /\ Empties(c, drain_haves(c, p), p)
           /\ drain_haves(c, p).registered = c.registered
BY DEF register_peer, unregister_peer, drain_haves, Managers, Empties, Done

(* A block that arrives completes its piece, or queues nothing.            *)
LEMMA ReceivedMails ==
    ASSUME NEW c \in Managers, NEW b \in Blocks, NEW d \in Data,
           NEW r \in received_block(c, b, d)
    PROVE  NoMail(c, r) \/ Mails(c, r, b[1])
<1>a. b[1] \in Pieces
  BY BlockOfPiece
<1>1. CASE Mode = "SEEDER" \/ d = "short"
  BY <1>1 DEF received_block, NoMail
<1>2. CASE ~ (Mode = "SEEDER" \/ d = "short")
  <2> DEFINE s == store(c, b, d)
             i == b[1]
  <2>1. d \in {"good", "bad"}
    BY <1>2, ControllerAssumption
  <2>2. /\ s \in Managers
        /\ s.send_haves = c.send_haves /\ s.registered = c.registered
        /\ s.piece_status = c.piece_status
    BY <2>1, StoreType DEF store, Managers
  <2>3. \/ r = s
        \/ r = reject(s, i)
        \/ \E f \in write_to_disk(s, i) : HashMatches(s, i) /\ r = complete(s, i, f)
    BY <1>2 DEF received_block
  <2>4. Done(s) = Done(c)
    BY <2>2 DEF Done
  <2> HIDE DEF s, i
  <2>5. CASE r = s
    BY <2>2, <2>4, <2>5 DEF NoMail
  <2>6. CASE r = reject(s, i)
    <3>1. r.send_haves = s.send_haves /\ r.registered = s.registered
      BY <2>2, <2>6 DEF reject, Managers
    <3>2. Done(r) = Done(s) \ {i}
      BY <1>a, <2>2, <2>6, RejectRest DEF i
    <3>3. QED
      BY <2>2, <2>4, <3>1, <3>2 DEF NoMail
  <2>7. ASSUME NEW f \in write_to_disk(s, i), HashMatches(s, i), r = complete(s, i, f)
        PROVE  Mails(c, r, i)
    <3>1. r.disk = f /\ Done(r) = Done(s) \cup {i}
      BY <1>a, <2>2, <2>7, CompleteRest DEF i
    <3>2. /\ r.registered = s.registered
          /\ r.send_haves = [p \in Peers |-> IF p \in s.registered
                                  THEN s.send_haves[p] \cup {i} ELSE s.send_haves[p]]
      BY <2>2, <2>7 DEF complete, Managers
    <3>3. ASSUME ~ DiskMayFail
          PROVE  f[i] = "good"
      BY <1>a, <2>2, <2>7, <3>3, WriteKeepsGood DEF i
    <3>4. s.registered \subseteq Peers
      BY <2>2 DEF Managers
    <3>5. QED
      BY <2>2, <2>4, <3>1, <3>2, <3>3, <3>4 DEF Mails
  <2>8. QED
    BY <2>3, <2>5, <2>6, <2>7 DEF i
<1>3. QED
  BY <1>1, <1>2

-----------------------------------------------------------------------------
(* The steps of a thread, by what they do to the Haves of its remote.      *)

(* Nothing: none is queued, drained or sent, and the thread stays where it *)
(* is or moves inside the loop or on from it.                              *)
Keeps(p) ==
    /\ told' = told
    /\ local'[p].haves = local[p].haves
    /\ broken' = broken \/ broken' = broken \cup {p}
    /\ pc'[p] \notin {"start", "gone"}
    /\ p \in InLoop' => p \in InLoop
    /\ pc[p] \notin {"start", "gone"}
    /\ pc[p] = "flush" => pc'[p] = "flush" \/ local[p].haves = {}

Silent(p) == Keeps(p) /\ NoMail(manager, manager')

(* The thread receives the last block of piece i.                          *)
Completes(p, i) == Keeps(p) /\ Mails(manager, manager', i)

(* The connection is registered.                                           *)
Registers(p) ==
    /\ pc[p] = "start" /\ pc'[p] = "handshake"
    /\ told' = told /\ broken' = broken /\ local' = local
    /\ Empties(manager, manager', p)
    /\ manager'.registered = manager.registered \cup {p}

(* The remote is sent our Bitfield, or the send fails.                     *)
Greets(p) ==
    /\ pc[p] = "greet" /\ pc'[p] = "top"
    /\ manager' = manager /\ local' = local
    /\ \/ told' = [told EXCEPT ![p] = Done(manager)] /\ broken' = broken
       \/ told' = told /\ broken' = broken \cup {p}

(* The queued Haves are drained.                                           *)
Drains(p) ==
    /\ pc[p] = "drain" /\ pc'[p] = "flush"
    /\ told' = told /\ broken' = broken
    /\ local'[p].haves = manager.send_haves[p]
    /\ Empties(manager, manager', p)
    /\ manager'.registered = manager.registered

(* A Have is sent; or the send fails, and all that are left are dropped.   *)
SendsHave(p, i) ==
    /\ pc[p] = "flush" /\ pc'[p] = "flush"
    /\ manager' = manager
    /\ i \in local[p].haves
    /\ \/ /\ told' = [told EXCEPT ![p] = @ \cup {i}] /\ broken' = broken
          /\ local'[p].haves = local[p].haves \ {i}
       \/ /\ told' = told /\ broken' = broken \cup {p}
          /\ local'[p].haves = {}

(* The connection ends.                                                    *)
Ends(p) ==
    /\ pc[p] = "cleanup" /\ pc'[p] = "gone"
    /\ told' = [told EXCEPT ![p] = {}] /\ broken' = broken \ {p}
    /\ local'[p].haves = {}
    /\ Empties(manager, manager', p)
    /\ manager'.registered = manager.registered \ {p}

LEMMA HavesKinds ==
    ASSUME PeerInv, NEW p \in Peers, Step(p)
    PROVE  \/ Silent(p)
           \/ \E i \in Pieces : Completes(p, i) \/ SendsHave(p, i)
           \/ Registers(p) \/ Greets(p) \/ Drains(p) \/ Ends(p)
<1> USE DEF Goto, At, Reads, InLoop, SendWorks, SendFails
<1>a. /\ manager \in Managers /\ pc \in [Peers -> Labels]
      /\ state \in [Peers -> PeerState] /\ local \in [Peers -> Locals]
      /\ told \in [Peers -> SUBSET Pieces]
  BY DEF PeerInv, PeerTypeOK, TypeOK
<1>b. local[p] \in Locals /\ local[p].haves \subseteq Pieces
  BY <1>a DEF Locals
<1>c. pc[p] \in HasBlock => local[p].req \in Blocks
  BY DEF PeerInv, InHand
<1>d. ASSUME manager' = manager
      PROVE  NoMail(manager, manager')
  BY <1>d DEF NoMail
<1>1. CASE \/ Handshake(p) \/ ReadFails(p) \/ FlushEnds(p) \/ ServeEnds(p)
           \/ ChokeEnds(p) \/ AskEnds(p) \/ AllDoneReads(p) \/ AllDoneReadsAgain(p)
  <2>1. manager' = manager /\ told' = told /\ broken' = broken
    BY <1>1 DEF Handshake, ReadFails, FlushEnds, ServeEnds, ChokeEnds, AskEnds, AllDoneReads,
         AllDoneReadsAgain
  <2>2. local'[p].haves = local[p].haves
    BY <1>1, <1>a, <1>b DEF Handshake, ReadFails, FlushEnds, ServeEnds, ChokeEnds, AskEnds,
         AllDoneReads, AllDoneReadsAgain, Unfinished, Passes, Locals
  <2>3. /\ pc[p] \notin {"start", "gone"} /\ pc'[p] \notin {"start", "gone"}
        /\ p \in InLoop' => p \in InLoop
        /\ pc[p] = "flush" => pc'[p] = "flush" \/ local[p].haves = {}
    BY <1>1, <1>a DEF Handshake, ReadFails, FlushEnds, ServeEnds, ChokeEnds, AskEnds,
         AllDoneReads, AllDoneReadsAgain, Unfinished, Passes
  <2>4. QED
    BY <1>d, <2>1, <2>2, <2>3 DEF Silent, Keeps
<1>2. CASE \/ RecvKeepAlive(p) \/ RecvChoke(p) \/ RecvUnchoke(p)
           \/ RecvInterested(p) \/ RecvNotInterested(p)
           \/ \E b \in Blocks : RecvRequest(p, b) \/ RecvCancel(p, b)
  <2>1. manager' = manager /\ told' = told /\ broken' = broken
    BY <1>2 DEF RecvKeepAlive, RecvChoke, RecvUnchoke, RecvInterested, RecvNotInterested,
         RecvRequest, RecvCancel
  <2>2. local'[p].haves = local[p].haves
    BY <1>2, <1>a, <1>b DEF RecvKeepAlive, RecvChoke, RecvUnchoke, RecvInterested,
         RecvNotInterested, RecvRequest, RecvCancel, Locals
  <2>3. pc[p] = "read" /\ pc'[p] \in {"top", "choked", "ask", "serve_msg"}
    BY <1>2, <1>a DEF RecvKeepAlive, RecvChoke, RecvUnchoke, RecvInterested,
         RecvNotInterested, RecvRequest, RecvCancel
  <2>4. QED
    BY <1>d, <2>1, <2>2, <2>3 DEF Silent, Keeps
<1>3. CASE Serve(p)
  <2>1. local'[p].haves = local[p].haves
    BY <1>3, <1>a, <1>b DEF Serve, Locals
  <2>2. QED
    BY <1>3, <1>d, <2>1 DEF Serve, Silent, Keeps
<1>4. CASE SendRequest(p) \/ ReleaseProbe(p) \/ ResetProbed(p) \/ SendRequestFails(p)
  <2>1. told' = told /\ (broken' = broken \/ broken' = broken \cup {p})
    BY <1>4 DEF SendRequest, ReleaseProbe, ResetProbed, SendRequestFails
  <2>2. local'[p].haves = local[p].haves
    BY <1>4, <1>a, <1>b DEF SendRequest, ReleaseProbe, ResetProbed, SendRequestFails, Locals
  <2>3. pc[p] \in HasBlock /\ pc'[p] \in {"ask", "top", "reset"}
    BY <1>4, <1>a DEF SendRequest, ReleaseProbe, ResetProbed, SendRequestFails, HasBlock
  <2>4. NoMail(manager, manager')
    <3>1. local[p].req \in Blocks /\ local[p].req[1] \in Pieces
      BY <1>c, <2>3, BlockOfPiece
    <3>2. QED
      BY <1>4, <1>a, <1>d, <3>1, ReleaseNoMail, ResetNoMail DEF SendRequest, ReleaseProbe,
         ResetProbed, SendRequestFails, ReleaseInFlight, TypeOK
  <2>5. QED
    BY <2>1, <2>2, <2>3, <2>4 DEF Silent, Keeps, HasBlock
<1>5. ASSUME NEW b \in Blocks, ReleasePending(p, b)
      PROVE  Silent(p)
  BY <1>5, <1>a, ReleaseNoMail DEF ReleasePending, ReleaseInFlight, Silent, Keeps
<1>6. ASSUME NEW b \in Blocks, NEW have, NextRequest(have, b)
      PROVE  NoMail(manager, manager')
  BY <1>6, <1>a, ReserveNoMail DEF NextRequest
<1>7. CASE Ask(p)
  <2>1. local'[p].haves = local[p].haves
    BY <1>7, <1>a, <1>b DEF Ask, Locals
  <2>2. QED
    BY <1>7, <1>a, <1>6, <2>1 DEF Ask, Silent, Keeps
<1>8. CASE \/ \E i \in Pieces : RecvHave(p, i)
           \/ \E have \in SUBSET Pieces : RecvBitfield(p, have)
  <2>1. told' = told /\ broken' = broken
    BY <1>8 DEF RecvHave, RecvBitfield
  <2>2. local'[p].haves = local[p].haves
    <3>1. local' = local \/ \E b \in Blocks : local' = [local EXCEPT ![p].req = b]
      BY <1>8 DEF RecvHave, RecvBitfield, Probe
    <3>2. QED
      BY <1>a, <1>b, <3>1 DEF Locals
  <2>3. pc[p] = "read" /\ pc'[p] \in {"top", "probe_have", "probe_bitfield"}
    BY <1>8, <1>a DEF RecvHave, RecvBitfield, Probe
  <2>4. NoMail(manager, manager')
    BY <1>8, <1>d, <1>6 DEF RecvHave, RecvBitfield, Probe
  <2>5. QED
    BY <2>1, <2>2, <2>3, <2>4 DEF Silent, Keeps
<1>9. ASSUME NEW b \in Blocks, NEW d \in Data, RecvPiece(p, b, d)
      PROVE  Silent(p) \/ \E i \in Pieces : Completes(p, i)
  <2>1. Keeps(p)
    BY <1>9, <1>a DEF RecvPiece, Keeps
  <2>2. NoMail(manager, manager') \/ Mails(manager, manager', b[1])
    BY <1>9, <1>a, <1>d, ReceivedMails DEF RecvPiece, ReceivedBlock
  <2>3. QED
    BY <2>1, <2>2, BlockOfPiece DEF Silent, Completes
<1>10. CASE Start(p)
  BY <1>10, <1>a, CallsEmpty DEF Start, RegisterPeer, Registers
<1>11. CASE Greet(p)
  BY <1>11, <1>a DEF Greet, get_bitfield, Greets
<1>12. CASE Drain(p)
  <2>1. local'[p].haves = manager.send_haves[p]
    BY <1>12, <1>a, <1>b DEF Drain, Locals
  <2>2. QED
    BY <1>12, <1>a, <2>1, CallsEmpty DEF Drain, DrainHaves, Drains
<1>13. CASE SendHave(p)
  <2>1. PICK i \in local[p].haves :
          \/ /\ SendWorks(p)
             /\ local' = [local EXCEPT ![p].haves = @ \ {i}]
             /\ told' = [told EXCEPT ![p] = @ \cup {i}]
          \/ /\ SendFails(p)
             /\ local' = [local EXCEPT ![p].haves = {}]
             /\ UNCHANGED told
    BY <1>13 DEF SendHave
  <2>2. SendsHave(p, i)
    BY <1>13, <1>a, <1>b, <2>1 DEF SendHave, SendsHave, Locals
  <2>3. QED
    BY <1>b, <2>2
<1>14. CASE CleanupEnds(p)
  <2>1. local'[p].haves = {}
    BY <1>14, <1>a DEF CleanupEnds, FreshLocals
  <2>2. QED
    BY <1>14, <1>a, <2>1, CallsEmpty DEF CleanupEnds, UnregisterPeer, Ends
<1>15. QED
  BY <1>1, <1>2, <1>3, <1>4, <1>5, <1>7, <1>8, <1>9, <1>10, <1>11, <1>12, <1>13, <1>14
     DEF Step, ThreadStep, Recv

(* What a step of p is to the thread q of another connection.              *)
LEMMA OthersUntold ==
    ASSUME PeerInv, NEW p \in Peers, Step(p), NEW q \in Peers, q # p
    PROVE  /\ pc'[q] = pc[q] /\ local'[q] = local[q] /\ told'[q] = told[q]
           /\ q \in broken' <=> q \in broken
<1>1. pc'[q] = pc[q] /\ local'[q] = local[q]
  BY OthersUntouched DEF PeerInv, PeerTypeOK, ThreadTypeOK, Step
<1>2. told \in [Peers -> SUBSET Pieces]
  BY DEF PeerInv, PeerTypeOK
<1>3. told'[q] = told[q] /\ (q \in broken' <=> q \in broken)
  BY <1>2, HavesKinds DEF Silent, Completes, SendsHave, Registers, Greets, Drains, Ends, Keeps
<1>4. QED
  BY <1>1, <1>3

-----------------------------------------------------------------------------
(* Every completed piece is announced.  A thread in the loop is registered *)
(* until it unregisters itself, so complete queues a Have for it; and what *)
(* it has drained is empty before it drains again.                         *)
AnnounceInv ==
    \A p \in Peers :
        /\ pc[p] \notin {"start", "gone"} => p \in manager.registered
        /\ pc[p] # "flush" => local[p].haves = {}
        /\ p \in InLoop \ broken =>
              Done(manager) \subseteq told[p] \cup manager.send_haves[p] \cup local[p].haves

LEMMA AnnounceSteps ==
    ASSUME PeerInv, AnnounceInv, NEW p \in Peers, Step(p)
    PROVE  AnnounceInv'
<1>a. /\ manager \in Managers /\ pc \in [Peers -> Labels]
      /\ told \in [Peers -> SUBSET Pieces]
      /\ manager.send_haves \in [Peers -> SUBSET Pieces]
      /\ manager.registered \subseteq Peers
  BY DEF PeerInv, PeerTypeOK, TypeOK, Managers
<1>b. ASSUME NEW q \in Peers
      PROVE  /\ pc[q] \notin {"start", "gone"} => q \in manager.registered
             /\ pc[q] # "flush" => local[q].haves = {}
             /\ q \in InLoop \ broken =>
                   Done(manager) \subseteq told[q] \cup manager.send_haves[q] \cup local[q].haves
  BY DEF AnnounceInv
<1> SUFFICES ASSUME NEW q \in Peers
             PROVE  /\ pc'[q] \notin {"start", "gone"} => q \in manager'.registered
                    /\ pc'[q] # "flush" => local'[q].haves = {}
                    /\ q \in InLoop' \ broken' =>
                          Done(manager') \subseteq
                              told'[q] \cup manager'.send_haves[q] \cup local'[q].haves
  BY DEF AnnounceInv, InLoop
<1>1. CASE q # p
  <2>1. /\ pc'[q] = pc[q] /\ local'[q] = local[q] /\ told'[q] = told[q]
        /\ q \in broken' <=> q \in broken
    BY <1>1, OthersUntold
  <2>2. q \in manager.registered => q \in manager'.registered
    BY <1>1, HavesKinds DEF Silent, NoMail, Completes, Mails, SendsHave, Registers,
         Greets, Drains, Ends
  <2>3. \/ /\ manager'.send_haves[q] = manager.send_haves[q]
           /\ Done(manager') \subseteq Done(manager)
        \/ \E i \in Pieces : Mails(manager, manager', i)
    <3>1. CASE \/ Silent(p) \/ Greets(p) \/ \E i \in Pieces : SendsHave(p, i)
      BY <3>1 DEF Silent, NoMail, Greets, SendsHave
    <3>2. CASE Registers(p) \/ Drains(p) \/ Ends(p)
      <4>1. Empties(manager, manager', p)
        BY <3>2 DEF Registers, Drains, Ends
      <4>2. QED
        BY <1>1, <1>a, <4>1 DEF Empties
    <3>3. CASE \E i \in Pieces : Completes(p, i)
      BY <3>3 DEF Completes
    <3>4. QED
      BY <3>1, <3>2, <3>3, HavesKinds
  <2>4. QED
    BY <1>b, <2>1, <2>2, <2>3 DEF Mails, InLoop
<1>2. CASE q = p
  <2>1. CASE Silent(p)
    BY <1>b, <1>2, <2>1 DEF Silent, NoMail, Keeps
  <2>2. ASSUME NEW i \in Pieces, Completes(p, i)
        PROVE  /\ pc'[p] \notin {"start", "gone"} => p \in manager'.registered
               /\ pc'[p] # "flush" => local'[p].haves = {}
               /\ p \in InLoop' \ broken' =>
                     Done(manager') \subseteq
                         told'[p] \cup manager'.send_haves[p] \cup local'[p].haves
    <3>1. p \in manager.registered
      BY <1>b, <2>2 DEF Completes, Keeps
    <3>2. QED
      BY <1>b, <2>2, <3>1 DEF Completes, Mails, Keeps
  <2>3. ASSUME NEW i \in Pieces, SendsHave(p, i)
        PROVE  /\ pc'[p] \notin {"start", "gone"} => p \in manager'.registered
               /\ pc'[p] # "flush" => local'[p].haves = {}
               /\ p \in InLoop' \ broken' =>
                     Done(manager') \subseteq
                         told'[p] \cup manager'.send_haves[p] \cup local'[p].haves
    BY <1>a, <1>b, <2>3 DEF SendsHave, InLoop
  <2>4. CASE Registers(p)
    BY <1>b, <1>2, <2>4 DEF Registers, InLoop
  <2>5. CASE Greets(p)
    BY <1>a, <1>b, <1>2, <2>5 DEF Greets, InLoop
  <2>6. CASE Drains(p)
    <3>1. Done(manager') = Done(manager) /\ local[p].haves = {} /\ p \in InLoop
      BY <1>b, <2>6 DEF Drains, Empties, InLoop
    <3>2. QED
      BY <1>b, <1>2, <2>6, <3>1 DEF Drains
  <2>7. CASE Ends(p)
    BY <1>2, <2>7 DEF Ends, InLoop
  <2>8. QED
    BY <1>2, <2>1, <2>2, <2>3, <2>4, <2>5, <2>6, <2>7, HavesKinds
<1>3. QED
  BY <1>1, <1>2

(* What the main thread does is nothing to the Haves.                      *)
LEMMA MainThreadElsewhere ==
    ASSUME PeerInv, MainThread \/ UNCHANGED vars
    PROVE  /\ UNCHANGED <<pc, state, local, told, broken>>
           /\ NoMail(manager, manager')
           /\ manager'.piece_status = manager.piece_status
           /\ manager'.disk = manager.disk
BY DEF MainThread, WaitUntilDone, SpuriousWakeup, vars, PeerInv, PeerTypeOK, TypeOK,
       Managers, NoMail, Done

LEMMA AnnounceInvariant == PeerSpec => []AnnounceInv
<1>1. PeerInit => AnnounceInv
  BY DEF PeerInit, AnnounceInv, InLoop, FreshLocals
<1>2. PeerInv /\ AnnounceInv /\ [PeerNext]_vars => AnnounceInv'
  <2> SUFFICES ASSUME PeerInv, AnnounceInv, [PeerNext]_vars
               PROVE  AnnounceInv'
    OBVIOUS
  <2>1. CASE MainThread \/ UNCHANGED vars
    BY <2>1, MainThreadElsewhere DEF AnnounceInv, NoMail, InLoop
  <2>2. QED
    BY <2>1, AnnounceSteps DEF PeerNext, Step
<1>3. QED
  BY <1>1, <1>2, PeerInvariant, PTL DEF PeerSpec

(* No completed piece is forgotten, whatever the remotes send about pieces *)
(* that exist, whichever sends fail, and even where a status is reset and  *)
(* the piece downloaded again: while its connection works, each piece that *)
(* is done is one the remote was told of, or will be when its thread comes *)
(* by.                                                                     *)
THEOREM NothingForgotten == PeerSpec => []NothingUnannounced
<1>1. AnnounceInv => NothingUnannounced
  BY DEF AnnounceInv, NothingUnannounced, InLoop
<1>2. QED
  BY <1>1, AnnounceInvariant, PTL

-----------------------------------------------------------------------------
(* What the remotes are told is true.  A Have is true from the moment it   *)
(* is queued, whatever becomes of the piece's status before it is sent.    *)
Announced(p) == told[p] \cup manager.send_haves[p] \cup local[p].haves

QueuedTruth == \A p \in Peers : \A i \in Announced(p) : manager.disk[i] = "good"

TruthInv == DoneOnDisk /\ QueuedTruth

(* A piece is announced to q only once it is done or has just become so.   *)
LEMMA AnnouncedGrows ==
    ASSUME PeerInv, NEW p \in Peers, Step(p), NEW q \in Peers
    PROVE  \/ Announced(q)' \subseteq Announced(q) \cup Done(manager)
           \/ \E i \in Pieces : /\ Announced(q)' \subseteq Announced(q) \cup {i}
                                /\ ~ DiskMayFail => manager'.disk[i] = "good"
<1>a. /\ told \in [Peers -> SUBSET Pieces]
      /\ manager.send_haves \in [Peers -> SUBSET Pieces]
      /\ manager.registered \subseteq Peers
  BY DEF PeerInv, PeerTypeOK, TypeOK, Managers
<1>1. CASE q # p
  <2>1. local'[q] = local[q] /\ told'[q] = told[q]
    BY <1>1, OthersUntold
  <2>2. \/ manager'.send_haves[q] = manager.send_haves[q]
        \/ \E i \in Pieces : Mails(manager, manager', i)
    <3>1. CASE \/ Silent(p) \/ Greets(p) \/ \E i \in Pieces : SendsHave(p, i)
      BY <3>1 DEF Silent, NoMail, Greets, SendsHave
    <3>2. CASE Registers(p) \/ Drains(p) \/ Ends(p)
      <4>1. Empties(manager, manager', p)
        BY <3>2 DEF Registers, Drains, Ends
      <4>2. QED
        BY <1>1, <1>a, <4>1 DEF Empties
    <3>3. CASE \E i \in Pieces : Completes(p, i)
      BY <3>3 DEF Completes
    <3>4. QED
      BY <3>1, <3>2, <3>3, HavesKinds
  <2>3. QED
    BY <2>1, <2>2 DEF Mails, Announced
<1>2. CASE q = p
  <2>1. CASE Silent(p)
    BY <1>2, <2>1 DEF Silent, NoMail, Keeps, Announced
  <2>2. ASSUME NEW i \in Pieces, Completes(p, i)
        PROVE  /\ Announced(p)' \subseteq Announced(p) \cup {i}
               /\ ~ DiskMayFail => manager'.disk[i] = "good"
    BY <2>2 DEF Completes, Mails, Keeps, Announced
  <2>3. ASSUME NEW i \in Pieces, SendsHave(p, i)
        PROVE  Announced(p)' \subseteq Announced(p)
    BY <1>a, <2>3 DEF SendsHave, Announced
  <2>4. CASE Registers(p) \/ Greets(p) \/ Drains(p) \/ Ends(p)
    BY <1>a, <1>2, <2>4 DEF Registers, Greets, Drains, Ends, Empties, Announced
  <2>5. QED
    BY <1>2, <2>1, <2>2, <2>3, <2>4, HavesKinds
<1>3. QED
  BY <1>1, <1>2

LEMMA TruthInvariant ==
    ASSUME Mode = "LEECHER", ~ DiskMayFail
    PROVE  PeerSpec => []TruthInv
<1>1. PeerInit => TruthInv
  BY DEF PeerInit, Init, Constructed, TruthInv, DoneOnDisk, Done, QueuedTruth, Announced,
         FreshLocals
<1>2. PeerInv /\ TruthInv /\ [PeerNext]_vars => TruthInv'
  <2> SUFFICES ASSUME PeerInv, TruthInv, [PeerNext]_vars
               PROVE  TruthInv'
    OBVIOUS
  <2>1. TypeOK /\ [Next]_manager
    BY CallsAreSteps DEF PeerInv, PeerTypeOK
  <2>2. DoneOnDisk'
    BY <2>1, StepKeepsDoneOnDisk DEF TruthInv
  <2>3. \A i \in Pieces : manager.disk[i] = "good" => manager'.disk[i] = "good"
    BY <2>1, StepKeepsGood
  <2>4. ASSUME NEW q \in Peers, NEW i \in Announced(q)
        PROVE  i \in Pieces /\ manager.disk[i] = "good"
    BY <2>4 DEF TruthInv, QueuedTruth, Announced, PeerInv, PeerTypeOK, TypeOK, Managers, Locals
  <2>5. ASSUME NEW i \in Done(manager)
        PROVE  i \in Pieces /\ manager.disk[i] = "good"
    BY <2>5 DEF TruthInv, DoneOnDisk, Done
  <2>6. ASSUME NEW p \in Peers, Step(p), NEW q \in Peers, NEW i \in Announced(q)'
        PROVE  manager'.disk[i] = "good"
    BY <2>3, <2>4, <2>5, <2>6, AnnouncedGrows
  <2>7. CASE MainThread \/ UNCHANGED vars
    <3>1. \A q \in Peers : Announced(q)' = Announced(q)
      BY <2>7, MainThreadElsewhere DEF Announced, NoMail
    <3>2. QED
      BY <2>2, <2>3, <2>4, <3>1 DEF TruthInv, QueuedTruth
  <2>8. QED
    BY <2>2, <2>6, <2>7 DEF PeerNext, Step, TruthInv, QueuedTruth
<1>3. QED
  BY <1>1, <1>2, PeerInvariant, PTL DEF PeerSpec

(* A leecher whose disk does not fail tells a remote only of pieces whose  *)
(* verified bytes are in the file, by its Bitfield or by a Have, although  *)
(* a Have may be sent long after the piece was completed.                  *)
THEOREM TellsTheTruth ==
    ASSUME Mode = "LEECHER", ~ DiskMayFail
    PROVE  PeerSpec => []ToldTruth
<1>1. TruthInv => ToldTruth
  BY DEF TruthInv, QueuedTruth, Announced, ToldTruth
<1>2. QED
  BY <1>1, TruthInvariant, PTL

-----------------------------------------------------------------------------
(* all_done reads one status after the other, without the lock.  What it   *)
(* has read need not hold any more, but if it reads each status once the   *)
(* bytes it stands for are there.                                          *)
ScanInv ==
    \A p \in Peers :
        /\ pc[p] # "again"
        /\ pc[p] # "top" => local[p].scan = 0
        /\ \A i \in Pieces : i < local[p].scan => manager.disk[i] = "good"

(* Nothing else moves the index, and all_done is all that is done at "top". *)
LEMMA OnlyAllDoneScans ==
    ASSUME PeerInv, NEW p \in Peers, Step(p), ~ AllDoneReads(p), pc[p] # "again"
    PROVE  /\ pc[p] # "top" /\ pc'[p] # "again"
           /\ local'[p].scan = local[p].scan \/ local'[p].scan = 0
<1> USE DEF Goto, At, Reads
<1>a. local \in [Peers -> Locals] /\ local[p] \in Locals /\ pc \in [Peers -> Labels]
  BY DEF PeerInv, PeerTypeOK
<1>1. \/ local' = local
      \/ \E x : local' = [local EXCEPT ![p].haves = x]
      \/ \E x : local' = [local EXCEPT ![p].visit = x]
      \/ \E x : local' = [local EXCEPT ![p].req = x]
      \/ local' = [local EXCEPT ![p] = FreshLocals]
  BY DEF Step, Start, Handshake, ReadFails, ThreadStep, AllDoneReadsAgain, Greet, Drain,
         SendHave, FlushEnds, Serve, ServeEnds, ReleasePending, ChokeEnds, ReleaseProbe,
         ResetProbed, Ask, AskEnds, SendRequest, SendRequestFails, CleanupEnds, Recv,
         RecvKeepAlive, RecvChoke, RecvUnchoke, RecvInterested, RecvNotInterested,
         RecvHave, RecvBitfield, RecvRequest, RecvPiece, RecvCancel, Probe
<1>2. local'[p].scan = local[p].scan \/ local'[p].scan = 0
  BY <1>1, <1>a DEF Locals, FreshLocals
<1>3. pc[p] # "top" /\ pc'[p] # "again"
  BY <1>a DEF Step, Start, Handshake, ReadFails, ThreadStep, AllDoneReadsAgain, Greet,
         Drain, SendHave, FlushEnds, Serve, ServeEnds, ReleasePending, ChokeEnds,
         ReleaseProbe, ResetProbed, Ask, AskEnds, SendRequest, SendRequestFails,
         CleanupEnds, Recv, RecvKeepAlive, RecvChoke, RecvUnchoke, RecvInterested,
         RecvNotInterested, RecvHave, RecvBitfield, RecvRequest, RecvPiece, RecvCancel,
         Probe
<1>4. QED
  BY <1>2, <1>3

(* One read of all_done: a status that is 1 stands for verified bytes, and *)
(* the loop is left when there is no further piece.                        *)
LEMMA ScanReads ==
    ASSUME ~ ReadsTwice, PeerInv, DoneOnDisk, ScanInv, NEW p \in Peers, AllDoneReads(p)
    PROVE  /\ pc'[p] # "again"
           /\ \A i \in Pieces : i < local'[p].scan => manager.disk[i] = "good"
           /\ pc'[p] # "top" => local'[p].scan = 0
           /\ pc'[p] = "cleanup" => \A i \in Pieces : manager.disk[i] = "good"
<1> USE DEF Goto, At
<1>a. /\ local \in [Peers -> Locals] /\ local[p] \in Locals /\ pc \in [Peers -> Labels]
      /\ local[p].scan \in Pieces /\ pc[p] = "top"
  BY DEF PeerInv, PeerTypeOK, Locals, AllDoneReads
<1>b. total_pieces \in Nat \ {0} /\ Pieces = 0 .. total_pieces - 1
  BY GeometryAssumption DEF Pieces
<1> DEFINE i == local[p].scan
           more == Mode = "LEECHER" /\ manager.piece_status[i] = 1
<1>c. \A j \in Pieces : j < i => manager.disk[j] = "good"
  BY DEF ScanInv
<1>d. more => manager.disk[i] = "good"
  BY <1>a DEF DoneOnDisk, Done
<1>e. /\ \A x : [local EXCEPT ![p].scan = x][p].scan = x
  BY <1>a DEF Locals
<1>f. \A j \in Pieces : ~ (j < 0)
  BY <1>b
<1>1. CASE ~ more /\ local' = [local EXCEPT ![p].scan = 0] /\ Goto(p, "drain")
  BY <1>1, <1>a, <1>e, <1>f
<1>2. CASE /\ more /\ i + 1 \in Pieces
           /\ local' = [local EXCEPT ![p].scan = i + 1] /\ Goto(p, "top")
  <2>1. local'[p].scan = i + 1 /\ pc'[p] = "top"
    BY <1>2, <1>a, <1>e
  <2>2. \A j \in Pieces : j < i + 1 => j < i \/ j = i
    BY <1>a, <1>b
  <2>3. QED
    BY <1>2, <1>c, <1>d, <2>1, <2>2
<1>3. CASE /\ more /\ i + 1 \notin Pieces
           /\ local' = [local EXCEPT ![p].scan = 0] /\ Goto(p, "cleanup")
  <2>1. \A j \in Pieces : j < i \/ j = i
    BY <1>3, <1>a, <1>b
  <2>2. QED
    BY <1>3, <1>a, <1>c, <1>d, <1>e, <1>f, <2>1
<1>4. QED
  <2>1. \/ ~ more /\ Unfinished(p)
        \/ more /\ Passes(p)
    BY DEF AllDoneReads, TypeOK, PeerInv, PeerTypeOK, Managers, Statuses
  <2>2. QED
    BY <1>1, <1>2, <1>3, <2>1 DEF Unfinished, Passes

LEMMA ScanSteps ==
    ASSUME ~ ReadsTwice, ~ DiskMayFail, PeerInv, DoneOnDisk, ScanInv, [PeerNext]_vars
    PROVE  /\ ScanInv'
           /\ \A p \in Peers : pc[p] \in {"top", "again"} /\ pc'[p] = "cleanup"
                  => \A i \in Pieces : manager.disk[i] = "good"
<1>1. \A i \in Pieces : manager.disk[i] = "good" => manager'.disk[i] = "good"
  BY CallsAreSteps, StepKeepsGood DEF PeerInv, PeerTypeOK
<1>a. \A i \in Pieces : i < 0 => FALSE
  BY GeometryAssumption DEF Pieces
<1>b. ASSUME NEW q \in Peers
      PROVE  /\ pc[q] # "again"
             /\ pc[q] # "top" => local[q].scan = 0
             /\ \A i \in Pieces : i < local[q].scan => manager.disk[i] = "good"
  BY DEF ScanInv
<1>2. ASSUME NEW p \in Peers, Step(p), NEW q \in Peers
      PROVE  /\ pc'[q] # "again"
             /\ pc'[q] # "top" => local'[q].scan = 0
             /\ \A i \in Pieces : i < local'[q].scan => manager'.disk[i] = "good"
             /\ pc[q] \in {"top", "again"} /\ pc'[q] = "cleanup"
                    => \A i \in Pieces : manager.disk[i] = "good"
  <2>1. CASE q # p
    <3>1. pc'[q] = pc[q] /\ local'[q] = local[q]
      BY <1>2, <2>1, OthersUntold
    <3>2. QED
      BY <1>1, <1>b, <3>1
  <2>2. CASE q = p /\ AllDoneReads(p)
    BY <1>1, <2>2, ScanReads
  <2>3. CASE q = p /\ ~ AllDoneReads(p)
    BY <1>1, <1>2, <1>a, <1>b, <2>3, OnlyAllDoneScans
  <2>4. QED
    BY <2>1, <2>2, <2>3
<1>3. CASE MainThread \/ UNCHANGED vars
  <2>1. UNCHANGED <<pc, local>> /\ manager'.disk = manager.disk
    BY <1>3, MainThreadElsewhere
  <2>2. QED
    BY <2>1 DEF ScanInv
<1>4. QED
  BY <1>2, <1>3 DEF PeerNext, Step, ScanInv

(* In a build that reads each status once, a leecher's thread leaves the   *)
(* loop because of all_done only when every piece is in the file, however  *)
(* the other threads reset and download pieces while it reads.  A build    *)
(* that reads a status twice has no such guarantee.                        *)
THEOREM LeavesOnlyComplete ==
    ASSUME ~ ReadsTwice, Mode = "LEECHER", ~ DiskMayFail
    PROVE  PeerSpec => ExitOnlyWhenComplete
<1>1. PeerInit => ScanInv
  <2>1. \A i \in Pieces : ~ (i < 0)
    BY GeometryAssumption DEF Pieces
  <2>2. QED
    BY <2>1 DEF PeerInit, ScanInv, FreshLocals
<1>2. PeerInv /\ TruthInv /\ ScanInv /\ [PeerNext]_vars => ScanInv'
  BY ScanSteps DEF TruthInv
<1>3. PeerInv /\ TruthInv /\ ScanInv /\ [PeerNext]_vars
          => [\A p \in Peers : pc[p] \in {"top", "again"} /\ pc'[p] = "cleanup"
                  => \A i \in Pieces : manager.disk[i] = "good"]_vars
  BY ScanSteps DEF TruthInv
<1>4. QED
  BY <1>1, <1>2, <1>3, PeerInvariant, TruthInvariant, PTL DEF PeerSpec, ExitOnlyWhenComplete

-----------------------------------------------------------------------------
(* A seeder serves what it can before it reads again.  A request left      *)
(* behind is for a block that is not in the file, unless it is still to be *)
(* visited in the serving pass under way.                                  *)
Excused(p, b) ==
    \/ manager.disk[b[1]] = "absent"
    \/ pc[p] \in {"serve_top", "serve_msg"} /\ b \in local[p].visit

ServeInv ==
    \A p \in Peers \ broken :
        pc[p] \notin {"cleanup", "gone"} /\ ~ state[p].am_choking
            => \A b \in state[p].incoming_requests : Excused(p, b)

(* A seeder's statuses are all 1 and stay so, and its file stays as it is. *)
AllMarked == \A i \in Pieces : manager.piece_status[i] = 1

LEMMA SeederManager ==
    ASSUME Mode = "SEEDER", PeerInv, AllMarked, [PeerNext]_vars
    PROVE  AllMarked' /\ manager'.disk = manager.disk
<1>1. TypeOK /\ [Next]_manager
  BY CallsAreSteps DEF PeerInv, PeerTypeOK
<1>2. CASE UNCHANGED manager
  BY <1>2 DEF AllMarked
<1>3. ASSUME NEW b \in Blocks, ReleaseInFlight(b)
      PROVE  AllMarked' /\ manager'.disk = manager.disk
  BY <1>1, <1>3 DEF ReleaseInFlight, release_in_flight, TypeOK, Managers, AllMarked
<1>4. ASSUME NEW p \in Peers, RegisterPeer(p) \/ UnregisterPeer(p) \/ DrainHaves(p)
      PROVE  AllMarked' /\ manager'.disk = manager.disk
  BY <1>1, <1>4 DEF RegisterPeer, register_peer, UnregisterPeer, unregister_peer,
       DrainHaves, drain_haves, TypeOK, Managers, AllMarked
<1>5. CASE WaitUntilDone \/ SpuriousWakeup
  BY <1>1, <1>5 DEF WaitUntilDone, SpuriousWakeup, TypeOK, Managers, AllMarked
<1>6. ASSUME NEW b \in Blocks, NEW d \in Data, ReceivedBlock(b, d)
      PROVE  UNCHANGED manager
  BY <1>6 DEF ReceivedBlock, received_block
<1>7. \A have, b : ~ NextRequest(have, b)
  BY DEF NextRequest, next_request
<1>8. QED
  BY <1>1, <1>2, <1>3, <1>4, <1>5, <1>6, <1>7 DEF Next

(* The part that p's own step may disturb.                                 *)
LEMMA ServeSteps ==
    ASSUME Mode = "SEEDER", PeerInv, AllMarked, ServeInv, NEW p \in Peers, Step(p),
           manager'.disk = manager.disk,
           p \notin broken', pc'[p] \notin {"cleanup", "gone"}, ~ state'[p].am_choking,
           NEW b \in state'[p].incoming_requests
    PROVE  Excused(p, b)'
<1> USE DEF Goto, At, Reads
<1>a. /\ pc \in [Peers -> Labels] /\ state \in [Peers -> PeerState]
      /\ local \in [Peers -> Locals]
      /\ state[p] \in PeerState /\ local[p] \in Locals
      /\ local[p].visit \subseteq Blocks
  BY DEF PeerInv, PeerTypeOK, PeerState, Locals
<1>b. ASSUME pc[p] \notin {"cleanup", "gone"}, p \notin broken, ~ state[p].am_choking,
             b \in state[p].incoming_requests
      PROVE  Excused(p, b)
  BY <1>b DEF ServeInv, Excused
<1>c. ASSUME NEW a \in Blocks, get_block(manager, a) = "none"
      PROVE  manager.disk[a[1]] = "absent"
  BY <1>c, BlockOfPiece DEF get_block, AllMarked
<1>1. CASE \/ Start(p) \/ Handshake(p) \/ AllDoneReads(p) \/ AllDoneReadsAgain(p)
           \/ Drain(p) \/ ChokeEnds(p) \/ AskEnds(p) \/ RecvKeepAlive(p)
  <2>1. /\ UNCHANGED <<state, broken>>
        /\ pc[p] \notin {"serve_top", "serve_msg", "cleanup", "gone"}
    BY <1>1 DEF Start, Handshake, AllDoneReads, AllDoneReadsAgain, Drain, ChokeEnds, AskEnds, RecvKeepAlive
  <2>2. QED
    BY <1>b, <2>1 DEF Excused
<1>2. CASE \/ ReadFails(p) \/ CleanupEnds(p) \/ SendRequestFails(p)
  BY <1>2, <1>a DEF ReadFails, CleanupEnds, SendRequestFails, SendFails
<1>3. CASE Greet(p) \/ RecvChoke(p) \/ RecvUnchoke(p)
           \/ \E c \in Blocks : RecvCancel(p, c)
  <2>1. /\ state'[p].am_choking = state[p].am_choking
        /\ state'[p].incoming_requests \subseteq state[p].incoming_requests
    <3>1. ASSUME NEW x, \/ state' = [state EXCEPT ![p].am_interested = x]
                        \/ state' = [state EXCEPT ![p].peer_choking = x]
          PROVE  /\ state'[p].am_choking = state[p].am_choking
                 /\ state'[p].incoming_requests = state[p].incoming_requests
      BY <1>a, <3>1 DEF PeerState
    <3>2. ASSUME NEW c, state' = [state EXCEPT ![p].incoming_requests = @ \ {c}]
          PROVE  /\ state'[p].am_choking = state[p].am_choking
                 /\ state'[p].incoming_requests = state[p].incoming_requests \ {c}
      BY <1>a, <3>2 DEF PeerState
    <3>3. CASE Greet(p) \/ RecvChoke(p) \/ RecvUnchoke(p)
      BY <3>1, <3>3 DEF Greet, RecvChoke, RecvUnchoke
    <3>4. QED
      BY <1>3, <3>2, <3>3 DEF RecvCancel
  <2>2. pc[p] \in {"greet", "read"} /\ p \notin broken
    BY <1>3 DEF Greet, RecvChoke, RecvUnchoke, RecvCancel, SendWorks, SendFails
  <2>3. QED
    BY <1>b, <2>1, <2>2 DEF Excused
<1>4. CASE SendHave(p) \/ FlushEnds(p)
  <2>1. UNCHANGED state /\ pc[p] = "flush" /\ p \notin broken
    BY <1>4 DEF SendHave, FlushEnds, SendWorks, SendFails
  <2>2. QED
    BY <1>b, <2>1 DEF Excused
<1>5. CASE Serve(p)
  <2>1. PICK c \in local[p].visit :
          \/ /\ get_block(manager, c) = "none"
             /\ local' = [local EXCEPT ![p].visit = @ \ {c}]
             /\ UNCHANGED <<state, broken>>
          \/ /\ get_block(manager, c) # "none"
             /\ SendWorks(p)
             /\ local' = [local EXCEPT ![p].visit = @ \ {c}]
             /\ state' = [state EXCEPT ![p].incoming_requests = @ \ {c}]
          \/ SendFails(p)
    BY <1>5 DEF Serve
  <2>2. pc' = pc /\ pc[p] \in {"serve_top", "serve_msg"}
    BY <1>5 DEF Serve
  <2>3. CASE /\ get_block(manager, c) = "none"
             /\ local' = [local EXCEPT ![p].visit = @ \ {c}]
             /\ UNCHANGED <<state, broken>>
    <3>1. local'[p].visit = local[p].visit \ {c}
      BY <1>a, <2>3 DEF Locals
    <3>2. manager.disk[c[1]] = "absent"
      BY <1>a, <1>c, <2>3
    <3>3. QED
      BY <1>b, <2>2, <2>3, <3>1, <3>2 DEF Excused
  <2>4. CASE /\ SendWorks(p)
             /\ local' = [local EXCEPT ![p].visit = @ \ {c}]
             /\ state' = [state EXCEPT ![p].incoming_requests = @ \ {c}]
    <3>1. local'[p].visit = local[p].visit \ {c}
      BY <1>a, <2>4 DEF Locals
    <3>2. /\ state'[p].am_choking = state[p].am_choking
          /\ state'[p].incoming_requests = state[p].incoming_requests \ {c}
      BY <1>a, <2>4 DEF PeerState
    <3>3. QED
      BY <1>b, <2>2, <2>4, <3>1, <3>2 DEF Excused, SendWorks
  <2>5. CASE SendFails(p)
    BY <2>5 DEF SendFails
  <2>6. QED
    BY <2>1, <2>3, <2>4, <2>5
<1>6. CASE ServeEnds(p)
  BY <1>b, <1>6 DEF ServeEnds, Excused
<1>7. CASE RecvInterested(p) \/ \E c \in Blocks : RecvRequest(p, c)
  <2>1. CASE UNCHANGED <<state, broken>> /\ pc[p] = "read"
    BY <1>b, <2>1 DEF Excused
  <2>2. CASE local' = [local EXCEPT ![p].visit = ToVisit(state'[p])] /\ pc'[p] = "serve_msg"
    <3>1. local'[p].visit = state'[p].incoming_requests
      BY <1>a, <2>2 DEF Locals, ToVisit
    <3>2. QED
      BY <2>2, <3>1 DEF Excused
  <2>3. QED
    BY <1>7, <1>a, <2>1, <2>2 DEF RecvInterested, RecvRequest
<1>8. CASE RecvNotInterested(p)
  BY <1>8, <1>a DEF RecvNotInterested, PeerState
<1>9. ASSUME state'[p].am_choking = state[p].am_choking,
             state'[p].incoming_requests = state[p].incoming_requests,
             broken' = broken, pc[p] \notin {"serve_top", "serve_msg", "cleanup", "gone"}
      PROVE  Excused(p, b)'
  BY <1>9, <1>b DEF Excused
<1>10. CASE \/ ReleaseProbe(p) \/ ResetProbed(p) \/ Ask(p) \/ SendRequest(p)
  <2>1. /\ state'[p].am_choking = state[p].am_choking
        /\ state'[p].incoming_requests = state[p].incoming_requests
    BY <1>10, <1>a DEF ReleaseProbe, ResetProbed, Ask, SendRequest, PeerState
  <2>2. broken' = broken /\ pc[p] \notin {"serve_top", "serve_msg", "cleanup", "gone"}
    BY <1>10 DEF ReleaseProbe, ResetProbed, Ask, SendRequest, SendWorks
  <2>3. QED
    BY <1>9, <2>1, <2>2
<1>11. ASSUME NEW c \in Blocks, ReleasePending(p, c)
       PROVE  Excused(p, b)'
  <2>1. /\ state'[p].am_choking = state[p].am_choking
        /\ state'[p].incoming_requests = state[p].incoming_requests
    BY <1>11, <1>a DEF ReleasePending, PeerState
  <2>2. QED
    BY <1>9, <1>11, <2>1 DEF ReleasePending
<1>12. CASE \/ \E i \in Pieces : RecvHave(p, i)
            \/ \E have \in SUBSET Pieces : RecvBitfield(p, have)
            \/ \E c \in Blocks, d \in Data : RecvPiece(p, c, d)
  <2>1. /\ state'[p].am_choking = state[p].am_choking
        /\ state'[p].incoming_requests = state[p].incoming_requests
    <3>1. ASSUME NEW x, state' = [state EXCEPT ![p].peer_bitfield = x]
          PROVE  /\ state'[p].am_choking = state[p].am_choking
                 /\ state'[p].incoming_requests = state[p].incoming_requests
      BY <1>a, <3>1 DEF PeerState
    <3>2. ASSUME NEW x, state' = [state EXCEPT ![p].peer_bitfield = x,
                                               ![p].am_interested = FALSE]
          PROVE  /\ state'[p].am_choking = state[p].am_choking
                 /\ state'[p].incoming_requests = state[p].incoming_requests
      BY <1>a, <3>2 DEF PeerState
    <3>3. ASSUME NEW x, state' = [state EXCEPT ![p].pending_requests = x]
          PROVE  /\ state'[p].am_choking = state[p].am_choking
                 /\ state'[p].incoming_requests = state[p].incoming_requests
      BY <1>a, <3>3 DEF PeerState
    <3>4. QED
      BY <1>12, <3>1, <3>2, <3>3 DEF RecvHave, RecvBitfield, RecvPiece
  <2>2. broken' = broken /\ pc[p] = "read"
    BY <1>12 DEF RecvHave, RecvBitfield, RecvPiece
  <2>3. QED
    BY <1>9, <2>1, <2>2
<1>13. QED
  BY <1>1, <1>2, <1>3, <1>4, <1>5, <1>6, <1>7, <1>8, <1>10, <1>11, <1>12
     DEF Step, ThreadStep, Recv

(* "Every request is served instantly" (peer.cpp:115), for a seeder: when  *)
(* the thread is back at the head of its loop, no request for a block it   *)
(* has is left, unless it chokes the remote or a send to it failed.        *)
THEOREM ServesInstantly ==
    ASSUME Mode = "SEEDER"
    PROVE  PeerSpec => []ServedInstantly
<1>1. PeerInit => AllMarked /\ ServeInv
  BY DEF PeerInit, Init, Constructed, AllMarked, ServeInv, FreshState
<1>2. PeerInv /\ AllMarked /\ ServeInv /\ [PeerNext]_vars => (AllMarked /\ ServeInv)'
  <2> SUFFICES ASSUME PeerInv, AllMarked, ServeInv, [PeerNext]_vars
               PROVE  AllMarked' /\ ServeInv'
    OBVIOUS
  <2>1. AllMarked' /\ manager'.disk = manager.disk
    BY SeederManager
  <2>2. ASSUME NEW q \in Peers \ broken', pc'[q] \notin {"cleanup", "gone"},
               ~ state'[q].am_choking, NEW b \in state'[q].incoming_requests
        PROVE  Excused(q, b)'
    <3>1. CASE MainThread \/ UNCHANGED vars
      BY <2>1, <2>2, <3>1, MainThreadElsewhere DEF ServeInv, Excused
    <3>2. ASSUME NEW p \in Peers, Step(p), q # p
          PROVE  Excused(q, b)'
      <4>1. /\ pc'[q] = pc[q] /\ state'[q] = state[q] /\ local'[q] = local[q]
            /\ q \in broken' <=> q \in broken
        BY <3>2, OthersUntold, OthersUntouched DEF PeerInv, PeerTypeOK, ThreadTypeOK, Step
      <4>2. QED
        BY <2>1, <2>2, <4>1 DEF ServeInv, Excused
    <3>3. CASE Step(q)
      BY <2>1, <2>2, <3>3, ServeSteps
    <3>4. QED
      BY <3>1, <3>2, <3>3 DEF PeerNext, Step
  <2>3. QED
    BY <2>1, <2>2 DEF ServeInv, Excused
<1>3. ServeInv => ServedInstantly
  BY DEF ServeInv, ServedInstantly, InLoop, Excused
<1>4. QED
  BY <1>1, <1>2, <1>3, PeerInvariant, PTL DEF PeerSpec

=============================================================================
