--------------------------- MODULE LifecycleProofs ---------------------------
(***************************************************************************)
(* Proofs about Lifecycle: what the main thread may rely on when           *)
(* run_leecher returns, and what the LPD listener remembers.               *)
(***************************************************************************)
EXTENDS Lifecycle, TLAPS

(* A starting thread has a connection in hand exactly while it is between  *)
(* making it and giving it a peer thread, and only of its own kind; before *)
(* they are started neither does anything.                                 *)
Hands ==
    /\ hand["main"] \in TrackerPeers \cup {Nobody}
    /\ hand["listener"] \in InboundPeers \cup {Nobody}
    /\ hand["lpd"] \in LanPeers \cup {Nobody}
    /\ hand["main"] # Nobody <=> main = "push"
    /\ hand["listener"] # Nobody <=> listener = "push"
    /\ hand["lpd"] # Nobody <=> lpd \in {"connect", "push", "dangling"}
    /\ main = "start" => listener = "none" /\ lpd = "none"

(* The vector holds every peer thread started before the return; the       *)
(* others are the LPD listener's.                                          *)
Vector ==
    /\ \A r \in Remotes : peer[r] \notin {"none", "orphan"} <=> r \in all_threads
    /\ \A r \in Remotes : peer[r] = "orphan" => r \in LanPeers /\ ~ Running

(* The joins: no thread can be added any more when they begin, and none is *)
(* left when they are over.                                                *)
Joined ==
    /\ main \in {"join_threads", "returned"} => listener = "exited"
    /\ main = "returned" => \A r \in all_threads : peer[r] = "ended"

(* LPD connects only to a remote that has no thread.                       *)
LpdFresh == hand["lpd"] # Nobody => peer[hand["lpd"]] = "none"

LifeInv == TypeOK /\ Hands /\ Vector /\ Joined /\ LpdFresh /\ KnownIffContacted

-----------------------------------------------------------------------------
LEMMA LifeStarts == Init => LifeInv
<1> SUFFICES ASSUME Init PROVE LifeInv
  OBVIOUS
<1>1. TypeOK
  BY LifecycleAssumption DEF Init, TypeOK, MainLabels, ListenerLabels, LpdLabels, PeerLabels
<1>2. Hands /\ Vector /\ Joined /\ LpdFresh
  BY DEF Init, Hands, Vector, Joined, LpdFresh
<1>3. KnownIffContacted
  BY LifecycleAssumption DEF Init, KnownIffContacted, Remotes
<1>4. QED
  BY <1>1, <1>2, <1>3 DEF LifeInv

(* A peer thread is started for the connection in hand.                    *)
LEMMA EmplaceKeeps ==
    ASSUME LifeInv, NEW t \in {"main", "listener", "lpd"}, hand[t] # Nobody,
           Emplace(t, hand[t]), Running,
           UNCHANGED <<PeerList, SocketList, known_peers, listening, cut, all_done>>,
           main \notin {"join_threads", "returned"},
           \/ t = "main" /\ main = "push" /\ main' = "connect" /\ UNCHANGED <<listener, lpd>>
           \/ t = "listener" /\ listener = "push" /\ listener' = "call" /\ UNCHANGED <<main, lpd>>
           \/ t = "lpd" /\ lpd = "push" /\ lpd' = "recv" /\ UNCHANGED <<main, listener>>
    PROVE  LifeInv'
<1> DEFINE r == hand[t]
<1>1. r \in Remotes
  BY DEF LifeInv, Hands, Remotes
<1>2. /\ peer \in [Remotes -> PeerLabels]
      /\ hand \in [{"main", "listener", "lpd"} -> Remotes \cup {Nobody}]
  BY DEF LifeInv, TypeOK
<1>3. /\ all_threads' = all_threads \cup {r}
      /\ peer' = [peer EXCEPT ![r] = "handshake"]
      /\ hand' = [hand EXCEPT ![t] = Nobody]
  BY DEF Emplace
<1>4. TypeOK'
  <2>1. peer' \in [Remotes -> PeerLabels]
    BY <1>1, <1>2, <1>3 DEF PeerLabels
  <2>2. hand' \in [{"main", "listener", "lpd"} -> Remotes \cup {Nobody}]
    BY <1>2, <1>3
  <2>3. main' \in MainLabels /\ listener' \in ListenerLabels /\ lpd' \in LpdLabels
    BY DEF LifeInv, TypeOK, MainLabels, ListenerLabels, LpdLabels
  <2>4. QED
    BY <1>1, <1>3, <2>1, <2>2, <2>3 DEF LifeInv, TypeOK
<1>5. Hands'
  BY <1>2, <1>3 DEF LifeInv, Hands
<1>6. Vector'
  <2>1. peer[r] # "orphan"
    BY <1>1 DEF LifeInv, Vector
  <2>2. QED
    BY <1>1, <1>2, <1>3, <2>1 DEF LifeInv, Vector, Running
<1>7. Joined'
  BY DEF LifeInv, Joined
<1>8. LpdFresh'
  BY <1>2, <1>3, LifecycleAssumption DEF LifeInv, LpdFresh, Hands, Remotes
<1>9. KnownIffContacted'
  <2>1. CASE t = "lpd"
    BY <1>1, <1>2, <1>3, <2>1, LifecycleAssumption DEF LifeInv, KnownIffContacted, Hands, Remotes
  <2>2. CASE t # "lpd"
    <3>1. r \notin LanPeers
      BY <2>2, LifecycleAssumption DEF LifeInv, Hands
    <3>2. hand'["lpd"] = hand["lpd"]
      BY <1>2, <1>3, <2>2
    <3>3. \A q \in LanPeers : peer'[q] = peer[q]
      BY <1>2, <1>3, <3>1 DEF Remotes
    <3>4. QED
      BY <3>2, <3>3 DEF LifeInv, KnownIffContacted
  <2>3. QED
    BY <2>1, <2>2
<1>10. QED
  BY <1>4, <1>5, <1>6, <1>7, <1>8, <1>9 DEF LifeInv

(* A peer thread moves, and nothing else but all_done.                     *)
LEMMA PeerKeeps ==
    ASSUME LifeInv, Running, NEW r \in Remotes,
           HandshakeRead(r) \/ PeerHead(r) \/ PeerReceives(r) \/ RemoteCloses(r) \/ PeerWoken(r)
    PROVE  LifeInv'
<1>1. /\ peer[r] # "none"
      /\ peer[r] # "orphan"
      /\ \E l \in PeerLabels \ {"none", "orphan"} : peer' = [peer EXCEPT ![r] = l]
      /\ all_done' \in BOOLEAN
      /\ UNCHANGED <<main, listener, lpd, PeerList, SocketList, hand, all_threads,
                     known_peers, listening, cut>>
  BY DEF HandshakeRead, PeerHead, PeerReceives, RemoteCloses, PeerWoken, InRecv, PeerLabels, LifeInv, TypeOK
<1>2. peer \in [Remotes -> PeerLabels]
  BY DEF LifeInv, TypeOK
<1>3. /\ peer' \in [Remotes -> PeerLabels]
      /\ \A q \in Remotes : peer'[q] = "none" <=> peer[q] = "none"
      /\ \A q \in Remotes : peer'[q] = "orphan" <=> peer[q] = "orphan"
  BY <1>1, <1>2
<1>4. TypeOK'
  BY <1>1, <1>3 DEF LifeInv, TypeOK
<1>5. Hands' /\ Vector' /\ LpdFresh' /\ KnownIffContacted'
  BY <1>1, <1>3 DEF LifeInv, Hands, Vector, Running, LpdFresh, KnownIffContacted, Remotes
<1>6. Joined'
  BY <1>1 DEF LifeInv, Joined, Running
<1>7. QED
  BY <1>4, <1>5, <1>6 DEF LifeInv

LEMMA LifeSteps ==
    ASSUME LifeInv, [Next]_vars
    PROVE  LifeInv'
<1> USE DEF LifeInv
<1>a. hand \in [{"main", "listener", "lpd"} -> Remotes \cup {Nobody}]
  BY DEF TypeOK
<1>1. CASE \/ StartThreads \/ AbortCloses \/ ConnectEnds \/ WaitReturns
           \/ CloseListening \/ ShutdownEnds \/ JoinListener
           \/ \E r \in TrackerPeers : ShutdownSocket(r)
  <2>1. UNCHANGED <<peer, PeerList, SocketList, hand, all_threads, known_peers, all_done>>
    BY <1>1 DEF StartThreads, AbortCloses, ConnectEnds, WaitReturns, CloseListening,
         ShutdownEnds, JoinListener, ShutdownSocket
  <2>2. TypeOK'
    <3>1. main' \in MainLabels
      BY <1>1 DEF StartThreads, AbortCloses, ConnectEnds, WaitReturns, CloseListening,
           ShutdownEnds, JoinListener, ShutdownSocket, MainLabels
    <3>2. listener' \in ListenerLabels /\ lpd' \in LpdLabels
      BY <1>1 DEF StartThreads, AbortCloses, ConnectEnds, WaitReturns, CloseListening,
           ShutdownEnds, JoinListener, ShutdownSocket, TypeOK, ListenerLabels, LpdLabels
    <3>3. listening' \in BOOLEAN /\ cut' \subseteq SocketList
      BY <1>1 DEF StartThreads, AbortCloses, ConnectEnds, WaitReturns, CloseListening,
           ShutdownEnds, JoinListener, ShutdownSocket, TypeOK
    <3>4. QED
      BY <2>1, <3>1, <3>2, <3>3 DEF TypeOK
  <2>3. Hands'
    BY <1>1, <2>1 DEF StartThreads, AbortCloses, ConnectEnds, WaitReturns, CloseListening,
         ShutdownEnds, JoinListener, ShutdownSocket, Hands
  <2>4. Joined'
    <3>1. main' # "returned"
      BY <1>1 DEF StartThreads, AbortCloses, ConnectEnds, WaitReturns, CloseListening,
           ShutdownEnds, JoinListener, ShutdownSocket
    <3>2. main' = "join_threads" => listener' = "exited"
      BY <1>1 DEF StartThreads, AbortCloses, ConnectEnds, WaitReturns, CloseListening,
           ShutdownEnds, JoinListener, ShutdownSocket
    <3>3. QED
      BY <3>1, <3>2 DEF Joined
  <2>5. Vector'
    BY <1>1, <2>1 DEF Vector, Running, StartThreads, AbortCloses, ConnectEnds, WaitReturns,
         CloseListening, ShutdownEnds, JoinListener, ShutdownSocket
  <2>6. LpdFresh' /\ KnownIffContacted'
    BY <2>1 DEF LpdFresh, KnownIffContacted
  <2>7. QED
    BY <2>2, <2>3, <2>4, <2>5, <2>6
<1>2. CASE AbortReturns
  BY <1>2 DEF AbortReturns, TypeOK, MainLabels, Hands, Vector, Running, Joined, LpdFresh, KnownIffContacted
<1>3. CASE JoinThreads
  BY <1>3 DEF JoinThreads, TypeOK, MainLabels, Hands, Vector, Running, Joined, LpdFresh, KnownIffContacted
<1>4. ASSUME NEW r \in TrackerPeers, ConnectTo(r)
      PROVE  LifeInv'
  <2>1. /\ main = "connect" /\ PeerList' = PeerList \ {r}
        /\ \/ /\ main' = "push" /\ hand' = [hand EXCEPT !["main"] = r]
              /\ SocketList' = SocketList \cup {r}
           \/ UNCHANGED <<main, hand, SocketList>>
        /\ UNCHANGED <<listener, lpd, peer, all_threads, known_peers, listening, cut, all_done>>
    BY <1>4 DEF ConnectTo
  <2>2. r \in Remotes /\ r # Nobody
    BY LifecycleAssumption DEF Remotes
  <2>3. hand'["lpd"] = hand["lpd"] /\ hand'["listener"] = hand["listener"]
    BY <1>a, <2>1
  <2>4. TypeOK'
    BY <1>a, <2>1, <2>2 DEF TypeOK, MainLabels
  <2>5. Hands'
    BY <1>a, <2>1, <2>2, <2>3 DEF Hands
  <2>6. Joined' /\ Vector' /\ LpdFresh' /\ KnownIffContacted'
    BY <2>1, <2>3 DEF Joined, Vector, Running, LpdFresh, KnownIffContacted
  <2>7. QED
    BY <2>4, <2>5, <2>6
<1>5. CASE MainPushes
  BY <1>5, EmplaceKeeps DEF MainPushes, Hands, Running
<1>6. CASE CallAccept \/ AcceptWoken
  BY <1>6 DEF CallAccept, AcceptWoken, Running, TypeOK, ListenerLabels, Hands, Vector,
       Joined, LpdFresh, KnownIffContacted
<1>7. ASSUME NEW r \in InboundPeers, Accept(r)
      PROVE  LifeInv'
  <2>1. /\ listener = "blocked" /\ listener' = "push"
        /\ hand' = [hand EXCEPT !["listener"] = r]
        /\ UNCHANGED <<main, lpd, peer, PeerList, SocketList, all_threads,
                       known_peers, listening, cut, all_done>>
    BY <1>7 DEF Accept
  <2>2. r \in Remotes /\ r # Nobody
    BY LifecycleAssumption DEF Remotes
  <2>3. hand'["lpd"] = hand["lpd"] /\ hand'["main"] = hand["main"]
    BY <1>a, <2>1
  <2>4. TypeOK'
    BY <1>a, <2>1, <2>2 DEF TypeOK, ListenerLabels
  <2>5. Hands'
    BY <1>a, <2>1, <2>2, <2>3 DEF Hands
  <2>6. Joined' /\ Vector' /\ LpdFresh' /\ KnownIffContacted'
    BY <2>1, <2>3 DEF Joined, Vector, Running, LpdFresh, KnownIffContacted
  <2>7. QED
    BY <2>4, <2>5, <2>6
<1>8. CASE ListenerPushes
  BY <1>8, EmplaceKeeps DEF ListenerPushes, Hands, Running, MutexFree
<1>9. ASSUME NEW r \in LanPeers, Advertised(r)
      PROVE  LifeInv'
  <2>1. /\ lpd = "recv" /\ lpd' = "connect" /\ r \notin known_peers
        /\ known_peers' = known_peers \cup {r}
        /\ hand' = [hand EXCEPT !["lpd"] = r]
        /\ UNCHANGED <<main, listener, peer, PeerList, SocketList, all_threads,
                       listening, cut, all_done>>
    BY <1>9 DEF Advertised
  <2>2. r \in Remotes /\ r # Nobody
    BY LifecycleAssumption DEF Remotes
  <2>3. /\ hand'["listener"] = hand["listener"] /\ hand'["main"] = hand["main"]
        /\ hand'["lpd"] = r /\ hand["lpd"] = Nobody
    BY <1>a, <2>1 DEF Hands
  <2>4. TypeOK'
    BY <1>a, <2>1, <2>2 DEF TypeOK, LpdLabels
  <2>5. Hands'
    BY <2>1, <2>2, <2>3 DEF Hands
  <2>6. Joined' /\ Vector' /\ LpdFresh' /\ KnownIffContacted'
    BY <2>1, <2>2, <2>3, LifecycleAssumption
       DEF Joined, Vector, Running, LpdFresh, KnownIffContacted, Remotes
  <2>7. QED
    BY <2>4, <2>5, <2>6
<1>10. CASE LpdConnects
  <2>1. /\ lpd = "connect"
        /\ \/ lpd' = "push" /\ UNCHANGED <<known_peers, hand>>
           \/ /\ lpd' = "recv"
              /\ known_peers' = known_peers \ {hand["lpd"]}
              /\ hand' = [hand EXCEPT !["lpd"] = Nobody]
        /\ UNCHANGED <<main, listener, peer, PeerList, SocketList, all_threads,
                       listening, cut, all_done>>
    BY <1>10 DEF LpdConnects
  <2>2. hand'["listener"] = hand["listener"] /\ hand'["main"] = hand["main"]
    BY <1>a, <2>1
  <2>3. hand'["lpd"] = IF lpd' = "recv" THEN Nobody ELSE hand["lpd"]
    BY <1>a, <2>1
  <2>4. TypeOK'
    BY <1>a, <2>1 DEF TypeOK, LpdLabels
  <2>5. Hands'
    BY <2>1, <2>2, <2>3 DEF Hands
  <2>6. Joined' /\ Vector' /\ LpdFresh' /\ KnownIffContacted'
    BY <2>1, <2>3, LifecycleAssumption
       DEF Hands, Joined, Vector, Running, LpdFresh, KnownIffContacted, Remotes
  <2>7. QED
    BY <2>4, <2>5, <2>6
<1>11. CASE LpdPushes
  BY <1>11, EmplaceKeeps DEF LpdPushes, Hands, Running, MutexFree
<1>12. CASE LpdPushesLate
  <2> DEFINE r == hand["lpd"]
  <2>1. /\ main = "returned" /\ lpd = "push"
        /\ UNCHANGED <<listener, PeerList, SocketList, all_threads, known_peers,
                       listening, cut, all_done>>
    BY <1>12 DEF LpdPushesLate
  <2>2. CASE /\ peer' = [peer EXCEPT ![r] = "orphan"]
             /\ hand' = [hand EXCEPT !["lpd"] = Nobody]
             /\ lpd' = "recv" /\ main' = main
    <3>1. r \in LanPeers /\ r \in Remotes /\ r # Nobody /\ peer[r] = "none"
      BY <2>1, LifecycleAssumption DEF Hands, LpdFresh, Remotes
    <3>2. peer \in [Remotes -> PeerLabels]
      BY DEF TypeOK
    <3>3. /\ peer' \in [Remotes -> PeerLabels] /\ peer'[r] = "orphan"
          /\ \A q \in Remotes : q # r => peer'[q] = peer[q]
      BY <2>2, <3>1, <3>2 DEF PeerLabels
    <3>4. /\ hand' \in [{"main", "listener", "lpd"} -> Remotes \cup {Nobody}]
          /\ hand'["lpd"] = Nobody /\ hand'["main"] = hand["main"]
          /\ hand'["listener"] = hand["listener"]
      BY <1>a, <2>2
    <3>5. TypeOK'
      BY <2>1, <2>2, <3>3, <3>4 DEF TypeOK, LpdLabels
    <3>6. Hands' /\ LpdFresh'
      BY <2>1, <2>2, <3>4 DEF Hands, LpdFresh
    <3>7. r \notin all_threads
      BY <3>1 DEF Vector
    <3>8. Vector'
      BY <2>1, <2>2, <3>1, <3>3, <3>7 DEF Vector, Running
    <3>9. Joined'
      <4>1. all_threads \subseteq Remotes
        BY DEF TypeOK
      <4>2. QED
        BY <2>1, <2>2, <3>3, <3>7, <4>1 DEF Joined
    <3>10. KnownIffContacted'
      <4>1. \A q \in LanPeers : q \in Remotes /\ q # Nobody
        BY LifecycleAssumption DEF Remotes
      <4>2. QED
        BY <2>1, <3>1, <3>3, <3>4, <4>1 DEF KnownIffContacted
    <3>11. QED
      BY <3>5, <3>6, <3>8, <3>9, <3>10
  <2>3. CASE main' \in {main, "terminated"} /\ lpd' \in {lpd, "dangling"} /\ UNCHANGED <<peer, hand>>
    BY <2>1, <2>3 DEF TypeOK, MainLabels, LpdLabels, Hands, Vector, Running, Joined,
         LpdFresh, KnownIffContacted
  <2>4. QED
    BY <1>12, <2>2, <2>3 DEF LpdPushesLate
<1>13. ASSUME NEW r \in Remotes,
              HandshakeRead(r) \/ PeerHead(r) \/ PeerReceives(r) \/ RemoteCloses(r) \/ PeerWoken(r)
       PROVE  LifeInv'
  BY <1>13, PeerKeeps DEF HandshakeRead, PeerHead, PeerReceives, RemoteCloses, PeerWoken
<1>14. CASE UNCHANGED vars
  BY <1>14 DEF vars, TypeOK, Hands, Vector, Running, Joined, LpdFresh, KnownIffContacted
<1>15. QED
  BY <1>1, <1>2, <1>3, <1>4, <1>5, <1>6, <1>7, <1>8, <1>9, <1>10, <1>11, <1>12, <1>13, <1>14
     DEF Next, Main

LEMMA LifeInvariant == Spec => []LifeInv
BY LifeStarts, LifeSteps, PTL DEF Spec

(* Every label, list and hand keeps its type.                              *)
THEOREM LifeTypeCorrect == Spec => []TypeOK
BY LifeInvariant, PTL DEF LifeInv

(* When run_leecher has returned, every thread started before has been     *)
(* joined, and the listener holds no connection that still waits for one:  *)
(* whatever connections came in during the shutdown, and whether or not    *)
(* close wakes accept.  Only the detached LPD listener can start another,  *)
(* over locals that are gone.                                              *)
THEOREM NoThreadOutlivesReturn == Spec => []NoThreadOutlives
<1>1. LifeInv => NoThreadOutlives
  BY DEF LifeInv, Hands, Vector, Joined, NoThreadOutlives
<1>2. QED
  BY <1>1, LifeInvariant, PTL

(* The LPD listener never contacts a remote twice, and forgets exactly the *)
(* ones it could not reach.                                                *)
THEOREM KnownAreContacted == Spec => []KnownIffContacted
BY LifeInvariant, PTL DEF LifeInv

=============================================================================
