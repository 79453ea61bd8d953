----------------------------- MODULE Lifecycle ------------------------------
(***************************************************************************)
(* The threads of a leecher process, from the start of its listener to the *)
(* return of run_leecher (src/leecher/leecher.cpp, lines 74 to 137): the   *)
(* main thread, the listener thread, the detached LPD listener and the     *)
(* peer threads they start.  What a peer thread does is PeerLoop's matter; *)
(* here it works, is blocked in recv, or has ended.                        *)
(*                                                                         *)
(* A connection is named by its remote.  Descriptor numbers are not        *)
(* modelled: a second close of a descriptor does nothing, nor does the     *)
(* shutdown of the -1 that a failed connect leaves in SocketList.          *)
(***************************************************************************)
CONSTANTS
    TrackerPeers,       \* the entries the tracker's list may have; an
                        \* address listed twice is two of them
    InboundPeers,       \* remotes that may connect to us
    LanPeers,           \* remotes that may advertise themselves by LPD
    PeerLists,          \* the lists the tracker may answer with
    LocalOnly,          \* was the program started in local mode?
    CloseWakesAccept    \* does close wake a thread blocked in accept?
                        \* (yes on macOS, no on Linux)

Remotes == TrackerPeers \cup InboundPeers \cup LanPeers

Nobody == "nobody"

ASSUME LifecycleAssumption ==
    /\ Nobody \notin Remotes
    /\ TrackerPeers \cap InboundPeers = {}
    /\ TrackerPeers \cap LanPeers = {}
    /\ InboundPeers \cap LanPeers = {}
    /\ PeerLists \subseteq SUBSET TrackerPeers
    /\ LocalOnly \in BOOLEAN
    /\ LocalOnly => PeerLists = {{}}
    /\ CloseWakesAccept \in BOOLEAN

VARIABLES
    main,           \* where the main thread is
    listener,       \* where the listener thread is
    lpd,            \* where the LPD listener thread is
    peer,           \* where each peer thread is
    PeerList,       \* the tracker's peers still to be connected to
    SocketList,     \* the remotes whose sockets the main thread will shut down
    hand,           \* the connection each starting thread has made but not
                    \* yet given a peer thread
    all_threads,    \* the peer threads in the shared vector
    known_peers,    \* the remotes LPD will not contact again
    listening,      \* is the listening socket open?
    cut,            \* the sockets the main thread has shut down
    all_done        \* what manager.all_done() would return

vars == <<main, listener, lpd, peer, PeerList, SocketList, hand, all_threads,
          known_peers, listening, cut, all_done>>

MainLabels == {"start", "abort", "connect", "push", "wait", "close", "shutdown",
               "join_listener", "join_threads", "returned", "terminated"}
ListenerLabels == {"none", "call", "blocked", "push", "exited"}
LpdLabels == {"none", "recv", "connect", "push", "exited", "dangling"}
PeerLabels == {"none", "handshake", "working", "reading", "ended", "orphan"}

Init ==
    /\ main = "start" /\ listener = "none" /\ lpd = "none"
    /\ peer = [r \in Remotes |-> "none"]
    /\ PeerList \in PeerLists
    /\ SocketList = {} /\ all_threads = {} /\ known_peers = {} /\ cut = {}
    /\ hand = [t \in {"main", "listener", "lpd"} |-> Nobody]
    /\ listening = TRUE
    /\ all_done = FALSE

(* The process is over once run_leecher returned or std::terminate ran,    *)
(* but for the detached LPD thread, which may still run until main's exit. *)
Running == main \notin {"returned", "terminated"}

(* The main thread holds threads_mutex from the joins to its return; the   *)
(* other critical sections are a single emplace_back.                      *)
MutexFree == main # "join_threads"

Emplace(t, r) ==
    /\ all_threads' = all_threads \cup {r}
    /\ peer' = [peer EXCEPT ![r] = "handshake"]
    /\ hand' = [hand EXCEPT ![t] = Nobody]

-----------------------------------------------------------------------------
(* The main thread.                                                        *)

(* Start the listener and the two detached LPD threads, then look whether  *)
(* the tracker named anybody.                                              *)
StartThreads ==
    /\ main = "start"
    /\ listener' = "call"
    /\ lpd' \in {"recv", "exited"}      \* exited: no socket, bind or membership
    /\ main' = IF PeerList = {} /\ ~ LocalOnly THEN "abort" ELSE "connect"
    /\ UNCHANGED <<peer, PeerList, SocketList, hand, all_threads, known_peers,
                   listening, cut, all_done>>

(* No peers from the tracker: close, join the listener, return.  If the    *)
(* vector then holds a thread, its destructor ends the program.            *)
AbortCloses ==
    /\ main = "abort" /\ listening
    /\ listening' = FALSE
    /\ UNCHANGED <<main, listener, lpd, peer, PeerList, SocketList, hand,
                   all_threads, known_peers, cut, all_done>>

AbortReturns ==
    /\ main = "abort" /\ ~ listening /\ listener = "exited"
    /\ main' = IF all_threads = {} THEN "returned" ELSE "terminated"
    /\ UNCHANGED <<listener, lpd, peer, PeerList, SocketList, hand, all_threads,
                   known_peers, listening, cut, all_done>>

(* One peer of the list: connect, or fail to and go on with the next.      *)
ConnectTo(r) ==
    /\ main = "connect" /\ r \in PeerList
    /\ PeerList' = PeerList \ {r}
    /\ \/ /\ main' = "push"
          /\ hand' = [hand EXCEPT !["main"] = r]
          /\ SocketList' = SocketList \cup {r}
       \/ UNCHANGED <<main, hand, SocketList>>
    /\ UNCHANGED <<listener, lpd, peer, all_threads, known_peers, listening,
                   cut, all_done>>

MainPushes ==
    /\ main = "push"
    /\ Emplace("main", hand["main"])
    /\ main' = "connect"
    /\ UNCHANGED <<listener, lpd, PeerList, SocketList, known_peers, listening,
                   cut, all_done>>

ConnectEnds ==
    /\ main = "connect" /\ PeerList = {}
    /\ main' = "wait"
    /\ UNCHANGED <<listener, lpd, peer, PeerList, SocketList, hand, all_threads,
                   known_peers, listening, cut, all_done>>

(* wait_until_done, which Controller models, returns.                      *)
WaitReturns ==
    /\ main = "wait" /\ all_done
    /\ main' = "close"
    /\ UNCHANGED <<listener, lpd, peer, PeerList, SocketList, hand, all_threads,
                   known_peers, listening, cut, all_done>>

CloseListening ==
    /\ main = "close"
    /\ listening' = FALSE
    /\ main' = "shutdown"
    /\ UNCHANGED <<listener, lpd, peer, PeerList, SocketList, hand, all_threads,
                   known_peers, cut, all_done>>

FaultyShutdownSocket(r) ==          \* also shuts down what was never connected
    /\ main = "shutdown" /\ r \notin cut
    /\ cut' = cut \cup {r}
    /\ UNCHANGED <<main, listener, lpd, peer, PeerList, SocketList, hand,
                   all_threads, known_peers, listening, all_done>>

ShutdownSocket(r) ==
    /\ main = "shutdown" /\ r \in SocketList \ cut
    /\ cut' = cut \cup {r}
    /\ UNCHANGED <<main, listener, lpd, peer, PeerList, SocketList, hand,
                   all_threads, known_peers, listening, all_done>>

FaultyShutdownEnds ==               \* goes on without shutting the sockets down
    /\ main = "shutdown"
    /\ main' = "join_listener"
    /\ UNCHANGED <<listener, lpd, peer, PeerList, SocketList, hand, all_threads,
                   known_peers, listening, cut, all_done>>

ShutdownEnds ==
    /\ main = "shutdown" /\ SocketList \subseteq cut
    /\ main' = "join_listener"
    /\ UNCHANGED <<listener, lpd, peer, PeerList, SocketList, hand, all_threads,
                   known_peers, listening, cut, all_done>>

FaultyJoinListener ==               \* takes the mutex before the listener ended
    /\ main = "join_listener"
    /\ main' = "join_threads"
    /\ UNCHANGED <<listener, lpd, peer, PeerList, SocketList, hand, all_threads,
                   known_peers, listening, cut, all_done>>

JoinListener ==
    /\ main = "join_listener" /\ listener = "exited"
    /\ main' = "join_threads"
    /\ UNCHANGED <<listener, lpd, peer, PeerList, SocketList, hand, all_threads,
                   known_peers, listening, cut, all_done>>

(* All joins are over: the guard is released and run_leecher returns.      *)
JoinThreads ==
    /\ main = "join_threads"
    /\ \A r \in all_threads : peer[r] = "ended"
    /\ main' = "returned"
    /\ UNCHANGED <<listener, lpd, peer, PeerList, SocketList, hand, all_threads,
                   known_peers, listening, cut, all_done>>

Main ==
    \/ StartThreads \/ AbortCloses \/ AbortReturns
    \/ \E r \in TrackerPeers : ConnectTo(r) \/ ShutdownSocket(r)
    \/ MainPushes \/ ConnectEnds \/ WaitReturns \/ CloseListening
    \/ ShutdownEnds \/ JoinListener \/ JoinThreads

-----------------------------------------------------------------------------
(* The listener thread.  A closed descriptor makes the next accept fail;   *)
(* it does not end, on Linux, an accept that is already blocked, which     *)
(* still takes one more connection.                                        *)

CallAccept ==
    /\ Running /\ listener = "call"
    /\ listener' = IF listening THEN "blocked" ELSE "exited"
    /\ UNCHANGED <<main, lpd, peer, PeerList, SocketList, hand, all_threads,
                   known_peers, listening, cut, all_done>>

AcceptWoken ==
    /\ Running /\ listener = "blocked" /\ ~ listening /\ CloseWakesAccept
    /\ listener' = "exited"
    /\ UNCHANGED <<main, lpd, peer, PeerList, SocketList, hand, all_threads,
                   known_peers, listening, cut, all_done>>

Accept(r) ==
    /\ Running /\ listener = "blocked"
    /\ listening \/ ~ CloseWakesAccept
    /\ peer[r] = "none"
    /\ listener' = "push"
    /\ hand' = [hand EXCEPT !["listener"] = r]
    /\ UNCHANGED <<main, lpd, peer, PeerList, SocketList, all_threads,
                   known_peers, listening, cut, all_done>>

ListenerPushes ==
    /\ Running /\ listener = "push" /\ MutexFree
    /\ Emplace("listener", hand["listener"])
    /\ listener' = "call"
    /\ UNCHANGED <<main, lpd, PeerList, SocketList, known_peers, listening, cut,
                   all_done>>

-----------------------------------------------------------------------------
(* The LPD listener thread.                                                *)

(* A datagram with our info hash, another cookie and an identifier that is *)
(* not known; any other datagram changes nothing.                          *)
Advertised(r) ==
    /\ main # "terminated" /\ lpd = "recv"
    /\ r \notin known_peers
    /\ known_peers' = known_peers \cup {r}
    /\ hand' = [hand EXCEPT !["lpd"] = r]
    /\ lpd' = "connect"
    /\ UNCHANGED <<main, listener, peer, PeerList, SocketList, all_threads,
                   listening, cut, all_done>>

FaultyLpdConnects ==                \* remembers a remote it could not reach
    /\ main # "terminated" /\ lpd = "connect"
    /\ \/ lpd' = "push" /\ UNCHANGED hand
       \/ lpd' = "recv" /\ hand' = [hand EXCEPT !["lpd"] = Nobody]
    /\ UNCHANGED <<main, listener, peer, PeerList, SocketList, all_threads,
                   known_peers, listening, cut, all_done>>

(* The identifier is forgotten if the connection fails, to be retried.     *)
LpdConnects ==
    /\ main # "terminated" /\ lpd = "connect"
    /\ \/ lpd' = "push" /\ UNCHANGED <<known_peers, hand>>
       \/ /\ lpd' = "recv"
          /\ known_peers' = known_peers \ {hand["lpd"]}
          /\ hand' = [hand EXCEPT !["lpd"] = Nobody]
    /\ UNCHANGED <<main, listener, peer, PeerList, SocketList, all_threads,
                   listening, cut, all_done>>

LpdPushes ==
    /\ Running /\ lpd = "push" /\ MutexFree
    /\ Emplace("lpd", hand["lpd"])
    /\ lpd' = "recv"
    /\ UNCHANGED <<main, listener, PeerList, SocketList, known_peers, listening,
                   cut, all_done>>

(* The same lines once the guard of the joins is released: run_leecher is  *)
(* destroying its locals, or has, and what they do is undefined.  The      *)
(* thread starts a peer thread over locals that are gone, or is stuck in   *)
(* what was a mutex, or leaves a joinable thread in the vector for its     *)
(* destructor, which ends the program.                                     *)
LpdPushesLate ==
    /\ main = "returned" /\ lpd = "push"
    /\ \/ /\ peer' = [peer EXCEPT ![hand["lpd"]] = "orphan"]
          /\ hand' = [hand EXCEPT !["lpd"] = Nobody]
          /\ lpd' = "recv"
          /\ UNCHANGED main
       \/ /\ lpd' = "dangling"
          /\ UNCHANGED <<main, peer, hand>>
       \/ /\ main' = "terminated"
          /\ UNCHANGED <<lpd, peer, hand>>
    /\ UNCHANGED <<listener, PeerList, SocketList, all_threads, known_peers,
                   listening, cut, all_done>>

-----------------------------------------------------------------------------
(* The peer threads.                                                       *)

InRecv == {"handshake", "reading"}

(* The remote's handshake arrives and matches, or does not.                *)
HandshakeRead(r) ==
    /\ Running /\ peer[r] = "handshake" /\ r \notin cut
    /\ peer' \in {[peer EXCEPT ![r] = l] : l \in {"working", "ended"}}
    /\ UNCHANGED <<main, listener, lpd, PeerList, SocketList, hand, all_threads,
                   known_peers, listening, cut, all_done>>

(* From the handshake or a handler to the next read, or out of the loop:   *)
(* because all is done, or because the connection failed.                  *)
PeerHead(r) ==
    /\ Running /\ peer[r] = "working"
    /\ \/ ~ all_done /\ peer' = [peer EXCEPT ![r] = "reading"]
       \/ peer' = [peer EXCEPT ![r] = "ended"]
    /\ UNCHANGED <<main, listener, lpd, PeerList, SocketList, hand, all_threads,
                   known_peers, listening, cut, all_done>>

(* A message from the remote; its handler may complete the file, or reset  *)
(* the status of a piece.                                                  *)
PeerReceives(r) ==
    /\ Running /\ peer[r] = "reading" /\ r \notin cut
    /\ peer' = [peer EXCEPT ![r] = "working"]
    /\ all_done' \in BOOLEAN
    /\ UNCHANGED <<main, listener, lpd, PeerList, SocketList, hand, all_threads,
                   known_peers, listening, cut>>

RemoteCloses(r) ==
    /\ Running /\ peer[r] \in InRecv /\ r \notin cut
    /\ peer' = [peer EXCEPT ![r] = "ended"]
    /\ UNCHANGED <<main, listener, lpd, PeerList, SocketList, hand, all_threads,
                   known_peers, listening, cut, all_done>>

PeerWoken(r) ==
    /\ Running /\ peer[r] \in InRecv /\ r \in cut
    /\ peer' = [peer EXCEPT ![r] = "ended"]
    /\ UNCHANGED <<main, listener, lpd, PeerList, SocketList, hand, all_threads,
                   known_peers, listening, cut, all_done>>

-----------------------------------------------------------------------------
Next ==
    \/ Main
    \/ CallAccept \/ AcceptWoken \/ ListenerPushes
    \/ \E r \in InboundPeers : Accept(r)
    \/ \E r \in LanPeers : Advertised(r)
    \/ LpdConnects \/ LpdPushes \/ LpdPushesLate
    \/ \E r \in Remotes : \/ HandshakeRead(r) \/ PeerHead(r) \/ PeerReceives(r)
                          \/ RemoteCloses(r) \/ PeerWoken(r)

Spec == Init /\ [][Next]_vars

(* Every thread that is not blocked in accept, recv, recvfrom or a join    *)
(* runs, and a shutdown socket wakes its reader.  Nothing is owed by the   *)
(* remotes.                                                                *)
FairSpec ==
    /\ Spec
    /\ WF_vars(Main)
    /\ WF_vars(CallAccept \/ AcceptWoken \/ ListenerPushes)
    /\ WF_vars(LpdConnects \/ LpdPushes \/ LpdPushesLate)
    /\ \A r \in Remotes : WF_vars(PeerHead(r) \/ PeerWoken(r))

-----------------------------------------------------------------------------
TypeOK ==
    /\ main \in MainLabels /\ listener \in ListenerLabels /\ lpd \in LpdLabels
    /\ peer \in [Remotes -> PeerLabels]
    /\ PeerList \subseteq TrackerPeers /\ SocketList \subseteq TrackerPeers
    /\ hand \in [{"main", "listener", "lpd"} -> Remotes \cup {Nobody}]
    /\ all_threads \subseteq Remotes /\ cut \subseteq SocketList
    /\ known_peers \subseteq LanPeers
    /\ listening \in BOOLEAN /\ all_done \in BOOLEAN

Closing == {"close", "shutdown", "join_listener", "join_threads"}

(* When run_leecher has returned, each peer thread that was started before *)
(* has ended, whichever thread started it and however late, and no         *)
(* accepted connection still waits for one.  What is left to borrow its    *)
(* manager and handshake is the detached LPD listener, and the threads it  *)
(* starts after the return, over locals that are gone.                     *)
NoThreadOutlives ==
    main = "returned" =>
        /\ \A r \in Remotes : \/ peer[r] \in {"none", "ended"}
                              \/ peer[r] = "orphan" /\ r \in LanPeers
        /\ hand["listener"] = Nobody

(* LPD knows exactly the remotes it is connecting to or has started a      *)
(* thread for: it contacts none of these again ("so we can retry later",   *)
(* lpd.cpp:126, of the others), whichever way each connection went.        *)
KnownIffContacted ==
    known_peers = {r \in LanPeers : peer[r] # "none" \/ hand["lpd"] = r}

(* Once "download complete" is printed nothing holds the process but a     *)
(* remote that keeps an inbound or LPD connection open: unless one does,   *)
(* run_leecher returns (where close wakes accept).                         *)
HeldOnlyByOpenConnection ==
    []<>(\/ main \notin Closing
         \/ \E r \in InboundPeers \cup LanPeers : peer[r] \in InRecv)

(* "Exits cleanly when all pieces are downloaded" (README): once           *)
(* wait_until_done has returned, so does run_leecher.                      *)
ExitsWhenDone == main = "close" ~> main = "returned"

=============================================================================
