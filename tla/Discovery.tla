------------------------------ MODULE Discovery ------------------------------
(***************************************************************************)
(* How instances of the program find each other: the start of run_leecher  *)
(* and run_seeder (src/leecher/leecher.cpp, src/seeder/seeder.cpp), the    *)
(* exchange with the tracker, which may be the repository's own            *)
(* (src/Tracker.cpp), and Local Peer Discovery (src/lpd/lpd.cpp), while    *)
(* instances are started, end or are killed, and are started again.        *)
(*                                                                         *)
(* Every instance uses port 6881 of its host, so known_peers, which holds  *)
(* address and port, is a set of hosts.  All instances share one torrent.  *)
(* What happens on a connection is Swarm's matter; here it lasts until one *)
(* of its ends goes away.                                                  *)
(***************************************************************************)
EXTENDS Naturals, FiniteSets, Sequences

CONSTANTS
    Seeders,        \* the instances run as seeders
    Leechers,       \* the instances run as leechers
    Hosts,
    HostOf,         \* the host each instance runs on
    Lists,          \* the lists of hosts another tracker may answer with,
                    \* which may name a host more than once
    Trackers,       \* which trackers to try: "own" is Tracker.cpp, "other"
                    \* is one that answers and closes
    Modes,          \* the modes each instance may be started in, "general"
                    \* and "local"
    MaxClock,       \* bounds the clock, in seconds
    MaxInbox        \* bounds the datagrams that wait in an LPD socket

Instances == Seeders \cup Leechers

Nobody == "nobody"
Departed == "departed"

ASSUME DiscoveryAssumption ==
    /\ Seeders \cap Leechers = {}
    /\ HostOf \in [Instances -> Hosts]
    /\ Lists \subseteq Seq(Hosts)
    /\ Trackers \subseteq {"own", "other"}
    /\ Modes \in [Instances -> SUBSET {"general", "local"}]
    /\ MaxClock \in Nat
    /\ MaxInbox \in Nat \ {0}
    /\ Nobody \notin Instances /\ Departed \notin Instances

VARIABLES
    clock,          \* time(nullptr)
    tracker,        \* the kind of tracker, and the client it is serving, or
                    \* was serving when that one closed
    phase,          \* where each instance is
    PeerList,       \* the hosts the tracker named to it
    visited,        \* how many of them its main thread has been through
    cookie,         \* its LPD cookie
    known_peers,    \* the hosts its LPD listener will not contact again
    inbox,          \* the datagrams in the buffer of its LPD socket
    conns,          \* the connections: how many from one instance to another,
                    \* made because of LPD and because of the tracker
    heirs           \* the instances that began to listen while another one of
                    \* their host was closing (kept for NotToItself alone)

vars == <<clock, tracker, phase, PeerList, visited, cookie, known_peers, inbox,
          conns, heirs>>

Phases == {"off",       \* not running
           "tracker",   \* about to connect to the tracker
           "waiting",   \* the request is sent; in recv_inf until the tracker closes
           "listen",    \* about to open its listening socket
           "running",   \* listener and LPD threads started
           "closing"}   \* a leecher that has closed its listening socket

Via == {"lpd", "tracker"}

Datagram == [host : Hosts, cookie : 0 .. MaxClock]

Init ==
    /\ clock = 0
    /\ tracker \in [kind : Trackers, client : {Nobody}]
    /\ phase = [i \in Instances |-> "off"]
    /\ PeerList = [i \in Instances |-> <<>>]
    /\ visited = [i \in Instances |-> 0]
    /\ cookie = [i \in Instances |-> 0]
    /\ known_peers = [i \in Instances |-> {}]
    /\ inbox = [i \in Instances |-> {}]
    /\ conns = [i \in Instances |-> [j \in Instances |-> [v \in Via |-> 0]]]
    /\ heirs = {}

-----------------------------------------------------------------------------
Running(i) == phase[i] = "running"

(* The LPD threads are detached: they go on until the process ends.        *)
HasLpd(i) == phase[i] \in {"running", "closing"}

(* Does bind of port 6881 work (SO_REUSEADDR)?  Not while another process  *)
(* of the host listens on it.                                              *)
FaultyPortFree(i) == TRUE           \* SO_REUSEPORT in its place

PortFree(i) ==
    \A j \in Instances \ {i} : HostOf[j] = HostOf[i] => ~ Running(j)

(* Two requests of a host to the tracker, both from port 6881, would be    *)
(* the same connection: the second connect fails.                          *)
RouteFree(i) ==
    \A j \in Instances \ {i} : HostOf[j] = HostOf[i] => phase[j] # "waiting"

(* The instances, one at most, that accept a connection to host h.         *)
ListeningAt(h) == {j \in Instances : HostOf[j] = h /\ Running(j)}

Connected(i, h, via) ==
    [k \in Instances |-> [j \in Instances |-> [v \in Via |->
        IF k = i /\ j \in ListeningAt(h) /\ v = via THEN conns[k][j][v] + 1
                                                    ELSE conns[k][j][v]]]]

Goto(i, label) == phase' = [phase EXCEPT ![i] = label]

-----------------------------------------------------------------------------
(* The start of an instance.                                               *)

(* In general mode the tracker is asked first, in local mode it is not.    *)
Launch(i, mode) ==
    /\ phase[i] = "off"
    /\ Goto(i, IF mode = "general" THEN "tracker" ELSE "listen")
    /\ UNCHANGED <<clock, tracker, PeerList, visited, cookie, known_peers,
                   inbox, conns, heirs>>

(* The process ends, however it does: what it held goes with it.           *)
Gone(i) ==
    /\ Goto(i, "off")
    /\ inbox' = [inbox EXCEPT ![i] = {}]
    /\ conns' = [k \in Instances |-> [j \in Instances |-> [v \in Via |->
                    IF i \in {k, j} THEN 0 ELSE conns[k][j][v]]]]
    /\ tracker' = [tracker EXCEPT !.client = IF @ = i THEN Departed ELSE @]
    /\ PeerList' = [PeerList EXCEPT ![i] = <<>>]
    /\ visited' = [visited EXCEPT ![i] = 0]
    /\ cookie' = [cookie EXCEPT ![i] = 0]
    /\ known_peers' = [known_peers EXCEPT ![i] = {}]
    /\ heirs' = heirs \ {i}
    /\ UNCHANGED clock

(* connect_to_specific.  When it fails nothing looks at the -1 it returns, *)
(* and recv_inf throws: the process terminates.                            *)
AskTracker(i) ==
    /\ phase[i] = "tracker"
    /\ \/ /\ PortFree(i) /\ RouteFree(i)
          /\ Goto(i, "waiting")
          /\ UNCHANGED <<clock, tracker, PeerList, visited, cookie, known_peers,
                         inbox, conns, heirs>>
       \/ Gone(i)

(* create_server_socket, then the listener and the LPD threads, with a     *)
(* cookie for this run.  If the port is taken the process exits.           *)
Listen(i) ==
    /\ phase[i] = "listen" /\ PortFree(i)
    /\ Goto(i, "running")
    /\ cookie' = [cookie EXCEPT ![i] = clock]
    /\ heirs' = IF \E j \in Instances : HostOf[j] = HostOf[i] /\ phase[j] = "closing"
                THEN heirs \cup {i} ELSE heirs
    /\ UNCHANGED <<clock, tracker, PeerList, visited, known_peers, inbox, conns>>

PortTaken(i) ==
    /\ phase[i] = "listen" /\ ~ PortFree(i)
    /\ Gone(i)

(* A leecher goes through its list, a host named twice twice; what it      *)
(* cannot connect to is skipped.                                           *)
ConnectTo(i) ==
    /\ i \in Leechers /\ Running(i) /\ visited[i] < Len(PeerList[i])
    /\ visited' = [visited EXCEPT ![i] = @ + 1]
    /\ conns' = Connected(i, PeerList[i][visited[i] + 1], "tracker")
    /\ UNCHANGED <<clock, tracker, phase, PeerList, cookie, known_peers, inbox, heirs>>

(* A leecher is done, or finds its list empty: it closes its listening     *)
(* socket, shuts down the connections to the hosts of its list, and joins  *)
(* its threads, while the LPD threads go on.  (On Linux the port stays     *)
(* taken until accept has returned: till then it counts as running.)       *)
Closes(i) ==
    /\ i \in Leechers /\ Running(i) /\ visited[i] = Len(PeerList[i])
    /\ Goto(i, "closing")
    /\ conns' = [k \in Instances |-> [j \in Instances |-> [v \in Via |->
                    IF k = i /\ v = "tracker" THEN 0 ELSE conns[k][j][v]]]]
    /\ UNCHANGED <<clock, tracker, PeerList, visited, cookie, known_peers, inbox, heirs>>

(* A user kills the instance; a leecher that closes has joined its         *)
(* threads; the tracker's answer is not HTTP.                              *)
Ends(i) == phase[i] # "off" /\ Gone(i)

-----------------------------------------------------------------------------
(* The tracker.                                                            *)

(* Another tracker sends a list and closes.                                *)
Answered(i, list) ==
    /\ tracker.kind = "other"
    /\ phase[i] = "waiting"
    /\ PeerList' = [PeerList EXCEPT ![i] = IF i \in Leechers THEN list ELSE <<>>]
    /\ Goto(i, "listen")
    /\ UNCHANGED <<clock, tracker, visited, cookie, known_peers, inbox, conns, heirs>>

(* Tracker.cpp accepts a client when it has done with the one before.      *)
TrackerAccepts(i) ==
    /\ tracker.kind = "own" /\ tracker.client = Nobody
    /\ phase[i] = "waiting"
    /\ tracker' = [tracker EXCEPT !.client = i]
    /\ UNCHANGED <<clock, phase, PeerList, visited, cookie, known_peers, inbox,
                   conns, heirs>>

(* Its recv_inf returns when the client has closed; the response is then   *)
(* sent to nobody.  A client that waits for the response does not close.   *)
TrackerReads ==
    /\ tracker.client = Departed
    /\ tracker' = [tracker EXCEPT !.client = Nobody]
    /\ UNCHANGED <<clock, phase, PeerList, visited, cookie, known_peers, inbox,
                   conns, heirs>>

-----------------------------------------------------------------------------
(* Local Peer Discovery.                                                   *)

(* The datagram reaches the LPD sockets that are open, its own included;   *)
(* any of them may miss it, as it may have missed those that would be too  *)
(* many now.                                                               *)
Heard(i, reached) ==
    LET d == [host |-> HostOf[i], cookie |-> cookie[i]]
    IN  [j \in Instances |->
            IF j \in reached /\ HasLpd(j)
            THEN {d} \cup (IF Cardinality(inbox[j] \ {d}) < MaxInbox THEN inbox[j] ELSE {})
            ELSE inbox[j]]

FaultyBroadcast(i, reached) ==      \* stops once it knows somebody
    /\ HasLpd(i) /\ known_peers[i] = {}
    /\ inbox' = Heard(i, reached)
    /\ UNCHANGED <<clock, tracker, phase, PeerList, visited, cookie, known_peers,
                   conns, heirs>>

Broadcast(i, reached) ==
    /\ HasLpd(i)
    /\ inbox' = Heard(i, reached)
    /\ UNCHANGED <<clock, tracker, phase, PeerList, visited, cookie, known_peers,
                   conns, heirs>>

FaultyNews(i, d) ==                 \* does not look at known_peers
    d.cookie # cookie[i]

FaultyCookie(i, d) ==               \* does not look at the cookie
    d.host \notin known_peers[i]

News(i, d) == d.cookie # cookie[i] /\ d.host \notin known_peers[i]

(* A datagram is read; it may come again.  The host is remembered unless   *)
(* the connection failed.                                                  *)
Receive(i, d) ==
    /\ HasLpd(i) /\ d \in inbox[i]
    /\ inbox' \in {inbox, [inbox EXCEPT ![i] = @ \ {d}]}
    /\ \/ /\ ~ News(i, d)
          /\ UNCHANGED <<known_peers, conns>>
       \/ /\ News(i, d) /\ ListeningAt(d.host) = {}
          /\ UNCHANGED <<known_peers, conns>>
       \/ /\ News(i, d) /\ ListeningAt(d.host) # {}
          /\ known_peers' = [known_peers EXCEPT ![i] = @ \cup {d.host}]
          /\ conns' = Connected(i, d.host, "lpd")
    /\ UNCHANGED <<clock, tracker, phase, PeerList, visited, cookie, heirs>>

Tick ==
    /\ clock < MaxClock
    /\ clock' = clock + 1
    /\ UNCHANGED <<tracker, phase, PeerList, visited, cookie, known_peers, inbox,
                   conns, heirs>>

-----------------------------------------------------------------------------
Next ==
    \/ Tick \/ TrackerReads
    \/ \E i \in Instances :
          \/ \E mode \in Modes[i] : Launch(i, mode)
          \/ AskTracker(i) \/ Listen(i) \/ PortTaken(i) \/ Closes(i) \/ Ends(i)
          \/ ConnectTo(i)
          \/ \E list \in Lists : Answered(i, list)
          \/ TrackerAccepts(i)
          \/ \E reached \in SUBSET Instances : Broadcast(i, reached)
          \/ \E d \in Datagram : Receive(i, d)

Spec == Init /\ [][Next]_vars

(* The threads run; a datagram that is sent again and again is received at *)
(* last.  Nobody has to start an instance, and none has to end.            *)
FairSpec ==
    /\ Spec
    /\ WF_vars(TrackerReads \/ \E i \in Instances : TrackerAccepts(i))
    /\ \A i \in Instances :
          /\ WF_vars(AskTracker(i) \/ Listen(i) \/ PortTaken(i))
          /\ WF_vars(ConnectTo(i))
          /\ WF_vars(\E list \in Lists : Answered(i, list))
          /\ WF_vars(Broadcast(i, Instances))
          /\ \A h \in Hosts :
                SF_vars(\E d \in Datagram : d.host = h /\ Receive(i, d))

-----------------------------------------------------------------------------
TypeOK ==
    /\ clock \in 0 .. MaxClock
    /\ tracker \in [kind : Trackers, client : Instances \cup {Nobody, Departed}]
    /\ phase \in [Instances -> Phases]
    /\ PeerList \in [Instances -> Seq(Hosts)]
    /\ visited \in [Instances -> Nat]
    /\ cookie \in [Instances -> 0 .. MaxClock]
    /\ known_peers \in [Instances -> SUBSET Hosts]
    /\ inbox \in [Instances -> SUBSET Datagram]
    /\ conns \in [Instances -> [Instances -> [Via -> Nat]]]
    /\ heirs \subseteq Instances
    /\ \A i, j \in Instances : Running(i) /\ Running(j) /\ HostOf[i] = HostOf[j] => i = j

(* "Ignores its own cookie" (README.md:58): LPD does not connect an        *)
(* instance to itself, whatever instances ran on its host before.  The     *)
(* exception is one that took over the port of a leecher still closing:    *)
(* that one's advertisements lead to it, with another cookie than its own. *)
NotToItself == \A i \in Instances \ heirs : conns[i][i]["lpd"] = 0

(* How often the first n hosts of i's list are that of j.                  *)
Named(i, j, n) == Cardinality({m \in 1 .. n : PeerList[i][m] = HostOf[j]})

(* However often advertisements come, an instance opens at most one        *)
(* connection to another because of LPD, and because of the tracker at     *)
(* most one for each time the list names the other's host, also when the   *)
(* other was restarted while the list was gone through.                    *)
NoDuplicates ==
    \A i, j \in Instances :
        /\ conns[i][j]["lpd"] <= 1
        /\ conns[i][j]["tracker"] <= Named(i, j, Len(PeerList[i]))

TwoOf(set) == {pair \in SUBSET set : Cardinality(pair) = 2}

Linked(pair) == \E i, j \in pair, v \in Via : i # j /\ conns[i][j][v] > 0

(* "Directly connects to matching local peers" (README.md:58): two         *)
(* instances that stay up are connected in the end, however often they     *)
(* were restarted before, if they were not started in the same second.     *)
FindEachOther ==
    \A pair \in TwoOf(Instances) :
        <>[](/\ \A i \in pair : Running(i)
             /\ \E i, j \in pair : cookie[i] # cookie[j])
            => <>[]Linked(pair)

=============================================================================
