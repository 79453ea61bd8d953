--------------------------- MODULE DiscoveryProofs ---------------------------
(***************************************************************************)
(* What holds of Discovery for any instances, hosts, lists and clock.  The *)
(* inductive invariant says what a datagram in an inbox can still mean:    *)
(* one from the own host carries the own cookie, since one process at a    *)
(* time listens on a host and its inbox goes with it, except where a       *)
(* leecher that closes overlaps with its successor; and that a connection  *)
(* is accounted for by what made it.                                       *)
(***************************************************************************)
EXTENDS Discovery, FiniteSetTheorems, SequenceTheorems, TLAPS

(* Only what has LPD threads has datagrams and connections, and only a     *)
(* leecher that got so far has been through a part of its list.            *)
OnlyWithLpd ==
    /\ \A i \in Instances : ~ HasLpd(i) => inbox[i] = {} /\ visited[i] = 0
    /\ \A i, j \in Instances, v \in Via :
          conns[i][j][v] > 0 => HasLpd(i) /\ HasLpd(j)

(* A datagram from the own host is the own one, for who did not inherit    *)
(* the port and listens.                                                   *)
OwnCookie ==
    \A i \in Instances \ heirs : Running(i) =>
        \A d \in inbox[i] : d.host = HostOf[i] => d.cookie = cookie[i]

(* Who inherited nothing shares its host with no leecher that closes.      *)
Alone ==
    \A i \in Instances \ heirs, j \in Instances :
        Running(i) /\ HasLpd(j) /\ HostOf[i] = HostOf[j] => i = j

(* An LPD connection will not be made again, and those because of the      *)
(* tracker are of the entries the main thread has been through.            *)
RememberedOf(i, j) ==
    /\ visited[i] <= Len(PeerList[i])
    /\ conns[i][j]["lpd"] > 0 => HostOf[j] \in known_peers[i]
    /\ conns[i][j]["lpd"] <= 1
    /\ conns[i][j]["tracker"] <= Named(i, j, visited[i])

Remembered == \A i, j \in Instances : RememberedOf(i, j)

Inv == /\ TypeOK /\ OnlyWithLpd /\ OwnCookie /\ Alone /\ NotToItself
       /\ Remembered

-----------------------------------------------------------------------------
(* How the number of places where h is named grows along a list.           *)
Spots(list, h, n) == Cardinality({p \in 1 .. n : list[p] = h})

LEMMA SpotsGrow ==
  ASSUME NEW s, NEW h, NEW n \in Nat
  PROVE  /\ Spots(s, h, n) \in Nat
         /\ Spots(s, h, 0) = 0
         /\ Spots(s, h, n + 1) = IF s[n + 1] = h THEN Spots(s, h, n) + 1
                                                 ELSE Spots(s, h, n)
         /\ \A m \in Nat : n <= m => Spots(s, h, n) <= Spots(s, h, m)
<1> DEFINE At(m) == {p \in 1 .. m : s[p] = h}
<1>1. ASSUME NEW m \in Nat
      PROVE  IsFiniteSet(At(m)) /\ Cardinality(At(m)) \in Nat
  <2>1. IsFiniteSet(1 .. m)
    BY FS_Interval
  <2>2. IsFiniteSet(At(m))
    BY <2>1, FS_Subset
  <2> QED
    BY <2>2, FS_CardinalityType
<1>2. Cardinality(At(0)) = 0
  BY FS_EmptySet, At(0) = {}
<1>3. ASSUME NEW m \in Nat, n <= m
      PROVE  Cardinality(At(n)) <= Cardinality(At(m))
  BY <1>1, <1>3, FS_Subset, At(n) \subseteq At(m)
<1>4. /\ Cardinality(At(n)) \in Nat
      /\ Cardinality(At(n + 1)) = IF s[n + 1] = h THEN Cardinality(At(n)) + 1
                                                  ELSE Cardinality(At(n))
      /\ \A m \in Nat : n <= m => Cardinality(At(n)) <= Cardinality(At(m))
  <2>1. Cardinality(At(n)) \in Nat
    BY <1>1
  <2>2. Cardinality(At(n + 1)) = IF s[n + 1] = h THEN Cardinality(At(n)) + 1
                                                 ELSE Cardinality(At(n))
    <3>1. CASE s[n + 1] = h
      <4>1. At(n + 1) = At(n) \cup {n + 1} /\ n + 1 \notin At(n)
        BY <3>1
      <4>2. Cardinality(At(n + 1)) = Cardinality(At(n)) + 1
        BY <1>1, <4>1, FS_AddElement
      <4> QED
        BY <4>2, <3>1
    <3>2. CASE s[n + 1] # h
      BY <3>2, At(n + 1) = At(n)
    <3> QED
      BY <3>1, <3>2
  <2> QED
    BY <2>1, <2>2, <1>3
<1> QED
  BY <1>2, <1>4 DEF Spots

LEMMA NamedGrows ==
  ASSUME NEW i \in Instances, NEW j \in Instances, NEW n \in Nat
  PROVE  /\ Named(i, j, n) \in Nat
         /\ Named(i, j, 0) = 0
         /\ Named(i, j, n + 1) = IF PeerList[i][n + 1] = HostOf[j]
                                 THEN Named(i, j, n) + 1 ELSE Named(i, j, n)
         /\ \A m \in Nat : n <= m => Named(i, j, n) <= Named(i, j, m)
<1>1. \A m \in Nat : Named(i, j, m) = Spots(PeerList[i], HostOf[j], m)
  BY DEF Named, Spots
<1>2. /\ Spots(PeerList[i], HostOf[j], n) \in Nat
      /\ Spots(PeerList[i], HostOf[j], 0) = 0
      /\ Spots(PeerList[i], HostOf[j], n + 1) =
            IF PeerList[i][n + 1] = HostOf[j] THEN Spots(PeerList[i], HostOf[j], n) + 1
                                              ELSE Spots(PeerList[i], HostOf[j], n)
      /\ \A m \in Nat : n <= m =>
            Spots(PeerList[i], HostOf[j], n) <= Spots(PeerList[i], HostOf[j], m)
  BY SpotsGrow, Zenon
<1> QED
  BY <1>1, <1>2

LEMMA ConnsCounted ==
  ASSUME Inv, NEW i \in Instances, NEW j \in Instances, NEW v \in Via
  PROVE  conns[i][j][v] \in Nat
  BY DEF Inv, TypeOK

LEMMA InitInv == Init => Inv
<1> SUFFICES ASSUME Init
             PROVE  Inv
  OBVIOUS
<1>1. TypeOK
  BY DiscoveryAssumption DEF Init, TypeOK, Running, Phases, Via, Datagram
<1>2. OnlyWithLpd /\ OwnCookie /\ Alone /\ NotToItself
  BY DEF Init, OnlyWithLpd, OwnCookie, Alone, NotToItself, Running, HasLpd, Via
<1>3. Remembered
  <2>1. \A i, j \in Instances : Named(i, j, 0) = 0
    BY NamedGrows
  <2>2. \A i \in Instances : visited[i] = 0 /\ Len(PeerList[i]) = 0
    BY DEF Init
  <2> QED
    BY <2>1, <2>2 DEF Init, Remembered, RememberedOf, Via
<1> QED
  BY <1>1, <1>2, <1>3 DEF Inv

(* Connected(i, h, via) adds one to the connections from i to whatever     *)
(* listens on h.                                                           *)
LEMMA ConnectedValue ==
  ASSUME Inv, NEW i \in Instances, NEW h \in Hosts, NEW via \in Via
  PROVE  /\ Connected(i, h, via) \in [Instances -> [Instances -> [Via -> Nat]]]
         /\ \A k, j \in Instances, v \in Via :
               Connected(i, h, via)[k][j][v] =
                  IF k = i /\ HostOf[j] = h /\ Running(j) /\ v = via
                  THEN conns[k][j][v] + 1 ELSE conns[k][j][v]
<1>1. ASSUME NEW k \in Instances, NEW j \in Instances, NEW v \in Via
      PROVE  (IF k = i /\ j \in ListeningAt(h) /\ v = via
              THEN conns[k][j][v] + 1 ELSE conns[k][j][v]) \in Nat
  <2>1. conns[k][j][v] \in Nat
    BY DEF Inv, TypeOK
  <2> QED
    BY <2>1
<1>2. \A j \in Instances : j \in ListeningAt(h) <=> HostOf[j] = h /\ Running(j)
  BY DEF ListeningAt
<1>3. Connected(i, h, via) \in [Instances -> [Instances -> [Via -> Nat]]]
  BY <1>1 DEF Connected
<1> QED
  BY <1>2, <1>3 DEF Connected

(* The last part of the invariant is kept where the lists are kept, the    *)
(* connections grow no more than they did, and nothing is forgotten.       *)
LEMMA StillRemembered ==
  ASSUME Inv, NEW i \in Instances, NEW j \in Instances,
         PeerList'[i] = PeerList[i], visited'[i] = visited[i],
         HostOf[j] \in known_peers[i] => HostOf[j] \in known_peers'[i],
         \A v \in Via : conns'[i][j][v] \in Nat /\ conns'[i][j][v] <= conns[i][j][v]
  PROVE  RememberedOf(i, j)'
<1>1. "lpd" \in Via /\ "tracker" \in Via
  BY DEF Via
<1>2. visited[i] \in Nat
  BY DEF Inv, TypeOK
<1>3. Named(i, j, visited[i]) \in Nat
  BY <1>2, NamedGrows
<1>4. Named(i, j, visited[i])' = Named(i, j, visited[i])
  <2>1. Named(i, j, visited[i])' = Cardinality({m \in 1 .. visited'[i] : PeerList'[i][m] = HostOf[j]})
    BY Zenon DEF Named
  <2> QED
    BY <2>1, Zenon DEF Named
<1>5. /\ conns[i][j]["lpd"] \in Nat /\ conns[i][j]["tracker"] \in Nat
  BY <1>1 DEF Inv, TypeOK
<1>6. RememberedOf(i, j)
  BY DEF Inv, Remembered
<1>7. /\ conns'[i][j]["lpd"] \in Nat /\ conns'[i][j]["lpd"] <= conns[i][j]["lpd"]
      /\ conns'[i][j]["tracker"] \in Nat /\ conns'[i][j]["tracker"] <= conns[i][j]["tracker"]
  BY <1>1
<1> QED
  BY <1>3, <1>4, <1>5, <1>6, <1>7 DEF RememberedOf

LEMMA GoneInv ==
  ASSUME Inv, NEW i \in Instances, Gone(i)
  PROVE  Inv'
<1>1. TypeOK'
  <2>1. phase' \in [Instances -> Phases] /\ clock' = clock
    BY DEF Inv, TypeOK, Gone, Goto, Phases
  <2>2. tracker' \in [kind : Trackers, client : Instances \cup {Nobody, Departed}]
    BY DEF Inv, TypeOK, Gone
  <2>3. conns' \in [Instances -> [Instances -> [Via -> Nat]]]
    BY DEF Inv, TypeOK, Gone
  <2>4. /\ known_peers' \in [Instances -> SUBSET Hosts]
        /\ inbox' \in [Instances -> SUBSET Datagram]
        /\ heirs' \subseteq Instances
    BY DEF Inv, TypeOK, Gone
  <2>5. cookie' \in [Instances -> 0 .. MaxClock] /\ visited' \in [Instances -> Nat]
    BY DiscoveryAssumption DEF Inv, TypeOK, Gone
  <2>6. PeerList' \in [Instances -> Seq(Hosts)]
    <3>1. << >> \in Seq(Hosts)
      OBVIOUS
    <3> QED
      BY <3>1 DEF Inv, TypeOK, Gone
  <2>7. \A k \in Instances : Running(k)' => Running(k)
    BY DEF Inv, TypeOK, Gone, Goto, Running
  <2> QED
    BY <2>1, <2>2, <2>3, <2>4, <2>5, <2>6, <2>7 DEF Inv, TypeOK
<1>2. \A k \in Instances : /\ Running(k)' <=> Running(k) /\ k # i
                           /\ HasLpd(k)' <=> HasLpd(k) /\ k # i
  BY DEF Inv, TypeOK, Gone, Goto, Running, HasLpd
<1>3. \A k, j \in Instances, v \in Via :
         conns'[k][j][v] = IF i \in {k, j} THEN 0 ELSE conns[k][j][v]
  BY DEF Inv, TypeOK, Gone
<1>4. \A k \in Instances : IF k = i
         THEN inbox'[k] = {} /\ visited'[k] = 0 /\ PeerList'[k] = << >>
         ELSE /\ inbox'[k] = inbox[k] /\ visited'[k] = visited[k]
              /\ PeerList'[k] = PeerList[k] /\ known_peers'[k] = known_peers[k]
              /\ cookie'[k] = cookie[k]
  BY DEF Inv, TypeOK, Gone
<1>5. heirs' = heirs \ {i}
  BY DEF Gone
<1>6. OnlyWithLpd'
  BY <1>2, <1>3, <1>4 DEF Inv, OnlyWithLpd
<1>7. OwnCookie' /\ Alone'
  BY <1>2, <1>4, <1>5 DEF Inv, OwnCookie, Alone
<1>8. NotToItself'
  BY <1>3, <1>5 DEF Inv, NotToItself, Via
<1>9. Remembered'
  <2> SUFFICES ASSUME NEW k \in Instances, NEW j \in Instances
               PROVE  RememberedOf(k, j)'
    BY DEF Remembered
  <2>1. CASE k = i
    <3>1. conns'[k][j]["lpd"] = 0 /\ conns'[k][j]["tracker"] = 0
      BY <1>3, <2>1 DEF Via
    <3>2. visited'[k] = 0 /\ Len(PeerList'[k]) = 0
      BY <1>4, <2>1
    <3>3. Named(k, j, visited[k])' = 0
      <4>1. {m \in 1 .. visited'[k] : PeerList'[k][m] = HostOf[j]} = {}
        BY <3>2
      <4> QED
        BY <4>1, FS_EmptySet DEF Named
    <3> QED
      BY <3>1, <3>2, <3>3 DEF RememberedOf
  <2>2. CASE k # i
    <3>1. \A v \in Via : conns'[k][j][v] \in Nat /\ conns'[k][j][v] <= conns[k][j][v]
      BY <1>3, ConnsCounted
    <3>2. PeerList'[k] = PeerList[k] /\ visited'[k] = visited[k] /\ known_peers'[k] = known_peers[k]
      BY <1>4, <2>2
    <3> QED
      BY <3>1, <3>2, StillRemembered
  <2> QED
    BY <2>1, <2>2
<1> QED
  BY <1>1, <1>6, <1>7, <1>8, <1>9 DEF Inv

(* A step of an instance that has no LPD threads yet keeps the invariant   *)
(* if it changes only its phase, its list and the tracker.                 *)
LEMMA PhaseInv ==
  ASSUME Inv, NEW i \in Instances, NEW to \in Phases \ {"running", "closing"},
         ~ HasLpd(i), Goto(i, to),
         tracker' \in [kind : Trackers, client : Instances \cup {Nobody, Departed}],
         PeerList' \in [Instances -> Seq(Hosts)],
         \A k \in Instances \ {i} : PeerList'[k] = PeerList[k],
         UNCHANGED <<clock, visited, cookie, known_peers, inbox, conns, heirs>>
  PROVE  Inv'
<1>1. phase' \in [Instances -> Phases]
  BY DEF Inv, TypeOK, Goto
<1>2. \A k \in Instances : (Running(k)' <=> Running(k)) /\ (HasLpd(k)' <=> HasLpd(k))
  BY DEF Inv, TypeOK, Goto, Running, HasLpd
<1>3. TypeOK'
  BY <1>1, <1>2 DEF Inv, TypeOK
<1>4. OnlyWithLpd' /\ NotToItself' /\ OwnCookie' /\ Alone'
  BY <1>2 DEF Inv, OnlyWithLpd, NotToItself, OwnCookie, Alone
<1>5. Remembered'
  <2> SUFFICES ASSUME NEW k \in Instances, NEW j \in Instances
               PROVE  RememberedOf(k, j)'
    BY DEF Remembered
  <2>1. \A v \in Via : conns'[k][j][v] \in Nat /\ conns'[k][j][v] <= conns[k][j][v]
    BY DEF Inv, TypeOK
  <2>2. CASE k # i
    BY <2>1, <2>2, StillRemembered
  <2>3. CASE k = i
    <3>1. conns'[k][j]["lpd"] = 0 /\ conns'[k][j]["tracker"] = 0
      BY <2>1, <2>3 DEF Inv, TypeOK, OnlyWithLpd, Via
    <3>2. visited'[k] = 0 /\ Len(PeerList'[k]) \in Nat
      BY <2>3 DEF Inv, OnlyWithLpd
    <3>3. Named(k, j, visited[k])' = 0
      <4>1. {m \in 1 .. visited'[k] : PeerList'[k][m] = HostOf[j]} = {}
        BY <3>2
      <4> QED
        BY <4>1, FS_EmptySet DEF Named
    <3> QED
      BY <3>1, <3>2, <3>3 DEF RememberedOf
  <2> QED
    BY <2>2, <2>3
<1> QED
  BY <1>3, <1>4, <1>5 DEF Inv

LEMMA ListenInv ==
  ASSUME Inv, NEW i \in Instances, Listen(i)
  PROVE  Inv'
<1>1. \A k \in Instances : /\ Running(k)' <=> Running(k) \/ k = i
                           /\ HasLpd(k)' <=> HasLpd(k) \/ k = i
  BY DEF Inv, TypeOK, Listen, Goto, Running, HasLpd
<1>2. inbox[i] = {}
  BY DEF Inv, OnlyWithLpd, Listen, HasLpd
<1>3. TypeOK'
  <2>1. phase' \in [Instances -> Phases] /\ cookie' \in [Instances -> 0 .. MaxClock]
    BY DEF Inv, TypeOK, Listen, Goto, Phases
  <2>2. \A k, j \in Instances :
           Running(k)' /\ Running(j)' /\ HostOf[k] = HostOf[j] => k = j
    BY <1>1 DEF Inv, TypeOK, Listen, PortFree
  <2> QED
    BY <2>1, <2>2 DEF Inv, TypeOK, Listen
<1>4. OnlyWithLpd' /\ NotToItself'
  BY <1>1 DEF Inv, OnlyWithLpd, NotToItself, Listen
<1>5. OwnCookie'
  BY <1>1, <1>2 DEF Inv, TypeOK, OwnCookie, Listen
<1>6. Alone'
  <2> SUFFICES ASSUME NEW k \in Instances \ heirs', NEW j \in Instances,
                      Running(k)', HasLpd(j)', HostOf[k] = HostOf[j]
               PROVE  k = j
    BY Zenon DEF Alone
  <2>1. k \notin heirs
    BY DEF Listen
  <2>2. CASE k # i /\ j # i
    BY <1>1, <2>1, <2>2 DEF Inv, Alone
  <2>3. CASE k # i /\ j = i
    BY <1>1, <2>3 DEF Listen, PortFree
  <2>4. CASE k = i /\ j # i
    <3>1. phase[j] \in {"running", "closing"}
      BY <1>1, <2>4 DEF HasLpd
    <3>2. phase[j] # "running"
      BY <2>4 DEF Listen, PortFree, Running
    <3>3. phase[j] # "closing"
      BY <2>4 DEF Listen
    <3> QED
      BY <3>1, <3>2, <3>3
  <2> QED
    BY <2>2, <2>3, <2>4
<1>7. Remembered'
  <2>1. UNCHANGED <<PeerList, visited, known_peers, conns>>
    BY DEF Listen
  <2> QED
    BY <2>1 DEF Inv, Remembered, RememberedOf, Named
<1> QED
  BY <1>3, <1>4, <1>5, <1>6, <1>7 DEF Inv

LEMMA ConnectToInv ==
  ASSUME Inv, NEW i \in Instances, ConnectTo(i)
  PROVE  Inv'
<1> DEFINE n == visited[i]
           h == PeerList[i][n + 1]
<1>1. /\ n \in Nat /\ Len(PeerList[i]) \in Nat /\ n + 1 <= Len(PeerList[i])
      /\ h \in Hosts /\ Running(i) /\ HasLpd(i)
      /\ visited' = [visited EXCEPT ![i] = n + 1]
      /\ conns' = Connected(i, h, "tracker")
      /\ UNCHANGED <<clock, tracker, phase, PeerList, cookie, known_peers, inbox, heirs>>
  <2>1. PeerList[i] \in Seq(Hosts) /\ n \in Nat /\ n < Len(PeerList[i])
    BY DEF ConnectTo, Inv, TypeOK
  <2>2. n + 1 \in 1 .. Len(PeerList[i]) /\ Len(PeerList[i]) \in Nat
    BY <2>1
  <2>3. h \in Hosts
    BY <2>1, <2>2, ElementOfSeq
  <2> QED
    BY <2>1, <2>2, <2>3 DEF ConnectTo, Running, HasLpd
<1> HIDE DEF n, h
<1>2. /\ conns' \in [Instances -> [Instances -> [Via -> Nat]]]
      /\ \A k, j \in Instances, v \in Via :
            conns'[k][j][v] =
               IF k = i /\ HostOf[j] = h /\ Running(j) /\ v = "tracker"
               THEN conns[k][j][v] + 1 ELSE conns[k][j][v]
  <2>1. "tracker" \in Via /\ h \in Hosts /\ conns' = Connected(i, h, "tracker")
    BY <1>1 DEF Via
  <2>2. /\ Connected(i, h, "tracker") \in [Instances -> [Instances -> [Via -> Nat]]]
        /\ \A k, j \in Instances, v \in Via :
              Connected(i, h, "tracker")[k][j][v] =
                 IF k = i /\ HostOf[j] = h /\ Running(j) /\ v = "tracker"
                 THEN conns[k][j][v] + 1 ELSE conns[k][j][v]
    BY <2>1, ConnectedValue
  <2> QED
    BY <2>1, <2>2
<1>3. \A k \in Instances : (Running(k)' <=> Running(k)) /\ (HasLpd(k)' <=> HasLpd(k))
  BY <1>1 DEF Running, HasLpd
<1>4. TypeOK'
  BY <1>1, <1>2, <1>3 DEF Inv, TypeOK
<1>5. OnlyWithLpd'
  <2>1. \A k, j \in Instances, v \in Via :
           conns'[k][j][v] > 0 => HasLpd(k) /\ HasLpd(j)
    <3>1. HasLpd(i) /\ \A j \in Instances : Running(j) => HasLpd(j)
      BY <1>1 DEF Running, HasLpd
    <3>2. \A k, j \in Instances, v \in Via :
             conns[k][j][v] > 0 => HasLpd(k) /\ HasLpd(j)
      BY DEF Inv, OnlyWithLpd
    <3> QED
      <4> SUFFICES ASSUME NEW k \in Instances, NEW j \in Instances, NEW v \in Via,
                          conns'[k][j][v] > 0
                   PROVE  HasLpd(k) /\ HasLpd(j)
        OBVIOUS
      <4>1. conns[k][j][v] \in Nat /\ (conns[k][j][v] > 0 => HasLpd(k) /\ HasLpd(j))
        BY <3>2, ConnsCounted
      <4>2. conns'[k][j][v] = IF k = i /\ HostOf[j] = h /\ Running(j) /\ v = "tracker" THEN conns[k][j][v] + 1 ELSE conns[k][j][v]
        BY <1>2
      <4> QED
        BY <3>1, <4>1, <4>2
  <2>2. \A k \in Instances : ~ HasLpd(k) => visited'[k] = visited[k]
    BY <1>1 DEF Inv, TypeOK
  <2> QED
    BY <1>1, <1>3, <2>1, <2>2 DEF Inv, OnlyWithLpd
<1>6. NotToItself' /\ OwnCookie' /\ Alone'
  <2>1. NotToItself'
    <3> SUFFICES ASSUME NEW k \in Instances \ heirs'
                 PROVE  conns'[k][k]["lpd"] = 0
      BY DEF NotToItself
    <3>1. conns[k][k]["lpd"] = 0
      BY <1>1 DEF Inv, NotToItself
    <3>2. "lpd" \in Via /\ "lpd" # "tracker"
      BY DEF Via
    <3>3. conns'[k][k]["lpd"] = conns[k][k]["lpd"]
      BY <1>2, <3>2
    <3> QED
      BY <3>1, <3>3
  <2>2. OwnCookie' /\ Alone'
    BY <1>1, <1>3 DEF Inv, OwnCookie, Alone
  <2> QED
    BY <2>1, <2>2
<1>7. Remembered'
  <2> SUFFICES ASSUME NEW k \in Instances, NEW j \in Instances
               PROVE  RememberedOf(k, j)'
    BY DEF Remembered
  <2>1. \A v \in Via : conns[k][j][v] \in Nat
    BY DEF Inv, TypeOK
  <2>2. CASE k # i
    <3>1. visited'[k] = visited[k]
      BY <1>1, <2>2 DEF Inv, TypeOK
    <3>2. \A v \in Via : conns'[k][j][v] \in Nat /\ conns'[k][j][v] <= conns[k][j][v]
      BY <1>2, <2>1, <2>2
    <3> QED
      BY <1>1, <3>1, <3>2, StillRemembered
  <2>3. CASE k = i
    <3>1. visited'[i] = n + 1
      BY <1>1 DEF Inv, TypeOK
    <3>2. /\ conns[i][j]["lpd"] \in Nat /\ conns[i][j]["tracker"] \in Nat
          /\ conns[i][j]["lpd"] > 0 => HostOf[j] \in known_peers[i]
          /\ conns[i][j]["lpd"] <= 1
          /\ conns[i][j]["tracker"] <= Named(i, j, n)
      BY <2>1, <2>3 DEF Inv, Remembered, RememberedOf, Via, n
    <3>3. conns'[i][j]["lpd"] = conns[i][j]["lpd"]
      BY <1>2 DEF Via
    <3>4. conns'[i][j]["tracker"] =
             IF HostOf[j] = h /\ Running(j) THEN conns[i][j]["tracker"] + 1
                                            ELSE conns[i][j]["tracker"]
      BY <1>2 DEF Via
    <3>5. /\ Named(i, j, n) \in Nat
          /\ Named(i, j, n + 1) = IF h = HostOf[j] THEN Named(i, j, n) + 1
                                                   ELSE Named(i, j, n)
      BY <1>1, NamedGrows DEF h
    <3>6. Named(i, j, visited[i])' = Named(i, j, n + 1)
      <4>1. Named(i, j, visited[i])' = Cardinality({m \in 1 .. visited'[i] : PeerList'[i][m] = HostOf[j]})
        BY Zenon DEF Named
      <4> QED
        BY <1>1, <3>1, <4>1, Zenon DEF Named
    <3> QED
      BY <1>1, <2>3, <3>1, <3>2, <3>3, <3>4, <3>5, <3>6 DEF RememberedOf
  <2> QED
    BY <2>2, <2>3
<1> QED
  BY <1>4, <1>5, <1>6, <1>7 DEF Inv

LEMMA ClosesInv ==
  ASSUME Inv, NEW i \in Instances, Closes(i)
  PROVE  Inv'
<1>1. \A k \in Instances : (Running(k)' => Running(k)) /\ (HasLpd(k)' <=> HasLpd(k))
  BY DEF Inv, TypeOK, Closes, Goto, Running, HasLpd
<1>2. /\ conns' \in [Instances -> [Instances -> [Via -> Nat]]]
      /\ \A k, j \in Instances, v \in Via :
            conns'[k][j][v] = IF k = i /\ v = "tracker" THEN 0 ELSE conns[k][j][v]
  <2>1. conns' = [k \in Instances |-> [j \in Instances |-> [v \in Via |->
                    IF k = i /\ v = "tracker" THEN 0 ELSE conns[k][j][v]]]]
    BY DEF Closes
  <2>2. \A k, j \in Instances, v \in Via :
           (IF k = i /\ v = "tracker" THEN 0 ELSE conns[k][j][v]) \in Nat
    BY ConnsCounted
  <2> QED
    BY <2>1, <2>2
<1>3. UNCHANGED <<clock, tracker, PeerList, visited, cookie, known_peers, inbox, heirs>>
  BY DEF Closes
<1>4. phase' \in [Instances -> Phases]
  BY DEF Inv, TypeOK, Closes, Goto, Phases
<1>5. TypeOK'
  BY <1>1, <1>2, <1>3, <1>4 DEF Inv, TypeOK
<1>6. OnlyWithLpd'
  <2>1. \A k, j \in Instances, v \in Via :
           conns'[k][j][v] > 0 => HasLpd(k) /\ HasLpd(j)
    <3>1. \A k, j \in Instances, v \in Via :
             conns[k][j][v] > 0 => HasLpd(k) /\ HasLpd(j)
      BY DEF Inv, OnlyWithLpd
    <3> QED
      <4> SUFFICES ASSUME NEW k \in Instances, NEW j \in Instances, NEW v \in Via,
                          conns'[k][j][v] > 0
                   PROVE  HasLpd(k) /\ HasLpd(j)
        OBVIOUS
      <4>1. conns[k][j][v] \in Nat /\ (conns[k][j][v] > 0 => HasLpd(k) /\ HasLpd(j))
        BY <3>1, ConnsCounted
      <4>2. conns'[k][j][v] = IF k = i /\ v = "tracker" THEN 0 ELSE conns[k][j][v]
        BY <1>2
      <4> QED
        BY <4>1, <4>2
  <2> QED
    BY <1>1, <1>3, <2>1 DEF Inv, OnlyWithLpd
<1>7. NotToItself' /\ OwnCookie' /\ Alone'
  BY <1>1, <1>2, <1>3 DEF Inv, NotToItself, OwnCookie, Alone, Via
<1>8. Remembered'
  <2>1. \A k, j \in Instances, v \in Via :
           conns'[k][j][v] \in Nat /\ conns'[k][j][v] <= conns[k][j][v]
    <3> SUFFICES ASSUME NEW k \in Instances, NEW j \in Instances, NEW v \in Via
                 PROVE  conns'[k][j][v] \in Nat /\ conns'[k][j][v] <= conns[k][j][v]
      OBVIOUS
    <3>1. conns[k][j][v] \in Nat
      BY ConnsCounted
    <3>2. conns'[k][j][v] = IF k = i /\ v = "tracker" THEN 0 ELSE conns[k][j][v]
      BY <1>2
    <3> QED
      BY <3>1, <3>2
  <2> SUFFICES ASSUME NEW k \in Instances, NEW j \in Instances
               PROVE  RememberedOf(k, j)'
    BY DEF Remembered
  <2> QED
    BY <1>3, <2>1, StillRemembered
<1> QED
  BY <1>5, <1>6, <1>7, <1>8 DEF Inv

LEMMA BroadcastInv ==
  ASSUME Inv, NEW i \in Instances, NEW reached \in SUBSET Instances,
         Broadcast(i, reached)
  PROVE  Inv'
<1> DEFINE own == [host |-> HostOf[i], cookie |-> cookie[i]]
<1>1. own \in Datagram
  BY DiscoveryAssumption DEF Inv, TypeOK, Datagram
<1>2. \A k \in Instances :
         inbox'[k] = IF k \in reached /\ HasLpd(k)
                     THEN {own} \cup (IF Cardinality(inbox[k] \ {own}) < MaxInbox
                                      THEN inbox[k] ELSE {})
                     ELSE inbox[k]
  BY DEF Broadcast, Heard
<1>3. \A k \in Instances : /\ inbox'[k] \subseteq inbox[k] \cup {own}
                           /\ ~ HasLpd(k) => inbox'[k] = inbox[k]
  BY <1>2, Zenon
<1>4. inbox' \in [Instances -> SUBSET Datagram]
  <2>1. inbox' = [k \in Instances |-> inbox'[k]]
    BY Zenon DEF Broadcast, Heard
  <2>2. inbox \in [Instances -> SUBSET Datagram]
    BY DEF Inv, TypeOK
  <2>3. \A k \in Instances : inbox'[k] \in SUBSET Datagram
    BY <1>1, <1>3, <2>2
  <2> QED
    BY <2>1, <2>3
<1> HIDE DEF own
<1>5. UNCHANGED <<clock, tracker, phase, PeerList, visited, cookie, known_peers, conns, heirs>>
  BY DEF Broadcast
<1>6. \A k \in Instances : (Running(k)' <=> Running(k)) /\ (HasLpd(k)' <=> HasLpd(k))
  BY <1>5 DEF Running, HasLpd
<1>7. TypeOK'
  BY <1>4, <1>5, <1>6 DEF Inv, TypeOK
<1>8. OnlyWithLpd' /\ NotToItself' /\ Alone'
  BY <1>3, <1>5, <1>6 DEF Inv, OnlyWithLpd, NotToItself, Alone
<1>9. Remembered'
  BY <1>5 DEF Inv, Remembered, RememberedOf, Named
<1>10. OwnCookie'
  <2> SUFFICES ASSUME NEW k \in Instances \ heirs, Running(k),
                      NEW d \in inbox'[k], d.host = HostOf[k]
               PROVE  d.cookie = cookie[k]
    BY <1>5, <1>6 DEF OwnCookie
  <2>1. CASE d \in inbox[k]
    BY <2>1 DEF Inv, OwnCookie
  <2>2. CASE d = own
    <3>1. HasLpd(i)
      BY DEF Broadcast
    <3>2. d.host = HostOf[i] /\ d.cookie = cookie[i]
      BY <2>2 DEF own
    <3>3. k = i
      BY <3>1, <3>2 DEF Inv, Alone
    <3> QED
      BY <3>2, <3>3
  <2> QED
    BY <1>3, <2>1, <2>2
<1> QED
  BY <1>7, <1>8, <1>9, <1>10 DEF Inv

LEMMA ReceiveInv ==
  ASSUME Inv, NEW i \in Instances, NEW d \in Datagram, Receive(i, d)
  PROVE  Inv'
<1>1. /\ inbox' \in [Instances -> SUBSET Datagram]
      /\ \A k \in Instances : inbox'[k] \subseteq inbox[k]
  <2>1. inbox' = inbox \/ inbox' = [inbox EXCEPT ![i] = @ \ {d}]
    BY DEF Receive
  <2>2. inbox \in [Instances -> SUBSET Datagram]
    BY DEF Inv, TypeOK
  <2>3. QED
    BY <2>1, <2>2
<1>2. UNCHANGED <<clock, tracker, phase, PeerList, visited, cookie, heirs>>
  BY DEF Receive
<1>3. \A k \in Instances : (Running(k)' <=> Running(k)) /\ (HasLpd(k)' <=> HasLpd(k))
  BY <1>2 DEF Running, HasLpd
<1>4. OwnCookie' /\ Alone'
  BY <1>1, <1>2, <1>3 DEF Inv, OwnCookie, Alone
<1>5. \A k \in Instances : ~ HasLpd(k)' => inbox'[k] = {} /\ visited'[k] = 0
  BY <1>1, <1>2, <1>3 DEF Inv, OnlyWithLpd
<1>6. CASE UNCHANGED <<known_peers, conns>>
  <2>1. TypeOK'
    BY <1>1, <1>2, <1>3, <1>6 DEF Inv, TypeOK
  <2>2. OnlyWithLpd'
    BY <1>3, <1>5, <1>6 DEF Inv, OnlyWithLpd
  <2>3. NotToItself' /\ Remembered'
    BY <1>2, <1>6 DEF Inv, NotToItself, Remembered, RememberedOf, Named
  <2> QED
    BY <1>4, <2>1, <2>2, <2>3 DEF Inv
<1>7. CASE /\ News(i, d)
           /\ known_peers' = [known_peers EXCEPT ![i] = @ \cup {d.host}]
           /\ conns' = Connected(i, d.host, "lpd")
  <2>1. d.host \in Hosts
    BY DEF Datagram
  <2>2. /\ conns' \in [Instances -> [Instances -> [Via -> Nat]]]
        /\ \A k, j \in Instances, v \in Via :
              conns'[k][j][v] =
                 IF k = i /\ HostOf[j] = d.host /\ Running(j) /\ v = "lpd"
                 THEN conns[k][j][v] + 1 ELSE conns[k][j][v]
    BY <1>7, <2>1, ConnectedValue DEF Via
  <2>3. i \notin heirs /\ Running(i) => d.host # HostOf[i]
    BY <1>7 DEF Inv, OwnCookie, Receive, News
  <2>4. TypeOK'
    BY <1>1, <1>2, <1>3, <1>7, <2>1, <2>2 DEF Inv, TypeOK
  <2>5. OnlyWithLpd'
    <3>1. HasLpd(i) /\ \A j \in Instances : Running(j) => HasLpd(j)
      BY DEF Receive, Running, HasLpd
    <3>2. \A k, j \in Instances, v \in Via :
             conns[k][j][v] > 0 => HasLpd(k) /\ HasLpd(j)
      BY DEF Inv, OnlyWithLpd
    <3>3. \A k, j \in Instances, v \in Via :
             conns'[k][j][v] > 0 => HasLpd(k) /\ HasLpd(j)
      <4> SUFFICES ASSUME NEW k \in Instances, NEW j \in Instances, NEW v \in Via,
                          conns'[k][j][v] > 0
                   PROVE  HasLpd(k) /\ HasLpd(j)
        OBVIOUS
      <4>1. conns[k][j][v] \in Nat /\ (conns[k][j][v] > 0 => HasLpd(k) /\ HasLpd(j))
        BY <3>2, ConnsCounted
      <4>2. conns'[k][j][v] = IF k = i /\ HostOf[j] = d.host /\ Running(j) /\ v = "lpd" THEN conns[k][j][v] + 1 ELSE conns[k][j][v]
        BY <2>2
      <4> QED
        BY <3>1, <4>1, <4>2
    <3> QED
      BY <1>3, <1>5, <3>3 DEF OnlyWithLpd
  <2>6. NotToItself'
    <3> SUFFICES ASSUME NEW k \in Instances \ heirs'
                 PROVE  conns'[k][k]["lpd"] = 0
      BY DEF NotToItself
    <3>1. conns[k][k]["lpd"] = 0
      BY <1>2 DEF Inv, NotToItself
    <3>2. "lpd" \in Via
      BY DEF Via
    <3>3. ~ (k = i /\ HostOf[k] = d.host /\ Running(k))
      BY <1>2, <2>3
    <3>4. conns'[k][k]["lpd"] = conns[k][k]["lpd"]
      BY <2>2, <3>2, <3>3
    <3> QED
      BY <3>1, <3>4
  <2>7. Remembered'
    <3> SUFFICES ASSUME NEW k \in Instances, NEW j \in Instances
                 PROVE  RememberedOf(k, j)'
      BY DEF Remembered
    <3>1. /\ conns[k][j]["lpd"] \in Nat /\ conns[k][j]["tracker"] \in Nat
          /\ conns[k][j]["lpd"] > 0 => HostOf[j] \in known_peers[k]
          /\ conns[k][j]["lpd"] <= 1
          /\ conns[k][j]["tracker"] <= Named(k, j, visited[k])
          /\ visited[k] <= Len(PeerList[k])
      BY DEF Inv, TypeOK, Remembered, RememberedOf, Via
    <3>2. known_peers'[k] = IF k = i THEN known_peers[k] \cup {d.host} ELSE known_peers[k]
      BY <1>7 DEF Inv, TypeOK
    <3>3. conns'[k][j]["tracker"] = conns[k][j]["tracker"]
      BY <2>2 DEF Via
    <3>4. conns'[k][j]["lpd"] =
             IF k = i /\ HostOf[j] = d.host /\ Running(j)
             THEN conns[k][j]["lpd"] + 1 ELSE conns[k][j]["lpd"]
      BY <2>2 DEF Via
    <3>5. d.host \notin known_peers[i]
      BY <1>7 DEF News
    <3>6. Named(k, j, visited[k])' = Named(k, j, visited[k])
      BY <1>2, Zenon DEF Named
    <3>7. Named(k, j, visited[k]) \in Nat
      BY NamedGrows DEF Inv, TypeOK
    <3> QED
      BY <1>2, <3>1, <3>2, <3>3, <3>4, <3>5, <3>6, <3>7 DEF RememberedOf
  <2> QED
    BY <1>4, <2>4, <2>5, <2>6, <2>7 DEF Inv
<1> QED
  BY <1>6, <1>7 DEF Receive

LEMMA NextInv == Inv /\ [Next]_vars => Inv'
<1> SUFFICES ASSUME Inv, [Next]_vars
             PROVE  Inv'
  OBVIOUS
<1> USE DEF Phases
<1>1. ASSUME NEW i \in Instances, NEW mode \in Modes[i], Launch(i, mode)
      PROVE  Inv'
  <2> DEFINE to == IF mode = "general" THEN "tracker" ELSE "listen"
  <2>1. to \in Phases \ {"running", "closing"} /\ ~ HasLpd(i) /\ Goto(i, to)
    BY <1>1 DEF Launch, HasLpd
  <2>2. /\ UNCHANGED <<clock, tracker, PeerList, visited, cookie, known_peers, inbox,
                       conns, heirs>>
        /\ tracker \in [kind : Trackers, client : Instances \cup {Nobody, Departed}]
        /\ PeerList \in [Instances -> Seq(Hosts)]
    BY <1>1 DEF Launch, Inv, TypeOK
  <2> HIDE DEF to
  <2> QED
    BY <2>1, <2>2, PhaseInv
<1>2. ASSUME NEW i \in Instances, AskTracker(i)
      PROVE  Inv'
  <2>1. CASE Gone(i)
    BY <2>1, GoneInv
  <2>2. CASE /\ Goto(i, "waiting")
             /\ UNCHANGED <<clock, tracker, PeerList, visited, cookie, known_peers,
                            inbox, conns, heirs>>
    <3>1. ~ HasLpd(i) /\ "waiting" \in Phases \ {"running", "closing"}
      BY <1>2 DEF AskTracker, HasLpd
    <3>2. /\ tracker \in [kind : Trackers, client : Instances \cup {Nobody, Departed}]
          /\ PeerList \in [Instances -> Seq(Hosts)]
      BY DEF Inv, TypeOK
    <3> QED
      BY <2>2, <3>1, <3>2, PhaseInv
  <2> QED
    BY <1>2, <2>1, <2>2 DEF AskTracker
<1>3. ASSUME NEW i \in Instances, PortTaken(i) \/ Ends(i)
      PROVE  Inv'
  BY <1>3, GoneInv DEF PortTaken, Ends
<1>4. ASSUME NEW i \in Instances, NEW list \in Lists, Answered(i, list)
      PROVE  Inv'
  <2>1. list \in Seq(Hosts) /\ << >> \in Seq(Hosts)
    BY DiscoveryAssumption
  <2>2. /\ PeerList' \in [Instances -> Seq(Hosts)]
        /\ \A k \in Instances \ {i} : PeerList'[k] = PeerList[k]
    BY <1>4, <2>1 DEF Answered, Inv, TypeOK
  <2>3. /\ UNCHANGED <<clock, tracker, visited, cookie, known_peers, inbox, conns, heirs>>
        /\ tracker \in [kind : Trackers, client : Instances \cup {Nobody, Departed}]
        /\ ~ HasLpd(i) /\ Goto(i, "listen") /\ "listen" \in Phases \ {"running", "closing"}
    BY <1>4 DEF Answered, Inv, TypeOK, HasLpd
  <2> QED
    BY <2>2, <2>3, PhaseInv
<1>5. ASSUME TrackerReads \/ Tick \/ (\E i \in Instances : TrackerAccepts(i)) \/ UNCHANGED vars
      PROVE  Inv'
  <2>1. UNCHANGED <<phase, PeerList, visited, cookie, known_peers, inbox, conns, heirs>>
    BY <1>5 DEF TrackerReads, Tick, TrackerAccepts, vars
  <2>2. clock' \in 0 .. MaxClock
    BY <1>5, DiscoveryAssumption DEF TrackerReads, Tick, TrackerAccepts, vars, Inv, TypeOK
  <2>3. tracker' \in [kind : Trackers, client : Instances \cup {Nobody, Departed}]
    BY <1>5 DEF TrackerReads, Tick, TrackerAccepts, vars, Inv, TypeOK
  <2>4. \A k \in Instances : (Running(k)' <=> Running(k)) /\ (HasLpd(k)' <=> HasLpd(k))
    BY <2>1 DEF Running, HasLpd
  <2>5. TypeOK'
    BY <2>1, <2>2, <2>3, <2>4 DEF Inv, TypeOK
  <2>6. OnlyWithLpd' /\ OwnCookie' /\ Alone' /\ NotToItself'
    BY <2>1, <2>4 DEF Inv, OnlyWithLpd, OwnCookie, Alone, NotToItself
  <2>7. Remembered'
    BY <2>1 DEF Inv, Remembered, RememberedOf, Named
  <2> QED
    BY <2>5, <2>6, <2>7 DEF Inv
<1> QED
  BY <1>1, <1>2, <1>3, <1>4, <1>5, ListenInv, ConnectToInv, ClosesInv, BroadcastInv,
     ReceiveInv
     DEF Next

LEMMA InvAlways == Spec => []Inv
  BY InitInv, NextInv, PTL DEF Spec

(* The variables keep their types, and one process at a time listens on    *)
(* the port of a host.                                                     *)
THEOREM DiscoveryTypeCorrect == Spec => []TypeOK
<1>1. Inv => TypeOK
  BY DEF Inv
<1> QED
  BY <1>1, InvAlways, PTL

(* LPD never connects an instance to itself, although a cookie is only the *)
(* second it started in and other instances ran on its host before, unless *)
(* it took over the port of a leecher whose LPD threads still ran.         *)
THEOREM NeverToItself == Spec => []NotToItself
<1>1. Inv => NotToItself
  BY DEF Inv
<1> QED
  BY <1>1, InvAlways, PTL

(* However often datagrams come and instances restart, at most one         *)
(* connection because of LPD is open from one instance to another, and at  *)
(* most as many because of the tracker as its list has entries for the     *)
(* other's host.                                                           *)
THEOREM NeverTwice == Spec => []NoDuplicates
<1>1. Inv => NoDuplicates
  <2> SUFFICES ASSUME Inv, NEW i \in Instances, NEW j \in Instances
               PROVE  /\ conns[i][j]["lpd"] <= 1
                      /\ conns[i][j]["tracker"] <= Named(i, j, Len(PeerList[i]))
    BY Zenon DEF NoDuplicates
  <2>1. visited[i] \in Nat /\ Len(PeerList[i]) \in Nat
    BY DEF Inv, TypeOK
  <2>2. /\ Named(i, j, visited[i]) \in Nat /\ Named(i, j, Len(PeerList[i])) \in Nat
        /\ Named(i, j, visited[i]) <= Named(i, j, Len(PeerList[i]))
    BY <2>1, NamedGrows DEF Inv, Remembered, RememberedOf
  <2>3. /\ conns[i][j]["lpd"] <= 1 /\ conns[i][j]["tracker"] \in Nat
        /\ conns[i][j]["tracker"] <= Named(i, j, visited[i])
    BY DEF Inv, TypeOK, Remembered, RememberedOf, Via
  <2> QED
    BY <2>2, <2>3
<1> QED
  BY <1>1, InvAlways, PTL

=============================================================================
