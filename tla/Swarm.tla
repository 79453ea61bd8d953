-------------------------------- MODULE Swarm --------------------------------
(***************************************************************************)
(* Several processes of this program, connected to each other: every       *)
(* connection has a thread at each end (src/peer/peer.cpp), and what one   *)
(* sends is what the other reads, in order.  PeerLoop has one process and  *)
(* remotes that may send anything; here the remotes are the program too,   *)
(* so that one can ask whether a download ends.                            *)
(*                                                                         *)
(* The grain is coarser than PeerLoop's: the head of the loop is one step, *)
(* and so is reading a message with all its handler does.  That all_done   *)
(* sees all statuses at once stands for a build that reads each of them    *)
(* once; PeerLoop has the one that reads them twice (ReadsTwice).  The     *)
(* shared manager of each process is Controller's record, with its methods.*)
(***************************************************************************)
EXTENDS PieceGeometry, FiniteSets, Sequences

CONSTANTS
    Seeders,        \* the processes started with the whole file
    Leechers,       \* the processes started without it
    Topologies,     \* the sets of connections to try: <<p, q>> when p connected
    PIPELINE        \* requests a thread keeps outstanding, 5 in the code

Processes == Seeders \cup Leechers

(* A thread is named by its process and the process it is connected to.    *)
Pairs == {e \in Processes \X Processes : e[1] # e[2]}

ASSUME SwarmAssumption ==
    /\ Seeders \cap Leechers = {}
    /\ Topologies \subseteq SUBSET Pairs
    /\ \A topology \in Topologies : \A e \in topology : <<e[2], e[1]>> \notin topology
    /\ PIPELINE \in Nat \ {0}

VARIABLES
    links,      \* the connections, each named by the process that made it
    managers,   \* the manager of each process
    conn,       \* the state of each thread
    net         \* net[p, q]: what p sent to q and q has not read yet

vars == <<links, managers, conn, net>>

ModeOf(p) == IF p \in Seeders THEN "SEEDER" ELSE "LEECHER"

FileOf(p) == [i \in Pieces |-> IF p \in Seeders THEN "good" ELSE "absent"]

M(p) == INSTANCE Controller WITH
            manager <- managers[p], Mode <- ModeOf(p), Peers <- Processes,
            Data <- {"good"}, InitialDisks <- {FileOf(p)}, DiskMayFail <- FALSE

Opposite(e) == <<e[2], e[1]>>

Ends == links \cup {Opposite(e) : e \in links}

Connection ==
    [at             : {"start", "handshake", "head", "read", "gone"},
     am_choking     : BOOLEAN,
     am_interested  : BOOLEAN,
     peer_choking   : BOOLEAN,
     peer_bitfield  : SUBSET Pieces,
     pending        : {bs \in SUBSET Blocks : Cardinality(bs) <= PIPELINE},
     incoming       : SUBSET Blocks]

Fresh == [at |-> "start", am_choking |-> TRUE, am_interested |-> FALSE,
          peer_choking |-> TRUE, peer_bitfield |-> {}, pending |-> {}, incoming |-> {}]

NoBlock == <<-1, 0>>

Message == [id : {"Unchoke", "Choke", "Interested", "NotInterested", "Bitfield",
                  "Have", "Request", "Piece"},
            pieces : SUBSET Pieces, block : Blocks \cup {NoBlock}]

Plain(id)        == [id |-> id, pieces |-> {}, block |-> NoBlock]
BitfieldMsg(set) == [id |-> "Bitfield", pieces |-> set, block |-> NoBlock]
HaveMsg(i)       == [id |-> "Have", pieces |-> {i}, block |-> NoBlock]
BlockMsg(id, b)  == [id |-> id, pieces |-> {}, block |-> b]

Init ==
    /\ links \in Topologies
    /\ managers = [p \in Processes |-> M(p)!Constructed(FileOf(p))]
    /\ conn = [e \in Pairs |-> Fresh]
    /\ net = [e \in Pairs |-> <<>>]

-----------------------------------------------------------------------------
Complete(p) == Pieces \subseteq M(p)!Done(managers[p])

(* What is sent to a thread that has closed is lost.                       *)
Delivered(n, e, msgs) ==
    IF conn[Opposite(e)].at = "gone" THEN n ELSE [n EXCEPT ![e] = @ \o msgs]

(* The block messages for the blocks bs, in file order: the kth is the one *)
(* with k of them up to it.                                                *)
InOrder(p, id, bs) ==
    [k \in 1 .. Cardinality(bs) |->
        BlockMsg(id, CHOOSE b \in bs : Cardinality({a \in bs : M(p)!NotAfter(a, b)}) = k)]

HavesInOrder(set) ==
    [k \in 1 .. Cardinality(set) |->
        HaveMsg(CHOOSE i \in set : Cardinality({j \in set : j <= i}) = k)]

(* request_next_blocks, for a thread of p in state s and a manager c: the  *)
(* first blocks next_request would hand out, until the pipeline is full.   *)
Asked(p, s, c) ==
    LET candidates == M(p)!Candidates(c, s.peer_bitfield)
    IN {b \in candidates :
           /\ ModeOf(p) = "LEECHER" /\ ~ s.peer_choking /\ s.am_interested
           /\ Cardinality({a \in candidates : M(p)!NotAfter(a, b)})
                  <= PIPELINE - Cardinality(s.pending)}

(* The manager c after the blocks bs were reserved, or released, one after *)
(* the other: in what order makes no difference.                           *)
Reserved(c, bs) ==
    [c EXCEPT !.inflight = @ \cup bs,
              !.piece_status = [i \in Pieces |-> IF \E b \in bs : b[1] = i THEN 2 ELSE @[i]]]

Released(c, bs) == [c EXCEPT !.inflight = @ \ bs]

(* serve_incoming_requests: the queued requests there is data for.         *)
Served(p, s, c) ==
    {b \in s.incoming : ~ s.am_choking /\ M(p)!get_block(c, b) # "none"}

-----------------------------------------------------------------------------
(* From the connection to the loop.  The thread that connected sends its   *)
(* handshake first; the other one answers.                                 *)

Start(e) ==
    /\ conn[e].at = "start"
    /\ managers' = [managers EXCEPT ![e[1]] = M(e[1])!register_peer(@, e[2])]
    /\ conn' = [conn EXCEPT ![e].at = "handshake"]
    /\ UNCHANGED <<links, net>>

HandshakeArrived(e) ==
    IF e \in links THEN conn[Opposite(e)].at \notin {"start", "handshake"}
                   ELSE conn[Opposite(e)].at # "start"

Greeting(p) ==
    <<BitfieldMsg(M(p)!get_bitfield(managers[p]))>>
    \o IF ModeOf(p) = "LEECHER" THEN <<Plain("Interested")>> ELSE <<>>

Greet(e) ==
    /\ conn[e].at = "handshake" /\ HandshakeArrived(e)
    /\ conn' = [conn EXCEPT ![e].at = "head",
                            ![e].am_interested = (ModeOf(e[1]) = "LEECHER")]
    /\ net' = Delivered(net, e, Greeting(e[1]))
    /\ UNCHANGED <<links, managers>>

-----------------------------------------------------------------------------
(* The head of the loop.                                                   *)

(* The thread gives back what it waits for, unregisters and closes.        *)
Leaves(e) ==
    /\ managers' = [managers EXCEPT ![e[1]] =
                       M(e[1])!unregister_peer(Released(@, conn[e].pending), e[2])]
    /\ conn' = [conn EXCEPT ![e] = [Fresh EXCEPT !.at = "gone"]]
    /\ net' = [net EXCEPT ![Opposite(e)] = <<>>]
    /\ UNCHANGED links

AllDone(e) ==
    /\ conn[e].at = "head"
    /\ ModeOf(e[1]) = "LEECHER" /\ Complete(e[1])
    /\ Leaves(e)

FlushAndServe(e) ==
    LET p == e[1]
        c == managers[p]
        served == Served(p, conn[e], c)
    IN /\ conn[e].at = "head"
       /\ ~ (ModeOf(p) = "LEECHER" /\ Complete(p))
       /\ managers' = [managers EXCEPT ![p] = M(p)!drain_haves(c, e[2])]
       /\ conn' = [conn EXCEPT ![e].at = "read", ![e].incoming = @ \ served]
       /\ net' = Delivered(net, e, HavesInOrder(c.send_haves[e[2]])
                                   \o InOrder(p, "Piece", served))
       /\ UNCHANGED links

(* read_message fails: the other end has closed, whether or not all it     *)
(* sent was read, or the main thread has shut down a socket it opened.     *)
ReadFails(e) ==
    /\ conn[e].at \in {"handshake", "read"}
    /\ \/ conn[Opposite(e)].at = "gone"
       \/ e \in links /\ ModeOf(e[1]) = "LEECHER" /\ Complete(e[1])
    /\ Leaves(e)

-----------------------------------------------------------------------------
(* A message and its handler.                                              *)

Msg(e) == Head(net[Opposite(e)])

Reads(e, id) == /\ conn[e].at = "read"
                /\ net[Opposite(e)] # <<>>
                /\ Msg(e).id = id

(* The handler leaves the thread in state s and the manager as c, and has  *)
(* sent msgs.                                                              *)
Handled(e, s, c, msgs) ==
    /\ conn' = [conn EXCEPT ![e] = [s EXCEPT !.at = "head"]]
    /\ managers' = [managers EXCEPT ![e[1]] = c]
    /\ net' = Delivered([net EXCEPT ![Opposite(e)] = Tail(@)], e, msgs)
    /\ UNCHANGED links

HandledAsking(e, s, c) ==
    LET asked == Asked(e[1], s, c)
    IN Handled(e, [s EXCEPT !.pending = @ \cup asked], Reserved(c, asked),
               InOrder(e[1], "Request", asked))

HandledServing(e, s, msgs) ==
    LET served == Served(e[1], s, managers[e[1]])
    IN Handled(e, [s EXCEPT !.incoming = @ \ served], managers[e[1]],
               msgs \o InOrder(e[1], "Piece", served))

RecvChoke(e) ==
    /\ Reads(e, "Choke")
    /\ Handled(e, [conn[e] EXCEPT !.peer_choking = TRUE, !.pending = {}],
               Released(managers[e[1]], conn[e].pending), <<>>)

RecvUnchoke(e) ==
    /\ Reads(e, "Unchoke")
    /\ HandledAsking(e, [conn[e] EXCEPT !.peer_choking = FALSE], managers[e[1]])

RecvInterested(e) ==
    /\ Reads(e, "Interested")
    /\ HandledServing(e, [conn[e] EXCEPT !.am_choking = FALSE], <<Plain("Unchoke")>>)

RecvNotInterested(e) ==
    /\ Reads(e, "NotInterested")
    /\ Handled(e, [conn[e] EXCEPT !.am_choking = TRUE], managers[e[1]], <<Plain("Choke")>>)

(* The block a probe reserves and gives back leaves its piece ongoing.     *)
Probed(p, c, have) ==
    LET found == M(p)!next_request(c, have)
    IN Released(Reserved(c, found), found)

RecvHave(e) ==
    LET p == e[1]
        c == managers[p]
        s == [conn[e] EXCEPT !.peer_bitfield = @ \cup Msg(e).pieces]
        asks == /\ ModeOf(p) = "LEECHER" /\ ~ s.am_interested
                /\ M(p)!next_request(c, s.peer_bitfield) # {}
    IN /\ Reads(e, "Have")
       /\ \/ /\ asks
             /\ Handled(e, [s EXCEPT !.am_interested = TRUE],
                        Probed(p, c, s.peer_bitfield), <<Plain("Interested")>>)
          \/ ~ asks /\ Handled(e, s, c, <<>>)

(* Interested is sent only if it was not already; the piece that was       *)
(* probed is marked as not there.                                          *)
RecvBitfield(e) ==
    LET p == e[1]
        c == managers[p]
        s == [conn[e] EXCEPT !.peer_bitfield = Msg(e).pieces]
        found == M(p)!next_request(c, s.peer_bitfield)
    IN /\ Reads(e, "Bitfield")
       /\ \/ /\ ModeOf(p) = "SEEDER"
             /\ Handled(e, s, c, <<>>)
          \/ /\ ModeOf(p) = "LEECHER" /\ found = {}
             /\ Handled(e, [s EXCEPT !.am_interested = FALSE], c, <<Plain("NotInterested")>>)
          \/ /\ ModeOf(p) = "LEECHER"
             /\ \E b \in found :
                   Handled(e, [s EXCEPT !.am_interested = TRUE],
                           [c EXCEPT !.piece_status[b[1]] = 0],
                           IF s.am_interested THEN <<>> ELSE <<Plain("Interested")>>)

FaultyRequest(e) ==                 \* takes a remote it has unchoked for a choked one
    /\ Reads(e, "Request")
    /\ Handled(e, conn[e], managers[e[1]], <<>>)

RecvRequest(e) ==
    /\ Reads(e, "Request")
    /\ \/ conn[e].am_choking /\ Handled(e, conn[e], managers[e[1]], <<>>)
       \/ /\ ~ conn[e].am_choking
          /\ HandledServing(e, [conn[e] EXCEPT !.incoming = @ \cup {Msg(e).block}], <<>>)

FaultyPiece(e) ==                   \* does not refill the pipeline
    /\ Reads(e, "Piece")
    /\ \/ ModeOf(e[1]) = "SEEDER" /\ Handled(e, conn[e], managers[e[1]], <<>>)
       \/ /\ ModeOf(e[1]) = "LEECHER"
          /\ \E c \in M(e[1])!received_block(managers[e[1]], Msg(e).block, "good") :
                Handled(e, [conn[e] EXCEPT !.pending = @ \ {Msg(e).block}], c, <<>>)

RecvPiece(e) ==
    /\ Reads(e, "Piece")
    /\ \/ ModeOf(e[1]) = "SEEDER" /\ Handled(e, conn[e], managers[e[1]], <<>>)
       \/ /\ ModeOf(e[1]) = "LEECHER"
          /\ \E c \in M(e[1])!received_block(managers[e[1]], Msg(e).block, "good") :
                HandledAsking(e, [conn[e] EXCEPT !.pending = @ \ {Msg(e).block}], c)

-----------------------------------------------------------------------------
Thread(e) ==
    \/ Start(e) \/ Greet(e) \/ AllDone(e) \/ FlushAndServe(e) \/ ReadFails(e)
    \/ RecvChoke(e) \/ RecvUnchoke(e) \/ RecvInterested(e) \/ RecvNotInterested(e)
    \/ RecvHave(e) \/ RecvBitfield(e) \/ RecvRequest(e) \/ RecvPiece(e)

Next == \E e \in Ends : Thread(e)

Spec == Init /\ [][Next]_vars

(* Every thread that can take a step does.  A message sent on a connection *)
(* that works arrives.                                                     *)
FairSpec == Spec /\ \A e \in Pairs : WF_vars(e \in Ends /\ Thread(e))

-----------------------------------------------------------------------------
TypeOK ==
    /\ links \in Topologies
    /\ \A p \in Processes : managers[p] \in M(p)!Managers
    /\ conn \in [Pairs -> Connection]
    /\ net \in [Pairs -> Seq(Message)]

(* Seen from outside, verified pieces pass from one process to another it  *)
(* is connected to, and stay: each step is one more piece that a leecher   *)
(* has from a process that holds it, or nothing.                           *)
Held(p) == {i \in Pieces : managers[p].disk[i] = "good"}

D == INSTANCE Dissemination WITH have <- [p \in Processes |-> Held(p)]

ImplementsDissemination == D!Spec

(* A process believes of another only what that one has verified on disk.  *)
BelievedIsHeld ==
    \A e \in Ends, i \in Pieces :
        i \in conn[e].peer_bitfield => managers[e[2]].disk[i] = "good"

InLoop(e) == conn[e].at \in {"head", "read"}

InTransit(e, id, b) == \E k \in 1 .. Len(net[e]) : net[e][k] = BlockMsg(id, b)

(* A block one end waits for is never forgotten between the two: as long   *)
(* as both are there, its Request is on the way or queued by the other     *)
(* end, or the Piece, or a Choke that will give it up, is on the way back. *)
NoRequestLost ==
    \A e \in Ends :
        InLoop(e) /\ InLoop(Opposite(e)) =>
            \A b \in conn[e].pending :
                \/ InTransit(e, "Request", b)
                \/ b \in conn[Opposite(e)].incoming
                \/ InTransit(Opposite(e), "Piece", b)
                \/ \E k \in 1 .. Len(net[Opposite(e)]) : net[Opposite(e)][k].id = "Choke"

(* A leecher connected to a seeder ends up with the whole file, whoever    *)
(* else it is connected to, here: it might not with two leechers also      *)
(* connected to each other, or where all_done reads a status twice and a   *)
(* thread leaves too early, see the README.                                *)
DownloadsEnd ==
    \A p \in Leechers : (\E q \in Seeders : <<p, q>> \in Ends) ~> Complete(p)

(* "Sends Have messages after each completed piece" (README.md:52): a      *)
(* process learns of each piece the other end of a connection completes,   *)
(* unless one of them closes it.                                           *)
HavesReach ==
    \A e \in Pairs, i \in Pieces :
        (e \in Ends /\ InLoop(e) /\ InLoop(Opposite(e)) /\ i \in M(e[1])!Done(managers[e[1]]))
            ~> (i \in conn[Opposite(e)].peer_bitfield \/ ~ InLoop(e) \/ ~ InLoop(Opposite(e)))

=============================================================================
