------------------------------ MODULE PeerLoop ------------------------------
(***************************************************************************)
(* The peer threads of one process (src/peer/peer.cpp): each connection    *)
(* has a thread that runs peer_worker or inbound_peer_worker, and they all *)
(* share the manager of Controller.  A step of a thread makes at most one  *)
(* access to the manager; between two of them the other threads, and the   *)
(* main thread, may do anything.                                           *)
(*                                                                         *)
(* The remotes are an open environment: a remote may send any message of   *)
(* Kinds, or close, whenever its thread reads.  It is a peer that speaks   *)
(* the protocol: it asks only for pieces it was told of, and unless        *)
(* Unsolicited it sends a block only to a thread that is waiting for it.   *)
(***************************************************************************)
EXTENDS Controller, Functions

CONSTANTS
    PIPELINE,       \* requests a thread keeps outstanding, 5 in the code
    Kinds,          \* the kinds of message the remotes send
    Unsolicited,    \* may a remote send a block nobody is waiting for?
    SendsMayFail,   \* may send_all fail?
    ReadsTwice      \* does the build read a status twice in all_done, as the
                    \* code is written, or, optimised, once?

MsgIds == {"KeepAlive", "Choke", "Unchoke", "Interested", "NotInterested",
           "Have", "Bitfield", "Request", "Piece", "Cancel"}

ASSUME PeerLoopAssumption ==
    /\ PIPELINE \in Nat \ {0}
    /\ Kinds \subseteq MsgIds
    /\ Unsolicited \in BOOLEAN
    /\ SendsMayFail \in BOOLEAN
    /\ ReadsTwice \in BOOLEAN

VARIABLES
    pc,         \* where each thread is
    state,      \* the PeerState of each thread
    local,      \* its locals: index in all_done, drained Haves, requests left
                \* to visit in a serving pass, block it has just reserved
    told,       \* the pieces its remote was told of, by Bitfield or Have
    broken      \* the threads one of whose sends has failed

vars == <<manager, pc, state, local, told, broken>>

Labels == {"start", "handshake", "greet", "top", "again", "drain", "flush",
           "serve_top", "read", "serve_msg", "ask", "send_request", "probe_have",
           "probe_bitfield", "reset", "choked", "cleanup", "gone"}

NoBlock == <<-1, 0>>

(* peer_interested is written and never read: it is left out.  Requests    *)
(* queued by the remote are a set: neither their order nor a repetition    *)
(* changes what any thread does next.                                      *)
PeerState ==
    [am_choking        : BOOLEAN,
     am_interested     : BOOLEAN,
     peer_choking      : BOOLEAN,
     peer_bitfield     : SUBSET Pieces,
     pending_requests  : [Blocks -> Nat],
     incoming_requests : SUBSET Blocks]

FreshState ==
    [am_choking |-> TRUE, am_interested |-> FALSE, peer_choking |-> TRUE,
     peer_bitfield |-> {}, pending_requests |-> [b \in Blocks |-> 0],
     incoming_requests |-> {}]

Locals == [scan  : Pieces, haves : SUBSET Pieces,
           visit : SUBSET Blocks, req : Blocks \cup {NoBlock}]

FreshLocals == [scan |-> 0, haves |-> {}, visit |-> {}, req |-> NoBlock]

PeerInit ==
    /\ Init
    /\ pc = [p \in Peers |-> "start"]
    /\ state = [p \in Peers |-> FreshState]
    /\ local = [p \in Peers |-> FreshLocals]
    /\ told = [p \in Peers |-> {}]
    /\ broken = {}

Goto(p, label) == pc' = [pc EXCEPT ![p] = label]

At(p, label) == pc[p] = label

SendFails(p) == SendsMayFail /\ broken' = broken \cup {p}

SendWorks(p) == p \notin broken /\ UNCHANGED broken

-----------------------------------------------------------------------------
(* From the connection to the loop.                                        *)

FaultyStart(p) ==                   \* does not register the connection
    /\ At(p, "start")
    /\ Goto(p, "handshake")
    /\ UNCHANGED <<manager, state, local, told, broken>>

Start(p) ==
    /\ At(p, "start")
    /\ RegisterPeer(p)
    /\ Goto(p, "handshake")
    /\ UNCHANGED <<state, local, told, broken>>

(* Both handshakes sent and checked, or any failure among them.            *)
Handshake(p) ==
    /\ At(p, "handshake")
    /\ Goto(p, "greet") \/ Goto(p, "cleanup")
    /\ UNCHANGED <<manager, state, local, told, broken>>

(* Our Bitfield, then, for a leecher, Interested; neither send is checked. *)
Greet(p) ==
    /\ At(p, "greet")
    /\ \/ SendWorks(p) /\ told' = [told EXCEPT ![p] = get_bitfield(manager)]
       \/ SendFails(p) /\ UNCHANGED told
    /\ state' = [state EXCEPT ![p].am_interested = (Mode = "LEECHER")]
    /\ Goto(p, "top")
    /\ UNCHANGED <<manager, local>>

-----------------------------------------------------------------------------
(* The head of the loop: all_done, flush_haves, serve_incoming_requests.   *)

(* A status says that the file is not finished.                            *)
Unfinished(p) ==
    /\ local' = [local EXCEPT ![p].scan = 0]
    /\ Goto(p, "drain")

(* A status does not say so: the next one, or the loop is left.            *)
Passes(p) ==
    \/ /\ local[p].scan + 1 \in Pieces
       /\ local' = [local EXCEPT ![p].scan = @ + 1]
       /\ Goto(p, "top")
    \/ /\ local[p].scan + 1 \notin Pieces
       /\ local' = [local EXCEPT ![p].scan = 0]
       /\ Goto(p, "cleanup")

(* One read of all_done, which takes no lock.  The condition is            *)
(* piece_status[i]==2 or piece_status[i]==0, so that a build that does as  *)
(* it is told, and found something else than 2, reads the status again.    *)
AllDoneReads(p) ==
    /\ At(p, "top")
    /\ LET status == manager.piece_status[local[p].scan]
       IN \/ /\ Mode = "SEEDER" \/ status = 2 \/ (status = 0 /\ ~ ReadsTwice)
             /\ Unfinished(p)
          \/ /\ Mode = "LEECHER" /\ status # 2 /\ ReadsTwice
             /\ Goto(p, "again")
             /\ UNCHANGED local
          \/ /\ Mode = "LEECHER" /\ status = 1 /\ ~ ReadsTwice
             /\ Passes(p)
    /\ UNCHANGED <<manager, state, told, broken>>

(* The second read: whatever is not 0 by now passes.                       *)
AllDoneReadsAgain(p) ==
    /\ At(p, "again")
    /\ LET status == manager.piece_status[local[p].scan]
       IN \/ status = 0 /\ Unfinished(p)
          \/ status # 0 /\ Passes(p)
    /\ UNCHANGED <<manager, state, told, broken>>

Drain(p) ==
    /\ At(p, "drain")
    /\ local' = [local EXCEPT ![p].haves = manager.send_haves[p]]
    /\ DrainHaves(p)
    /\ Goto(p, "flush")
    /\ UNCHANGED <<state, told, broken>>

(* One Have; a failed send drops those that were left.                     *)
SendHave(p) ==
    /\ At(p, "flush")
    /\ \E i \in local[p].haves :
        \/ /\ SendWorks(p)
           /\ local' = [local EXCEPT ![p].haves = @ \ {i}]
           /\ told' = [told EXCEPT ![p] = @ \cup {i}]
        \/ /\ SendFails(p)
           /\ local' = [local EXCEPT ![p].haves = {}]
           /\ UNCHANGED told
    /\ UNCHANGED <<manager, pc, state>>

(* serve_incoming_requests with the state s of the thread: nothing while   *)
(* we choke the remote, else each queued request is visited once.          *)
ToVisit(s) == IF s.am_choking THEN {} ELSE s.incoming_requests

FlushEnds(p) ==
    /\ At(p, "flush")
    /\ local[p].haves = {}
    /\ local' = [local EXCEPT ![p].visit = ToVisit(state[p])]
    /\ Goto(p, "serve_top")
    /\ UNCHANGED <<manager, state, told, broken>>

(* A request get_block has no data for stays queued; a failed send ends    *)
(* the pass.                                                               *)
Serve(p) ==
    /\ pc[p] \in {"serve_top", "serve_msg"}
    /\ \E b \in local[p].visit :
        \/ /\ get_block(manager, b) = "none"
           /\ local' = [local EXCEPT ![p].visit = @ \ {b}]
           /\ UNCHANGED <<state, broken>>
        \/ /\ get_block(manager, b) # "none"
           /\ SendWorks(p)
           /\ local' = [local EXCEPT ![p].visit = @ \ {b}]
           /\ state' = [state EXCEPT ![p].incoming_requests = @ \ {b}]
        \/ /\ get_block(manager, b) # "none"
           /\ SendFails(p)
           /\ local' = [local EXCEPT ![p].visit = {}]
           /\ UNCHANGED state
    /\ UNCHANGED <<manager, pc, told>>

ServeEnds(p) ==
    /\ pc[p] \in {"serve_top", "serve_msg"}
    /\ local[p].visit = {}
    /\ Goto(p, IF At(p, "serve_top") THEN "read" ELSE "top")
    /\ UNCHANGED <<manager, state, local, told, broken>>

-----------------------------------------------------------------------------
(* read_message and the handlers, up to their first access to the manager  *)
(* and including it.                                                       *)

Reads(p, kind) == At(p, "read") /\ kind \in Kinds

(* No message: the remote closed, or the socket was shut down.             *)
ReadFails(p) ==
    /\ At(p, "read")
    /\ Goto(p, "cleanup")
    /\ UNCHANGED <<manager, state, local, told, broken>>

(* KeepAlive, answered in kind, and the ids the switch does not know.      *)
RecvKeepAlive(p) ==
    /\ Reads(p, "KeepAlive")
    /\ Goto(p, "top")
    /\ UNCHANGED <<manager, state, local, told, broken>>

RecvChoke(p) ==
    /\ Reads(p, "Choke")
    /\ state' = [state EXCEPT ![p].peer_choking = TRUE]
    /\ Goto(p, "choked")
    /\ UNCHANGED <<manager, local, told, broken>>

RecvUnchoke(p) ==
    /\ Reads(p, "Unchoke")
    /\ state' = [state EXCEPT ![p].peer_choking = FALSE]
    /\ Goto(p, "ask")
    /\ UNCHANGED <<manager, local, told, broken>>

RecvInterested(p) ==
    /\ Reads(p, "Interested")
    /\ state' = [state EXCEPT ![p].am_choking = FALSE]
    /\ local' = [local EXCEPT ![p].visit = ToVisit(state'[p])]
    /\ Goto(p, "serve_msg")
    /\ UNCHANGED <<manager, told, broken>>

RecvNotInterested(p) ==
    /\ Reads(p, "NotInterested")
    /\ state' = [state EXCEPT ![p].am_choking = TRUE]
    /\ Goto(p, "top")
    /\ UNCHANGED <<manager, local, told, broken>>

(* Both probes reserve the block they find, to see whether there is one,   *)
(* and give it back in a later step.                                       *)
Probe(p, have, b, label) ==
    /\ NextRequest(have, b)
    /\ local' = [local EXCEPT ![p].req = b]
    /\ Goto(p, label)

RecvHave(p, i) ==
    /\ Reads(p, "Have")
    /\ LET have == state[p].peer_bitfield \cup {i}
       IN /\ state' = [state EXCEPT ![p].peer_bitfield = have]
          /\ \/ /\ Mode = "LEECHER" /\ ~ state[p].am_interested
                /\ \E b \in Blocks : Probe(p, have, b, "probe_have")
             \/ /\ \/ Mode = "SEEDER" \/ state[p].am_interested
                   \/ next_request(manager, have) = {}
                /\ Goto(p, "top")
                /\ UNCHANGED <<manager, local>>
    /\ UNCHANGED <<told, broken>>

RecvBitfield(p, have) ==
    /\ Reads(p, "Bitfield")
    /\ \/ /\ \E b \in Blocks : Probe(p, have, b, "probe_bitfield")
          /\ state' = [state EXCEPT ![p].peer_bitfield = have]
       \/ /\ next_request(manager, have) = {}
          /\ state' = [state EXCEPT ![p].peer_bitfield = have,
                                    ![p].am_interested = FALSE]
          /\ Goto(p, "top")
          /\ UNCHANGED <<manager, local>>
    /\ UNCHANGED <<told, broken>>

FaultyRequest(p, b) ==              \* queues the request and does not serve
    /\ Reads(p, "Request")
    /\ b[1] \in told[p]
    /\ state' = [state EXCEPT ![p].incoming_requests =
                    IF state[p].am_choking THEN @ ELSE @ \cup {b}]
    /\ Goto(p, "top")
    /\ UNCHANGED <<manager, local, told, broken>>

(* A request is dropped while we choke the remote.                         *)
RecvRequest(p, b) ==
    /\ Reads(p, "Request")
    /\ b[1] \in told[p]
    /\ \/ /\ state[p].am_choking
          /\ Goto(p, "top")
          /\ UNCHANGED <<state, local>>
       \/ /\ ~ state[p].am_choking
          /\ state' = [state EXCEPT ![p].incoming_requests = @ \cup {b}]
          /\ local' = [local EXCEPT ![p].visit = ToVisit(state'[p])]
          /\ Goto(p, "serve_msg")
    /\ UNCHANGED <<manager, told, broken>>

RecvPiece(p, b, d) ==
    /\ Reads(p, "Piece")
    /\ Unsolicited \/ state[p].pending_requests[b] > 0
    /\ \/ /\ Mode = "SEEDER"
          /\ Goto(p, "top")
          /\ UNCHANGED <<manager, state>>
       \/ /\ Mode = "LEECHER"
          /\ state' = [state EXCEPT ![p].pending_requests[b] = 0]
          /\ ReceivedBlock(b, d)
          /\ Goto(p, "ask")
    /\ UNCHANGED <<local, told, broken>>

RecvCancel(p, b) ==
    /\ Reads(p, "Cancel")
    /\ state' = [state EXCEPT ![p].incoming_requests = @ \ {b}]
    /\ Goto(p, "top")
    /\ UNCHANGED <<manager, local, told, broken>>

-----------------------------------------------------------------------------
(* What the handlers do after their first access.                          *)

FaultyRelease(p, b) ==              \* releases what is not pending
    /\ pc[p] \in {"choked", "cleanup"}
    /\ ReleaseInFlight(b)
    /\ state' = [state EXCEPT ![p].pending_requests[b] = @ - 1]
    /\ UNCHANGED <<pc, local, told, broken>>

(* Choke and cleanup release what is pending, one block at a time.         *)
ReleasePending(p, b) ==
    /\ pc[p] \in {"choked", "cleanup"}
    /\ state[p].pending_requests[b] > 0
    /\ ReleaseInFlight(b)
    /\ state' = [state EXCEPT ![p].pending_requests[b] = @ - 1]
    /\ UNCHANGED <<pc, local, told, broken>>

NothingPending(p) == \A b \in Blocks : state[p].pending_requests[b] = 0

ChokeEnds(p) ==
    /\ At(p, "choked")
    /\ NothingPending(p)
    /\ Goto(p, "top")
    /\ UNCHANGED <<manager, state, local, told, broken>>

ReleaseProbe(p) ==
    /\ pc[p] \in {"probe_have", "probe_bitfield"}
    /\ ReleaseInFlight(local[p].req)
    /\ \/ /\ At(p, "probe_have")
          /\ Goto(p, "top")
          /\ state' = [state EXCEPT ![p].am_interested = TRUE]
          /\ local' = [local EXCEPT ![p].req = NoBlock]
       \/ /\ At(p, "probe_bitfield")
          /\ Goto(p, "reset")
          /\ UNCHANGED <<state, local>>
    /\ UNCHANGED <<told, broken>>

(* manager.piece_status[req->piece_index] = 0, without the lock.           *)
ResetProbed(p) ==
    /\ At(p, "reset")
    /\ ResetStatus(local[p].req[1])
    /\ state' = [state EXCEPT ![p].am_interested = TRUE]
    /\ local' = [local EXCEPT ![p].req = NoBlock]
    /\ Goto(p, "top")
    /\ UNCHANGED <<told, broken>>

(* request_next_blocks: fill the pipeline, a reservation and a send each.  *)
MayAsk(p) ==
    /\ ~ state[p].peer_choking
    /\ state[p].am_interested
    /\ FoldFunction(+, 0, state[p].pending_requests) < PIPELINE

Ask(p) ==
    /\ At(p, "ask")
    /\ MayAsk(p)
    /\ \E b \in Blocks : /\ NextRequest(state[p].peer_bitfield, b)
                         /\ local' = [local EXCEPT ![p].req = b]
    /\ Goto(p, "send_request")
    /\ UNCHANGED <<state, told, broken>>

AskEnds(p) ==
    /\ At(p, "ask")
    /\ ~ MayAsk(p) \/ next_request(manager, state[p].peer_bitfield) = {}
    /\ Goto(p, "top")
    /\ UNCHANGED <<manager, state, local, told, broken>>

SendRequest(p) ==
    /\ At(p, "send_request")
    /\ SendWorks(p)
    /\ state' = [state EXCEPT ![p].pending_requests[local[p].req] = @ + 1]
    /\ local' = [local EXCEPT ![p].req = NoBlock]
    /\ Goto(p, "ask")
    /\ UNCHANGED <<manager, told>>

FaultySendFails(p) ==               \* does not release the block it could not ask for
    /\ At(p, "send_request")
    /\ SendFails(p)
    /\ local' = [local EXCEPT ![p].req = NoBlock]
    /\ Goto(p, "top")
    /\ UNCHANGED <<manager, state, told>>

SendRequestFails(p) ==
    /\ At(p, "send_request")
    /\ SendFails(p)
    /\ ReleaseInFlight(local[p].req)
    /\ local' = [local EXCEPT ![p].req = NoBlock]
    /\ Goto(p, "top")
    /\ UNCHANGED <<state, told>>

FaultyCleanup(p) ==                 \* releases everybody's blocks
    /\ At(p, "cleanup")
    /\ manager' = [unregister_peer(manager, p) EXCEPT !.inflight = {}]
    /\ Goto(p, "gone")
    /\ state' = [state EXCEPT ![p] = FreshState]
    /\ local' = [local EXCEPT ![p] = FreshLocals]
    /\ told' = [told EXCEPT ![p] = {}]
    /\ broken' = broken \ {p}

(* The thread unregisters, closes its socket and returns.                  *)
CleanupEnds(p) ==
    /\ At(p, "cleanup")
    /\ NothingPending(p)
    /\ UnregisterPeer(p)
    /\ Goto(p, "gone")
    /\ state' = [state EXCEPT ![p] = FreshState]
    /\ local' = [local EXCEPT ![p] = FreshLocals]
    /\ told' = [told EXCEPT ![p] = {}]
    /\ broken' = broken \ {p}

-----------------------------------------------------------------------------
(* What a thread does on its own once it is in the loop.                   *)
ThreadStep(p) ==
    \/ Greet(p) \/ AllDoneReads(p) \/ AllDoneReadsAgain(p)
    \/ Drain(p) \/ SendHave(p) \/ FlushEnds(p) \/ Serve(p) \/ ServeEnds(p)
    \/ \E b \in Blocks : ReleasePending(p, b)
    \/ ChokeEnds(p) \/ ReleaseProbe(p) \/ ResetProbed(p)
    \/ Ask(p) \/ AskEnds(p) \/ SendRequest(p) \/ SendRequestFails(p)
    \/ CleanupEnds(p)

(* A message arrives.                                                      *)
Recv(p) ==
    \/ RecvKeepAlive(p) \/ RecvChoke(p) \/ RecvUnchoke(p)
    \/ RecvInterested(p) \/ RecvNotInterested(p)
    \/ \E i \in Pieces : RecvHave(p, i)
    \/ \E have \in SUBSET Pieces : RecvBitfield(p, have)
    \/ \E b \in Blocks : RecvRequest(p, b) \/ RecvCancel(p, b)
    \/ \E b \in Blocks, d \in Data : RecvPiece(p, b, d)

MainThread ==
    /\ WaitUntilDone \/ SpuriousWakeup
    /\ UNCHANGED <<pc, state, local, told, broken>>

PeerNext ==
    \/ \E p \in Peers : Start(p) \/ Handshake(p) \/ ReadFails(p)
    \/ \E p \in Peers : ThreadStep(p) \/ Recv(p)
    \/ MainThread

PeerSpec == PeerInit /\ [][PeerNext]_vars

-----------------------------------------------------------------------------
InLoop == {p \in Peers : pc[p] \notin {"start", "handshake", "greet", "cleanup", "gone"}}

PeerTypeOK ==
    /\ TypeOK
    /\ pc \in [Peers -> Labels]
    /\ state \in [Peers -> PeerState]
    /\ local \in [Peers -> Locals]
    /\ told \in [Peers -> SUBSET Pieces]
    /\ broken \subseteq Peers

(* The thread p answers for block b: it waits for it, or has it in hand.   *)
Owns(p, b) ==
    \/ state[p].pending_requests[b] > 0
    \/ /\ pc[p] \in {"send_request", "probe_have", "probe_bitfield"}
       /\ local[p].req = b

(* A block in flight is always somebody's: no choke, failed send, probe,   *)
(* disconnection or stale answer leaves a reservation nobody will release, *)
(* which would keep next_request from ever handing the block out again.    *)
NoOrphanInflight == \A b \in manager.inflight : \E p \in Peers : Owns(p, b)

(* While remotes answer only what they were asked, a block is asked of one *)
(* remote at a time, once, and stays reserved until it is answered or      *)
(* given back.                                                             *)
OneOwner ==
    \A p, q \in Peers, b \in Blocks :
        /\ Owns(p, b) => b \in manager.inflight
        /\ state[p].pending_requests[b] <= 1
        /\ Owns(p, b) /\ Owns(q, b) => p = q

(* No completed piece is forgotten: while its connection works, each piece *)
(* that is done is one the remote was told of, or one queued for it, or    *)
(* one its thread is about to send.  register_peer comes before the        *)
(* Bitfield is read, so no piece falls between the two.                    *)
NothingUnannounced ==
    \A p \in InLoop \ broken :
        Done(manager) \subseteq told[p] \cup manager.send_haves[p] \cup local[p].haves

(* A remote is told only of pieces whose verified bytes are in the file,   *)
(* even of those whose status was reset before the Have was sent.          *)
ToldTruth == \A p \in Peers : \A i \in told[p] : manager.disk[i] = "good"

(* A thread "exits cleanly when all pieces are downloaded" (README.md:53), *)
(* "my god whole file received" (Controller.hpp:145): it leaves the loop   *)
(* because of all_done only when the whole file is on disk.  all_done      *)
(* reads each status at another moment, without the lock, while others may *)
(* reset or download again.  Where it reads one twice this is not so.      *)
ExitOnlyWhenComplete ==
    [][\A p \in Peers : pc[p] \in {"top", "again"} /\ pc'[p] = "cleanup"
            => \A i \in Pieces : manager.disk[i] = "good"]_vars

(* "Every request is served instantly" (peer.cpp:115): at the head of the  *)
(* loop no request for a block that is in the file is left, unless we      *)
(* choke the remote or a send failed.                                      *)
ServedInstantly ==
    \A p \in InLoop \ broken :
        pc[p] = "top" /\ ~ state[p].am_choking
            => \A b \in state[p].incoming_requests : manager.disk[b[1]] = "absent"

(* The threads use the manager as Controller allows: each of their steps   *)
(* is one call of it, or none.                                             *)
ImplementsController == Spec

=============================================================================
