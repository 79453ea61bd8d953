# Verification of BitTorrent Lite

TLA+ modules, TLC configurations and TLAPS proofs for the C++ client, seeder and
leecher in `src/`. Line numbers are those of `src/src/...`.

## 1. Inventory

| Component | State it keeps | Operations | Interacts by |
|---|---|---|---|
| **Controller** (`Controller/Controller.hpp`), the shared piece manager | `piece_status` (0 not there, 1 done, 2 ongoing), `inflight`, `piece_blocks`, `send_haves`, the output file, `mtx`, `cv` | `next_request`, `received_block`, `write_to_disk`, `get_block`, `get_bitfield`, `release_in_flight`, `register_peer`, `unregister_peer`, `drain_haves`, `all_done`, `wait_until_done` | called by every peer thread and by the main thread; most methods hold `mtx`, `all_done` and `get_block` do not |
| **Peer threads** (`peer/peer.cpp`), one per connection | `PeerState`: choke and interest flags, the remote's bitfield, pending requests, queued incoming requests | handshake, the loop (exit test, flush Haves, serve, read, handle one of ten messages), cleanup | shared Controller; messages with the remote |
| **Framing, handshake, sockets** (`peer/peer_messaging.cpp`, `peer.cpp`, `utils/socket_utils.cpp`) | the bytes sent and received so far | build and read length-prefixed messages, `recv_exact`, `send_all`, the two handshakes | called by the peer threads; a TCP stream with the remote |
| **Leecher** (`leecher/leecher.cpp`) | thread list and its mutex, sockets | ask the tracker, start threads, connect, wait, close, join | starts all threads, sleeps on `cv` |
| **Seeder** (`seeder/seeder.cpp`) | the same | the same, then joins the listener | |
| **Listener** (`listener/listener.cpp`) | | accept, start a thread | pushes to the thread list |
| **LPD** (`lpd/lpd.cpp`) | `known_peers`, cookie | broadcast, receive, connect, start a thread | multicast datagrams; pushes to the thread list |
| **Tracker program** (`Tracker.cpp`) and request (`Requestor/`, `connect_to_specific`, `recv_inf`) | the client it serves | accept, read the request, answer, close | one TCP exchange with an instance that starts |
| **Bencode, encoder** (`Parser/decoder.cpp`, `main.cpp`) | position in the data | parse a torrent or a response, skip unknown values, create a torrent | called at startup, with what a file or the tracker's connection held |
| **Swarm**: several processes | their managers, both threads of each connection, what is on the way | the messages of one are read by the other | ordered channels |

How they interact. The main thread of a leecher creates one Controller and one
thread list, starts the listener and two detached LPD threads, connects to the
tracker's peers and then sleeps on the Controller's condition variable. Every
connection, whoever made it, gets a thread that runs the same loop. The threads
share nothing but the Controller; they meet in its mutex, in `piece_status`, which
some code reads and writes without the mutex, and in the output file.

What is hard here: any two peer threads interleave between two calls of the
Controller; a block is *reserved* long before it arrives and the reservation must
survive chokes, failed sends and disconnections without being lost or doubled;
statuses are reset behind other threads' backs; Haves cross Bitfields; the file on
disk may be an earlier run's, and writing it may fail; the shutdown closes and
joins while connections still arrive; two instances of the program can each wait for
the other; instances are killed and restarted while datagrams they sent are still
unread; a TCP stream is cut anywhere, and so is a file or response that is parsed.
`PROJECT.json` lists these hazards line by
line with the properties that watch them.

What makes each part correct:

- Controller: a piece is marked done only when its verified bytes are on disk, and
  while the disk works such bytes are never lost; only verified data is served; the main thread wakes
  when the last piece is done, and not before; no assembled piece is left behind.
- Peer threads: every block in flight has exactly one thread that answers for it;
  every completed piece reaches every connected remote; remotes are told only the
  truth; a thread exits only when the file is complete; requests that can be
  served are.
- Leecher, listener, LPD: no thread started before the return outlives the locals it
  borrows; a remote is contacted at most once; nothing but an open connection delays the
  exit.
- Swarm: no request is forgotten between two threads, nobody believes of another what
  it does not hold, and a leecher connected to a seeder gets the file.
- Discovery: LPD connects nobody to itself or twice to another, the tracker's list nobody
  more often than it says, and two instances that stay up are connected in the end.
- Framing: what one end writes the other reads, field by field, however the stream
  cuts it; neither end is left waiting for bytes that do not come.
- Bencode: a whole document is read exactly; of a cut one nothing is made up; parsing
  ends.

## 2. Modules

| Module | Models | Depends on |
|---|---|---|
| `PieceGeometry` | how the file is cut into pieces and blocks (`piece_length_for`, `count_blocks`) | |
| `Controller` | the piece manager: each method an operator on a record, each call an action | `PieceGeometry` |
| `PeerLoop` | the peer threads of one process and their remotes | `Controller` |
| `Download` | abstract: pieces are saved one by one, none is lost, `wait_until_done` returns with all | |
| `Lifecycle` | main, listener, LPD listener and peer threads of `run_leecher` | |
| `Swarm` | several processes, both ends of every connection | `PieceGeometry`, an instance of `Controller` for each process |
| `Dissemination` | abstract: verified pieces pass, one at a time, from a process that holds them to one it is connected to | |
| `Discovery` | instances starting, ending, restarting; the tracker; LPD | |
| `Framing` | one connection byte by byte: handshakes, messages, `recv_exact`, `send_all` | |
| `Bencode` | writing and parsing torrents and tracker responses | |
| `MCController`, `MCPeerLoop`, `MCLifecycle`, `MCSwarm`, `MCDiscovery`, `MCFraming`, `MCBencode` | the instances TLC checks | |
| `ControllerProofs` | proofs about `Controller`; it implements `Download` | `Controller` |
| `PeerLoopProofs` | types of the threads; the threads implement `Controller`; every block in flight has one owner | `PeerLoop`, `ControllerProofs` |
| `AnnouncementProofs` | Haves: none forgotten, none false; when a thread leaves; what a seeder serves | `PeerLoopProofs` |
| `LifecycleProofs` | what holds when `run_leecher` returns; what LPD remembers | `Lifecycle` |
| `DiscoveryProofs` | no connection to itself, none made twice | `Discovery` |
| `SwarmProofs` | what processes believe of each other; no request is lost between two threads; it implements `Dissemination` | `Swarm` |
| `FramingProofs` | what one end reads is what the other sent; where the threads may come to rest | `Framing` |
| `BencodeProofs` | what is read of a document, whole or cut; that `create_torrent`'s are read as they were written | `Bencode` |

The refinements: `PeerLoop` implements `Controller` (`ImplementsController`), and
`Controller` implements `Download` (`ImplementsDownload`, with `have` the pieces whose
bytes on disk are good and `returned` the waiter's last state). Both are checked by TLC
and proved, and so is their composition. `Swarm` calls `Controller`'s operators, one
instance for each process, and implements `Dissemination` (`ImplementsDissemination`, with
`have[p]` the pieces whose bytes on p's disk are good), which is checked and proved too.

Definitions whose names begin with `Faulty` are one plausible slip in the
definition they precede. No specification uses them; `PROJECT.json` records, under
"mutants", which property catches which slip.

### Controller

The members of the class are the fields of the record `manager`; every method is an
operator from a record to the record, or the records, it leaves, with the method's
name (`next_request`, `received_block`, ...), so a swarm of processes can be built
from the same operators. A method that holds `mtx` is one step. `next_request`
returns the first candidate in file order, or `{}` for `std::nullopt`. `received_block` is whole: length check, `inflight.erase`, store, assemble, hash,
then reject, or write, mark, queue the Haves and notify.

Three things happen outside the lock. `get_block` reads a status and then the file;
it changes nothing, and `ServedIsVerified` is about what it would return. `all_done` reads the statuses one by one: `PeerLoop` gives it one step per
read. The Bitfield handler's `piece_status = 0` (`peer.cpp:208`) is the action
`ResetStatus`; a locked section reads or writes each status once, or only finds 1
where nobody else can write 1, so a write inside such a section amounts to one
before or after it.

Bytes are reduced to what matters: a block is `good`, `bad` (right length, other
bytes) or `short` (wrong length); a piece of the file is `absent`, `zeros`, `bad` or
`good`. SHA-1 is taken to be free of collisions. `write_to_disk` leaves one of a set
of files: the written one and, when the disk may fail, an untouched one, one in which the
piece was written in part, and, whenever the first open fails, for whatever reason, the
one that `ofstream create(filename)` leaves: nothing of a file that was there (`Empty`),
zeros (`Zeroed`), or either with the piece written or torn. No stream state but that of
the first open is ever checked.

`waiter` is the main thread in `wait_until_done`: `checking` the predicate,
`asleep`, or `returned`. A notification turns `asleep` into `checking`.

### PeerLoop

`pc[p]` is where thread p is; a step makes at most one call of the manager, so
everything the code does between two calls can be interleaved with the other
threads. The labels follow the code: `top` and `again` (`all_done`), `drain` and `flush`
(`flush_haves`), `serve_top`, `read`, one `Recv...` action per case of the switch,
and, for the handlers that call the manager more than once, labels for what is left
(`choked`, `probe_have`, `probe_bitfield`, `reset`, `ask`, `send_request`,
`serve_msg`, `cleanup`). `PeerState` is the struct, without `peer_interested`,
which is written and never read. `send_haves` and `incoming_requests` are sets:
the code drains or visits all of them, and neither order nor repetition changes
what follows.

`all_done` says `piece_status[i]==2 or piece_status[i]==0` and holds no lock, which C++
calls a data race. `ReadsTwice` tells two builds apart: one that does as the code says and
reads the status again when it was not 2, as a build without optimisation does (CMake
without a build type, `README.md:121`, or Debug, `README.md:192`), and one that keeps the
value in a register, as a Release build (`README.md:186`) may.

The remotes are an environment: at each read a remote may send any message of
`Kinds` or close. It asks only for blocks that exist, of pieces it was told of.
Unless `Unsolicited`, it sends a block only to a thread waiting for it. A send that
fails breaks its connection: later sends on it fail too. `told` and `broken` record the environment's side.

### Lifecycle

Lines 74 to 137 of `leecher.cpp`, `listener_thread`, and the receiving half of
`lpd.cpp`. A peer thread is reduced to: reading the handshake, working, blocked in
`recv`, ended. The threads mutex is held only for an `emplace_back`, one step, and
by the main thread from the joins to its return (`MutexFree`). `CloseWakesAccept`
tells the two systems apart: macOS ends an `accept` whose descriptor is closed,
Linux lets it wait on. The LPD thread is detached: one that waits for the mutex while the
main thread joins gets it when `run_leecher` returns, and pushes a thread over locals that
are being destroyed (`LpdPushesLate`; the thread is then an `orphan`). That is undefined:
it may as well be stuck in the mutex (`dangling`), or end the program with a joinable
thread in the vector. `hand` is the connection a starting thread has made and not
yet given a thread; `cut` are the sockets the main thread has shut down.

### Swarm

`links` says who connected to whom; each connection has two threads, `conn[p, q]` being
p's thread to q, and `net[p, q]` is what p sent to q and q has not read. The grain is
coarser than `PeerLoop`'s: the head of the loop (exit test, flush, serve) is one step,
and so is reading a message with all its handler does. An exit test in one step is that
of a build that reads each status once; with one that reads them twice a thread may leave
too early (`early_exit`), and if it was the one to the seeder, nobody else may ever ask
for the blocks that it gives back: `DownloadsEnd` would not hold. What can happen inside a handler
is `PeerLoop`'s subject (Requests go out in file order, which `InOrder` gets by
ranking the members of a set; of several Haves sent together the order does not matter);
here the question is what two instances of the program do to
each other, and for that the remote of each thread must be the program. TCP delivers in
order; what was sent to a thread that has closed is lost, and closing throws away what
it had not read. `ReadFails` is a thread that finds the connection closed, or whose
socket the main thread has shut down after the download.

### Discovery

An instance is `off`, asking the `tracker`, `waiting` for its answer, about to `listen`,
`running`, or `closing`. Launch is the command line (`general` or `local`), `Gone` the end
of a process in any way: the user kills it, its joins are over, it exits because port 6881
is taken, or an exception ends it. A leecher that is done, or has an empty list, first
closes its listening socket and shuts down the tracker's connections (`Closes`); until its
joins are over its detached LPD threads go on advertising the port, which is free. An
instance that takes it over meanwhile is an `heir`: it hears its own address with another
cookie than its own. Starting again begins with an empty memory, so `known_peers`,
the inbox and the cookie go with the process, while datagrams it sent stay in the
others' inboxes. A cookie is the `clock` in seconds. All instances use port 6881, so
hosts stand for address and port. `inbox` is a set: a datagram read may be there again
(`inbox' \in {inbox, ...}`), and a broadcast reaches any subset of the running
instances, so loss, delay, repetition and reordering are all there. `conns[i][j][v]`
counts the connections i made to j because of `v`, LPD or the tracker's list.
The tracker is the repository's (`own`: accepts one client and reads until it closes)
or another one that answers with a list, in which hosts may be repeated, and closes.
A leecher goes through its list entry by entry (`visited`) and connects for each.

### Framing

`pc`, `out` and `got` are where each thread is, what its `send_all` has left to send and
what its `recv_exact` has so far; `wire` are the bytes on the way, at most `Capacity`.
Every call of `send` and `recv` transfers any number of bytes. Messages are
`[id, pieces, words, data]`: the pieces of a Bitfield, the 32-bit fields, the bytes of a
block. `build_message` turns them into bytes (`Pack`, `Fields`, `BigEndian`) and the
handlers read them back (`Unpack`, `Number`); `Sendable` says which fields go with which
id, as the builders write them, and that the length fits its four bytes. `Dies` ends an
end at any moment, `closed` is final. `sent` and `delivered` are history.

### Bencode

A document is a sequence of bytes, whole or any prefix of it, and a state is a position
of the parser: `at` is the dictionary it is in, `nest` the depth of `skip_value`'s calls,
`result` what was read. One action for a kind of entry, one for each branch of
`skip_value`. `MaxInt` and `MaxLong` are the largest `int` and `int64_t`. Keys are one byte (which key it is matters, not its spelling). `data[pos]`
past the end is what C++17 and memory give: 0 at `size()`, anything beyond it.
`create_torrent` and `build_tracker_response` are the writers; whole documents are what
they write, and what other programs do.

A length may have a sign (`stoi` and `stoll` take one, and skip spaces), so that the
position may move back, also to before the data; a number that does not fit throws; the
intervals keep the low bits of theirs (`Kept`); hashes and peers are appended to those of
the same key before, other fields overwritten. `Documents` are what the properties are
about; `Oddities` are parsed too, and only `TypeOK` speaks of them.

## 3. Runs

| Run | Instance | Distinct states | Shows |
|---|---|---|---|
| `controller` | 2 pieces of 2 blocks and 1, 2 peers, data good, bad or short, any earlier file | 22 thousand | all the manager's properties under any calls in any order, with status resets; the main thread returns (`MainReturns`, fair main thread); it implements `Download` |
| `reservations` | 2 threads, 1 piece of 2 blocks, pipeline 2, sends may fail; choke, unchoke, have, bitfield, piece | 1.6 million | `NoOrphanInflight`, `OneOwner`; the threads implement `Controller` |
| `announcements` | 2 threads, 2 pieces of 1 block, statuses read twice | 2.9 million | `NothingUnannounced`, `ToldTruth` |
| `seeder` | 2 threads of a seeder, all ten kinds of message, sends may fail, file whole or missing | 139 thousand | `ServedInstantly` |
| `shutdown` | 2 tracker peers, 1 inbound, 1 LPD, close wakes accept | 39 thousand | `NoThreadOutlives`, `KnownIffContacted`, `HeldOnlyByOpenConnection` |
| `swarm` | 2 seeders, 2 leechers, 5 ways to connect three of them, 2 pieces of 2 blocks and 1, pipeline 1 | 49 thousand | `BelievedIsHeld`, `NoRequestLost`, `DownloadsEnd`; the swarm implements `Dissemination` |
| `discovery` | 3 instances on 2 hosts, one in both modes, one local, one general; both trackers, a list that names a host twice, 2 seconds, 1 datagram in a socket | 51 thousand | `NotToItself`, `NoDuplicates`, `FindEachOther` |
| `framing` | 2 torrents, 6 messages, 2 of them sent, buffers of 6 bytes | 356 thousand | `ReadAsSent`, `OneTorrent`, `AllReadOrGone` |
| `bencode` | 7 documents and 8 oddities, each cut after every byte | 7 thousand | `WholeIsRead`, `NothingInvented`, `ParsingEnds` |

Three runs end in a counterexample, each against a sentence of the repository
("findings" of `PROJECT.json` has the quotations):

| Run | Property refuted | What the code does |
|---|---|---|
| `early_exit` | `ExitOnlyWhenComplete` | a status that another thread's `next_request` turns from 0 to 2 between the two reads of `all_done` passes for done (`Controller.hpp:141`): the thread leaves with the file incomplete |
| `shutdown_linux` | `ExitsWhenDone` | the listener stays in `accept`, the main thread joins it for ever |
| `have_stall` | `HavesReach` | in the chain seeder, leecher, leecher both threads between the leechers wait in `read_message`: the first leecher's Haves stay in its queue, and the second gets nothing |

Other behaviours of the code that the models contain and a reader should know of:

- `peer.cpp:208` resets a status outside the lock. If another thread completed the piece
  since the probe, it is on disk and marked missing: it is downloaded again, and its
  Have was or will be sent. None of the properties above is harmed.
- `received_block` returns at its length check before it frees the reservation
  (`Controller.hpp:202`): a block of the wrong length stays in flight for ever. With
  `"short"` in `Data`, `NoOrphanInflight` fails; `NoOrphans` is proved without it.
- `write_to_disk` takes a file it cannot open for reading and writing, for whatever
  reason, for one that is not there, and creates it (`Controller.hpp:269-271`), which
  truncates a file that is; and a failed write is not noticed (`Controller.hpp:281`). With
  `DiskMayFail = TRUE` TLC finds `VerifiedForever` and `DoneOnDisk` violated, the first by
  the truncation, the second by a piece that is done without its bytes. All that is
  checked and proved of the file is so for a disk that does not fail.
- The tracker of the repository reads a request until its client closes
  (`Tracker.cpp:72`), and the client reads the answer until the tracker closes
  (`leecher.cpp:48-53`): an instance that announces itself to it (`"own"`) waits for ever
  and starts neither its listener nor local discovery, against `README.md:43`. The run
  `discovery` has both kinds of tracker; `FindEachOther` is about instances that got past
  it, with `"own"` those in local mode.
- Once `run_leecher` has returned, the detached LPD listener may start a peer thread over
  its dead locals (`lpd.cpp:122`, `LpdPushesLate`); `NoThreadOutlives` is about the threads
  started before, which are all joined.
- A leecher that closes goes on advertising port 6881, and an instance that takes the port
  over on that host connects to itself (`lpd.cpp:104` compares cookies, not addresses).
  `NotToItself` excepts such an heir by name.
- A list of the tracker that names a host twice gives two connections to it; LPD, which
  keeps its own list, may add a third.
- A length with a minus sign moves the parser back, an interval beyond an int keeps its low
  bits, a key `pieces` or `peers` that comes twice has its values appended. A list that is
  skipped and holds an element that is none is a loop without end (`decoder.cpp:90`).
- In a triangle of a seeder and two leechers that are also connected to each other,
  `DownloadsEnd` fails for the second leecher: when the first is done it leaves with a
  request of the second unread; the second gives the block back, but its thread to the
  seeder, which had found everything in flight, is idle and nothing wakes it. `swarm`
  therefore states it where leechers with a seeder are not connected to each other; of
  the chain's second leecher, which has no seeder, the property says nothing.
- A block can arrive that its thread no longer waits for, even with nothing but this
  program in the swarm. A leecher that sends Interested, NotInterested and, after a Have,
  Interested again is answered Unchoke, Choke, Unchoke. A request it sends on the first
  Unchoke may be read after the second was sent, and is served; by then the Choke has
  made the leecher give the reservation back, and another thread may have taken it. When
  the Piece is read, `received_block` frees the block for everybody, also for the thread
  that has it in flight now (`Controller.hpp:209`). `OneOwner` is therefore
  checked and proved where `~ Unsolicited`, which is a real restriction; no other theorem
  has it.
- Two instances on one machine (`README.md:405-420`): the second finds port 6881 taken
  and exits (`PortTaken`).
- `Tracker.cpp` announces port 57626 in place of 6881 (`htons`, then high byte first);
  nobody reads its list, as said above.
- Two threads that both send while the buffers are full wait for each other; this is the
  exception `Settled` names.
- A torrent or response that ends inside a list or dictionary of an unknown key is
  never parsed to its end; this is the exception `ParsingEnds` names.

`CHECK_DEADLOCK FALSE` is given everywhere because the systems really stop: all
threads gone, a process that has returned, every download over, both ends of a
connection closed or idle, a document parsed.

### Bounds, and why they are enough

- Two threads: every hazard listed is between two threads, or a thread and the main
  thread. A third would add no new pair. What holds for any number is proved (below).
- Two blocks in a piece are the least with which a piece can be half there; two
  pieces the least with which a Bitfield and a Have can disagree and `all_done` can
  read statuses at different moments. `controller` has a last piece shorter than
  the others.
- `PIPELINE` is 5 in the code, 2 or 1 here: 2 is the least with which a choke finds
  a full and a partly filled pipeline.
- `pending_requests` counts a vector's entries; the code itself bounds their sum by
  the pipeline, so no run needs another bound.
- `SYMMETRY` exchanges the two peers; it is used for safety runs only.
- `Kinds` leaves out of a run the messages its question does not depend on; the
  union over the runs is all ten, and `seeder` has them all at once.
- `swarm`: three connected processes are the least with which one waits for what a
  second has and a third is downloading. Pipeline 1 makes both leechers ask the seeder
  in turn, so that a piece in flight elsewhere is met. No SYMMETRY, for liveness.
- `discovery`: two instances on one host and one on another are the least with which a
  datagram of a predecessor on the own host could be met; `MaxClock = 1` has starts in
  the same second and in different ones. One instance runs in both modes, one in local
  and one in general mode, so that each pair has another way to meet: liveness does not
  allow the states of every mode for every instance. `MaxInbox = 1`: a new datagram pushes
  out the one that waits, so a datagram of a predecessor is met or lost. The theorems have
  no such bounds.
- `framing`: `Capacity = 6` is less than any long message, so sends block and messages
  arrive in parts; two messages are the least with which both ends can be in `send` and
  with which a reader could take a part of one for another. The numbers 258, 16384 and
  32768 and nine pieces need more than one byte. The handshake has fields of one or two
  bytes; its positions are computed from their lengths, as 28 is from 19 and 8.
- `bencode`: names, hashes and peers hold the bytes `e`, `i`, `l`, `d`, `:` and digits,
  which a parser that looked for them inside strings would stumble on. A hash has 2
  bytes and a piece 2. `MaxInt = 127` and `MaxLong = 32767` stand for the largest `int` and
  `int64_t`, so that documents of a few bytes have numbers beyond both. One document has signs in its
  integers and peers in two parts; the oddities are what else numbers can do: signs before lengths, in a skipped list, in `info` and
  in integers, and numbers too large for a length, an interval or any integer.
  `MaxNest = 5` is more than any document nests, and stands for the
  end of the stack; `MaxPast = 3` is how far past the data garbage may lie.

### Fairness, and why the code justifies it

- `FairSpec` of `Controller`: the main thread runs when it is not asleep. Nothing is
  asked of the peer threads; the property assumes that all pieces get done.
- `FairSpec` of `Lifecycle`: threads not blocked in `accept`, `recv`, `recvfrom` or
  a join run, `connect` ends, `shutdown` wakes the reader. Remotes owe nothing.
- `FairSpec` of `Swarm`: every thread that can take a step takes one (weak fairness for
  each thread). A message on a connection that works arrives, so a thread waits in
  `recv` only if nothing is on its way.
- `FairSpec` of `Discovery`: the start of an instance, its connecting to the list, the
  tracker and each broadcaster go on (weak fairness; broadcasters loop, and the one
  broadcast that reaches all is repeated). Receiving from a host is strongly fair: a
  datagram sent every minute is not lost every time, and is not passed over for ever for
  those of others. Nobody must launch or end.
- `FairSpec` of `Framing`: each thread's `send`, `recv` and handling, weakly; sending a
  message and dying are free choices.
- `Spec` of `Bencode`: the parser runs.

## 4. Proofs

All theorems are for every file, cut, number of connections, pipeline, set of
message kinds, swarm, set of messages and buffer size. The assumptions are the named
ones of the modules: `GeometryAssumption` (the pieces cover the file and the last is not
empty, which is what `create_torrent` writes), `ControllerAssumption`,
`PeerLoopAssumption`, `LifecycleAssumption` (the kinds of remotes are disjoint),
`SwarmAssumption` (no process is both seeder and leecher, two processes have at most one
connection), `DiscoveryAssumption`, `FramingAssumption` (hashes have one length, peer ids
have one, buffers hold a byte, messages are `Sendable`), `BencodeAssumption` (documents are
torrents or responses, and are bytes). A theorem that needs more
says so in its ASSUME: a `LEECHER`, a disk that does not fail, no block of the wrong
length, a `SEEDER`, documents that are well formed.

- `TypeCorrect`: the manager keeps its type; the base of everything else.
- `GoodIsForever` (a disk that does not fail): no step loses verified bytes. A write
  touches the piece that was just hashed, and creates the file only if absent. Where the
  disk may fail it is false, see above.
- `DoneIsOnDisk` (a leecher whose disk does not fail): `DoneOnDisk` and
  `ReturnedMeansComplete` together; `ReturnsOnlyComplete` is the second alone. `DoneOnDisk` is inductive given
  `GoodIsForever`; the second needs the first at the step in which the predicate
  is found true, and `GoodIsForever` afterwards, since a status may be reset
  behind the main thread. `ServesVerified` follows.
- `NothingLeftAssembled`, `WakeupNotLost`: inductive as they stand.
  These proofs share `StepCases`: every step is quiet (does not write, assemble or
  mark anything done), a step of the main thread, or the receipt of a block, and
  the receipt is one of store, reject and complete.
- `ControllerImplementsDownload`: under the same assumptions a step of the manager is a
  `Save`, a `Return` or a stutter of `Download`. The receipt of a block adds at most its
  own piece to what is saved (`ReceivedSaves`); the predicate is found true only with
  every piece done, and `DoneOnDisk` makes that every piece saved.
- `Refines`: the threads implement `Controller`. The inductive invariant `PeerInv`
  adds to the type that a thread with a block in hand has a real one and belongs to
  a leecher (`InHand`); without it a release could name no block, and a seeder could
  reset a status. `PeerTypeCorrect` comes from the same invariant, and
  `ThreadsKeepManager` transports the manager's results to the threads (the one about
  verified bytes for a disk that does not fail), and `ThreadsImplementDownload` composes
  the two refinements.
- `NoOrphans` (no block of the wrong length, an assumption that is needed, see above) and `OneOwnerAlways` (remotes send only what was asked). `StepKinds`
  sorts the steps of a thread by what they do to reservations: nothing, take,
  send, put back, release, receive, leave. `OneOwner` is inductive with
  `HandNotPending`: a block in hand is not also pending in the same thread.
- `NothingForgotten` needs no further assumption, not even a disk that works. `AnnounceInv`
  says of a thread in its loop: each done piece was told, or is queued by the manager, or is
  in the Haves the thread has drained and not yet sent, or its connection is broken. A
  piece is marked done in the very step that queues its Have for every registered peer;
  and a thread that greets has registered before it reads the statuses for its Bitfield.
- `TellsTheTruth`: `QueuedTruth` extends the property to what is queued and
  drained, since a Have is true when it is sent only if its piece was on disk when it was
  queued, and verified bytes are not lost in between (`GoodIsForever`). `DoneOnDisk` is
  its companion: a Bitfield is read from the statuses.
- `LeavesOnlyComplete` (a leecher whose disk does not fail, in a build that reads each
  status once: `~ ReadsTwice`): `all_done` reads the statuses one by one without the lock,
  and a status may be reset behind it; `ScanInv` says that the part already read is on
  disk, which a reset does not change. With a second read it is false: `early_exit`.
- `ServesInstantly`: `ServeInv` says of each place in the serving pass which requests are
  still to be visited; otherwise a request left over is excused by a choke, a broken
  connection or a missing file. A seeder's statuses are all 1 and stay so (`AllMarked`).
- `WellFormed`, `BeliefsAreTrue`, `RequestsAreNotLost`, for any number of processes and
  connections, from one inductive invariant, `SwarmInv`. Its half `TruthInv` is about
  messages as well as beliefs: what a process queues, has on the way or has told is on its
  disk, and so is the piece of every block on the way (`Says`). Its half `LinkInv` takes the two threads of a connection together (`Linked`).
  `NoRequestLost` alone is not inductive, because of Choke and Unchoke: a thread that
  chokes the remote drops its requests, so the remote must learn of it after every
  Unchoke it may still read (`ChokeLast`), and a choked thread waits for nothing. The
  channels are ordered, and the proof depends on it. Each kind of message and each part of
  the head of the loop has its lemma; `PeerLoop` and TLC see two threads, `SwarmInv` any.
- `SwarmDisseminates`: under `SwarmInv` each step of `Swarm` completes one piece in one
  process, taken from the other end of a connection, or completes none. A piece
  is complete when its last block is stored with the hash right (`StoreCompletes`), which
  only reading a Piece does (`PieceObtains`); that its sender still holds the piece is what
  `Says` keeps of blocks on the way, since the sender may have asked for, received or
  reset anything in between. Everything else a thread does leaves the good pieces of
  every disk as they are (`ThreadObtains`).
- `BytesStayInBounds`, `ReadsWhatWasSent`, `NoOtherTorrent`, from `FramingInv`. First the
  operators: four bytes give back the number they were made from (`NumberIsWord`), bits the
  pieces (`PackRead`), and a payload that is parsed the message (`RoundTrip`). Then the
  stream: `ReadAsSent` says nothing of the bytes that have not been read, so the invariant
  says what they are. `Coming` is what a `recv_exact` holds, the wire and the
  rest of a `send_all` together; for a reader that is still there it is the handshake, or
  the rest of the message being read, followed by whole framed messages (`Framed`), which
  are those sent and not yet delivered. A `send` or `recv`, whatever number of bytes it
  transfers, does not change `Coming`. `Framed` is a function from positions to
  suffixes of the stream, so that no induction is needed to take one message off its front.
- `RestOnlySettled`, from the same invariant: if each thread waits for the other, or is gone,
  `Settled` holds. `Coming` is then what the reader holds alone; being too short to be the
  rest of a handshake or message (`Unbegun`, `Unsent`) it is empty, and the suffixes that
  `Framed` leaves are none, so all that was sent is delivered. This is the safety part of
  `AllReadOrGone`; that the threads do come to rest needs fairness and is left to TLC.
- `ParserTypeCorrect` needs nothing of the documents: what `stoi` and `stoll` take is an
  integer (`NumberIsInt`) that fits or throws, what an `int` keeps of it fits (`KeptFits`),
  and a hash or peer is made of a full row of bytes, whatever is parsed. Of the position
  it says only that it is an integer.
- `WholeIsReadAlways`, `NothingInventedAlways`, for documents of any size and depth that are
  `WellFormed`. A script of a document lists its tokens (strings, integers, opening and
  closing letters), where each ends and how deep it is nested (`Laid`, `Nested`), and the
  tokens at which one of the three loops turns, with the fields read before (`Turns`);
  a document is well formed if it has one and says what it expects. So a well-formed one
  has no signs and no number that does not fit its field, and gives hashes and peers at
  most once (`CountTurn`, `TextTurn`): of others the parser may keep something else than
  they say. The invariant `Follows`: the
  parser is at a turn of the script with just those fields read, or inside an unknown entry
  at a token and depth of it; or has read all; or, only if the document was cut, is astray
  (`Lost`): ended, at or past the end of the data, thrown back to position 0 by an
  integer without its `e`, or deeper in `skip_value` than the script. From none of these
  can it store a value again, so what it has read (`Honest`) stays. What a token is for the
  parser, whole, cut or missing, is `TokenHere`, from `StringRead` and `IntegerRead`; there
  a cut string is a prefix and gives a prefix of the hashes (`Begins`).
- `OwnDocumentsRead`: both writers' documents have scripts (`TorrentWellFormed`,
  `ResponseWellFormed`), for every file, name and url. So `create_torrent` followed by
  `parse_torrent` gives back the url, the name, the length and the hashes of all
  pieces, and main hashes the bytes of the info dictionary. Its assumptions: SHA-1 returns
  `HashLength` bytes (`Sha1Hashes`), no string is longer than `stoi` reads, no file longer
  than `stoll` (`OwnTorrent`), and the constants the writers put in fit (`MaxInt >= 60`,
  `PieceLength <= MaxLong`). `DigitsSay` (reading the digits of n gives n) and `PartsJoined` (cutting
  the joined hashes gives the hashes) are the inductions below it.
- `LifeTypeCorrect`, `NoThreadOutlivesReturn`, `KnownAreContacted`: `LifeInv` says which thread has a
  connection in hand and when, that the vector holds every thread started before the
  return, that the listener has exited before the joins, and that LPD connects only to a
  remote without a thread. What the detached LPD listener does after the return is the
  exception the property names.

- `DiscoveryTypeCorrect`, `NeverToItself`, `NeverTwice`, for any instances, hosts, lists
  and clock. That an instance never connects to itself because of LPD does not follow
  from the cookie test alone: a predecessor on its host had another cookie. `Inv` says
  why it holds: one process at a time listens on a host (in `TypeOK`), what does not run
  has no datagrams (`OnlyWithLpd`), hence a datagram from the own host carries the own
  cookie (`OwnCookie`), unless the instance is an heir of one that was still closing; a
  connection that LPD made is remembered in `known_peers`, and those because of the list
  are no more than its entries gone through so far (`Remembered`), counted by `Spots`
  (`SpotsGrow`), also where the other end restarts in between. `GoneInv`,
  `ListenInv`, `ConnectToInv`, `BroadcastInv` and `ReceiveInv` are the steps.

Induction over numbers. The library states it for predicates, which the provers cannot
instantiate. `BencodeProofs` states it for sets: a set of naturals that is not empty has a
least element (`Least`, from the well-foundedness of < that the library has), hence a set
that contains 0 and with n also n + 1 contains all (`Induction`). What the recursive functions
`Decimal`, `Digits` and `FlattenSeq` give is proved with that, after showing that they
are defined for all arguments.

Only model-checked: what holds under fairness (`MainReturns`,
`HeldOnlyByOpenConnection`, `DownloadsEnd`, `FindEachOther`, `AllReadOrGone`,
`ParsingEnds`), since the prover treats neither liveness nor ENABLED. Every
invariant and action property of the passing runs is proved, under the assumptions named
above, and so are the three refinements. `ExitOnlyWhenComplete` is
refuted where `ReadsTwice` is true. That documents of other programs with unknown entries are well formed is
checked by TLC on the ones of `bencode` only, by `WholeIsRead` itself.

## 5. Not modelled

- `seederCheck`, `requestpeer`, `encode_uint32`, `decode_uint32`, `write_all` and the
  throwing `recv_exact` are never called.
- SIGPIPE: `send` without `MSG_NOSIGNAL` on a reset connection ends the process. It is an
  end that goes at any moment (`Dies`, `Gone`); no property says that it should not.
- Descriptor numbers: a second `close` of a number the system has reused.
- Requests that are not aligned to blocks, or out of range, and pieces a remote was
  not told of: the remotes of `PeerLoop` speak the protocol. Likewise datagrams that are
  not what `lpd_broadcast_thread` sends, and documents that are not a prefix of a
  well-formed one.
- KeepAlive in `Swarm`: the program answers one and never begins, so between two
  instances of it there is none. `PeerLoop` and `Framing` have it.
- The joins of the seeder's main thread: it joins the listener only, which never ends.
- The Parser's test program (`Parser/tester.cpp`), the URL of the tracker request
  (`Requestor/`), what is printed: no state.

## 6. Plan

Built: everything in section 2. What a continuation would take up, in this order:

1. `Swarm` implements one `PeerLoop` for each process: a step of `Swarm` is several of
   `PeerLoop`'s, so this needs an intermediate grain.
2. Descriptor numbers in `Lifecycle`, and the seeder's main thread.
