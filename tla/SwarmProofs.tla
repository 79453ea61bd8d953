---------------------------- MODULE SwarmProofs ----------------------------
(***************************************************************************)
(* Proofs about Swarm, for any processes, connections, file and pipeline:  *)
(* every process and message stays well formed and no pipeline overflows,  *)
(* what a process believes of another is true, no request is lost between  *)
(* the two ends of a connection, and pieces spread as Dissemination says.  *)
(***************************************************************************)
EXTENDS Swarm, FiniteSetTheorems, SequenceTheorems, TLAPS

-----------------------------------------------------------------------------
(* The blocks are finitely many.                                           *)

LEMMA BlocksAreFinite == IsFiniteSet(Blocks)
<1> DEFINE last  == length - piece_length * (total_pieces - 1)
           n     == (piece_length + block_length - 1) \div block_length
           m     == (last + block_length - 1) \div block_length
           Grid  == Pieces \X (0 .. n + m)
           f     == [x \in Grid |-> <<x[1], x[2] * block_length>>]
           Image == {f[x] : x \in Grid}
<1>1. /\ piece_length \in Nat \ {0} /\ last \in Nat \ {0}
      /\ block_length \in Nat \ {0} /\ total_pieces \in Nat \ {0}
  BY GeometryAssumption
<1>2. n \in Nat /\ m \in Nat
  BY <1>1
<1>3. IsFiniteSet(Grid)
  <2>1. IsFiniteSet(Pieces)
    BY <1>1, FS_Interval DEF Pieces
  <2>2. IsFiniteSet(0 .. n + m)
    BY <1>2, FS_Interval
  <2>3. QED
    BY <2>1, <2>2, FS_Product
<1>4. IsFiniteSet(Image)
  <2>1. f \in Surjection(Grid, Image)
    BY DEF Surjection
  <2>2. QED
    BY <1>3, <2>1, FS_Surjection
<1>5. ASSUME NEW i \in Pieces
      PROVE  count_blocks(i) = n \/ count_blocks(i) = m
  BY <1>1 DEF count_blocks, piece_length_for, Pieces
<1>6. Blocks \subseteq Image
  <2> SUFFICES ASSUME NEW i \in Pieces, NEW k \in 0 .. count_blocks(i) - 1
               PROVE  <<i, k * block_length>> \in Image
    BY DEF Blocks, Offsets
  <2>1. <<i, k>> \in Grid
    BY <1>2, <1>5
  <2>2. f[<<i, k>>] = <<i, k * block_length>>
    BY <2>1
  <2> HIDE DEF f, Grid
  <2>3. QED
    BY <2>1, <2>2
<1>7. QED
  BY <1>4, <1>6, FS_Subset

LEMMA BlocksAreFiniteAny == \A bs \in SUBSET Blocks : IsFiniteSet(bs)
BY BlocksAreFinite, FS_Subset

LEMMA PiecesAreFinite == \A set \in SUBSET Pieces : IsFiniteSet(set)
<1>1. IsFiniteSet(Pieces)
  BY GeometryAssumption, FS_Interval DEF Pieces
<1>2. QED
  BY <1>1, FS_Subset

-----------------------------------------------------------------------------
(* Ranks.  In a finite set S ordered by R, an element's rank is the number *)
(* of those up to it; ranks run from 1 to the size of S, each taken once.  *)

Rank(S, R, x) == Cardinality({y \in S : <<y, x>> \in R})

Orders(R, S) ==
    /\ \A x \in S : <<x, x>> \in R
    /\ \A x, y \in S : <<x, y>> \in R \/ <<y, x>> \in R
    /\ \A x, y \in S : <<x, y>> \in R /\ <<y, x>> \in R => x = y
    /\ \A x, y, z \in S : <<x, y>> \in R /\ <<y, z>> \in R => <<x, z>> \in R

LEMMA RankInjective ==
    ASSUME NEW S, IsFiniteSet(S), NEW R, Orders(R, S), NEW x \in S, NEW y \in S,
           Rank(S, R, x) = Rank(S, R, y)
    PROVE  x = y
<1> DEFINE Up(z) == {u \in S : <<u, z>> \in R}
<1>1. ASSUME NEW a \in S, NEW b \in S, <<a, b>> \in R, Rank(S, R, a) = Rank(S, R, b)
      PROVE  a = b
  <2>1. Up(a) \subseteq Up(b)
    BY <1>1 DEF Orders
  <2>2. IsFiniteSet(Up(b))
    BY FS_Subset
  <2>3. Up(a) = Up(b)
    BY <1>1, <2>1, <2>2, FS_Subset DEF Rank
  <2>4. b \in Up(b)
    BY DEF Orders
  <2>5. <<b, a>> \in R
    BY <2>3, <2>4
  <2>6. QED
    BY <1>1, <2>5 DEF Orders
<1>2. <<x, y>> \in R \/ <<y, x>> \in R
  BY DEF Orders
<1>3. QED
  BY <1>1, <1>2

LEMMA RankRange ==
    ASSUME NEW S, IsFiniteSet(S), NEW R, Orders(R, S), NEW x \in S
    PROVE  Rank(S, R, x) \in 1 .. Cardinality(S)
<1> DEFINE up == {u \in S : <<u, x>> \in R}
<1>1. IsFiniteSet(up) /\ Cardinality(up) <= Cardinality(S)
  BY FS_Subset
<1>2. Cardinality(up) \in Nat /\ Cardinality(S) \in Nat
  BY <1>1, FS_CardinalityType
<1>3. up # {}
  BY DEF Orders
<1>4. Cardinality(up) # 0
  BY <1>1, <1>3, FS_EmptySet
<1>5. QED
  BY <1>1, <1>2, <1>4 DEF Rank

LEMMA RankSurjective ==
    ASSUME NEW S, IsFiniteSet(S), NEW R, Orders(R, S), NEW k \in 1 .. Cardinality(S)
    PROVE  \E x \in S : Rank(S, R, x) = k
<1> DEFINE n == Cardinality(S)
           f == [x \in S |-> Rank(S, R, x)]
<1>1. n \in Nat
  BY FS_CardinalityType
<1>2. IsFiniteSet(1 .. n) /\ Cardinality(1 .. n) = n
  BY <1>1, FS_Interval
<1>3. f \in [S -> 1 .. n]
  BY RankRange
<1>4. \A x, y \in S : f[x] = f[y] => x = y
  BY RankInjective
<1>5. f \in Injection(S, 1 .. n)
  BY <1>3, <1>4 DEF Injection, IsInjective
<1>6. f \in Surjection(S, 1 .. n)
  BY <1>2, <1>5, FS_Injection
<1>7. QED
  BY <1>6 DEF Surjection

(* At most n elements have a rank of at most n.                            *)
LEMMA FirstRanks ==
    ASSUME NEW S, IsFiniteSet(S), NEW R, Orders(R, S), NEW n \in Nat
    PROVE  Cardinality({x \in S : Rank(S, R, x) <= n}) <= n
<1> DEFINE T == {x \in S : Rank(S, R, x) <= n}
           f == [x \in T |-> Rank(S, R, x)]
<1>1. IsFiniteSet(1 .. n) /\ Cardinality(1 .. n) = n
  BY FS_Interval
<1>2. \A x \in S : Rank(S, R, x) \in 1 .. Cardinality(S) /\ Cardinality(S) \in Nat
  BY RankRange, FS_CardinalityType
<1>3. f \in [T -> 1 .. n]
  BY <1>2
<1>4. \A x, y \in T : f[x] = f[y] => x = y
  BY RankInjective
<1>5. f \in Injection(T, 1 .. n)
  BY <1>3, <1>4 DEF Injection, IsInjective
<1>6. QED
  BY <1>1, <1>5, FS_Injection

-----------------------------------------------------------------------------
(* What is sent in order is each of the messages, and nothing else.        *)

Items(s) == {s[k] : k \in 1 .. Len(s)}

Contains(s, m) == m \in Items(s)

LEMMA BlockShape ==
    ASSUME NEW b \in Blocks
    PROVE  b[1] \in Pieces /\ b[1] \in Int /\ b[2] \in Int /\ b = <<b[1], b[2]>>
<1>a. PICK i \in Pieces : b \in {i} \X Offsets(i)
  BY DEF Blocks
<1>1. PICK k \in 0 .. count_blocks(i) - 1 : b = <<i, k * block_length>>
  BY <1>a DEF Offsets
<1>2. block_length \in Int /\ i \in Int
  BY GeometryAssumption DEF Pieces
<1>3. k \in Int
  OBVIOUS
<1>4. k * block_length \in Int
  BY <1>2, <1>3
<1>5. QED
  BY <1>1, <1>2, <1>4

LEMMA FunctionIsSeq ==
    ASSUME NEW n \in Nat, NEW S, NEW f \in [1 .. n -> S]
    PROVE  f \in Seq(S) /\ Len(f) = n
OBVIOUS

(* File order, as a relation; M(p) orders blocks by it.                    *)
FileOrder(p) == {x \in Blocks \X Blocks : M(p)!NotAfter(x[1], x[2])}

LEMMA FileOrderOrders ==
    ASSUME NEW p, NEW bs \in SUBSET Blocks
    PROVE  /\ Orders(FileOrder(p), bs)
           /\ \A b \in bs : Cardinality({a \in bs : M(p)!NotAfter(a, b)})
                             = Rank(bs, FileOrder(p), b)
<1> DEFINE R == FileOrder(p)
<1>1. Orders(R, bs)
  <2>1. \A a, b \in bs : <<a, b>> \in R <=> M(p)!NotAfter(a, b)
    BY DEF FileOrder
  <2>2. \A b \in bs : b[1] \in Int /\ b[2] \in Int /\ b = <<b[1], b[2]>>
    BY BlockShape
  <2>3. \A x \in bs : M(p)!NotAfter(x, x)
    BY <2>2 DEF M!NotAfter
  <2>4. \A x, y \in bs : M(p)!NotAfter(x, y) \/ M(p)!NotAfter(y, x)
    BY <2>2 DEF M!NotAfter
  <2>5. \A x, y \in bs : M(p)!NotAfter(x, y) /\ M(p)!NotAfter(y, x) => x = y
    BY <2>2 DEF M!NotAfter
  <2>6. \A x, y, z \in bs : M(p)!NotAfter(x, y) /\ M(p)!NotAfter(y, z) => M(p)!NotAfter(x, z)
    BY <2>2 DEF M!NotAfter
  <2>7. QED
    BY <2>1, <2>3, <2>4, <2>5, <2>6 DEF Orders
<1>2. ASSUME NEW b \in bs
      PROVE  Cardinality({a \in bs : M(p)!NotAfter(a, b)}) = Rank(bs, R, b)
  <2>1. {a \in bs : M(p)!NotAfter(a, b)} = {a \in bs : <<a, b>> \in R}
    BY DEF FileOrder
  <2>2. QED
    BY <2>1 DEF Rank
<1>3. QED
  BY <1>1, <1>2

BlockMsgs(id, bs) == {BlockMsg(id, b) : b \in bs}

LEMMA InOrderSends ==
    ASSUME NEW p, NEW id, NEW bs \in SUBSET Blocks
    PROVE  /\ InOrder(p, id, bs) \in Seq(BlockMsgs(id, bs))
           /\ \A b \in bs : Contains(InOrder(p, id, bs), BlockMsg(id, b))
<1> DEFINE R == FileOrder(p)
           n == Cardinality(bs)
           nth(k) == CHOOSE b \in bs : Cardinality({a \in bs : M(p)!NotAfter(a, b)}) = k
           f == [k \in 1 .. n |-> BlockMsg(id, nth(k))]
<1>1. IsFiniteSet(bs) /\ n \in Nat
  BY BlocksAreFiniteAny, FS_CardinalityType
<1>2. Orders(R, bs)
  BY FileOrderOrders
<1>3. ASSUME NEW b \in bs
      PROVE  Cardinality({a \in bs : M(p)!NotAfter(a, b)}) = Rank(bs, R, b)
  BY FileOrderOrders
<1> HIDE DEF R
<1>4. ASSUME NEW k \in 1 .. n
      PROVE  nth(k) \in bs /\ Rank(bs, R, nth(k)) = k
  <2>1. \E b \in bs : Rank(bs, R, b) = k
    BY <1>1, <1>2, RankSurjective
  <2>2. \E b \in bs : Cardinality({a \in bs : M(p)!NotAfter(a, b)}) = k
    BY <1>3, <2>1
  <2>3. nth(k) \in bs /\ Cardinality({a \in bs : M(p)!NotAfter(a, nth(k))}) = k
    BY <2>2
  <2>4. QED
    BY <1>3, <2>3
<1> HIDE DEF nth
<1>5. f \in [1 .. n -> BlockMsgs(id, bs)]
  BY <1>4 DEF BlockMsgs
<1>6. f \in Seq(BlockMsgs(id, bs)) /\ Len(f) = n
  BY <1>1, <1>5, FunctionIsSeq
<1>7. ASSUME NEW b \in bs
      PROVE  Contains(f, BlockMsg(id, b))
  <2>1. Rank(bs, R, b) \in 1 .. n
    BY <1>1, <1>2, RankRange
  <2>2. nth(Rank(bs, R, b)) = b
    BY <1>1, <1>2, <1>4, <2>1, RankInjective
  <2>3. f[Rank(bs, R, b)] = BlockMsg(id, b)
    BY <2>1, <2>2
  <2>4. QED
    BY <1>6, <2>1, <2>3 DEF Contains, Items
<1>8. InOrder(p, id, bs) = f
  BY DEF InOrder, nth
<1>9. QED
  BY <1>6, <1>7, <1>8

LEMMA HavesSend ==
    ASSUME NEW set \in SUBSET Pieces
    PROVE  HavesInOrder(set) \in Seq({HaveMsg(i) : i \in set})
<1> DEFINE R == {x \in Pieces \X Pieces : x[1] <= x[2]}
           n == Cardinality(set)
           nth(k) == CHOOSE i \in set : Cardinality({j \in set : j <= i}) = k
           f == [k \in 1 .. n |-> HaveMsg(nth(k))]
<1>1. IsFiniteSet(set) /\ n \in Nat
  BY PiecesAreFinite, FS_CardinalityType
<1>a. Pieces \subseteq Int
  BY GeometryAssumption DEF Pieces
<1>2. Orders(R, set)
  BY <1>a DEF Orders
<1>3. ASSUME NEW i \in set
      PROVE  Cardinality({j \in set : j <= i}) = Rank(set, R, i)
  <2>1. {j \in set : j <= i} = {j \in set : <<j, i>> \in R}
    OBVIOUS
  <2>2. QED
    BY <2>1 DEF Rank
<1> HIDE DEF R
<1>4. ASSUME NEW k \in 1 .. n
      PROVE  nth(k) \in set
  <2>1. \E i \in set : Rank(set, R, i) = k
    BY <1>1, <1>2, RankSurjective
  <2>2. QED
    BY <1>3, <2>1
<1> HIDE DEF nth
<1>5. f \in [1 .. n -> {HaveMsg(i) : i \in set}]
  BY <1>4
<1>6. f \in Seq({HaveMsg(i) : i \in set})
  BY <1>1, <1>5, FunctionIsSeq
<1>7. QED
  BY <1>6 DEF HavesInOrder, nth

-----------------------------------------------------------------------------
(* The manager of a process.  M(p) names its own copy of the geometry.     *)

LEMMA Geometry ==
    ASSUME NEW p
    PROVE  M(p)!Pieces = Pieces /\ M(p)!Blocks = Blocks
BY DEF M!Pieces, Pieces, M!Blocks, Blocks, M!Offsets, Offsets, M!count_blocks, count_blocks,
       M!piece_length_for, piece_length_for

Manager ==
    [piece_status : [Pieces -> 0 .. 2],
     inflight     : SUBSET Blocks,
     piece_blocks : [Blocks -> {"none", "good", "bad"}],
     registered   : SUBSET Processes,
     send_haves   : [Processes -> SUBSET Pieces],
     disk         : [Pieces -> {"absent", "zeros", "bad", "good"}],
     waiter       : {"checking", "asleep", "returned"}]

LEMMA Managed ==
    ASSUME NEW p
    PROVE  M(p)!Managers = Manager
BY Geometry DEF M!Managers, Manager, M!Statuses, M!Content

DoneIn(c) == {i \in Pieces : c.piece_status[i] = 1}

LEMMA SameDone ==
    ASSUME NEW p, NEW c
    PROVE  M(p)!Done(c) = DoneIn(c)
BY Geometry DEF M!Done, DoneIn

(* What a process has verified, or will tell others of, is on its disk.    *)
Truthful(c) ==
    /\ c \in Manager
    /\ \A i \in DoneIn(c) : c.disk[i] = "good"
    /\ \A q \in Processes : \A i \in c.send_haves[q] : c.disk[i] = "good"

(* A call leaves it so, and loses nothing of what is on disk.              *)
Improves(c, r) ==
    /\ Truthful(r)
    /\ \A i \in Pieces : c.disk[i] = "good" => r.disk[i] = "good"

LEMMA StatusSet == {0, 1, 2} \subseteq 0 .. 2
OBVIOUS

LEMMA QueueCalls ==
    ASSUME NEW p \in Processes, NEW c, Truthful(c), NEW q \in Processes
    PROVE  /\ Improves(c, M(p)!register_peer(c, q))
           /\ Improves(c, M(p)!unregister_peer(c, q))
           /\ Improves(c, M(p)!drain_haves(c, q))
<1>1. c \in Manager
  BY DEF Truthful
<1>2. [c.send_haves EXCEPT ![q] = {}] \in [Processes -> SUBSET Pieces]
  BY <1>1 DEF Manager
<1>3. ASSUME NEW r \in Manager, r.piece_status = c.piece_status, r.disk = c.disk,
             r.send_haves = [c.send_haves EXCEPT ![q] = {}]
      PROVE  Improves(c, r)
  BY <1>1, <1>3 DEF Improves, Truthful, DoneIn, Manager
<1>4. Improves(c, M(p)!register_peer(c, q))
  <2> DEFINE r == M(p)!register_peer(c, q)
  <2>1. /\ r \in Manager /\ r.piece_status = c.piece_status /\ r.disk = c.disk
        /\ r.send_haves = [c.send_haves EXCEPT ![q] = {}]
    BY <1>1, <1>2 DEF M!register_peer, Manager
  <2>2. QED
    BY <1>3, <2>1
<1>5. Improves(c, M(p)!unregister_peer(c, q))
  <2> DEFINE r == M(p)!unregister_peer(c, q)
  <2>1. /\ r \in Manager /\ r.piece_status = c.piece_status /\ r.disk = c.disk
        /\ r.send_haves = [c.send_haves EXCEPT ![q] = {}]
    BY <1>1, <1>2 DEF M!unregister_peer, Manager
  <2>2. QED
    BY <1>3, <2>1
<1>6. Improves(c, M(p)!drain_haves(c, q))
  <2> DEFINE r == M(p)!drain_haves(c, q)
  <2>1. /\ r \in Manager /\ r.piece_status = c.piece_status /\ r.disk = c.disk
        /\ r.send_haves = [c.send_haves EXCEPT ![q] = {}]
    BY <1>1, <1>2 DEF M!drain_haves, Manager
  <2>2. QED
    BY <1>3, <2>1
<1>7. QED
  BY <1>4, <1>5, <1>6

LEMMA ReservationCalls ==
    ASSUME NEW c, Truthful(c), NEW bs \in SUBSET Blocks
    PROVE  Improves(c, Reserved(c, bs)) /\ Improves(c, Released(c, bs))
<1>1. c \in Manager
  BY DEF Truthful
<1>2. Improves(c, Released(c, bs))
  BY <1>1 DEF Released, Manager, Improves, Truthful, DoneIn
<1>3. Improves(c, Reserved(c, bs))
  <2> DEFINE r == Reserved(c, bs)
             status == [i \in Pieces |-> IF \E b \in bs : b[1] = i THEN 2 ELSE c.piece_status[i]]
  <2>1. status \in [Pieces -> 0 .. 2]
    BY <1>1, StatusSet DEF Manager
  <2>2. /\ r.piece_status = status /\ r.inflight = c.inflight \cup bs
        /\ r.disk = c.disk /\ r.send_haves = c.send_haves
    BY <1>1 DEF Reserved, Manager
  <2>3. r \in Manager
    BY <1>1, <2>1 DEF Reserved, Manager
  <2>4. DoneIn(r) \subseteq DoneIn(c)
    BY <2>2 DEF DoneIn
  <2>5. ASSUME NEW x \in Manager, x.disk = c.disk, x.send_haves = c.send_haves,
               DoneIn(x) \subseteq DoneIn(c)
        PROVE  Improves(c, x)
    BY <2>5 DEF Improves, Truthful
  <2>6. QED
    BY <2>2, <2>3, <2>4, <2>5
<1>4. QED
  BY <1>2, <1>3

(* Reserved and Released are what reserving or releasing one block after   *)
(* the other comes to.                                                     *)
LEMMA OneByOne ==
    ASSUME NEW p \in Processes, NEW c \in Manager, NEW bs \in SUBSET Blocks, NEW b \in Blocks
    PROVE  /\ Reserved(c, {}) = c /\ Released(c, {}) = c
           /\ Reserved(c, bs \cup {b}) = M(p)!reserve(Reserved(c, bs), b)
           /\ Released(c, bs \cup {b}) = M(p)!release_in_flight(Released(c, bs), b)
<1> DEFINE status(ds) ==
               [i \in Pieces |-> IF \E d \in ds : d[1] = i THEN 2 ELSE c.piece_status[i]]
<1>1. Released(c, {}) = c
  <2>1. c.inflight \ {} = c.inflight
    OBVIOUS
  <2>2. [c EXCEPT !.inflight = c.inflight] = c
    BY DEF Manager
  <2>3. QED
    BY <2>1, <2>2 DEF Released
<1>2. Reserved(c, {}) = c
  <2>1. c.inflight \cup {} = c.inflight
    OBVIOUS
  <2>2. status({}) = c.piece_status
    BY DEF Manager
  <2>3. [c EXCEPT !.inflight = c.inflight, !.piece_status = c.piece_status] = c
    BY DEF Manager
  <2>4. QED
    BY <2>1, <2>2, <2>3 DEF Reserved
<1>3. Released(c, bs \cup {b}) = M(p)!release_in_flight(Released(c, bs), b)
  BY DEF Released, M!release_in_flight, Manager
<1>4. Reserved(c, bs \cup {b}) = M(p)!reserve(Reserved(c, bs), b)
  <2>1. status(bs \cup {b}) = [status(bs) EXCEPT ![b[1]] = 2]
    BY BlockShape
  <2>2. c.inflight \cup (bs \cup {b}) = (c.inflight \cup bs) \cup {b}
    OBVIOUS
  <2>3. \A ds : Reserved(c, ds) = [c EXCEPT !.inflight = c.inflight \cup ds,
                                           !.piece_status = status(ds)]
    BY DEF Reserved
  <2> HIDE DEF status
  <2>4. ASSUME NEW x, NEW s, x = [c EXCEPT !.inflight = c.inflight \cup bs, !.piece_status = s]
        PROVE  M(p)!reserve(x, b) = [c EXCEPT !.inflight = (c.inflight \cup bs) \cup {b},
                                              !.piece_status = [s EXCEPT ![b[1]] = 2]]
    BY <2>4 DEF M!reserve, Manager
  <2>5. M(p)!reserve(Reserved(c, bs), b) =
            [c EXCEPT !.inflight = (c.inflight \cup bs) \cup {b},
                      !.piece_status = [status(bs) EXCEPT ![b[1]] = 2]]
    BY <2>3, <2>4
  <2>6. QED
    BY <2>1, <2>2, <2>3, <2>5
<1>5. QED
  BY <1>1, <1>2, <1>3, <1>4

-----------------------------------------------------------------------------
(* The invariants.                                                         *)

(* A message that names a block names one of the file's.                   *)
Carried == {m \in Message : m.id \in {"Request", "Piece"} => m.block \in Blocks}

TypeInv ==
    /\ links \in Topologies
    /\ managers \in [Processes -> Manager]
    /\ conn \in [Pairs -> Connection]
    /\ net \in [Pairs -> Seq(Carried)]

(* The pieces a message speaks of: those it announces, or the one of the   *)
(* block it carries.                                                       *)
Says(m) == m.pieces \cup {i \in Pieces : m.id = "Piece" /\ i = m.block[1]}

(* What a process tells of itself, what is on its way to another and what  *)
(* that one noted, it has on disk.                                         *)
TruthInv ==
    /\ TypeInv
    /\ \A p \in Processes : Truthful(managers[p])
    /\ \A e \in Pairs : conn[e].peer_bitfield \subseteq Held(e[2])
    /\ \A e \in Pairs : \A m \in Items(net[e]) : Says(m) \subseteq Held(e[1])

Choked(s) == \E m \in Items(s) : m.id = "Choke"

(* No Unchoke in s is the last word.                                       *)
ChokeLast(s) ==
    \A k \in 1 .. Len(s) :
        s[k].id = "Unchoke" => \E j \in 1 .. Len(s) : j > k /\ s[j].id = "Choke"

(* A thread in state s sent out, and may not have read in, from a thread   *)
(* in state t.  It waits for nothing while choked; a thread that drops     *)
(* requests has told the other, or will have; and what it waits for is     *)
(* somewhere.                                                              *)
Linked(s, t, out, in) ==
    /\ s.peer_choking => s.pending = {}
    /\ s.am_choking => ChokeLast(out) /\ (Choked(out) \/ t.peer_choking)
    /\ \A b \in s.pending : \/ BlockMsg("Request", b) \in Items(out)
                            \/ b \in t.incoming
                            \/ BlockMsg("Piece", b) \in Items(in)
                            \/ Choked(in)

There(e) == conn[e].at # "gone"

LinkInv ==
    /\ TypeInv
    /\ \A e \in Pairs : ModeOf(e[1]) = "SEEDER" => conn[e].pending = {}
    /\ \A e \in Pairs :
          There(e) /\ There(Opposite(e)) =>
              Linked(conn[e], conn[Opposite(e)], net[e], net[Opposite(e)])

-----------------------------------------------------------------------------
(* Sequences of messages.                                                  *)

LEMMA ItemsOfSeq ==
    ASSUME NEW S, NEW s \in Seq(S)
    PROVE  Items(s) \subseteq S
BY DEF Items

LEMMA ItemsOfNone == Items(<<>>) = {}
BY DEF Items

LEMMA ItemsOfOne ==
    ASSUME NEW m
    PROVE  Items(<<m>>) = {m}
BY DEF Items

LEMMA ItemsAdded ==
    ASSUME NEW S, NEW s \in Seq(S), NEW t \in Seq(S)
    PROVE  Items(s \o t) = Items(s) \cup Items(t)
<1> DEFINE u == s \o t
<1>1. /\ Len(s) \in Nat /\ Len(t) \in Nat /\ Len(u) = Len(s) + Len(t)
      /\ \A k \in 1 .. Len(s) : u[k] = s[k]
      /\ \A k \in 1 .. Len(t) : u[Len(s) + k] = t[k]
  OBVIOUS
<1> HIDE DEF u
<1>2. ASSUME NEW k \in 1 .. Len(u)
      PROVE  u[k] \in Items(s) \cup Items(t)
  <2>1. CASE k <= Len(s)
    BY <1>1, <2>1 DEF Items
  <2>2. CASE k > Len(s)
    <3>1. k - Len(s) \in 1 .. Len(t) /\ Len(s) + (k - Len(s)) = k
      BY <1>1, <2>2
    <3>2. u[k] = t[k - Len(s)]
      BY <1>1, <3>1
    <3>3. QED
      BY <3>1, <3>2 DEF Items
  <2>3. QED
    BY <1>1, <2>1, <2>2
<1>3. ASSUME NEW k \in 1 .. Len(s)
      PROVE  s[k] \in Items(u)
  BY <1>1 DEF Items
<1>4. ASSUME NEW k \in 1 .. Len(t)
      PROVE  t[k] \in Items(u)
  <2>1. Len(s) + k \in 1 .. Len(u) /\ u[Len(s) + k] = t[k]
    BY <1>1
  <2>2. QED
    BY <2>1 DEF Items
<1>5. QED
  BY <1>2, <1>3, <1>4 DEF Items, u

LEMMA ItemsTaken ==
    ASSUME NEW S, NEW s \in Seq(S), s # <<>>
    PROVE  /\ Head(s) \in S /\ Tail(s) \in Seq(S)
           /\ Items(s) = {Head(s)} \cup Items(Tail(s))
<1> DEFINE t == Tail(s)
<1>1. /\ Len(s) \in Nat \ {0} /\ t \in Seq(S) /\ Len(t) = Len(s) - 1
      /\ Head(s) = s[1] /\ Head(s) \in S
      /\ \A k \in 1 .. Len(t) : t[k] = s[k + 1]
  BY HeadTailProperties, EmptySeq
<1> HIDE DEF t
<1>2. ASSUME NEW k \in 1 .. Len(s)
      PROVE  s[k] \in {Head(s)} \cup Items(t)
  <2>1. CASE k = 1
    BY <1>1, <2>1
  <2>2. CASE k # 1
    <3>1. k - 1 \in 1 .. Len(t) /\ (k - 1) + 1 = k
      BY <1>1, <2>2
    <3>2. QED
      BY <1>1, <3>1 DEF Items
  <2>3. QED
    BY <2>1, <2>2
<1>3. ASSUME NEW k \in 1 .. Len(t)
      PROVE  t[k] \in Items(s)
  <2>1. k + 1 \in 1 .. Len(s)
    BY <1>1
  <2>2. QED
    BY <1>1, <2>1 DEF Items
<1>4. Head(s) \in Items(s)
  BY <1>1 DEF Items
<1>5. QED
  BY <1>1, <1>2, <1>3, <1>4 DEF Items, t

LEMMA ChokeLastAdded ==
    ASSUME NEW s \in Seq(Message), NEW t \in Seq(Message),
           \/ ChokeLast(s) /\ \A m \in Items(t) : m.id # "Unchoke"
           \/ t = <<Plain("Choke")>>
    PROVE  ChokeLast(s \o t)
<1> DEFINE u == s \o t
<1>1. /\ Len(s) \in Nat /\ Len(t) \in Nat /\ Len(u) = Len(s) + Len(t)
      /\ \A k \in 1 .. Len(s) : u[k] = s[k]
      /\ \A k \in 1 .. Len(t) : u[Len(s) + k] = t[k]
  OBVIOUS
<1> HIDE DEF u
<1>2. ASSUME NEW k \in 1 .. Len(u), k > Len(s)
      PROVE  k - Len(s) \in 1 .. Len(t) /\ u[k] = t[k - Len(s)]
  <2>1. k - Len(s) \in 1 .. Len(t) /\ Len(s) + (k - Len(s)) = k
    BY <1>1, <1>2
  <2>2. QED
    BY <1>1, <2>1
<1>3. CASE ChokeLast(s) /\ \A m \in Items(t) : m.id # "Unchoke"
  <2> SUFFICES ASSUME NEW k \in 1 .. Len(u), u[k].id = "Unchoke"
               PROVE  \E j \in 1 .. Len(u) : j > k /\ u[j].id = "Choke"
    BY DEF ChokeLast, u
  <2>1. k \in 1 .. Len(s) /\ s[k].id = "Unchoke"
    BY <1>1, <1>2, <1>3 DEF Items
  <2>2. PICK j \in 1 .. Len(s) : j > k /\ s[j].id = "Choke"
    BY <1>3, <2>1 DEF ChokeLast
  <2>3. QED
    BY <1>1, <2>2
<1>4. CASE t = <<Plain("Choke")>>
  <2>1. Len(t) = 1 /\ t[1].id = "Choke"
    BY <1>4 DEF Plain
  <2>2. Len(u) \in 1 .. Len(u) /\ u[Len(u)].id = "Choke"
    BY <1>1, <2>1
  <2> SUFFICES ASSUME NEW k \in 1 .. Len(u), u[k].id = "Unchoke"
               PROVE  \E j \in 1 .. Len(u) : j > k /\ u[j].id = "Choke"
    BY DEF ChokeLast, u
  <2>3. k # Len(u)
    BY <2>2
  <2>4. QED
    BY <1>1, <2>2, <2>3
<1>5. QED
  BY <1>3, <1>4

LEMMA ChokeLastTaken ==
    ASSUME NEW s \in Seq(Message), s # <<>>, ChokeLast(s)
    PROVE  /\ ChokeLast(Tail(s))
           /\ Head(s).id = "Unchoke" => Choked(Tail(s))
<1> DEFINE t == Tail(s)
<1>1. /\ Len(s) \in Nat \ {0} /\ Len(t) = Len(s) - 1
      /\ Head(s) = s[1]
      /\ \A k \in 1 .. Len(t) : t[k] = s[k + 1]
  BY HeadTailProperties, EmptySeq
<1> HIDE DEF t
<1>2. ASSUME NEW j \in 1 .. Len(s), j > 1
      PROVE  j - 1 \in 1 .. Len(t) /\ t[j - 1] = s[j]
  <2>1. j - 1 \in 1 .. Len(t) /\ (j - 1) + 1 = j
    BY <1>1, <1>2
  <2>2. QED
    BY <1>1, <2>1
<1>3. ASSUME NEW k \in 1 .. Len(t), t[k].id = "Unchoke"
      PROVE  \E j \in 1 .. Len(t) : j > k /\ t[j].id = "Choke"
  <2>1. k + 1 \in 1 .. Len(s) /\ s[k + 1].id = "Unchoke"
    BY <1>1, <1>3
  <2>2. PICK j \in 1 .. Len(s) : j > k + 1 /\ s[j].id = "Choke"
    BY <2>1 DEF ChokeLast
  <2>3. j > 1 /\ j - 1 > k
    BY <2>2
  <2>4. QED
    BY <1>2, <2>2, <2>3
<1>4. ASSUME Head(s).id = "Unchoke"
      PROVE  Choked(t)
  <2>1. 1 \in 1 .. Len(s)
    BY <1>1
  <2>2. PICK j \in 1 .. Len(s) : j > 1 /\ s[j].id = "Choke"
    BY <1>1, <1>4, <2>1 DEF ChokeLast
  <2>3. QED
    BY <1>2, <2>2 DEF Choked, Items
<1>5. QED
  BY <1>3, <1>4 DEF ChokeLast, t

-----------------------------------------------------------------------------
(* A thread in state s becomes s2, sends msgs, and has read the messages   *)
(* taken, at most one, which leaves in2 of what was on its way to it.      *)

Took(in, in2, taken) ==
    \/ in2 = in /\ taken = {}
    \/ in # <<>> /\ in2 = Tail(in) /\ taken = {Head(in)}

LEMMA TookItems ==
    ASSUME NEW S, NEW in \in Seq(S), NEW in2, NEW taken, Took(in, in2, taken)
    PROVE  in2 \in Seq(S) /\ taken \subseteq S /\ Items(in) = taken \cup Items(in2)
BY ItemsTaken DEF Took

LEMMA TookChoke ==
    ASSUME NEW in \in Seq(Message), NEW in2, NEW taken, Took(in, in2, taken), ChokeLast(in)
    PROVE  /\ ChokeLast(in2)
           /\ (\E m \in taken : m.id = "Unchoke") => Choked(in2)
BY ChokeLastTaken DEF Took

LEMMA LinkStep ==
    ASSUME NEW s, NEW t, NEW s2, NEW out \in Seq(Message), NEW in \in Seq(Message),
           NEW msgs \in Seq(Message), NEW in2, NEW taken,
           Linked(s, t, out, in), Linked(t, s, in, out),
           Took(in, in2, taken),
           s2.peer_choking => s2.pending = {},
           s.peer_choking /\ ~ s2.peer_choking => \E m \in taken : m.id = "Unchoke",
           \A m \in taken : m.id = "Choke" => s2.peer_choking,
           s2.am_choking => \/ s.am_choking /\ \A m \in Items(msgs) : m.id # "Unchoke"
                            \/ msgs = <<Plain("Choke")>>,
           \A b \in s2.pending : \/ b \in s.pending /\ BlockMsg("Piece", b) \notin taken
                                 \/ BlockMsg("Request", b) \in Items(msgs),
           \A b \in s.incoming : b \in s2.incoming \/ BlockMsg("Piece", b) \in Items(msgs),
           \A b : BlockMsg("Request", b) \in taken =>
                      \/ s.am_choking /\ s2.am_choking
                      \/ b \in s2.incoming
                      \/ BlockMsg("Piece", b) \in Items(msgs)
    PROVE  Linked(s2, t, out \o msgs, in2) /\ Linked(t, s2, in2, out \o msgs)
<1> DEFINE out2 == out \o msgs
<1>1. Items(out2) = Items(out) \cup Items(msgs)
  BY ItemsAdded
<1>2. Items(in) = taken \cup Items(in2)
  BY TookItems
<1>3. s2.am_choking => ChokeLast(out2) /\ (Choked(out2) \/ t.peer_choking)
  <2>1. CASE s.am_choking /\ \A m \in Items(msgs) : m.id # "Unchoke"
    BY <1>1, <2>1, ChokeLastAdded DEF Linked, Choked
  <2>2. CASE msgs = <<Plain("Choke")>>
    <3>a. Plain("Choke") \in Items(msgs)
      BY <2>2, ItemsOfOne
    <3>b. Plain("Choke").id = "Choke"
      BY DEF Plain
    <3>1. Plain("Choke") \in Items(out2) /\ Plain("Choke").id = "Choke"
      BY <1>1, <3>a, <3>b
    <3>2. QED
      BY <2>2, <3>1, ChokeLastAdded DEF Choked
  <2>3. QED
    BY <2>1, <2>2
<1>4. t.am_choking => ChokeLast(in2) /\ (Choked(in2) \/ s2.peer_choking)
  <2> SUFFICES ASSUME t.am_choking
               PROVE  ChokeLast(in2) /\ (Choked(in2) \/ s2.peer_choking)
    OBVIOUS
  <2>1. ChokeLast(in) /\ (Choked(in) \/ s.peer_choking)
    BY DEF Linked
  <2>2. ChokeLast(in2) /\ ((\E m \in taken : m.id = "Unchoke") => Choked(in2))
    BY <2>1, TookChoke
  <2>3. CASE Choked(in)
    BY <1>2, <2>2, <2>3 DEF Choked
  <2>4. CASE s.peer_choking
    BY <2>2, <2>4
  <2>5. QED
    BY <2>1, <2>2, <2>3, <2>4
<1>5. ASSUME NEW b \in s2.pending
      PROVE  \/ BlockMsg("Request", b) \in Items(out2)
             \/ b \in t.incoming
             \/ BlockMsg("Piece", b) \in Items(in2)
             \/ Choked(in2)
  <2>1. CASE BlockMsg("Request", b) \in Items(msgs)
    BY <1>1, <2>1
  <2>2. CASE b \in s.pending /\ BlockMsg("Piece", b) \notin taken
    <3>1. \A m \in taken : m.id # "Choke"
      BY <1>5
    <3>2. Choked(in) => Choked(in2)
      BY <1>2, <3>1 DEF Choked
    <3>3. QED
      BY <1>1, <1>2, <2>2, <3>2 DEF Linked
  <2>3. QED
    BY <1>5, <2>1, <2>2
<1>6. ASSUME NEW b \in t.pending
      PROVE  \/ BlockMsg("Request", b) \in Items(in2)
             \/ b \in s2.incoming
             \/ BlockMsg("Piece", b) \in Items(out2)
             \/ Choked(out2)
  <2>1. CASE BlockMsg("Request", b) \in taken
    <3>1. CASE s.am_choking
      <4>1. ~ t.peer_choking
        BY <1>6 DEF Linked
      <4>2. Choked(out)
        BY <3>1, <4>1 DEF Linked
      <4>3. QED
        BY <1>1, <4>2 DEF Choked
    <3>2. QED
      BY <1>1, <2>1, <3>1
  <2>2. CASE BlockMsg("Request", b) \in Items(in2)
    BY <2>2
  <2>3. CASE b \in s.incoming
    BY <1>1, <2>3
  <2>4. CASE BlockMsg("Piece", b) \in Items(out) \/ Choked(out)
    BY <1>1, <2>4 DEF Choked
  <2>5. QED
    BY <1>2, <1>6, <2>1, <2>2, <2>3, <2>4 DEF Linked
<1>7. t.peer_choking => t.pending = {}
  BY DEF Linked
<1> HIDE DEF out2
<1>8. Linked(s2, t, out2, in2) /\ Linked(t, s2, in2, out2)
  BY <1>3, <1>4, <1>5, <1>6, <1>7 DEF Linked
<1>9. QED
  BY <1>8 DEF out2

-----------------------------------------------------------------------------
(* Asking, serving, probing and storing.                                   *)

LEMMA CandidatesAreBlocks ==
    ASSUME NEW p, NEW c, NEW have
    PROVE  /\ M(p)!Candidates(c, have) \subseteq Blocks
           /\ M(p)!next_request(c, have) \subseteq Blocks
BY Geometry DEF M!Candidates, M!next_request

(* A thread asks only while not choked, and never for more than the        *)
(* pipeline has room for.                                                  *)
LEMMA AskedFits ==
    ASSUME NEW p, NEW c, NEW s, s.pending \in SUBSET Blocks,
           Cardinality(s.pending) <= PIPELINE
    PROVE  /\ Asked(p, s, c) \in SUBSET Blocks
           /\ s.peer_choking \/ ModeOf(p) = "SEEDER" => Asked(p, s, c) = {}
           /\ Cardinality(s.pending \cup Asked(p, s, c)) <= PIPELINE
<1> DEFINE C == M(p)!Candidates(c, s.peer_bitfield)
           R == FileOrder(p)
           n == PIPELINE - Cardinality(s.pending)
           first == {x \in C : Rank(C, R, x) <= n}
           asked == Asked(p, s, c)
<1>1. C \in SUBSET Blocks
  BY CandidatesAreBlocks
<1>2. IsFiniteSet(C) /\ IsFiniteSet(s.pending)
  BY <1>1, BlocksAreFiniteAny
<1>3. Cardinality(s.pending) \in Nat /\ PIPELINE \in Nat /\ n \in Nat
  BY <1>2, FS_CardinalityType, SwarmAssumption
<1>4. /\ Orders(R, C)
      /\ \A b \in C : Cardinality({a \in C : M(p)!NotAfter(a, b)}) = Rank(C, R, b)
  BY <1>1, FileOrderOrders
<1>5. asked \subseteq first /\ (s.peer_choking \/ ModeOf(p) = "SEEDER" => asked = {})
  BY <1>4 DEF Asked
<1>6. Cardinality(first) <= n
  BY <1>2, <1>3, <1>4, FirstRanks
<1>7. IsFiniteSet(first)
  BY <1>2, FS_Subset
<1> HIDE DEF asked, n, C, R, first
<1>8. IsFiniteSet(asked) /\ Cardinality(asked) <= Cardinality(first)
  BY <1>5, <1>7, FS_Subset
<1>9. /\ Cardinality(asked) \in Nat /\ Cardinality(first) \in Nat
      /\ Cardinality(s.pending \cap asked) \in Nat
  <2>1. IsFiniteSet(s.pending \cap asked)
    BY <1>8, FS_Subset
  <2>2. QED
    BY <1>7, <1>8, <2>1, FS_CardinalityType
<1>10. Cardinality(s.pending \cup asked)
           = Cardinality(s.pending) + Cardinality(asked) - Cardinality(s.pending \cap asked)
  BY <1>2, <1>8, FS_Union
<1>11. Cardinality(s.pending \cup asked) <= PIPELINE
  BY <1>3, <1>6, <1>8, <1>9, <1>10 DEF n
<1>12. asked \in SUBSET Blocks
  BY <1>1, <1>5 DEF first
<1>13. QED
  BY <1>5, <1>11, <1>12 DEF asked

LEMMA ServedIsQueued ==
    ASSUME NEW p, NEW c, NEW s
    PROVE  /\ Served(p, s, c) \subseteq s.incoming
           /\ s.am_choking => Served(p, s, c) = {}
BY DEF Served

(* What a process serves, it has on disk.                                  *)
LEMMA ServedIsHeld ==
    ASSUME NEW p, Truthful(managers[p]), NEW s, s.incoming \in SUBSET Blocks
    PROVE  \A b \in Served(p, s, managers[p]) : b[1] \in Held(p)
<1> SUFFICES ASSUME NEW b \in Served(p, s, managers[p])
             PROVE  b[1] \in Held(p)
  OBVIOUS
<1>1. b[1] \in Pieces
  BY BlockShape DEF Served
<1>2. managers[p].piece_status[b[1]] = 1
  BY DEF Served, M!get_block
<1>3. QED
  BY <1>1, <1>2 DEF Truthful, DoneIn, Held

(* The status of one piece is reset: what is on disk stays.                *)
LEMMA ResetImproves ==
    ASSUME NEW c, Truthful(c), NEW i \in Pieces
    PROVE  Improves(c, [c EXCEPT !.piece_status[i] = 0])
<1> DEFINE r == [c EXCEPT !.piece_status[i] = 0]
<1>1. c \in Manager
  BY DEF Truthful
<1>2. [c.piece_status EXCEPT ![i] = 0] \in [Pieces -> 0 .. 2]
  BY <1>1, StatusSet DEF Manager
<1>3. /\ r \in Manager /\ r.disk = c.disk /\ r.send_haves = c.send_haves
      /\ r.piece_status = [c.piece_status EXCEPT ![i] = 0]
  BY <1>1, <1>2 DEF Manager
<1> HIDE DEF r
<1>4. DoneIn(r) \subseteq DoneIn(c)
  BY <1>1, <1>3 DEF DoneIn, Manager
<1>5. Improves(c, r)
  BY <1>3, <1>4 DEF Improves, Truthful
<1>6. QED
  BY <1>5 DEF r

LEMMA ImprovesTwice ==
    ASSUME NEW c, NEW r, NEW q, Improves(c, r), Improves(r, q)
    PROVE  Improves(c, q)
BY DEF Improves

LEMMA ImprovesSelf ==
    ASSUME NEW c, Truthful(c)
    PROVE  Improves(c, c)
BY DEF Improves

LEMMA ProbeImproves ==
    ASSUME NEW p, NEW c, Truthful(c), NEW have
    PROVE  Improves(c, Probed(p, c, have))
<1> DEFINE found == M(p)!next_request(c, have)
           r == Reserved(c, found)
<1>1. found \in SUBSET Blocks
  BY CandidatesAreBlocks
<1>2. Improves(c, r)
  BY <1>1, ReservationCalls
<1>3. Improves(r, Released(r, found))
  BY <1>1, <1>2, ReservationCalls DEF Improves
<1>4. QED
  BY <1>2, <1>3, ImprovesTwice DEF Probed

(* A good block is stored; if it is the last of its piece, the piece is    *)
(* hashed, and thrown away or written, marked and announced.               *)
LEMMA StoreImproves ==
    ASSUME NEW p \in Processes, NEW c, Truthful(c), NEW b \in Blocks,
           NEW r \in M(p)!received_block(c, b, "good")
    PROVE  Improves(c, r)
<1> DEFINE s == M(p)!store(c, b, "good")
           i == b[1]
           kept == M(p)!Cleared(s, i)
<1>1. c \in Manager /\ i \in Pieces
  BY BlockShape DEF Truthful
<1>2. /\ s \in Manager /\ s.piece_status = c.piece_status /\ s.disk = c.disk
      /\ s.send_haves = c.send_haves /\ s.registered = c.registered
  BY <1>1 DEF M!store, Manager
<1>3. Improves(c, s)
  BY <1>1, <1>2 DEF Improves, Truthful, DoneIn
<1> HIDE DEF s
<1>4. kept \in [Blocks -> {"none", "good", "bad"}]
  BY <1>2, Geometry DEF M!Cleared, Manager
<1> HIDE DEF kept
<1>5. Improves(s, M(p)!reject(s, i))
  <2> DEFINE x == M(p)!reject(s, i)
  <2>1. [s.piece_status EXCEPT ![i] = 0] \in [Pieces -> 0 .. 2]
    BY <1>1, <1>2, StatusSet DEF Manager
  <2>2. /\ x \in Manager /\ x.disk = s.disk /\ x.send_haves = s.send_haves
        /\ x.piece_status = [s.piece_status EXCEPT ![i] = 0]
    BY <1>1, <1>2, <1>4, <2>1 DEF M!reject, Manager, kept
  <2> HIDE DEF x
  <2>3. DoneIn(x) \subseteq DoneIn(s)
    BY <1>1, <1>2, <2>2 DEF DoneIn, Manager
  <2>4. Improves(s, x)
    BY <1>3, <2>2, <2>3 DEF Improves, Truthful
  <2>5. QED
    BY <2>4 DEF x
<1>6. ASSUME M(p)!HashMatches(s, i), NEW f \in M(p)!write_to_disk(s, i)
      PROVE  Improves(s, M(p)!complete(s, i, f))
  <2> DEFINE x == M(p)!complete(s, i, f)
             queued == [q \in Processes |-> IF q \in s.registered
                                            THEN s.send_haves[q] \cup {i}
                                            ELSE s.send_haves[q]]
             opened == IF s.disk = M(p)!Empty THEN M(p)!Zeroed ELSE s.disk
  <2>1. f = M(p)!Written(opened, i, "good")
    BY <1>6, Geometry DEF M!write_to_disk
  <2>2. /\ opened \in [Pieces -> {"absent", "zeros", "bad", "good"}]
        /\ \A j \in Pieces : s.disk[j] = "good" => opened[j] = "good"
    BY <1>2 DEF Manager, M!Empty, M!Zeroed
  <2>3. /\ f \in [Pieces -> {"absent", "zeros", "bad", "good"}]
        /\ f[i] = "good"
        /\ \A j \in Pieces : s.disk[j] = "good" => f[j] = "good"
    <3> HIDE DEF opened
    <3>1. QED
      BY <1>1, <2>1, <2>2, Geometry DEF M!Written
  <2> HIDE DEF opened
  <2>4. [s.piece_status EXCEPT ![i] = 1] \in [Pieces -> 0 .. 2]
    BY <1>1, <1>2, StatusSet DEF Manager
  <2>5. queued \in [Processes -> SUBSET Pieces]
    BY <1>1, <1>2 DEF Manager
  <2>6. /\ x \in Manager /\ x.disk = f /\ x.send_haves = queued
        /\ x.piece_status = [s.piece_status EXCEPT ![i] = 1]
    BY <1>1, <1>2, <1>4, <2>3, <2>4, <2>5 DEF M!complete, Manager, kept
  <2>7. DoneIn(x) \subseteq DoneIn(s) \cup {i}
    BY <1>1, <1>2, <2>6 DEF DoneIn, Manager
  <2>8. \A q \in Processes : x.send_haves[q] \subseteq s.send_haves[q] \cup {i}
    BY <2>6
  <2> HIDE DEF x, queued
  <2>9. Improves(s, x)
    <3>1. \A j \in DoneIn(s) : s.disk[j] = "good" /\ j \in Pieces
      BY <1>3 DEF Improves, Truthful, DoneIn
    <3>2. \A q \in Processes : \A j \in s.send_haves[q] : s.disk[j] = "good" /\ j \in Pieces
      BY <1>2, <1>3 DEF Improves, Truthful, Manager
    <3>3. \A j \in DoneIn(x) : x.disk[j] = "good"
      BY <2>3, <2>6, <2>7, <3>1
    <3>4. \A q \in Processes : \A j \in x.send_haves[q] : x.disk[j] = "good"
      BY <2>3, <2>6, <2>8, <3>2
    <3>5. QED
      BY <2>3, <2>6, <3>3, <3>4 DEF Improves, Truthful
  <2>10. QED
    BY <2>9 DEF x
<1>7. r = c \/ r = s \/ r = M(p)!reject(s, i)
      \/ (M(p)!HashMatches(s, i) /\ \E f \in M(p)!write_to_disk(s, i) : r = M(p)!complete(s, i, f))
  BY DEF M!received_block, s
<1>8. CASE r = c
  BY <1>8, ImprovesSelf
<1>9. CASE r = s
  BY <1>3, <1>9
<1>10. CASE r = M(p)!reject(s, i)
  BY <1>3, <1>5, <1>10, ImprovesTwice
<1>11. CASE M(p)!HashMatches(s, i) /\ \E f \in M(p)!write_to_disk(s, i) : r = M(p)!complete(s, i, f)
  BY <1>3, <1>6, <1>11, ImprovesTwice
<1>12. QED
  BY <1>7, <1>8, <1>9, <1>10, <1>11

-----------------------------------------------------------------------------
(* What a step of thread e does: it leaves the thread in state s and the   *)
(* manager as c, has sent msgs and read the messages taken, at most one.   *)

Does(e, s, c, msgs, taken) ==
    /\ conn' = [conn EXCEPT ![e] = s]
    /\ managers' = [managers EXCEPT ![e[1]] = c]
    /\ links' = links
    /\ \/ net' = Delivered(net, e, msgs) /\ taken = {}
       \/ /\ net[Opposite(e)] # <<>>
          /\ net' = Delivered([net EXCEPT ![Opposite(e)] = Tail(@)], e, msgs)
          /\ taken = {Head(net[Opposite(e)])}

(* Nothing it says, notes or does to the manager is untrue.                *)
Honest(e, s, c, msgs) ==
    /\ s \in Connection
    /\ msgs \in Seq(Carried)
    /\ Improves(managers[e[1]], c)
    /\ s.peer_bitfield \subseteq Held(e[2])
    /\ \A m \in Items(msgs) : Says(m) \subseteq Held(e[1])

(* It forgets nothing the other end counts on.                             *)
Fits(e, s, msgs, taken) ==
    /\ ModeOf(e[1]) = "SEEDER" /\ conn[e].pending = {} => s.pending = {}
    /\ s.peer_choking /\ (conn[e].peer_choking => conn[e].pending = {}) => s.pending = {}
    /\ conn[e].peer_choking /\ ~ s.peer_choking => \E m \in taken : m.id = "Unchoke"
    /\ \A m \in taken : m.id = "Choke" => s.peer_choking
    /\ s.am_choking => \/ conn[e].am_choking /\ \A m \in Items(msgs) : m.id # "Unchoke"
                       \/ msgs = <<Plain("Choke")>>
    /\ \A b \in s.pending : \/ b \in conn[e].pending /\ BlockMsg("Piece", b) \notin taken
                            \/ BlockMsg("Request", b) \in Items(msgs)
    /\ \A b \in conn[e].incoming : b \in s.incoming \/ BlockMsg("Piece", b) \in Items(msgs)
    /\ \A b : BlockMsg("Request", b) \in taken =>
                  \/ conn[e].am_choking /\ s.am_choking
                  \/ b \in s.incoming
                  \/ BlockMsg("Piece", b) \in Items(msgs)

LEMMA Opposites ==
    ASSUME NEW e \in Pairs
    PROVE  /\ Opposite(e) \in Pairs /\ Opposite(Opposite(e)) = e /\ Opposite(e) # e
           /\ e[1] \in Processes /\ e[2] \in Processes
           /\ Opposite(e)[1] = e[2] /\ Opposite(e)[2] = e[1]
BY DEF Pairs, Opposite

LEMMA SeqMono ==
    ASSUME NEW S, NEW T, S \subseteq T, NEW s \in Seq(S)
    PROVE  s \in Seq(T)
OBVIOUS

LEMMA NetAfter ==
    ASSUME TypeInv, NEW e \in Pairs, NEW s, NEW c, NEW msgs \in Seq(Carried), NEW taken,
           Does(e, s, c, msgs, taken)
    PROVE  /\ net' \in [Pairs -> Seq(Carried)]
           /\ Took(net[Opposite(e)], net'[Opposite(e)], taken)
           /\ There(Opposite(e)) => net'[e] = net[e] \o msgs
           /\ ~ There(Opposite(e)) => net'[e] = net[e]
           /\ \A x \in Pairs : x # e /\ x # Opposite(e) => net'[x] = net[x]
<1> DEFINE o == Opposite(e)
<1>1. o \in Pairs /\ o # e
  BY Opposites
<1> HIDE DEF o
<1>2. ASSUME NEW n \in [Pairs -> Seq(Carried)], net' = Delivered(n, e, msgs)
      PROVE  /\ net' \in [Pairs -> Seq(Carried)]
             /\ There(o) => net'[e] = n[e] \o msgs
             /\ ~ There(o) => net'[e] = n[e]
             /\ \A x \in Pairs : x # e => net'[x] = n[x]
  <2>1. n[e] \o msgs \in Seq(Carried)
    OBVIOUS
  <2>2. CASE There(o)
    <3>1. net' = [n EXCEPT ![e] = n[e] \o msgs]
      BY <1>2, <2>2 DEF Delivered, There, o
    <3>2. QED
      BY <2>1, <2>2, <3>1
  <2>3. CASE ~ There(o)
    <3>1. net' = n
      BY <1>2, <2>3 DEF Delivered, There, o
    <3>2. QED
      BY <2>3, <3>1
  <2>4. QED
    BY <2>2, <2>3
<1>3. net \in [Pairs -> Seq(Carried)]
  BY DEF TypeInv
<1>4. CASE net' = Delivered(net, e, msgs) /\ taken = {}
  BY <1>1, <1>2, <1>3, <1>4 DEF Took, o
<1>5. CASE /\ net[o] # <<>> /\ taken = {Head(net[o])}
           /\ net' = Delivered([net EXCEPT ![o] = Tail(@)], e, msgs)
  <2> DEFINE n == [net EXCEPT ![o] = Tail(@)]
  <2>1. Tail(net[o]) \in Seq(Carried)
    BY <1>1, <1>3, <1>5
  <2>2. n \in [Pairs -> Seq(Carried)] /\ n[o] = Tail(net[o]) /\ \A x \in Pairs : x # o => n[x] = net[x]
    BY <1>1, <1>3, <2>1
  <2>3. net' = Delivered(n, e, msgs)
    BY <1>5
  <2> HIDE DEF n
  <2>4. QED
    BY <1>1, <1>2, <1>5, <2>2, <2>3 DEF Took, o
<1>6. QED
  BY <1>4, <1>5 DEF Does, o

LEMMA TruthStep ==
    ASSUME TruthInv, NEW e \in Pairs, NEW s, NEW c, NEW msgs, NEW taken,
           Does(e, s, c, msgs, taken), Honest(e, s, c, msgs)
    PROVE  TruthInv'
<1> DEFINE o == Opposite(e)
<1>1. o \in Pairs /\ o # e /\ e[1] \in Processes
  BY Opposites
<1> HIDE DEF o
<1>2. TypeInv /\ msgs \in Seq(Carried) /\ c \in Manager
  BY DEF TruthInv, Honest, Improves, Truthful
<1>3. /\ net' \in [Pairs -> Seq(Carried)]
      /\ Took(net[o], net'[o], taken)
      /\ net'[e] = net[e] \o msgs \/ net'[e] = net[e]
      /\ \A x \in Pairs : x # e /\ x # o => net'[x] = net[x]
  BY <1>2, NetAfter DEF o
<1>4. TypeInv'
  BY <1>1, <1>2, <1>3 DEF TypeInv, Does, Honest
<1>5. /\ managers'[e[1]] = c
      /\ \A p \in Processes : p # e[1] => managers'[p] = managers[p]
  BY <1>1 DEF Does, TypeInv, TruthInv
<1>6. \A p \in Processes : Improves(managers[p], managers'[p])
  BY <1>5, ImprovesSelf DEF Honest, TruthInv
<1>7. \A p \in Processes : Held(p) \subseteq Held(p)'
  BY <1>6 DEF Held, Improves
<1>8. ASSUME NEW x \in Pairs
      PROVE  conn'[x].peer_bitfield \subseteq Held(x[2])'
  <2>1. (conn'[x] = s /\ x = e) \/ conn'[x] = conn[x]
    BY DEF Does, TruthInv, TypeInv
  <2>2. conn'[x].peer_bitfield \subseteq Held(x[2])
    BY <2>1 DEF Honest, TruthInv
  <2>3. QED
    BY <1>7, <2>2, Opposites
<1>9. ASSUME NEW x \in Pairs, NEW m \in Items(net'[x])
      PROVE  Says(m) \subseteq Held(x[1])'
  <2>1. net[x] \in Seq(Carried)
    BY <1>2 DEF TypeInv
  <2>2. m \in Items(net[x]) \/ (x = e /\ m \in Items(msgs))
    <3>1. CASE x = e
      <4>1. Items(net[e] \o msgs) = Items(net[e]) \cup Items(msgs)
        BY <1>2, <2>1, <3>1, ItemsAdded
      <4>2. Items(net'[e]) \subseteq Items(net[e]) \cup Items(msgs)
        BY <1>3, <4>1
      <4>3. QED
        BY <1>9, <3>1, <4>2
    <3>2. CASE x = o
      BY <1>3, <1>9, <2>1, <3>2, TookItems
    <3>3. CASE x # e /\ x # o
      BY <1>3, <1>9, <3>3
    <3>4. QED
      BY <3>1, <3>2, <3>3
  <2>3. Says(m) \subseteq Held(x[1])
    BY <2>2 DEF Honest, TruthInv
  <2>4. QED
    BY <1>7, <2>3, Opposites
<1>10. \A p \in Processes : Truthful(managers'[p])
  BY <1>6 DEF Improves
<1>11. QED
  BY <1>4, <1>8, <1>9, <1>10 DEF TruthInv

LEMMA LinkKept ==
    ASSUME LinkInv, NEW e \in Pairs, There(e), NEW s, NEW c, NEW msgs \in Seq(Carried), NEW taken,
           TypeInv', Does(e, s, c, msgs, taken), Fits(e, s, msgs, taken)
    PROVE  LinkInv'
<1> DEFINE o == Opposite(e)
<1>1. o \in Pairs /\ o # e /\ Opposite(o) = e
  BY Opposites
<1>2. /\ Took(net[o], net'[o], taken)
      /\ There(o) => net'[e] = net[e] \o msgs
      /\ \A x \in Pairs : x # e /\ x # o => net'[x] = net[x]
  BY NetAfter DEF LinkInv
<1> HIDE DEF o
<1>3. conn'[e] = s /\ \A x \in Pairs : x # e => conn'[x] = conn[x]
  BY DEF Does, LinkInv, TypeInv
<1>4. ASSUME There(o)
      PROVE  Linked(s, conn[o], net'[e], net'[o]) /\ Linked(conn[o], s, net'[o], net'[e])
  <2> DEFINE r == conn[e]
             t == conn[o]
             out == net[e]
             in == net[o]
             in2 == net'[o]
  <2>1. out \in Seq(Message) /\ in \in Seq(Message) /\ msgs \in Seq(Message)
    BY <1>1, SeqMono DEF LinkInv, TypeInv, Carried
  <2>2. Linked(r, t, out, in) /\ Linked(t, r, in, out)
    BY <1>1, <1>4 DEF LinkInv, o
  <2>3. /\ s.peer_choking => s.pending = {}
        /\ r.peer_choking /\ ~ s.peer_choking => \E m \in taken : m.id = "Unchoke"
        /\ \A m \in taken : m.id = "Choke" => s.peer_choking
    BY <2>2 DEF Fits, Linked
  <2>4. /\ s.am_choking => \/ r.am_choking /\ \A m \in Items(msgs) : m.id # "Unchoke"
                           \/ msgs = <<Plain("Choke")>>
        /\ \A b \in s.pending : \/ b \in r.pending /\ BlockMsg("Piece", b) \notin taken
                                \/ BlockMsg("Request", b) \in Items(msgs)
        /\ \A b \in r.incoming : b \in s.incoming \/ BlockMsg("Piece", b) \in Items(msgs)
        /\ \A b : BlockMsg("Request", b) \in taken =>
                      \/ r.am_choking /\ s.am_choking
                      \/ b \in s.incoming
                      \/ BlockMsg("Piece", b) \in Items(msgs)
    BY DEF Fits
  <2>5. Took(in, in2, taken)
    BY <1>2
  <2> HIDE DEF r, t, out, in, in2
  <2>6. Linked(s, t, out \o msgs, in2) /\ Linked(t, s, in2, out \o msgs)
    BY <2>1, <2>2, <2>3, <2>4, <2>5, LinkStep
  <2>7. QED
    BY <1>2, <1>4, <2>6 DEF t, out, in2
<1>5. ASSUME NEW x \in Pairs, There(x)', There(Opposite(x))'
      PROVE  Linked(conn'[x], conn'[Opposite(x)], net'[x], net'[Opposite(x)])
  <2>1. CASE x = e
    BY <1>1, <1>3, <1>4, <1>5, <2>1 DEF o, There
  <2>2. CASE x = o
    BY <1>1, <1>3, <1>4, <1>5, <2>2 DEF o, There
  <2>3. CASE x # e /\ x # o
    <3>1. Opposite(x) \in Pairs /\ Opposite(x) # e /\ Opposite(x) # o
      BY <2>3, Opposites DEF o
    <3>2. QED
      BY <1>2, <1>3, <1>5, <2>3, <3>1 DEF LinkInv, There
  <2>4. QED
    BY <2>1, <2>2, <2>3
<1>6. \A x \in Pairs : ModeOf(x[1]) = "SEEDER" => conn'[x].pending = {}
  BY <1>3 DEF LinkInv, Fits
<1>7. QED
  BY <1>5, <1>6 DEF LinkInv

-----------------------------------------------------------------------------
(* The messages the program sends.                                         *)

(* One that says nothing of pieces is true.                                *)
Mute == {m \in Carried : Says(m) = {}}

LEMMA PlainIsMute ==
    ASSUME NEW id \in {"Unchoke", "Choke", "Interested", "NotInterested"}
    PROVE  /\ Plain(id) \in Mute /\ Plain(id).id = id
           /\ <<Plain(id)>> \in Seq(Mute)
<1>1. Plain(id) \in Mute /\ Plain(id).id = id
  BY DEF Plain, Mute, Carried, Message, Says
<1>2. QED
  BY <1>1

LEMMA BlocksAreSent ==
    ASSUME NEW p, NEW id \in {"Request", "Piece"}, NEW bs \in SUBSET Blocks
    PROVE  /\ InOrder(p, id, bs) \in Seq(Carried)
           /\ \A m \in Items(InOrder(p, id, bs)) : m.id = id /\ m.pieces = {} /\ m.block \in bs
           /\ \A b \in bs : BlockMsg(id, b) \in Items(InOrder(p, id, bs))
<1>1. \A b \in bs : /\ BlockMsg(id, b) \in Carried /\ BlockMsg(id, b).id = id
                    /\ BlockMsg(id, b).pieces = {} /\ BlockMsg(id, b).block = b
  BY DEF BlockMsg, Carried, Message
<1>2. /\ BlockMsgs(id, bs) \subseteq Carried
      /\ \A m \in BlockMsgs(id, bs) : m.id = id /\ m.pieces = {} /\ m.block \in bs
  BY <1>1 DEF BlockMsgs
<1>3. InOrder(p, id, bs) \in Seq(BlockMsgs(id, bs))
  BY InOrderSends
<1>4. \A b \in bs : BlockMsg(id, b) \in Items(InOrder(p, id, bs))
  BY InOrderSends DEF Contains
<1>5. QED
  BY <1>2, <1>3, <1>4, ItemsOfSeq, SeqMono

LEMMA MuteIsHonest ==
    ASSUME NEW e, NEW msgs \in Seq(Mute)
    PROVE  /\ msgs \in Seq(Carried)
           /\ \A m \in Items(msgs) : Says(m) \subseteq Held(e[1])
<1>1. Mute \subseteq Carried
  BY DEF Mute
<1>2. Items(msgs) \subseteq Mute
  BY ItemsOfSeq
<1>3. QED
  BY <1>1, <1>2, SeqMono DEF Mute

LEMMA NoneIsMute == <<>> \in Seq(Mute)
OBVIOUS

(* Haves and a bitfield name what is on disk.                              *)
LEMMA HavesAreHonest ==
    ASSUME NEW set \in SUBSET Pieces
    PROVE  /\ HavesInOrder(set) \in Seq(Carried)
           /\ \A m \in Items(HavesInOrder(set)) : m.id = "Have" /\ Says(m) \subseteq set
<1> DEFINE S == {HaveMsg(i) : i \in set}
<1>1. \A i \in set : HaveMsg(i) \in Carried /\ HaveMsg(i).id = "Have" /\ HaveMsg(i).pieces = {i}
  BY DEF HaveMsg, Carried, Message
<1>2. S \subseteq Carried /\ \A m \in S : m.id = "Have" /\ Says(m) \subseteq set
  BY <1>1 DEF Says
<1>3. HavesInOrder(set) \in Seq(S)
  BY HavesSend
<1> HIDE DEF S
<1>4. QED
  BY <1>2, <1>3, ItemsOfSeq, SeqMono

LEMMA GreetingIsHonest ==
    ASSUME NEW p \in Processes, Truthful(managers[p])
    PROVE  /\ Greeting(p) \in Seq(Carried)
           /\ \A m \in Items(Greeting(p)) : m.id # "Unchoke" /\ Says(m) \subseteq Held(p)
<1> DEFINE set == M(p)!get_bitfield(managers[p])
           first == <<BitfieldMsg(set)>>
           second == IF ModeOf(p) = "LEECHER" THEN <<Plain("Interested")>> ELSE <<>>
<1>1. set \subseteq Held(p) /\ set \in SUBSET Pieces
  BY SameDone DEF M!get_bitfield, Held, Truthful, DoneIn
<1> HIDE DEF set
<1>2. /\ BitfieldMsg(set) \in Carried
      /\ BitfieldMsg(set).id = "Bitfield" /\ BitfieldMsg(set).pieces = set
  BY <1>1 DEF BitfieldMsg, Carried, Message
<1>3. first \in Seq(Carried) /\ Items(first) = {BitfieldMsg(set)}
  BY <1>2, ItemsOfOne
<1>4. Plain("Interested") \in Carried /\ Plain("Interested").id = "Interested"
      /\ Says(Plain("Interested")) = {}
  BY PlainIsMute DEF Mute
<1>5. second \in Seq(Carried) /\ Items(second) \subseteq {Plain("Interested")}
  BY <1>4, ItemsOfOne, ItemsOfNone
<1>6. Greeting(p) = first \o second
  BY DEF Greeting, set
<1> HIDE DEF first, second
<1>7. Items(Greeting(p)) \subseteq {BitfieldMsg(set), Plain("Interested")}
  BY <1>3, <1>5, <1>6, ItemsAdded
<1>8. Greeting(p) \in Seq(Carried)
  BY <1>3, <1>5, <1>6
<1>9. \A m \in {BitfieldMsg(set), Plain("Interested")} : m.id # "Unchoke" /\ Says(m) \subseteq Held(p)
  BY <1>1, <1>2, <1>4 DEF Says
<1>10. QED
  BY <1>7, <1>8, <1>9

-----------------------------------------------------------------------------
(* The steps, one by one, keep both invariants.                            *)

SwarmInv == TruthInv /\ LinkInv

LEMMA ConnFields ==
    ASSUME NEW s \in Connection
    PROVE  /\ s.am_choking \in BOOLEAN /\ s.am_interested \in BOOLEAN
           /\ s.peer_choking \in BOOLEAN /\ s.peer_bitfield \in SUBSET Pieces
           /\ s.pending \in SUBSET Blocks /\ Cardinality(s.pending) <= PIPELINE
           /\ s.incoming \in SUBSET Blocks
BY DEF Connection

LEMMA NothingPends == {} \in {bs \in SUBSET Blocks : Cardinality(bs) <= PIPELINE}
<1>1. Cardinality({}) = 0 /\ PIPELINE \in Nat
  BY FS_EmptySet, SwarmAssumption
<1>2. QED
  BY <1>1

LEMMA DoesKeeps ==
    ASSUME SwarmInv, NEW e \in Pairs, There(e), NEW s, NEW c, NEW msgs, NEW taken,
           Does(e, s, c, msgs, taken), Honest(e, s, c, msgs), Fits(e, s, msgs, taken)
    PROVE  SwarmInv'
<1>1. TruthInv'
  BY TruthStep DEF SwarmInv
<1>2. TypeInv' /\ msgs \in Seq(Carried)
  BY <1>1 DEF TruthInv, Honest
<1>3. LinkInv'
  BY <1>2, LinkKept DEF SwarmInv
<1>4. QED
  BY <1>1, <1>3 DEF SwarmInv

LEMMA Received ==
    ASSUME SwarmInv, NEW e \in Pairs, NEW id, Reads(e, id)
    PROVE  /\ There(e) /\ e[1] \in Processes
           /\ net[Opposite(e)] # <<>>
           /\ Msg(e) \in Carried /\ Msg(e).id = id
           /\ Says(Msg(e)) \subseteq Held(e[2])
           /\ conn[e] \in Connection
           /\ Truthful(managers[e[1]])
<1>1. Opposite(e) \in Pairs /\ Opposite(e)[1] = e[2] /\ e[1] \in Processes
  BY Opposites
<1>2. net[Opposite(e)] \in Seq(Carried) /\ net[Opposite(e)] # <<>>
  BY <1>1 DEF SwarmInv, TruthInv, TypeInv, Reads
<1>3. Msg(e) \in Carried /\ Msg(e) \in Items(net[Opposite(e)])
  BY <1>2, ItemsTaken DEF Msg
<1>4. QED
  BY <1>1, <1>2, <1>3 DEF SwarmInv, TruthInv, TypeInv, Reads, There

LEMMA HandledKeeps ==
    ASSUME SwarmInv, NEW e \in Pairs, NEW id, Reads(e, id), NEW s, NEW c, NEW msgs,
           Handled(e, s, c, msgs), Honest(e, s, c, msgs), Fits(e, s, msgs, {Msg(e)})
    PROVE  SwarmInv'
<1> DEFINE h == [s EXCEPT !.at = "head"]
<1>1. s \in Connection
  BY DEF Honest
<1>2. /\ h \in Connection
      /\ h.peer_choking = s.peer_choking /\ h.am_choking = s.am_choking
      /\ h.pending = s.pending /\ h.incoming = s.incoming /\ h.peer_bitfield = s.peer_bitfield
  BY <1>1 DEF Connection
<1>3. Does(e, h, c, msgs, {Msg(e)})
  BY Received DEF Does, Handled, Msg
<1> HIDE DEF h
<1>4. Honest(e, h, c, msgs)
  BY <1>2 DEF Honest
<1>5. Fits(e, h, msgs, {Msg(e)})
  BY <1>2 DEF Fits
<1>6. QED
  BY <1>3, <1>4, <1>5, Received, DoesKeeps

(* A step after which the thread waits for the same, chokes as it did and  *)
(* has queued what it had.                                                 *)
LEMMA QuietFits ==
    ASSUME NEW e, NEW s, NEW msgs, NEW taken,
           s.peer_choking = conn[e].peer_choking, s.am_choking = conn[e].am_choking,
           s.pending = conn[e].pending, s.incoming = conn[e].incoming,
           \A m \in Items(msgs) : m.id # "Unchoke",
           \A m \in taken : m.id \notin {"Choke", "Request", "Piece"}
    PROVE  Fits(e, s, msgs, taken)
<1>1. \A b : BlockMsg("Piece", b).id = "Piece" /\ BlockMsg("Request", b).id = "Request"
  BY DEF BlockMsg
<1>2. QED
  BY <1>1 DEF Fits

(* Then asking for more, if that much fits.                                *)
LEMMA Asking ==
    ASSUME NEW e \in Pairs, NEW s, NEW c, NEW taken,
           Honest(e, s, c, <<>>), Fits(e, s, <<>>, taken), HandledAsking(e, s, c)
    PROVE  \E s2, c2, msgs : /\ Handled(e, s2, c2, msgs)
                             /\ Honest(e, s2, c2, msgs)
                             /\ Fits(e, s2, msgs, taken)
<1> DEFINE asked == Asked(e[1], s, c)
           s2 == [s EXCEPT !.pending = @ \cup asked]
           c2 == Reserved(c, asked)
           msgs == InOrder(e[1], "Request", asked)
<1>1. s \in Connection
  BY DEF Honest
<1>2. /\ asked \in SUBSET Blocks
      /\ s.peer_choking \/ ModeOf(e[1]) = "SEEDER" => asked = {}
      /\ Cardinality(s.pending \cup asked) <= PIPELINE
  BY <1>1, ConnFields, AskedFits
<1>3. Handled(e, s2, c2, msgs)
  BY DEF HandledAsking
<1> HIDE DEF asked
<1>4. /\ s2 \in Connection
      /\ s2.peer_choking = s.peer_choking /\ s2.am_choking = s.am_choking
      /\ s2.pending = s.pending \cup asked
      /\ s2.incoming = s.incoming /\ s2.peer_bitfield = s.peer_bitfield
  BY <1>1, <1>2 DEF Connection
<1>5. /\ msgs \in Seq(Carried)
      /\ \A m \in Items(msgs) : m.id = "Request" /\ Says(m) = {}
      /\ \A b \in asked : BlockMsg("Request", b) \in Items(msgs)
  <2>1. "Request" \in {"Request", "Piece"} /\ "Request" # "Piece"
    OBVIOUS
  <2> HIDE DEF msgs
  <2>2. QED
    BY <1>2, <2>1, BlocksAreSent DEF Says, msgs
<1>6. Improves(managers[e[1]], c2)
  <2>1. Truthful(c)
    BY DEF Honest, Improves
  <2>2. Improves(c, c2)
    BY <1>2, <2>1, ReservationCalls
  <2>3. QED
    BY <2>2, ImprovesTwice DEF Honest
<1> HIDE DEF s2, c2, msgs
<1>7. Honest(e, s2, c2, msgs)
  BY <1>4, <1>5, <1>6 DEF Honest
<1>8. Fits(e, s2, msgs, taken)
  <2>1. /\ s2.peer_choking \/ ModeOf(e[1]) = "SEEDER" => asked = {}
        /\ \A m \in Items(msgs) : m.id # "Unchoke"
    <3>1. s2.peer_choking \/ ModeOf(e[1]) = "SEEDER" => asked = {}
      BY <1>2, <1>4
    <3>2. \A m \in Items(msgs) : m.id # "Unchoke"
      BY <1>5
    <3>3. QED
      BY <3>1, <3>2
  <2>2. <<>> # <<Plain("Choke")>>
    OBVIOUS
  <2>3. Items(<<>>) = {}
    BY ItemsOfNone
  <2>4. QED
    BY <1>4, <1>5, <2>1, <2>2, <2>3 DEF Fits
<1>9. QED
  BY <1>3, <1>7, <1>8

(* Or serving what is queued: each block that goes is sent.                *)
LEMMA Serving ==
    ASSUME NEW e \in Pairs, NEW s, NEW c, NEW first, NEW taken, NEW served, NEW p,
           Honest(e, s, c, first), Fits(e, s, first, taken),
           served \subseteq s.incoming, \A b \in served : b[1] \in Held(e[1]),
           s.am_choking => conn[e].am_choking /\ \A m \in Items(first) : m.id # "Unchoke"
    PROVE  /\ Honest(e, [s EXCEPT !.incoming = @ \ served], c,
                     first \o InOrder(p, "Piece", served))
           /\ Fits(e, [s EXCEPT !.incoming = @ \ served],
                   first \o InOrder(p, "Piece", served), taken)
<1> DEFINE s2 == [s EXCEPT !.incoming = @ \ served]
           rest == InOrder(p, "Piece", served)
           msgs == first \o rest
<1>1. s \in Connection /\ first \in Seq(Carried)
  BY DEF Honest
<1>2. served \in SUBSET Blocks
  BY <1>1, ConnFields
<1>3. /\ s2 \in Connection
      /\ s2.peer_choking = s.peer_choking /\ s2.am_choking = s.am_choking
      /\ s2.pending = s.pending
      /\ s2.incoming = s.incoming \ served /\ s2.peer_bitfield = s.peer_bitfield
  BY <1>1 DEF Connection
<1>4. /\ rest \in Seq(Carried)
      /\ \A m \in Items(rest) : m.id = "Piece" /\ m.pieces = {} /\ m.block \in served
      /\ \A b \in served : BlockMsg("Piece", b) \in Items(rest)
  BY <1>2, BlocksAreSent
<1>5. rest \in Seq(Carried) /\ \A m \in Items(rest) : Says(m) \subseteq Held(e[1])
  BY <1>4 DEF Says
<1> HIDE DEF s2, rest
<1>6. msgs \in Seq(Carried) /\ Items(msgs) = Items(first) \cup Items(rest)
  BY <1>1, <1>5, ItemsAdded
<1> HIDE DEF msgs
<1>7. Honest(e, s2, c, msgs)
  BY <1>3, <1>5, <1>6 DEF Honest
<1>8. Fits(e, s2, msgs, taken)
  <2>1. s2.am_choking => conn[e].am_choking /\ \A m \in Items(msgs) : m.id # "Unchoke"
    BY <1>3, <1>4, <1>6
  <2>2. \A b \in s.incoming : b \in s2.incoming \/ BlockMsg("Piece", b) \in Items(msgs)
    BY <1>3, <1>4, <1>6
  <2>3. QED
    BY <1>3, <1>6, <2>1, <2>2 DEF Fits
<1>9. QED
  BY <1>7, <1>8 DEF s2, msgs, rest

-----------------------------------------------------------------------------

LEMMA StartKeeps ==
    ASSUME SwarmInv, NEW e \in Pairs, Start(e)
    PROVE  SwarmInv'
<1> DEFINE s == [conn[e] EXCEPT !.at = "handshake"]
           c == M(e[1])!register_peer(managers[e[1]], e[2])
<1>1. /\ conn[e] \in Connection /\ e[1] \in Processes /\ e[2] \in Processes
      /\ Truthful(managers[e[1]]) /\ net[e] \in Seq(Carried) /\ net \in [Pairs -> Seq(Carried)]
      /\ conn[e].peer_bitfield \subseteq Held(e[2])
  BY Opposites DEF SwarmInv, TruthInv, TypeInv
<1>2. /\ s \in Connection
      /\ s.peer_choking = conn[e].peer_choking /\ s.am_choking = conn[e].am_choking
      /\ s.pending = conn[e].pending /\ s.incoming = conn[e].incoming
      /\ s.peer_bitfield = conn[e].peer_bitfield
  BY <1>1 DEF Connection
<1>3. Delivered(net, e, <<>>) = net
  BY <1>1 DEF Delivered
<1>4. Does(e, s, c, <<>>, {}) /\ There(e)
  BY <1>3 DEF Does, Start, There
<1>5. Improves(managers[e[1]], c)
  BY <1>1, QueueCalls
<1> HIDE DEF s, c
<1>6. Honest(e, s, c, <<>>)
  BY <1>1, <1>2, <1>5, NoneIsMute, MuteIsHonest DEF Honest
<1>7. Fits(e, s, <<>>, {})
  BY <1>2, QuietFits, ItemsOfNone
<1>8. QED
  BY <1>4, <1>6, <1>7, DoesKeeps

LEMMA GreetKeeps ==
    ASSUME SwarmInv, NEW e \in Pairs, Greet(e)
    PROVE  SwarmInv'
<1> DEFINE s == [conn[e] EXCEPT !.at = "head", !.am_interested = (ModeOf(e[1]) = "LEECHER")]
           c == managers[e[1]]
           msgs == Greeting(e[1])
<1>1. /\ conn[e] \in Connection /\ e[1] \in Processes
      /\ Truthful(managers[e[1]]) /\ conn[e].peer_bitfield \subseteq Held(e[2])
      /\ conn \in [Pairs -> Connection] /\ managers \in [Processes -> Manager]
  BY Opposites DEF SwarmInv, TruthInv, TypeInv
<1>2. /\ s \in Connection
      /\ s.peer_choking = conn[e].peer_choking /\ s.am_choking = conn[e].am_choking
      /\ s.pending = conn[e].pending /\ s.incoming = conn[e].incoming
      /\ s.peer_bitfield = conn[e].peer_bitfield
  BY <1>1 DEF Connection
<1>3. /\ msgs \in Seq(Carried)
      /\ \A m \in Items(msgs) : m.id # "Unchoke" /\ Says(m) \subseteq Held(e[1])
  BY <1>1, GreetingIsHonest
<1>4. managers' = [managers EXCEPT ![e[1]] = c]
  BY <1>1 DEF Greet
<1>5. conn' = [conn EXCEPT ![e] = s]
  BY <1>1 DEF Greet
<1>6. Does(e, s, c, msgs, {}) /\ There(e)
  BY <1>4, <1>5 DEF Does, Greet, There
<1> HIDE DEF s, msgs
<1>7. Honest(e, s, c, msgs)
  BY <1>1, <1>2, <1>3, ImprovesSelf DEF Honest
<1>8. Fits(e, s, msgs, {})
  BY <1>2, <1>3, QuietFits
<1>9. QED
  BY <1>6, <1>7, <1>8, DoesKeeps

LEMMA FlushKeeps ==
    ASSUME SwarmInv, NEW e \in Pairs, FlushAndServe(e)
    PROVE  SwarmInv'
<1> DEFINE p == e[1]
           c == managers[p]
           set == c.send_haves[e[2]]
           first == HavesInOrder(set)
           served == Served(p, conn[e], c)
           s == [conn[e] EXCEPT !.at = "read"]
           s2 == [s EXCEPT !.incoming = @ \ served]
           c2 == M(p)!drain_haves(c, e[2])
           msgs == first \o InOrder(p, "Piece", served)
<1>1. /\ conn[e] \in Connection /\ p \in Processes /\ e[2] \in Processes
      /\ Truthful(c) /\ conn[e].peer_bitfield \subseteq Held(e[2])
      /\ conn \in [Pairs -> Connection] /\ c \in Manager
  BY Opposites DEF SwarmInv, TruthInv, TypeInv
<1>2. /\ s \in Connection
      /\ s.peer_choking = conn[e].peer_choking /\ s.am_choking = conn[e].am_choking
      /\ s.pending = conn[e].pending /\ s.incoming = conn[e].incoming
      /\ s.peer_bitfield = conn[e].peer_bitfield
  BY <1>1 DEF Connection
<1>3. conn' = [conn EXCEPT ![e] = s2]
  BY <1>1 DEF FlushAndServe, Connection
<1>4. Does(e, s2, c2, msgs, {}) /\ There(e)
  BY <1>3 DEF Does, FlushAndServe, There
<1>5. set \in SUBSET Pieces /\ set \subseteq Held(p)
  BY <1>1 DEF Truthful, Held, Manager
<1>6. Improves(c, c2)
  BY <1>1, QueueCalls
<1>7. served \subseteq s.incoming /\ \A b \in served : b[1] \in Held(e[1])
  <2>1. served \subseteq s.incoming
    BY <1>2, ServedIsQueued
  <2>2. conn[e].incoming \in SUBSET Blocks
    BY <1>1, ConnFields
  <2>3. \A b \in Served(p, conn[e], managers[p]) : b[1] \in Held(p)
    BY <1>1, <2>2, ServedIsHeld
  <2>4. QED
    BY <2>1, <2>3
<1>8. /\ first \in Seq(Carried)
      /\ \A m \in Items(first) : m.id # "Unchoke" /\ Says(m) \subseteq Held(p)
  <2> HIDE DEF set
  <2>1. QED
    BY <1>5, HavesAreHonest
<1> HIDE DEF s, c2, served, first, set
<1>9. Honest(e, s, c2, first)
  BY <1>1, <1>2, <1>6, <1>8 DEF Honest
<1>10. Fits(e, s, first, {})
  BY <1>2, <1>8, QuietFits
<1>11. Honest(e, s2, c2, msgs) /\ Fits(e, s2, msgs, {})
  BY <1>2, <1>7, <1>8, <1>9, <1>10, Serving
<1> HIDE DEF s2, msgs
<1>12. QED
  BY <1>4, <1>11, DoesKeeps

LEMMA LeavesKeeps ==
    ASSUME SwarmInv, NEW e \in Pairs, Leaves(e)
    PROVE  SwarmInv'
<1> DEFINE o == Opposite(e)
           p == e[1]
           s == [Fresh EXCEPT !.at = "gone"]
           c == M(p)!unregister_peer(Released(managers[p], conn[e].pending), e[2])
<1>1. /\ conn[e] \in Connection /\ p \in Processes /\ e[2] \in Processes
      /\ o \in Pairs /\ o # e /\ o[1] = e[2]
      /\ Truthful(managers[p]) /\ TypeInv
  BY Opposites DEF SwarmInv, TruthInv, TypeInv
<1>2. Improves(managers[p], c)
  <2>1. Improves(managers[p], Released(managers[p], conn[e].pending))
    BY <1>1, ConnFields, ReservationCalls
  <2>2. Improves(Released(managers[p], conn[e].pending), c)
    BY <1>1, <2>1, QueueCalls DEF Improves
  <2>3. QED
    BY <2>1, <2>2, ImprovesTwice
<1>3. /\ s \in Connection /\ s.at = "gone" /\ s.peer_bitfield = {} /\ s.pending = {}
  <2> DEFINE Pendings == {bs \in SUBSET Blocks : Cardinality(bs) <= PIPELINE}
  <2>1. {} \in Pendings
    BY NothingPends
  <2>2. Connection = [at : {"start", "handshake", "head", "read", "gone"},
                      am_choking : BOOLEAN, am_interested : BOOLEAN, peer_choking : BOOLEAN,
                      peer_bitfield : SUBSET Pieces, pending : Pendings,
                      incoming : SUBSET Blocks]
    BY DEF Connection
  <2> HIDE DEF Pendings
  <2>3. QED
    BY <2>1, <2>2 DEF Fresh
<1>4. /\ conn' = [conn EXCEPT ![e] = s]
      /\ managers' = [managers EXCEPT ![p] = c]
      /\ net' = [net EXCEPT ![o] = <<>>]
      /\ links' = links
  BY DEF Leaves
<1> HIDE DEF s, c, o
<1>5. /\ conn'[e] = s /\ \A x \in Pairs : x # e => conn'[x] = conn[x]
      /\ net'[o] = <<>> /\ \A x \in Pairs : x # o => net'[x] = net[x]
      /\ managers'[p] = c /\ \A q \in Processes : q # p => managers'[q] = managers[q]
  BY <1>1, <1>4 DEF TypeInv
<1>6. TypeInv'
  BY <1>1, <1>2, <1>3, <1>4 DEF TypeInv, Improves, Truthful
<1>7. \A q \in Processes : Improves(managers[q], managers'[q])
  BY <1>2, <1>5, ImprovesSelf DEF SwarmInv, TruthInv
<1>8. \A q \in Processes : Held(q) \subseteq Held(q)'
  BY <1>7 DEF Held, Improves
<1>9. TruthInv'
  <2>1. \A q \in Processes : Truthful(managers'[q])
    BY <1>7 DEF Improves
  <2>2. ASSUME NEW x \in Pairs
        PROVE  conn'[x].peer_bitfield \subseteq Held(x[2])'
    BY <1>3, <1>5, <1>8, Opposites DEF SwarmInv, TruthInv
  <2>3. ASSUME NEW x \in Pairs, NEW m \in Items(net'[x])
        PROVE  Says(m) \subseteq Held(x[1])'
    <3>1. x # o
      BY <1>5, <2>3, ItemsOfNone
    <3>2. Says(m) \subseteq Held(x[1])
      BY <1>5, <2>3, <3>1 DEF SwarmInv, TruthInv
    <3>3. QED
      BY <1>8, <3>2, Opposites
  <2>4. QED
    BY <1>6, <2>1, <2>2, <2>3 DEF TruthInv
<1>10. LinkInv'
  <2>1. ASSUME NEW x \in Pairs, There(x)', There(Opposite(x))'
        PROVE  Linked(conn'[x], conn'[Opposite(x)], net'[x], net'[Opposite(x)])
    <3>1. x # e /\ Opposite(x) # e
      BY <1>3, <1>5, <2>1 DEF There
    <3>2. x # o /\ Opposite(x) # o /\ Opposite(x) \in Pairs
      BY <1>1, <3>1, Opposites DEF o
    <3>3. QED
      BY <1>5, <2>1, <3>1, <3>2 DEF SwarmInv, LinkInv, There
  <2>2. \A x \in Pairs : ModeOf(x[1]) = "SEEDER" => conn'[x].pending = {}
    BY <1>3, <1>5 DEF SwarmInv, LinkInv
  <2>3. QED
    BY <1>6, <2>1, <2>2 DEF LinkInv
<1>11. QED
  BY <1>9, <1>10 DEF SwarmInv

LEMMA ChokeKeeps ==
    ASSUME SwarmInv, NEW e \in Pairs, RecvChoke(e)
    PROVE  SwarmInv'
<1> DEFINE r == conn[e]
           s == [r EXCEPT !.peer_choking = TRUE, !.pending = {}]
           c == Released(managers[e[1]], r.pending)
<1>1. /\ r \in Connection /\ e[1] \in Processes /\ Truthful(managers[e[1]])
      /\ Msg(e).id = "Choke" /\ Reads(e, "Choke")
      /\ r.peer_bitfield \subseteq Held(e[2])
  BY Received DEF RecvChoke, SwarmInv, TruthInv
<1>2. /\ s \in Connection /\ s.peer_choking = TRUE /\ s.am_choking = r.am_choking
      /\ s.pending = {} /\ s.incoming = r.incoming /\ s.peer_bitfield = r.peer_bitfield
  <2> DEFINE Pendings == {bs \in SUBSET Blocks : Cardinality(bs) <= PIPELINE}
  <2>1. {} \in Pendings
    BY NothingPends
  <2>2. Connection = [at : {"start", "handshake", "head", "read", "gone"},
                      am_choking : BOOLEAN, am_interested : BOOLEAN, peer_choking : BOOLEAN,
                      peer_bitfield : SUBSET Pieces, pending : Pendings,
                      incoming : SUBSET Blocks]
    BY DEF Connection
  <2> HIDE DEF Pendings
  <2>3. QED
    BY <1>1, <2>1, <2>2
<1>3. Improves(managers[e[1]], c)
  BY <1>1, ConnFields, ReservationCalls
<1>4. Handled(e, s, c, <<>>)
  BY DEF RecvChoke
<1> HIDE DEF s, c
<1>5. Honest(e, s, c, <<>>)
  BY <1>1, <1>2, <1>3, NoneIsMute, MuteIsHonest DEF Honest
<1>6. \A b : BlockMsg("Request", b) # Msg(e)
  <2>1. \A b : BlockMsg("Request", b).id = "Request"
    BY DEF BlockMsg
  <2>2. QED
    BY <1>1, <2>1
<1>7. Fits(e, s, <<>>, {Msg(e)})
  BY <1>2, <1>6, ItemsOfNone DEF Fits
<1>8. QED
  BY <1>1, <1>4, <1>5, <1>7, HandledKeeps

LEMMA UnchokeKeeps ==
    ASSUME SwarmInv, NEW e \in Pairs, RecvUnchoke(e)
    PROVE  SwarmInv'
<1> DEFINE r == conn[e]
           s == [r EXCEPT !.peer_choking = FALSE]
           c == managers[e[1]]
<1>1. /\ r \in Connection /\ e[1] \in Processes /\ Truthful(managers[e[1]])
      /\ Msg(e).id = "Unchoke" /\ Reads(e, "Unchoke")
      /\ r.peer_bitfield \subseteq Held(e[2])
  BY Received DEF RecvUnchoke, SwarmInv, TruthInv
<1>2. /\ s \in Connection /\ s.peer_choking = FALSE /\ s.am_choking = r.am_choking
      /\ s.pending = r.pending /\ s.incoming = r.incoming /\ s.peer_bitfield = r.peer_bitfield
  BY <1>1 DEF Connection
<1>3. HandledAsking(e, s, c)
  BY DEF RecvUnchoke
<1> HIDE DEF s
<1>4. Honest(e, s, c, <<>>)
  BY <1>1, <1>2, ImprovesSelf, NoneIsMute, MuteIsHonest DEF Honest
<1>5. \A b : BlockMsg("Request", b) # Msg(e) /\ BlockMsg("Piece", b) # Msg(e)
  <2>1. \A b : BlockMsg("Request", b).id = "Request" /\ BlockMsg("Piece", b).id = "Piece"
    BY DEF BlockMsg
  <2>2. QED
    BY <1>1, <2>1
<1>6. Fits(e, s, <<>>, {Msg(e)})
  BY <1>1, <1>2, <1>5, ItemsOfNone DEF Fits
<1>7. QED
  BY <1>1, <1>3, <1>4, <1>6, Asking, HandledKeeps

LEMMA InterestedKeeps ==
    ASSUME SwarmInv, NEW e \in Pairs, RecvInterested(e)
    PROVE  SwarmInv'
<1> DEFINE r == conn[e]
           s == [r EXCEPT !.am_choking = FALSE]
           c == managers[e[1]]
           first == <<Plain("Unchoke")>>
           served == Served(e[1], s, c)
           s2 == [s EXCEPT !.incoming = @ \ served]
           msgs == first \o InOrder(e[1], "Piece", served)
<1>1. /\ r \in Connection /\ e[1] \in Processes /\ Truthful(managers[e[1]])
      /\ Msg(e).id = "Interested" /\ Reads(e, "Interested")
      /\ r.peer_bitfield \subseteq Held(e[2])
  BY Received DEF RecvInterested, SwarmInv, TruthInv
<1>2. /\ s \in Connection /\ s.peer_choking = r.peer_choking /\ s.am_choking = FALSE
      /\ s.pending = r.pending /\ s.incoming = r.incoming /\ s.peer_bitfield = r.peer_bitfield
  BY <1>1 DEF Connection
<1>3. Handled(e, s2, c, msgs)
  BY DEF RecvInterested, HandledServing
<1>4. served \subseteq s.incoming /\ \A b \in served : b[1] \in Held(e[1])
  <2> HIDE DEF s
  <2>1. served \subseteq s.incoming
    BY ServedIsQueued
  <2>2. \A b \in served : b[1] \in Held(e[1])
    BY <1>1, <1>2, ConnFields, ServedIsHeld
  <2>3. QED
    BY <2>1, <2>2
<1> HIDE DEF s, served
<1>5. Honest(e, s, c, first)
  <2>1. first \in Seq(Mute)
    BY PlainIsMute
  <2> HIDE DEF first
  <2>2. QED
    BY <1>1, <1>2, <2>1, ImprovesSelf, MuteIsHonest DEF Honest
<1>6. \A b : BlockMsg("Request", b) # Msg(e) /\ BlockMsg("Piece", b) # Msg(e)
  <2>1. \A b : BlockMsg("Request", b).id = "Request" /\ BlockMsg("Piece", b).id = "Piece"
    BY DEF BlockMsg
  <2>2. QED
    BY <1>1, <2>1
<1> HIDE DEF first
<1>7. Fits(e, s, first, {Msg(e)})
  BY <1>1, <1>2, <1>6 DEF Fits
<1>8. Honest(e, s2, c, msgs) /\ Fits(e, s2, msgs, {Msg(e)})
  BY <1>2, <1>4, <1>5, <1>7, Serving
<1> HIDE DEF s2, msgs
<1>9. QED
  BY <1>1, <1>3, <1>8, HandledKeeps

LEMMA NotInterestedKeeps ==
    ASSUME SwarmInv, NEW e \in Pairs, RecvNotInterested(e)
    PROVE  SwarmInv'
<1> DEFINE r == conn[e]
           s == [r EXCEPT !.am_choking = TRUE]
           c == managers[e[1]]
           msgs == <<Plain("Choke")>>
<1>1. /\ r \in Connection /\ e[1] \in Processes /\ Truthful(managers[e[1]])
      /\ Msg(e).id = "NotInterested" /\ Reads(e, "NotInterested")
      /\ r.peer_bitfield \subseteq Held(e[2])
  BY Received DEF RecvNotInterested, SwarmInv, TruthInv
<1>2. /\ s \in Connection /\ s.peer_choking = r.peer_choking
      /\ s.pending = r.pending /\ s.incoming = r.incoming /\ s.peer_bitfield = r.peer_bitfield
  BY <1>1 DEF Connection
<1>3. Handled(e, s, c, msgs)
  BY DEF RecvNotInterested
<1> HIDE DEF s
<1>4. \A b : BlockMsg("Request", b) # Msg(e) /\ BlockMsg("Piece", b) # Msg(e)
  <2>1. \A b : BlockMsg("Request", b).id = "Request" /\ BlockMsg("Piece", b).id = "Piece"
    BY DEF BlockMsg
  <2>2. QED
    BY <1>1, <2>1
<1>5. Fits(e, s, msgs, {Msg(e)})
  BY <1>1, <1>2, <1>4 DEF Fits
<1>6. msgs \in Seq(Mute)
  BY PlainIsMute
<1> HIDE DEF msgs
<1>7. Honest(e, s, c, msgs)
  BY <1>1, <1>2, <1>6, ImprovesSelf, MuteIsHonest DEF Honest
<1>8. QED
  BY <1>1, <1>3, <1>5, <1>7, HandledKeeps

LEMMA HaveKeeps ==
    ASSUME SwarmInv, NEW e \in Pairs, RecvHave(e)
    PROVE  SwarmInv'
<1> DEFINE r == conn[e]
           c == managers[e[1]]
           s == [r EXCEPT !.peer_bitfield = @ \cup Msg(e).pieces]
           s2 == [s EXCEPT !.am_interested = TRUE]
           probed == Probed(e[1], c, s.peer_bitfield)
           tell == <<Plain("Interested")>>
<1>1. /\ r \in Connection /\ e[1] \in Processes /\ Truthful(c)
      /\ Msg(e) \in Carried /\ Msg(e).id = "Have" /\ Reads(e, "Have")
      /\ r.peer_bitfield \subseteq Held(e[2]) /\ Msg(e).pieces \subseteq Held(e[2])
  BY Received DEF RecvHave, SwarmInv, TruthInv, Says
<1>2. Msg(e).pieces \in SUBSET Pieces
  BY <1>1 DEF Carried, Message
<1>3. /\ s \in Connection /\ s.peer_choking = r.peer_choking /\ s.am_choking = r.am_choking
      /\ s.pending = r.pending /\ s.incoming = r.incoming
      /\ s.peer_bitfield = r.peer_bitfield \cup Msg(e).pieces
  BY <1>1, <1>2 DEF Connection
<1>4. \/ Handled(e, s2, probed, tell)
      \/ Handled(e, s, c, <<>>)
  BY DEF RecvHave
<1> HIDE DEF s
<1>5. /\ s2 \in Connection /\ s2.peer_choking = s.peer_choking /\ s2.am_choking = s.am_choking
      /\ s2.pending = s.pending /\ s2.incoming = s.incoming /\ s2.peer_bitfield = s.peer_bitfield
  BY <1>3 DEF Connection
<1> HIDE DEF s2
<1>6. s.peer_bitfield \subseteq Held(e[2])
  BY <1>1, <1>3
<1>7. CASE Handled(e, s2, probed, tell)
  <2>1. Improves(c, probed)
    BY <1>1, ProbeImproves
  <2>2. tell \in Seq(Mute) /\ \A m \in Items(tell) : m.id # "Unchoke"
    BY PlainIsMute, ItemsOfOne
  <2> HIDE DEF tell, probed
  <2>3. Honest(e, s2, probed, tell)
    BY <1>5, <1>6, <2>1, <2>2, MuteIsHonest DEF Honest
  <2>4. Fits(e, s2, tell, {Msg(e)})
    BY <1>1, <1>3, <1>5, <2>2, QuietFits
  <2>5. QED
    BY <1>1, <1>7, <2>3, <2>4, HandledKeeps
<1>8. CASE Handled(e, s, c, <<>>)
  <2>1. Honest(e, s, c, <<>>)
    BY <1>1, <1>3, <1>6, ImprovesSelf, NoneIsMute, MuteIsHonest DEF Honest
  <2>2. Fits(e, s, <<>>, {Msg(e)})
    BY <1>1, <1>3, ItemsOfNone, QuietFits
  <2>3. QED
    BY <1>1, <1>8, <2>1, <2>2, HandledKeeps
<1>9. QED
  BY <1>4, <1>7, <1>8

LEMMA BitfieldKeeps ==
    ASSUME SwarmInv, NEW e \in Pairs, RecvBitfield(e)
    PROVE  SwarmInv'
<1> DEFINE r == conn[e]
           c == managers[e[1]]
           s == [r EXCEPT !.peer_bitfield = Msg(e).pieces]
           reset(b) == [c EXCEPT !.piece_status[b[1]] = 0]
<1>1. /\ r \in Connection /\ e[1] \in Processes /\ Truthful(c)
      /\ Msg(e) \in Carried /\ Msg(e).id = "Bitfield" /\ Reads(e, "Bitfield")
      /\ Msg(e).pieces \subseteq Held(e[2])
  BY Received DEF RecvBitfield, Says
<1>2. Msg(e).pieces \in SUBSET Pieces
  BY <1>1 DEF Carried, Message
<1>3. /\ s \in Connection /\ s.peer_choking = r.peer_choking /\ s.am_choking = r.am_choking
      /\ s.pending = r.pending /\ s.incoming = r.incoming
      /\ s.peer_bitfield = Msg(e).pieces
  BY <1>1, <1>2 DEF Connection
<1>4. ASSUME NEW x, NEW d, NEW msgs,
             \/ x = s
             \/ \E v \in BOOLEAN : x = [s EXCEPT !.am_interested = v],
             Improves(c, d),
             msgs \in {<<>>, <<Plain("Interested")>>, <<Plain("NotInterested")>>},
             Handled(e, x, d, msgs)
      PROVE  SwarmInv'
  <2> HIDE DEF s
  <2>1. /\ x \in Connection /\ x.peer_choking = s.peer_choking /\ x.am_choking = s.am_choking
        /\ x.pending = s.pending /\ x.incoming = s.incoming /\ x.peer_bitfield = s.peer_bitfield
    BY <1>3, <1>4 DEF Connection
  <2>2. msgs \in Seq(Mute) /\ \A m \in Items(msgs) : m.id # "Unchoke"
    <3>1. CASE msgs = <<>>
      BY <3>1, NoneIsMute, ItemsOfNone
    <3>2. ASSUME NEW id \in {"Interested", "NotInterested"}, msgs = <<Plain(id)>>
          PROVE  msgs \in Seq(Mute) /\ \A m \in Items(msgs) : m.id # "Unchoke"
      <4>1. Items(msgs) = {Plain(id)}
        BY <3>2, ItemsOfOne
      <4>2. QED
        BY <3>2, <4>1, PlainIsMute
    <3>3. QED
      BY <1>4, <3>1, <3>2
  <2>3. Honest(e, x, d, msgs)
    BY <1>1, <1>3, <1>4, <2>1, <2>2, MuteIsHonest DEF Honest
  <2>4. Fits(e, x, msgs, {Msg(e)})
    BY <1>1, <1>3, <2>1, <2>2, QuietFits
  <2>5. QED
    BY <1>1, <1>4, <2>3, <2>4, HandledKeeps
<1>5. CASE Handled(e, s, c, <<>>)
  BY <1>1, <1>4, <1>5, ImprovesSelf
<1>6. CASE Handled(e, [s EXCEPT !.am_interested = FALSE], c, <<Plain("NotInterested")>>)
  BY <1>1, <1>4, <1>6, ImprovesSelf
<1>7. CASE \E b \in M(e[1])!next_request(c, s.peer_bitfield) :
              Handled(e, [s EXCEPT !.am_interested = TRUE], reset(b),
                      IF s.am_interested THEN <<>> ELSE <<Plain("Interested")>>)
  <2>1. PICK b \in Blocks :
              Handled(e, [s EXCEPT !.am_interested = TRUE], reset(b),
                      IF s.am_interested THEN <<>> ELSE <<Plain("Interested")>>)
    BY <1>7, CandidatesAreBlocks
  <2>2. Improves(c, reset(b))
    BY <1>1, BlockShape, ResetImproves
  <2> HIDE DEF reset, s
  <2>3. QED
    BY <1>4, <2>1, <2>2
<1>8. QED
  BY <1>5, <1>6, <1>7 DEF RecvBitfield

LEMMA RequestKeeps ==
    ASSUME SwarmInv, NEW e \in Pairs, RecvRequest(e)
    PROVE  SwarmInv'
<1> DEFINE r == conn[e]
           c == managers[e[1]]
           b == Msg(e).block
           s == [r EXCEPT !.incoming = @ \cup {b}]
           served == Served(e[1], s, c)
           s2 == [s EXCEPT !.incoming = @ \ served]
           rest == InOrder(e[1], "Piece", served)
<1>1. /\ r \in Connection /\ e[1] \in Processes /\ Truthful(c)
      /\ Msg(e) \in Carried /\ Msg(e).id = "Request" /\ Reads(e, "Request")
      /\ r.peer_bitfield \subseteq Held(e[2])
  BY Received DEF RecvRequest, SwarmInv, TruthInv
<1>2. b \in Blocks
  BY <1>1 DEF Carried
<1>3. /\ \A a : BlockMsg("Piece", a) # Msg(e)
      /\ \A a : BlockMsg("Request", a) = Msg(e) => a = b
  <2>1. \A a : BlockMsg("Piece", a).id = "Piece" /\ BlockMsg("Request", a).block = a
    BY DEF BlockMsg
  <2>2. QED
    BY <1>1, <2>1
<1>4. CASE r.am_choking /\ Handled(e, r, c, <<>>)
  <2>1. Honest(e, r, c, <<>>)
    BY <1>1, ImprovesSelf, NoneIsMute, MuteIsHonest DEF Honest
  <2>2. Fits(e, r, <<>>, {Msg(e)})
    BY <1>1, <1>3, <1>4, ItemsOfNone DEF Fits
  <2>3. QED
    BY <1>1, <1>4, <2>1, <2>2, HandledKeeps
<1>5. CASE ~ r.am_choking /\ HandledServing(e, s, <<>>)
  <2>1. /\ s \in Connection /\ s.peer_choking = r.peer_choking /\ s.am_choking = r.am_choking
        /\ s.pending = r.pending /\ s.incoming = r.incoming \cup {b}
        /\ s.peer_bitfield = r.peer_bitfield
    BY <1>1, <1>2 DEF Connection
  <2>2. Handled(e, s2, c, <<>> \o rest)
    BY <1>5 DEF HandledServing
  <2>3. served \subseteq s.incoming /\ \A a \in served : a[1] \in Held(e[1])
    <3> HIDE DEF s
    <3>1. served \subseteq s.incoming
      BY ServedIsQueued
    <3>2. \A a \in served : a[1] \in Held(e[1])
      BY <1>1, <2>1, ConnFields, ServedIsHeld
    <3>3. QED
      BY <3>1, <3>2
  <2> HIDE DEF s, served
  <2>4. Honest(e, s, c, <<>>)
    BY <1>1, <2>1, ImprovesSelf, NoneIsMute, MuteIsHonest DEF Honest
  <2>5. Fits(e, s, <<>>, {Msg(e)})
    BY <1>1, <1>3, <1>5, <2>1, ItemsOfNone DEF Fits
  <2>6. Honest(e, s2, c, <<>> \o rest) /\ Fits(e, s2, <<>> \o rest, {Msg(e)})
    BY <1>5, <2>1, <2>3, <2>4, <2>5, Serving
  <2> HIDE DEF s2, rest
  <2>7. QED
    BY <1>1, <2>2, <2>6, HandledKeeps
<1>6. QED
  BY <1>4, <1>5 DEF RecvRequest

LEMMA PieceKeeps ==
    ASSUME SwarmInv, NEW e \in Pairs, RecvPiece(e)
    PROVE  SwarmInv'
<1> DEFINE r == conn[e]
           c == managers[e[1]]
           b == Msg(e).block
           s == [r EXCEPT !.pending = @ \ {b}]
<1>1. /\ r \in Connection /\ e[1] \in Processes /\ Truthful(c)
      /\ Msg(e) \in Carried /\ Msg(e).id = "Piece" /\ Reads(e, "Piece")
      /\ r.peer_bitfield \subseteq Held(e[2])
  BY Received DEF RecvPiece, SwarmInv, TruthInv
<1>2. b \in Blocks
  BY <1>1 DEF Carried
<1>3. CASE Handled(e, r, c, <<>>) /\ ModeOf(e[1]) = "SEEDER"
  <2>1. r.pending = {}
    BY <1>3 DEF SwarmInv, LinkInv
  <2>2. \A a : BlockMsg("Request", a) # Msg(e)
    <3>1. \A a : BlockMsg("Request", a).id = "Request"
      BY DEF BlockMsg
    <3>2. QED
      BY <1>1, <3>1
  <2>3. Honest(e, r, c, <<>>)
    BY <1>1, ImprovesSelf, NoneIsMute, MuteIsHonest DEF Honest
  <2>4. Fits(e, r, <<>>, {Msg(e)})
    BY <1>1, <2>1, <2>2, ItemsOfNone DEF Fits
  <2>5. QED
    BY <1>1, <1>3, <2>3, <2>4, HandledKeeps
<1>4. CASE \E d \in M(e[1])!received_block(c, b, "good") : HandledAsking(e, s, d)
  <2>1. PICK d \in M(e[1])!received_block(c, b, "good") : HandledAsking(e, s, d)
    BY <1>4
  <2>2. Improves(c, d)
    BY <1>1, <1>2, StoreImproves
  <2>3. /\ \A a : BlockMsg("Request", a) # Msg(e)
        /\ \A a : BlockMsg("Piece", a) = Msg(e) => a = b
    <3>1. \A a : BlockMsg("Request", a).id = "Request" /\ BlockMsg("Piece", a).block = a
      BY DEF BlockMsg
    <3>2. QED
      BY <1>1, <3>1
  <2>4. Cardinality(r.pending \ {b}) <= PIPELINE
    <3>1. IsFiniteSet(r.pending) /\ Cardinality(r.pending) <= PIPELINE
      BY <1>1, ConnFields, BlocksAreFiniteAny
    <3>2. /\ IsFiniteSet(r.pending \ {b})
          /\ Cardinality(r.pending \ {b}) <= Cardinality(r.pending)
      BY <3>1, FS_Subset
    <3>3. /\ Cardinality(r.pending \ {b}) \in Nat /\ Cardinality(r.pending) \in Nat
          /\ PIPELINE \in Nat
      BY <3>1, <3>2, FS_CardinalityType, SwarmAssumption
    <3>4. QED
      BY <3>1, <3>2, <3>3
  <2>5. /\ s \in Connection /\ s.peer_choking = r.peer_choking /\ s.am_choking = r.am_choking
        /\ s.pending = r.pending \ {b} /\ s.incoming = r.incoming
        /\ s.peer_bitfield = r.peer_bitfield
    BY <1>1, <2>4 DEF Connection
  <2> HIDE DEF s
  <2>6. Honest(e, s, d, <<>>)
    BY <1>1, <2>2, <2>5, NoneIsMute, MuteIsHonest DEF Honest
  <2>7. Fits(e, s, <<>>, {Msg(e)})
    BY <1>1, <2>3, <2>5, ItemsOfNone DEF Fits
  <2>8. QED
    BY <1>1, <2>1, <2>6, <2>7, Asking, HandledKeeps
<1>5. QED
  BY <1>3, <1>4 DEF RecvPiece

-----------------------------------------------------------------------------
(* The invariants hold of every behaviour.                                 *)

LEMMA InitSwarm == Init => SwarmInv
<1> SUFFICES ASSUME Init
             PROVE  SwarmInv
  OBVIOUS
<1>1. ASSUME NEW p \in Processes
      PROVE  Truthful(M(p)!Constructed(FileOf(p)))
  <2> DEFINE c == M(p)!Constructed(FileOf(p))
             status == [i \in Pieces |-> IF ModeOf(p) = "SEEDER" THEN 1 ELSE 0]
  <2>1. /\ c.piece_status = status /\ c.disk = FileOf(p)
        /\ c.send_haves = [q \in Processes |-> {}]
    BY Geometry DEF M!Constructed
  <2>2. status \in [Pieces -> 0 .. 2]
    BY StatusSet
  <2>3. FileOf(p) \in [Pieces -> {"absent", "zeros", "bad", "good"}]
    BY DEF FileOf
  <2>4. c \in Manager
    BY <2>2, <2>3, Geometry DEF M!Constructed, Manager
  <2>5. ASSUME NEW i \in DoneIn(c)
        PROVE  c.disk[i] = "good"
    BY <2>1, <2>5 DEF DoneIn, FileOf, ModeOf
  <2>6. QED
    BY <2>1, <2>4, <2>5 DEF Truthful
<1>2. Fresh \in Connection /\ Fresh.pending = {} /\ Fresh.peer_bitfield = {}
      /\ Fresh.am_choking = TRUE /\ Fresh.peer_choking = TRUE
  <2> DEFINE Pendings == {bs \in SUBSET Blocks : Cardinality(bs) <= PIPELINE}
  <2>1. {} \in Pendings
    BY NothingPends
  <2>2. Connection = [at : {"start", "handshake", "head", "read", "gone"},
                      am_choking : BOOLEAN, am_interested : BOOLEAN, peer_choking : BOOLEAN,
                      peer_bitfield : SUBSET Pieces, pending : Pendings,
                      incoming : SUBSET Blocks]
    BY DEF Connection
  <2> HIDE DEF Pendings
  <2>3. QED
    BY <2>1, <2>2 DEF Fresh
<1>3. /\ \A p \in Processes : managers[p] = M(p)!Constructed(FileOf(p))
      /\ \A e \in Pairs : conn[e] = Fresh /\ net[e] = <<>>
  BY DEF Init
<1>4. TypeInv
  <2>1. managers \in [Processes -> Manager]
    BY <1>1 DEF Init, Truthful
  <2>2. conn \in [Pairs -> Connection]
    BY <1>2 DEF Init
  <2>3. net \in [Pairs -> Seq(Carried)]
    BY DEF Init
  <2>4. QED
    BY <2>1, <2>2, <2>3 DEF Init, TypeInv
<1>5. TruthInv
  BY <1>1, <1>2, <1>3, <1>4, ItemsOfNone DEF TruthInv
<1>6. ChokeLast(<<>>)
  BY DEF ChokeLast
<1>7. LinkInv
  BY <1>2, <1>3, <1>4, <1>6, Opposites DEF LinkInv, Linked
<1>8. QED
  BY <1>5, <1>7 DEF SwarmInv

LEMMA EndsArePairs ==
    ASSUME links \in Topologies
    PROVE  Ends \subseteq Pairs
<1>1. links \subseteq Pairs
  BY SwarmAssumption
<1>2. QED
  BY <1>1, Opposites DEF Ends

LEMMA NextSwarm == SwarmInv /\ [Next]_vars => SwarmInv'
<1> SUFFICES ASSUME SwarmInv, [Next]_vars
             PROVE  SwarmInv'
  OBVIOUS
<1>1. CASE UNCHANGED vars
  BY <1>1 DEF vars, SwarmInv, TruthInv, LinkInv, TypeInv, Held, There
<1>2. CASE Next
  <2>1. PICK e \in Pairs : Thread(e)
    BY <1>2, EndsArePairs DEF Next, SwarmInv, TruthInv, TypeInv
  <2>2. CASE Start(e) \/ Greet(e) \/ FlushAndServe(e)
    BY <2>2, StartKeeps, GreetKeeps, FlushKeeps
  <2>3. CASE AllDone(e) \/ ReadFails(e)
    BY <2>3, LeavesKeeps DEF AllDone, ReadFails
  <2>4. CASE RecvChoke(e) \/ RecvUnchoke(e) \/ RecvInterested(e) \/ RecvNotInterested(e)
    BY <2>4, ChokeKeeps, UnchokeKeeps, InterestedKeeps, NotInterestedKeeps
  <2>5. CASE RecvHave(e) \/ RecvBitfield(e) \/ RecvRequest(e) \/ RecvPiece(e)
    BY <2>5, HaveKeeps, BitfieldKeeps, RequestKeeps, PieceKeeps
  <2>6. QED
    BY <2>1, <2>2, <2>3, <2>4, <2>5 DEF Thread
<1>3. QED
  BY <1>1, <1>2

THEOREM SwarmInvariant == Spec => []SwarmInv
<1>1. QED
  BY InitSwarm, NextSwarm, PTL DEF Spec

(* Every process, thread and message stays well formed, and no thread asks *)
(* for more than its pipeline holds, however long request_next_blocks has  *)
(* been filling it and Chokes have been emptying it.                       *)
THEOREM WellFormed == Spec => []TypeOK
<1>1. SwarmInv => TypeOK
  <2> SUFFICES ASSUME SwarmInv
               PROVE  TypeOK
    OBVIOUS
  <2>1. \A p \in Processes : managers[p] \in M(p)!Managers
    BY Managed DEF SwarmInv, TruthInv, TypeInv
  <2>2. net \in [Pairs -> Seq(Message)]
    <3>1. \A e \in Pairs : net[e] \in Seq(Message)
      BY SeqMono DEF SwarmInv, TruthInv, TypeInv, Carried
    <3>2. QED
      BY <3>1 DEF SwarmInv, TruthInv, TypeInv
  <2>3. QED
    BY <2>1, <2>2 DEF SwarmInv, TruthInv, TypeInv, TypeOK
<1>2. QED
  BY <1>1, SwarmInvariant, PTL

(* What a process believes of the one it is connected to, from its         *)
(* Bitfield and Haves, that one has verified on disk: in every state, with *)
(* any number of processes, in any topology.                               *)
THEOREM BeliefsAreTrue == Spec => []BelievedIsHeld
<1>1. SwarmInv => BelievedIsHeld
  <2> SUFFICES ASSUME SwarmInv, NEW e \in Ends, NEW i \in Pieces, i \in conn[e].peer_bitfield
               PROVE  managers[e[2]].disk[i] = "good"
    BY DEF BelievedIsHeld
  <2>1. e \in Pairs
    BY EndsArePairs DEF SwarmInv, TruthInv, TypeInv
  <2>2. QED
    BY <2>1 DEF SwarmInv, TruthInv, Held
<1>2. QED
  BY <1>1, SwarmInvariant, PTL

(* A block a thread waits for is asked for, queued, on its way, or about   *)
(* to be given up by a Choke: the Requests a choked end throws away are    *)
(* never the last word on a block.                                         *)
THEOREM RequestsAreNotLost == Spec => []NoRequestLost
<1>1. SwarmInv => NoRequestLost
  <2> SUFFICES ASSUME SwarmInv, NEW e \in Ends, InLoop(e), InLoop(Opposite(e)),
                      NEW b \in conn[e].pending
               PROVE  \/ InTransit(e, "Request", b)
                      \/ b \in conn[Opposite(e)].incoming
                      \/ InTransit(Opposite(e), "Piece", b)
                      \/ \E k \in 1 .. Len(net[Opposite(e)]) : net[Opposite(e)][k].id = "Choke"
    BY DEF NoRequestLost
  <2>1. e \in Pairs
    BY EndsArePairs DEF SwarmInv, TruthInv, TypeInv
  <2>2. There(e) /\ There(Opposite(e))
    BY DEF InLoop, There
  <2>3. Linked(conn[e], conn[Opposite(e)], net[e], net[Opposite(e)])
    BY <2>1, <2>2 DEF SwarmInv, LinkInv
  <2>4. \/ BlockMsg("Request", b) \in Items(net[e])
        \/ b \in conn[Opposite(e)].incoming
        \/ BlockMsg("Piece", b) \in Items(net[Opposite(e)])
        \/ Choked(net[Opposite(e)])
    BY <2>3 DEF Linked
  <2>5. QED
    BY <2>4 DEF Items, Choked, InTransit
<1>2. QED
  BY <1>1, SwarmInvariant, PTL

-----------------------------------------------------------------------------
(* The swarm disseminates.  Only the handler of Piece writes to disk, and  *)
(* it completes at most the piece of the block it was sent.                *)

GoodIn(c) == {i \in Pieces : c.disk[i] = "good"}

LEMMA QueuesKeepDisk ==
    ASSUME NEW p, NEW c \in Manager, NEW q
    PROVE  /\ M(p)!register_peer(c, q).disk = c.disk
           /\ M(p)!unregister_peer(c, q).disk = c.disk
           /\ M(p)!drain_haves(c, q).disk = c.disk
<1>1. M(p)!register_peer(c, q).disk = c.disk
  BY DEF M!register_peer, Manager
<1>2. M(p)!unregister_peer(c, q).disk = c.disk
  BY DEF M!unregister_peer, Manager
<1>3. M(p)!drain_haves(c, q).disk = c.disk
  BY DEF M!drain_haves, Manager
<1>4. QED
  BY <1>1, <1>2, <1>3

LEMMA ReservingKeepsDisk ==
    ASSUME NEW c \in Manager, NEW bs
    PROVE  Reserved(c, bs).disk = c.disk /\ Released(c, bs).disk = c.disk
BY DEF Reserved, Released, Manager

LEMMA StoreCompletes ==
    ASSUME NEW p \in Processes, NEW c, Truthful(c), NEW b \in Blocks,
           NEW r \in M(p)!received_block(c, b, "good")
    PROVE  r.disk = c.disk \/ GoodIn(r) = GoodIn(c) \cup {b[1]}
<1> DEFINE s == M(p)!store(c, b, "good")
           i == b[1]
<1>1. c \in Manager /\ i \in Pieces
  BY BlockShape DEF Truthful
<1>2. s \in Manager /\ s.disk = c.disk
  BY <1>1 DEF M!store, Manager
<1>3. r = c \/ r = s \/ r = M(p)!reject(s, i)
      \/ (M(p)!HashMatches(s, i) /\ \E f \in M(p)!write_to_disk(s, i) : r = M(p)!complete(s, i, f))
  BY DEF M!received_block
<1> HIDE DEF s
<1>4. CASE r = c \/ r = s
  BY <1>2, <1>4
<1>5. CASE r = M(p)!reject(s, i)
  BY <1>2, <1>5 DEF M!reject, Manager
<1>6. CASE M(p)!HashMatches(s, i) /\ \E f \in M(p)!write_to_disk(s, i) : r = M(p)!complete(s, i, f)
  <2>1. PICK f \in M(p)!write_to_disk(s, i) : r = M(p)!complete(s, i, f)
    BY <1>6
  <2> DEFINE opened == IF s.disk = M(p)!Empty THEN M(p)!Zeroed ELSE s.disk
  <2>2. f = M(p)!Written(opened, i, "good")
    BY <1>6, Geometry DEF M!write_to_disk
  <2>3. \A j \in Pieces : f[j] = "good" <=> s.disk[j] = "good" \/ j = i
    <3>1. \A j \in Pieces : opened[j] = "good" <=> s.disk[j] = "good"
      BY <1>2 DEF Manager, M!Empty, M!Zeroed
    <3> HIDE DEF opened
    <3>2. QED
      BY <1>1, <2>2, <3>1, Geometry DEF M!Written
  <2>4. r.disk = f
    BY <1>2, <2>1 DEF M!complete, Manager
  <2>5. QED
    BY <1>1, <1>2, <2>3, <2>4 DEF GoodIn
<1>7. QED
  BY <1>3, <1>4, <1>5, <1>6

(* A step of thread e leaves its process with the manager c.               *)
Leaving(e, c) == managers' = [managers EXCEPT ![e[1]] = c] /\ links' = links

Obtains(e, c) ==
    /\ ModeOf(e[1]) = "LEECHER"
    /\ \E i \in Held(e[2]) : GoodIn(c) = GoodIn(managers[e[1]]) \cup {i}

LEMMA PieceObtains ==
    ASSUME SwarmInv, NEW e \in Pairs, RecvPiece(e)
    PROVE  \E c : Leaving(e, c) /\ (c.disk = managers[e[1]].disk \/ Obtains(e, c))
<1> DEFINE c == managers[e[1]]
           b == Msg(e).block
           s == [conn[e] EXCEPT !.pending = @ \ {b}]
<1>1. /\ e[1] \in Processes /\ Truthful(c)
      /\ Msg(e) \in Carried /\ Msg(e).id = "Piece" /\ Says(Msg(e)) \subseteq Held(e[2])
  BY Received DEF RecvPiece
<1>2. b \in Blocks /\ b[1] \in Held(e[2])
  <2>1. b \in Blocks
    BY <1>1 DEF Carried
  <2>2. b[1] \in Pieces
    BY <2>1, BlockShape
  <2>3. QED
    BY <1>1, <2>1, <2>2 DEF Says
<1>3. CASE Handled(e, conn[e], c, <<>>)
  BY <1>3 DEF Handled, Leaving
<1>4. CASE ModeOf(e[1]) = "LEECHER"
           /\ \E d \in M(e[1])!received_block(c, b, "good") : HandledAsking(e, s, d)
  <2>1. PICK d \in M(e[1])!received_block(c, b, "good") : HandledAsking(e, s, d)
    BY <1>4
  <2> DEFINE r == Reserved(d, Asked(e[1], s, d))
  <2>2. d \in Manager
    BY <1>1, <1>2, StoreImproves DEF Improves, Truthful
  <2>3. Leaving(e, r)
    BY <2>1 DEF HandledAsking, Handled, Leaving
  <2>4. r.disk = d.disk
    BY <2>2, ReservingKeepsDisk
  <2>5. d.disk = c.disk \/ GoodIn(d) = GoodIn(c) \cup {b[1]}
    BY <1>1, <1>2, StoreCompletes
  <2> HIDE DEF r, b
  <2>6. r.disk = c.disk \/ Obtains(e, r)
    BY <1>2, <1>4, <2>4, <2>5 DEF GoodIn, Obtains
  <2>7. QED
    BY <2>3, <2>6
<1>5. QED
  BY <1>3, <1>4 DEF RecvPiece

LEMMA ThreadObtains ==
    ASSUME SwarmInv, NEW e \in Pairs, Thread(e)
    PROVE  \E c : Leaving(e, c) /\ (c.disk = managers[e[1]].disk \/ Obtains(e, c))
<1> DEFINE p == e[1]
           old == managers[p]
<1>1. /\ p \in Processes /\ managers \in [Processes -> Manager] /\ old \in Manager
  BY Opposites DEF SwarmInv, TruthInv, TypeInv
<1> HIDE DEF old
<1>2. CASE Start(e)
  <2> DEFINE r == M(p)!register_peer(old, e[2])
  <2>1. r.disk = old.disk
    BY <1>1, QueuesKeepDisk
  <2>2. Leaving(e, r)
    BY <1>2 DEF Start, Leaving, old
  <2>3. QED
    BY <2>1, <2>2 DEF old
<1>3. CASE Greet(e)
  BY <1>1, <1>3 DEF Greet, Leaving, old
<1>4. CASE FlushAndServe(e)
  <2> DEFINE r == M(p)!drain_haves(old, e[2])
  <2>1. r.disk = old.disk
    BY <1>1, QueuesKeepDisk
  <2>2. Leaving(e, r)
    BY <1>4 DEF FlushAndServe, Leaving, old
  <2>3. QED
    BY <2>1, <2>2 DEF old
<1>5. CASE AllDone(e) \/ ReadFails(e)
  <2> DEFINE r == Released(old, conn[e].pending)
  <2>1. r \in Manager /\ r.disk = old.disk
    BY <1>1, ReservingKeepsDisk DEF Released, Manager
  <2>2. Leaving(e, M(p)!unregister_peer(r, e[2]))
    BY <1>5 DEF AllDone, ReadFails, Leaves, Leaving, old
  <2> HIDE DEF r
  <2>3. M(p)!unregister_peer(r, e[2]).disk = old.disk
    BY <2>1, QueuesKeepDisk
  <2>4. QED
    BY <2>2, <2>3 DEF old
<1>6. CASE RecvChoke(e)
  BY <1>1, <1>6, ReservingKeepsDisk DEF RecvChoke, Handled, Leaving, old
<1>7. CASE RecvUnchoke(e)
  BY <1>1, <1>7, ReservingKeepsDisk DEF RecvUnchoke, HandledAsking, Handled, Leaving, old
<1>8. CASE RecvInterested(e)
  BY <1>8 DEF RecvInterested, HandledServing, Handled, Leaving
<1>9. CASE RecvNotInterested(e)
  BY <1>9 DEF RecvNotInterested, Handled, Leaving
<1>10. CASE RecvHave(e)
  <2>1. ASSUME NEW have
        PROVE  Probed(p, old, have).disk = old.disk
    <3> DEFINE found == M(p)!next_request(old, have)
               r == Reserved(old, found)
    <3>1. r \in Manager /\ r.disk = old.disk
      <4>1. Truthful(old) /\ found \in SUBSET Blocks
        BY <1>1, CandidatesAreBlocks DEF SwarmInv, TruthInv, old
      <4> HIDE DEF found
      <4>2. QED
        BY <1>1, <4>1, ReservationCalls, ReservingKeepsDisk DEF Improves, Truthful
    <3> HIDE DEF r
    <3>2. Released(r, found).disk = r.disk
      BY <3>1, ReservingKeepsDisk
    <3>3. QED
      BY <3>1, <3>2 DEF Probed, r
  <2>2. \E c : Leaving(e, c) /\ (c = old \/ \E have : c = Probed(p, old, have))
    BY <1>10 DEF RecvHave, Handled, Leaving, old
  <2>3. QED
    BY <2>1, <2>2 DEF old
<1>11. CASE RecvBitfield(e)
  <2>1. \A i : [old EXCEPT !.piece_status[i] = 0].disk = old.disk
    BY <1>1 DEF Manager
  <2>2. \E c : Leaving(e, c) /\ (c = old \/ \E i : c = [old EXCEPT !.piece_status[i] = 0])
    BY <1>11 DEF RecvBitfield, Handled, Leaving, old
  <2>3. QED
    BY <2>1, <2>2 DEF old
<1>12. CASE RecvRequest(e)
  BY <1>12 DEF RecvRequest, HandledServing, Handled, Leaving
<1>13. CASE RecvPiece(e)
  BY <1>13, PieceObtains
<1>14. QED
  BY <1>2, <1>3, <1>4, <1>5, <1>6, <1>7, <1>8, <1>9, <1>10, <1>11, <1>12, <1>13 DEF Thread

LEMMA InitDisseminates == Init => D!Init
<1> SUFFICES ASSUME Init
             PROVE  D!Init
  OBVIOUS
<1>1. ASSUME NEW p \in Processes
      PROVE  Held(p) = IF p \in Seeders THEN Pieces ELSE {}
  <2>1. managers[p].disk = FileOf(p)
    BY DEF Init, M!Constructed
  <2>2. QED
    BY <2>1 DEF Held, FileOf
<1>2. D!Processes = Processes
  BY DEF D!Processes, Processes
<1>3. QED
  BY <1>1, <1>2 DEF Init, D!Init

(* A step is one more piece for a leecher, from a process connected to it  *)
(* that holds it, or changes nothing one can see.                          *)
LEMMA NextDisseminates ==
    SwarmInv /\ [Next]_vars => [D!Next]_<<links, [p \in Processes |-> Held(p)]>>
<1> DEFINE have == [p \in Processes |-> Held(p)]
<1> SUFFICES ASSUME SwarmInv, [Next]_vars
             PROVE  D!Next \/ (links' = links /\ have' = have)
  OBVIOUS
<1>1. CASE UNCHANGED vars
  BY <1>1 DEF vars, Held
<1>2. CASE Next
  <2>1. PICK e \in Ends : Thread(e)
    BY <1>2 DEF Next
  <2>2. e \in Pairs /\ managers \in [Processes -> Manager]
    BY EndsArePairs DEF SwarmInv, TruthInv, TypeInv
  <2>3. /\ e[1] \in Processes /\ e[2] \in Processes
        /\ <<e[1], e[2]>> \in links \/ <<e[2], e[1]>> \in links
    <3>1. e[1] \in Processes /\ e[2] \in Processes /\ e = <<e[1], e[2]>>
      BY <2>2 DEF Pairs
    <3>2. CASE e \in links
      BY <3>1, <3>2
    <3>3. CASE \E l \in links : e = Opposite(l)
      <4>1. PICK l \in links : e = Opposite(l)
        BY <3>3
      <4>2. l \in Pairs
        BY SwarmAssumption DEF SwarmInv, TruthInv, TypeInv
      <4>3. l = <<e[2], e[1]>>
        BY <4>1, <4>2 DEF Opposite, Pairs
      <4>4. QED
        BY <3>1, <4>3
    <3>4. QED
      BY <3>2, <3>3 DEF Ends
  <2>4. PICK c : Leaving(e, c) /\ (c.disk = managers[e[1]].disk \/ Obtains(e, c))
    BY <2>1, <2>2, ThreadObtains
  <2>5. /\ links' = links
        /\ \A p \in Processes : managers'[p] = IF p = e[1] THEN c ELSE managers[p]
    BY <2>2, <2>3, <2>4 DEF Leaving
  <2>6. /\ \A p \in Processes : p # e[1] => Held(p)' = Held(p)
        /\ Held(e[1])' = GoodIn(c) /\ Held(e[1]) = GoodIn(managers[e[1]])
    BY <2>3, <2>5 DEF Held, GoodIn
  <2>7. CASE Held(e[1])' = Held(e[1])
    BY <2>5, <2>6, <2>7
  <2>8. CASE Held(e[1])' # Held(e[1])
    <3>1. Obtains(e, c)
      BY <2>4, <2>6, <2>8 DEF GoodIn
    <3>2. PICK i \in Held(e[2]) : Held(e[1])' = Held(e[1]) \cup {i}
      BY <2>6, <3>1 DEF Obtains
    <3>3. e[1] \in Leechers /\ i \in Pieces /\ i \notin Held(e[1])
      BY <2>3, <2>8, <3>1, <3>2 DEF Obtains, ModeOf, Processes, Held
    <3>4. have' = [have EXCEPT ![e[1]] = @ \cup {i}]
      BY <2>3, <2>6, <3>2
    <3>5. i \in have[e[2]] \ have[e[1]]
      BY <2>3, <3>2, <3>3
    <3> HIDE DEF have
    <3>6. D!Obtain(e[1], e[2], i)
      BY <2>3, <2>5, <3>4, <3>5 DEF D!Obtain, have
    <3>7. QED
      BY <2>3, <3>3, <3>6 DEF D!Next, D!Processes, Processes
  <2>9. QED
    BY <2>7, <2>8
<1>3. QED
  BY <1>1, <1>2

(* In any swarm of this program, whatever its topology, threads and        *)
(* messages do, what can be seen from outside is verified pieces passing   *)
(* over connections: received_block completes a piece only from a process  *)
(* that has it, and no handler ever takes one away.                        *)
THEOREM SwarmDisseminates == Spec => ImplementsDissemination
<1>1. QED
  BY InitDisseminates, NextDisseminates, SwarmInvariant, PTL
     DEF Spec, ImplementsDissemination, D!Spec

=============================================================================
