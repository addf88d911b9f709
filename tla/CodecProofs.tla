---------------------------- MODULE CodecProofs -----------------------------
(***************************************************************************)
(* The memory bound of the LZ4 encoder, for every payload size, number of  *)
(* processors and memory cap.  Min is a choice from a set, so the lemmas   *)
(* about two, three and four numbers come first; the bound is then linear  *)
(* arithmetic over the workers that the cap, the blocks and the processors *)
(* allow.                                                                  *)
(***************************************************************************)
EXTENDS Codec, TLAPS

\* The smaller of two numbers is one of them and not above either.
LEMMA MinOfTwo ==
    ASSUME NEW a \in Int, NEW b \in Int
    PROVE  Min({a, b}) \in {a, b} /\ Min({a, b}) <= a /\ Min({a, b}) <= b
<1>1. \E x \in {a, b} : \A y \in {a, b} : x <= y
  <2>1. CASE a <= b
    BY <2>1
  <2>2. CASE ~(a <= b)
    BY <2>2
  <2> QED BY <2>1, <2>2
<1> QED BY <1>1 DEF Min

\* The same for three, from the smaller of the first two.
LEMMA MinOfThree ==
    ASSUME NEW a \in Int, NEW b \in Int, NEW c \in Int
    PROVE  Min({a, b, c}) \in {a, b, c} /\ \A y \in {a, b, c} : Min({a, b, c}) <= y
<1> DEFINE m == Min({a, b})
<1>1. m \in {a, b} /\ m <= a /\ m <= b
  BY MinOfTwo
<1> HIDE DEF m
<1>2. \E x \in {a, b, c} : \A y \in {a, b, c} : x <= y
  <2>1. CASE m <= c
    BY <1>1, <2>1
  <2>2. CASE ~(m <= c)
    BY <1>1, <2>2
  <2> QED BY <2>1, <2>2
<1> QED BY <1>2 DEF Min

\* The same for four, from the smallest of the first three.
LEMMA MinOfFour ==
    ASSUME NEW a \in Int, NEW b \in Int, NEW c \in Int, NEW d \in Int
    PROVE  /\ Min({a, b, c, d}) \in {a, b, c, d}
           /\ Min({a, b, c, d}) <= a /\ Min({a, b, c, d}) <= b /\ Min({a, b, c, d}) <= c /\ Min({a, b, c, d}) <= d
<1> DEFINE m == Min({a, b, c})
<1>1. m \in {a, b, c} /\ m <= a /\ m <= b /\ m <= c
  BY MinOfThree
<1> HIDE DEF m
<1>2. \E x \in {a, b, c, d} : \A y \in {a, b, c, d} : x <= y
  <2>1. CASE m <= d
    BY <1>1, <2>1
  <2>2. CASE ~(m <= d)
    BY <1>1, <2>2
  <2> QED BY <2>1, <2>2
<1> QED BY <1>2 DEF Min

\* A payload larger than a block has at least two.
LEMMA SeveralBlocks ==
    ASSUME NEW size \in Nat, size > Lz4Block
    PROVE  Blocks(size) \in Nat /\ Blocks(size) >= 2
BY DEF Blocks, Lz4Block

\* The workers that available memory allows fit in it.
LEMMA WorkersFit ==
    ASSUME NEW avail \in Int, avail >= Lz4PerWorker
    PROVE  /\ avail \div Lz4PerWorker \in Nat /\ avail \div Lz4PerWorker >= 1
           /\ (avail \div Lz4PerWorker) * Lz4PerWorker <= avail
BY DEF Lz4PerWorker

Resources == [cpus : Nat \ {0}, mem : Nat \cup {NoMemoryCap}]

\* ComputeLZ4Concurrency yields one worker, or several for a payload of several
\* blocks: at most eight, and under a memory cap no more than it has room for.
LEMMA ConcurrencyBounds ==
    ASSUME NEW size \in Nat, NEW res \in Resources
    PROVE  LET n == ComputeLZ4Concurrency(size, res)
           IN  /\ n \in 1 .. 8
               /\ n > 1 => size > Lz4Block
               /\ n > 1 /\ res.mem # NoMemoryCap => n * Lz4PerWorker <= res.mem - size - Lz4Headroom
<1> DEFINE n == ComputeLZ4Concurrency(size, res)
           avail == res.mem - size - Lz4Headroom
           k == avail \div Lz4PerWorker
<1>0. res.cpus \in Nat /\ res.cpus >= 1 /\ res.mem \in Int /\ avail \in Int
  BY DEF Resources, NoMemoryCap, Lz4Headroom
<1>1. CASE size <= Lz4Block \/ res.cpus <= 1
  BY <1>1 DEF ComputeLZ4Concurrency
<1>2. CASE ~(size <= Lz4Block \/ res.cpus <= 1) /\ res.mem = NoMemoryCap
  <2>1. n = Min({res.cpus, Blocks(size), 8})
    BY <1>2 DEF ComputeLZ4Concurrency
  <2>2. Blocks(size) \in Nat /\ Blocks(size) >= 2 /\ size > Lz4Block
    BY <1>2, SeveralBlocks DEF Lz4Block
  <2>3. n \in {res.cpus, Blocks(size), 8} /\ n <= 8
    <3>1. res.cpus \in Int /\ Blocks(size) \in Int /\ 8 \in Int
      BY <1>0, <2>2
    <3> HIDE DEF n
    <3>2. Min({res.cpus, Blocks(size), 8}) \in {res.cpus, Blocks(size), 8} /\ \A y \in {res.cpus, Blocks(size), 8} : Min({res.cpus, Blocks(size), 8}) <= y
      BY <3>1, MinOfThree, Zenon
    <3> QED BY <2>1, <3>2
  <2> QED BY <1>0, <1>2, <2>2, <2>3
<1>3. CASE ~(size <= Lz4Block \/ res.cpus <= 1) /\ res.mem # NoMemoryCap /\ (res.mem < LowMemory \/ avail < Lz4PerWorker)
  BY <1>3 DEF ComputeLZ4Concurrency
<1>4. CASE ~(size <= Lz4Block \/ res.cpus <= 1) /\ res.mem # NoMemoryCap /\ ~(res.mem < LowMemory \/ avail < Lz4PerWorker)
  <2>1. n = Min({res.cpus, k, Blocks(size), 8})
    BY <1>4 DEF ComputeLZ4Concurrency
  <2>2. Blocks(size) \in Nat /\ Blocks(size) >= 2 /\ size > Lz4Block
    BY <1>4, SeveralBlocks DEF Lz4Block
  <2>3. k \in Nat /\ k >= 1 /\ k * Lz4PerWorker <= avail
    <3>1. avail >= Lz4PerWorker
      BY <1>0, <1>4 DEF Lz4PerWorker
    <3> QED BY <3>1, <1>0, WorkersFit
  <2> HIDE DEF k, avail, n
  <2>4. n \in {res.cpus, k, Blocks(size), 8} /\ n <= 8 /\ n <= k
    <3>1. res.cpus \in Int /\ k \in Int /\ Blocks(size) \in Int /\ 8 \in Int
      BY <1>0, <2>2, <2>3
    <3>2. Min({res.cpus, k, Blocks(size), 8}) \in {res.cpus, k, Blocks(size), 8} /\ Min({res.cpus, k, Blocks(size), 8}) <= k /\ Min({res.cpus, k, Blocks(size), 8}) <= 8
      BY <3>1, MinOfFour, Zenon
    <3> QED BY <2>1, <3>2
  <2>5. n \in 1 .. 8 /\ n * Lz4PerWorker <= avail
    BY <1>0, <1>4, <2>2, <2>3, <2>4 DEF Lz4PerWorker
  <2> QED BY <2>2, <2>5 DEF n, avail
<1> QED BY <1>1, <1>2, <1>3, <1>4

\* Whatever the payload, the processors and the memory cap are, the buffers of an
\* LZ4 encoder fit what admission reserved for it, and several workers fit under
\* the cap together with the payload (computeLZ4Concurrency, lz4EncoderWorkspace).
THEOREM LZ4EncoderFits ==
    ASSUME NEW size \in Nat, NEW res \in Resources
    PROVE  EncoderFits(size, res, ComputeLZ4Concurrency(size, res))
<1> DEFINE n == ComputeLZ4Concurrency(size, res)
           b == Min({Blocks(size), n + 1})
           r == Min({Blocks(size), 9})
<1>1. /\ n \in 1 .. 8
      /\ n > 1 => size > Lz4Block
      /\ n > 1 /\ res.mem # NoMemoryCap => n * Lz4PerWorker <= res.mem - size - Lz4Headroom
  BY ConcurrencyBounds
<1>0. res.mem \in Int
  BY DEF Resources, NoMemoryCap
<1> HIDE DEF n
<1>2. CASE n = 1
  <2>1. LZ4Buffers(size, n) = 1
    BY <1>2 DEF LZ4Buffers
  <2>2. CASE size <= Lz4Block
    BY <1>2, <2>1, <2>2 DEF EncoderFits, LZ4EncoderWorkspace, Lz4PerWorker, n
  <2>3. CASE ~(size <= Lz4Block)
    <3>1. Blocks(size) \in Nat /\ Blocks(size) >= 2
      BY <2>3, SeveralBlocks DEF Lz4Block
    <3>2. r \in {Blocks(size), 9}
      BY <3>1, MinOfTwo
    <3> HIDE DEF r
    <3>3. Lz4PerWorker <= (r + 1) * Lz4PerWorker
      BY <3>1, <3>2 DEF Lz4PerWorker
    <3> QED BY <1>2, <2>1, <2>3, <3>3 DEF EncoderFits, LZ4EncoderWorkspace, r, n, Lz4PerWorker
  <2> QED BY <2>2, <2>3
<1>3. CASE n # 1
  <2>1. n > 1 /\ size > Lz4Block /\ Blocks(size) \in Nat /\ Blocks(size) >= 2
    BY <1>1, <1>3, SeveralBlocks
  <2>2. b \in {Blocks(size), n + 1} /\ b <= Blocks(size) /\ b <= n + 1
    <3>1. Blocks(size) \in Int /\ n + 1 \in Int
      BY <1>1, <2>1
    <3> QED BY <3>1, MinOfTwo, Zenon
  <2>3. r \in {Blocks(size), 9}
    <3>1. Blocks(size) \in Int /\ 9 \in Int
      BY <2>1
    <3> QED BY <3>1, MinOfTwo, Zenon
  <2>4. LZ4Buffers(size, n) = b + 1 /\ LZ4EncoderWorkspace(size) = (r + 1) * Lz4PerWorker
    BY <1>3, <2>1 DEF LZ4Buffers, LZ4EncoderWorkspace, Lz4Block
  <2> HIDE DEF b, r
  <2>5. (b + 1) * Lz4PerWorker <= (r + 1) * Lz4PerWorker
    BY <1>1, <2>1, <2>2, <2>3 DEF Lz4PerWorker
  <2>6. res.mem # NoMemoryCap => size + (b + 1) * Lz4PerWorker <= res.mem
    BY <1>0, <1>1, <2>1, <2>2 DEF Lz4PerWorker, Lz4Headroom
  <2>7. EncoderFits(size, res, n)
    BY <2>4, <2>5, <2>6 DEF EncoderFits
  <2> QED BY <2>7 DEF n
<1> QED BY <1>2, <1>3

=============================================================================
