--------------------------- MODULE ZlogRotateProofs ---------------------------
(***************************************************************************)
(* Proofs about ZlogRotate, for any number of processes and threads, any   *)
(* limits and any number of faults.  The inductive invariant says who may  *)
(* move files (LockInv), how the archives are numbered after any number of *)
(* rotations that were broken off (RolledInv, CountedInv), how far the one *)
(* rotation in progress is (MoveInv), and who looks after a log file that  *)
(* is too long (SizeInv).                                                  *)
(***************************************************************************)
EXTENDS ZlogRotate, FiniteSetTheorems, WellFoundedInduction, TLAPS

Caring == {"check", "trylock", "flock", "stat", "list", "move"}
Critical == {"stat", "list", "move", "unlock"}
Place == {"idle", "write", "unlock2"} \union Caring \union Critical

TypeInv ==
  /\ rule.mv_type \in {"none", "bad", "ROLLING", "SEQUENCE"} /\ rule.max_count \in Int
  /\ rule = NoRule \/ rule.mv_type # "none"
  /\ writes \in Nat /\ writes <= MaxWrites
  /\ lastFile \in Nat /\ lastFile <= writes
  /\ dir \in [Names -> 0..lastFile]
  /\ size \in [FileId -> Nat]
  /\ wpc \in [Writers -> Place]
  /\ fd \in [Writers -> 0..lastFile]
  /\ len \in [Writers -> Nat]
  /\ files \in [Procs -> Seq(Names \ {Base})]
  /\ pos \in [Procs -> Nat]
  /\ lock_mutex \in [Procs -> Writers \union {Nobody}]
  /\ lock_fd \in Procs \union {Nobody}
  /\ skipped \in BOOLEAN

Configured == rule.mv_type # "none"

\* A writer past its trylock has the mutex of its process, and the file lock
\* is its process's until it unlocks: one writer of all processes moves files.
LockInv ==
  /\ \A w \in Writers : wpc[w] \in Critical \union {"flock", "unlock2"} =>
       lock_mutex[ProcOf[w]] = w
  /\ \A w \in Writers : wpc[w] \in Critical => lock_fd = ProcOf[w]
  /\ \A w \in Writers : wpc[w] # "idle" => Configured

\* The log file, or the one that will be created.
Youngest == IF dir[Base] # None THEN dir[Base] ELSE lastFile + 1

\* Rolled archives: a rotation that was broken off leaves one hole at most,
\* and there is a number for every file.
RolledInv ==
  \A n \in Archives :
    /\ \A g, h \in 0..(n - 1) : dir[g] = None /\ dir[h] = None => g = h
    /\ dir[n] + n <= Youngest
    /\ (\A h \in 0..(n - 1) : dir[h] # None) => dir[n] + n < Youngest
    /\ rule.max_count > 0 => n < rule.max_count
    /\ \A m \in Archives : m < n => dir[n] < dir[m]

\* Counted archives have consecutive numbers.
CountedInv ==
  \A n \in Archives :
    /\ n < dir[n]
    /\ \A m \in Archives :
         /\ \A k \in m..n : dir[k] # None
         /\ rule.max_count > 0 => n - m <= rule.max_count
         /\ m < n => dir[m] < dir[n]

ArchiveInv ==
  /\ \A n \in Archives : dir[n] < Youngest
  /\ rule.mv_type = "ROLLING" => RolledInv
  /\ rule.mv_type = "SEQUENCE" => CountedInv
  /\ rule.mv_type \in {"none", "bad"} => Archives = {}
  /\ ~clobbered

Ascending(q) == \A i, j \in 1..Len(q) : i < j => q[i] < q[j]

\* The archives up to position i of list q are to be rolled, the others were
\* moved up behind them.
Rolling(q, i) ==
  /\ i <= Len(q)
  /\ \A j \in 1..Len(q) : q[j] \in {j - 1, j}
  /\ \A j, k \in 1..Len(q) : j < k /\ q[j] = j => q[k] = k
  /\ \A j \in 1..i : dir[q[j]] # None
  /\ \A n \in Archives : n > i \/ \E j \in 1..i : q[j] = n

\* The archives before position i of list q that are over the count are gone.
Counting(q, i) ==
  /\ 1 <= i /\ i <= Len(q) + 1
  /\ \A j \in 1..Len(q) : q[j] = q[Len(q)] - (Len(q) - j)
  /\ Len(q) > 0 => dir[q[Len(q)]] # None
  /\ \A n \in Archives : \E j \in 1..Len(q) :
       q[j] = n /\ ~(rule.max_count > 0 /\ j < i /\ j <= Len(q) - rule.max_count)

Progress(q, i) ==
  /\ rule.mv_type \in {"ROLLING", "SEQUENCE"}
  /\ Ascending(q)
  /\ rule.mv_type = "ROLLING" => Rolling(q, i)
  /\ rule.mv_type = "SEQUENCE" => Counting(q, i)

MoveInv ==
  \A w \in Writers : wpc[w] = "move" => Progress(files[ProcOf[w]], pos[ProcOf[w]])

\* Sizes: a writer that rotates has seen the file full, and a log file that is
\* too long has a writer that will look at it or a skipped rotation.
SizeInv ==
  /\ \A f \in FileId : f > lastFile => size[f] = 0
  /\ \A w \in Writers :
       /\ wpc[w] = "write" => fd[w] # None /\ len[w] \in MsgLens
       /\ wpc[w] \in Caring => len[w] \in MsgLens /\ len[w] <= ArchiveMaxSize
       /\ wpc[w] \in {"list", "move"} =>
            dir[Base] # None /\ size[dir[Base]] + len[w] > ArchiveMaxSize
  /\ RotatedFull
  /\ dir[Base] # None /\ ~skipped /\ size[dir[Base]] > ArchiveMaxSize =>
       \E w \in Writers : wpc[w] \in Caring

RotateInv == TypeInv /\ LockInv /\ ArchiveInv /\ MoveInv /\ SizeInv

-----------------------------------------------------------------------------
(* Lists of numbers.  Induction over a natural number is done by looking   *)
(* at the least one for which a claim fails.                               *)

\* A set of natural numbers that is not empty has a least one.
LEMMA LeastNatural ==
  ASSUME NEW T \in SUBSET Nat, T # {}
  PROVE  \E m \in T : \A n \in T : m <= n
<1>1. PICK m \in T : \A n \in T : ~(<<n, m>> \in OpToRel(<, Nat))
  BY WFMin, NatLessThanWellFounded
<1>2. \A n \in T : ~(n < m)
  BY <1>1 DEF OpToRel
<1> QED  BY <1>2

\* The numbers of an ascending list grow by one at least.
LEMMA Spread ==
  ASSUME NEW N \in Nat, NEW q, \A j \in 1..N : q[j] \in Int,
         \A i, j \in 1..N : i < j => q[i] < q[j],
         NEW j \in 1..N, NEW k \in 1..N, j <= k
  PROVE  k - j <= q[k] - q[j]
<1> DEFINE T == {l \in 1..N : j <= l /\ ~(l - j <= q[l] - q[j])}
<1> SUFFICES ASSUME T # {} PROVE FALSE
  OBVIOUS
<1>1. PICK l \in T : \A m \in T : l <= m
  <2>1. T \in SUBSET Nat
    OBVIOUS
  <2> HIDE DEF T
  <2> QED  BY <2>1, LeastNatural
<1>2. l # j /\ l - 1 \in 1..N /\ j <= l - 1
  OBVIOUS
<1>3. l - 1 \notin T
  BY <1>1
<1>4. (l - 1) - j <= q[l - 1] - q[j] /\ q[l - 1] < q[l]
  BY <1>2, <1>3
<1> QED  BY <1>1, <1>2, <1>4

\* A set of numbers below a bound can be listed in ascending order.
LEMMA ListBelow ==
  ASSUME NEW S \in SUBSET Nat, NEW b \in Nat
  PROVE  LET A == {x \in S : x < b} IN
         /\ IsFiniteSet(A)
         /\ \E q \in [1..Cardinality(A) -> A] :
              /\ \A n \in A : \E i \in DOMAIN q : q[i] = n
              /\ \A i, j \in DOMAIN q : i < j => q[i] < q[j]
<1> DEFINE Below(c) == {x \in S : x < c}
           Listed(c) == /\ IsFiniteSet(Below(c))
                        /\ \E q \in [1..Cardinality(Below(c)) -> Below(c)] :
                             /\ \A n \in Below(c) : \E i \in DOMAIN q : q[i] = n
                             /\ \A i, j \in DOMAIN q : i < j => q[i] < q[j]
           T == {c \in Nat : ~Listed(c)}
<1> SUFFICES ASSUME T # {} PROVE FALSE
  <2>1. Listed(b)
    OBVIOUS
  <2> QED  BY <2>1
<1>0. \A x \in S : x \in Nat
  OBVIOUS
<1> HIDE DEF Listed
<1>1. PICK c \in T : \A d \in T : c <= d
  <2>1. T \in SUBSET Nat
    OBVIOUS
  <2> HIDE DEF T
  <2> QED  BY <2>1, LeastNatural
<1>2. c # 0
  <2> SUFFICES Listed(0)
    BY <1>1
  <2>1. Below(0) = {}
    <3>1. \A x \in S : ~(x < 0)
      BY <1>0
    <3> QED  BY <3>1, Zenon
  <2>2. Cardinality({}) = 0 /\ IsFiniteSet({})
    BY FS_EmptySet
  <2>3. DOMAIN << >> = 1..0 /\ << >> \in [1..0 -> {}]
    OBVIOUS
  <2> QED  BY <2>1, <2>2, <2>3 DEF Listed
<1>3. Listed(c - 1) /\ c - 1 \in Nat /\ ~Listed(c)
  <2>1. c - 1 \in Nat /\ c - 1 \notin T
    BY <1>1, <1>2
  <2> QED  BY <2>1
<1> DEFINE A == Below(c - 1)
           N == Cardinality(A)
<1>4. IsFiniteSet(A) /\ N \in Nat /\ \A x \in A : x \in Int /\ x < c - 1
  <2>1. IsFiniteSet(A)
    BY <1>3 DEF Listed
  <2> HIDE DEF A
  <2>2. N \in Nat
    BY <2>1, FS_CardinalityType
  <2> QED  BY <1>0, <1>3, <2>1, <2>2 DEF A
<1>5. PICK q \in [1..N -> A] : /\ \A n \in A : \E i \in 1..N : q[i] = n
                               /\ \A i, j \in 1..N : i < j => q[i] < q[j]
  BY <1>3 DEF Listed
<1>6. CASE c - 1 \notin S
  <2>1. Below(c) = A
    <3>1. \A x \in S : x < c <=> x < c - 1
      BY <1>0, <1>1, <1>3, <1>6
    <3> QED  BY <3>1, Zenon
  <2> QED  BY <1>3, <2>1 DEF Listed
<1>7. CASE c - 1 \in S
  <2> DEFINE B == A \union {c - 1}
             r == [i \in 1..(N + 1) |-> IF i <= N THEN q[i] ELSE c - 1]
  <2>1. Below(c) = B
    <3>1. \A x \in S : x < c <=> x < c - 1 \/ x = c - 1
      BY <1>0, <1>1, <1>3
    <3> QED  BY <1>7, <3>1, Zenon
  <2>2. c - 1 \notin A
    BY <1>3
  <2> HIDE DEF A
  <2>3. IsFiniteSet(B) /\ Cardinality(B) = N + 1
    BY <1>4, <2>2, FS_AddElement
  <2> HIDE DEF N
  <2>4. r \in [1..(N + 1) -> B] /\ DOMAIN r = 1..(N + 1)
    BY <1>4, <1>5
  <2>5. \A n \in B : \E i \in 1..(N + 1) : r[i] = n
    <3> SUFFICES ASSUME NEW n \in B PROVE \E i \in 1..(N + 1) : r[i] = n
      OBVIOUS
    <3>1. CASE n \in A
      <4>1. PICK i \in 1..N : q[i] = n
        BY <1>5, <3>1
      <4>2. i \in 1..(N + 1) /\ r[i] = n
        BY <1>4, <4>1
      <4> QED  BY <4>2
    <3>2. CASE n = c - 1
      <4>1. N + 1 \in 1..(N + 1) /\ r[N + 1] = n
        BY <1>4, <3>2
      <4> QED  BY <4>1
    <3> QED  BY <3>1, <3>2
  <2>6. \A i, j \in 1..(N + 1) : i < j => r[i] < r[j]
    <3> SUFFICES ASSUME NEW i \in 1..(N + 1), NEW j \in 1..(N + 1), i < j PROVE r[i] < r[j]
      OBVIOUS
    <3>1. i \in 1..N /\ r[i] = q[i] /\ q[i] \in A
      BY <1>4, <1>5
    <3>2. CASE j <= N
      <4>1. r[j] = q[j] /\ j \in 1..N
        BY <1>4, <3>2
      <4> QED  BY <1>5, <3>1, <4>1
    <3>3. CASE j = N + 1
      <4>1. r[j] = c - 1
        BY <1>4, <3>3
      <4> QED  BY <1>4, <3>1, <4>1
    <3> QED  BY <1>4, <3>2, <3>3
  <2> HIDE DEF r
  <2>7. Listed(c)
    BY <2>1, <2>3, <2>4, <2>5, <2>6 DEF Listed
  <2> QED  BY <1>3, <2>7
<1> QED  BY <1>6, <1>7

\* A function from 1..n is a sequence.
LEMMA ListIsSeq ==
  ASSUME NEW S, NEW n \in Nat, NEW f \in [1..n -> S]
  PROVE  f \in Seq(S) /\ Len(f) = n
OBVIOUS

\* What zlog_rotater_add_archive_files returns: every archive, once, by index.
LEMMA ListFacts ==
  ASSUME TypeInv
  PROVE  LET q == zlog_rotater_add_archive_files IN
         /\ q \in Seq(Names \ {Base}) /\ Len(q) \in Nat
         /\ \A i \in 1..Len(q) : q[i] \in Archives
         /\ \A n \in Archives : \E i \in 1..Len(q) : q[i] = n
         /\ Ascending(q)
<1> DEFINE q == zlog_rotater_add_archive_files
<1>1. Archives \in SUBSET Nat /\ Archives \subseteq Names \ {Base}
      /\ {x \in Archives : x < MaxWrites + 1} = Archives
  BY RotateAssumption DEF Archives, Names, Base
<1>2. IsFiniteSet(Archives) /\ Cardinality(Archives) \in Nat
      /\ \E r \in Lists : \A i, j \in DOMAIN r : i < j => r[i] < r[j]
  <2>1. MaxWrites + 1 \in Nat
    BY RotateAssumption
  <2>2. /\ IsFiniteSet(Archives)
        /\ \E r \in [1..Cardinality(Archives) -> Archives] :
              /\ \A n \in Archives : \E i \in DOMAIN r : r[i] = n
              /\ \A i, j \in DOMAIN r : i < j => r[i] < r[j]
    <3> DEFINE A == {x \in Archives : x < MaxWrites + 1}
    <3>1. /\ IsFiniteSet(A)
          /\ \E r \in [1..Cardinality(A) -> A] :
               /\ \A n \in A : \E i \in DOMAIN r : r[i] = n
               /\ \A i, j \in DOMAIN r : i < j => r[i] < r[j]
      BY <1>1, <2>1, ListBelow
    <3>2. A = Archives
      BY <1>1
    <3> HIDE DEF A
    <3> QED  BY <3>1, <3>2
  <2> QED  BY <2>2, FS_CardinalityType DEF Lists
<1>3. q \in Lists /\ \A i, j \in DOMAIN q : i < j => q[i] < q[j]
  BY <1>2 DEF zlog_rotater_add_archive_files
<1> HIDE DEF q
<1>4. /\ q \in [1..Cardinality(Archives) -> Archives]
      /\ \A n \in Archives : \E i \in DOMAIN q : q[i] = n
  BY <1>3 DEF Lists
<1>5. q \in Seq(Names \ {Base}) /\ Len(q) = Cardinality(Archives)
  <2>1. q \in [1..Cardinality(Archives) -> Names \ {Base}]
    BY <1>1, <1>4
  <2> QED  BY <1>2, <2>1, ListIsSeq
<1> QED  BY <1>2, <1>3, <1>4, <1>5 DEF Ascending, q

\* Names of archives are numbers.
LEMMA NameFacts ==
  /\ MaxWrites \in Nat /\ Base = 0 - 1 /\ None = 0
  /\ Base \in Names /\ Base \notin Archives
  /\ \A n \in Names : n \in Int /\ (n # Base => n >= 0) /\ n <= MaxWrites
  /\ \A n \in 0..MaxWrites : n \in Names /\ n # Base /\ (n \in Archives <=> dir[n] # None)
  /\ \A n \in Archives : n \in Names /\ n \in 0..MaxWrites /\ n \in Int /\ dir[n] # None /\ n >= 0 /\ n # Base
<1>1. MaxWrites \in Nat /\ Base = 0 - 1 /\ None = 0
  BY RotateAssumption DEF Base, None
<1>2. /\ \A n \in Names : n \in Int /\ (n # Base => n >= 0) /\ n <= MaxWrites
      /\ \A n \in 0..MaxWrites : n \in Names /\ n # Base
      /\ Base \in Names
  BY <1>1 DEF Names
<1>3. \A n \in Archives : n \in Names /\ n # Base /\ dir[n] # None
  BY DEF Archives
<1>4. \A n \in 0..MaxWrites : n \in Archives <=> dir[n] # None
  BY <1>2 DEF Archives
<1>5. \A n \in Archives : n \in 0..MaxWrites /\ n \in Int /\ n >= 0
  <2> SUFFICES ASSUME NEW n \in Archives PROVE n \in 0..MaxWrites /\ n \in Int /\ n >= 0
    OBVIOUS
  <2>1. n \in Names /\ n # Base
    BY <1>3
  <2>2. n \in Int /\ n >= 0 /\ n <= MaxWrites
    BY <1>2, <2>1
  <2> QED  BY <1>1, <2>2
<1> QED  BY <1>1, <1>2, <1>3, <1>4, <1>5

\* No archive lies between two neighbours of an ascending list of all archives,
\* and none before its first.
LEMMA Gaps ==
  ASSUME NEW q, NEW N \in Nat, Archives \subseteq Int,
         \A i \in 1..N : q[i] \in Archives,
         \A n \in Archives : \E i \in 1..N : q[i] = n,
         \A i, j \in 1..N : i < j => q[i] < q[j]
  PROVE  /\ \A l \in 2..N, m \in Archives : ~(q[l - 1] < m /\ m < q[l])
         /\ N > 0 => \A m \in Archives : q[1] <= m
<1>0. \A i \in 1..N : q[i] \in Int
  OBVIOUS
<1>1. ASSUME NEW l \in 2..N, NEW m \in Archives, q[l - 1] < m, m < q[l]
      PROVE  FALSE
  <2>1. PICK k \in 1..N : q[k] = m
    OBVIOUS
  <2>2. l - 1 \in 1..N /\ l \in 1..N /\ q[k] \in Int /\ q[l - 1] \in Int /\ q[l] \in Int
    <3>1. l - 1 \in 1..N /\ l \in 1..N
      OBVIOUS
    <3> QED  BY <1>0, <3>1
  <2>3. CASE k <= l - 1
    <3>1. q[k] <= q[l - 1]
      BY <2>2, <2>3
    <3> QED  BY <1>1, <2>1, <2>2, <3>1
  <2>4. CASE k >= l
    <3>1. q[l] <= q[k]
      BY <2>2, <2>4
    <3> QED  BY <1>1, <2>1, <2>2, <3>1
  <2> QED  BY <2>3, <2>4
<1>2. ASSUME N > 0, NEW m \in Archives
      PROVE  q[1] <= m
  <2>1. PICK k \in 1..N : q[k] = m
    OBVIOUS
  <2>2. 1 \in 1..N /\ q[1] \in Int /\ q[k] \in Int
    BY <1>0, <1>2
  <2> QED  BY <2>1, <2>2
<1> QED  BY <1>1, <1>2

\* The list of rolled archives: up to the hole the index is the position in
\* the list (counted from 0), behind the hole it is one more.
LEMMA ListRolling ==
  ASSUME TypeInv, RolledInv
  PROVE  Rolling(zlog_rotater_add_archive_files, Len(zlog_rotater_add_archive_files))
<1> DEFINE q == zlog_rotater_add_archive_files
           N == Len(q)
<1>1. /\ N \in Nat
      /\ \A i \in 1..N : q[i] \in Archives
      /\ \A n \in Archives : \E i \in 1..N : q[i] = n
      /\ \A i, j \in 1..N : i < j => q[i] < q[j]
  BY ListFacts DEF Ascending
<1> HIDE DEF q, N
<1>2. Archives \subseteq Int /\ \A i \in 1..N : q[i] \in 0..MaxWrites /\ q[i] \in Int
  BY <1>1, NameFacts
<1>3. /\ \A l \in 2..N, m \in Archives : ~(q[l - 1] < m /\ m < q[l])
      /\ N > 0 => \A m \in Archives : q[1] <= m
  BY <1>1, <1>2, Gaps
<1>4. ASSUME NEW i \in 1..N, NEW g \in 0..(q[i] - 1), NEW h \in 0..(q[i] - 1),
             g \notin Archives, h \notin Archives
      PROVE  g = h
  <2>1. g \in 0..MaxWrites /\ h \in 0..MaxWrites
    BY <1>2, NameFacts
  <2>2. dir[g] = None /\ dir[h] = None
    BY <1>4, <2>1, NameFacts
  <2> QED  BY <1>1, <2>2 DEF RolledInv
<1> DEFINE Claim(l) == q[l] = l - 1 \/ (q[l] = l /\ \E h \in 0..(l - 1) : h \notin Archives)
           T == {l \in 1..N : ~Claim(l)}
<1>5. T = {}
  <2> SUFFICES ASSUME T # {} PROVE FALSE
    OBVIOUS
  <2>1. PICK l \in T : \A m \in T : l <= m
    <3>1. T \in SUBSET Nat
      BY <1>1
    <3> HIDE DEF T
    <3> QED  BY <3>1, LeastNatural
  <2>2. l \in 1..N /\ ~Claim(l) /\ q[l] \in Int /\ q[l] >= 0
    BY <1>2, NameFacts
  <2>3. CASE l = 1
    <3>1. 0 \notin Archives \/ q[1] = 0
      BY <1>1, <1>2, <1>3, <2>2, <2>3
    <3>2. q[1] > 1
      BY <2>2, <2>3, <3>1
    <3>3. 0 \notin Archives /\ 1 \notin Archives
      BY <1>1, <1>2, <1>3, <3>2
    <3> QED  BY <1>4, <2>2, <2>3, <3>2, <3>3
  <2>4. CASE l > 1
    <3>1. l - 1 \in 1..N /\ l - 1 \notin T
      BY <1>1, <2>1, <2>2, <2>4
    <3>2. Claim(l - 1) /\ q[l - 1] < q[l] /\ q[l - 1] \in Int
      BY <1>1, <1>2, <2>2, <2>4, <3>1
    <3>3. \A m \in Archives : ~(q[l - 1] < m /\ m < q[l])
      BY <1>1, <1>3, <2>2, <2>4
    <3> HIDE DEF T
    <3>4. CASE q[l - 1] = l - 2
      <4>1. q[l] # l - 1
        BY <2>2
      <4>2. q[l] > l - 1 /\ l - 1 \notin Archives
        BY <1>1, <2>2, <3>2, <3>3, <3>4, <4>1
      <4>3. q[l] # l
        BY <2>2, <2>4, <4>2
      <4>4. l \notin Archives /\ q[l] > l
        BY <1>1, <2>2, <3>2, <3>3, <3>4, <4>2, <4>3
      <4> QED  BY <1>4, <2>2, <2>4, <4>2, <4>4
    <3>5. CASE q[l - 1] = l - 1 /\ \E h \in 0..(l - 2) : h \notin Archives
      <4>1. PICK h \in 0..(l - 2) : h \notin Archives
        BY <3>5
      <4>2. q[l] # l
        BY <2>2, <4>1
      <4>3. q[l] > l /\ l \notin Archives
        BY <1>1, <2>2, <3>2, <3>3, <3>5, <4>2
      <4> QED  BY <1>4, <2>2, <2>4, <4>1, <4>3
    <3>6. (l - 1) - 1 = l - 2
      BY <2>2
    <3> QED  BY <3>2, <3>4, <3>5, <3>6
  <2> QED  BY <2>2, <2>3, <2>4
<1>6. \A j \in 1..N : q[j] \in {j - 1, j}
  BY <1>5
<1>7. \A j, k \in 1..N : j < k /\ q[j] = j => q[k] = k
  <2> SUFFICES ASSUME NEW j \in 1..N, NEW k \in 1..N, j < k, q[j] = j PROVE q[k] = k
    OBVIOUS
  <2>1. k - j <= q[k] - q[j]
    <3>1. j <= k /\ \A l \in 1..N : q[l] \in Int
      BY <1>1, <1>2
    <3> QED  BY <1>1, <3>1, Spread
  <2> QED  BY <1>1, <1>6, <2>1
<1>8. \A j \in 1..N : dir[q[j]] # None
  BY <1>1, NameFacts
<1> QED  BY <1>1, <1>6, <1>7, <1>8 DEF Rolling, q, N

\* The list of counted archives is consecutive.
LEMMA ListCounting ==
  ASSUME TypeInv, CountedInv
  PROVE  Counting(zlog_rotater_add_archive_files, 1)
<1> DEFINE q == zlog_rotater_add_archive_files
           N == Len(q)
<1>1. /\ N \in Nat
      /\ \A i \in 1..N : q[i] \in Archives
      /\ \A n \in Archives : \E i \in 1..N : q[i] = n
      /\ \A i, j \in 1..N : i < j => q[i] < q[j]
  BY ListFacts DEF Ascending
<1> HIDE DEF q, N
<1>2. Archives \subseteq Int /\ \A i \in 1..N : q[i] \in 0..MaxWrites /\ q[i] \in Int
  BY <1>1, NameFacts
<1>3. \A l \in 2..N, m \in Archives : ~(q[l - 1] < m /\ m < q[l])
  BY <1>1, <1>2, Gaps
<1>4. \A l \in 2..N : q[l] = q[l - 1] + 1
  <2> SUFFICES ASSUME NEW l \in 2..N, q[l] # q[l - 1] + 1 PROVE FALSE
    OBVIOUS
  <2>1. l - 1 \in 1..N /\ l \in 1..N /\ l - 1 < l
    BY <1>1
  <2>2. q[l - 1] + 1 < q[l] /\ q[l - 1] \in Archives /\ q[l] \in Archives
    BY <1>1, <1>2, <2>1
  <2>3. dir[q[l - 1] + 1] # None /\ q[l - 1] + 1 \in 0..MaxWrites
    BY <1>2, <2>1, <2>2, NameFacts DEF CountedInv
  <2>4. q[l - 1] + 1 \in Archives
    BY <2>3, NameFacts
  <2> QED  BY <1>2, <1>3, <2>1, <2>2, <2>4
<1> DEFINE T == {d \in Nat : d < N /\ q[N - d] # q[N] - d}
<1>5. T = {}
  <2> SUFFICES ASSUME T # {} PROVE FALSE
    OBVIOUS
  <2>1. PICK d \in T : \A e \in T : d <= e
    <3>1. T \in SUBSET Nat
      OBVIOUS
    <3> HIDE DEF T
    <3> QED  BY <3>1, LeastNatural
  <2>2. d # 0
    BY <1>1, <1>2
  <2>3. d - 1 \in Nat /\ d - 1 \notin T
    BY <2>1, <2>2
  <2>4. q[N - (d - 1)] = q[N] - (d - 1)
    BY <1>1, <2>1, <2>3
  <2>5. N - d + 1 \in 2..N /\ N - (d - 1) = N - d + 1 /\ (N - d + 1) - 1 = N - d /\ N \in 1..N
        /\ N - d \in 1..N
    BY <1>1, <2>1, <2>2
  <2>6. q[N - d + 1] = q[N - d] + 1
    BY <1>4, <2>5
  <2>7. q[N - d] \in Int /\ q[N] \in Int /\ d \in Nat /\ q[N - d] # q[N] - d
    BY <1>2, <2>1, <2>5
  <2>8. q[N - d] + 1 = q[N] - (d - 1)
    BY <2>4, <2>5, <2>6
  <2> QED  BY <2>7, <2>8
<1>6. \A j \in 1..N : q[j] = q[N] - (N - j)
  <2> SUFFICES ASSUME NEW j \in 1..N PROVE q[j] = q[N] - (N - j)
    OBVIOUS
  <2>1. N - j \in Nat /\ N - j < N /\ N - (N - j) = j
    BY <1>1
  <2> QED  BY <1>5, <2>1
<1>7. N > 0 => dir[q[N]] # None
  BY <1>1, NameFacts
<1>8. \A n \in Archives : \E j \in 1..N :
        q[j] = n /\ ~(rule.max_count > 0 /\ j < 1 /\ j <= N - rule.max_count)
  BY <1>1
<1> QED  BY <1>1, <1>6, <1>7, <1>8 DEF Counting, q, N

-----------------------------------------------------------------------------
(* What unlink and rename do to the archives.                              *)

\* The archives after a step.
LEMMA NextArchives ==
  \A n : n \in Archives' <=> n \in Names /\ n # Base /\ dir'[n] # None
BY DEF Archives

\* The files of the directory.
LEMMA DirFacts ==
  ASSUME TypeInv
  PROVE  /\ \A n \in Names : dir[n] \in Int /\ dir[n] >= 0 /\ dir[n] <= lastFile
         /\ lastFile \in Int /\ lastFile <= MaxWrites
         /\ rule.max_count \in Int
BY RotateAssumption DEF TypeInv

\* Removing the highest rolled archive.
LEMMA RollUnlink ==
  ASSUME TypeInv, ArchiveInv, rule.mv_type = "ROLLING", UNCHANGED <<rule, lastFile>>,
         NEW n \in Archives, \A m \in Archives : m <= n, Unlinked(n)
  PROVE  /\ ArchiveInv'
         /\ dir' \in [Names -> 0..lastFile] /\ dir'[Base] = dir[Base]
         /\ \A m \in Archives' : m \in Archives /\ m # n /\ dir'[m] = dir[m]
<1>1. dir' = [dir EXCEPT ![n] = None] /\ clobbered' = clobbered
  BY DEF Unlinked
<1>2. n \in Names /\ n # Base /\ n >= 0 /\ n \in Int
  BY NameFacts
<1>3. /\ dir' \in [Names -> 0..lastFile]
      /\ \A m \in Names : dir'[m] = IF m = n THEN None ELSE dir[m]
  BY <1>1, NameFacts DEF TypeInv
<1>4. dir'[Base] = dir[Base] /\ Youngest' = Youngest
  <2>1. dir'[Base] = dir[Base]
    BY <1>2, <1>3, NameFacts
  <2> QED  BY <2>1 DEF Youngest
<1>5. \A m \in Archives' : m \in Archives /\ m # n /\ dir'[m] = dir[m] /\ m < n /\ m \in Int
  <2> SUFFICES ASSUME NEW m \in Archives'
               PROVE  m \in Archives /\ m # n /\ dir'[m] = dir[m] /\ m < n /\ m \in Int
    OBVIOUS
  <2>1. m \in Names /\ m # Base /\ dir'[m] # None
    BY NextArchives
  <2>2. m # n /\ dir'[m] = dir[m] /\ m \in Archives
    BY <1>3, <2>1, NameFacts DEF Archives
  <2> QED  BY <1>2, <2>2, NameFacts
<1>6. RolledInv'
  <2> SUFFICES ASSUME NEW m \in Archives'
               PROVE  /\ \A g, h \in 0..(m - 1) : dir'[g] = None /\ dir'[h] = None => g = h
                      /\ dir'[m] + m <= Youngest'
                      /\ (\A h \in 0..(m - 1) : dir'[h] # None) => dir'[m] + m < Youngest'
                      /\ rule'.max_count > 0 => m < rule'.max_count
                      /\ \A k \in Archives' : k < m => dir'[m] < dir'[k]
    BY DEF RolledInv
  <2>1. m \in Archives /\ m < n /\ m \in Int /\ dir'[m] = dir[m]
    BY <1>5
  <2>2. \A h \in 0..(m - 1) : dir'[h] = dir[h]
    <3> SUFFICES ASSUME NEW h \in 0..(m - 1) PROVE dir'[h] = dir[h]
      OBVIOUS
    <3>1. h \in 0..MaxWrites /\ h # n
      BY <1>2, <2>1, NameFacts
    <3> QED  BY <1>3, <3>1, NameFacts
  <2>3. /\ \A g, h \in 0..(m - 1) : dir[g] = None /\ dir[h] = None => g = h
        /\ dir[m] + m <= Youngest
        /\ (\A h \in 0..(m - 1) : dir[h] # None) => dir[m] + m < Youngest
        /\ rule.max_count > 0 => m < rule.max_count
        /\ \A k \in Archives : k < m => dir[m] < dir[k]
    BY <2>1 DEF ArchiveInv, RolledInv
  <2> QED  BY <1>4, <1>5, <2>1, <2>2, <2>3
<1>7. \A m \in Archives' : dir'[m] < Youngest'
  BY <1>4, <1>5 DEF ArchiveInv
<1> QED  BY <1>1, <1>3, <1>4, <1>5, <1>6, <1>7 DEF ArchiveInv

\* Moving a rolled archive up by one, into the hole behind it.
LEMMA RollRename ==
  ASSUME TypeInv, ArchiveInv, rule.mv_type = "ROLLING", UNCHANGED <<rule, lastFile>>,
         dir[Base] # None, NEW i \in Nat, i > 0, i - 1 \in Archives, i \notin Archives,
         \A h \in 0..(i - 1) : dir[h] # None,
         rule.max_count > 0 => i < rule.max_count, Renamed(i - 1, i)
  PROVE  /\ ArchiveInv'
         /\ dir' \in [Names -> 0..lastFile] /\ dir'[Base] = dir[Base]
         /\ \A m \in Archives' : IF m = i THEN dir'[m] = dir[i - 1]
                                 ELSE m \in Archives /\ m # i - 1 /\ dir'[m] = dir[m]
<1>1. i - 1 \in Names /\ i - 1 >= 0 /\ i - 1 \in Int /\ i - 1 # Base /\ i - 1 # i
  BY NameFacts
<1>2. dir[i - 1] + (i - 1) < Youngest
  <2>1. 0..((i - 1) - 1) \subseteq 0..(i - 1)
    OBVIOUS
  <2>2. (\A h \in 0..((i - 1) - 1) : dir[h] # None) => dir[i - 1] + (i - 1) < Youngest
    BY DEF ArchiveInv, RolledInv
  <2> QED  BY <2>1, <2>2
<1>3. i \in 0..MaxWrites /\ dir[i - 1] \in Int /\ dir[i - 1] > 0 /\ Youngest \in Int
  BY <1>1, <1>2, DirFacts, NameFacts DEF Youngest
<1>4. i \in Names /\ dir[i] = None /\ i # Base
  BY <1>3, NameFacts
<1>5. dir' = [dir EXCEPT ![i - 1] = None, ![i] = dir[i - 1]] /\ clobbered' = clobbered
  <2>1. i - 1 # i /\ ~(i - 1 # i /\ dir[i] # None)
    BY <1>1, <1>4
  <2>2. clobbered = FALSE
    BY DEF ArchiveInv
  <2> QED  BY <2>1, <2>2 DEF Renamed, ArchiveInv
<1>6. /\ dir' \in [Names -> 0..lastFile]
      /\ \A m \in Names : dir'[m] = IF m = i THEN dir[i - 1] ELSE IF m = i - 1 THEN None ELSE dir[m]
  BY <1>1, <1>4, <1>5, NameFacts DEF TypeInv
<1>7. dir'[Base] = dir[Base] /\ Youngest' = Youngest
  <2>1. dir'[Base] = dir[Base]
    BY <1>1, <1>4, <1>6, NameFacts
  <2> QED  BY <2>1 DEF Youngest
<1>8. \A m \in Archives' : IF m = i THEN dir'[m] = dir[i - 1]
                           ELSE m \in Archives /\ m # i - 1 /\ dir'[m] = dir[m]
  <2> SUFFICES ASSUME NEW m \in Archives', m # i
               PROVE  m \in Archives /\ m # i - 1 /\ dir'[m] = dir[m]
    BY <1>4, <1>6
  <2>1. m \in Names /\ m # Base /\ dir'[m] # None
    BY NextArchives
  <2>2. m # i - 1 /\ dir'[m] = dir[m]
    BY <1>6, <2>1
  <2> QED  BY <2>1, <2>2 DEF Archives
<1>9. \A h \in 0..MaxWrites : dir'[h] = IF h = i THEN dir[i - 1] ELSE IF h = i - 1 THEN None ELSE dir[h]
  BY <1>6, NameFacts
<1>10. RolledInv'
  <2> SUFFICES ASSUME NEW m \in Archives'
               PROVE  /\ \A g, h \in 0..(m - 1) : dir'[g] = None /\ dir'[h] = None => g = h
                      /\ dir'[m] + m <= Youngest'
                      /\ (\A h \in 0..(m - 1) : dir'[h] # None) => dir'[m] + m < Youngest'
                      /\ rule'.max_count > 0 => m < rule'.max_count
                      /\ \A k \in Archives' : k < m => dir'[m] < dir'[k]
    BY DEF RolledInv
  <2>0. \A k \in Archives : /\ k \in Int /\ k >= 0 /\ k # i /\ k <= MaxWrites /\ dir[k] \in Int
                            /\ (k < i - 1 => dir[i - 1] < dir[k])
                            /\ (k > i - 1 => dir[k] < dir[i - 1])
    BY <1>1, NameFacts, DirFacts DEF ArchiveInv, RolledInv
  <2>1. CASE m = i
    <3>1. dir'[m] = dir[i - 1]
      BY <1>8, <2>1
    <3>2. \A h \in 0..(i - 1) : h \in 0..MaxWrites /\ dir'[h] = IF h = i - 1 THEN None ELSE dir[h]
      <4>1. \A h \in 0..(i - 1) : h \in 0..MaxWrites /\ h # i
        BY <1>3, NameFacts
      <4> QED  BY <1>9, <4>1
    <3>3. \A g \in 0..(m - 1) : dir'[g] = None => g = i - 1
      BY <2>1, <3>2
    <3>4. dir'[i - 1] = None /\ i - 1 \in 0..(i - 1)
      BY <1>1, <3>2
    <3>5. dir'[m] + m <= Youngest'
      BY <1>2, <1>3, <1>7, <2>1, <3>1
    <3>6. \A k \in Archives' : k < m => dir'[m] < dir'[k]
      <4> SUFFICES ASSUME NEW k \in Archives', k < m PROVE dir'[m] < dir'[k]
        OBVIOUS
      <4>1. k \in Archives /\ k # i - 1 /\ dir'[k] = dir[k]
        BY <1>3, <1>8, <2>1
      <4>2. k < i - 1
        BY <1>1, <2>0, <2>1, <4>1
      <4> QED  BY <2>0, <3>1, <4>1, <4>2
    <3> QED  BY <2>1, <3>3, <3>4, <3>5, <3>6
  <2>2. CASE m # i
    <3>1. m \in Archives /\ m # i - 1 /\ dir'[m] = dir[m] /\ m \in Int /\ m >= 0 /\ m <= MaxWrites
      BY <1>8, <2>0, <2>2
    <3>2. /\ \A g, h \in 0..(m - 1) : dir[g] = None /\ dir[h] = None => g = h
          /\ dir[m] + m <= Youngest
          /\ (\A h \in 0..(m - 1) : dir[h] # None) => dir[m] + m < Youngest
          /\ rule.max_count > 0 => m < rule.max_count
          /\ \A k \in Archives : k < m => dir[m] < dir[k]
      BY <3>1 DEF ArchiveInv, RolledInv
    <3>3. \A k \in Archives' : k < m => dir'[m] < dir'[k]
      <4> SUFFICES ASSUME NEW k \in Archives', k < m PROVE dir'[m] < dir'[k]
        OBVIOUS
      <4>1. CASE k = i
        <5>1. m > i - 1 /\ dir'[k] = dir[i - 1]
          BY <1>8, <3>1, <4>1
        <5> QED  BY <2>0, <3>1, <5>1
      <4>2. CASE k # i
        BY <1>8, <3>1, <3>2, <4>2
      <4> QED  BY <4>1, <4>2
    <3>4. CASE m < i
      <4>1. \A h \in 0..(m - 1) : dir'[h] = dir[h]
        <5>1. \A h \in 0..(m - 1) : h \in 0..MaxWrites /\ h # i /\ h # i - 1
          BY <3>1, <3>4, NameFacts
        <5> QED  BY <1>9, <5>1
      <4> QED  BY <1>7, <3>1, <3>2, <3>3, <4>1
    <3>5. CASE m > i
      <4>1. i \in 0..(m - 1) /\ i - 1 \in 0..(m - 1)
        BY <1>1, <3>1, <3>5
      <4>2. \A h \in 0..(m - 1) : h \in 0..MaxWrites
        BY <3>1, NameFacts
      <4>3. \A h \in 0..(m - 1) : dir'[h] = None => h = i - 1
        <5> SUFFICES ASSUME NEW h \in 0..(m - 1), dir'[h] = None, h # i - 1 PROVE FALSE
          OBVIOUS
        <5>1. h # i
          BY <1>3, <1>9, <4>2, NameFacts
        <5>2. dir[h] = None
          BY <1>9, <4>2, <5>1
        <5> QED  BY <1>4, <3>2, <4>1, <5>1, <5>2
      <4>4. dir'[i - 1] = None
        BY <1>1, <1>6
      <4> QED  BY <1>7, <3>1, <3>2, <3>3, <4>1, <4>3, <4>4
    <3> QED  BY <2>2, <3>1, <3>4, <3>5
  <2> QED  BY <2>1, <2>2
<1>11. \A m \in Archives' : dir'[m] < Youngest'
  BY <1>7, <1>8 DEF ArchiveInv
<1> QED  BY <1>5, <1>6, <1>7, <1>8, <1>10, <1>11 DEF ArchiveInv

\* The log file becomes archive n, a number that no archive has.
LEMMA BaseRename ==
  ASSUME TypeInv, ArchiveInv, lastFile' = lastFile,
         dir[Base] # None, NEW n \in 0..MaxWrites, n \notin Archives, Renamed(Base, n)
  PROVE  /\ clobbered' = clobbered
         /\ dir' \in [Names -> 0..lastFile] /\ dir'[Base] = None
         /\ \A m \in Names : dir'[m] = IF m = n THEN dir[Base]
                                       ELSE IF m = Base THEN None ELSE dir[m]
         /\ \A m \in Archives' : IF m = n THEN dir'[m] = dir[Base]
                                 ELSE m \in Archives /\ dir'[m] = dir[m]
         /\ Youngest' = lastFile + 1 /\ Youngest = dir[Base] /\ dir[Base] < Youngest'
         /\ \A m \in Archives' : dir'[m] < Youngest'
<1>1. n \in Names /\ n # Base /\ dir[n] = None /\ Base \in Names
  BY NameFacts
<1>2. dir' = [dir EXCEPT ![Base] = None, ![n] = dir[Base]] /\ clobbered' = clobbered
  <2>1. Base # n /\ ~(Base # n /\ dir[n] # None)
    BY <1>1
  <2>2. clobbered = FALSE
    BY DEF ArchiveInv
  <2> QED  BY <2>1, <2>2 DEF Renamed, ArchiveInv
<1>3. /\ dir' \in [Names -> 0..lastFile] /\ dir'[Base] = None
      /\ \A m \in Names : dir'[m] = IF m = n THEN dir[Base]
                                    ELSE IF m = Base THEN None ELSE dir[m]
  BY <1>1, <1>2, NameFacts DEF TypeInv
<1>4. \A m \in Archives' : IF m = n THEN dir'[m] = dir[Base]
                           ELSE m \in Archives /\ dir'[m] = dir[m]
  <2> SUFFICES ASSUME NEW m \in Archives', m # n PROVE m \in Archives /\ dir'[m] = dir[m]
    BY <1>1, <1>3
  <2>1. m \in Names /\ m # Base /\ dir'[m] # None
    BY NextArchives
  <2>2. dir'[m] = dir[m]
    BY <1>3, <2>1
  <2> QED  BY <2>1, <2>2 DEF Archives
<1>5. Youngest' = lastFile + 1 /\ Youngest = dir[Base]
  BY <1>3 DEF Youngest
<1>6. dir[Base] < Youngest'
  BY <1>1, <1>5, DirFacts
<1>7. \A m \in Archives' : dir'[m] < Youngest'
  <2> SUFFICES ASSUME NEW m \in Archives' PROVE dir'[m] < Youngest'
    OBVIOUS
  <2>1. CASE m = n
    BY <1>4, <1>6, <2>1
  <2>2. CASE m # n
    <3>1. m \in Archives /\ dir'[m] = dir[m] /\ dir[m] \in Int /\ dir[m] <= lastFile
      BY <1>4, <2>2, NameFacts, DirFacts
    <3> QED  BY <1>5, <3>1, DirFacts
  <2> QED  BY <2>1, <2>2
<1> QED  BY <1>2, <1>3, <1>4, <1>5, <1>6, <1>7

\* The log file becomes rolled archive 0 when the others were moved up.
LEMMA RollBase ==
  ASSUME TypeInv, ArchiveInv, rule.mv_type = "ROLLING", UNCHANGED <<rule, lastFile>>,
         dir[Base] # None, \A m \in Archives : m > 0, Renamed(Base, 0)
  PROVE  ArchiveInv'
<1>1. 0 \in 0..MaxWrites /\ 0 \notin Archives
  BY NameFacts
<1>2. /\ clobbered' = clobbered
      /\ \A m \in Names : dir'[m] = IF m = 0 THEN dir[Base]
                                    ELSE IF m = Base THEN None ELSE dir[m]
      /\ \A m \in Archives' : IF m = 0 THEN dir'[m] = dir[Base]
                              ELSE m \in Archives /\ dir'[m] = dir[m]
      /\ Youngest' = lastFile + 1 /\ Youngest = dir[Base] /\ dir[Base] < Youngest'
      /\ \A m \in Archives' : dir'[m] < Youngest'
  BY <1>1, BaseRename
<1>3. RolledInv'
  <2> SUFFICES ASSUME NEW m \in Archives'
               PROVE  /\ \A g, h \in 0..(m - 1) : dir'[g] = None /\ dir'[h] = None => g = h
                      /\ dir'[m] + m <= Youngest'
                      /\ (\A h \in 0..(m - 1) : dir'[h] # None) => dir'[m] + m < Youngest'
                      /\ rule'.max_count > 0 => m < rule'.max_count
                      /\ \A k \in Archives' : k < m => dir'[m] < dir'[k]
    BY DEF RolledInv
  <2>0. /\ dir[Base] \in Int /\ Youngest' \in Int /\ Youngest \in Int
        /\ \A k \in Archives : k \in Int /\ k > 0 /\ k <= MaxWrites /\ dir[k] \in Int /\ dir[k] < dir[Base]
    BY <1>2, NameFacts, DirFacts DEF ArchiveInv
  <2>1. CASE m = 0
    <3>1. 0..(m - 1) = {} /\ dir'[m] = dir[Base]
      BY <1>2, <2>1
    <3>2. \A k \in Archives' : ~(k < m)
      BY <1>2, <2>0, <2>1
    <3> QED  BY <1>2, <2>0, <2>1, <3>1, <3>2
  <2>2. CASE m # 0
    <3>1. m \in Archives /\ dir'[m] = dir[m] /\ m \in Int /\ m > 0 /\ m <= MaxWrites
      BY <1>2, <2>0, <2>2
    <3>2. /\ \A g, h \in 0..(m - 1) : dir[g] = None /\ dir[h] = None => g = h
          /\ dir[m] + m <= Youngest
          /\ rule.max_count > 0 => m < rule.max_count
          /\ \A k \in Archives : k < m => dir[m] < dir[k]
      BY <3>1 DEF ArchiveInv, RolledInv
    <3>3. \A h \in 0..(m - 1) : dir'[h] = None => dir[h] = None
      <4>1. \A h \in 0..(m - 1) : h \in Names /\ h # Base
        BY <3>1, NameFacts
      <4> QED  BY <1>2, <4>1
    <3>4. dir'[m] + m < Youngest'
      BY <1>2, <2>0, <3>1, <3>2
    <3>5. \A k \in Archives' : k < m => dir'[m] < dir'[k]
      BY <1>2, <2>0, <3>1, <3>2
    <3>6. dir'[m] + m <= Youngest'
      BY <2>0, <3>1, <3>4
    <3> QED  BY <3>2, <3>3, <3>4, <3>5, <3>6
  <2> QED  BY <2>1, <2>2
<1> QED  BY <1>2, <1>3 DEF ArchiveInv

\* Removing the first counted archive.
LEMMA CountUnlink ==
  ASSUME TypeInv, ArchiveInv, rule.mv_type = "SEQUENCE", UNCHANGED <<rule, lastFile>>,
         NEW n \in Names \ {Base}, \A m \in Archives : n <= m, Unlinked(n)
  PROVE  /\ ArchiveInv'
         /\ dir' \in [Names -> 0..lastFile] /\ dir'[Base] = dir[Base]
         /\ \A m \in Archives' : m \in Archives /\ m # n /\ dir'[m] = dir[m]
<1>1. dir' = [dir EXCEPT ![n] = None] /\ clobbered' = clobbered
  BY DEF Unlinked
<1>2. n \in Names /\ n # Base /\ n >= 0 /\ n \in Int
  BY NameFacts
<1>3. /\ dir' \in [Names -> 0..lastFile]
      /\ \A m \in Names : dir'[m] = IF m = n THEN None ELSE dir[m]
  BY <1>1, NameFacts DEF TypeInv
<1>4. dir'[Base] = dir[Base] /\ Youngest' = Youngest
  <2>1. dir'[Base] = dir[Base]
    BY <1>2, <1>3, NameFacts
  <2> QED  BY <2>1 DEF Youngest
<1>5. \A m \in Archives' : m \in Archives /\ m # n /\ dir'[m] = dir[m] /\ n < m /\ m \in Int /\ m <= MaxWrites
  <2> SUFFICES ASSUME NEW m \in Archives'
               PROVE  m \in Archives /\ m # n /\ dir'[m] = dir[m] /\ n < m /\ m \in Int /\ m <= MaxWrites
    OBVIOUS
  <2>1. m \in Names /\ m # Base /\ dir'[m] # None
    BY NextArchives
  <2>2. m # n /\ dir'[m] = dir[m] /\ m \in Archives
    BY <1>3, <2>1, NameFacts DEF Archives
  <2> QED  BY <1>2, <2>2, NameFacts
<1>6. CountedInv'
  <2> SUFFICES ASSUME NEW m \in Archives', NEW l \in Archives'
               PROVE  /\ m < dir'[m]
                      /\ \A k \in l..m : dir'[k] # None
                      /\ rule'.max_count > 0 => m - l <= rule'.max_count
                      /\ l < m => dir'[l] < dir'[m]
    BY DEF CountedInv
  <2>1. /\ m \in Archives /\ l \in Archives /\ dir'[m] = dir[m] /\ dir'[l] = dir[l]
        /\ n < l /\ l \in Int /\ m \in Int /\ m <= MaxWrites
    BY <1>5
  <2>2. /\ m < dir[m]
        /\ \A k \in l..m : dir[k] # None
        /\ rule.max_count > 0 => m - l <= rule.max_count
        /\ l < m => dir[l] < dir[m]
    BY <2>1 DEF ArchiveInv, CountedInv
  <2>3. \A k \in l..m : k \in 0..MaxWrites /\ k # n
    BY <1>2, <2>1, NameFacts
  <2>4. \A k \in l..m : dir'[k] = dir[k]
    BY <1>3, <2>3, NameFacts
  <2> QED  BY <2>1, <2>2, <2>4
<1>7. \A m \in Archives' : dir'[m] < Youngest'
  BY <1>4, <1>5 DEF ArchiveInv
<1> QED  BY <1>1, <1>3, <1>4, <1>5, <1>6, <1>7 DEF ArchiveInv

\* The log file gets the next number of counted archives.
LEMMA CountBase ==
  ASSUME TypeInv, ArchiveInv, rule.mv_type = "SEQUENCE", UNCHANGED <<rule, lastFile>>,
         dir[Base] # None, NEW n \in 0..MaxWrites, n < dir[Base],
         \A m \in Archives : /\ m < n /\ n - 1 \in Archives
                             /\ rule.max_count > 0 => n - m <= rule.max_count,
         Renamed(Base, n)
  PROVE  ArchiveInv'
<1>1. n \notin Archives /\ n \in Int /\ n \in Names /\ n # Base
  BY NameFacts
<1>2. /\ clobbered' = clobbered
      /\ \A m \in Names : dir'[m] = IF m = n THEN dir[Base]
                                    ELSE IF m = Base THEN None ELSE dir[m]
      /\ \A m \in Archives' : IF m = n THEN dir'[m] = dir[Base]
                              ELSE m \in Archives /\ dir'[m] = dir[m]
      /\ Youngest' = lastFile + 1 /\ Youngest = dir[Base] /\ dir[Base] < Youngest'
      /\ \A m \in Archives' : dir'[m] < Youngest'
  BY <1>1, BaseRename
<1>3. \A k \in Archives : /\ k \in Int /\ k >= 0 /\ k <= MaxWrites /\ dir[k] \in Int
                          /\ dir[k] < dir[Base] /\ k < n
  BY <1>2, NameFacts, DirFacts DEF ArchiveInv
<1>4. CountedInv'
  <2> SUFFICES ASSUME NEW m \in Archives', NEW l \in Archives'
               PROVE  /\ m < dir'[m]
                      /\ \A k \in l..m : dir'[k] # None
                      /\ rule'.max_count > 0 => m - l <= rule'.max_count
                      /\ l < m => dir'[l] < dir'[m]
    BY DEF CountedInv
  <2>1. dir'[n] = dir[Base]
    BY <1>1, <1>2
  <2>2. CASE m = n /\ l = n
    <3>1. n..n = {n} /\ n - n = 0
      BY <1>1
    <3> QED  BY <2>1, <2>2, <3>1, DirFacts
  <2>3. CASE m = n /\ l # n
    <3>1. l \in Archives /\ dir'[l] = dir[l] /\ l < n /\ n - 1 \in Archives /\ l \in Int /\ l >= 0
      BY <1>2, <1>3, <2>3
    <3>2. \A k \in l..(n - 1) : dir[k] # None
      BY <3>1 DEF ArchiveInv, CountedInv
    <3>3. \A k \in l..n : k = n \/ (k \in l..(n - 1) /\ k \in Names /\ k # n /\ k # Base)
      BY <1>1, <3>1, NameFacts
    <3>4. \A k \in l..n : dir'[k] # None
      BY <1>2, <2>1, <3>2, <3>3
    <3> QED  BY <1>3, <2>1, <2>3, <3>1, <3>4
  <2>4. CASE m # n
    <3>1. m \in Archives /\ dir'[m] = dir[m] /\ m < n /\ m \in Int /\ m >= 0
      BY <1>2, <1>3, <2>4
    <3>2. CASE l = n
      <4>1. l..m = {} /\ ~(l < m) /\ m - l <= 0
        BY <1>1, <3>1, <3>2
      <4>2. rule.max_count > 0 => m - l <= rule.max_count
        BY <1>1, <3>1, <3>2, <4>1, DirFacts
      <4>3. m < dir[m]
        BY <3>1 DEF ArchiveInv, CountedInv
      <4> QED  BY <3>1, <4>1, <4>2, <4>3
    <3>3. CASE l # n
      <4>1. l \in Archives /\ dir'[l] = dir[l] /\ l \in Int /\ l >= 0
        BY <1>2, <1>3, <3>3
      <4>2. /\ m < dir[m]
            /\ \A k \in l..m : dir[k] # None
            /\ rule.max_count > 0 => m - l <= rule.max_count
            /\ l < m => dir[l] < dir[m]
        BY <3>1, <4>1 DEF ArchiveInv, CountedInv
      <4>3. \A k \in l..m : k \in Names /\ k # n /\ k # Base
        BY <1>1, <3>1, <4>1, NameFacts
      <4> QED  BY <1>2, <3>1, <4>1, <4>2, <4>3
    <3> QED  BY <3>2, <3>3
  <2> QED  BY <2>2, <2>3, <2>4
<1> QED  BY <1>2, <1>4 DEF ArchiveInv

-----------------------------------------------------------------------------
(* One turn of the loops of zlog_rotater_roll_files and _seq_files.        *)

\* Rolling.
LEMMA RollTurn ==
  ASSUME TypeInv, ArchiveInv, rule.mv_type = "ROLLING", UNCHANGED <<rule, lastFile>>,
         dir[Base] # None, NEW p \in Procs, NEW q, NEW i, q = files[p], i = pos[p],
         Ascending(q), Rolling(q, i), RollFile(p, i)
  PROVE  /\ ArchiveInv'
         /\ dir' \in [Names -> 0..lastFile]
         /\ \A m \in Archives' : \E k \in Archives \union {Base} : dir'[m] = dir[k]
         /\ IF i = 0 THEN dir'[Base] = None
            ELSE dir'[Base] = dir[Base] /\ Rolling(q, i - 1)'
<1>1. /\ q \in Seq(Names \ {Base}) /\ i \in Nat /\ Len(q) \in Nat
      /\ \A j \in 1..Len(q) : q[j] \in Names /\ q[j] # Base /\ q[j] \in Int /\ q[j] >= 0
  <2>1. q \in Seq(Names \ {Base}) /\ i \in Nat
    BY DEF TypeInv
  <2>2. Len(q) \in Nat /\ \A j \in 1..Len(q) : q[j] \in Names \ {Base}
    BY <2>1
  <2> QED  BY <2>1, <2>2, NameFacts
<1>2. /\ i <= Len(q)
      /\ \A j \in 1..Len(q) : q[j] \in {j - 1, j}
      /\ \A j, k \in 1..Len(q) : j < k /\ q[j] = j => q[k] = k
      /\ \A j \in 1..i : dir[q[j]] # None
      /\ \A n \in Archives : n > i \/ \E j \in 1..i : q[j] = n
  BY DEF Rolling
<1>3. CASE i = 0
  <2>1. Renamed(Base, 0)
    BY <1>3 DEF RollFile
  <2>2. \A n \in Archives : n > 0
    BY <1>2, <1>3
  <2>3. 0 \in 0..MaxWrites /\ 0 \notin Archives
    BY <2>2, NameFacts
  <2>4. /\ dir' \in [Names -> 0..lastFile] /\ dir'[Base] = None
        /\ \A m \in Archives' : IF m = 0 THEN dir'[m] = dir[Base]
                                ELSE m \in Archives /\ dir'[m] = dir[m]
    BY <2>1, <2>3, BaseRename
  <2>5. ArchiveInv'
    BY <2>1, <2>2, RollBase
  <2> QED  BY <1>3, <2>4, <2>5
<1>4. ASSUME i > 0
      PROVE  /\ i \in 1..Len(q) /\ i \in 1..i /\ q[i] \in Names /\ q[i] # Base /\ q[i] \in Int /\ q[i] >= 0
             /\ q[i] \in Archives
             /\ \A j \in 1..(i - 1) : /\ j \in 1..i /\ j \in 1..Len(q) /\ q[j] < q[i] /\ q[j] \in Int
                                      /\ q[j] \in Names /\ q[j] # Base
  <2>1. i \in 1..Len(q) /\ i \in 1..i /\ \A j \in 1..(i - 1) : j \in 1..i /\ j \in 1..Len(q) /\ j < i
    BY <1>1, <1>2, <1>4
  <2>2. q[i] \in Names /\ q[i] # Base /\ q[i] \in Int /\ q[i] >= 0 /\ dir[q[i]] # None
    BY <1>1, <1>2, <2>1
  <2>3. q[i] \in Archives
    BY <2>2 DEF Archives
  <2>4. \A j \in 1..(i - 1) : q[j] < q[i] /\ q[j] \in Int /\ q[j] \in Names /\ q[j] # Base
    BY <1>1, <2>1 DEF Ascending
  <2> QED  BY <2>1, <2>2, <2>3, <2>4
\* What is left to be rolled keeps its names.
<1>5. ASSUME i > 0, \A j \in 1..(i - 1) : dir'[q[j]] = dir[q[j]],
             \A m \in Archives' : m = i \/ (m \in Archives /\ m # q[i])
      PROVE  Rolling(q, i - 1)'
  <2>1. i - 1 <= Len(q)
    BY <1>1, <1>2
  <2>2. \A j \in 1..(i - 1) : dir'[q[j]] # None
    BY <1>2, <1>4, <1>5, SMTT(30)
  <2>3. ASSUME NEW n \in Archives' PROVE n > i - 1 \/ \E j \in 1..(i - 1) : q[j] = n
    <3>1. CASE n = i
      BY <1>1, <3>1
    <3>2. CASE n \in Archives /\ n # q[i]
      <4>1. CASE n > i
        BY <1>1, <3>2, <4>1, NameFacts
      <4>2. CASE \E j \in 1..i : q[j] = n
        <5>1. PICK j \in 1..i : q[j] = n
          BY <4>2
        <5>2. j \in 1..(i - 1)
          BY <1>1, <3>2, <5>1
        <5> QED  BY <5>1, <5>2
      <4> QED  BY <1>2, <3>2, <4>1, <4>2
    <3> QED  BY <1>5, <3>1, <3>2
  <2> QED  BY <1>2, <2>1, <2>2, <2>3 DEF Rolling
<1>6. CASE i > 0 /\ rule.max_count > 0 /\ i - 1 >= rule.max_count - 1
  <2>1. Unlinked(q[i])
    BY <1>1, <1>6 DEF RollFile
  <2>2. \A m \in Archives : m <= q[i]
    <3> SUFFICES ASSUME NEW m \in Archives PROVE m <= q[i]
      OBVIOUS
    <3>1. m < rule.max_count /\ m \in Int
      BY <1>6, NameFacts DEF ArchiveInv, RolledInv
    <3>2. ~(m > i)
      BY <1>1, <1>6, <3>1, DirFacts
    <3>3. PICK j \in 1..i : q[j] = m
      BY <1>2, <3>2
    <3>4. j = i \/ j \in 1..(i - 1)
      BY <1>1
    <3> QED  BY <1>4, <1>6, <3>3, <3>4
  <2>3. /\ ArchiveInv' /\ dir' \in [Names -> 0..lastFile] /\ dir'[Base] = dir[Base]
        /\ \A m \in Archives' : m \in Archives /\ m # q[i] /\ dir'[m] = dir[m]
    BY <1>4, <1>6, <2>1, <2>2, RollUnlink
  <2>4. \A j \in 1..(i - 1) : dir'[q[j]] = dir[q[j]]
    <3>1. dir' = [dir EXCEPT ![q[i]] = None]
      BY <2>1 DEF Unlinked
    <3>2. \A j \in 1..(i - 1) : q[j] \in Names /\ q[j] # q[i]
      BY <1>4, <1>6
    <3> QED  BY <3>1, <3>2 DEF TypeInv
  <2> QED  BY <1>5, <1>6, <2>3, <2>4
<1>7. CASE i > 0 /\ ~(rule.max_count > 0 /\ i - 1 >= rule.max_count - 1)
  <2>1. Renamed(q[i], i)
    BY <1>1, <1>7 DEF RollFile
  <2>2. CASE q[i] = i
    <3>1. dir' = dir /\ clobbered' = clobbered
      <4>1. clobbered = FALSE
        BY DEF ArchiveInv
      <4> QED  BY <2>1, <2>2, <4>1 DEF Renamed
    <3>2. Archives' = Archives /\ Youngest' = Youngest
      BY <3>1 DEF Archives, Youngest
    <3>3. ArchiveInv'
      BY <3>1, <3>2 DEF ArchiveInv, RolledInv, CountedInv
    <3>4. Rolling(q, i - 1)'
      BY <1>5, <1>7, <2>2, <3>1, <3>2
    <3>5. dir' \in [Names -> 0..lastFile]
      BY <3>1 DEF TypeInv
    <3> QED  BY <1>7, <3>1, <3>2, <3>3, <3>4, <3>5
  <2>3. CASE q[i] = i - 1
    <3>1. i - 1 \in Archives
      BY <1>4, <1>7, <2>3
    <3>2. i \notin Archives
      <4> SUFFICES ASSUME i \in Archives PROVE FALSE
        OBVIOUS
      <4>1. PICK j \in 1..i : q[j] = i
        BY <1>1, <1>2, SMTT(30)
      <4>2. j \in 1..(i - 1)
        BY <1>1, <2>3, <4>1
      <4> QED  BY <1>1, <1>4, <1>7, <2>3, <4>1, <4>2
    <3>3. \A h \in 0..(i - 1) : dir[h] # None
      <4> SUFFICES ASSUME NEW h \in 0..(i - 1) PROVE dir[h] # None
        OBVIOUS
      <4>1. h + 1 \in 1..i /\ h + 1 \in 1..Len(q) /\ i \in 1..Len(q) /\ (h + 1) - 1 = h
        BY <1>1, <1>2, <1>7
      <4>2. q[h + 1] = h
        <5>1. CASE h + 1 = i
          BY <2>3, <4>1, <5>1
        <5>2. CASE h + 1 < i
          <6>1. q[h + 1] # h + 1
            BY <1>1, <1>2, <2>3, <4>1, <5>2
          <6> QED  BY <1>2, <4>1, <6>1
        <5> QED  BY <1>1, <5>1, <5>2
      <4> QED  BY <1>2, <4>1, <4>2
    <3>4. rule.max_count > 0 => i < rule.max_count
      BY <1>1, <1>7, DirFacts
    <3>5. /\ ArchiveInv' /\ dir' \in [Names -> 0..lastFile] /\ dir'[Base] = dir[Base]
          /\ \A m \in Archives' : IF m = i THEN dir'[m] = dir[i - 1]
                                  ELSE m \in Archives /\ m # i - 1 /\ dir'[m] = dir[m]
      BY <1>1, <1>7, <2>1, <2>3, <3>1, <3>2, <3>3, <3>4, RollRename
    <3>6. \A j \in 1..(i - 1) : dir'[q[j]] = dir[q[j]]
      <4>1. dir' = [dir EXCEPT ![i - 1] = None, ![i] = dir[i - 1]]
        BY <1>1, <2>1, <2>3 DEF Renamed
      <4>2. \A j \in 1..(i - 1) : q[j] \in Names /\ q[j] # i - 1 /\ q[j] # i
        BY <1>1, <1>4, <1>7, <2>3
      <4> QED  BY <4>1, <4>2 DEF TypeInv
    <3>7. Rolling(q, i - 1)'
      BY <1>5, <1>7, <2>3, <3>5, <3>6
    <3>8. \A m \in Archives' : \E k \in Archives \union {Base} : dir'[m] = dir[k]
      BY <3>1, <3>5
    <3> QED  BY <1>7, <3>5, <3>7, <3>8
  <2> QED  BY <1>2, <1>4, <1>7, <2>2, <2>3
<1> QED  BY <1>1, <1>3, <1>6, <1>7

\* Counting.
LEMMA CountTurn ==
  ASSUME TypeInv, ArchiveInv, rule.mv_type = "SEQUENCE", UNCHANGED <<rule, lastFile>>,
         dir[Base] # None, NEW p \in Procs, NEW q, NEW i, q = files[p], i = pos[p],
         Ascending(q), Counting(q, i), SeqFile(p, i)
  PROVE  /\ ArchiveInv'
         /\ dir' \in [Names -> 0..lastFile]
         /\ \A m \in Archives' : \E k \in Archives \union {Base} : dir'[m] = dir[k]
         /\ IF i > Len(q) THEN dir'[Base] = None
            ELSE dir'[Base] = dir[Base] /\ Counting(q, i + 1)'
<1> DEFINE N == Len(q)
<1>1. /\ q \in Seq(Names \ {Base}) /\ i \in Nat /\ N \in Nat
      /\ \A j \in 1..N : q[j] \in Names /\ q[j] # Base /\ q[j] \in Int /\ q[j] >= 0
  <2>1. q \in Seq(Names \ {Base}) /\ i \in Nat
    BY DEF TypeInv
  <2>2. N \in Nat /\ \A j \in 1..N : q[j] \in Names \ {Base}
    BY <2>1
  <2> QED  BY <2>1, <2>2, NameFacts
<1>2. /\ 1 <= i /\ i <= N + 1
      /\ \A j \in 1..N : q[j] = q[N] - (N - j)
      /\ N > 0 => dir[q[N]] # None
      /\ \A n \in Archives : \E j \in 1..N :
           q[j] = n /\ ~(rule.max_count > 0 /\ j < i /\ j <= N - rule.max_count)
      /\ \A j, k \in 1..N : j < k => q[j] < q[k]
  BY DEF Counting, Ascending
<1> HIDE DEF N
<1>3. CASE i > N
  <2> DEFINE t == IF N = 0 THEN 0 ELSE q[N] + 1
  <2>1. Renamed(Base, t)
    <3>1. CASE N = 0
      <4>1. -1 + 1 = 0
        OBVIOUS
      <4> QED  BY <1>1, <1>3, <3>1, <4>1 DEF SeqFile, N
    <3>2. CASE N > 0
      <4>1. q[1] = q[N] - (N - 1) /\ q[1] >= 0 /\ q[N] \in Int
        BY <1>1, <1>2, <3>2
      <4>2. ~(N - 1 > q[N]) /\ N # 0
        BY <1>1, <3>2, <4>1
      <4> QED  BY <1>3, <4>2 DEF SeqFile, N
    <3> QED  BY <1>1, <3>1, <3>2
  <2>2. /\ t \in Int /\ t >= 0 /\ t < dir[Base]
        /\ \A m \in Archives : t - 1 \in Archives /\ m < t
    <3>0. dir[Base] \in Int /\ dir[Base] > 0 /\ Youngest = dir[Base]
      BY DirFacts, NameFacts DEF Youngest
    <3>1. CASE N = 0
      BY <1>1, <1>2, <3>0, <3>1
    <3>2. CASE N > 0
      <4>1. N \in 1..N /\ q[N] \in Archives /\ q[N] \in Int /\ q[N] >= 0
        BY <1>1, <1>2, <3>2 DEF Archives
      <4>2. q[N] < dir[q[N]] /\ dir[q[N]] < dir[Base] /\ dir[q[N]] \in Int
        BY <3>0, <4>1, DirFacts, NameFacts DEF ArchiveInv, CountedInv
      <4>3. t = q[N] + 1 /\ t - 1 = q[N]
        BY <3>2, <4>1
      <4>4. \A m \in Archives : m < t
        <5> SUFFICES ASSUME NEW m \in Archives PROVE m < t
          OBVIOUS
        <5>1. PICK j \in 1..N : q[j] = m
          BY <1>2
        <5>2. q[j] \in Int /\ (j = N \/ j < N)
          BY <1>1
        <5>3. j = N \/ q[j] < q[N]
          BY <1>2, <4>1, <5>2
        <5> QED  BY <4>1, <4>3, <5>1, <5>2, <5>3
      <4> QED  BY <3>0, <4>1, <4>2, <4>3, <4>4
    <3> QED  BY <1>1, <3>1, <3>2
  <2>3. ASSUME NEW m \in Archives, rule.max_count > 0 PROVE t - m <= rule.max_count
    <3>1. PICK j \in 1..N : q[j] = m /\ ~(rule.max_count > 0 /\ j < i /\ j <= N - rule.max_count)
      BY <1>2
    <3>2. ~(j <= N - rule.max_count) /\ N > 0
      BY <1>1, <1>3, <2>3, <3>1
    <3>3. m = q[N] - (N - j) /\ t = q[N] + 1 /\ q[N] \in Int
      BY <1>1, <1>2, <3>1, <3>2, SMTT(30)
    <3> QED  BY <1>1, <3>2, <3>3, DirFacts, SMTT(30)
  <2> HIDE DEF t
  <2>4. t \in 0..MaxWrites /\ t \notin Archives
    <3>1. dir[Base] <= MaxWrites /\ dir[Base] \in Int
      BY DirFacts, NameFacts
    <3> QED  BY <2>2, <3>1, NameFacts
  <2>5. ArchiveInv'
    BY <2>1, <2>2, <2>3, <2>4, CountBase
  <2>6. /\ dir' \in [Names -> 0..lastFile] /\ dir'[Base] = None
        /\ \A m \in Archives' : IF m = t THEN dir'[m] = dir[Base]
                                ELSE m \in Archives /\ dir'[m] = dir[m]
    BY <2>1, <2>4, BaseRename
  <2> QED  BY <1>3, <2>5, <2>6 DEF N
\* The rest of the list still names every archive.
<1>4. ASSUME ~(i > N), N > 0 => dir'[q[N]] = dir[q[N]],
             \A m \in Archives' : m \in Archives,
             rule.max_count > 0 /\ i <= N - rule.max_count => q[i] \notin Archives'
      PROVE  Counting(q, i + 1)'
  <2>1. 1 <= i + 1 /\ i + 1 <= N + 1
    BY <1>1, <1>2, <1>4, SMTT(30)
  <2>2. N > 0 => dir'[q[N]] # None
    BY <1>2, <1>4
  <2>3. ASSUME NEW n \in Archives'
        PROVE  \E j \in 1..N :
                 q[j] = n /\ ~(rule'.max_count > 0 /\ j < i + 1 /\ j <= N - rule'.max_count)
    <3>1. PICK j \in 1..N : q[j] = n /\ ~(rule.max_count > 0 /\ j < i /\ j <= N - rule.max_count)
      BY <1>2, <1>4
    <3>2. ~(rule.max_count > 0 /\ j < i + 1 /\ j <= N - rule.max_count)
      BY <1>1, <1>4, <3>1
    <3> QED  BY <3>1, <3>2
  <2> QED  BY <1>2, <2>1, <2>2, <2>3 DEF Counting, N
<1>5. CASE ~(i > N) /\ rule.max_count > 0 /\ i - 1 < N - rule.max_count
  <2>1. Unlinked(q[i]) /\ i \in 1..N /\ i <= N - rule.max_count /\ N \in 1..N /\ i < N
    <3>1. Unlinked(q[i])
      BY <1>5 DEF SeqFile, N
    <3>2. rule.max_count \in Int
      BY DirFacts
    <3>3. i \in 1..N /\ N \in 1..N
      BY <1>1, <1>2, <1>5
    <3>4. i <= N - rule.max_count /\ i < N
      BY <1>1, <1>5, <3>2
    <3> QED  BY <3>1, <3>3, <3>4
  <2>2. q[i] \in Names \ {Base} /\ q[i] \in Int
    BY <1>1, <2>1
  <2>3. \A m \in Archives : q[i] <= m
    <3> SUFFICES ASSUME NEW m \in Archives PROVE q[i] <= m
      OBVIOUS
    <3>1. PICK j \in 1..N : q[j] = m /\ ~(rule.max_count > 0 /\ j < i /\ j <= N - rule.max_count)
      BY <1>2
    <3>2. ~(j < i)
      BY <1>1, <1>5, <2>1, <3>1, DirFacts, SMTT(30)
    <3>3. q[j] \in Int /\ (j = i \/ i < j)
      BY <1>1, <3>2
    <3>4. j = i \/ q[i] < q[j]
      BY <1>2, <2>1, <3>3
    <3> QED  BY <2>2, <3>1, <3>3, <3>4
  <2>4. /\ ArchiveInv' /\ dir' \in [Names -> 0..lastFile] /\ dir'[Base] = dir[Base]
        /\ \A m \in Archives' : m \in Archives /\ m # q[i] /\ dir'[m] = dir[m]
    BY <2>1, <2>2, <2>3, CountUnlink
  <2>5. dir'[q[N]] = dir[q[N]]
    <3>1. q[N] # q[i] /\ q[N] \in Names
      BY <1>1, <1>2, <2>1, SMTT(30)
    <3> QED  BY <2>1, <3>1 DEF Unlinked, TypeInv
  <2> QED  BY <1>4, <1>5, <2>4, <2>5 DEF N
<1>6. CASE ~(i > N) /\ ~(rule.max_count > 0 /\ i - 1 < N - rule.max_count)
  <2>1. dir' = dir /\ clobbered' = clobbered
    BY <1>6 DEF SeqFile, N
  <2>2. Archives' = Archives /\ Youngest' = Youngest
    BY <2>1 DEF Archives, Youngest
  <2>3. ArchiveInv'
    BY <2>1, <2>2 DEF ArchiveInv, RolledInv, CountedInv
  <2>4. ~(rule.max_count > 0 /\ i <= N - rule.max_count)
    BY <1>1, <1>6, DirFacts
  <2>5. Counting(q, i + 1)'
    BY <1>4, <1>6, <2>1, <2>2, <2>4
  <2>6. dir' \in [Names -> 0..lastFile]
    BY <2>1 DEF TypeInv
  <2> QED  BY <1>6, <2>1, <2>2, <2>3, <2>5, <2>6 DEF N
<1> QED  BY <1>3, <1>5, <1>6

-----------------------------------------------------------------------------
(* The steps.                                                              *)

\* A writer goes to label l.
LEMMA StepToFacts ==
  ASSUME TypeInv, NEW w \in Writers, NEW l \in Place, StepTo(w, l)
  PROVE  /\ wpc' \in [Writers -> Place]
         /\ wpc'[w] = l /\ \A v \in Writers : v # w => wpc'[v] = wpc[v]
BY DEF TypeInv, StepTo

\* One writer of all processes is between the locks and the unlock.
LEMMA OneRotates ==
  ASSUME LockInv, TypeInv, NEW v \in Writers, NEW w \in Writers,
         wpc[v] \in Critical, wpc[w] \in Critical
  PROVE  v = w
<1>1. lock_fd = ProcOf[v] /\ lock_fd = ProcOf[w]
  BY DEF LockInv
<1>2. lock_mutex[ProcOf[v]] = v /\ lock_mutex[ProcOf[w]] = w
  BY DEF LockInv
<1> QED  BY <1>1, <1>2

\* Steps that leave the files alone keep the archives.
LEMMA ArchivesKept ==
  ASSUME ArchiveInv, UNCHANGED <<rule, dir, lastFile, clobbered>>
  PROVE  ArchiveInv' /\ Archives' = Archives
<1>1. Archives' = Archives /\ Youngest' = Youngest
  BY DEF Archives, Youngest
<1> QED  BY <1>1 DEF ArchiveInv, RolledInv, CountedInv

\* And they keep the place of the rotation, unless it is their own.
LEMMA ProgressKept ==
  ASSUME NEW q, NEW i, Progress(q, i), UNCHANGED <<rule, dir>>
  PROVE  Progress(q, i)'
<1>1. Archives' = Archives
  BY DEF Archives
<1>2. Rolling(q, i) => Rolling(q, i)'
  BY <1>1 DEF Rolling
<1>3. Counting(q, i) => Counting(q, i)'
  BY <1>1 DEF Counting
<1> QED  BY <1>2, <1>3 DEF Progress

\* The rotation in progress is that of the list and the position of a process.
LEMMA ProgressOf ==
  ASSUME NEW p, NEW q, NEW i, q = files'[p], i = pos'[p], Progress(q, i)'
  PROVE  Progress(files[p], pos[p])'
BY DEF Progress, Rolling, Counting, Ascending

\* The writers that move files go on with what they did.
LEMMA MovesKept ==
  ASSUME MoveInv, UNCHANGED <<rule, dir>>,
         \A v \in Writers : wpc'[v] = "move" =>
           /\ wpc[v] = "move" /\ files'[ProcOf[v]] = files[ProcOf[v]]
           /\ pos'[ProcOf[v]] = pos[ProcOf[v]]
  PROVE  MoveInv'
<1> SUFFICES ASSUME NEW w \in Writers, wpc'[w] = "move"
             PROVE  Progress(files[ProcOf[w]], pos[ProcOf[w]])'
  BY DEF MoveInv
<1>1. PICK q, i : q = files[ProcOf[w]] /\ i = pos[ProcOf[w]]
  OBVIOUS
<1>2. Progress(q, i)
  BY <1>1 DEF MoveInv
<1>3. Progress(q, i)'
  BY <1>2, ProgressKept
<1> QED  BY <1>1, <1>3, ProgressOf

\* A writer goes on to label l and the files stay: the sizes are looked after
\* as before unless the writer that cared leaves a file too long, unrecorded.
LEMMA SizesKept ==
  ASSUME TypeInv, SizeInv, NEW w \in Writers, NEW l \in Place, StepTo(w, l),
         UNCHANGED <<dir, size, lastFile, fd, len>>,
         l # "write", l \in Caring => wpc[w] \in Caring,
         l \in {"list", "move"} =>
           dir[Base] # None /\ size[dir[Base]] + len[w] > ArchiveMaxSize,
         ~skipped' => /\ ~skipped
                      /\ wpc[w] \in Caring /\ dir[Base] # None
                           /\ size[dir[Base]] > ArchiveMaxSize => l \in Caring
  PROVE  SizeInv'
<1>1. wpc'[w] = l /\ \A v \in Writers : v # w => wpc'[v] = wpc[v]
  BY StepToFacts
<1>2. RotatedFull'
  BY DEF SizeInv, RotatedFull, Archives
<1>3. \A v \in Writers :
        /\ wpc'[v] = "write" => fd[v] # None /\ len[v] \in MsgLens
        /\ wpc'[v] \in Caring => len[v] \in MsgLens /\ len[v] <= ArchiveMaxSize
        /\ wpc'[v] \in {"list", "move"} =>
             dir[Base] # None /\ size[dir[Base]] + len[v] > ArchiveMaxSize
  BY <1>1 DEF SizeInv
<1>4. ASSUME dir[Base] # None, ~skipped', size[dir[Base]] > ArchiveMaxSize
      PROVE  \E v \in Writers : wpc'[v] \in Caring
  <2>1. PICK v \in Writers : wpc[v] \in Caring
    BY <1>4 DEF SizeInv
  <2>2. wpc'[v] \in Caring
    BY <1>1, <1>4, <2>1
  <2> QED  BY <2>2
<1> QED  BY <1>2, <1>3, <1>4 DEF SizeInv

\* The labels.
LEMMA Labels ==
  /\ {"idle", "write", "check", "trylock", "flock", "stat", "list", "move",
      "unlock", "unlock2"} \subseteq Place
  /\ Caring = {"check", "trylock", "flock", "stat", "list", "move"}
  /\ Critical = {"stat", "list", "move", "unlock"}
BY DEF Place, Caring, Critical

\* The file is looked at after a write.
LEMMA StepCheckSize ==
  ASSUME RotateInv, NEW w \in Writers, CheckSize(w)
  PROVE  RotateInv'
<1>1. TypeInv /\ LockInv /\ ArchiveInv /\ MoveInv /\ SizeInv
  BY DEF RotateInv
<1>2. PICK l \in {"idle", "trylock"} : StepTo(w, l)
  BY DEF CheckSize
<1>3. /\ wpc[w] = "check"
      /\ UNCHANGED <<rule, dir, size, lastFile, fd, len, files, pos, lock_mutex, lock_fd,
                     writes, faults, clobbered, skipped>>
  BY DEF CheckSize, diskVars, listVars, rotateLockVars, rotateCounts, historyVars
<1>4. /\ wpc' \in [Writers -> Place] /\ wpc'[w] = l
      /\ \A v \in Writers : v # w => wpc'[v] = wpc[v]
  BY <1>1, <1>2, Labels, StepToFacts
<1>5. TypeInv'
  BY <1>1, <1>3, <1>4 DEF TypeInv
<1>6. LockInv'
  BY <1>1, <1>3, <1>4, Labels DEF LockInv, Configured
<1>7. ArchiveInv'
  BY <1>1, <1>3, ArchivesKept
<1>8. MoveInv'
  BY <1>1, <1>3, <1>4, MovesKept
<1>9. dir[Base] # None /\ size[dir[Base]] > ArchiveMaxSize => l \in Caring
  <2> SUFFICES ASSUME dir[Base] # None, size[dir[Base]] > ArchiveMaxSize PROVE l = "trylock"
    BY Labels
  <2>1. dir[Base] \in FileId
    BY <1>1, DirFacts, NameFacts DEF FileId
  <2>2. size[dir[Base]] \in Nat /\ len[w] \in Nat /\ ArchiveMaxSize \in Nat
    BY <1>1, <2>1, RotateAssumption DEF TypeInv
  <2>3. ~(dir[Base] = None \/ size[dir[Base]] + len[w] < ArchiveMaxSize)
    BY <2>2
  <2>4. StepTo(w, "trylock")
    BY <2>3 DEF CheckSize
  <2> QED  BY <1>1, <1>4, <2>4, Labels, StepToFacts
<1>10. SizeInv'
  <2>1. l \in Place /\ l # "write" /\ (l \in Caring => wpc[w] \in Caring) /\ l \notin {"list", "move"}
    BY <1>3, Labels
  <2> QED  BY <1>1, <1>2, <1>3, <1>9, <2>1, SizesKept
<1> QED  BY <1>5, <1>6, <1>7, <1>8, <1>10 DEF RotateInv

\* pthread_mutex_trylock.
LEMMA StepMutexTrylock ==
  ASSUME RotateInv, NEW w \in Writers, MutexTrylock(w)
  PROVE  RotateInv'
<1>1. TypeInv /\ LockInv /\ ArchiveInv /\ MoveInv /\ SizeInv
  BY DEF RotateInv
<1>2. /\ wpc[w] = "trylock"
      /\ UNCHANGED <<rule, dir, size, lastFile, fd, len, files, pos, lock_fd,
                     writes, faults, clobbered>>
      /\ \/ /\ StepTo(w, "idle") /\ skipped' = TRUE /\ lock_mutex' = lock_mutex
         \/ /\ lock_mutex[ProcOf[w]] = Nobody
            /\ lock_mutex' = [lock_mutex EXCEPT ![ProcOf[w]] = w]
            /\ StepTo(w, "flock") /\ skipped' = skipped
  BY DEF MutexTrylock, Skip, diskVars, listVars, rotateLockVars, rotateCounts
<1>3. PICK l \in {"idle", "flock"} : StepTo(w, l)
  BY <1>2
<1>4. /\ wpc' \in [Writers -> Place] /\ wpc'[w] = l
      /\ \A v \in Writers : v # w => wpc'[v] = wpc[v]
  BY <1>1, <1>3, Labels, StepToFacts
<1>5. ProcOf[w] \in Procs /\ \A v \in Writers : ProcOf[v] \in Procs /\ v # Nobody
  BY RotateAssumption
<1>6. TypeInv'
  <2>1. lock_mutex' \in [Procs -> Writers \union {Nobody}] /\ skipped' \in BOOLEAN
    BY <1>1, <1>2, <1>5 DEF TypeInv
  <2> QED  BY <1>1, <1>2, <1>4, <2>1 DEF TypeInv
<1>7. LockInv'
  <2>1. CASE StepTo(w, "idle") /\ lock_mutex' = lock_mutex
    <3>1. wpc'[w] = "idle"
      BY <1>1, <2>1, Labels, StepToFacts
    <3> QED  BY <1>1, <1>2, <1>4, <2>1, <3>1, Labels DEF LockInv, Configured
  <2>2. CASE /\ lock_mutex[ProcOf[w]] = Nobody
             /\ lock_mutex' = [lock_mutex EXCEPT ![ProcOf[w]] = w] /\ StepTo(w, "flock")
    <3>1. wpc'[w] = "flock" /\ lock_mutex'[ProcOf[w]] = w
      BY <1>1, <1>5, <2>2, Labels, StepToFacts, SMTT(30) DEF TypeInv
    <3>2. ASSUME NEW v \in Writers, v # w, wpc[v] \in Critical \union {"flock", "unlock2"}
          PROVE  lock_mutex'[ProcOf[v]] = v
      <4>1. lock_mutex[ProcOf[v]] = v
        BY <1>1, <3>2 DEF LockInv
      <4>2. ProcOf[v] # ProcOf[w]
        BY <1>5, <2>2, <4>1
      <4> QED  BY <1>1, <1>5, <2>2, <4>1, <4>2 DEF TypeInv
    <3>3. \A v \in Writers : wpc'[v] \in Critical \union {"flock", "unlock2"} =>
            lock_mutex'[ProcOf[v]] = v
      BY <1>4, <3>1, <3>2
    <3>4. \A v \in Writers : wpc'[v] \in Critical => lock_fd' = ProcOf[v]
      BY <1>1, <1>2, <1>4, <3>1, Labels DEF LockInv, Configured
    <3>5. \A v \in Writers : wpc'[v] # "idle" => Configured'
      BY <1>1, <1>2, <1>4 DEF LockInv, Configured
    <3> QED  BY <3>3, <3>4, <3>5 DEF LockInv
  <2> QED  BY <1>2, <2>1, <2>2
<1>8. ArchiveInv'
  BY <1>1, <1>2, ArchivesKept
<1>9. MoveInv'
  BY <1>1, <1>2, <1>4, MovesKept
<1>10. SizeInv'
  <2>1. l \in Place /\ l # "write" /\ (l \in Caring => wpc[w] \in Caring) /\ l \notin {"list", "move"}
    BY <1>2, Labels
  <2>2. ~skipped' => ~skipped /\ l \in Caring
    <3> SUFFICES ASSUME ~skipped' PROVE ~skipped /\ l \in Caring
      OBVIOUS
    <3>1. StepTo(w, "flock") /\ skipped' = skipped
      BY <1>2
    <3>2. wpc'[w] = "flock"
      BY <1>1, <3>1, Labels, StepToFacts
    <3> QED  BY <1>4, <3>1, <3>2, Labels
  <2> QED  BY <1>1, <1>2, <1>3, <2>1, <2>2, SizesKept
<1> QED  BY <1>6, <1>7, <1>8, <1>9, <1>10 DEF RotateInv

\* fcntl F_SETLK.
LEMMA StepFileTrylock ==
  ASSUME RotateInv, NEW w \in Writers, FileTrylock(w)
  PROVE  RotateInv'
<1>1. TypeInv /\ LockInv /\ ArchiveInv /\ MoveInv /\ SizeInv
  BY DEF RotateInv
<1>2. /\ wpc[w] = "flock"
      /\ UNCHANGED <<rule, dir, size, lastFile, fd, len, files, pos, writes, faults, clobbered>>
      /\ \/ /\ StepTo(w, "idle") /\ skipped' = TRUE /\ lock_fd' = lock_fd
            /\ lock_mutex' = [lock_mutex EXCEPT ![ProcOf[w]] = Nobody]
         \/ /\ lock_fd \in {Nobody, ProcOf[w]} /\ lock_fd' = ProcOf[w]
            /\ StepTo(w, "stat") /\ lock_mutex' = lock_mutex /\ skipped' = skipped
  BY DEF FileTrylock, Skip, diskVars, listVars, rotateLockVars, rotateCounts
<1>3. PICK l \in {"idle", "stat"} : StepTo(w, l)
  BY <1>2
<1>4. /\ wpc' \in [Writers -> Place] /\ wpc'[w] = l
      /\ \A v \in Writers : v # w => wpc'[v] = wpc[v]
  BY <1>1, <1>3, Labels, StepToFacts
<1>5. ProcOf[w] \in Procs /\ \A v \in Writers : ProcOf[v] \in Procs /\ v # Nobody /\ ProcOf[v] # Nobody
  BY RotateAssumption
<1>6. TypeInv'
  <2>1. /\ lock_mutex' \in [Procs -> Writers \union {Nobody}] /\ skipped' \in BOOLEAN
        /\ lock_fd' \in Procs \union {Nobody}
    BY <1>1, <1>2, <1>5 DEF TypeInv
  <2> QED  BY <1>1, <1>2, <1>4, <2>1 DEF TypeInv
<1>7. lock_mutex[ProcOf[w]] = w
  BY <1>1, <1>2 DEF LockInv
<1>8. LockInv'
  <2>0. \A v \in Writers : wpc'[v] # "idle" => Configured'
    BY <1>1, <1>2, <1>4 DEF LockInv, Configured
  <2>1. CASE /\ StepTo(w, "idle") /\ lock_fd' = lock_fd
             /\ lock_mutex' = [lock_mutex EXCEPT ![ProcOf[w]] = Nobody]
    <3>1. wpc'[w] = "idle"
      BY <1>1, <2>1, Labels, StepToFacts
    <3>2. ASSUME NEW v \in Writers, v # w, wpc[v] \in Critical \union {"flock", "unlock2"}
          PROVE  lock_mutex'[ProcOf[v]] = v
      <4>1. lock_mutex[ProcOf[v]] = v
        BY <1>1, <3>2 DEF LockInv
      <4>2. ProcOf[v] # ProcOf[w]
        BY <1>7, <3>2, <4>1
      <4> QED  BY <1>1, <1>5, <2>1, <4>1, <4>2 DEF TypeInv
    <3>3. \A v \in Writers : wpc'[v] \in Critical \union {"flock", "unlock2"} =>
            lock_mutex'[ProcOf[v]] = v
      BY <1>4, <3>1, <3>2, Labels
    <3>4. \A v \in Writers : wpc'[v] \in Critical => lock_fd' = ProcOf[v]
      BY <1>1, <1>4, <2>1, <3>1, Labels DEF LockInv, Configured
    <3> QED  BY <2>0, <3>3, <3>4 DEF LockInv
  <2>2. CASE /\ lock_fd \in {Nobody, ProcOf[w]} /\ lock_fd' = ProcOf[w]
             /\ StepTo(w, "stat") /\ lock_mutex' = lock_mutex
    <3>1. \A v \in Writers : v # w => wpc[v] \notin Critical
      <4> SUFFICES ASSUME NEW v \in Writers, v # w, wpc[v] \in Critical PROVE FALSE
        OBVIOUS
      <4>1. lock_fd = ProcOf[v] /\ lock_mutex[ProcOf[v]] = v
        BY <1>1 DEF LockInv
      <4>2. ProcOf[v] = ProcOf[w]
        BY <1>5, <2>2, <4>1
      <4> QED  BY <1>7, <4>1, <4>2
    <3>2. \A v \in Writers : wpc'[v] \in Critical => lock_fd' = ProcOf[v]
      BY <1>4, <2>2, <3>1
    <3>3. \A v \in Writers : wpc'[v] \in Critical \union {"flock", "unlock2"} =>
            lock_mutex'[ProcOf[v]] = v
      BY <1>1, <1>4, <1>7, <2>2 DEF LockInv
    <3> QED  BY <2>0, <3>2, <3>3 DEF LockInv
  <2> QED  BY <1>2, <2>1, <2>2
<1>9. ArchiveInv'
  BY <1>1, <1>2, ArchivesKept
<1>10. MoveInv'
  BY <1>1, <1>2, <1>4, MovesKept
<1>11. SizeInv'
  <2>1. l \in Place /\ l # "write" /\ (l \in Caring => wpc[w] \in Caring) /\ l \notin {"list", "move"}
    BY <1>2, Labels
  <2>2. ~skipped' => ~skipped /\ l \in Caring
    <3> SUFFICES ASSUME ~skipped' PROVE ~skipped /\ l \in Caring
      OBVIOUS
    <3>1. StepTo(w, "stat") /\ skipped' = skipped
      BY <1>2
    <3>2. wpc'[w] = "stat"
      BY <1>1, <3>1, Labels, StepToFacts
    <3> QED  BY <1>4, <3>1, <3>2, Labels
  <2> QED  BY <1>1, <1>2, <1>3, <2>1, <2>2, SizesKept
<1> QED  BY <1>6, <1>8, <1>9, <1>10, <1>11 DEF RotateInv

\* The file is looked at again under the locks.
LEMMA StepStat ==
  ASSUME RotateInv, NEW w \in Writers, StatUnderLock(w)
  PROVE  RotateInv'
<1>1. TypeInv /\ LockInv /\ ArchiveInv /\ MoveInv /\ SizeInv
  BY DEF RotateInv
<1>2. /\ wpc[w] = "stat"
      /\ UNCHANGED <<rule, dir, size, lastFile, fd, len, files, pos, lock_mutex, lock_fd,
                     writes, faults, clobbered, skipped>>
      /\ StepTo(w, IF StatAgain(w) THEN "list" ELSE "unlock")
  BY DEF StatUnderLock, diskVars, listVars, rotateLockVars, rotateCounts, historyVars
<1>3. PICK l \in {"list", "unlock"} : l = (IF StatAgain(w) THEN "list" ELSE "unlock")
  OBVIOUS
<1>4. /\ wpc' \in [Writers -> Place] /\ wpc'[w] = l
      /\ \A v \in Writers : v # w => wpc'[v] = wpc[v]
  BY <1>1, <1>2, <1>3, Labels, StepToFacts
<1>5. TypeInv'
  BY <1>1, <1>2, <1>4 DEF TypeInv
<1>6. LockInv'
  BY <1>1, <1>2, <1>4, Labels DEF LockInv, Configured
<1>7. ArchiveInv'
  BY <1>1, <1>2, ArchivesKept
<1>8. MoveInv'
  BY <1>1, <1>2, <1>4, MovesKept
<1>9. SizeInv'
  <2>1. l \in Place /\ l # "write" /\ wpc[w] \in Caring /\ StepTo(w, l)
    BY <1>2, <1>3, Labels
  <2>2. l \in {"list", "move"} => dir[Base] # None /\ size[dir[Base]] + len[w] > ArchiveMaxSize
    BY <1>3 DEF StatAgain
  <2>3. dir[Base] # None /\ size[dir[Base]] > ArchiveMaxSize => l \in Caring
    <3> SUFFICES ASSUME dir[Base] # None, size[dir[Base]] > ArchiveMaxSize PROVE l = "list"
      BY Labels
    <3>1. dir[Base] \in FileId
      BY <1>1, DirFacts, NameFacts DEF FileId
    <3>2. size[dir[Base]] \in Nat /\ len[w] \in Nat /\ ArchiveMaxSize \in Nat
      BY <1>1, <3>1, RotateAssumption DEF TypeInv
    <3>3. size[dir[Base]] + len[w] > ArchiveMaxSize
      BY <3>2
    <3> QED  BY <1>3, <3>3 DEF StatAgain
  <2> QED  BY <1>1, <1>2, <2>1, <2>2, <2>3, SizesKept
<1> QED  BY <1>5, <1>6, <1>7, <1>8, <1>9 DEF RotateInv

\* zlog_rotater_lsmv: the archives are listed.
LEMMA StepList ==
  ASSUME RotateInv, NEW w \in Writers, zlog_rotater_lsmv(w)
  PROVE  RotateInv'
<1> DEFINE p == ProcOf[w]
           found == zlog_rotater_add_archive_files
<1>1. TypeInv /\ LockInv /\ ArchiveInv /\ MoveInv /\ SizeInv
  BY DEF RotateInv
<1>2. /\ wpc[w] = "list"
      /\ UNCHANGED <<rule, dir, size, lastFile, fd, len, lock_mutex, lock_fd, writes, clobbered>>
      /\ \/ /\ rule.mv_type # "bad"
            /\ files' = [files EXCEPT ![p] = found]
            /\ pos' = [pos EXCEPT ![p] = IF rule.mv_type = "ROLLING" THEN Len(found) ELSE 1]
            /\ StepTo(w, "move") /\ skipped' = skipped
         \/ StepTo(w, "unlock") /\ skipped' = TRUE /\ UNCHANGED <<files, pos>>
  BY DEF zlog_rotater_lsmv, zlog_rotater_parse_archive_path, Fault, diskVars, listVars,
         rotateLockVars, rotateCounts
<1>3. PICK l \in {"move", "unlock"} : StepTo(w, l)
  BY <1>2
<1>4. /\ wpc' \in [Writers -> Place] /\ wpc'[w] = l
      /\ \A v \in Writers : v # w => wpc'[v] = wpc[v]
  BY <1>1, <1>3, Labels, StepToFacts
<1>5. ProcOf \in [Writers -> Procs] /\ p \in Procs
  BY RotateAssumption
<1>6. /\ found \in Seq(Names \ {Base}) /\ Len(found) \in Nat
      /\ Ascending(found)
  BY <1>1, ListFacts
<1>7. TypeInv'
  <2> HIDE DEF found, p
  <2>1. /\ files \in [Procs -> Seq(Names \ {Base})] /\ pos \in [Procs -> Nat]
        /\ skipped \in BOOLEAN
    BY <1>1 DEF TypeInv
  <2>2. files' \in [Procs -> Seq(Names \ {Base})]
    BY <1>2, <1>5, <1>6, <2>1
  <2>3. pos' \in [Procs -> Nat]
    <3>1. PICK i \in Nat : i = IF rule.mv_type = "ROLLING" THEN Len(found) ELSE 1
      BY <1>6
    <3>2. pos' = pos \/ pos' = [pos EXCEPT ![p] = i]
      BY <1>2, <3>1
    <3> QED  BY <1>5, <2>1, <3>2
  <2>4. skipped' \in BOOLEAN
    BY <1>2, <2>1
  <2> QED  BY <1>1, <1>2, <1>4, <2>2, <2>3, <2>4 DEF TypeInv
<1>8. LockInv'
  BY <1>1, <1>2, <1>4, Labels DEF LockInv, Configured
<1>9. ArchiveInv'
  BY <1>1, <1>2, ArchivesKept
<1>10. \A v \in Writers : v # w => wpc[v] # "move"
  BY <1>1, <1>2, OneRotates, Labels
<1>11. MoveInv'
  <2>1. CASE l = "unlock"
    BY <1>1, <1>2, <1>4, <1>10, <2>1, MovesKept
  <2>2. CASE l = "move"
    <3>1. /\ rule.mv_type # "bad"
          /\ files' = [files EXCEPT ![p] = found]
          /\ pos' = [pos EXCEPT ![p] = IF rule.mv_type = "ROLLING" THEN Len(found) ELSE 1]
      <4>1. ~StepTo(w, "unlock")
        BY <1>1, <1>4, <2>2, Labels, StepToFacts
      <4> QED  BY <1>2, <4>1
    <3>2. dir[Base] # None /\ rule.mv_type \in {"none", "ROLLING", "SEQUENCE"}
      BY <1>1, <1>2, <3>1 DEF SizeInv, TypeInv
    <3>3. PICK q, i : /\ q = found
                      /\ i = (IF rule.mv_type = "ROLLING" THEN Len(found) ELSE 1)
      OBVIOUS
    <3>4. q = files'[p] /\ i = pos'[p]
      <4> HIDE DEF found
      <4> QED  BY <1>1, <1>5, <3>1, <3>3 DEF TypeInv
    <3>5. Progress(q, i)
      <4>0. rule.mv_type # "none"
        BY <1>1, <1>2 DEF LockInv, Configured
      <4>1. rule.mv_type = "ROLLING" => Rolling(q, i)
        BY <1>1, <3>3, ListRolling DEF ArchiveInv
      <4>2. rule.mv_type = "SEQUENCE" => Counting(q, i)
        BY <1>1, <3>3, ListCounting DEF ArchiveInv
      <4> QED  BY <1>6, <3>2, <3>3, <4>0, <4>1, <4>2 DEF Progress
    <3>6. Progress(q, i)'
      BY <1>2, <3>5, ProgressKept
    <3>7. Progress(files[p], pos[p])'
      BY <3>4, <3>6, ProgressOf
    <3> QED  BY <1>4, <1>10, <3>7 DEF MoveInv
  <2> QED  BY <2>1, <2>2
<1>12. SizeInv'
  <2>1. l \in Place /\ l # "write" /\ wpc[w] \in Caring
    BY <1>2, Labels
  <2>2. dir[Base] # None /\ size[dir[Base]] + len[w] > ArchiveMaxSize
    BY <1>1, <1>2 DEF SizeInv
  <2>3. ~skipped' => ~skipped /\ l \in Caring
    <3> SUFFICES ASSUME ~skipped' PROVE ~skipped /\ l \in Caring
      OBVIOUS
    <3>1. StepTo(w, "move") /\ skipped' = skipped
      BY <1>2
    <3>2. wpc'[w] = "move"
      BY <1>1, <3>1, Labels, StepToFacts
    <3> QED  BY <1>4, <3>1, <3>2, Labels
  <2> QED  BY <1>1, <1>2, <1>3, <2>1, <2>2, <2>3, SizesKept
<1> QED  BY <1>7, <1>8, <1>9, <1>11, <1>12 DEF RotateInv

\* A turn of the loop.
LEMMA StepMoveTurn ==
  ASSUME RotateInv, NEW w \in Writers, NEW p, p = ProcOf[w], wpc[w] = "move",
         IF rule.mv_type = "ROLLING" THEN RollFile(p, pos[p]) ELSE SeqFile(p, pos[p]),
         IF MoveDone(p) THEN StepTo(w, "unlock") /\ skipped' = FALSE
         ELSE UNCHANGED <<wpc, skipped>>,
         pos' = [pos EXCEPT ![p] = IF MoveDone(p) THEN 0
                                   ELSE IF rule.mv_type = "ROLLING" THEN pos[p] - 1 ELSE pos[p] + 1],
         files' = [files EXCEPT ![p] = IF wpc'[w] = "unlock" THEN <<>> ELSE @],
         UNCHANGED <<rule, size, lastFile, fd, len, lock_mutex, lock_fd, writes>>
  PROVE  RotateInv'
<1>1. TypeInv /\ LockInv /\ ArchiveInv /\ MoveInv /\ SizeInv
  BY DEF RotateInv
<1>2. p \in Procs /\ pos \in [Procs -> Nat] /\ files \in [Procs -> Seq(Names \ {Base})]
  BY <1>1, RotateAssumption DEF TypeInv
<1>3. PICK q, i : q = files[p] /\ i = pos[p]
  OBVIOUS
<1>4. Progress(q, i) /\ dir[Base] # None /\ size[dir[Base]] + len[w] > ArchiveMaxSize
      /\ len[w] \in MsgLens /\ len[w] <= ArchiveMaxSize
  BY <1>1, <1>3, Labels DEF MoveInv, SizeInv
<1>5. i \in Nat /\ Len(q) \in Nat
  BY <1>2, <1>3
<1>6. MoveDone(p) <=> IF rule.mv_type = "ROLLING" THEN i = 0 ELSE i > Len(q)
  BY <1>3 DEF MoveDone
<1>7. /\ ArchiveInv' /\ dir' \in [Names -> 0..lastFile]
      /\ \A m \in Archives' : \E k \in Archives \union {Base} : dir'[m] = dir[k]
      /\ MoveDone(p) => dir'[Base] = None
      /\ ~MoveDone(p) => dir'[Base] = dir[Base]
      /\ ~MoveDone(p) /\ rule.mv_type = "ROLLING" => Rolling(q, i - 1)'
      /\ ~MoveDone(p) /\ rule.mv_type = "SEQUENCE" => Counting(q, i + 1)'
  <2>1. CASE rule.mv_type = "ROLLING"
    <3>1. Rolling(q, i) /\ Ascending(q) /\ RollFile(p, i)
      BY <1>3, <1>4, <2>1 DEF Progress
    <3> QED  BY <1>1, <1>2, <1>3, <1>4, <1>6, <2>1, <3>1, RollTurn
  <2>2. CASE rule.mv_type = "SEQUENCE"
    <3>1. Counting(q, i) /\ Ascending(q) /\ SeqFile(p, i)
      BY <1>3, <1>4, <2>2 DEF Progress
    <3> QED  BY <1>1, <1>2, <1>3, <1>4, <1>6, <2>2, <3>1, CountTurn
  <2> QED  BY <1>4, <2>1, <2>2 DEF Progress
<1>8. \A v \in Writers : v # w => wpc[v] \notin Critical
  BY <1>1, OneRotates, Labels
<1>9. /\ wpc' \in [Writers -> Place]
      /\ wpc'[w] = IF MoveDone(p) THEN "unlock" ELSE "move"
      /\ \A v \in Writers : v # w => wpc'[v] = wpc[v]
  <2>1. CASE MoveDone(p)
    BY <1>1, <2>1, Labels, StepToFacts
  <2>2. CASE ~MoveDone(p)
    BY <1>1, <2>2 DEF TypeInv
  <2> QED  BY <2>1, <2>2
<1>10. TypeInv'
  <2>1. pos' \in [Procs -> Nat]
    <3>1. PICK j : j = IF MoveDone(p) THEN 0 ELSE IF rule.mv_type = "ROLLING" THEN i - 1 ELSE i + 1
      OBVIOUS
    <3>2. j \in Nat
      BY <1>5, <1>6, <3>1
    <3> QED  BY <1>2, <1>3, <3>1, <3>2
  <2>2. files' \in [Procs -> Seq(Names \ {Base})]
    BY <1>2
  <2>3. skipped' \in BOOLEAN
    BY <1>1 DEF TypeInv
  <2> QED  BY <1>1, <1>7, <1>9, <2>1, <2>2, <2>3 DEF TypeInv
<1>11. LockInv'
  BY <1>1, <1>9, Labels DEF LockInv, Configured
<1>12. MoveInv'
  <2> SUFFICES ASSUME NEW v \in Writers, wpc'[v] = "move"
               PROVE  Progress(files[ProcOf[v]], pos[ProcOf[v]])'
    BY DEF MoveInv
  <2>1. v = w /\ ~MoveDone(p)
    BY <1>8, <1>9, Labels
  <2>2. PICK j : j = IF rule.mv_type = "ROLLING" THEN i - 1 ELSE i + 1
    OBVIOUS
  <2>3. q = files'[p] /\ j = pos'[p]
    BY <1>2, <1>3, <1>9, <2>1, <2>2
  <2>4. Progress(q, j)'
    BY <1>4, <1>7, <2>1, <2>2 DEF Progress
  <2> QED  BY <2>1, <2>3, <2>4, ProgressOf
<1>13. SizeInv'
  <2>1. RotatedFull'
    <3> SUFFICES ASSUME NEW m \in Archives'
                 PROVE  \E l \in MsgLens : l <= ArchiveMaxSize /\ size[dir'[m]] + l > ArchiveMaxSize
      BY DEF RotatedFull
    <3>1. PICK k \in Archives \union {Base} : dir'[m] = dir[k]
      BY <1>7
    <3> QED  BY <1>1, <1>4, <3>1 DEF SizeInv, RotatedFull
  <2>2. \A v \in Writers :
          /\ wpc'[v] = "write" => fd[v] # None /\ len[v] \in MsgLens
          /\ wpc'[v] \in Caring => len[v] \in MsgLens /\ len[v] <= ArchiveMaxSize
          /\ wpc'[v] \in {"list", "move"} =>
               dir'[Base] # None /\ size[dir'[Base]] + len[v] > ArchiveMaxSize
    BY <1>1, <1>4, <1>7, <1>8, <1>9, Labels DEF SizeInv
  <2>3. ASSUME dir'[Base] # None PROVE wpc'[w] \in Caring
    BY <1>7, <1>9, <2>3, Labels
  <2> QED  BY <1>1, <2>1, <2>2, <2>3 DEF SizeInv
<1> QED  BY <1>7, <1>10, <1>11, <1>12, <1>13 DEF RotateInv

\* unlink or rename fails.
LEMMA StepMoveFails ==
  ASSUME RotateInv, NEW w \in Writers, NEW p, p = ProcOf[w], wpc[w] = "move",
         StepTo(w, "unlock"), skipped' = TRUE, pos' = [pos EXCEPT ![p] = 0],
         files' = [files EXCEPT ![p] = IF wpc'[w] = "unlock" THEN <<>> ELSE @],
         UNCHANGED <<rule, dir, size, lastFile, fd, len, lock_mutex, lock_fd, writes, clobbered>>
  PROVE  RotateInv'
<1>1. TypeInv /\ LockInv /\ ArchiveInv /\ MoveInv /\ SizeInv
  BY DEF RotateInv
<1>2. p \in Procs /\ pos \in [Procs -> Nat] /\ files \in [Procs -> Seq(Names \ {Base})]
  BY <1>1, RotateAssumption DEF TypeInv
<1>3. /\ wpc' \in [Writers -> Place] /\ wpc'[w] = "unlock"
      /\ \A v \in Writers : v # w => wpc'[v] = wpc[v]
  BY <1>1, Labels, StepToFacts
<1>4. \A v \in Writers : v # w => wpc[v] # "move"
  BY <1>1, OneRotates, Labels
<1>5. TypeInv'
  <2>1. pos' \in [Procs -> Nat] /\ files' \in [Procs -> Seq(Names \ {Base})]
    BY <1>2
  <2> QED  BY <1>1, <1>3, <2>1 DEF TypeInv
<1>6. LockInv'
  BY <1>1, <1>3, Labels DEF LockInv, Configured
<1>7. ArchiveInv'
  BY <1>1, ArchivesKept
<1>8. MoveInv'
  BY <1>3, <1>4 DEF MoveInv
<1>9. SizeInv'
  BY <1>1, Labels, SizesKept
<1> QED  BY <1>5, <1>6, <1>7, <1>8, <1>9 DEF RotateInv

\* Both.
LEMMA StepMove ==
  ASSUME RotateInv, NEW w \in Writers, MoveFile(w)
  PROVE  RotateInv'
<1>1. PICK p : p = ProcOf[w]
  OBVIOUS
<1>2. /\ wpc[w] = "move"
      /\ \/ /\ IF rule.mv_type = "ROLLING" THEN RollFile(p, pos[p]) ELSE SeqFile(p, pos[p])
            /\ IF MoveDone(p) THEN StepTo(w, "unlock") /\ skipped' = FALSE
               ELSE UNCHANGED <<wpc, skipped>>
            /\ pos' = [pos EXCEPT ![p] =
                         IF MoveDone(p) THEN 0
                         ELSE IF rule.mv_type = "ROLLING" THEN pos[p] - 1 ELSE pos[p] + 1]
            /\ writes' = writes
         \/ /\ StepTo(w, "unlock") /\ skipped' = TRUE
            /\ pos' = [pos EXCEPT ![p] = 0]
            /\ UNCHANGED <<dir, clobbered, writes>>
      /\ files' = [files EXCEPT ![p] = IF wpc'[w] = "unlock" THEN <<>> ELSE @]
      /\ UNCHANGED <<rule, size, lastFile, fd, len, lock_mutex, lock_fd>>
  BY <1>1 DEF MoveFile, Fault, rotateCounts, rotateLockVars
<1> QED  BY <1>1, <1>2, StepMoveTurn, StepMoveFails

\* zlog_rotater_unlock: the file lock, then the mutex.
LEMMA StepUnlock ==
  ASSUME RotateInv, NEW w \in Writers, zlog_rotater_unlock(w)
  PROVE  RotateInv'
<1>1. TypeInv /\ LockInv /\ ArchiveInv /\ MoveInv /\ SizeInv
  BY DEF RotateInv
<1>2. /\ UNCHANGED <<rule, dir, size, lastFile, fd, len, files, pos, writes, faults,
                     clobbered, skipped>>
      /\ \/ /\ wpc[w] = "unlock" /\ StepTo(w, "unlock2") /\ lock_mutex' = lock_mutex
            /\ lock_fd' = IF lock_fd = ProcOf[w] THEN Nobody ELSE lock_fd
         \/ /\ wpc[w] = "unlock2" /\ StepTo(w, "idle") /\ lock_fd' = lock_fd
            /\ lock_mutex' = [lock_mutex EXCEPT ![ProcOf[w]] = Nobody]
  BY DEF zlog_rotater_unlock, diskVars, listVars, rotateCounts, historyVars
<1>3. PICK l \in {"unlock2", "idle"} : StepTo(w, l)
  BY <1>2
<1>4. /\ wpc' \in [Writers -> Place] /\ wpc'[w] = l
      /\ \A v \in Writers : v # w => wpc'[v] = wpc[v]
  BY <1>1, <1>3, Labels, StepToFacts
<1>5. ProcOf[w] \in Procs /\ \A v \in Writers : ProcOf[v] \in Procs
  BY RotateAssumption
<1>6. TypeInv'
  <2>1. lock_mutex' \in [Procs -> Writers \union {Nobody}] /\ lock_fd' \in Procs \union {Nobody}
    BY <1>1, <1>2, <1>5 DEF TypeInv
  <2> QED  BY <1>1, <1>2, <1>4, <2>1 DEF TypeInv
<1>7. lock_mutex[ProcOf[w]] = w
  BY <1>1, <1>2, Labels DEF LockInv
<1>8. LockInv'
  <2>0. \A v \in Writers : wpc'[v] # "idle" => Configured'
    BY <1>1, <1>2, <1>4 DEF LockInv, Configured
  <2>1. CASE /\ wpc[w] = "unlock" /\ StepTo(w, "unlock2") /\ lock_mutex' = lock_mutex
    <3>1. wpc'[w] = "unlock2"
      BY <1>1, <2>1, Labels, StepToFacts
    <3>2. \A v \in Writers : v # w => wpc[v] \notin Critical
      BY <1>1, <2>1, OneRotates, Labels
    <3>3. \A v \in Writers : wpc'[v] \notin Critical
      BY <1>4, <3>1, <3>2, Labels
    <3>4. \A v \in Writers : wpc'[v] \in Critical \union {"flock", "unlock2"} =>
            lock_mutex'[ProcOf[v]] = v
      BY <1>1, <1>4, <1>7, <2>1 DEF LockInv
    <3> QED  BY <2>0, <3>3, <3>4 DEF LockInv
  <2>2. CASE /\ wpc[w] = "unlock2" /\ StepTo(w, "idle") /\ lock_fd' = lock_fd
             /\ lock_mutex' = [lock_mutex EXCEPT ![ProcOf[w]] = Nobody]
    <3>1. wpc'[w] = "idle"
      BY <1>1, <2>2, Labels, StepToFacts
    <3>2. ASSUME NEW v \in Writers, v # w, wpc[v] \in Critical \union {"flock", "unlock2"}
          PROVE  lock_mutex'[ProcOf[v]] = v
      <4>1. lock_mutex[ProcOf[v]] = v
        BY <1>1, <3>2 DEF LockInv
      <4>2. ProcOf[v] # ProcOf[w]
        BY <1>7, <3>2, <4>1
      <4> QED  BY <1>1, <1>5, <2>2, <4>1, <4>2 DEF TypeInv
    <3>3. \A v \in Writers : wpc'[v] \in Critical \union {"flock", "unlock2"} =>
            lock_mutex'[ProcOf[v]] = v
      BY <1>4, <3>1, <3>2, Labels
    <3>4. \A v \in Writers : wpc'[v] \in Critical => lock_fd' = ProcOf[v]
      BY <1>1, <1>4, <2>2, <3>1, Labels DEF LockInv
    <3> QED  BY <2>0, <3>3, <3>4 DEF LockInv
  <2> QED  BY <1>2, <2>1, <2>2
<1>9. ArchiveInv'
  BY <1>1, <1>2, ArchivesKept
<1>10. MoveInv'
  BY <1>1, <1>2, <1>4, MovesKept
<1>11. SizeInv'
  <2>1. l \in Place /\ l # "write" /\ wpc[w] \notin Caring /\ l \notin Caring
    BY <1>2, Labels
  <2> QED  BY <1>1, <1>2, <1>3, <2>1, Labels, SizesKept
<1> QED  BY <1>6, <1>8, <1>9, <1>10, <1>11 DEF RotateInv

\* A step that changes no archive and not the file that is or will be the
\* youngest keeps the archives in order.
LEMMA ArchivesStay ==
  ASSUME TypeInv, ArchiveInv, UNCHANGED <<rule, clobbered>>, Youngest' = Youngest,
         \A n \in Names : n # Base => dir'[n] = dir[n]
  PROVE  ArchiveInv' /\ Archives' = Archives
<1>1. \A x : x \in Archives' <=> x \in Archives
  BY NextArchives DEF Archives
<1>2. Archives' = Archives
  BY <1>1, Zenon
<1>3. \A n \in Archives : n \in Names /\ n \in Int /\ n >= 0 /\ n <= MaxWrites /\ dir'[n] = dir[n]
  BY RotateAssumption DEF Archives, Names, Base
<1>4. \A g \in Int : g >= 0 /\ g <= MaxWrites => dir'[g] = dir[g]
  BY RotateAssumption DEF Names, Base
<1>5. RolledInv => RolledInv'
  <2> SUFFICES ASSUME RolledInv, NEW n \in Archives
               PROVE  /\ \A g, h \in 0..(n - 1) : dir'[g] = None /\ dir'[h] = None => g = h
                      /\ dir'[n] + n <= Youngest'
                      /\ (\A h \in 0..(n - 1) : dir'[h] # None) => dir'[n] + n < Youngest'
                      /\ rule'.max_count > 0 => n < rule'.max_count
                      /\ \A m \in Archives : m < n => dir'[n] < dir'[m]
    BY <1>2 DEF RolledInv
  <2>1. \A g \in 0..(n - 1) : dir'[g] = dir[g]
    BY <1>3, <1>4, RotateAssumption
  <2> QED  BY <1>3, <2>1 DEF RolledInv
<1>6. CountedInv => CountedInv'
  <2> SUFFICES ASSUME CountedInv, NEW n \in Archives
               PROVE  /\ n < dir'[n]
                      /\ \A m \in Archives :
                           /\ \A k \in m..n : dir'[k] # None
                           /\ rule'.max_count > 0 => n - m <= rule'.max_count
                           /\ m < n => dir'[m] < dir'[n]
    BY <1>2 DEF CountedInv
  <2>1. \A m \in Archives : \A k \in m..n : dir'[k] = dir[k]
    BY <1>3, <1>4, RotateAssumption
  <2> QED  BY <1>3, <2>1 DEF CountedInv
<1>7. ~clobbered' /\ \A n \in Archives' : dir'[n] < Youngest'
  BY <1>2, <1>3 DEF ArchiveInv
<1> QED  BY <1>2, <1>5, <1>6, <1>7 DEF ArchiveInv

\* open: a new file is the youngest.
LEMMA StepOpen ==
  ASSUME RotateInv, NEW w \in Writers, OpenFile(w)
  PROVE  RotateInv'
<1>1. TypeInv /\ LockInv /\ ArchiveInv /\ MoveInv /\ SizeInv
  BY DEF RotateInv
<1>2. PICK l \in MsgLens : len' = [len EXCEPT ![w] = l]
  BY DEF OpenFile
<1>3. /\ wpc[w] = "idle" /\ rule # NoRule /\ writes < MaxWrites /\ writes' = writes + 1
      /\ StepTo(w, "write") /\ fd' = [fd EXCEPT ![w] = dir'[Base]]
      /\ \/ /\ dir[Base] = None /\ lastFile' = lastFile + 1
            /\ dir' = [dir EXCEPT ![Base] = lastFile + 1]
         \/ /\ dir[Base] # None /\ lastFile' = lastFile /\ dir' = dir
      /\ UNCHANGED <<rule, size, files, pos, lock_mutex, lock_fd, faults, clobbered, skipped>>
  BY DEF OpenFile, listVars, rotateLockVars, historyVars
<1>4. /\ wpc' \in [Writers -> Place] /\ wpc'[w] = "write"
      /\ \A v \in Writers : v # w => wpc'[v] = wpc[v]
  BY <1>1, <1>3, Labels, StepToFacts
<1>5. /\ writes \in Nat /\ lastFile \in Nat /\ lastFile <= writes /\ MaxWrites \in Nat
      /\ dir \in [Names -> 0..lastFile] /\ fd \in [Writers -> 0..lastFile]
      /\ len \in [Writers -> Nat] /\ l \in Nat
  BY <1>1, RotateAssumption DEF TypeInv
<1>6. Base \in Names
  BY NameFacts
<1>7. /\ lastFile' \in Nat /\ lastFile' <= writes' /\ lastFile <= lastFile'
      /\ dir' \in [Names -> 0..lastFile'] /\ dir'[Base] # None /\ dir'[Base] \in 0..lastFile'
      /\ \A n \in Names : n # Base => dir'[n] = dir[n]
  <2>1. CASE /\ dir[Base] = None /\ lastFile' = lastFile + 1
             /\ dir' = [dir EXCEPT ![Base] = lastFile + 1]
    <3>1. \A n \in Names : dir[n] \in 0..(lastFile + 1)
      BY <1>5
    <3>2. dir'[Base] = lastFile + 1 /\ lastFile + 1 \in 0..(lastFile + 1)
      BY <1>5, <1>6, <2>1
    <3>3. dir' \in [Names -> 0..(lastFile + 1)]
      BY <1>5, <2>1, <3>1, <3>2
    <3> QED  BY <1>3, <1>5, <2>1, <3>2, <3>3 DEF None
  <2>2. CASE dir[Base] # None /\ lastFile' = lastFile /\ dir' = dir
    BY <1>3, <1>5, <1>6, <2>2
  <2> QED  BY <1>3, <2>1, <2>2
<1>8. TypeInv'
  <2>1. writes' \in Nat /\ writes' <= MaxWrites
    BY <1>3, <1>5
  <2>2. \A v \in Writers : fd[v] \in 0..lastFile'
    BY <1>5, <1>7
  <2>3. fd' \in [Writers -> 0..lastFile']
    BY <1>3, <1>5, <1>7, <2>2
  <2>4. len' \in [Writers -> Nat]
    BY <1>2, <1>5
  <2> QED  BY <1>1, <1>3, <1>4, <1>7, <2>1, <2>3, <2>4 DEF TypeInv
<1>9. Configured
  BY <1>1, <1>3 DEF TypeInv, Configured
<1>10. LockInv'
  BY <1>1, <1>3, <1>4, <1>9, Labels DEF LockInv, Configured
<1>11. Youngest' = Youngest
  BY <1>3, <1>5, <1>6, <1>7 DEF Youngest, None
<1>12. ArchiveInv' /\ Archives' = Archives
  BY <1>1, <1>3, <1>7, <1>11, ArchivesStay
<1>13. dir[Base] = None => \A v \in Writers : wpc[v] \notin {"list", "move"}
  BY <1>1 DEF SizeInv
<1>14. MoveInv'
  <2>1. CASE dir[Base] = None
    BY <1>4, <1>13, <2>1 DEF MoveInv
  <2>2. CASE dir' = dir
    BY <1>1, <1>3, <1>4, <2>2, MovesKept
  <2> QED  BY <1>3, <2>1, <2>2
<1>15. SizeInv'
  <2>1. \A f \in FileId : f > lastFile' => size'[f] = 0
    BY <1>1, <1>3, <1>5, <1>7 DEF SizeInv, FileId
  <2>2. ASSUME NEW v \in Writers
        PROVE  /\ wpc'[v] = "write" => fd'[v] # None /\ len'[v] \in MsgLens
               /\ wpc'[v] \in Caring => len'[v] \in MsgLens /\ len'[v] <= ArchiveMaxSize
               /\ wpc'[v] \in {"list", "move"} =>
                    dir'[Base] # None /\ size'[dir'[Base]] + len'[v] > ArchiveMaxSize
    <3>1. CASE v = w
      BY <1>2, <1>3, <1>4, <1>5, <1>7, <3>1, Labels
    <3>2. CASE v # w
      <4>1. fd'[v] = fd[v] /\ len'[v] = len[v] /\ wpc'[v] = wpc[v]
        BY <1>2, <1>3, <1>4, <1>5, <3>2
      <4>2. wpc[v] \in {"list", "move"} => dir' = dir
        BY <1>3, <1>13
      <4> QED  BY <1>1, <1>3, <4>1, <4>2 DEF SizeInv
    <3> QED  BY <3>1, <3>2
  <2>3. RotatedFull'
    <3>1. \A n \in Archives : dir'[n] = dir[n]
      BY <1>7 DEF Archives
    <3> QED  BY <1>1, <1>3, <1>12, <3>1 DEF SizeInv, RotatedFull
  <2>4. ASSUME ~skipped', size'[dir'[Base]] > ArchiveMaxSize
        PROVE  \E v \in Writers : wpc'[v] \in Caring
    <3>1. CASE dir[Base] = None
      <4>1. dir'[Base] = lastFile + 1 /\ lastFile + 1 \in FileId
        BY <1>3, <1>5, <1>6, <3>1 DEF FileId
      <4>2. size'[dir'[Base]] = 0
        BY <1>1, <1>3, <1>5, <4>1 DEF SizeInv
      <4> QED  BY <2>4, <4>2, RotateAssumption
    <3>2. CASE dir[Base] # None
      <4>1. dir' = dir
        BY <1>3, <3>2
      <4>2. PICK v \in Writers : wpc[v] \in Caring
        BY <1>1, <1>3, <2>4, <3>2, <4>1 DEF SizeInv
      <4>3. v # w
        BY <1>3, <4>2, Labels
      <4> QED  BY <1>4, <4>2, <4>3
    <3> QED  BY <3>1, <3>2
  <2> QED  BY <2>1, <2>2, <2>3, <2>4 DEF SizeInv
<1> QED  BY <1>8, <1>10, <1>12, <1>14, <1>15 DEF RotateInv

\* write and close.
LEMMA StepWrite ==
  ASSUME RotateInv, NEW w \in Writers, WriteFile(w)
  PROVE  RotateInv'
<1>1. TypeInv /\ LockInv /\ ArchiveInv /\ MoveInv /\ SizeInv
  BY DEF RotateInv
<1>2. /\ wpc[w] = "write" /\ size' = [size EXCEPT ![fd[w]] = @ + len[w]]
      /\ fd' = [fd EXCEPT ![w] = None]
      /\ StepTo(w, IF len[w] > ArchiveMaxSize THEN "idle" ELSE "check")
      /\ skipped' = (skipped \/ len[w] > ArchiveMaxSize)
      /\ UNCHANGED <<rule, dir, lastFile, len, files, pos, lock_mutex, lock_fd, writes,
                     faults, clobbered>>
  BY DEF WriteFile, listVars, rotateLockVars, rotateCounts
<1>3. PICK l \in {"idle", "check"} :
        StepTo(w, l) /\ l = IF len[w] > ArchiveMaxSize THEN "idle" ELSE "check"
  BY <1>2
<1>4. /\ wpc' \in [Writers -> Place] /\ wpc'[w] = l
      /\ \A v \in Writers : v # w => wpc'[v] = wpc[v]
  BY <1>1, <1>3, Labels, StepToFacts
<1>5. /\ lastFile \in Nat /\ lastFile <= MaxWrites /\ MaxWrites \in Nat /\ ArchiveMaxSize \in Nat
      /\ size \in [FileId -> Nat] /\ fd \in [Writers -> 0..lastFile] /\ len \in [Writers -> Nat]
      /\ dir \in [Names -> 0..lastFile]
  BY <1>1, DirFacts, RotateAssumption DEF TypeInv
<1>6. fd[w] \in FileId /\ fd[w] <= lastFile /\ len[w] \in Nat /\ len[w] \in MsgLens
  <2>1. fd[w] # None /\ len[w] \in MsgLens
    BY <1>1, <1>2 DEF SizeInv
  <2> QED  BY <1>5, <2>1 DEF FileId, None
<1>7. \A f \in FileId : /\ size'[f] \in Nat /\ size[f] \in Nat /\ size'[f] >= size[f]
                        /\ f # fd[w] => size'[f] = size[f]
  BY <1>2, <1>5, <1>6
<1>8. \A n \in Names : dir[n] # None => dir[n] \in FileId
  BY <1>5 DEF FileId, None
<1>9. TypeInv'
  <2>1. size' \in [FileId -> Nat]
    BY <1>2, <1>5, <1>6
  <2>2. fd' \in [Writers -> 0..lastFile]
    BY <1>2, <1>5 DEF None
  <2>3. skipped' \in BOOLEAN
    BY <1>2
  <2> QED  BY <1>1, <1>2, <1>4, <2>1, <2>2, <2>3 DEF TypeInv
<1>10. LockInv'
  BY <1>1, <1>2, <1>4, Labels DEF LockInv, Configured
<1>11. ArchiveInv' /\ Archives' = Archives
  BY <1>1, <1>2, ArchivesKept
<1>12. MoveInv'
  BY <1>1, <1>2, <1>4, MovesKept
<1>13. SizeInv'
  <2>1. \A f \in FileId : f > lastFile => size'[f] = 0
    <3>1. \A f \in FileId : f > lastFile => f # fd[w]
      BY <1>5, <1>6 DEF FileId
    <3> QED  BY <1>1, <1>7, <3>1 DEF SizeInv
  <2>2. ASSUME NEW v \in Writers
        PROVE  /\ wpc'[v] = "write" => fd'[v] # None /\ len[v] \in MsgLens
               /\ wpc'[v] \in Caring => len[v] \in MsgLens /\ len[v] <= ArchiveMaxSize
               /\ wpc'[v] \in {"list", "move"} =>
                    dir[Base] # None /\ size'[dir[Base]] + len[v] > ArchiveMaxSize
    <3>1. CASE v = w
      BY <1>3, <1>4, <1>5, <1>6, <3>1, Labels
    <3>2. CASE v # w
      <4>1. fd'[v] = fd[v] /\ wpc'[v] = wpc[v] /\ len[v] \in Nat
        BY <1>2, <1>4, <1>5, <3>2
      <4>2. ASSUME wpc[v] \in {"list", "move"}
            PROVE  dir[Base] # None /\ size'[dir[Base]] + len[v] > ArchiveMaxSize
        <5>1. dir[Base] # None /\ size[dir[Base]] + len[v] > ArchiveMaxSize
          BY <1>1, <4>2 DEF SizeInv
        <5>2. dir[Base] \in FileId
          BY <1>8, <5>1, NameFacts
        <5> QED  BY <1>5, <1>7, <4>1, <5>1, <5>2
      <4> QED  BY <1>1, <4>1, <4>2 DEF SizeInv
    <3> QED  BY <3>1, <3>2
  <2>3. RotatedFull'
    <3> SUFFICES ASSUME NEW n \in Archives
                 PROVE  \E k \in MsgLens : k <= ArchiveMaxSize /\ size'[dir[n]] + k > ArchiveMaxSize
      BY <1>2, <1>11 DEF RotatedFull
    <3>1. PICK k \in MsgLens : k <= ArchiveMaxSize /\ size[dir[n]] + k > ArchiveMaxSize
      BY <1>1 DEF SizeInv, RotatedFull
    <3>2. dir[n] \in FileId /\ k \in Nat
      BY <1>8, NameFacts, RotateAssumption
    <3>3. size'[dir[n]] + k > ArchiveMaxSize
      BY <1>5, <1>7, <3>1, <3>2
    <3> QED  BY <3>1, <3>3
  <2>4. ~skipped' => wpc'[w] \in Caring
    BY <1>2, <1>3, <1>4, Labels
  <2> QED  BY <1>2, <2>1, <2>2, <2>3, <2>4 DEF SizeInv
<1> QED  BY <1>9, <1>10, <1>11, <1>12, <1>13 DEF RotateInv

\* The configuration is read before the first message.
LEMMA StepConfigure ==
  ASSUME RotateInv, Configure
  PROVE  RotateInv'
<1>1. TypeInv /\ LockInv /\ ArchiveInv /\ MoveInv /\ SizeInv
  BY DEF RotateInv
<1>2. /\ UNCHANGED <<dir, size, lastFile, wpc, fd, len, files, pos, lock_mutex, lock_fd,
                     writes, faults, clobbered, skipped>>
      /\ rule' \in [mv_type : {"ROLLING", "SEQUENCE", "bad"}, max_count : ArchiveMaxCounts]
      /\ rule = NoRule
  BY DEF Configure, diskVars, listVars, rotateLockVars, rotateCounts, historyVars
<1>3. rule'.mv_type \in {"ROLLING", "SEQUENCE", "bad"} /\ rule'.max_count \in Int
  BY <1>2, RotateAssumption
<1>4. rule.mv_type = "none"
  BY <1>2 DEF NoRule
<1>5. Archives = {}
  BY <1>1, <1>4 DEF ArchiveInv
<1>6. Archives' = Archives
  BY <1>2 DEF Archives
<1>7. TypeInv'
  BY <1>1, <1>2, <1>3 DEF TypeInv
<1>8. LockInv'
  BY <1>1, <1>2, <1>3 DEF LockInv, Configured
<1>9. ArchiveInv'
  BY <1>1, <1>2, <1>5, <1>6 DEF ArchiveInv, RolledInv, CountedInv
<1>10. MoveInv'
  BY <1>1, <1>2, <1>4 DEF MoveInv, LockInv, Configured
<1>11. SizeInv'
  BY <1>1, <1>2, <1>6 DEF SizeInv, RotatedFull
<1> QED  BY <1>7, <1>8, <1>9, <1>10, <1>11 DEF RotateInv

\* A process dies between any two system calls.
LEMMA StepCrash ==
  ASSUME RotateInv, NEW p \in Procs, CrashAndRestart(p)
  PROVE  RotateInv'
<1>1. TypeInv /\ LockInv /\ ArchiveInv /\ MoveInv /\ SizeInv
  BY DEF RotateInv
<1>2. /\ wpc' = [w \in Writers |-> IF ProcOf[w] = p THEN "idle" ELSE wpc[w]]
      /\ fd' = [w \in Writers |-> IF ProcOf[w] = p THEN None ELSE fd[w]]
      /\ len' = [w \in Writers |-> IF ProcOf[w] = p THEN 0 ELSE len[w]]
      /\ files' = [files EXCEPT ![p] = <<>>]
      /\ pos' = [pos EXCEPT ![p] = 0]
      /\ lock_mutex' = [lock_mutex EXCEPT ![p] = Nobody]
      /\ lock_fd' = IF lock_fd = p THEN Nobody ELSE lock_fd
      /\ skipped' = TRUE
      /\ UNCHANGED <<rule, dir, size, lastFile, clobbered, writes>>
  BY DEF CrashAndRestart, Fault, diskVars
<1>3. \A w \in Writers : /\ ProcOf[w] \in Procs
                         /\ ProcOf[w] = p => wpc'[w] = "idle"
                         /\ ProcOf[w] # p => wpc'[w] = wpc[w] /\ fd'[w] = fd[w] /\ len'[w] = len[w]
  BY <1>2, RotateAssumption
<1>4. TypeInv'
  <2>1. wpc' \in [Writers -> Place]
    BY <1>1, <1>2, Labels DEF TypeInv
  <2>2. fd' \in [Writers -> 0..lastFile] /\ len' \in [Writers -> Nat]
    BY <1>1, <1>2 DEF TypeInv, None
  <2>3. pos' \in [Procs -> Nat] /\ files' \in [Procs -> Seq(Names \ {Base})]
    BY <1>1, <1>2 DEF TypeInv
  <2>4. lock_mutex' \in [Procs -> Writers \union {Nobody}] /\ lock_fd' \in Procs \union {Nobody}
    BY <1>1, <1>2 DEF TypeInv
  <2> QED  BY <1>1, <1>2, <2>1, <2>2, <2>3, <2>4 DEF TypeInv
<1>5. LockInv'
  <2>1. \A w \in Writers : ProcOf[w] # p => lock_mutex'[ProcOf[w]] = lock_mutex[ProcOf[w]]
    BY <1>1, <1>2, <1>3 DEF TypeInv
  <2>2. \A w \in Writers : ProcOf[w] # p /\ lock_fd = ProcOf[w] => lock_fd' = lock_fd
    BY <1>2
  <2> QED  BY <1>1, <1>2, <1>3, <2>1, <2>2, Labels DEF LockInv, Configured
<1>6. ArchiveInv' /\ Archives' = Archives
  BY <1>1, <1>2, ArchivesKept
<1>7. MoveInv'
  <2>1. \A v \in Writers : wpc'[v] = "move" =>
          /\ wpc[v] = "move" /\ files'[ProcOf[v]] = files[ProcOf[v]]
          /\ pos'[ProcOf[v]] = pos[ProcOf[v]]
    BY <1>1, <1>2, <1>3 DEF TypeInv
  <2> QED  BY <1>1, <1>2, <2>1, MovesKept
<1>8. SizeInv'
  <2>1. RotatedFull'
    BY <1>1, <1>2, <1>6 DEF SizeInv, RotatedFull
  <2>2. \A w \in Writers :
          /\ wpc'[w] = "write" => fd'[w] # None /\ len'[w] \in MsgLens
          /\ wpc'[w] \in Caring => len'[w] \in MsgLens /\ len'[w] <= ArchiveMaxSize
          /\ wpc'[w] \in {"list", "move"} =>
               dir[Base] # None /\ size[dir[Base]] + len'[w] > ArchiveMaxSize
    BY <1>1, <1>3, Labels DEF SizeInv
  <2> QED  BY <1>1, <1>2, <2>1, <2>2 DEF SizeInv
<1> QED  BY <1>4, <1>5, <1>6, <1>7, <1>8 DEF RotateInv

\* The invariant holds before the first message.
LEMMA RotateInvInit == RotateInit => RotateInv
<1> SUFFICES ASSUME RotateInit PROVE RotateInv
  OBVIOUS
<1>1. \A n \in Names : dir[n] = None
  BY DEF RotateInit
<1>2. Archives = {}
  BY <1>1 DEF Archives
<1>3. TypeInv
  <2>1. rule.mv_type = "none" /\ rule.max_count = 0 /\ rule = NoRule
    BY DEF RotateInit, NoRule
  <2>2. /\ writes = 0 /\ lastFile = 0 /\ MaxWrites \in Nat
        /\ lock_fd = Nobody /\ skipped = FALSE
    BY RotateAssumption DEF RotateInit, None
  <2>3. dir \in [Names -> 0..0] /\ fd \in [Writers -> 0..0]
    BY DEF RotateInit, None
  <2>4. size \in [FileId -> Nat] /\ len \in [Writers -> Nat] /\ pos \in [Procs -> Nat]
    BY DEF RotateInit
  <2>5. files \in [Procs -> Seq(Names \ {Base})]
    BY DEF RotateInit
  <2>6. wpc \in [Writers -> Place] /\ lock_mutex \in [Procs -> Writers \union {Nobody}]
    BY Labels DEF RotateInit
  <2>7. /\ rule.mv_type \in {"none", "bad", "ROLLING", "SEQUENCE"} /\ rule.max_count \in Int
        /\ writes \in Nat /\ writes <= MaxWrites /\ lastFile \in Nat /\ lastFile <= writes
    BY <2>1, <2>2
  <2>8. dir \in [Names -> 0..lastFile] /\ fd \in [Writers -> 0..lastFile]
    BY <2>2, <2>3
  <2>9. lock_fd \in Procs \union {Nobody} /\ skipped \in BOOLEAN
    BY <2>2
  <2> QED  BY <2>1, <2>4, <2>5, <2>6, <2>7, <2>8, <2>9 DEF TypeInv
<1>4. LockInv /\ MoveInv
  BY Labels DEF RotateInit, LockInv, MoveInv
<1>5. rule.mv_type = "none"
  BY DEF RotateInit, NoRule
<1>6. ArchiveInv
  BY <1>2, <1>5 DEF RotateInit, ArchiveInv, RolledInv, CountedInv
<1>7. dir[Base] = None
  BY <1>1, NameFacts
<1>8. SizeInv
  BY <1>2, <1>7, Labels DEF RotateInit, SizeInv, RotatedFull
<1> QED  BY <1>3, <1>4, <1>6, <1>8 DEF RotateInv

\* A step that changes nothing.
LEMMA StepStutter ==
  ASSUME RotateInv, UNCHANGED rotateVars
  PROVE  RotateInv'
<1>1. TypeInv /\ LockInv /\ ArchiveInv /\ MoveInv /\ SizeInv
  BY DEF RotateInv
<1>2. UNCHANGED <<rule, dir, size, lastFile, wpc, fd, len, files, pos, lock_mutex, lock_fd,
                  writes, faults, clobbered, skipped>>
  BY DEF rotateVars, diskVars, listVars, rotateLockVars, rotateCounts, historyVars
<1>3. TypeInv' /\ LockInv'
  BY <1>1, <1>2 DEF TypeInv, LockInv, Configured
<1>4. ArchiveInv' /\ Archives' = Archives
  BY <1>1, <1>2, ArchivesKept
<1>5. MoveInv'
  BY <1>1, <1>2, MovesKept
<1>6. SizeInv'
  BY <1>1, <1>2, <1>4 DEF SizeInv, RotatedFull
<1> QED  BY <1>3, <1>4, <1>5, <1>6 DEF RotateInv

\* Every step keeps the invariant.
LEMMA RotateInvNext == RotateInv /\ [RotateNext]_rotateVars => RotateInv'
<1> SUFFICES ASSUME RotateInv, [RotateNext]_rotateVars PROVE RotateInv'
  OBVIOUS
<1>1. CASE UNCHANGED rotateVars
  BY <1>1, StepStutter
<1>2. CASE Configure
  BY <1>2, StepConfigure
<1>3. ASSUME NEW w \in Writers, OpenFile(w) \/ WriteFile(w) \/ CheckSize(w)
      PROVE  RotateInv'
  BY <1>3, StepOpen, StepWrite, StepCheckSize
<1>4. ASSUME NEW w \in Writers, MutexTrylock(w) \/ FileTrylock(w)
      PROVE  RotateInv'
  BY <1>4, StepMutexTrylock, StepFileTrylock
<1>5. ASSUME NEW w \in Writers,
             \/ StatUnderLock(w) \/ zlog_rotater_lsmv(w) \/ MoveFile(w) \/ zlog_rotater_unlock(w)
      PROVE  RotateInv'
  BY <1>5, StepStat, StepList, StepMove, StepUnlock
<1>6. ASSUME NEW p \in Procs, CrashAndRestart(p)
      PROVE  RotateInv'
  BY <1>6, StepCrash
<1> QED
  BY <1>1, <1>2, <1>3, <1>4, <1>5, <1>6
  DEF RotateNext, Writers, zlog_rule_output_static_file_rotate,
      zlog_rule_output_dynamic_file_rotate, zlog_rotater_trylock

-----------------------------------------------------------------------------
(* The theorems.                                                           *)

\* The invariant of the rotation: locks, numbers of archives, the place of a
\* rotation in progress and sizes, whatever threads, processes and faults meet.
THEOREM RotateInvariant == RotateSpec => []RotateInv
BY RotateInvInit, RotateInvNext, PTL DEF RotateSpec

\* zlog_rotater_roll_files and zlog_rotater_seq_files never rename over a file.
THEOREM NoLogLost == RotateSpec => []NothingClobbered
<1>1. RotateInv => NothingClobbered
  BY DEF RotateInv, ArchiveInv, NothingClobbered
<1> QED  BY <1>1, RotateInvariant, PTL

\* The numbers of archives tell their age, after any broken rotations.
THEOREM NumbersTellAge == RotateSpec => []AgeOrder
<1>1. RotateInv => AgeOrder
  <2> SUFFICES ASSUME RotateInv PROVE AgeOrder
    OBVIOUS
  <2>1. ArchiveInv /\ TypeInv
    BY DEF RotateInv
  <2>2. dir[Base] # None => \A n \in Archives : dir[n] < dir[Base]
    BY <2>1 DEF ArchiveInv, Youngest
  <2>3. \A m, n \in Archives : m < n =>
          IF rule.mv_type = "ROLLING" THEN dir[n] < dir[m] ELSE dir[m] < dir[n]
    BY <2>1 DEF ArchiveInv, RolledInv, CountedInv, TypeInv
  <2> QED  BY <2>2, <2>3 DEF AgeOrder
<1> QED  BY <1>1, RotateInvariant, PTL

\* A set of numbers in an interval of k numbers has at most k members.
LEMMA IntervalBound ==
  ASSUME NEW a \in Int, NEW k \in Nat, NEW S, \A x \in S : x \in Int /\ a <= x /\ x < a + k
  PROVE  Cardinality(S) <= k
<1>1. IsFiniteSet(a..(a + k - 1)) /\ Cardinality(a..(a + k - 1)) = k
  BY FS_Interval
<1>2. S \subseteq a..(a + k - 1)
  OBVIOUS
<1> QED  BY <1>1, <1>2, FS_Subset

\* The limits of zlog_rotater: the number of archives, the size of the log
\* file, and that only full files are archived.
THEOREM RotationKeepsLimits == RotateSpec => []LimitsKept
<1>1. RotateInv => LimitsKept
  <2> SUFFICES ASSUME RotateInv PROVE LimitsKept
    OBVIOUS
  <2>1. ArchiveInv /\ TypeInv /\ SizeInv
    BY DEF RotateInv
  <2>2. ArchivesBounded
    <3> SUFFICES ASSUME rule.max_count > 0
                 PROVE  Cardinality(Archives) <=
                          rule.max_count + (IF rule.mv_type = "SEQUENCE" THEN 1 ELSE 0)
      BY DEF ArchivesBounded
    <3>0. rule.max_count \in Nat
      BY <2>1 DEF TypeInv
    <3>1. CASE rule.mv_type = "ROLLING"
      <4>1. \A n \in Archives : n < rule.max_count
        BY <2>1, <3>1 DEF ArchiveInv, RolledInv
      <4>2. \A n \in Archives : n \in Int /\ 0 <= n /\ n < 0 + rule.max_count
        BY <3>0, <4>1, NameFacts
      <4>3. Cardinality(Archives) <= rule.max_count
        BY <3>0, <4>2, IntervalBound
      <4> QED  BY <3>0, <3>1, <4>3
    <3>2. CASE rule.mv_type = "SEQUENCE"
      <4>1. CASE Archives = {}
        BY <3>0, <3>2, <4>1, FS_EmptySet
      <4>2. CASE Archives # {}
        <5>1. PICK m \in Archives : \A n \in Archives : m <= n
          <6>1. \A x \in Archives : x \in Nat
            BY NameFacts
          <6> QED  BY <4>2, <6>1, LeastNatural
        <5>2. m \in Int /\ \A n \in Archives : n \in Int /\ m <= n /\ n < m + (rule.max_count + 1)
          BY <2>1, <3>0, <3>2, <5>1, NameFacts DEF ArchiveInv, CountedInv
        <5>3. rule.max_count + 1 \in Nat
          BY <3>0
        <5>4. Cardinality(Archives) <= rule.max_count + 1
          BY <5>2, <5>3, IntervalBound
        <5> QED  BY <3>2, <5>4
      <4> QED  BY <4>1, <4>2
    <3>3. CASE rule.mv_type \in {"none", "bad"}
      <4>1. Archives = {}
        BY <2>1, <3>3 DEF ArchiveInv
      <4>2. Cardinality(Archives) = 0
        BY <4>1, FS_EmptySet
      <4> QED  BY <3>0, <3>3, <4>2
    <3> QED  BY <2>1, <3>1, <3>2, <3>3 DEF TypeInv
  <2>3. SizeBounded
    <3> SUFFICES ASSUME dir[Base] # None, ~skipped,
                        \A w \in Writers : wpc[w] \in {"idle", "write"}
                 PROVE  size[dir[Base]] <= ArchiveMaxSize
      BY DEF SizeBounded
    <3>1. dir[Base] \in FileId
      BY <2>1, DirFacts, NameFacts DEF FileId
    <3>2. size[dir[Base]] \in Nat /\ ArchiveMaxSize \in Nat
      BY <2>1, <3>1, RotateAssumption DEF TypeInv
    <3>3. ~(size[dir[Base]] > ArchiveMaxSize)
      BY <2>1, Labels DEF SizeInv
    <3> QED  BY <3>2, <3>3
  <2>4. RotatedFull
    BY <2>1 DEF SizeInv
  <2> QED  BY <2>2, <2>3, <2>4 DEF LimitsKept
<1> QED  BY <1>1, RotateInvariant, PTL
=============================================================================
