---------------------------- MODULE ZlogConfProofs ----------------------------
(***************************************************************************)
(* Proofs about ZlogConf, for any file, any categories and any limit on    *)
(* descriptors.  The inductive invariant says which descriptors the        *)
(* configuration being read owns (Covers) and that 0, which stands for     *)
(* "none", is not one of them; that the time caches it has given out are   *)
(* below the counter and distinct (CachesOf); and that a rule's bitmap is  *)
(* that of its comparison (RulesOf).                                       *)
(***************************************************************************)
EXTENDS ZlogConf, SequenceTheorems, FiniteSetTheorems, WellFoundedInduction, TLAPS

Fds     == 0..MaxFd
OwnKind == {"lock", "file", "pipe"}     \* what a configuration opens and must close
Kind    == OwnKind \cup {"closed", "console", "conf", "syslog"}
Format  == [name : Text, slots : SUBSET Nat]
Output  == {"dynamic_file_rotate", "static_file_rotate", "dynamic_file_single",
            "static_file_single", "dynamic_record", "static_record", "pipe", "syslog",
            "stdout", "stderr"}
Rule    == [category : Seq(Text) \ {<<>>}, compare_char : {"*", ".", "=", "!"},
            level : -1..255, level_bitmap : [0..31 -> SUBSET Byte], format : Format,
            output : Output, slots : SUBSET Nat, fsync_period : Int,
            static_fd : Fds, pipe_fp : 1..MaxFd \cup {NoFd}]

\* The array of levels has grown to hold every level of one byte.
LevelsOf(l) ==
    /\ l.size = 256 /\ l.outside = FALSE
    /\ DOMAIN l.at \subseteq 0..255

ConfType(c) ==
    c \in [strict : BOOLEAN, reload : Int, fsync_period : Int, default_ok : BOOLEAN,
           levels : {c.levels}, formats : Seq(Format), rules : Seq(Rule),
           rotater : Fds \cup {NoFd}, default_format : Format, time_cache_count : Nat]

\* The bitmap of a rule is that of its comparison and level.
BitmapOf(r) == r.level_bitmap = level_bitmap(r.compare_char, r.level)

RulesOf(c) == \A i \in 1..Len(c.rules) : BitmapOf(c.rules[i])

\* Every time cache in use is below the counter and has one user.
Taken(S, c) == \A s \in S : s < c.time_cache_count

CachesOf(c) ==
    /\ Taken(c.default_format.slots, c)
    /\ \A i \in 1..Len(c.formats) :
          /\ Taken(c.formats[i].slots, c)
          /\ c.formats[i].slots \cap c.default_format.slots = {}
          /\ \A j \in 1..Len(c.formats) : i # j => c.formats[i].slots \cap c.formats[j].slots = {}
          /\ \A j \in 1..Len(c.rules) : c.formats[i].slots \cap c.rules[j].slots = {}
    /\ \A i \in 1..Len(c.rules) :
          /\ Taken(c.rules[i].slots, c)
          /\ c.rules[i].slots \cap c.default_format.slots = {}
          /\ \A j \in 1..Len(c.rules) : i # j => c.rules[i].slots \cap c.rules[j].slots = {}

ConfOf(c) == ConfType(c) /\ LevelsOf(c.levels) /\ RulesOf(c) /\ CachesOf(c)

\* The descriptors a configuration knows of, and that it knows of all it opened.
Owned(c) == {c.rotater} \cup {c.rules[i].static_fd : i \in 1..Len(c.rules)}
                        \cup {c.rules[i].pipe_fp : i \in 1..Len(c.rules)}

Covers(c, t) == \A n \in Fds : t[n] \in OwnKind => n \in Owned(c)

\* While the file is read, 0 is the console's or the file's.
Reading(t, f, c) ==
    /\ t \in [Fds -> Kind] /\ t[0] \in {"console", "conf"}
    /\ f \in Fds /\ \A n \in Fds : t[n] = "conf" <=> n = f
    /\ ConfOf(c) /\ Covers(c, t)

Built(t, c) ==
    /\ t \in [Fds -> Kind] /\ t[0] \in {"console", "closed"}
    /\ \A n \in Fds : t[n] # "conf"
    /\ ConfOf(c) /\ Covers(c, t)

Idle(t) == t \in [Fds -> {"closed", "console", "syslog"}] /\ t[0] \in {"console", "closed"}

CategoriesOf(c) ==
    \A name \in DOMAIN cats :
        name \in Seq(Text) /\ cats[name] = ObtainedRules(c.rules, name)

ConfInv ==
    /\ daemon \in BOOLEAN /\ (~daemon => fds[0] = "console")
    /\ status \in {"idle", "reading", "built"} /\ section \in 0..4 /\ nlines \in Nat
    /\ status = "idle" => Idle(fds) /\ section = 0
    /\ status = "reading" => Reading(fds, fp, conf) /\ (section < 4 => conf.rotater = NoFd)
    /\ status = "built" => Built(fds, conf) /\ CategoriesOf(conf)
    /\ status # "built" => DOMAIN cats = {}

-------------------------------------------------------------------------------
(* Numbers.                                                                *)

\* A set of natural numbers that is not empty has a least one.
LEMMA LeastNatural ==
  ASSUME NEW T \in SUBSET Nat, T # {}
  PROVE  \E m \in T : \A n \in T : m <= n
<1>1. PICK m \in T : \A n \in T : ~(<<n, m>> \in OpToRel(<, Nat))
  BY WFMin, NatLessThanWellFounded
<1>2. \A n \in T : ~(n < m)
  BY <1>1 DEF OpToRel
<1> QED  BY <1>2

\* Min and Max of a set of natural numbers below a bound are in it.
LEMMA Extremes ==
  ASSUME NEW N \in Nat, NEW I \in SUBSET (0..N), I # {}
  PROVE  Min(I) \in I /\ Max(I) \in I
<1>1. PICK m \in I : \A n \in I : m <= n
  BY LeastNatural
<1>2. Min(I) \in I
  BY <1>1 DEF Min
<1>3. PICK d \in {N - i : i \in I} : \A e \in {N - i : i \in I} : d <= e
  <2>1. {N - i : i \in I} \in SUBSET Nat /\ {N - i : i \in I} # {}
    OBVIOUS
  <2> HIDE DEF Max
  <2> QED  BY <2>1, LeastNatural
<1>4. PICK x \in I : d = N - x
  BY <1>3
<1>5. \A i \in I : i <= x
  BY <1>3, <1>4
<1>6. Max(I) \in I
  BY <1>4, <1>5 DEF Max
<1> QED  BY <1>2, <1>6

\* q counts the numbers of I upwards.
Counts(q, I) ==
  /\ q \in [1..Cardinality(I) -> I]
  /\ \A m, n \in 1..Cardinality(I) : m < n => q[m] < q[n]

\* The numbers up to N that were chosen can be counted upwards.
LEMMA CountExists ==
  ASSUME NEW N \in Nat, NEW I \in SUBSET (1..N)
  PROVE  \E q : Counts(q, I)
<1> DEFINE T == {n \in Nat : \E J \in SUBSET (1..n) : ~\E q : Counts(q, J)}
<1>1. SUFFICES ASSUME T # {} PROVE FALSE
  BY Zenon
<1>2. PICK m \in T : \A n \in T : m <= n
  BY <1>1, LeastNatural
<1>3. PICK J \in SUBSET (1..m) : ~\E q : Counts(q, J)
  BY <1>2
<1>4. m \in Nat /\ IsFiniteSet(J) /\ Cardinality(J) \in Nat
  <2>1. m \in Nat /\ IsFiniteSet(1..m)
    BY <1>2, FS_Interval
  <2>2. IsFiniteSet(J)
    BY <2>1, FS_Subset
  <2> QED  BY <2>1, <2>2, FS_CardinalityType
<1>5. CASE m = 0
  <2>1. J = {} /\ Cardinality(J) = 0
    <3>1. J = {}
      BY <1>5
    <3> QED  BY <3>1, FS_EmptySet
  <2>2. Counts([x \in 1..0 |-> x], J)
    BY <2>1 DEF Counts
  <2> QED  BY <1>3, <2>2
<1>6. CASE m > 0
  <2>1. m - 1 \in Nat /\ m - 1 \notin T
    BY <1>2, <1>4, <1>6
  <2>2. \A K \in SUBSET (1..(m - 1)) : \E q : Counts(q, K)
    BY <2>1
  <2>3. PICK K : K = J \ {m}
    OBVIOUS
  <2>4. K \in SUBSET (1..(m - 1))
    BY <1>4, <2>3
  <2>5. m \in J
    <3>1. ASSUME m \notin J PROVE FALSE
      <4>1. K = J
        BY <2>3, <3>1
      <4> QED  BY <1>3, <2>2, <2>4, <4>1
    <3> QED  BY <3>1
  <2>6. Cardinality(K) = Cardinality(J) - 1 /\ Cardinality(K) \in Nat
    <3>1. Cardinality(K) = Cardinality(J) - 1 /\ IsFiniteSet(K)
      BY <1>4, <2>3, <2>5, FS_RemoveElement
    <3> QED  BY <3>1, FS_CardinalityType
  <2>7. PICK q : Counts(q, K)
    BY <2>2, <2>4
  <2> DEFINE c == Cardinality(J)
             p == [x \in 1..c |-> IF x = c THEN m ELSE q[x]]
  <2>8. \A x \in 1..c : x = c \/ (x \in 1..Cardinality(K) /\ q[x] \in K)
    BY <1>4, <2>6, <2>7 DEF Counts
  <2>9. p \in [1..c -> J]
    BY <2>3, <2>5, <2>8
  <2>10. ASSUME NEW a \in 1..c, NEW b \in 1..c, a < b PROVE p[a] < p[b]
    <3>1. a \in 1..Cardinality(K) /\ q[a] \in K /\ p[a] = q[a]
      BY <1>4, <2>8, <2>10
    <3>2. q[a] < m
      <4>1. q[a] \in 1..(m - 1)
        BY <2>4, <3>1
      <4> QED  BY <1>4, <4>1
    <3>3. CASE b = c
      BY <3>1, <3>2, <3>3
    <3>4. CASE b # c
      BY <2>7, <2>8, <2>10, <3>1, <3>4 DEF Counts
    <3> QED  BY <3>3, <3>4
  <2>11. Counts(p, J)
    BY <2>9, <2>10 DEF Counts
  <2> QED  BY <1>3, <2>11
<1> QED  BY <1>4, <1>5, <1>6

\* So InOrder counts them.
LEMMA InOrderCounts ==
  ASSUME NEW N \in Nat, NEW I \in SUBSET (1..N)
  PROVE  Counts(InOrder(I), I)
<1>1. PICK q : Counts(q, I)
  BY CountExists
<1> QED  BY <1>1 DEF Counts, InOrder

-------------------------------------------------------------------------------
(* Levels.                                                                 *)

\* What a comparison says of the level of an event.
Passes(cmp, l, lv) ==
    CASE cmp = "*" -> TRUE
      [] cmp = "." -> lv >= l
      [] cmp = "=" -> lv = l
      [] cmp = "!" -> lv # l

\* One bit of the bitmap that zlog_rule_new makes says what zlog_rule_output
\* decides by comparing levels, the undefined level -1 included.
LEMMA BitOfLevel ==
  ASSUME NEW cmp \in {"*", ".", "=", "!"}, NEW l \in -1..255, NEW lv \in 0..255
  PROVE  7 - (lv % 8) \in level_bitmap(cmp, l)[lv \div 8] <=> Passes(cmp, l, lv)
<1> DEFINE i == lv \div 8
           b == 7 - (lv % 8)
<1>1. i \in 0..31 /\ b \in Byte /\ lv = 8 * i + (7 - b) /\ b \in Int
  BY DEF Byte
<1>2. PICK q : q = Quot(l)
  OBVIOUS
<1>3. PICK r : r = Rem(l)
  OBVIOUS
<1>4. q \in 0..31 /\ r \in -1..7 /\ l = 8 * q + r /\ (r = -1 => q = 0)
  BY <1>2, <1>3 DEF Quot, Rem
<1> HIDE DEF i, b
<1>5. level_bitmap(cmp, l)[i] =
        CASE cmp = "=" -> IF i = q THEN {7 - r} \cap Byte ELSE {}
          [] cmp = "!" -> IF i = q THEN Byte \ {7 - r} ELSE Byte
          [] cmp = "*" -> Byte
          [] cmp = "." -> {x \in Byte : i > q \/ (i = q /\ x < 8 - r)}
  BY <1>1, <1>2, <1>3 DEF level_bitmap
<1>6. CASE cmp = "*"
  BY <1>1, <1>5, <1>6 DEF i, b, Passes
<1>7. CASE cmp = "="
  <2>1. b \in level_bitmap(cmp, l)[i] <=> i = q /\ b = 7 - r
    BY <1>1, <1>5, <1>7
  <2>2. i = q /\ b = 7 - r <=> lv = l
    BY <1>1, <1>4 DEF Byte
  <2> QED  BY <1>7, <2>1, <2>2 DEF i, b, Passes
<1>8. CASE cmp = "!"
  <2>1. b \in level_bitmap(cmp, l)[i] <=> ~(i = q /\ b = 7 - r)
    BY <1>1, <1>5, <1>8
  <2>2. i = q /\ b = 7 - r <=> lv = l
    BY <1>1, <1>4 DEF Byte
  <2> QED  BY <1>8, <2>1, <2>2 DEF i, b, Passes
<1>9. CASE cmp = "."
  <2>1. b \in level_bitmap(cmp, l)[i] <=> i > q \/ (i = q /\ b < 8 - r)
    BY <1>1, <1>5, <1>9
  <2>2. i > q \/ (i = q /\ b < 8 - r) <=> lv >= l
    BY <1>1, <1>4 DEF Byte
  <2> QED  BY <1>9, <2>1, <2>2 DEF i, b, Passes
<1> QED  BY <1>6, <1>7, <1>8, <1>9

\* The array of levels while it grows to n slots.
Grown(l, n) ==
    /\ l.size = n /\ l.outside = FALSE
    /\ DOMAIN l.at \subseteq 0..255

\* The parts of the array after one level is stored.
LEMMA SetParts ==
  ASSUME NEW l, NEW v, NEW x
  PROVE  LET k == IF v > l.size - 1 THEN zc_arraylist_expand_inner(l.size, v) ELSE l.size
             m == zlog_level_list_set(l, v, x)
         IN  m.size = k /\ m.outside = (l.outside \/ v >= k) /\ DOMAIN m.at = DOMAIN l.at \cup {v}
BY DEF zlog_level_list_set, zc_arraylist_set

\* A level below the size of the array, or below twice the size, is stored inside.
LEMMA SetGrows ==
  ASSUME NEW n \in Nat, NEW l, Grown(l, n), NEW v \in 0..255, NEW x
  PROVE  /\ v < n => Grown(zlog_level_list_set(l, v, x), n)
         /\ n <= v /\ v < 2 * n => Grown(zlog_level_list_set(l, v, x), 2 * n)
<1>1. l.size = n /\ l.outside = FALSE
  BY DEF Grown
<1>2. DOMAIN l.at \cup {v} \subseteq 0..255
  BY DEF Grown
<1>3. PICK m : m = zlog_level_list_set(l, v, x)
  OBVIOUS
<1>4. PICK k : k = IF v > n - 1 THEN zc_arraylist_expand_inner(n, v) ELSE n
  OBVIOUS
<1>5. m.size = k /\ m.outside = (FALSE \/ v >= k) /\ DOMAIN m.at = DOMAIN l.at \cup {v}
  BY <1>1, <1>3, <1>4, SetParts
<1>6. k \in Nat /\ (v < n => k = n) /\ (n <= v /\ v < 2 * n => k = 2 * n)
  BY <1>4 DEF zc_arraylist_expand_inner
<1>7. m.outside = (v >= k)
  BY <1>5
<1>8. ASSUME v < k PROVE m.outside = FALSE
  <2>1. (v >= k) = FALSE
    BY <1>6, <1>8
  <2> QED  BY <1>7, <2>1
<1> QED  BY <1>2, <1>3, <1>5, <1>6, <1>8, ZenonT(60) DEF Grown

\* The recursive function is the one its definition describes: there is one.
LEMMA DefaultsDefined ==
  /\ zlog_level_list_set_default[0] = [size |-> 32, at |-> <<>>, outside |-> FALSE]
  /\ \A i \in 1..9 : zlog_level_list_set_default[i] =
        zlog_level_list_set(zlog_level_list_set_default[i - 1],
                            LevelDefaults[i][1], LevelDefaults[i][2])
<1> DEFINE After(f, i) == IF i = 0 THEN [size |-> 32, at |-> <<>>, outside |-> FALSE]
                          ELSE zlog_level_list_set(f[i - 1], LevelDefaults[i][1], LevelDefaults[i][2])
<1>1. PICK l0 : l0 = [size |-> 32, at |-> <<>>, outside |-> FALSE]
  BY Zenon
<1>2. PICK l1 : l1 = zlog_level_list_set(l0, LevelDefaults[1][1], LevelDefaults[1][2])
  BY Zenon
<1>3. PICK l2 : l2 = zlog_level_list_set(l1, LevelDefaults[2][1], LevelDefaults[2][2])
  BY Zenon
<1>4. PICK l3 : l3 = zlog_level_list_set(l2, LevelDefaults[3][1], LevelDefaults[3][2])
  BY Zenon
<1>5. PICK l4 : l4 = zlog_level_list_set(l3, LevelDefaults[4][1], LevelDefaults[4][2])
  BY Zenon
<1>6. PICK l5 : l5 = zlog_level_list_set(l4, LevelDefaults[5][1], LevelDefaults[5][2])
  BY Zenon
<1>7. PICK l6 : l6 = zlog_level_list_set(l5, LevelDefaults[6][1], LevelDefaults[6][2])
  BY Zenon
<1>8. PICK l7 : l7 = zlog_level_list_set(l6, LevelDefaults[7][1], LevelDefaults[7][2])
  BY Zenon
<1>9. PICK l8 : l8 = zlog_level_list_set(l7, LevelDefaults[8][1], LevelDefaults[8][2])
  BY Zenon
<1>10. PICK l9 : l9 = zlog_level_list_set(l8, LevelDefaults[9][1], LevelDefaults[9][2])
  BY Zenon
<1> DEFINE g == [i \in 0..9 |-> CASE i = 0 -> l0
                                   [] i = 1 -> l1
                                   [] i = 2 -> l2
                                   [] i = 3 -> l3
                                   [] i = 4 -> l4
                                   [] i = 5 -> l5
                                   [] i = 6 -> l6
                                   [] i = 7 -> l7
                                   [] i = 8 -> l8
                                   [] i = 9 -> l9]
<1>11. g = [i \in 0..9 |-> After(g, i)]
  <2>1. ASSUME NEW i \in 0..9 PROVE g[i] = After(g, i)
    <3>1. CASE i = 0
      BY <3>1, <1>1
    <3>2. CASE i = 1
      BY <3>2, <1>2
    <3>3. CASE i = 2
      BY <3>3, <1>3
    <3>4. CASE i = 3
      BY <3>4, <1>4
    <3>5. CASE i = 4
      BY <3>5, <1>5
    <3>6. CASE i = 5
      BY <3>6, <1>6
    <3>7. CASE i = 6
      BY <3>7, <1>7
    <3>8. CASE i = 7
      BY <3>8, <1>8
    <3>9. CASE i = 8
      BY <3>9, <1>9
    <3>10. CASE i = 9
      BY <3>10, <1>10
    <3> QED  BY <3>1, <3>2, <3>3, <3>4, <3>5, <3>6, <3>7, <3>8, <3>9, <3>10
  <2>2. g = [i \in 0..9 |-> g[i]]
    OBVIOUS
  <2> HIDE DEF g, After
  <2> QED  BY <2>1, <2>2, SMTT(30)
<1>12. zlog_level_list_set_default = CHOOSE f : f = [i \in 0..9 |-> After(f, i)]
  BY DEF zlog_level_list_set_default
<1> HIDE DEF g, After
<1>13. zlog_level_list_set_default = [i \in 0..9 |-> After(zlog_level_list_set_default, i)]
  BY <1>11, <1>12
<1>14. \A i \in 0..9 : zlog_level_list_set_default[i] = After(zlog_level_list_set_default, i)
  BY <1>13
<1> QED  BY <1>14 DEF After

\* The array of levels holds every level after the default ones are set: each of
\* them is stored below twice the size the array had.
LEMMA DefaultLevels == LevelsOf(zlog_level_list_new)
<1> DEFINE L == zlog_level_list_set_default
<1>1. Grown(L[0], 32)
  BY DefaultsDefined DEF Grown
<1>2. Grown(L[1], 32)
  <2>1. L[1] = zlog_level_list_set(L[0], 0, "*")
    BY DefaultsDefined, SMTT(30) DEF LevelDefaults
  <2> QED  BY <1>1, <2>1, SetGrows
<1>3. Grown(L[2], 32)
  <2>1. L[2] = zlog_level_list_set(L[1], 20, "DEBUG")
    BY DefaultsDefined DEF LevelDefaults
  <2> QED  BY <1>2, <2>1, SetGrows
<1>4. Grown(L[3], 64)
  <2>1. L[3] = zlog_level_list_set(L[2], 40, "INFO")
    BY DefaultsDefined DEF LevelDefaults
  <2> QED  BY <1>3, <2>1, SetGrows
<1>5. Grown(L[4], 64)
  <2>1. L[4] = zlog_level_list_set(L[3], 60, "NOTICE")
    BY DefaultsDefined DEF LevelDefaults
  <2> QED  BY <1>4, <2>1, SetGrows
<1>6. Grown(L[5], 128)
  <2>1. L[5] = zlog_level_list_set(L[4], 80, "WARN")
    BY DefaultsDefined DEF LevelDefaults
  <2> QED  BY <1>5, <2>1, SetGrows
<1>7. Grown(L[6], 128)
  <2>1. L[6] = zlog_level_list_set(L[5], 100, "ERROR")
    BY DefaultsDefined DEF LevelDefaults
  <2> QED  BY <1>6, <2>1, SetGrows
<1>8. Grown(L[7], 128)
  <2>1. L[7] = zlog_level_list_set(L[6], 120, "FATAL")
    BY DefaultsDefined DEF LevelDefaults
  <2> QED  BY <1>7, <2>1, SetGrows
<1>9. Grown(L[8], 256)
  <2>1. L[8] = zlog_level_list_set(L[7], 254, "UNKNOWN")
    BY DefaultsDefined DEF LevelDefaults
  <2> QED  BY <1>8, <2>1, SetGrows
<1>10. Grown(L[9], 256)
  <2>1. L[9] = zlog_level_list_set(L[8], 255, "!")
    BY DefaultsDefined DEF LevelDefaults
  <2> QED  BY <1>9, <2>1, SetGrows
<1> QED  BY <1>10 DEF LevelsOf, Grown, zlog_level_list_new

\* From then on every level of one byte is stored inside the array.
LEMMA SetLevel ==
  ASSUME NEW l, LevelsOf(l), NEW v \in 0..255, NEW x
  PROVE  LevelsOf(zlog_level_list_set(l, v, x))
<1>1. Grown(l, 256)
  BY DEF LevelsOf, Grown
<1>2. Grown(zlog_level_list_set(l, v, x), 256)
  BY <1>1, SetGrows, SMTT(30)
<1> QED  BY <1>2 DEF LevelsOf, Grown

\* A name stands for a level of one byte or, undefined, for -1.
LEMMA LevelNumber ==
  ASSUME NEW l, LevelsOf(l), NEW name
  PROVE  zlog_level_list_atoi(l, name) \in -1..255
<1> DEFINE F == {i \in DOMAIN l.at : l.at[i] = name}
<1>1. F \in SUBSET (0..255)
  BY DEF LevelsOf
<1>2. zlog_level_list_atoi(l, name) = IF F = {} THEN -1 ELSE Min(F)
  BY DEF zlog_level_list_atoi
<1> HIDE DEF F
<1>3. F # {} => Min(F) \in 0..255
  <2>1. PICK N \in Nat : N = 255
    OBVIOUS
  <2>2. F \in SUBSET (0..N)
    BY <1>1, <2>1
  <2>3. F # {} => Min(F) \in F
    BY <2>2, Extremes
  <2> QED  BY <1>1, <2>3
<1> QED  BY <1>2, <1>3

-------------------------------------------------------------------------------
(* The rules of a category.                                                *)

\* They are rules of the configuration.
LEMMA FitFacts ==
  ASSUME NEW rules \in Seq(Rule), NEW name
  PROVE  /\ FitRules(rules, name) \in Seq(Rule)
         /\ \A j \in 1..Len(FitRules(rules, name)) :
               \E i \in 1..Len(rules) : FitRules(rules, name)[j] = rules[i]
<1> DEFINE fit   == {i \in 1..Len(rules) : zlog_rule_match_category(rules[i], name)}
           waste == {i \in 1..Len(rules) : zlog_rule_is_wastebin(rules[i])}
           F     == FitRules(rules, name)
<1>1. F = IF fit = {} /\ waste # {} THEN <<rules[Max(waste)]>>
          ELSE [j \in 1..Cardinality(fit) |-> rules[InOrder(fit)[j]]]
  BY DEF FitRules
<1>2. Len(rules) \in Nat /\ fit \in SUBSET (1..Len(rules)) /\ waste \in SUBSET (1..Len(rules))
  OBVIOUS
<1> HIDE DEF fit, waste, F
<1>3. CASE fit = {} /\ waste # {}
  <2>1. waste \in SUBSET (0..Len(rules))
    BY <1>2
  <2>2. Max(waste) \in 1..Len(rules)
    BY <1>2, <1>3, <2>1, Extremes
  <2>3. rules[Max(waste)] \in Rule /\ F = <<rules[Max(waste)]>>
    BY <1>1, <1>3, <2>2
  <2>4. F \in Seq(Rule) /\ Len(F) = 1 /\ F[1] = rules[Max(waste)]
    BY <2>3
  <2> QED  BY <2>2, <2>4 DEF F
<1>4. CASE ~(fit = {} /\ waste # {})
  <2>1. Counts(InOrder(fit), fit)
    BY <1>2, InOrderCounts
  <2>2. Cardinality(fit) \in Nat
    <3>1. IsFiniteSet(1..Len(rules))
      BY <1>2, FS_Interval
    <3>2. IsFiniteSet(fit)
      BY <1>2, <3>1, FS_Subset
    <3> QED  BY <3>2, FS_CardinalityType
  <2>3. \A j \in 1..Cardinality(fit) : InOrder(fit)[j] \in 1..Len(rules)
    BY <1>2, <2>1 DEF Counts
  <2>4. F = [j \in 1..Cardinality(fit) |-> rules[InOrder(fit)[j]]]
    BY <1>1, <1>4
  <2>5. F \in [1..Cardinality(fit) -> Rule]
    BY <2>3, <2>4
  <2>6. F \in Seq(Rule) /\ Len(F) = Cardinality(fit)
    BY <2>2, <2>5
  <2> QED  BY <2>3, <2>4, <2>6 DEF F
<1> QED  BY <1>3, <1>4

\* The bit of a level that the quiet test reads in the bitmap of a category.
LEMMA QuietBit ==
  ASSUME NEW rules \in Seq(Rule), NEW name, NEW lv \in 0..255,
         \A i \in 1..Len(rules) : BitmapOf(rules[i])
  PROVE  LET cat == ObtainedRules(rules, name)
         IN  zlog_category_needless_level(cat.level_bitmap, lv)
               <=> ~ \E i \in 1..Len(cat.fit_rules) : zlog_rule_output(cat.fit_rules[i], lv)
<1>1. PICK F \in Seq(Rule) : F = FitRules(rules, name)
  BY FitFacts
<1>2. \A j \in 1..Len(F) : \E i \in 1..Len(rules) : F[j] = rules[i]
  BY <1>1, FitFacts
<1>3. \A j \in 1..Len(F) : F[j] \in Rule /\ F[j].level_bitmap = level_bitmap(F[j].compare_char, F[j].level)
  BY <1>2 DEF BitmapOf
<1>4. PICK b : b = 7 - (lv % 8)
  OBVIOUS
<1>5. PICK n \in 0..31 : n = lv \div 8
  OBVIOUS
<1>6. \A r \in Rule : r.compare_char \in {"*", ".", "=", "!"} /\ r.level \in -1..255
  BY DEF Rule
<1>7. ASSUME NEW j \in 1..Len(F)
      PROVE  b \in F[j].level_bitmap[n] <=> zlog_rule_output(F[j], lv)
  <2>1. /\ F[j].compare_char \in {"*", ".", "=", "!"} /\ F[j].level \in -1..255
        /\ F[j].level_bitmap = level_bitmap(F[j].compare_char, F[j].level)
    BY <1>3, <1>6, SMTT(30)
  <2>2. PICK cmp \in {"*", ".", "=", "!"}, l \in -1..255 : cmp = F[j].compare_char /\ l = F[j].level
    BY <2>1, ZenonT(60)
  <2>3. 7 - (lv % 8) \in level_bitmap(cmp, l)[lv \div 8] <=> Passes(cmp, l, lv)
    BY BitOfLevel, ZenonT(60)
  <2> QED  BY <1>4, <1>5, <2>1, <2>2, <2>3 DEF zlog_rule_output, Passes
<1>8. DOMAIN F = 1..Len(F)
  OBVIOUS
<1>9. zlog_category_overlap_bitmap(F)[n] = UNION {F[j].level_bitmap[n] : j \in 1..Len(F)}
  BY <1>5, <1>8 DEF zlog_category_overlap_bitmap
<1>10. b \in zlog_category_overlap_bitmap(F)[n] <=> \E j \in 1..Len(F) : b \in F[j].level_bitmap[n]
  BY <1>9
<1>11. /\ ObtainedRules(rules, name).fit_rules = F
       /\ ObtainedRules(rules, name).level_bitmap = zlog_category_overlap_bitmap(F)
  BY <1>1 DEF ObtainedRules
<1> QED  BY <1>4, <1>5, <1>7, <1>10, <1>11 DEF zlog_category_needless_level

\* strncmp over the shorter of the two lengths decides what the comment in rule.c says.
LEMMA MatchSelects ==
  ASSUME NEW r \in Rule, NEW name \in Seq(Text)
  PROVE  zlog_rule_match_category(r, name) <=> Selects(r.category, name)
<1>1. PICK c \in Seq(Text) : c = r.category /\ c # <<>>
  BY DEF Rule
<1>2. Len(c) \in Nat /\ Len(c) >= 1 /\ Len(name) \in Nat
  BY <1>1
<1>3. Last(c) = c[Len(c)] /\ Front(c) = SubSeq(c, 1, Len(c) - 1)
  BY DEF Last, Front
<1>4. CASE Len(name) = Len(c) - 1
  <2>1. SubSeq(name, 1, Len(c) - 1) = name
    BY <1>2, <1>4
  <2>2. ~IsPrefix(c, name)
    BY <1>2, <1>4 DEF IsPrefix
  <2>3. Len(c) - 1 <= Len(name)
    BY <1>2, <1>4
  <2> QED  BY <1>1, <1>3, <1>4, <2>1, <2>2, <2>3 DEF zlog_rule_match_category, Selects
<1>5. CASE Len(name) # Len(c) - 1
  <2>1. name # Front(c)
    <3>1. Len(SubSeq(c, 1, Len(c) - 1)) = Len(c) - 1
      <4>1. PICK k \in Nat : k = Len(c) - 1
        BY <1>2
      <4>2. \A i \in 1..k : c[i] \in Text
        BY <1>2, <4>1
      <4>3. Len(SubSeq(c, 1, k)) = IF 1 <= k THEN k - 1 + 1 ELSE 0
        BY <4>2, SubSeqProperties
      <4>4. (IF 1 <= k THEN k - 1 + 1 ELSE 0) = k
        OBVIOUS
      <4> QED  BY <4>1, <4>3, <4>4
    <3> QED  BY <1>3, <1>5, <3>1
  <2>2. IsPrefix(c, name) <=> Len(c) <= Len(name) /\ SubSeq(c, 1, Len(c)) = SubSeq(name, 1, Len(c))
    BY DEF IsPrefix
  <2> QED  BY <1>1, <1>3, <1>5, <2>1, <2>2 DEF zlog_rule_match_category, Selects
<1> QED  BY <1>4, <1>5

\* The rules "fit" of a category are those its name selects, in the order of the file.
InOrderOfFile(rules, name, fit) ==
    LET selected == {i \in 1..Len(rules) : Selects(rules[i].category, name)}
        bin      == {i \in 1..Len(rules) : rules[i].category = <<"!">>}
        mine     == IF selected # {} \/ bin = {} THEN selected ELSE {Max(bin)}
    IN  \E q \in [1..Cardinality(mine) -> mine] :
            /\ \A m, n \in DOMAIN q : m < n => q[m] < q[n]
            /\ fit = [j \in DOMAIN q |-> rules[q[j]]]

\* So FitRules chooses them.
LEMMA FitIsSelected ==
  ASSUME NEW rules \in Seq(Rule), NEW name \in Seq(Text)
  PROVE  InOrderOfFile(rules, name, FitRules(rules, name))
<1> DEFINE selected == {i \in 1..Len(rules) : Selects(rules[i].category, name)}
           bin      == {i \in 1..Len(rules) : rules[i].category = <<"!">>}
           mine     == IF selected # {} \/ bin = {} THEN selected ELSE {Max(bin)}
           fit      == {i \in 1..Len(rules) : zlog_rule_match_category(rules[i], name)}
           waste    == {i \in 1..Len(rules) : zlog_rule_is_wastebin(rules[i])}
<1>1. \A i \in 1..Len(rules) : zlog_rule_match_category(rules[i], name)
                                 <=> Selects(rules[i].category, name)
  BY MatchSelects
<1>2. fit = selected
  BY <1>1
<1>3. waste = bin
  BY DEF zlog_rule_is_wastebin
<1>4. FitRules(rules, name) = IF fit = {} /\ waste # {} THEN <<rules[Max(waste)]>>
                              ELSE [j \in 1..Cardinality(fit) |-> rules[InOrder(fit)[j]]]
  BY DEF FitRules
<1>5. Len(rules) \in Nat /\ selected \in SUBSET (1..Len(rules)) /\ bin \in SUBSET (1..Len(rules))
  OBVIOUS
<1> HIDE DEF fit, waste, selected, bin
<1>6. \E q \in [1..Cardinality(mine) -> mine] :
         /\ \A m, n \in DOMAIN q : m < n => q[m] < q[n]
         /\ FitRules(rules, name) = [j \in DOMAIN q |-> rules[q[j]]]
  <2>1. CASE selected = {} /\ bin # {}
    <3>1. mine = {Max(bin)} /\ Cardinality(mine) = 1
      BY <2>1, FS_Singleton
    <3>2. PICK q : q = [j \in 1..1 |-> Max(bin)]
      OBVIOUS
    <3>3. q \in [1..Cardinality(mine) -> mine] /\ DOMAIN q = 1..1
      BY <3>1, <3>2
    <3>4. \A m, n \in DOMAIN q : m < n => q[m] < q[n]
      BY <3>3
    <3>5. FitRules(rules, name) = <<rules[Max(bin)]>>
      BY <1>2, <1>3, <1>4, <2>1
    <3>6. \A x : <<x>> = [j \in 1..1 |-> x]
      OBVIOUS
    <3>7. [j \in 1..1 |-> rules[Max(bin)]] = [j \in DOMAIN q |-> rules[q[j]]]
      BY <3>2, <3>3
    <3>8. FitRules(rules, name) = [j \in DOMAIN q |-> rules[q[j]]]
      BY <3>5, <3>6, <3>7
    <3> QED  BY <3>3, <3>4, <3>8
  <2>2. CASE ~(selected = {} /\ bin # {})
    <3>1. mine = selected
      BY <2>2
    <3>2. Counts(InOrder(selected), selected)
      BY <1>5, InOrderCounts
    <3>3. PICK q : q = InOrder(selected)
      OBVIOUS
    <3>4. q \in [1..Cardinality(mine) -> mine] /\ DOMAIN q = 1..Cardinality(selected)
      BY <3>1, <3>2, <3>3 DEF Counts
    <3>5. \A m, n \in DOMAIN q : m < n => q[m] < q[n]
      BY <3>2, <3>3, <3>4 DEF Counts
    <3>6. FitRules(rules, name) = [j \in DOMAIN q |-> rules[q[j]]]
      BY <1>2, <1>3, <1>4, <2>2, <3>3, <3>4
    <3> QED  BY <3>4, <3>5, <3>6
  <2> QED  BY <2>1, <2>2
<1> QED  BY <1>6 DEF selected, bin, InOrderOfFile

-------------------------------------------------------------------------------
(* The descriptor table.                                                   *)

\* The descriptor that open gets is free; it is not 0 when 0 is in use.
LEMMA FreeFacts ==
  ASSUME NEW t \in [Fds -> Kind], HasFree(t)
  PROVE  /\ LowestFree(t) \in Fds /\ t[LowestFree(t)] = "closed"
         /\ t[0] = "closed" => LowestFree(t) = 0
<1> DEFINE S == {n \in DOMAIN t : t[n] = "closed"}
<1>1. S \in SUBSET Nat /\ S # {} /\ DOMAIN t = Fds /\ S \subseteq Fds
  BY ConfAssumption DEF HasFree, Fds
<1>2. PICK m \in S : \A n \in S : m <= n
  BY <1>1, LeastNatural
<1>3. Min(S) \in S /\ \A n \in S : Min(S) <= n
  BY <1>2 DEF Min
<1>4. LowestFree(t) = Min(S)
  BY DEF LowestFree
<1>5. ASSUME t[0] = "closed" PROVE Min(S) = 0
  <2>1. 0 \in S
    BY <1>1, <1>5, ConfAssumption DEF Fds
  <2>2. Min(S) <= 0 /\ Min(S) \in Nat
    BY <1>1, <1>3, <2>1
  <2> QED  BY <2>2
<1> QED  BY <1>1, <1>3, <1>4, <1>5

\* open changes one free entry.
LEMMA OpenFacts ==
  ASSUME NEW t \in [Fds -> Kind], HasFree(t), NEW k \in Kind
  PROVE  /\ OpenFd(t, k) \in [Fds -> Kind]
         /\ OpenFd(t, k)[LowestFree(t)] = k
         /\ \A n \in Fds : n # LowestFree(t) => OpenFd(t, k)[n] = t[n]
BY FreeFacts DEF OpenFd

\* close changes one entry.
LEMMA CloseFacts ==
  ASSUME NEW t \in [Fds -> Kind], NEW n \in Fds
  PROVE  /\ CloseFd(t, n) \in [Fds -> Kind]
         /\ CloseFd(t, n)[n] = "closed"
         /\ \A m \in Fds : m # n => CloseFd(t, n)[m] = t[m]
BY DEF CloseFd, Kind

\* Releasing a configuration that covers the table leaves none of its descriptors.
LEMMA ConfDelFacts ==
  ASSUME NEW t \in [Fds -> Kind], NEW c, ConfType(c), Covers(c, t),
         t[0] \in {"console", "closed"}, \A n \in Fds : t[n] # "conf"
  PROVE  Idle(zlog_conf_del(t, c)) /\ zlog_conf_del(t, c)[0] = t[0]
<1> DEFINE N == zlog_rotater_del(c.rotater) \cup
                UNION {zlog_rule_del(c.rules[i]) : i \in 1..Len(c.rules)}
<1>1. PICK u : u = zlog_conf_del(t, c)
  OBVIOUS
<1>2. u = [n \in Fds |-> IF n \in N THEN "closed" ELSE t[n]]
  BY <1>1 DEF zlog_conf_del, CloseFds
<1>3. c.rules \in Seq(Rule)
  BY DEF ConfType
<1>4. \A i \in 1..Len(c.rules) : c.rules[i].pipe_fp # 0
  <2>1. \A r \in Rule : r.pipe_fp # 0
    BY ConfAssumption DEF Rule, NoFd
  <2> QED  BY <1>3, <2>1
<1>5. 0 \notin N
  BY <1>4 DEF zlog_rotater_del, zlog_rule_del
<1>6. \A n \in Fds : n \in Owned(c) /\ n # 0 => n \in N
  BY DEF Owned, zlog_rotater_del, zlog_rule_del
<1> HIDE DEF N
<1>7. 0 \in Fds
  BY ConfAssumption DEF Fds
<1>8. ASSUME NEW n \in Fds PROVE u[n] \in {"closed", "console", "syslog"}
  <2>1. CASE n \in N
    BY <1>2, <2>1
  <2>2. CASE n \notin N
    <3>1. u[n] = t[n] /\ t[n] \in Kind /\ t[n] # "conf"
      BY <1>2, <2>2
    <3>2. t[n] \notin OwnKind
      BY <1>6, <2>2 DEF Covers, OwnKind
    <3> QED  BY <3>1, <3>2 DEF Kind
  <2> QED  BY <2>1, <2>2
<1>9. u[0] = t[0]
  BY <1>2, <1>5, <1>7
<1>10. u \in [Fds -> {"closed", "console", "syslog"}]
  BY <1>2, <1>8
<1> QED  BY <1>1, <1>9, <1>10 DEF Idle

-------------------------------------------------------------------------------
(* Changes of a configuration.                                             *)

\* A configuration whose options alone differ.
LEMMA SameParts ==
  ASSUME NEW c, ConfOf(c), NEW d, ConfType(d), d.levels = c.levels, d.formats = c.formats,
         d.rules = c.rules, d.default_format = c.default_format,
         d.time_cache_count = c.time_cache_count
  PROVE  ConfOf(d)
BY DEF ConfOf, RulesOf, CachesOf, Taken

\* The same rules and lock file cover the same descriptors.
LEMMA SameOwned ==
  ASSUME NEW c, NEW d, NEW t, Covers(c, t), d.rules = c.rules, d.rotater = c.rotater
  PROVE  Covers(d, t)
BY DEF Covers, Owned

\* What zlog_spec_new takes is not in use.
LEMMA FreshCaches ==
  ASSUME NEW n \in Nat, NEW times \in Nat
  PROVE  /\ zlog_spec_new(n, times).next = n + times
         /\ zlog_spec_new(n, times).slots \in SUBSET Nat
         /\ \A s \in zlog_spec_new(n, times).slots : s < n + times /\ n <= s
         /\ \A S : (\A s \in S : s \in Nat /\ s < n) =>
               zlog_spec_new(n, times).slots \cap S = {} /\ S \cap zlog_spec_new(n, times).slots = {}
BY DEF zlog_spec_new

\* Time caches are numbers.
LEMMA SlotTypes ==
  ASSUME NEW c, ConfType(c)
  PROVE  /\ c.default_format.slots \in SUBSET Nat
         /\ \A i \in 1..Len(c.formats) : c.formats[i].slots \in SUBSET Nat
         /\ \A i \in 1..Len(c.rules) : c.rules[i].slots \in SUBSET Nat
<1>1. (\A f \in Format : f.slots \in SUBSET Nat) /\ (\A r \in Rule : r.slots \in SUBSET Nat)
  BY DEF Format, Rule
<1>2. c.default_format \in Format /\ c.formats \in Seq(Format) /\ c.rules \in Seq(Rule)
  BY DEF ConfType
<1> QED  BY <1>1, <1>2

\* The counter of the time caches moves on, also when the line fails later.
LEMMA MoreCaches ==
  ASSUME NEW c, ConfOf(c), NEW n \in Nat, c.time_cache_count <= n
  PROVE  LET d == [c EXCEPT !.time_cache_count = n]
         IN  /\ ConfOf(d) /\ d.time_cache_count = n /\ d.formats = c.formats /\ d.rules = c.rules
             /\ d.rotater = c.rotater /\ d.default_format = c.default_format /\ d.strict = c.strict
             /\ d.levels = c.levels /\ d.fsync_period = c.fsync_period
<1> DEFINE d == [c EXCEPT !.time_cache_count = n]
<1>1. ConfType(c)
  BY DEF ConfOf
<1>2. /\ d.time_cache_count = n /\ d.formats = c.formats /\ d.rules = c.rules
      /\ d.rotater = c.rotater /\ d.default_format = c.default_format /\ d.strict = c.strict
      /\ d.levels = c.levels /\ d.fsync_period = c.fsync_period
  BY <1>1 DEF ConfType
<1>3. ConfType(d)
  BY <1>1 DEF ConfType
<1>4. c.time_cache_count \in Nat
  BY <1>1 DEF ConfType
<1> HIDE DEF d
<1>5. \A S \in SUBSET Nat : Taken(S, c) => Taken(S, d)
  BY <1>2, <1>4 DEF Taken
<1>6. /\ c.default_format.slots \in SUBSET Nat
      /\ \A i \in 1..Len(c.formats) : c.formats[i].slots \in SUBSET Nat
      /\ \A i \in 1..Len(c.rules) : c.rules[i].slots \in SUBSET Nat
  BY <1>1, SlotTypes
<1>7. CachesOf(d)
  BY <1>2, <1>5, <1>6 DEF ConfOf, CachesOf
<1>8. LevelsOf(d.levels) /\ RulesOf(d)
  BY <1>2 DEF ConfOf, RulesOf
<1> QED  BY <1>2, <1>3, <1>7, <1>8 DEF ConfOf, d

\* Every time cache in use is below n.
Below(c, n) ==
    /\ Taken(c.default_format.slots, [time_cache_count |-> n])
    /\ \A i \in 1..Len(c.formats) : Taken(c.formats[i].slots, [time_cache_count |-> n])
    /\ \A i \in 1..Len(c.rules) : Taken(c.rules[i].slots, [time_cache_count |-> n])

\* A format with fresh time caches is added.
LEMMA AddFormat ==
  ASSUME NEW c, ConfOf(c), NEW d, NEW n \in Nat, n <= c.time_cache_count,
         NEW f \in Format, \A s \in f.slots : n <= s /\ s < c.time_cache_count,
         Below(c, n),
         d = [c EXCEPT !.formats = Append(@, f)]
  PROVE  ConfOf(d) /\ d.rules = c.rules /\ d.rotater = c.rotater
<1>1. ConfType(c) /\ c.formats \in Seq(Format) /\ c.rules \in Seq(Rule) /\ c.time_cache_count \in Nat
  BY DEF ConfOf, ConfType
<1>2. PICK F \in Seq(Format) : F = c.formats
  BY <1>1
<1>3. PICK A \in Seq(Format) : A = Append(F, f)
  <2>1. Append(F, f) \in Seq(Format)
    OBVIOUS
  <2> QED  BY <2>1
<1>4. /\ d.formats = A /\ d.rules = c.rules /\ d.rotater = c.rotater /\ d.levels = c.levels
      /\ d.default_format = c.default_format /\ d.time_cache_count = c.time_cache_count
  BY <1>1, <1>2, <1>3 DEF ConfType
<1>5. ConfType(d)
  BY <1>1, <1>2, <1>3 DEF ConfType
<1>6. /\ Len(A) = Len(F) + 1 /\ Len(F) \in Nat /\ A[Len(F) + 1] = f
      /\ \A i \in 1..Len(F) : A[i] = F[i]
  BY <1>3
<1>7. /\ c.default_format.slots \in SUBSET Nat /\ f.slots \in SUBSET Nat
      /\ \A i \in 1..Len(F) : F[i].slots \in SUBSET Nat
      /\ \A i \in 1..Len(c.rules) : c.rules[i].slots \in SUBSET Nat
  <2>1. f.slots \in SUBSET Nat
    BY DEF Format
  <2> QED  BY <1>1, <1>2, <2>1, SlotTypes
<1>8. \A S \in SUBSET Nat : Taken(S, [time_cache_count |-> n]) => f.slots \cap S = {} /\ S \cap f.slots = {}
  BY <1>7 DEF Taken
<1>9. /\ f.slots \cap c.default_format.slots = {} /\ Taken(f.slots, d)
      /\ \A i \in 1..Len(F) : f.slots \cap F[i].slots = {} /\ F[i].slots \cap f.slots = {}
      /\ \A i \in 1..Len(c.rules) : f.slots \cap c.rules[i].slots = {}
  BY <1>2, <1>4, <1>7, <1>8, ZenonT(60) DEF Taken, Below
<1>10. /\ Taken(c.default_format.slots, d)
       /\ \A i \in 1..Len(F) :
             /\ Taken(F[i].slots, d) /\ F[i].slots \cap c.default_format.slots = {}
             /\ \A j \in 1..Len(F) : i # j => F[i].slots \cap F[j].slots = {}
             /\ \A j \in 1..Len(c.rules) : F[i].slots \cap c.rules[j].slots = {}
       /\ \A i \in 1..Len(c.rules) :
             /\ Taken(c.rules[i].slots, d) /\ c.rules[i].slots \cap c.default_format.slots = {}
             /\ \A j \in 1..Len(c.rules) : i # j => c.rules[i].slots \cap c.rules[j].slots = {}
  BY <1>2, <1>4 DEF ConfOf, CachesOf, Taken
<1>11. ASSUME NEW i \in 1..Len(A)
       PROVE  /\ Taken(A[i].slots, d) /\ A[i].slots \cap c.default_format.slots = {}
              /\ \A j \in 1..Len(A) : i # j => A[i].slots \cap A[j].slots = {}
              /\ \A j \in 1..Len(c.rules) : A[i].slots \cap c.rules[j].slots = {}
  <2>1. \A j \in 1..Len(A) : (j \in 1..Len(F) /\ A[j] = F[j]) \/ (j = Len(F) + 1 /\ A[j] = f)
    BY <1>6
  <2>2. CASE i \in 1..Len(F) /\ A[i] = F[i]
    BY <1>9, <1>10, <2>1, <2>2
  <2>3. CASE i = Len(F) + 1 /\ A[i] = f
    BY <1>9, <2>1, <2>3
  <2> QED  BY <2>1, <2>2, <2>3
<1>12. CachesOf(d)
  <2>1. \A i \in 1..Len(d.rules) :
           /\ Taken(d.rules[i].slots, d) /\ d.rules[i].slots \cap d.default_format.slots = {}
           /\ \A j \in 1..Len(d.rules) : i # j => d.rules[i].slots \cap d.rules[j].slots = {}
    BY <1>4, <1>10
  <2>2. \A i \in 1..Len(d.formats) :
           /\ Taken(d.formats[i].slots, d) /\ d.formats[i].slots \cap d.default_format.slots = {}
           /\ \A j \in 1..Len(d.formats) : i # j => d.formats[i].slots \cap d.formats[j].slots = {}
           /\ \A j \in 1..Len(d.rules) : d.formats[i].slots \cap d.rules[j].slots = {}
    BY <1>4, <1>11, ZenonT(60)
  <2>3. Taken(d.default_format.slots, d)
    BY <1>4, <1>10
  <2> QED  BY <2>1, <2>2, <2>3 DEF CachesOf
<1>13. LevelsOf(d.levels) /\ RulesOf(d)
  BY <1>4 DEF ConfOf, RulesOf
<1> QED  BY <1>4, <1>5, <1>12, <1>13 DEF ConfOf

\* A rule with fresh time caches is added.
LEMMA AddRule ==
  ASSUME NEW c, ConfOf(c), NEW d, NEW n \in Nat, n <= c.time_cache_count,
         NEW r \in Rule, \A s \in r.slots : n <= s /\ s < c.time_cache_count,
         BitmapOf(r), Below(c, n),
         d = [c EXCEPT !.rules = Append(@, r)]
  PROVE  /\ ConfOf(d) /\ d.rotater = c.rotater
         /\ r.static_fd \in Owned(d) /\ r.pipe_fp \in Owned(d)
         /\ \A x \in Owned(c) : x \in Owned(d)
<1>1. ConfType(c) /\ c.formats \in Seq(Format) /\ c.rules \in Seq(Rule) /\ c.time_cache_count \in Nat
  BY DEF ConfOf, ConfType
<1>2. PICK F \in Seq(Rule) : F = c.rules
  BY <1>1
<1>3. PICK A \in Seq(Rule) : A = Append(F, r)
  <2>1. Append(F, r) \in Seq(Rule)
    OBVIOUS
  <2> QED  BY <2>1
<1>4. /\ d.rules = A /\ d.formats = c.formats /\ d.rotater = c.rotater /\ d.levels = c.levels
      /\ d.default_format = c.default_format /\ d.time_cache_count = c.time_cache_count
  BY <1>1, <1>2, <1>3 DEF ConfType
<1>5. ConfType(d)
  BY <1>1, <1>2, <1>3 DEF ConfType
<1>6. /\ Len(A) = Len(F) + 1 /\ Len(F) \in Nat /\ A[Len(F) + 1] = r
      /\ \A i \in 1..Len(F) : A[i] = F[i]
  BY <1>3
<1>7. /\ c.default_format.slots \in SUBSET Nat /\ r.slots \in SUBSET Nat
      /\ \A i \in 1..Len(c.formats) : c.formats[i].slots \in SUBSET Nat
      /\ \A i \in 1..Len(F) : F[i].slots \in SUBSET Nat
  <2>1. r.slots \in SUBSET Nat
    BY DEF Rule
  <2> QED  BY <1>1, <1>2, <2>1, SlotTypes
<1>8. \A S \in SUBSET Nat : Taken(S, [time_cache_count |-> n]) => r.slots \cap S = {} /\ S \cap r.slots = {}
  BY <1>7 DEF Taken
<1>9. /\ r.slots \cap c.default_format.slots = {} /\ Taken(r.slots, d)
      /\ \A i \in 1..Len(F) : r.slots \cap F[i].slots = {} /\ F[i].slots \cap r.slots = {}
      /\ \A i \in 1..Len(c.formats) : c.formats[i].slots \cap r.slots = {}
  BY <1>2, <1>4, <1>7, <1>8, SMTT(30) DEF Taken, Below
<1>10. /\ Taken(c.default_format.slots, d)
       /\ \A i \in 1..Len(c.formats) :
             /\ Taken(c.formats[i].slots, d) /\ c.formats[i].slots \cap c.default_format.slots = {}
             /\ \A j \in 1..Len(c.formats) : i # j => c.formats[i].slots \cap c.formats[j].slots = {}
             /\ \A j \in 1..Len(F) : c.formats[i].slots \cap F[j].slots = {}
       /\ \A i \in 1..Len(F) :
             /\ Taken(F[i].slots, d) /\ F[i].slots \cap c.default_format.slots = {}
             /\ \A j \in 1..Len(F) : i # j => F[i].slots \cap F[j].slots = {}
  BY <1>2, <1>4 DEF ConfOf, CachesOf, Taken
<1>11. \A j \in 1..Len(A) : (j \in 1..Len(F) /\ A[j] = F[j]) \/ (j = Len(F) + 1 /\ A[j] = r)
  BY <1>6
<1>12. ASSUME NEW i \in 1..Len(A)
       PROVE  /\ Taken(A[i].slots, d) /\ A[i].slots \cap c.default_format.slots = {}
              /\ \A j \in 1..Len(A) : i # j => A[i].slots \cap A[j].slots = {}
              /\ \A j \in 1..Len(c.formats) : c.formats[j].slots \cap A[i].slots = {}
  <2>2. CASE i \in 1..Len(F) /\ A[i] = F[i]
    BY <1>9, <1>10, <1>11, <2>2
  <2>3. CASE i = Len(F) + 1 /\ A[i] = r
    BY <1>9, <1>11, <2>3
  <2> QED  BY <1>11, <2>2, <2>3
<1>13. CachesOf(d)
  <2>1. \A i \in 1..Len(d.rules) :
           /\ Taken(d.rules[i].slots, d) /\ d.rules[i].slots \cap d.default_format.slots = {}
           /\ \A j \in 1..Len(d.rules) : i # j => d.rules[i].slots \cap d.rules[j].slots = {}
    BY <1>4, <1>12, ZenonT(60)
  <2>2. \A i \in 1..Len(d.formats) :
           /\ Taken(d.formats[i].slots, d) /\ d.formats[i].slots \cap d.default_format.slots = {}
           /\ \A j \in 1..Len(d.formats) : i # j => d.formats[i].slots \cap d.formats[j].slots = {}
           /\ \A j \in 1..Len(d.rules) : d.formats[i].slots \cap d.rules[j].slots = {}
    <3>1. d.formats = c.formats /\ d.default_format = c.default_format /\ d.rules = A
      BY <1>4
    <3>2. \A i \in 1..Len(c.formats), j \in 1..Len(A) : c.formats[i].slots \cap A[j].slots = {}
      BY <1>12
    <3> QED  BY <1>10, <3>1, <3>2, ZenonT(60)
  <2>3. Taken(d.default_format.slots, d)
    BY <1>4, <1>10
  <2> QED  BY <2>1, <2>2, <2>3 DEF CachesOf
<1>14. LevelsOf(d.levels) /\ RulesOf(d)
  BY <1>2, <1>4, <1>11 DEF ConfOf, RulesOf
<1>15. \A x \in Owned(c) \cup {r.static_fd, r.pipe_fp} : x \in Owned(d)
  <2>1. 1..Len(F) \subseteq 1..Len(A) /\ Len(F) + 1 \in 1..Len(A)
    BY <1>6
  <2>2. Owned(d) = {c.rotater} \cup {A[i].static_fd : i \in 1..Len(A)} \cup {A[i].pipe_fp : i \in 1..Len(A)}
    BY <1>4 DEF Owned
  <2>3. Owned(c) = {c.rotater} \cup {F[i].static_fd : i \in 1..Len(F)} \cup {F[i].pipe_fp : i \in 1..Len(F)}
    BY <1>2 DEF Owned
  <2> QED  BY <1>6, <2>1, <2>2, <2>3
<1> QED  BY <1>4, <1>5, <1>13, <1>14, <1>15 DEF ConfOf

-------------------------------------------------------------------------------
(* zlog_rule_new.                                                          *)

\* A bitmap is 32 bytes.
LEMMA BitmapType ==
  ASSUME NEW cmp \in {"*", ".", "=", "!"}, NEW l
  PROVE  level_bitmap(cmp, l) \in [0..31 -> SUBSET Byte]
<1>1. ASSUME NEW i \in 0..31 PROVE level_bitmap(cmp, l)[i] \in SUBSET Byte
  BY DEF level_bitmap
<1> QED  BY <1>1 DEF level_bitmap

\* The format of a rule is one of the configuration's.
LEMMA FormatType ==
  ASSUME NEW c, ConfType(c), NEW name
  PROVE  FormatNamed(c, name) \subseteq Format
<1>1. c.default_format \in Format /\ c.formats \in Seq(Format)
  BY DEF ConfType
<1>2. \A j \in 1..Len(c.formats) : c.formats[j] \in Format
  BY <1>1
<1> QED  BY <1>1, <1>2 DEF FormatNamed

\* What the table becomes: nothing changes, syslog is connected, or the file or the
\* pipe takes a free entry, which is not 0.
Opened(t, u, m) ==
    /\ u \in [Fds -> Kind]
    /\ \A n \in Fds :
          \/ u[n] = t[n]
          \/ t[n] = "closed" /\ n # 0 /\ (u[n] = "syslog" \/ (u[n] \in {"file", "pipe"} /\ n = m))

\* One open of a table in which 0 is not free.
LEMMA OpenOne ==
  ASSUME NEW t \in [Fds -> Kind], t[0] # "closed", HasFree(t), NEW k \in {"file", "pipe", "syslog"}
  PROVE  Opened(t, OpenFd(t, k), LowestFree(t)) /\ LowestFree(t) \in 1..MaxFd
<1>1. k \in Kind
  BY DEF Kind, OwnKind
<1>2. LowestFree(t) \in Fds /\ t[LowestFree(t)] = "closed" /\ LowestFree(t) # 0
  BY FreeFacts
<1>3. /\ OpenFd(t, k) \in [Fds -> Kind] /\ OpenFd(t, k)[LowestFree(t)] = k
      /\ \A n \in Fds : n # LowestFree(t) => OpenFd(t, k)[n] = t[n]
  BY <1>1, OpenFacts
<1>4. LowestFree(t) \in 1..MaxFd
  BY <1>2, ConfAssumption DEF Fds
<1> QED  BY <1>2, <1>3, <1>4 DEF Opened

\* openlog connects at most once.
LEMMA OpenlogFacts ==
  ASSUME NEW t \in [Fds -> Kind], t[0] # "closed", NEW m
  PROVE  Opened(t, openlog(t), m)
<1>1. CASE openlog(t) = t
  BY <1>1 DEF Opened
<1>2. CASE openlog(t) # t
  <2>1. HasFree(t) /\ openlog(t) = OpenFd(t, "syslog")
    BY <1>2 DEF openlog
  <2>2. OpenFd(t, "syslog") \in [Fds -> Kind] /\ OpenFd(t, "syslog")[LowestFree(t)] = "syslog"
        /\ \A n \in Fds : n # LowestFree(t) => OpenFd(t, "syslog")[n] = t[n]
    BY <2>1, OpenFacts DEF Kind
  <2>3. LowestFree(t) \in Fds /\ t[LowestFree(t)] = "closed" /\ LowestFree(t) # 0
    BY <2>1, FreeFacts
  <2> QED  BY <2>1, <2>2, <2>3 DEF Opened
<1> QED  BY <1>1, <1>2

\* A rule line that fails changes only the counter of time caches.  One that is taken
\* makes a rule that knows the descriptor it opened.
LEMMA RuleNew ==
  ASSUME NEW t \in [Fds -> Kind], t[0] # "closed", NEW c, ConfOf(c),
         NEW line \in Line, NEW opens \in BOOLEAN, NEW res, res = zlog_rule_new(c, t, line, opens)
  PROVE  /\ res.count \in Nat /\ c.time_cache_count <= res.count
         /\ ~res.ok => res.table = t
         /\ res.ok => /\ res.rule \in Rule /\ BitmapOf(res.rule)
                      /\ \A s \in res.rule.slots : c.time_cache_count <= s /\ s < res.count
                      /\ \E m \in {res.rule.static_fd, res.rule.pipe_fp} : Opened(t, res.table, m)
<1> DEFINE n == c.time_cache_count
<1>1. ConfType(c) /\ n \in Nat
  BY DEF ConfOf, ConfType
<1>2. CASE ~(line.k = "rule" /\ FormatNamed(c, line.format) # {})
  <2>1. res = [ok |-> FALSE, table |-> t, count |-> c.time_cache_count, rule |-> NULLConf]
    BY <1>2 DEF zlog_rule_new
  <2> QED  BY <1>1, <2>1
<1>3. CASE line.k = "rule" /\ FormatNamed(c, line.format) # {}
  <2>1. line \in RuleLine
    BY <1>3 DEF Line, SectionLine, OptionLine, LevelLine, FormatLine, RuleLine
  <2>2. /\ line.cat \in Seq(Text) \ {<<>>} /\ line.cmp \in {"*", ".", "=", "!"}
        /\ line.out \in {"file", "pipe", "syslog", "record", "stdout", "stderr"}
        /\ line.dynamic \in BOOLEAN /\ line.limit \in BOOLEAN /\ line.sync \in BOOLEAN
        /\ line.times \in Nat /\ line.ok \in BOOLEAN
    BY <2>1 DEF RuleLine
  <2>3. PICK specs : specs = zlog_spec_new(n, line.times)
    OBVIOUS
  <2>4. /\ specs.next = n + line.times /\ specs.next \in Nat /\ n <= specs.next
        /\ specs.slots \in SUBSET Nat
        /\ \A s \in specs.slots : n <= s /\ s < specs.next
    <3>1. line.times \in Nat /\ n \in Nat
      BY <1>1, <2>2
    <3> HIDE DEF n
    <3>2. /\ specs.next = n + line.times /\ specs.slots \in SUBSET Nat
          /\ \A s \in specs.slots : s < n + line.times /\ n <= s
      BY <2>3, <3>1, FreshCaches
    <3> QED  BY <3>1, <3>2
  <2> DEFINE static == line.out = "file" /\ ~line.dynamic
             opened == static \/ line.out = "pipe"
  <2>5. CASE ~line.ok \/ (opened /\ ~(opens /\ HasFree(t)))
    <3>1. res = [ok |-> FALSE, table |-> t, count |-> specs.next, rule |-> NULLConf]
      BY <1>3, <2>3, <2>5 DEF zlog_rule_new
    <3> QED  BY <2>4, <3>1
  <2>6. CASE ~(~line.ok \/ (opened /\ ~(opens /\ HasFree(t))))
    <3>1. PICK level : level = zlog_level_list_atoi(c.levels, line.level)
      OBVIOUS
    <3>2. PICK format : format = CHOOSE f \in FormatNamed(c, line.format) : TRUE
      OBVIOUS
    <3>3. PICK u : u = CASE line.out = "syslog" -> openlog(t)
                         [] opened -> OpenFd(t, line.out)
                         [] OTHER -> t
      OBVIOUS
    <3>4. PICK sfd : sfd = IF static THEN LowestFree(t) ELSE 0
      OBVIOUS
    <3>5. PICK pfp : pfp = IF line.out = "pipe" THEN LowestFree(t) ELSE NoFd
      OBVIOUS
    <3>6. PICK fsync : fsync = IF line.sync THEN 0 ELSE c.fsync_period
      OBVIOUS
    <3>7. PICK rule : rule = [category |-> line.cat, compare_char |-> line.cmp, level |-> level,
                        level_bitmap |-> level_bitmap(line.cmp, level), format |-> format,
                        output |-> OutputOf(line), slots |-> specs.slots, fsync_period |-> fsync,
                        static_fd |-> sfd, pipe_fp |-> pfp]
      OBVIOUS
    <3>8. res = [ok |-> TRUE, table |-> u, count |-> specs.next, rule |-> rule]
      BY <1>3, <2>3, <2>6, <3>1, <3>2, <3>3, <3>4, <3>5, <3>6, <3>7 DEF zlog_rule_new
    <3>9. opened => HasFree(t)
      BY <2>6
    <3>10. sfd \in Fds /\ pfp \in 1..MaxFd \cup {NoFd}
      <4>1. opened => LowestFree(t) \in 1..MaxFd
        BY <3>9, OpenOne
      <4> QED  BY <3>4, <3>5, <4>1, ConfAssumption DEF Fds
    <3>11. \E m \in {sfd, pfp} : Opened(t, u, m)
      <4>1. CASE line.out = "syslog"
        BY <3>3, <4>1, OpenlogFacts
      <4>2. CASE opened
        <5>1. u = OpenFd(t, line.out) /\ LowestFree(t) \in {sfd, pfp} /\ line.out \in {"file", "pipe", "syslog"}
          BY <3>3, <3>4, <3>5, <4>2
        <5> QED  BY <3>9, <4>2, <5>1, OpenOne
      <4>3. CASE line.out # "syslog" /\ ~opened
        <5>1. u = t
          BY <3>3, <4>3
        <5> QED  BY <5>1 DEF Opened
      <4> QED  BY <4>1, <4>2, <4>3
    <3>12. level \in -1..255
      BY <3>1, LevelNumber DEF ConfOf
    <3>13. format \in Format
      BY <1>1, <1>3, <3>2, FormatType
    <3>14. fsync \in Int
      BY <1>1, <3>6 DEF ConfType
    <3>15. OutputOf(line) \in Output
      BY <2>2 DEF OutputOf, Output
    <3>16. level_bitmap(line.cmp, level) \in [0..31 -> SUBSET Byte]
      BY <2>2, BitmapType
    <3>17. rule \in Rule
      BY <2>2, <2>4, <3>7, <3>10, <3>12, <3>13, <3>14, <3>15, <3>16 DEF Rule
    <3>18. /\ rule.slots = specs.slots /\ rule.static_fd = sfd /\ rule.pipe_fp = pfp
           /\ BitmapOf(rule)
      BY <3>7 DEF BitmapOf
    <3> QED  BY <2>4, <3>8, <3>11, <3>17, <3>18
  <2> QED  BY <2>5, <2>6
<1> QED  BY <1>2, <1>3

-------------------------------------------------------------------------------
(* What an action comes to: the configuration is released, or reading      *)
(* goes on.                                                                *)

\* A configuration that covers the table is released.
LEMMA ReleasedKeeps ==
  ASSUME ConfInv, NEW t \in [Fds -> Kind], NEW c, ConfType(c), Covers(c, t),
         t[0] \in {"console", "closed"}, \A n \in Fds : t[n] # "conf",
         ~daemon => t[0] = "console", Released(t, c)
  PROVE  ConfInv'
<1>1. Idle(zlog_conf_del(t, c)) /\ zlog_conf_del(t, c)[0] = t[0]
  BY ConfDelFacts
<1>2. /\ fds' = zlog_conf_del(t, c) /\ status' = "idle" /\ section' = 0 /\ nlines' = 0
      /\ cats' = <<>> /\ daemon' = daemon
  BY DEF Released, NoCategories
<1>3. Idle(fds)' /\ fds'[0] = t[0]
  BY <1>1, <1>2 DEF Idle
<1>4. DOMAIN cats' = {}
  BY <1>2
<1>5. daemon' \in BOOLEAN
  BY <1>2 DEF ConfInv
<1> QED  BY <1>2, <1>3, <1>4, <1>5 DEF ConfInv

\* A line fails: the file is closed and what was read so far released.
LEMMA FailKeeps ==
  ASSUME ConfInv, NEW t, NEW c, Reading(t, fp, c), ~daemon => t[0] = "console", Fail(t, c)
  PROVE  ConfInv'
<1>1. PICK u : u = CloseFd(t, fp)
  OBVIOUS
<1>2. t \in [Fds -> Kind] /\ fp \in Fds
  BY DEF Reading
<1>3. u \in [Fds -> Kind] /\ u[fp] = "closed" /\ \A m \in Fds : m # fp => u[m] = t[m]
  BY <1>1, <1>2, CloseFacts
<1>4. 0 \in Fds
  BY ConfAssumption DEF Fds
<1>5. /\ \A n \in Fds : u[n] # "conf"
      /\ u[0] \in {"console", "closed"} /\ (~daemon => u[0] = "console")
  BY <1>2, <1>3, <1>4 DEF Reading
<1>6. Covers(c, u)
  BY <1>2, <1>3 DEF Reading, Covers, OwnKind
<1>7. ConfType(c)
  BY DEF Reading, ConfOf
<1>8. Released(u, c)
  BY <1>1 DEF Fail
<1> QED  BY <1>3, <1>5, <1>6, <1>7, <1>8, ReleasedKeeps

\* Reading goes on with a configuration that is in order.
LEMMA GoesOnKeeps ==
  ASSUME ConfInv, status = "reading", NEW t, NEW c, Reading(t, fp, c), ~daemon => t[0] = "console",
         section < 4 => c.rotater = NoFd, GoesOn(t, c)
  PROVE  ConfInv'
<1>1. /\ fds' = t /\ conf' = c /\ nlines' = nlines + 1 /\ daemon' = daemon /\ status' = status
      /\ fp' = fp /\ section' = section /\ cats' = cats
  BY DEF GoesOn
<1>2. Reading(fds', fp', conf') /\ (section' < 4 => conf'.rotater = NoFd)
  BY <1>1
<1>3. /\ daemon' \in BOOLEAN /\ (~daemon' => fds'[0] = "console") /\ status' = "reading"
      /\ section' \in 0..4 /\ nlines' \in Nat /\ DOMAIN cats' = {}
  BY <1>1 DEF ConfInv
<1> QED  BY <1>2, <1>3 DEF ConfInv

\* A line that was not understood.
LEMMA IgnoredKeeps ==
  ASSUME ConfInv, status = "reading", NEW t, NEW c, Reading(t, fp, c), ~daemon => t[0] = "console",
         section < 4 => c.rotater = NoFd, Ignored(t, c)
  PROVE  ConfInv'
BY FailKeeps, GoesOnKeeps DEF Ignored

\* What the reading of a line starts from.
LEMMA ReadsFacts ==
  ASSUME ConfInv, NEW line, Reads(line)
  PROVE  /\ status = "reading" /\ Reading(fds, fp, conf) /\ (section < 4 => conf.rotater = NoFd)
         /\ (~daemon => fds[0] = "console") /\ line \in Line /\ ConfType(conf) /\ nlines \in Nat
         /\ daemon \in BOOLEAN /\ section \in 0..4 /\ DOMAIN cats = {}
<1>1. status = "reading" /\ line \in Line
  BY ConfAssumption DEF Reads
<1> QED  BY <1>1 DEF ConfInv, Reading, ConfOf

-------------------------------------------------------------------------------
(* The steps.                                                              *)

\* The configuration that zlog_conf_new starts with.
LEMMA DefaultsFacts ==
  /\ ConfOf(ConfDefaults) /\ ConfDefaults.rules = <<>> /\ ConfDefaults.rotater = NoFd
  /\ ConfDefaults.formats = <<>> /\ ConfDefaults.time_cache_count = 0
  /\ ConfDefaults.levels = zlog_level_list_new /\ ConfDefaults.fsync_period = 0
<1>1. /\ ConfDefaults.rules = <<>> /\ ConfDefaults.formats = <<>> /\ ConfDefaults.rotater = NoFd
      /\ ConfDefaults.levels = zlog_level_list_new /\ ConfDefaults.default_format = NoFormat
      /\ ConfDefaults.time_cache_count = 0 /\ ConfDefaults.fsync_period = 0
  BY DEF ConfDefaults
<1>2. NoFormat \in Format /\ NoFormat.slots = {}
  BY DEF NoFormat, Format, Text
<1>3. <<>> \in Seq(Rule) /\ <<>> \in Seq(Format) /\ Len(<<>>) = 0
  OBVIOUS
<1>4. ConfType(ConfDefaults)
  BY <1>2, <1>3 DEF ConfType, ConfDefaults
<1>5. RulesOf(ConfDefaults) /\ CachesOf(ConfDefaults)
  BY <1>1, <1>2, <1>3 DEF RulesOf, CachesOf, Taken
<1> QED  BY <1>1, <1>4, <1>5, DefaultLevels DEF ConfOf

\* The initial state.
LEMMA ConfInvInit == ConfInit => ConfInv
<1> SUFFICES ASSUME ConfInit PROVE ConfInv
  OBVIOUS
<1>1. fds = [n \in Fds |-> IF ~daemon /\ n <= 2 THEN "console" ELSE "closed"] /\ 0 \in Fds
  BY ConfAssumption DEF ConfInit, NewTable, Fds
<1>2. fds \in [Fds -> {"closed", "console", "syslog"}]
  BY <1>1
<1>3. fds[0] = IF ~daemon THEN "console" ELSE "closed"
  BY <1>1
<1>4. DOMAIN cats = {}
  BY DEF ConfInit, NoCategories
<1> QED  BY <1>2, <1>3, <1>4 DEF ConfInit, ConfInv, Idle

\* zlog_conf_new opens the file, at 0 if 0 is free.
LEMMA StepConfNew ==
  ASSUME ConfInv, conf_new
  PROVE  ConfInv'
<1>1. status = "idle" /\ HasFree(fds) /\ Idle(fds) /\ section = 0 /\ DOMAIN cats = {}
  BY DEF conf_new, ConfInv
<1>2. fds \in [Fds -> Kind] /\ 0 \in Fds
  BY <1>1, ConfAssumption DEF Idle, Kind, Fds
<1>3. /\ fds' = OpenFd(fds, "conf") /\ fp' = LowestFree(fds) /\ conf' = ConfDefaults
      /\ status' = "reading" /\ daemon' = daemon /\ section' = section /\ nlines' = nlines /\ cats' = cats
  BY DEF conf_new
<1>4. fp' \in Fds /\ fds[fp'] = "closed" /\ (fds[0] = "closed" => fp' = 0)
  BY <1>1, <1>2, <1>3, FreeFacts
<1>5. fds' \in [Fds -> Kind] /\ fds'[fp'] = "conf" /\ \A n \in Fds : n # fp' => fds'[n] = fds[n]
  BY <1>1, <1>2, <1>3, OpenFacts DEF Kind
<1>6. \A n \in Fds : fds[n] \in {"closed", "console", "syslog"}
  BY <1>1 DEF Idle
<1>7. fds'[0] \in {"console", "conf"} /\ (~daemon => fds'[0] = "console")
  BY <1>1, <1>2, <1>4, <1>5 DEF ConfInv, Idle
<1>8. Covers(conf', fds')
  BY <1>5, <1>6 DEF Covers, OwnKind
<1>9. \A n \in Fds : fds'[n] = "conf" <=> n = fp'
  BY <1>5, <1>6
<1>10. Reading(fds', fp', conf') /\ conf'.rotater = NoFd
  BY <1>3, <1>4, <1>5, <1>7, <1>8, <1>9, DefaultsFacts DEF Reading
<1> QED  BY <1>1, <1>3, <1>7, <1>10 DEF ConfInv

\* The end of the file.
LEMMA StepEndOfFile ==
  ASSUME ConfInv, EndOfFile
  PROVE  ConfInv'
<1>1. status = "reading" /\ Reading(fds, fp, conf) /\ DOMAIN cats = {} /\ (~daemon => fds[0] = "console")
  BY DEF EndOfFile, ConfInv
<1>2. /\ fds' = CloseFd(fds, fp) /\ status' = "built" /\ conf' = conf /\ daemon' = daemon
      /\ section' = section /\ nlines' = nlines /\ cats' = cats
  BY DEF EndOfFile
<1>3. fds \in [Fds -> Kind] /\ fp \in Fds /\ 0 \in Fds
  BY <1>1, ConfAssumption DEF Reading, Fds
<1>4. fds' \in [Fds -> Kind] /\ fds'[fp] = "closed" /\ \A m \in Fds : m # fp => fds'[m] = fds[m]
  BY <1>2, <1>3, CloseFacts
<1>5. /\ \A n \in Fds : fds'[n] # "conf"
      /\ fds'[0] \in {"console", "closed"} /\ (~daemon => fds'[0] = "console")
  BY <1>1, <1>3, <1>4 DEF Reading
<1>6. Covers(conf', fds')
  BY <1>1, <1>2, <1>3, <1>4 DEF Reading, Covers, OwnKind
<1>7. Built(fds', conf')
  BY <1>1, <1>2, <1>4, <1>5, <1>6 DEF Built, Reading
<1>8. CategoriesOf(conf)'
  BY <1>1, <1>2 DEF CategoriesOf
<1> QED  BY <1>2, <1>5, <1>7, <1>8 DEF ConfInv

\* zlog_fini or the end of a reload.
LEMMA StepRelease ==
  ASSUME ConfInv, ReleaseConf
  PROVE  ConfInv'
<1>1. Built(fds, conf) /\ (~daemon => fds[0] = "console") /\ Released(fds, conf)
  BY DEF ReleaseConf, ConfInv
<1> QED  BY <1>1, ReleasedKeeps DEF Built, ConfOf

\* A category gets its rules.
LEMMA StepCategory ==
  ASSUME ConfInv, NEW name \in CategoryNames, zlog_category_new(name)
  PROVE  ConfInv'
<1>1. status = "built" /\ Built(fds, conf) /\ CategoriesOf(conf) /\ name \in Seq(Text)
  BY ConfAssumption DEF zlog_category_new, ConfInv
<1>2. /\ fds' = fds /\ daemon' = daemon /\ status' = status /\ fp' = fp /\ conf' = conf
      /\ section' = section /\ nlines' = nlines
      /\ cats' = [n \in DOMAIN cats \cup {name} |->
                   IF n = name THEN ObtainedRules(conf.rules, name) ELSE cats[n]]
  BY DEF zlog_category_new
<1>3. CategoriesOf(conf)'
  BY <1>1, <1>2 DEF CategoriesOf
<1>4. Built(fds, conf)'
  BY <1>1, <1>2
<1> QED  BY <1>1, <1>2, <1>3, <1>4 DEF ConfInv

\* A line outside the sections.
LEMMA StepNotInSection ==
  ASSUME ConfInv, NEW line, NotInSection(line)
  PROVE  ConfInv'
BY ReadsFacts, FailKeeps DEF NotInSection

\* A line of [global].
LEMMA StepGlobal ==
  ASSUME ConfInv, NEW line, ParseGlobal(line)
  PROVE  ConfInv'
<1>1. Reads(line) /\ section = 1 /\ line.k # "section"
  BY DEF ParseGlobal
<1>2. /\ status = "reading" /\ Reading(fds, fp, conf) /\ conf.rotater = NoFd
      /\ (~daemon => fds[0] = "console") /\ line \in Line /\ ConfType(conf)
  BY <1>1, ReadsFacts
<1>3. CASE line.k = "option"
  <2>1. line \in OptionLine
    BY <1>2, <1>3 DEF Line, SectionLine, OptionLine, LevelLine, FormatLine, RuleLine
  <2>2. /\ line.value \in Int
        /\ line.name \in {"strict init", "reload conf period", "fsync period", "default format"}
    BY <2>1 DEF OptionLine
  <2>3. PICK d : /\ GoesOn(fds, d)
                 /\ d \in {[conf EXCEPT !.strict = line.value # 0], [conf EXCEPT !.reload = line.value],
                           [conf EXCEPT !.fsync_period = line.value],
                           [conf EXCEPT !.default_ok = line.value # 0]}
    <3>1. GoesOn(fds, CASE line.name = "strict init" -> [conf EXCEPT !.strict = line.value # 0]
                         [] line.name = "reload conf period" -> [conf EXCEPT !.reload = line.value]
                         [] line.name = "fsync period" -> [conf EXCEPT !.fsync_period = line.value]
                         [] line.name = "default format" -> [conf EXCEPT !.default_ok = line.value # 0])
      BY <1>3 DEF ParseGlobal
    <3>2. CASE line.name = "strict init"
      BY <3>1, <3>2
    <3>3. CASE line.name = "reload conf period"
      BY <3>1, <3>3
    <3>4. CASE line.name = "fsync period"
      BY <3>1, <3>4
    <3>5. CASE line.name = "default format"
      BY <3>1, <3>5
    <3> QED  BY <2>2, <3>2, <3>3, <3>4, <3>5
  <2>4. /\ ConfType(d) /\ d.levels = conf.levels /\ d.formats = conf.formats /\ d.rules = conf.rules
        /\ d.default_format = conf.default_format /\ d.time_cache_count = conf.time_cache_count
        /\ d.rotater = conf.rotater
    BY <1>2, <2>2, <2>3, ZenonT(60) DEF ConfType
  <2>5. ConfOf(d)
    BY <1>2, <2>4, SameParts DEF Reading
  <2>6. Covers(d, fds)
    BY <1>2, <2>4, SameOwned DEF Reading
  <2>7. Reading(fds, fp, d)
    BY <1>2, <2>5, <2>6 DEF Reading
  <2> QED  BY <1>2, <2>3, <2>4, <2>7, GoesOnKeeps
<1>4. CASE line.k # "option"
  <2>1. Ignored(fds, conf) \/ Fail(fds, conf)
    <3>1. line.k \in {"level", "format", "rule"}
      BY <1>1, <1>2, <1>4 DEF Line, SectionLine, OptionLine, LevelLine, FormatLine, RuleLine
    <3> QED  BY <1>4, <3>1 DEF ParseGlobal
  <2> QED  BY <1>2, <2>1, IgnoredKeeps, FailKeeps
<1> QED  BY <1>3, <1>4

\* A line of [levels].
LEMMA StepLevel ==
  ASSUME ConfInv, NEW line, ParseLevel(line)
  PROVE  ConfInv'
<1>1. Reads(line) /\ section = 2
  BY DEF ParseLevel
<1>2. /\ status = "reading" /\ Reading(fds, fp, conf) /\ conf.rotater = NoFd
      /\ (~daemon => fds[0] = "console") /\ line \in Line /\ ConfType(conf)
  BY <1>1, ReadsFacts
<1>3. CASE zlog_level_new(line)
  <2>1. PICK l : l = zlog_level_list_set(conf.levels, line.value, line.name)
    OBVIOUS
  <2>2. line.value \in 0..255
    BY <1>3 DEF zlog_level_new
  <2>3. LevelsOf(l)
    BY <1>2, <2>1, <2>2, SetLevel DEF Reading, ConfOf
  <2>4. PICK d : d = [conf EXCEPT !.levels = l]
    OBVIOUS
  <2>5. /\ d.levels = l /\ d.formats = conf.formats /\ d.rules = conf.rules /\ d.rotater = conf.rotater
        /\ d.default_format = conf.default_format /\ d.time_cache_count = conf.time_cache_count
    BY <1>2, <2>4 DEF ConfType
  <2>6. ConfType(d)
    BY <1>2, <2>4 DEF ConfType
  <2>7. ConfOf(d)
    BY <1>2, <2>3, <2>5, <2>6 DEF Reading, ConfOf, RulesOf, CachesOf, Taken
  <2>8. Covers(d, fds)
    BY <1>2, <2>5, SameOwned DEF Reading
  <2>9. Reading(fds, fp, d)
    BY <1>2, <2>7, <2>8 DEF Reading
  <2>10. GoesOn(fds, d)
    BY <1>3, <2>1, <2>4 DEF ParseLevel
  <2> QED  BY <1>2, <2>5, <2>9, <2>10, GoesOnKeeps
<1>4. CASE ~zlog_level_new(line)
  BY <1>2, <1>4, IgnoredKeeps DEF ParseLevel
<1> QED  BY <1>3, <1>4

\* A line of [formats].
LEMMA StepFormat ==
  ASSUME ConfInv, NEW line, ParseFormat(line)
  PROVE  ConfInv'
<1>1. Reads(line) /\ section = 3
  BY DEF ParseFormat
<1>2. /\ status = "reading" /\ Reading(fds, fp, conf) /\ conf.rotater = NoFd
      /\ (~daemon => fds[0] = "console") /\ line \in Line /\ ConfType(conf)
  BY <1>1, ReadsFacts
<1>3. ConfOf(conf) /\ Covers(conf, fds)
  BY <1>2 DEF Reading
<1>4. PICK n \in Nat : n = conf.time_cache_count
  BY <1>2 DEF ConfType
<1>5. PICK f : f = zlog_format_new(conf, line)
  OBVIOUS
<1>6. /\ f.count \in Nat /\ n <= f.count
      /\ f.ok => f.format \in Format /\ \A s \in f.format.slots : n <= s /\ s < f.count
  <2>1. CASE line.k = "format"
    <3>1. line \in FormatLine
      BY <1>2, <2>1 DEF Line, SectionLine, OptionLine, LevelLine, FormatLine, RuleLine
    <3>2. line.times \in Nat /\ line.name \in Text
      BY <3>1 DEF FormatLine
    <3>3. PICK specs : specs = zlog_spec_new(n, line.times)
      OBVIOUS
    <3>4. /\ specs.next = n + line.times /\ specs.slots \in SUBSET Nat
          /\ \A s \in specs.slots : s < n + line.times /\ n <= s
      BY <3>2, <3>3, FreshCaches
    <3>5. f = [ok |-> line.ok, format |-> [name |-> line.name, slots |-> specs.slots],
               count |-> specs.next]
      BY <1>4, <1>5, <2>1, <3>3 DEF zlog_format_new
    <3>6. f.format = [name |-> line.name, slots |-> specs.slots] /\ f.count = specs.next
      BY <3>5
    <3>7. f.format \in Format /\ f.format.slots = specs.slots
      BY <3>2, <3>4, <3>6 DEF Format
    <3> QED  BY <3>2, <3>4, <3>6, <3>7
  <2>2. CASE line.k # "format"
    <3>1. f = [ok |-> FALSE, format |-> NULLConf, count |-> n]
      BY <1>4, <1>5, <2>2 DEF zlog_format_new
    <3> QED  BY <3>1
  <2> QED  BY <2>1, <2>2
<1>7. PICK c : c = [conf EXCEPT !.time_cache_count = f.count]
  OBVIOUS
<1>8. /\ ConfOf(c) /\ c.time_cache_count = f.count /\ c.formats = conf.formats /\ c.rules = conf.rules
      /\ c.rotater = conf.rotater /\ c.default_format = conf.default_format
  BY <1>3, <1>4, <1>6, <1>7, MoreCaches
<1>9. CASE f.ok
  <2>1. PICK d : d = [c EXCEPT !.formats = Append(@, f.format)]
    OBVIOUS
  <2>2. Below(c, n)
    BY <1>3, <1>4, <1>8 DEF ConfOf, CachesOf, Taken, Below
  <2>3. ConfOf(d) /\ d.rules = c.rules /\ d.rotater = c.rotater
    <3>1. PICK g \in Format : g = f.format
      BY <1>6, <1>9
    <3>2. \A s \in g.slots : n <= s /\ s < c.time_cache_count
      BY <1>6, <1>8, <1>9, <3>1
    <3>3. n <= c.time_cache_count
      BY <1>6, <1>8
    <3>4. d = [c EXCEPT !.formats = Append(@, g)]
      BY <2>1, <3>1
    <3> QED  BY <1>8, <2>2, <3>2, <3>3, <3>4, AddFormat
  <2>4. Covers(d, fds)
    BY <1>3, <1>8, <2>3, SameOwned
  <2>5. Reading(fds, fp, d) /\ d.rotater = NoFd
    BY <1>2, <1>8, <2>3, <2>4 DEF Reading
  <2>6. GoesOn(fds, d)
    BY <1>5, <1>7, <1>9, <2>1 DEF ParseFormat
  <2> QED  BY <1>2, <2>5, <2>6, GoesOnKeeps
<1>10. CASE ~f.ok
  <2>1. Ignored(fds, c)
    BY <1>5, <1>7, <1>10 DEF ParseFormat
  <2>2. Covers(c, fds)
    BY <1>3, <1>8, SameOwned
  <2>3. Reading(fds, fp, c) /\ c.rotater = NoFd
    BY <1>2, <1>8, <2>2 DEF Reading
  <2> QED  BY <1>2, <2>1, <2>3, IgnoredKeeps
<1> QED  BY <1>9, <1>10

\* A line of [rules].
LEMMA StepRule ==
  ASSUME ConfInv, NEW line, NEW opens \in BOOLEAN, ParseRule(line, opens)
  PROVE  ConfInv'
<1>1. Reads(line) /\ section = 4
  BY DEF ParseRule
<1>2. /\ status = "reading" /\ Reading(fds, fp, conf)
      /\ (~daemon => fds[0] = "console") /\ line \in Line /\ ConfType(conf)
  BY <1>1, ReadsFacts
<1>3. /\ ConfOf(conf) /\ Covers(conf, fds) /\ fds \in [Fds -> Kind] /\ fds[0] # "closed" /\ 0 \in Fds
  BY <1>2, ConfAssumption DEF Reading, Fds
<1>4. PICK n \in Nat : n = conf.time_cache_count
  BY <1>2 DEF ConfType
<1>5. PICK r : r = zlog_rule_new(conf, fds, line, opens)
  OBVIOUS
<1>6. /\ r.count \in Nat /\ n <= r.count
      /\ ~r.ok => r.table = fds
      /\ r.ok => /\ r.rule \in Rule /\ BitmapOf(r.rule)
                 /\ \A s \in r.rule.slots : n <= s /\ s < r.count
                 /\ \E m \in {r.rule.static_fd, r.rule.pipe_fp} : Opened(fds, r.table, m)
  BY <1>2, <1>3, <1>4, <1>5, RuleNew
<1>7. PICK c : c = [conf EXCEPT !.time_cache_count = r.count]
  OBVIOUS
<1>8. /\ ConfOf(c) /\ c.time_cache_count = r.count /\ c.formats = conf.formats /\ c.rules = conf.rules
      /\ c.rotater = conf.rotater /\ c.default_format = conf.default_format
  BY <1>3, <1>4, <1>6, <1>7, MoreCaches
<1>9. Covers(c, fds)
  BY <1>3, <1>8, SameOwned
<1>10. CASE r.ok
  <2>1. PICK d : d = [c EXCEPT !.rules = Append(@, r.rule)]
    OBVIOUS
  <2>2. Below(c, n)
    BY <1>3, <1>4, <1>8 DEF ConfOf, CachesOf, Taken, Below
  <2>3. PICK rule \in Rule : rule = r.rule
    BY <1>6, <1>10
  <2>4. /\ BitmapOf(rule)
        /\ \A s \in rule.slots : n <= s /\ s < c.time_cache_count
        /\ n <= c.time_cache_count
    BY <1>6, <1>8, <1>10, <2>3
  <2>5. d = [c EXCEPT !.rules = Append(@, rule)]
    BY <2>1, <2>3
  <2>6. /\ ConfOf(d) /\ rule.static_fd \in Owned(d) /\ rule.pipe_fp \in Owned(d)
        /\ \A x \in Owned(c) : x \in Owned(d)
    BY <1>8, <2>2, <2>4, <2>5, AddRule, ZenonT(60)
  <2>7. PICK m \in {rule.static_fd, rule.pipe_fp} : Opened(fds, r.table, m)
    BY <1>6, <1>10, <2>3
  <2>8. PICK u : u = r.table
    OBVIOUS
  <2>9. /\ u \in [Fds -> Kind]
        /\ \A x \in Fds : \/ u[x] = fds[x]
                          \/ fds[x] = "closed" /\ x # 0
                             /\ (u[x] = "syslog" \/ (u[x] \in {"file", "pipe"} /\ x = m))
    BY <2>7, <2>8 DEF Opened
  <2>10. Covers(d, u)
    BY <1>9, <2>6, <2>9 DEF Covers, OwnKind
  <2>11. u[0] = fds[0]
    BY <1>3, <2>9
  <2>12. \A x \in Fds : u[x] = "conf" <=> x = fp
    BY <1>2, <2>9 DEF Reading
  <2>13. Reading(u, fp, d)
    BY <1>2, <2>6, <2>9, <2>10, <2>11, <2>12 DEF Reading
  <2>14. GoesOn(u, d)
    BY <1>5, <1>7, <1>10, <2>1, <2>8 DEF ParseRule
  <2> QED  BY <1>1, <1>2, <2>11, <2>13, <2>14, GoesOnKeeps
<1>11. CASE ~r.ok
  <2>1. Ignored(fds, c)
    BY <1>5, <1>6, <1>7, <1>11 DEF ParseRule
  <2>2. Reading(fds, fp, c)
    BY <1>2, <1>8, <1>9 DEF Reading
  <2> QED  BY <1>1, <1>2, <2>1, <2>2, IgnoredKeeps
<1> QED  BY <1>10, <1>11

\* The default format takes the next time cache.
LEMMA SetDefaultFormat ==
  ASSUME NEW c, ConfOf(c), NEW d, ConfType(d), d.levels = c.levels, d.formats = c.formats,
         d.rules = c.rules, d.time_cache_count = c.time_cache_count + 1,
         d.default_format.slots = zlog_spec_new(c.time_cache_count, 1).slots
  PROVE  ConfOf(d)
<1>1. PICK n \in Nat : n = c.time_cache_count
  BY DEF ConfOf, ConfType
<1>2. PICK S : S = d.default_format.slots
  OBVIOUS
<1>3. /\ S \in SUBSET Nat /\ \A s \in S : s < n + 1 /\ n <= s
  <2>1. S = zlog_spec_new(n, 1).slots
    BY <1>1, <1>2
  <2> QED  BY <2>1, FreshCaches
<1>4. \A T \in SUBSET Nat : Taken(T, c) => T \cap S = {} /\ Taken(T, d)
  BY <1>1, <1>3 DEF Taken
<1>5. /\ \A i \in 1..Len(c.formats) : c.formats[i].slots \in SUBSET Nat
      /\ \A i \in 1..Len(c.rules) : c.rules[i].slots \in SUBSET Nat
  BY SlotTypes DEF ConfOf
<1>6. Taken(S, d)
  BY <1>1, <1>3 DEF Taken
<1>7. CachesOf(d)
  BY <1>2, <1>4, <1>5, <1>6 DEF ConfOf, CachesOf
<1> QED  BY <1>7 DEF ConfOf, RulesOf

\* The lock file takes a free entry, which is not 0.
LEMMA LockCovered ==
  ASSUME NEW t \in [Fds -> Kind], t[0] # "closed", HasFree(t), NEW c, c.rotater = NoFd, Covers(c, t),
         NEW d, d.rules = c.rules, d.rotater = LowestFree(t)
  PROVE  /\ OpenFd(t, "lock") \in [Fds -> Kind] /\ OpenFd(t, "lock")[0] = t[0]
         /\ Covers(d, OpenFd(t, "lock")) /\ LowestFree(t) \in Fds
         /\ \A n \in Fds : OpenFd(t, "lock")[n] = "conf" <=> t[n] = "conf"
<1>1. PICK u : u = OpenFd(t, "lock")
  OBVIOUS
<1>2. PICK m : m = LowestFree(t)
  OBVIOUS
<1>3. m \in Fds /\ t[m] = "closed" /\ m # 0 /\ 0 \in Fds
  BY <1>2, FreeFacts, ConfAssumption DEF Fds
<1>4. u \in [Fds -> Kind] /\ u[m] = "lock" /\ \A n \in Fds : n # m => u[n] = t[n]
  BY <1>1, <1>2, OpenFacts DEF Kind, OwnKind
<1>5. NoFd \notin Fds
  BY ConfAssumption DEF NoFd, Fds
<1>6. Covers(d, u)
  <2>1. m \in Owned(d)
    BY <1>2 DEF Owned
  <2>2. \A n \in Fds : n \in Owned(c) => n \in Owned(d)
    BY <1>5 DEF Owned
  <2> QED  BY <1>4, <2>1, <2>2 DEF Covers
<1>7. \A n \in Fds : u[n] = "conf" <=> t[n] = "conf"
  BY <1>3, <1>4
<1> QED  BY <1>1, <1>2, <1>3, <1>4, <1>6, <1>7

\* [rules] begins: the lock file is opened and the default format made.
LEMMA StepBeginRules ==
  ASSUME ConfInv, NEW line, Reads(line), section < 4, NEW locks \in BOOLEAN,
         BeginRules(conf, fds, locks)
  PROVE  ConfInv'
<1>1. /\ status = "reading" /\ Reading(fds, fp, conf) /\ conf.rotater = NoFd
      /\ (~daemon => fds[0] = "console") /\ ConfType(conf) /\ nlines \in Nat
      /\ daemon \in BOOLEAN /\ DOMAIN cats = {}
  BY ReadsFacts
<1>2. /\ ConfOf(conf) /\ Covers(conf, fds) /\ fds \in [Fds -> Kind] /\ fds[0] # "closed"
  BY <1>1 DEF Reading
<1>3. PICK timed : timed = [conf EXCEPT !.fsync_period = FsyncPeriod(conf)]
  OBVIOUS
<1>4. FsyncPeriod(conf) \in Int
  BY <1>1 DEF FsyncPeriod, ConfType
<1>5. ConfType(timed)
  BY <1>1, <1>3, <1>4 DEF ConfType
<1>6. /\ timed.levels = conf.levels /\ timed.formats = conf.formats /\ timed.rules = conf.rules
      /\ timed.default_format = conf.default_format /\ timed.rotater = conf.rotater
      /\ timed.time_cache_count = conf.time_cache_count
  BY <1>1, <1>3 DEF ConfType
<1>7. ConfOf(timed) /\ Covers(timed, fds)
  BY <1>2, <1>5, <1>6, SameParts, SameOwned
<1>8. CASE ~(locks /\ HasFree(fds))
  <2>1. Fail(fds, timed)
    BY <1>3, <1>8 DEF BeginRules
  <2>2. Reading(fds, fp, timed)
    BY <1>1, <1>7 DEF Reading
  <2> QED  BY <1>1, <2>1, <2>2, FailKeeps
<1>9. CASE locks /\ HasFree(fds)
  <2>1. PICK locked : locked = [timed EXCEPT !.rotater = LowestFree(fds)]
    OBVIOUS
  <2>2. PICK u : u = OpenFd(fds, "lock")
    OBVIOUS
  <2>3. /\ locked.levels = timed.levels /\ locked.formats = timed.formats /\ locked.rules = timed.rules
        /\ locked.default_format = timed.default_format /\ locked.rotater = LowestFree(fds)
        /\ locked.time_cache_count = timed.time_cache_count
    BY <1>5, <2>1 DEF ConfType
  <2>4. /\ u \in [Fds -> Kind] /\ u[0] = fds[0] /\ Covers(locked, u) /\ LowestFree(fds) \in Fds
        /\ \A n \in Fds : u[n] = "conf" <=> fds[n] = "conf"
    BY <1>1, <1>2, <1>6, <1>9, <2>2, <2>3, LockCovered
  <2>5. ConfType(locked)
    BY <1>5, <2>1, <2>4 DEF ConfType
  <2>6. ConfOf(locked)
    BY <1>7, <2>3, <2>5, SameParts
  <2>7. Reading(u, fp, locked)
    BY <1>1, <2>4, <2>6 DEF Reading
  <2>8. CASE ~conf.default_ok
    <3>1. Fail(u, locked)
      BY <1>3, <1>9, <2>1, <2>2, <2>8 DEF BeginRules
    <3> QED  BY <1>1, <2>4, <2>7, <3>1, FailKeeps
  <2>9. CASE conf.default_ok
    <3>1. PICK f : f = zlog_spec_new(conf.time_cache_count, 1)
      OBVIOUS
    <3>2. PICK n \in Nat : n = conf.time_cache_count
      BY <1>1 DEF ConfType
    <3>3. f.next = n + 1 /\ f.next \in Nat /\ f.slots \in SUBSET Nat
      <4>1. f = zlog_spec_new(n, 1)
        BY <3>1, <3>2
      <4>2. 1 \in Nat /\ n + 1 \in Nat
        OBVIOUS
      <4>3. f.next = n + 1 /\ f.slots \in SUBSET Nat
        BY <4>1, <4>2, FreshCaches
      <4> QED  BY <4>2, <4>3
    <3>4. PICK g : g = [name |-> "default", slots |-> f.slots]
      OBVIOUS
    <3>5. g \in Format /\ g.slots = f.slots
      BY <3>3, <3>4 DEF Format, Text
    <3>6. PICK ready : ready = [locked EXCEPT !.default_format = g, !.time_cache_count = f.next]
      OBVIOUS
    <3>7. /\ ready.levels = locked.levels /\ ready.formats = locked.formats /\ ready.rules = locked.rules
          /\ ready.default_format = g /\ ready.rotater = locked.rotater
          /\ ready.time_cache_count = f.next
      BY <2>5, <3>6 DEF ConfType
    <3>8. ConfType(ready)
      BY <2>5, <3>3, <3>5, <3>6 DEF ConfType
    <3>9. ConfOf(ready)
      <4>1. locked.time_cache_count = n
        BY <1>6, <2>3, <3>2
      <4>2. ready.default_format.slots = zlog_spec_new(locked.time_cache_count, 1).slots
        BY <3>1, <3>2, <3>5, <3>7, <4>1
      <4> QED  BY <2>6, <3>3, <3>7, <3>8, <4>1, <4>2, SetDefaultFormat
    <3>10. Covers(ready, u)
      BY <2>4, <3>7, SameOwned
    <3>11. Reading(u, fp, ready)
      BY <2>7, <3>9, <3>10 DEF Reading
    <3>12. /\ fds' = u /\ conf' = ready /\ nlines' = nlines + 1 /\ section' = 4
           /\ daemon' = daemon /\ status' = status /\ fp' = fp /\ cats' = cats
      BY <1>3, <1>9, <2>1, <2>2, <2>9, <3>1, <3>4, <3>6 DEF BeginRules
    <3>13. Reading(fds', fp', conf') /\ (~daemon' => fds'[0] = "console")
      BY <1>1, <2>4, <3>11, <3>12
    <3> QED  BY <1>1, <3>12, <3>13 DEF ConfInv
  <2> QED  BY <2>8, <2>9
<1> QED  BY <1>8, <1>9

\* A section line.
LEMMA StepSection ==
  ASSUME ConfInv, NEW line, NEW locks \in BOOLEAN, ParseSection(line, locks)
  PROVE  ConfInv'
<1>1. Reads(line)
  BY DEF ParseSection
<1>2. /\ status = "reading" /\ Reading(fds, fp, conf) /\ (section < 4 => conf.rotater = NoFd)
      /\ (~daemon => fds[0] = "console") /\ nlines \in Nat /\ section \in 0..4
      /\ daemon \in BOOLEAN /\ DOMAIN cats = {}
  BY <1>1, ReadsFacts
<1>3. CASE ~NextSection(section, line.n)
  <2>1. Fail(fds, conf)
    BY <1>3 DEF ParseSection
  <2> QED  BY <1>2, <2>1, FailKeeps
<1>4. CASE NextSection(section, line.n) /\ line.n = 4
  <2>1. section < 4 /\ BeginRules(conf, fds, locks)
    BY <1>2, <1>4 DEF ParseSection, NextSection
  <2> QED  BY <1>1, <2>1, StepBeginRules
<1>5. CASE NextSection(section, line.n) /\ line.n # 4
  <2>1. /\ fds' = fds /\ conf' = conf /\ nlines' = nlines + 1 /\ section' = line.n
        /\ daemon' = daemon /\ status' = status /\ fp' = fp /\ cats' = cats
    BY <1>5 DEF ParseSection
  <2>2. section < 4 /\ section' \in 1..3
    BY <1>2, <1>5, <2>1 DEF NextSection
  <2>3. Reading(fds', fp', conf') /\ conf'.rotater = NoFd
    BY <1>2, <2>1, <2>2
  <2> QED  BY <1>2, <2>1, <2>2, <2>3 DEF ConfInv
<1> QED  BY <1>3, <1>4, <1>5

\* Without a file there is one rule.
LEMMA StepWithoutFile ==
  ASSUME ConfInv, zlog_conf_build_without_file
  PROVE  ConfInv'
<1>1. /\ status = "idle" /\ ~daemon /\ HasFree(fds) /\ Idle(fds) /\ fds[0] = "console"
      /\ DOMAIN cats = {} /\ section = 0 /\ nlines \in Nat
  BY DEF zlog_conf_build_without_file, ConfInv
<1>2. fds \in [Fds -> Kind] /\ 0 \in Fds
  BY <1>1, ConfAssumption DEF Idle, Kind, Fds
<1>3. PICK f : f = zlog_spec_new(0, 1)
  OBVIOUS
<1>4. f.next = 1 /\ f.next \in Nat /\ f.slots \in SUBSET Nat
  <2>1. 0 \in Nat /\ 1 \in Nat /\ 0 + 1 = 1
    OBVIOUS
  <2>2. f.next = 0 + 1 /\ f.slots \in SUBSET Nat
    BY <1>3, <2>1, FreshCaches
  <2> QED  BY <2>1, <2>2
<1>5. PICK g : g = [name |-> "default", slots |-> f.slots]
  OBVIOUS
<1>6. g \in Format /\ g.slots = f.slots
  BY <1>4, <1>5 DEF Format, Text
<1>7. PICK b : b = ConfDefaults
  OBVIOUS
<1>8. /\ ConfOf(b) /\ b.rules = <<>> /\ b.rotater = NoFd /\ b.formats = <<>> /\ b.time_cache_count = 0
      /\ ConfType(b)
  BY <1>7, DefaultsFacts DEF ConfOf
<1>9. PICK c : c = [b EXCEPT !.default_format = g, !.time_cache_count = f.next,
                             !.rotater = LowestFree(fds)]
  OBVIOUS
<1>10. /\ c.levels = b.levels /\ c.formats = b.formats /\ c.rules = b.rules
       /\ c.default_format = g /\ c.time_cache_count = 1 /\ c.rotater = LowestFree(fds)
  BY <1>4, <1>8, <1>9 DEF ConfType
<1>11. PICK t : t = OpenFd(fds, "lock")
  OBVIOUS
<1>12. Covers(b, fds)
  BY <1>1 DEF Covers, OwnKind, Idle
<1>13. /\ t \in [Fds -> Kind] /\ t[0] = "console" /\ Covers(c, t) /\ LowestFree(fds) \in Fds
       /\ \A n \in Fds : t[n] # "conf"
  <2>1. /\ t \in [Fds -> Kind] /\ t[0] = fds[0] /\ Covers(c, t) /\ LowestFree(fds) \in Fds
        /\ \A n \in Fds : t[n] = "conf" <=> fds[n] = "conf"
    BY <1>1, <1>2, <1>8, <1>10, <1>11, <1>12, LockCovered
  <2> QED  BY <1>1, <2>1 DEF Idle
<1>14. ConfType(c)
  BY <1>4, <1>6, <1>8, <1>9, <1>13 DEF ConfType
<1>15. ConfOf(c)
  <2>1. c.time_cache_count = b.time_cache_count + 1
    BY <1>8, <1>10
  <2>2. c.default_format.slots = zlog_spec_new(b.time_cache_count, 1).slots
    BY <1>3, <1>6, <1>8, <1>10
  <2> QED  BY <1>8, <1>10, <1>14, <2>1, <2>2, SetDefaultFormat
<1>16. PICK line : line = [k |-> "rule", cat |-> <<"*">>, cmp |-> "*", level |-> "*", format |-> "",
                           out |-> "stdout", dynamic |-> FALSE, limit |-> FALSE, sync |-> FALSE,
                           times |-> 0, ok |-> TRUE]
  OBVIOUS
<1>17. line \in Line
  <2>1. "*" \in Text /\ "" \in Text
    BY DEF Text
  <2>2. <<"*">> \in Seq(Text) /\ <<"*">> # <<>>
    <3>1. \A x \in Text : <<x>> \in Seq(Text) /\ <<x>> # <<>>
      OBVIOUS
    <3> QED  BY <2>1, <3>1
  <2>3. line \in RuleLine
    BY <1>16, <2>1, <2>2 DEF RuleLine
  <2> QED  BY <2>3 DEF Line
<1>18. PICK r : r = zlog_rule_new(c, t, line, TRUE)
  OBVIOUS
<1>19. r.ok = TRUE
  <2>1. FormatNamed(c, line.format) # {}
    BY <1>16 DEF FormatNamed
  <2>2. line.k = "rule" /\ line.ok = TRUE /\ line.out = "stdout"
    BY <1>16
  <2> QED  BY <1>18, <2>1, <2>2 DEF zlog_rule_new
<1>20. /\ r.count \in Nat /\ 1 <= r.count /\ r.rule \in Rule /\ BitmapOf(r.rule)
       /\ \A s \in r.rule.slots : 1 <= s /\ s < r.count
       /\ \E m \in {r.rule.static_fd, r.rule.pipe_fp} : Opened(t, r.table, m)
  <2>1. /\ r.count \in Nat /\ c.time_cache_count <= r.count
        /\ r.ok => /\ r.rule \in Rule /\ BitmapOf(r.rule)
                   /\ \A s \in r.rule.slots : c.time_cache_count <= s /\ s < r.count
                   /\ \E m \in {r.rule.static_fd, r.rule.pipe_fp} : Opened(t, r.table, m)
    <3>1. PICK opens \in BOOLEAN : opens = TRUE
      OBVIOUS
    <3>2. t[0] # "closed" /\ r = zlog_rule_new(c, t, line, opens)
      BY <1>13, <1>18, <3>1
    <3> QED  BY <1>13, <1>15, <1>17, <3>2, RuleNew
  <2> QED  BY <1>10, <1>19, <2>1
<1>21. PICK rule \in Rule : rule = r.rule
  BY <1>20
<1>22. r.count = 1
  <2>1. r.count = zlog_spec_new(c.time_cache_count, line.times).next
    <3>1. FormatNamed(c, line.format) # {}
      BY <1>16 DEF FormatNamed
    <3>2. line.k = "rule" /\ line.ok = TRUE /\ line.out = "stdout"
      BY <1>16
    <3> QED  BY <1>18, <3>1, <3>2 DEF zlog_rule_new
  <2>2. line.times = 0
    BY <1>16
  <2>3. 0 \in Nat /\ 1 \in Nat /\ 1 + 0 = 1
    OBVIOUS
  <2>4. zlog_spec_new(1, 0).next = 1 + 0
    BY <2>3, FreshCaches
  <2> QED  BY <1>10, <2>1, <2>2, <2>3, <2>4
<1>23. PICK d : d = [c EXCEPT !.rules = Append(@, rule)]
  OBVIOUS
<1>24. /\ ConfOf(d) /\ rule.static_fd \in Owned(d) /\ rule.pipe_fp \in Owned(d)
       /\ \A x \in Owned(c) : x \in Owned(d)
  <2>1. Below(c, 1)
    BY <1>10, <1>15 DEF ConfOf, CachesOf, Taken, Below
  <2>2. \A s \in rule.slots : 1 <= s /\ s < c.time_cache_count
    BY <1>10, <1>20, <1>21, <1>22
  <2>3. BitmapOf(rule) /\ 1 \in Nat /\ 1 <= c.time_cache_count
    BY <1>10, <1>20, <1>21
  <2> QED  BY <1>15, <1>23, <2>1, <2>2, <2>3, AddRule, ZenonT(60)
<1>25. PICK u : u = r.table
  OBVIOUS
<1>26. PICK m \in {rule.static_fd, rule.pipe_fp} : Opened(t, u, m)
  BY <1>20, <1>21, <1>25
<1>27. /\ u \in [Fds -> Kind]
       /\ \A x \in Fds : \/ u[x] = t[x]
                         \/ t[x] = "closed" /\ x # 0
                            /\ (u[x] = "syslog" \/ (u[x] \in {"file", "pipe"} /\ x = m))
  BY <1>26 DEF Opened
<1>28. Covers(d, u)
  BY <1>13, <1>24, <1>27 DEF Covers, OwnKind
<1>29. u[0] = "console" /\ \A n \in Fds : u[n] # "conf"
  BY <1>2, <1>13, <1>27
<1>30. Built(u, d)
  BY <1>24, <1>27, <1>28, <1>29 DEF Built
<1>31. d = [c EXCEPT !.rules = <<r.rule>>]
  BY <1>8, <1>10, <1>21, <1>23
<1>32. /\ fds' = u /\ conf' = d /\ status' = "built" /\ daemon' = daemon /\ section' = section
       /\ nlines' = nlines /\ cats' = cats
  BY <1>3, <1>5, <1>7, <1>9, <1>11, <1>16, <1>18, <1>25, <1>31 DEF zlog_conf_build_without_file
<1>33. CategoriesOf(conf)'
  BY <1>1, <1>32 DEF CategoriesOf
<1>34. Built(fds', conf')
  BY <1>30, <1>32
<1> QED  BY <1>1, <1>29, <1>32, <1>33, <1>34 DEF ConfInv

\* Every step keeps the invariant.
LEMMA ConfInvNext == ConfInv /\ [ConfNext]_readVars => ConfInv'
<1> SUFFICES ASSUME ConfInv, [ConfNext]_readVars PROVE ConfInv'
  OBVIOUS
<1>1. CASE conf_new
  BY <1>1, StepConfNew
<1>2. CASE zlog_conf_build_without_file
  BY <1>2, StepWithoutFile
<1>3. CASE \E line \in Lines, works \in BOOLEAN : ParseSection(line, works)
  BY <1>3, StepSection
<1>4. CASE \E line \in Lines : ParseGlobal(line)
  BY <1>4, StepGlobal
<1>5. CASE \E line \in Lines : ParseLevel(line)
  BY <1>5, StepLevel
<1>6. CASE \E line \in Lines : ParseFormat(line)
  BY <1>6, StepFormat
<1>7. CASE \E line \in Lines, works \in BOOLEAN : ParseRule(line, works)
  BY <1>7, StepRule
<1>8. CASE \E line \in Lines : NotInSection(line)
  BY <1>8, StepNotInSection
<1>9. CASE EndOfFile
  BY <1>9, StepEndOfFile
<1>10. CASE ReleaseConf
  BY <1>10, StepRelease
<1>11. CASE \E name \in CategoryNames : zlog_category_new(name)
  BY <1>11, StepCategory
<1>12. CASE UNCHANGED readVars
  <2>1. /\ fds' = fds /\ daemon' = daemon /\ status' = status /\ fp' = fp /\ conf' = conf
        /\ section' = section /\ nlines' = nlines /\ cats' = cats
    BY <1>12 DEF readVars
  <2>2. CategoriesOf(conf)' <=> CategoriesOf(conf)
    BY <2>1 DEF CategoriesOf
  <2> QED  BY <2>1, <2>2 DEF ConfInv
<1> QED  BY <1>1, <1>2, <1>3, <1>4, <1>5, <1>6, <1>7, <1>8, <1>9, <1>10, <1>11, <1>12 DEF ConfNext

-------------------------------------------------------------------------------
(* Theorems.                                                               *)

\* Whatever lines a file holds, in whatever order, whichever opens fail and however
\* few descriptors there are, zlog_conf_parse_line and the actions around it keep
\* the configuration, the descriptors it owns and the categories in order.
THEOREM ConfInvariant == ConfSpec => []ConfInv
<1>1. ConfInit => ConfInv
  BY ConfInvInit
<1>2. ConfInv /\ [ConfNext]_readVars => ConfInv'
  BY ConfInvNext
<1> QED  BY <1>1, <1>2, PTL DEF ConfSpec

\* Whatever line failed, and after a release, zlog_conf_del has closed the lock file,
\* the files and the pipes of the configuration, and the file itself is closed: the
\* 0 that stands for "none" is never the number of one of them.
THEOREM DescriptorsAreReleased == ConfSpec => []DescriptorsReleased
<1>1. ConfInv => DescriptorsReleased
  BY SMTT(30) DEF ConfInv, Idle, DescriptorsReleased
<1> QED  BY <1>1, ConfInvariant, PTL

\* The bit that zlog_category_needless_level reads agrees with the comparisons of
\* zlog_rule_output, for every level of one byte, comparison and level name.
THEOREM NeedlessStaysExact == ConfSpec => []NeedlessExact
<1>1. ConfInv => NeedlessExact
  <2> SUFFICES ASSUME ConfInv, NEW name \in DOMAIN cats, NEW lv \in EventLevels
               PROVE  zlog_category_needless_level(cats[name].level_bitmap, lv)
                        <=> ~ \E i \in 1..Len(cats[name].fit_rules) :
                                  zlog_rule_output(cats[name].fit_rules[i], lv)
    BY DEF NeedlessExact
  <2>1. status = "built" /\ Built(fds, conf) /\ CategoriesOf(conf)
    BY DEF ConfInv
  <2>2. PICK rules \in Seq(Rule) : rules = conf.rules
    BY <2>1 DEF Built, ConfOf, ConfType
  <2>3. \A i \in 1..Len(rules) : BitmapOf(rules[i])
    BY <2>1, <2>2 DEF Built, ConfOf, RulesOf
  <2>4. cats[name] = ObtainedRules(rules, name) /\ lv \in 0..255
    BY <2>1, <2>2, ConfAssumption DEF CategoriesOf
  <2> QED  BY <2>3, <2>4, QuietBit
<1> QED  BY <1>1, ConfInvariant, PTL

\* zlog_category_obtain_rules gives a category the rules whose selector covers its
\* name, each once and in the order of the file, or the last wastebin rule.
THEOREM CategoriesGetRules == ConfSpec => []CategoryRules
<1>1. ConfInv => CategoryRules
  <2> SUFFICES ASSUME ConfInv, NEW name \in DOMAIN cats
               PROVE  InOrderOfFile(conf.rules, name, cats[name].fit_rules)
    BY Zenon DEF CategoryRules, InOrderOfFile
  <2>1. status = "built" /\ Built(fds, conf) /\ CategoriesOf(conf)
    BY DEF ConfInv
  <2>2. conf.rules \in Seq(Rule)
    BY <2>1 DEF Built, ConfOf, ConfType
  <2>3. cats[name].fit_rules = FitRules(conf.rules, name) /\ name \in Seq(Text)
    BY <2>1 DEF CategoriesOf, ObtainedRules
  <2> QED  BY <2>2, <2>3, FitIsSelected
<1> QED  BY <1>1, ConfInvariant, PTL

\* The default format, the formats and the rules one after the other.
LEMMA UsersOf ==
  ASSUME NEW f \in Format, NEW F \in Seq(Format), NEW R \in Seq(Rule), NEW users,
         users = <<f>> \o F \o R
  PROVE  /\ Len(users) = 1 + Len(F) + Len(R)
         /\ \A i \in 1..Len(users) :
               \/ i = 1 /\ users[i] = f
               \/ i - 1 \in 1..Len(F) /\ users[i] = F[i - 1]
               \/ i - 1 - Len(F) \in 1..Len(R) /\ users[i] = R[i - 1 - Len(F)]
<1> DEFINE S == Format \cup Rule
<1>1. <<f>> \in Seq(S) /\ F \in Seq(S) /\ R \in Seq(S) /\ Len(<<f>>) = 1 /\ <<f>>[1] = f
  OBVIOUS
<1> HIDE DEF S
<1>2. PICK G : G = <<f>> \o F
  OBVIOUS
<1>3. PICK one \in Seq(S) : one = <<f>>
  BY <1>1
<1>4. /\ G \in Seq(S) /\ Len(G) = 1 + Len(F)
      /\ \A i \in 1..Len(G) : G[i] = IF i <= 1 THEN one[i] ELSE F[i - 1]
  BY <1>1, <1>2, <1>3, ConcatProperties
<1>5. /\ users \in Seq(S) /\ Len(users) = Len(G) + Len(R)
      /\ \A i \in 1..Len(users) : users[i] = IF i <= Len(G) THEN G[i] ELSE R[i - Len(G)]
  BY <1>1, <1>2, <1>4, ConcatProperties
<1>6. Len(F) \in Nat /\ Len(R) \in Nat
  OBVIOUS
<1>7. one[1] = f
  BY <1>1, <1>3
<1> QED  BY <1>4, <1>5, <1>6, <1>7

\* What is indexed later without a test is in place: the time caches are distinct and
\* below the count, and zc_arraylist_set has stored every level inside the array.
THEOREM SlotsStayInPlace == ConfSpec => []SlotsInPlace
<1>1. ConfInv => SlotsInPlace
  <2> SUFFICES ASSUME ConfInv, status # "idle" PROVE SlotsInPlace
    BY DEF SlotsInPlace, TimeCachesDistinct, LevelsInBounds
  <2>1. ConfOf(conf)
    BY DEF ConfInv, Reading, Built
  <2>2. LevelsInBounds
    BY <2>1 DEF ConfOf, LevelsOf, LevelsInBounds
  <2>3. PICK f \in Format, F \in Seq(Format), R \in Seq(Rule) :
             f = conf.default_format /\ F = conf.formats /\ R = conf.rules
    BY <2>1 DEF ConfOf, ConfType
  <2>4. PICK users : users = <<f>> \o F \o R
    OBVIOUS
  <2> DEFINE U(i) == \/ i = 1 /\ users[i] = f
                     \/ i - 1 \in 1..Len(F) /\ users[i] = F[i - 1]
                     \/ /\ i - 1 - Len(F) \in 1..Len(R)
                        /\ users[i] = R[i - 1 - Len(F)]
  <2>5. Len(users) = 1 + Len(F) + Len(R) /\ \A i \in 1..Len(users) : U(i)
    BY <2>4, UsersOf, SMTT(30)
  <2> HIDE DEF U
  <2>6. /\ Taken(f.slots, conf)
        /\ \A i \in 1..Len(F) :
              /\ Taken(F[i].slots, conf) /\ F[i].slots \cap f.slots = {}
              /\ \A j \in 1..Len(F) : i # j => F[i].slots \cap F[j].slots = {}
              /\ \A j \in 1..Len(R) : F[i].slots \cap R[j].slots = {}
        /\ \A i \in 1..Len(R) :
              /\ Taken(R[i].slots, conf) /\ R[i].slots \cap f.slots = {}
              /\ \A j \in 1..Len(R) : i # j => R[i].slots \cap R[j].slots = {}
    BY <2>1, <2>3 DEF ConfOf, CachesOf
  <2>7. ASSUME NEW i \in 1..Len(users), NEW s \in users[i].slots PROVE s < conf.time_cache_count
    <3>1. U(i)
      BY <2>5
    <3> QED  BY <2>6, <2>7, <3>1 DEF Taken, U
  <2>8. ASSUME NEW i \in 1..Len(users), NEW j \in 1..(i - 1)
        PROVE  users[i].slots \cap users[j].slots = {}
    <3>1. /\ U(i) /\ U(j) /\ i \in Nat /\ j \in Nat /\ j < i
          /\ Len(F) \in Nat /\ Len(R) \in Nat
      <4>1. Len(F) \in Nat /\ Len(R) \in Nat /\ Len(users) \in Nat
        BY <2>5
      <4>2. i \in Nat /\ j \in 1..Len(users) /\ j \in Nat /\ j < i
        BY <4>1
      <4> QED  BY <2>5, <4>1, <4>2
    <3>2. \A A, B : A \cap B = {} => B \cap A = {}
      OBVIOUS
    <3>3. CASE j = 1 /\ users[j] = f
      <4>1. users[i].slots \cap f.slots = {}
        <5>1. CASE i - 1 \in 1..Len(F) /\ users[i] = F[i - 1]
          BY <2>6, <5>1
        <5>2. CASE i - 1 - Len(F) \in 1..Len(R) /\ users[i] = R[i - 1 - Len(F)]
          BY <2>6, <5>2
        <5>3. i # 1
          BY <3>1, <3>3
        <5> QED  BY <3>1, <5>1, <5>2, <5>3 DEF U
      <4> QED  BY <3>3, <4>1
    <3>4. CASE j - 1 \in 1..Len(F) /\ users[j] = F[j - 1]
      <4>1. CASE i - 1 \in 1..Len(F) /\ users[i] = F[i - 1]
        <5>1. i - 1 # j - 1
          BY <3>1
        <5> QED  BY <2>6, <3>4, <4>1, <5>1
      <4>2. CASE /\ i - 1 - Len(F) \in 1..Len(R)
                 /\ users[i] = R[i - 1 - Len(F)]
        <5>1. users[j].slots \cap users[i].slots = {}
          BY <2>6, <3>4, <4>2
        <5> QED  BY <3>2, <5>1
      <4>3. i # 1
        BY <3>1, <3>4
      <4> QED  BY <3>1, <4>1, <4>2, <4>3 DEF U
    <3>5. CASE /\ j - 1 - Len(F) \in 1..Len(R)
               /\ users[j] = R[j - 1 - Len(F)]
      <4>1. /\ i - 1 - Len(F) \in 1..Len(R)
            /\ users[i] = R[i - 1 - Len(F)]
            /\ i - 1 - Len(F) # j - 1 - Len(F)
        <5>1. i # 1 /\ i - 1 \notin 1..Len(F)
          BY <3>1, <3>5, SMTT(30)
        <5> QED  BY <3>1, <5>1 DEF U
      <4> QED  BY <2>6, <3>5, <4>1
    <3> QED  BY <3>1, <3>3, <3>4, <3>5 DEF U
  <2>9. TimeCachesDistinct
    BY <2>3, <2>4, <2>7, <2>8, ZenonT(60) DEF TimeCachesDistinct
  <2> QED  BY <2>2, <2>9 DEF SlotsInPlace
<1> QED  BY <1>1, ConfInvariant, PTL
=============================================================================
