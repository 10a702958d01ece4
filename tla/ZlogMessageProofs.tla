-------------------------- MODULE ZlogMessageProofs --------------------------
(***************************************************************************)
(* Proofs about ZlogBuf and ZlogMessage, for any formats, messages, sizes  *)
(* of buffers and of free memory.                                          *)
(***************************************************************************)
EXTENDS ZlogMessage, SequenceTheorems, WellFoundedInduction, TLAPS

-----------------------------------------------------------------------------
(* Numbers and recursive functions.                                        *)

\* A set of natural numbers that is not empty has a least one.
LEMMA LeastNumber ==
  ASSUME NEW T \in SUBSET Nat, T # {}
  PROVE  \E m \in T : \A n \in T : m <= n
<1>1. PICK m \in T : \A n \in T : ~(<<n, m>> \in OpToRel(<, Nat))
  BY WFMin, NatLessThanWellFounded
<1>2. \A n \in T : ~(n < m)
  BY <1>1 DEF OpToRel
<1> QED  BY <1>2

\* h takes the first n rounds of the step g from a.
Runs(h, n, S, a, g) ==
  h \in [0..n -> S] /\ h[0] = a /\ \A i \in 1..n : h[i] = g[<<h[i - 1], i>>]

LEMMA RunsExist ==
  ASSUME NEW S, NEW a \in S, NEW g \in [S \X Nat -> S], NEW n \in Nat
  PROVE  \E h : Runs(h, n, S, a, g)
<1> DEFINE T == {m \in Nat : ~\E h : Runs(h, m, S, a, g)}
<1>1. SUFFICES ASSUME T # {} PROVE FALSE
  BY Zenon
<1>2. PICK m \in T : \A k \in T : m <= k
  BY <1>1, LeastNumber
<1>3. m \in Nat /\ ~\E h : Runs(h, m, S, a, g)
  BY <1>2
<1>4. m # 0
  <2>1. Runs([i \in 0..0 |-> a], 0, S, a, g)
    BY DEF Runs
  <2> QED  BY <1>3, <2>1
<1>5. PICK h : Runs(h, m - 1, S, a, g)
  <2>1. m - 1 \in Nat /\ m - 1 \notin T
    BY <1>2, <1>3, <1>4
  <2> QED  BY <2>1
<1> DEFINE f == [i \in 0..m |-> IF i = m THEN g[<<h[m - 1], m>>] ELSE h[i]]
<1>6. h[m - 1] \in S /\ g[<<h[m - 1], m>>] \in S
  BY <1>3, <1>4, <1>5 DEF Runs
<1>7. f \in [0..m -> S] /\ f[0] = a
  BY <1>3, <1>4, <1>5, <1>6 DEF Runs
<1>8. ASSUME NEW i \in 1..m PROVE f[i] = g[<<f[i - 1], i>>]
  <2>1. i - 1 \in 0..(m - 1) /\ i - 1 \in 0..m /\ i - 1 # m /\ i \in 0..m
    BY <1>3, <1>4
  <2>2. f[i - 1] = h[i - 1]
    BY <2>1
  <2>3. CASE i = m
    BY <2>1, <2>2, <2>3
  <2>4. CASE i # m
    <3>1. i \in 1..(m - 1) /\ f[i] = h[i]
      BY <1>3, <2>1, <2>4
    <3> QED  BY <1>5, <2>2, <3>1 DEF Runs
  <2> QED  BY <2>3, <2>4
<1>9. Runs(f, m, S, a, g)
  <2> HIDE DEF f
  <2> QED  BY <1>7, <1>8 DEF Runs
<1> QED  BY <1>3, <1>9

LEMMA RunsAgree ==
  ASSUME NEW S, NEW a, NEW g, NEW n \in Nat, NEW m \in Nat, n <= m,
         NEW h, Runs(h, n, S, a, g), NEW k, Runs(k, m, S, a, g)
  PROVE  \A i \in 0..n : h[i] = k[i]
<1> DEFINE T == {i \in 0..n : h[i] # k[i]}
<1>1. SUFFICES ASSUME T # {} PROVE FALSE
  OBVIOUS
<1>2. PICK j \in T : \A i \in T : j <= i
  <2>1. T \in SUBSET Nat
    OBVIOUS
  <2> QED  BY <1>1, <2>1, LeastNumber
<1>3. j # 0
  BY <1>2 DEF Runs
<1>4. h[j - 1] = k[j - 1]
  BY <1>2, <1>3
<1>5. h[j] = g[<<h[j - 1], j>>] /\ k[j] = g[<<k[j - 1], j>>]
  BY <1>2, <1>3 DEF Runs
<1> QED  BY <1>2, <1>4, <1>5

\* f takes the step g again and again from a.
Iterates(f, S, a, g) ==
  f \in [Nat -> S] /\ f[0] = a /\ \A i \in Nat \ {0} : f[i] = g[<<f[i - 1], i>>]

LEMMA RunExists ==
  ASSUME NEW S, NEW a \in S, NEW g \in [S \X Nat -> S]
  PROVE  \E f : Iterates(f, S, a, g)
<1> DEFINE h(n) == CHOOSE h : Runs(h, n, S, a, g)
           f == [n \in Nat |-> h(n)[n]]
<1>1. \A n \in Nat : Runs(h(n), n, S, a, g)
  BY RunsExist
<1> HIDE DEF h
<1>2. f \in [Nat -> S] /\ f[0] = a
  BY <1>1 DEF Runs
<1>3. ASSUME NEW i \in Nat \ {0} PROVE f[i] = g[<<f[i - 1], i>>]
  <2>1. i - 1 \in Nat /\ i - 1 <= i /\ i - 1 \in 0..(i - 1)
    OBVIOUS
  <2>2. h(i)[i - 1] = h(i - 1)[i - 1]
    BY <1>1, <2>1, RunsAgree
  <2>3. h(i)[i] = g[<<h(i)[i - 1], i>>]
    BY <1>1 DEF Runs
  <2> QED  BY <2>1, <2>2, <2>3
<1> HIDE DEF f
<1>4. Iterates(f, S, a, g)
  BY <1>2, <1>3 DEF Iterates
<1> QED  BY <1>4

-----------------------------------------------------------------------------
(* Digits.                                                                 *)

LEMMA QuotientRuns ==
  ASSUME NEW n \in Nat, NEW base \in Nat \ {0, 1}
  PROVE  /\ Quotient(n, base) \in [Nat -> Nat]
         /\ Quotient(n, base)[0] = n
         /\ \A i \in Nat \ {0} : Quotient(n, base)[i] = Quotient(n, base)[i - 1] \div base
<1> DEFINE g == [x \in Nat \X Nat |-> x[1] \div base]
<1>1. g \in [Nat \X Nat -> Nat]
  OBVIOUS
<1>2. \A x, i \in Nat : g[<<x, i>>] = x \div base
  OBVIOUS
<1> HIDE DEF g
<1>3. PICK f \in [Nat -> Nat] : f[0] = n /\ \A i \in Nat \ {0} : f[i] = g[<<f[i - 1], i>>]
  <2>1. PICK f : Iterates(f, Nat, n, g)
    BY <1>1, RunExists, Zenon
  <2> QED  BY <2>1 DEF Iterates
<1> DEFINE q == Quotient(n, base)
<1>4. \A i \in Nat : f[i] = IF i = 0 THEN n ELSE f[i - 1] \div base
  <2>1. ASSUME NEW i \in Nat, i # 0 PROVE f[i] = f[i - 1] \div base
    <3>1. f[i - 1] \in Nat /\ f[i] = g[<<f[i - 1], i>>]
      BY <1>3, <2>1
    <3> QED  BY <1>2, <3>1
  <2> QED  BY <1>3, <2>1
<1>5. f = [i \in Nat |-> IF i = 0 THEN n ELSE f[i - 1] \div base]
  BY <1>3, <1>4
<1>6. q = CHOOSE q_1 : q_1 = [i \in Nat |-> IF i = 0 THEN n ELSE q_1[i - 1] \div base]
  BY DEF Quotient
<1>7. q = [i \in Nat |-> IF i = 0 THEN n ELSE q[i - 1] \div base]
  <2> HIDE DEF q
  <2> QED  BY <1>5, <1>6
<1> DEFINE U == {i \in Nat : q[i] # f[i]}
<1>8. U = {}
  <2> HIDE DEF q
  <2>1. SUFFICES ASSUME U # {} PROVE FALSE
    OBVIOUS
  <2>2. PICK m \in U : \A i \in U : m <= i
    BY <2>1, LeastNumber
  <2>3. m # 0
    BY <1>3, <1>7, <2>2
  <2>4. m - 1 \in Nat /\ q[m - 1] = f[m - 1]
    BY <2>2, <2>3
  <2>5. q[m] = q[m - 1] \div base
    BY <1>7, <2>2, <2>3
  <2> QED  BY <1>4, <2>2, <2>3, <2>4, <2>5
<1>9. q = f
  <2> HIDE DEF q
  <2> QED  BY <1>3, <1>7, <1>8
<1> QED  BY <1>3, <1>4, <1>9

LEMMA PowerRuns ==
  ASSUME NEW base \in Nat \ {0, 1}
  PROVE  /\ Power(base) \in [Nat -> Nat \ {0}]
         /\ Power(base)[0] = 1
         /\ \A i \in Nat \ {0} : Power(base)[i] = base * Power(base)[i - 1]
<1> DEFINE N == Nat \ {0}
           g == [x \in N \X Nat |-> base * x[1]]
<1>0. \A x \in N : base * x \in N
  OBVIOUS
<1>1. g \in [N \X Nat -> N]
  BY <1>0
<1>2. \A x \in N, i \in Nat : g[<<x, i>>] = base * x
  OBVIOUS
<1>a. 1 \in N
  OBVIOUS
<1> HIDE DEF g
<1>3. PICK f \in [Nat -> N] : f[0] = 1 /\ \A i \in Nat \ {0} : f[i] = g[<<f[i - 1], i>>]
  <2> HIDE DEF N
  <2>1. PICK f : Iterates(f, N, 1, g)
    BY <1>1, <1>a, RunExists, Zenon
  <2> QED  BY <2>1 DEF Iterates
<1> DEFINE q == Power(base)
<1>4. \A i \in Nat : f[i] = IF i = 0 THEN 1 ELSE base * f[i - 1]
  <2>1. ASSUME NEW i \in Nat, i # 0 PROVE f[i] = base * f[i - 1]
    <3>1. f[i - 1] \in N /\ f[i] = g[<<f[i - 1], i>>]
      BY <1>3, <2>1
    <3> QED  BY <1>2, <3>1
  <2> QED  BY <1>3, <2>1
<1>5. f = [i \in Nat |-> IF i = 0 THEN 1 ELSE base * f[i - 1]]
  BY <1>3, <1>4
<1>6. q = CHOOSE q_1 : q_1 = [i \in Nat |-> IF i = 0 THEN 1 ELSE base * q_1[i - 1]]
  BY DEF Power
<1>7. q = [i \in Nat |-> IF i = 0 THEN 1 ELSE base * q[i - 1]]
  <2> HIDE DEF q
  <2> QED  BY <1>5, <1>6
<1> DEFINE U == {i \in Nat : q[i] # f[i]}
<1>8. U = {}
  <2> HIDE DEF q
  <2>1. SUFFICES ASSUME U # {} PROVE FALSE
    OBVIOUS
  <2>2. PICK m \in U : \A i \in U : m <= i
    BY <2>1, LeastNumber
  <2>3. m # 0
    BY <1>3, <1>7, <2>2
  <2>4. m - 1 \in Nat /\ q[m - 1] = f[m - 1]
    BY <2>2, <2>3
  <2>5. q[m] = base * q[m - 1]
    BY <1>7, <2>2, <2>3
  <2> QED  BY <1>4, <2>2, <2>3, <2>4, <2>5
<1>9. q = f
  <2> HIDE DEF q, N
  <2> QED  BY <1>3, <1>7, <1>8
<1> QED  BY <1>3, <1>4, <1>9

\* One division by m and one by b are one division by b * m.
LEMMA DivDiv ==
  ASSUME NEW n \in Nat, NEW m \in Nat \ {0}, NEW b \in Nat \ {0}
  PROVE  (n \div m) \div b = n \div (b * m)
<1> DEFINE q == n \div m
           r == q \div b
<1>1. q \in Nat /\ m * q <= n /\ n < m * (q + 1)
  OBVIOUS
<1>2. r \in Nat /\ b * r <= q /\ q < b * (r + 1)
  <2> HIDE DEF q
  <2> QED  BY <1>1
<1> HIDE DEF q, r
<1>3. q + 1 <= b * (r + 1)
  BY <1>1, <1>2
<1>4. m * (b * r) <= m * q
  BY <1>1, <1>2
<1>5. m * (q + 1) <= m * (b * (r + 1))
  BY <1>1, <1>2, <1>3
<1>6. (b * m) * r <= n /\ n < (b * m) * (r + 1)
  BY <1>1, <1>2, <1>4, <1>5
<1>7. b * m \in Nat \ {0}
  OBVIOUS
<1>8. \A d \in Nat \ {0} : d * r <= n /\ n < d * (r + 1) => n \div d = r
  BY <1>2
<1> QED  BY <1>6, <1>7, <1>8 DEF q, r

\* The division loop finds the digit of each power of the base.
LEMMA QuotientIsDiv ==
  ASSUME NEW n \in Nat, NEW base \in Nat \ {0, 1}, NEW i \in Nat
  PROVE  Quotient(n, base)[i] = n \div Power(base)[i]
<1> DEFINE q == Quotient(n, base)
           p == Power(base)
           U == {j \in Nat : q[j] # n \div p[j]}
<1>1. q \in [Nat -> Nat] /\ q[0] = n /\ \A j \in Nat \ {0} : q[j] = q[j - 1] \div base
  BY QuotientRuns
<1>2. p \in [Nat -> Nat \ {0}] /\ p[0] = 1 /\ \A j \in Nat \ {0} : p[j] = base * p[j - 1]
  BY PowerRuns
<1> HIDE DEF q, p
<1>3. U = {}
  <2>1. SUFFICES ASSUME U # {} PROVE FALSE
    OBVIOUS
  <2>2. PICK m \in U : \A j \in U : m <= j
    BY <2>1, LeastNumber
  <2>3. n \div 1 = n
    OBVIOUS
  <2>4. m # 0
    BY <1>1, <1>2, <2>2, <2>3
  <2>5. m - 1 \in Nat /\ q[m - 1] = n \div p[m - 1]
    BY <2>2, <2>4
  <2>6. p[m - 1] \in Nat \ {0} /\ base \in Nat \ {0}
    BY <1>2, <2>5
  <2>7. (n \div p[m - 1]) \div base = n \div (base * p[m - 1])
    BY <2>6, DivDiv
  <2>8. q[m] = q[m - 1] \div base /\ p[m] = base * p[m - 1]
    BY <1>1, <1>2, <2>2, <2>4
  <2> QED  BY <2>2, <2>5, <2>7, <2>8
<1> QED  BY <1>3 DEF q, p

\* Zeros before the digits: what PrintDigits writes is the number's text.
LEMMA DigitsAre ==
  ASSUME NEW n \in Nat, NEW base \in Nat \ {0, 1}
  PROVE  \E len \in Nat \ {0} :
           /\ Digits(n, base) = [i \in 1..len |-> <<"digit", Quotient(n, base)[len - i] % base>>]
           /\ \A j \in Nat : j >= len => Quotient(n, base)[j] = 0
<1> DEFINE q == Quotient(n, base)
           P(k) == q[k] = 0 /\ (k > 1 => q[k - 1] # 0)
           len == CHOOSE k \in 1..(n + 1) : P(k)
<1>1. q \in [Nat -> Nat] /\ q[0] = n /\ \A j \in Nat \ {0} : q[j] = q[j - 1] \div base
  BY QuotientRuns
<1>2. Digits(n, base) = [i \in 1..len |-> <<"digit", q[len - i] % base>>]
  BY DEF Digits
<1> HIDE DEF q
<1>3. \A j \in Nat : q[j] + j <= n \/ q[j] = 0
  <2> DEFINE U == {j \in Nat : ~(q[j] + j <= n \/ q[j] = 0)}
  <2>1. SUFFICES ASSUME U # {} PROVE FALSE
    OBVIOUS
  <2>2. PICK m \in U : \A j \in U : m <= j
    BY <2>1, LeastNumber
  <2>3. m # 0
    BY <1>1, <2>2
  <2>4. m - 1 \in Nat /\ (q[m - 1] + (m - 1) <= n \/ q[m - 1] = 0)
    BY <2>2, <2>3
  <2>5. q[m] = q[m - 1] \div base /\ q[m - 1] \in Nat /\ q[m] \in Nat
    BY <1>1, <2>2, <2>3, <2>4
  <2>6. \A x \in Nat : (x = 0 => x \div base = 0) /\ (x # 0 => x \div base < x)
    OBVIOUS
  <2> QED  BY <2>2, <2>3, <2>4, <2>5, <2>6
<1>4. \E k \in 1..(n + 1) : P(k)
  <2> DEFINE U == {k \in 1..(n + 1) : q[k] = 0}
  <2>1. n + 1 \in U
    BY <1>1, <1>3
  <2>2. U \in SUBSET Nat
    OBVIOUS
  <2>3. PICK m \in U : \A j \in U : m <= j
    BY <2>1, <2>2, LeastNumber
  <2>4. m > 1 => q[m - 1] # 0
    BY <2>3
  <2> QED  BY <2>3, <2>4
<1>5. len \in 1..(n + 1) /\ P(len)
  BY <1>4
<1> HIDE DEF len
<1>6. \A j \in Nat : j >= len => q[j] = 0
  <2> DEFINE U == {j \in Nat : j >= len /\ q[j] # 0}
  <2>1. SUFFICES ASSUME U # {} PROVE FALSE
    OBVIOUS
  <2>2. PICK m \in U : \A j \in U : m <= j
    BY <2>1, LeastNumber
  <2>3. m # len /\ m # 0
    BY <1>5, <2>2
  <2>4. m - 1 \in Nat /\ q[m - 1] = 0
    BY <1>5, <2>2, <2>3
  <2>5. q[m] = q[m - 1] \div base
    BY <1>1, <2>2, <2>3
  <2>6. 0 \div base = 0
    OBVIOUS
  <2> QED  BY <2>2, <2>4, <2>5, <2>6
<1> QED  BY <1>2, <1>5, <1>6 DEF q

-----------------------------------------------------------------------------
(* Texts.                                                                  *)

LEMMA OfSeq ==
  ASSUME NEW S, NEW s \in Seq(S)
  PROVE  IsSeq(s) /\ s = [i \in 1..Len(s) |-> s[i]] /\ DOMAIN s = 1..Len(s)
BY DEF IsSeq

LEMMA Facts ==
  ASSUME NEW s, IsSeq(s)
  PROVE  Len(s) \in Nat /\ DOMAIN s = 1..Len(s) /\ s = [i \in 1..Len(s) |-> s[i]]
BY DEF IsSeq

LEMMA Joined ==
  ASSUME NEW a, IsSeq(a), NEW b, IsSeq(b)
  PROVE  \E S : a \in Seq(S) /\ b \in Seq(S)
<1> DEFINE S == {a[i] : i \in DOMAIN a} \cup {b[i] : i \in DOMAIN b}
<1>1. a \in Seq(S) /\ b \in Seq(S)
  BY DEF IsSeq
<1> QED  BY <1>1

LEMMA Built ==
  ASSUME NEW n \in Nat, NEW s, s = [i \in 1..n |-> s[i]]
  PROVE  IsSeq(s) /\ Len(s) = n
<1> DEFINE S == {s[i] : i \in 1..n}
<1>1. s \in [1..n -> S]
  OBVIOUS
<1>2. s \in Seq(S) /\ Len(s) = n
  <2> HIDE DEF S
  <2> QED  BY <1>1
<1> QED  BY <1>2, OfSeq

LEMMA SameSeq ==
  ASSUME NEW a, IsSeq(a), NEW b, IsSeq(b), Len(a) = Len(b),
         \A i \in 1..Len(a) : a[i] = b[i]
  PROVE  a = b
<1>1. PICK S : a \in Seq(S) /\ b \in Seq(S)
  BY Joined
<1> QED  BY <1>1

LEMMA Concat ==
  ASSUME NEW a, IsSeq(a), NEW b, IsSeq(b)
  PROVE  /\ IsSeq(a \o b) /\ Len(a \o b) = Len(a) + Len(b)
         /\ \A i \in 1..(Len(a) + Len(b)) :
              (a \o b)[i] = IF i <= Len(a) THEN a[i] ELSE b[i - Len(a)]
<1>1. PICK S : a \in Seq(S) /\ b \in Seq(S)
  BY Joined
<1>2. a \o b \in Seq(S)
  BY <1>1
<1>3. IsSeq(a \o b)
  BY <1>2, OfSeq
<1>4. Len(a \o b) = Len(a) + Len(b)
  BY <1>1
<1>5. \A i \in 1..(Len(a) + Len(b)) :
        (a \o b)[i] = IF i <= Len(a) THEN a[i] ELSE b[i - Len(a)]
  BY <1>1, ConcatProperties
<1> QED  BY <1>3, <1>4, <1>5

LEMMA ConcatAssoc ==
  ASSUME NEW a, IsSeq(a), NEW b, IsSeq(b), NEW c, IsSeq(c)
  PROVE  (a \o b) \o c = a \o (b \o c)
<1>1. PICK S : a \in Seq(S) /\ b \in Seq(S)
  BY Joined
<1>2. PICK T : c \in Seq(T)
  BY DEF IsSeq
<1>3. a \in Seq(S \cup T) /\ b \in Seq(S \cup T) /\ c \in Seq(S \cup T)
  BY <1>1, <1>2
<1> QED  BY <1>3

LEMMA ConcatEmpty ==
  ASSUME NEW a, IsSeq(a)
  PROVE  a \o <<>> = a /\ <<>> \o a = a
BY DEF IsSeq

LEMMA Two ==
  ASSUME NEW a \in Int, NEW b \in Int
  PROVE  /\ Min({a, b}) = IF a <= b THEN a ELSE b
         /\ Max({a, b}) = IF a <= b THEN b ELSE a
<1>1. Min({a, b}) \in {a, b} /\ \A y \in {a, b} : Min({a, b}) <= y
  <2>1. \E x \in {a, b} : \A y \in {a, b} : x <= y
    OBVIOUS
  <2> QED  BY <2>1 DEF Min
<1>2. Max({a, b}) \in {a, b} /\ \A y \in {a, b} : Max({a, b}) >= y
  <2>1. \E x \in {a, b} : \A y \in {a, b} : x >= y
    OBVIOUS
  <2> QED  BY <2>1 DEF Max
<1> QED  BY <1>1, <1>2

LEMMA PrefixIs ==
  ASSUME NEW t, IsSeq(t), NEW n \in Nat
  PROVE  /\ IsSeq(Prefix(t, n))
         /\ Len(Prefix(t, n)) = IF n <= Len(t) THEN n ELSE Len(t)
         /\ \A i \in 1..Len(Prefix(t, n)) : Prefix(t, n)[i] = t[i]
<1> DEFINE m == IF n <= Len(t) THEN n ELSE Len(t)
<1>0. Len(t) \in Nat
  BY Facts
<1>1. Prefix(t, n) = SubSeq(t, 1, m)
  BY <1>0, Two DEF Prefix
<1>2. PICK S : t \in Seq(S)
  BY DEF IsSeq
<1>3. m \in 0..Len(t)
  BY <1>0
<1> HIDE DEF m
<1>4. SubSeq(t, 1, m) \in Seq(S) /\ Len(SubSeq(t, 1, m)) = m
      /\ \A i \in 1..m : SubSeq(t, 1, m)[i] = t[i]
  BY <1>2, <1>3
<1> QED  BY <1>1, <1>4, OfSeq DEF m

LEMMA PrefixAll ==
  ASSUME NEW t, IsSeq(t), NEW n \in Nat, n >= Len(t)
  PROVE  Prefix(t, n) = t
<1>1. Len(t) \in Nat
  BY Facts
<1> QED  BY <1>1, PrefixIs, SameSeq

LEMMA PrefixConcat ==
  ASSUME NEW a, IsSeq(a), NEW b, IsSeq(b), NEW n \in Nat
  PROVE  /\ n <= Len(a) => Prefix(a \o b, n) = Prefix(a, n)
         /\ n >= Len(a) => Prefix(a \o b, n) = a \o Prefix(b, n - Len(a))
<1>0. Len(a) \in Nat /\ Len(b) \in Nat /\ IsSeq(a \o b) /\ Len(a \o b) = Len(a) + Len(b)
  BY Facts, Concat
<1> DEFINE p == Prefix(a \o b, n)
<1>1. IsSeq(p) /\ Len(p) = (IF n <= Len(a) + Len(b) THEN n ELSE Len(a) + Len(b))
      /\ \A i \in 1..Len(p) : p[i] = (a \o b)[i]
  BY <1>0, PrefixIs
<1> HIDE DEF p
<1>2. \A i \in 1..Len(p) : p[i] = IF i <= Len(a) THEN a[i] ELSE b[i - Len(a)]
  BY <1>0, <1>1, Concat
<1>3. CASE n <= Len(a)
  <2> DEFINE q == Prefix(a, n)
  <2>1. IsSeq(q) /\ Len(q) = n /\ \A i \in 1..Len(q) : q[i] = a[i]
    BY <1>3, PrefixIs
  <2> HIDE DEF q
  <2>2. p = q
    BY <1>0, <1>1, <1>2, <1>3, <2>1, SameSeq
  <2>3. n = Len(a) => Prefix(b, n - Len(a)) = <<>>
    <3>1. SUFFICES ASSUME n = Len(a) PROVE Prefix(b, 0) = <<>>
      BY <1>0
    <3>2. IsSeq(Prefix(b, 0)) /\ Len(Prefix(b, 0)) = 0
      BY <1>0, PrefixIs
    <3> QED  BY <3>2 DEF IsSeq
  <2>4. n = Len(a) => q = a
    BY <1>0, <2>1, SameSeq
  <2>5. n >= Len(a) => p = a \o Prefix(b, n - Len(a))
    <3>1. SUFFICES ASSUME n = Len(a) PROVE p = a \o Prefix(b, n - Len(a))
      BY <1>0, <1>3
    <3>2. a \o Prefix(b, n - Len(a)) = a
      BY <2>3, <3>1, ConcatEmpty
    <3> QED  BY <2>2, <2>4, <3>1, <3>2
  <2> QED  BY <2>2, <2>5 DEF p, q
<1>4. CASE n > Len(a)
  <2> DEFINE r == Prefix(b, n - Len(a))
  <2>1. n - Len(a) \in Nat
    BY <1>0, <1>4
  <2>2. IsSeq(r) /\ Len(r) = (IF n - Len(a) <= Len(b) THEN n - Len(a) ELSE Len(b))
        /\ \A i \in 1..Len(r) : r[i] = b[i]
    BY <2>1, PrefixIs
  <2> HIDE DEF r
  <2>3. IsSeq(a \o r) /\ Len(a \o r) = Len(a) + Len(r)
        /\ \A i \in 1..(Len(a) + Len(r)) : (a \o r)[i] = IF i <= Len(a) THEN a[i] ELSE r[i - Len(a)]
    BY <2>2, Concat
  <2>4. Len(a \o r) = Len(p)
    BY <1>0, <1>1, <1>4, <2>2, <2>3
  <2>5. ASSUME NEW i \in 1..Len(p) PROVE p[i] = (a \o r)[i]
    <3>1. i \in 1..(Len(a) + Len(r)) /\ Len(r) \in Nat
      BY <2>2, <2>3, <2>4, Facts
    <3>2. CASE i <= Len(a)
      BY <1>2, <2>3, <3>1, <3>2
    <3>3. CASE i > Len(a)
      <4>1. i - Len(a) \in 1..Len(r)
        BY <1>0, <3>1, <3>3
      <4> QED  BY <1>0, <1>2, <2>2, <2>3, <3>1, <3>3, <4>1
    <3> QED  BY <1>0, <3>1, <3>2, <3>3
  <2>6. p = a \o r
    BY <1>1, <2>3, <2>4, <2>5, SameSeq
  <2> QED  BY <1>0, <1>4, <2>6 DEF p, r
<1> QED  BY <1>0, <1>3, <1>4

LEMMA RepeatedIs ==
  ASSUME NEW c, NEW n \in Nat
  PROVE  IsSeq(Repeated(c, n)) /\ Len(Repeated(c, n)) = n
         /\ \A i \in 1..n : Repeated(c, n)[i] = c
<1> DEFINE s == Repeated(c, n)
<1>1. s = [i \in 1..n |-> c]
  BY DEF Repeated
<1> HIDE DEF s
<1>2. s = [i \in 1..n |-> s[i]]
  BY <1>1
<1> QED  BY <1>1, <1>2, Built DEF s

\* A text that a limit has cut is cut there however it goes on.
LEMMA LimitedExtends ==
  ASSUME NEW a, IsSeq(a), NEW b, IsSeq(b), NEW max \in Nat \ {0}, NEW mark, IsSeq(mark),
         Len(a) >= max
  PROVE  Limited(a \o b, max, mark) = Limited(a, max, mark) /\ Len(a \o b) >= max
<1>1. Len(a) \in Nat /\ Len(b) \in Nat /\ Len(a \o b) = Len(a) + Len(b)
  BY Facts, Concat
<1> DEFINE m == Prefix(mark, max - 1)
<1>2. max - 1 \in Nat
  OBVIOUS
<1>3. Len(m) \in Nat /\ Len(m) <= max - 1
  <2>1. Len(mark) \in Nat
    BY Facts
  <2> QED  BY <1>2, <2>1, PrefixIs
<1>4. Limited(a \o b, max, mark) = Prefix(a \o b, max - 1 - Len(m)) \o m
  BY <1>1, SMTT(30) DEF Limited
<1>5. Limited(a, max, mark) = Prefix(a, max - 1 - Len(m)) \o m
  BY <1>1, SMTT(30) DEF Limited
<1> HIDE DEF m
<1>6. max - 1 - Len(m) \in Nat /\ max - 1 - Len(m) <= Len(a)
  BY <1>1, <1>3
<1>7. Prefix(a \o b, max - 1 - Len(m)) = Prefix(a, max - 1 - Len(m))
  BY <1>6, PrefixConcat
<1> QED  BY <1>1, <1>4, <1>5, <1>7, SMTT(30)

-----------------------------------------------------------------------------
(* Buffers.                                                                *)

\* A buffer as its functions leave it.
IsBuffer(b) ==
  /\ b = [start |-> b.start, text |-> b.text, size |-> b.size, max |-> b.max, mark |-> b.mark]
  /\ b.start \in BOOLEAN /\ b.size \in Nat \ {0} /\ b.max \in Nat
  /\ IsSeq(b.text) /\ IsSeq(b.mark)
  /\ WellFormed(b)

\* What a writer does to b when its whole output is out.
Written(b, r, out) ==
  /\ r = [buf |-> r.buf, rc |-> r.rc]
  /\ IsBuffer(r.buf) /\ r.buf.max = b.max /\ r.buf.mark = b.mark
  /\ r.rc \in {-1, 0, 1}
  /\ r.rc = 0 => r.buf.text = b.text \o out /\ (b.start => r.buf.start)
  /\ r.rc = 1 => /\ b.max # 0 /\ (b.start => r.buf.start)
                 /\ b.start => /\ Len(b.text \o out) >= b.max
                               /\ r.buf.text = Limited(b.text \o out, b.max, b.mark)
  /\ r.rc = -1 => ~r.buf.start

\* The mark over the end of a text that was cut at the limit.
LEMMA Truncated ==
  ASSUME NEW b, IsBuffer(b), NEW max \in Nat \ {0}, Len(b.text) <= max - 1
  PROVE  LET t == zlog_buf_truncate(b) IN
         /\ t = [b EXCEPT !.text = t.text]
         /\ IsSeq(t.text) /\ Len(t.text) = Len(b.text)
         /\ \A out : IsSeq(out) /\ b.text = Prefix(out, max - 1) /\ Len(out) >= max
              => t.text = Limited(out, max, b.mark)
<1> DEFINE T == b.text
           M == b.mark
           len == IF Len(M) <= Len(T) THEN Len(M) ELSE Len(T)
           t == zlog_buf_truncate(b)
           u == Prefix(T, Len(T) - len) \o Prefix(M, len)
<1>1. IsSeq(T) /\ IsSeq(M) /\ Len(T) \in Nat /\ Len(M) \in Nat
  BY Facts DEF IsBuffer
<1>2. Min({Len(M), Len(T)}) = len
  BY <1>1, Two, SMTT(30)
<1>3. t = [b EXCEPT !.text = u]
  BY <1>2 DEF zlog_buf_truncate, IsBuffer
<1>4. t.text = u /\ t = [b EXCEPT !.text = t.text]
  BY <1>3 DEF IsBuffer
<1>5. len \in Nat /\ Len(T) - len \in Nat /\ len <= Len(M) /\ len <= Len(T)
  BY <1>1
<1> HIDE DEF t, len, T, M
<1>6. IsSeq(Prefix(T, Len(T) - len)) /\ Len(Prefix(T, Len(T) - len)) = Len(T) - len
  BY <1>1, <1>5, PrefixIs
<1>7. IsSeq(Prefix(M, len)) /\ Len(Prefix(M, len)) = len
  BY <1>1, <1>5, PrefixIs
<1>8. IsSeq(u) /\ Len(u) = Len(T)
  <2>1. PICK p, q : p = Prefix(T, Len(T) - len) /\ q = Prefix(M, len)
    OBVIOUS
  <2>2. IsSeq(p) /\ IsSeq(q) /\ u = p \o q /\ Len(p) = Len(T) - len /\ Len(q) = len
    BY <1>6, <1>7, <2>1
  <2> HIDE DEF u
  <2>3. IsSeq(p \o q) /\ Len(p \o q) = Len(p) + Len(q)
    BY <2>2, Concat
  <2> QED  BY <1>1, <1>5, <2>2, <2>3
<1>9. ASSUME NEW out, IsSeq(out), T = Prefix(out, max - 1), Len(out) >= max
      PROVE  u = Limited(out, max, M)
  <2> DEFINE m == Prefix(M, max - 1)
  <2>1. Len(out) \in Nat /\ max - 1 \in Nat
    BY <1>9, Facts
  <2>2. Len(T) = max - 1
    BY <1>9, <2>1, PrefixIs
  <2>3. IsSeq(m) /\ Len(m) = len /\ m = Prefix(M, len)
    <3>1. IsSeq(m) /\ Len(m) = len
      BY <1>1, <2>1, <2>2, PrefixIs DEF len
    <3>2. CASE len = max - 1
      BY <3>1, <3>2
    <3>3. CASE len # max - 1
      <4>1. len = Len(M) /\ max - 1 >= Len(M) /\ len >= Len(M)
        BY <1>1, <2>1, <2>2, <3>3 DEF len
      <4> QED  BY <1>1, <1>5, <2>1, <3>1, <4>1, PrefixAll
    <3> QED  BY <3>1, <3>2, <3>3
  <2>4. Limited(out, max, M) = Prefix(out, max - 1 - Len(m)) \o m
    BY <1>9, <2>1 DEF Limited
  <2> HIDE DEF m
  <2>5. Prefix(T, Len(T) - len) = Prefix(out, max - 1 - len)
    <3> DEFINE k == max - 1 - len
               p == Prefix(T, k)
               q == Prefix(out, k)
    <3>1. k \in Nat /\ Len(T) - len = k /\ k <= Len(T) /\ k <= Len(out)
      BY <1>5, <1>9, <2>1, <2>2
    <3>2. IsSeq(p) /\ Len(p) = k /\ \A i \in 1..Len(p) : p[i] = T[i]
      BY <1>1, <3>1, PrefixIs
    <3>3. IsSeq(q) /\ Len(q) = k /\ \A i \in 1..Len(q) : q[i] = out[i]
      BY <1>9, <3>1, PrefixIs
    <3>4. \A i \in 1..Len(T) : T[i] = out[i]
      BY <1>9, <2>1, PrefixIs
    <3> HIDE DEF p, q, k
    <3>5. \A i \in 1..k : p[i] = q[i]
      BY <1>1, <3>1, <3>2, <3>3, <3>4, SMTT(30)
    <3>6. p = q
      BY <3>2, <3>3, <3>5, SameSeq
    <3> QED  BY <3>1, <3>6 DEF p, q, k
  <2> QED  BY <2>3, <2>4, <2>5
<1> HIDE DEF u
<1> QED  BY <1>4, <1>8, <1>9 DEF t, T, M

\* What zlog_buf_resize does with b for inc more bytes.
ResizedBy(b, r, inc) ==
  /\ r = [buf |-> r.buf, rc |-> r.rc] /\ r.rc \in {-1, 0, 1}
  /\ r.rc = -1 => r.buf = [b EXCEPT !.start = FALSE, !.text = <<>>]
                  /\ (b.max # 0 => b.size < b.max)
  /\ r.rc = 0 => /\ r.buf = [b EXCEPT !.start = TRUE, !.size = r.buf.size]
                 /\ r.buf.size \in Nat /\ r.buf.size >= b.size + inc
                 /\ (b.max # 0 => r.buf.size <= b.max)
  /\ r.rc = 1 => /\ r.buf = [b EXCEPT !.start = TRUE, !.size = b.max]
                 /\ b.max # 0 /\ (b.size = b.max \/ b.size + inc > b.max)

LEMMA Resized ==
  ASSUME NEW b, IsBuffer(b), NEW inc \in Nat, NEW mem
  PROVE  ResizedBy(b, zlog_buf_resize(b, inc, mem), inc)
<1> DEFINE wanted == b.size + inc
           lim == IF wanted <= b.max THEN wanted ELSE b.max
           r == zlog_buf_resize(b, inc, mem)
<1>1. b.size \in Nat /\ b.max \in Nat /\ wanted \in Nat /\ b.start \in BOOLEAN
  BY DEF IsBuffer
<1>2. Min({wanted, b.max}) = lim
  BY <1>1, Two
<1>3. CASE b.max # 0 /\ b.size >= b.max
  <2>1. b.start /\ b.size = b.max
    BY <1>1, <1>3 DEF IsBuffer, WellFormed
  <2>2. b = [b EXCEPT !.start = TRUE, !.size = b.max]
    BY <2>1 DEF IsBuffer
  <2>3. r = [buf |-> b, rc |-> 1]
    BY <1>3 DEF zlog_buf_resize, Result
  <2> HIDE DEF r
  <2>4. r.buf = b /\ r.rc = 1 /\ r = [buf |-> r.buf, rc |-> r.rc]
    BY <2>3
  <2> QED  BY <1>3, <2>1, <2>2, <2>4 DEF r, ResizedBy
<1>4. CASE ~(b.max # 0 /\ b.size >= b.max)
  <2> DEFINE new == IF b.max = 0 THEN b.size + (3 * inc) \div 2 ELSE lim
  <2>1. new \in Nat /\ (b.max = 0 => new >= wanted) /\ (b.max # 0 => new <= b.max)
    BY <1>1
  <2>2. CASE new > mem
    <3>1. r = [buf |-> [b EXCEPT !.start = FALSE, !.text = <<>>], rc |-> -1]
      BY <1>2, <1>4, <2>2 DEF zlog_buf_resize, Result
    <3> HIDE DEF r
    <3>2. r.buf = [b EXCEPT !.start = FALSE, !.text = <<>>] /\ r.rc = -1
          /\ r = [buf |-> r.buf, rc |-> r.rc]
      BY <3>1
    <3> QED  BY <1>1, <1>4, <3>2 DEF r, ResizedBy
  <2>3. CASE ~(new > mem)
    <3>1. r = [buf |-> [b EXCEPT !.start = TRUE, !.size = new],
               rc |-> IF b.max # 0 /\ wanted > b.max THEN 1 ELSE 0]
      BY <1>2, <1>4, <2>3 DEF zlog_buf_resize, Result
    <3> HIDE DEF r
    <3>2. r.buf = [b EXCEPT !.start = TRUE, !.size = new]
          /\ r.rc = (IF b.max # 0 /\ wanted > b.max THEN 1 ELSE 0)
          /\ r = [buf |-> r.buf, rc |-> r.rc]
      BY <3>1
    <3>3. r.buf.size = new
      BY <3>2 DEF IsBuffer
    <3>4. CASE b.max # 0 /\ wanted > b.max
      <4>1. new = b.max
        BY <1>1, <3>4
      <4>2. r.rc = 1 /\ r.buf = [b EXCEPT !.start = TRUE, !.size = b.max]
        BY <3>2, <3>4, <4>1
      <4> QED  BY <3>2, <3>4, <4>2 DEF r, ResizedBy
    <3>5. CASE ~(b.max # 0 /\ wanted > b.max)
      <4>1. new >= wanted
        BY <1>1, <2>1, <3>5
      <4> HIDE DEF new
      <4> QED  BY <1>1, <2>1, <3>2, <3>3, <3>5, <4>1 DEF r, ResizedBy
    <3> QED  BY <3>4, <3>5
  <2> QED  BY <2>2, <2>3
<1> QED  BY <1>3, <1>4

\* WriteText: the whole output, or the output cut at the limit, or nothing
\* for want of memory.
LEMMA TextWritten ==
  ASSUME NEW b, IsBuffer(b), NEW out, IsSeq(out), NEW mem
  PROVE  Written(b, WriteText(b, out, mem), out)
<1> DEFINE T == b.text
           len == Len(out)
           w == WriteText(b, out, mem)
<1>1. IsSeq(T) /\ Len(T) \in Nat /\ len \in Nat /\ b.size \in Nat \ {0} /\ b.max \in Nat
      /\ b.start \in BOOLEAN /\ IsSeq(b.mark)
  BY Facts DEF IsBuffer
<1>2. IsSeq(T \o out) /\ Len(T \o out) = Len(T) + len
  BY <1>1, Concat
<1>3. Left(b) = (IF b.start THEN b.size - 1 - Len(T) ELSE 0) /\ Left(b) \in Nat
  BY <1>1 DEF Left, IsBuffer, WellFormed
<1>4. ~b.start => T = <<>> /\ Len(T) = 0
  BY DEF IsBuffer, WellFormed
<1>5. PICK r : r = IF len > Left(b) THEN zlog_buf_resize(b, len - Left(b), mem) ELSE Result(b, 0)
  OBVIOUS
<1> DEFINE room == IF r.rc = 0 THEN len ELSE Left(r.buf)
           written == [r.buf EXCEPT !.text = @ \o Prefix(out, room)]
<1>6. w = CASE r.rc < 0 -> r
            [] r.rc > 0 -> Result(zlog_buf_truncate(written), 1)
            [] r.rc = 0 -> Result(written, 0)
  BY <1>5 DEF WriteText
<1>a. (r.rc = -1 => w = r) /\ (r.rc = 0 => w = Result(written, 0))
      /\ (r.rc = 1 => w = Result(zlog_buf_truncate(written), 1))
  <2> HIDE DEF written, w
  <2> QED  BY <1>6
<1>7. Prefix(out, len) = out
  BY <1>1, PrefixAll
<1>8. CASE ~(len > Left(b))
  <2>1. r = [buf |-> b, rc |-> 0]
    BY <1>5, <1>8 DEF Result
  <2>2. r.buf = b /\ r.rc = 0
    BY <2>1
  <2>3. written = [b EXCEPT !.text = T \o out]
    BY <1>7, <2>2 DEF IsBuffer
  <2>4. w = [buf |-> [b EXCEPT !.text = T \o out], rc |-> 0]
    BY <1>a, <2>2, <2>3 DEF Result
  <2>5. PICK c : c = [b EXCEPT !.text = T \o out]
    OBVIOUS
  <2>6. c.start = b.start /\ c.size = b.size /\ c.max = b.max /\ c.mark = b.mark
        /\ c.text = T \o out
        /\ c = [start |-> c.start, text |-> c.text, size |-> c.size, max |-> c.max, mark |-> c.mark]
    BY <2>5 DEF IsBuffer
  <2>7. ~b.start => T \o out = <<>>
    BY <1>1, <1>2, <1>3, <1>4, <1>8 DEF IsSeq
  <2>8. WellFormed(c)
    BY <1>1, <1>2, <1>3, <1>8, <2>6, <2>7 DEF IsBuffer, WellFormed
  <2>9. IsBuffer(c)
    BY <1>1, <1>2, <2>6, <2>8 DEF IsBuffer
  <2>10. w.buf = c /\ w.rc = 0 /\ w = [buf |-> w.buf, rc |-> w.rc]
    BY <2>4, <2>5
  <2> HIDE DEF w
  <2> QED  BY <2>6, <2>9, <2>10 DEF Written, w
<1>9. CASE len > Left(b)
  <2> DEFINE inc == len - Left(b)
  <2>1. inc \in Nat /\ r = zlog_buf_resize(b, inc, mem)
    BY <1>1, <1>3, <1>5, <1>9
  <2>2. ResizedBy(b, r, inc)
    BY <2>1, Resized
  <2>a. r.rc \in {-1, 0, 1}
    BY <2>2 DEF ResizedBy
  <2>3. CASE r.rc = -1
    <3>1. w = r
      BY <1>a, <2>3
    <3>2. PICK c : c = r.buf
      OBVIOUS
    <3>3. c.start = FALSE /\ c.size = b.size /\ c.max = b.max /\ c.mark = b.mark /\ c.text = <<>>
          /\ c = [start |-> c.start, text |-> c.text, size |-> c.size, max |-> c.max, mark |-> c.mark]
      BY <2>2, <2>3, <3>2 DEF IsBuffer, ResizedBy
    <3>4. WellFormed(c)
      BY <2>2, <2>3, <3>3 DEF IsBuffer, WellFormed, ResizedBy
    <3>5. IsSeq(<<>>)
      BY DEF IsSeq
    <3>6. IsBuffer(c)
      BY <1>1, <3>3, <3>4, <3>5 DEF IsBuffer
    <3> HIDE DEF w
    <3> QED  BY <2>2, <2>3, <3>1, <3>2, <3>3, <3>6 DEF Written, w, ResizedBy
  <2>4. CASE r.rc = 0
    <3>1. PICK c : c = [b EXCEPT !.start = TRUE, !.size = r.buf.size, !.text = T \o out]
      OBVIOUS
    <3>2. written = c
      BY <1>7, <2>2, <2>4, <3>1 DEF IsBuffer, ResizedBy
    <3>3. w = [buf |-> c, rc |-> 0]
      BY <1>a, <2>4, <3>2 DEF Result
    <3>4. c.start = TRUE /\ c.size = r.buf.size /\ c.max = b.max /\ c.mark = b.mark
          /\ c.text = T \o out
          /\ c = [start |-> c.start, text |-> c.text, size |-> c.size, max |-> c.max, mark |-> c.mark]
      BY <3>1 DEF IsBuffer
    <3>5. c.size \in Nat /\ c.size >= b.size + inc /\ (b.max # 0 => c.size <= b.max)
      BY <2>2, <2>4, <3>4 DEF ResizedBy
    <3>6. Len(T) + len <= c.size - 1
      <4>1. CASE b.start
        BY <1>1, <1>3, <3>5, <4>1, SMTT(30)
      <4>2. CASE ~b.start
        <5>1. b.size >= 1
          BY <1>1
        <5> QED  BY <1>1, <1>3, <1>4, <3>5, <4>2, <5>1
      <4> QED  BY <4>1, <4>2
    <3>7. WellFormed(c)
      BY <1>2, <3>4, <3>5, <3>6 DEF WellFormed
    <3>8. IsBuffer(c)
      <4>1. c.size \in Nat \ {0}
        BY <1>1, <3>5, <2>1
      <4> QED  BY <1>1, <1>2, <3>4, <3>7, <4>1 DEF IsBuffer
    <3>9. w.buf = c /\ w.rc = 0 /\ w = [buf |-> w.buf, rc |-> w.rc]
      BY <3>3
    <3> HIDE DEF w
    <3> QED  BY <3>4, <3>8, <3>9 DEF Written, w
  <2>5. CASE r.rc = 1
    <3>1. b.max # 0 /\ (b.size = b.max \/ b.size + inc > b.max)
      BY <2>2, <2>5 DEF ResizedBy
    <3>2. r.buf.text = T /\ r.buf.start = TRUE /\ r.buf.size = b.max
      BY <2>2, <2>5 DEF ResizedBy, IsBuffer
    <3>3. room = b.max - 1 - Len(T)
      BY <2>5, <3>2 DEF Left
    <3>4. Len(T) <= b.max - 1 /\ room \in Nat
      <4>1. b.max \in Nat /\ b.max >= 1
        BY <1>1, <3>1
      <4>2. CASE b.start
        BY <1>1, <3>1, <3>3, <4>1, <4>2 DEF IsBuffer, WellFormed
      <4>3. CASE ~b.start
        BY <1>1, <1>4, <3>3, <4>1, <4>3
      <4> QED  BY <4>2, <4>3
    <3> HIDE DEF room
    <3> DEFINE P == Prefix(out, room)
    <3>5. IsSeq(P) /\ Len(P) <= room /\ Len(P) \in Nat
      <4>1. Len(P) = IF room <= len THEN room ELSE len
        BY <3>4, PrefixIs
      <4>2. IsSeq(P)
        BY <3>4, PrefixIs
      <4> HIDE DEF P
      <4> QED  BY <1>1, <3>4, <4>1, <4>2
    <3> HIDE DEF P
    <3>6. PICK c : c = [b EXCEPT !.start = TRUE, !.size = b.max, !.text = T \o P]
      OBVIOUS
    <3>7. written = c
      BY <2>2, <2>5, <3>2, <3>6 DEF IsBuffer, ResizedBy, P
    <3>8. c.start = TRUE /\ c.size = b.max /\ c.max = b.max /\ c.mark = b.mark
          /\ c.text = T \o P
          /\ c = [start |-> c.start, text |-> c.text, size |-> c.size, max |-> c.max, mark |-> c.mark]
      BY <3>6 DEF IsBuffer
    <3>9. IsSeq(c.text) /\ Len(c.text) = Len(T) + Len(P) /\ Len(c.text) <= b.max - 1
      BY <1>1, <3>3, <3>4, <3>5, <3>8, Concat, SMTT(30)
    <3>10. IsBuffer(c)
      <4>1. WellFormed(c)
        BY <1>1, <3>8, <3>9 DEF WellFormed
      <4> QED  BY <1>1, <3>1, <3>8, <3>9, <4>1 DEF IsBuffer
    <3>11. PICK d : d = zlog_buf_truncate(c)
      OBVIOUS
    <3>12. w = [buf |-> d, rc |-> 1]
      BY <1>a, <2>5, <3>7, <3>11 DEF Result
    <3>13. b.max \in Nat \ {0}
      BY <1>1, <3>1
    <3>14. /\ d = [c EXCEPT !.text = d.text]
           /\ IsSeq(d.text) /\ Len(d.text) = Len(c.text)
           /\ \A o : IsSeq(o) /\ c.text = Prefix(o, b.max - 1) /\ Len(o) >= b.max
                => d.text = Limited(o, b.max, c.mark)
      BY <3>9, <3>10, <3>11, <3>13, Truncated
    <3>15. d.start = TRUE /\ d.size = b.max /\ d.max = b.max /\ d.mark = b.mark
           /\ d = [start |-> d.start, text |-> d.text, size |-> d.size, max |-> d.max, mark |-> d.mark]
      <4>1. PICK x : x = d.text
        OBVIOUS
      <4>2. d = [start |-> TRUE, text |-> x, size |-> b.max, max |-> b.max, mark |-> b.mark]
        BY <3>8, <3>14, <4>1
      <4> QED  BY <4>1, <4>2
    <3>16. IsBuffer(d)
      <4>1. WellFormed(d)
        BY <1>1, <3>9, <3>14, <3>15 DEF WellFormed
      <4> QED  BY <1>1, <3>1, <3>14, <3>15, <4>1 DEF IsBuffer
    <3>17. ASSUME b.start
           PROVE  Len(T \o out) >= b.max /\ d.text = Limited(T \o out, b.max, b.mark)
      <4>1. Len(T \o out) >= b.max
        <5>1. Left(b) = b.size - 1 - Len(T)
          BY <1>3, <3>17
        <5>2. Len(T) + len >= b.max
          <6> HIDE DEF T, len
          <6> QED  BY <1>1, <1>9, <3>1, <5>1
        <5> QED  BY <1>2, <5>2
      <4>2. Prefix(T \o out, b.max - 1) = T \o Prefix(out, b.max - 1 - Len(T))
        <5>1. PICK k \in Nat : k = b.max - 1
          BY <3>13
        <5>2. k >= Len(T)
          BY <1>1, <3>4, <5>1
        <5>3. Prefix(T \o out, k) = T \o Prefix(out, k - Len(T))
          BY <1>1, <5>1, <5>2, PrefixConcat, ZenonT(60)
        <5> QED  BY <5>1, <5>3
      <4>3. c.text = Prefix(T \o out, b.max - 1)
        BY <3>3, <3>8, <4>2 DEF P
      <4> QED  BY <1>2, <3>8, <3>14, <4>1, <4>3
    <3>18. w.buf = d /\ w.rc = 1 /\ w = [buf |-> w.buf, rc |-> w.rc]
      BY <3>12
    <3> HIDE DEF w
    <3> QED  BY <3>1, <3>15, <3>16, <3>17, <3>18 DEF Written, w
  <2> QED  BY <2>a, <2>3, <2>4, <2>5
<1> QED  BY <1>8, <1>9

-----------------------------------------------------------------------------
(* Numbers as texts.                                                       *)

LEMMA NumberIs ==
  ASSUME NEW n \in Nat, NEW base \in Nat \ {0, 1}, NEW w \in Nat
  PROVE  /\ IsSeq(NumberText(n, base, w)) /\ IsSeq(Digits(n, base))
         /\ Len(Digits(n, base)) \in Nat \ {0}
         /\ NumberText(n, base, w) =
              Repeated(Zero, IF w > Len(Digits(n, base)) THEN w - Len(Digits(n, base)) ELSE 0)
              \o Digits(n, base)
         /\ w = 0 => NumberText(n, base, 1) = NumberText(n, base, w)
<1> DEFINE q == Quotient(n, base)
           D == Digits(n, base)
<1>1. PICK k \in Nat \ {0} : /\ D = [i \in 1..k |-> <<"digit", q[k - i] % base>>]
                             /\ \A j \in Nat : j >= k => q[j] = 0
  BY DigitsAre
<1>2. \A j \in Nat : q[j] = n \div Power(base)[j]
  BY QuotientIsDiv
<1> HIDE DEF D, q
<1>3. IsSeq(D) /\ Len(D) = k /\ \A i \in 1..k : D[i] = <<"digit", q[k - i] % base>>
  <2>1. \A i \in 1..k : D[i] = <<"digit", q[k - i] % base>>
    BY <1>1
  <2>2. D = [i \in 1..k |-> D[i]]
    BY <1>1
  <2> QED  BY <2>1, <2>2, Built
<1> DEFINE len == IF w <= k THEN k ELSE w
           z == IF w > k THEN w - k ELSE 0
           N == NumberText(n, base, w)
           R == Repeated(Zero, z)
<1>4. len \in Nat /\ z \in Nat /\ len = z + k
  BY <1>1
<1>5. Max({w, Len(D)}) = len
  <2>1. w \in Int /\ k \in Int
    OBVIOUS
  <2>2. Max({w, k}) = IF w <= k THEN k ELSE w
    BY <2>1, Two
  <2> QED  BY <1>3, <2>2
<1>6. N = [i \in 1..len |-> <<"digit", (n \div Power(base)[len - i]) % base>>]
  BY <1>5 DEF NumberText, D
<1> HIDE DEF N, len, z
<1>7. IsSeq(N) /\ Len(N) = len /\ \A i \in 1..len : N[i] = <<"digit", q[len - i] % base>>
  <2>1. ASSUME NEW i \in 1..len PROVE N[i] = <<"digit", q[len - i] % base>>
    <3>1. len - i \in Nat
      BY <1>4
    <3> QED  BY <1>2, <1>6, <3>1
  <2>2. N = [i \in 1..len |-> N[i]]
    BY <1>6
  <2> QED  BY <1>4, <2>1, <2>2, Built
<1>8. IsSeq(R) /\ Len(R) = z /\ \A i \in 1..z : R[i] = Zero
  BY <1>4, RepeatedIs
<1> HIDE DEF R
<1>9. IsSeq(R \o D) /\ Len(R \o D) = len
      /\ \A i \in 1..len : (R \o D)[i] = IF i <= z THEN R[i] ELSE D[i - z]
  BY <1>3, <1>4, <1>8, Concat, ZenonT(60)
<1>10. ASSUME NEW i \in 1..len PROVE N[i] = (R \o D)[i]
  <2>1. CASE i <= z
    <3>1. i \in 1..z /\ len - i \in Nat /\ len - i >= k
      BY <1>1, <1>4, <2>1
    <3>2. q[len - i] = 0
      BY <1>1, <3>1
    <3>3. 0 % base = 0
      OBVIOUS
    <3> QED  BY <1>7, <1>8, <1>9, <2>1, <3>1, <3>2, <3>3 DEF Zero
  <2>2. CASE i > z
    <3>1. i - z \in 1..k /\ k - (i - z) = len - i
      BY <1>1, <1>4, <2>2
    <3>2. (R \o D)[i] = D[i - z]
      BY <1>4, <1>9, <2>2
    <3> QED  BY <1>3, <1>7, <3>1, <3>2, ZenonT(60)
  <2>3. i <= z \/ i > z
    BY <1>4
  <2> QED  BY <2>1, <2>2, <2>3
<1>11. N = R \o D
  BY <1>7, <1>9, <1>10, SameSeq
<1>12. ASSUME w = 0 PROVE NumberText(n, base, 1) = N
  <2>1. Max({1, Len(D)}) = len
    <3>0. 1 \in Int /\ k \in Int
      OBVIOUS
    <3>1. Max({1, k}) = IF 1 <= k THEN k ELSE 1
      BY <3>0, Two
    <3> QED  BY <1>1, <1>3, <1>12, <3>1 DEF len
  <2> QED  BY <1>6, <2>1 DEF NumberText, D
<1> QED  BY <1>3, <1>7, <1>11, <1>12 DEF N, R, D, z

\* The three printf functions write the number with its zeros.
LEMMA NumberWritten ==
  ASSUME NEW b, IsBuffer(b), NEW n \in Nat, NEW base \in Nat \ {0, 1}, NEW w \in Nat, NEW mem
  PROVE  Written(b, PrintDigits(b, Digits(n, base), w, mem), NumberText(n, base, w))
<1> DEFINE D == Digits(n, base)
           out == NumberText(n, base, w)
           r == PrintDigits(b, D, w, mem)
<1>1. IsSeq(out)
      /\ out = Repeated(Zero, IF w > Len(D) THEN w - Len(D) ELSE 0) \o D
  BY NumberIs
<1>2. CASE b.start
  <2>1. r = WriteText(b, out, mem)
    BY <1>1, <1>2 DEF PrintDigits
  <2> HIDE DEF r, out
  <2>2. Written(b, WriteText(b, out, mem), out)
    BY <1>1, TextWritten
  <2> QED  BY <2>1, <2>2 DEF r, out
<1>3. CASE ~b.start
  <2>1. r = [buf |-> b, rc |-> -1]
    BY <1>3 DEF PrintDigits, Result
  <2> HIDE DEF r, out
  <2>2. r.buf = b /\ r.rc = -1 /\ r = [buf |-> r.buf, rc |-> r.rc]
    BY <2>1
  <2>3. Written(b, r, out)
    BY <1>3, <2>2 DEF Written
  <2> QED  BY <2>3 DEF r, out
<1> QED  BY <1>2, <1>3

-----------------------------------------------------------------------------
(* Texts one after another.                                                *)

Flat(s, n) == FlattenSeq([j \in 1..n |-> s[j]])

\* FlattenSeq of the first i texts of s.
LEMMA FlatIs ==
  ASSUME NEW n \in Nat, NEW s, \A i \in 1..n : IsSeq(s[i])
  PROVE  /\ Flat(s, 0) = <<>>
         /\ \A i \in 0..n : IsSeq(Flat(s, i))
         /\ \A i \in 1..n : Flat(s, i) = Flat(s, i - 1) \o s[i]
<1> DEFINE U == UNION {{s[i][k] : k \in DOMAIN s[i]} : i \in 1..n}
           Q == Seq(U)
           g == [x \in Q \X Nat |-> IF x[2] \in 1..n THEN x[1] \o s[x[2]] ELSE x[1]]
<1>1. \A i \in 1..n : s[i] \in Q
  <2>1. ASSUME NEW i \in 1..n PROVE s[i] \in Q
    <3>1. {s[i][k] : k \in DOMAIN s[i]} \subseteq U
      OBVIOUS
    <3>2. s[i] \in Seq({s[i][k] : k \in DOMAIN s[i]})
      BY DEF IsSeq
    <3> HIDE DEF U
    <3> QED  BY <3>1, <3>2, SeqMonotonic
  <2> QED  BY <2>1
<1> HIDE DEF U
<1>2. g \in [Q \X Nat -> Q] /\ <<>> \in Q
  BY <1>1
<1>3. ASSUME NEW x \in Q, NEW i \in 1..n PROVE g[<<x, i>>] = x \o s[i]
  <2>1. <<x, i>> \in Q \X Nat /\ <<x, i>>[1] = x /\ <<x, i>>[2] = i
    <3> HIDE DEF Q
    <3> QED  OBVIOUS
  <2> QED  BY <2>1
<1> HIDE DEF g
<1>4. PICK f : Iterates(f, Q, <<>>, g)
  <2> HIDE DEF Q
  <2> QED  BY <1>2, RunExists, Zenon
<1>5. f \in [Nat -> Q] /\ f[0] = <<>> /\ \A i \in 1..n : f[i] = f[i - 1] \o s[i]
  <2>1. f \in [Nat -> Q] /\ f[0] = <<>> /\ \A i \in Nat \ {0} : f[i] = g[<<f[i - 1], i>>]
    BY <1>4 DEF Iterates
  <2>2. ASSUME NEW i \in 1..n PROVE f[i] = f[i - 1] \o s[i]
    <3>1. i \in Nat \ {0} /\ f[i - 1] \in Q
      BY <2>1
    <3> QED  BY <1>3, <2>1, <3>1
  <2> QED  BY <2>1, <2>2
<1>6. ASSUME NEW i \in 0..n PROVE Flat(s, i) = f[i]
  <2> DEFINE a == [j \in 1..i |-> s[j]]
  <2>1. IsSeq(a) /\ Len(a) = i /\ \A j \in 1..i : a[j] = s[j]
    <3>1. a = [j \in 1..i |-> a[j]]
      OBVIOUS
    <3>2. i \in Nat
      OBVIOUS
    <3>3. \A j \in 1..i : a[j] = s[j]
      OBVIOUS
    <3> HIDE DEF a
    <3> QED  BY <3>1, <3>2, <3>3, Built
  <2>2. Flat(s, i) = FlattenSeq(a)
    BY DEF Flat
  <2> HIDE DEF a
  <2>3. CASE i = 0
    <3>1. a = <<>>
      BY <2>1, <2>3 DEF IsSeq
    <3> QED  BY <1>5, <2>1, <2>2, <2>3, <3>1 DEF FlattenSeq
  <2>4. CASE i # 0
    <3> DEFINE F(h) == h = [k \in 1..i |-> IF k = 1 THEN a[k] ELSE h[k - 1] \o a[k]]
               h == CHOOSE h : F(h)
               e == [k \in 1..i |-> f[k]]
    <3>1. FlattenSeq(a) = h[i]
      BY <2>1, <2>4 DEF FlattenSeq
    <3>2. F(e)
      <4>1. ASSUME NEW k \in 1..i
            PROVE  f[k] = IF k = 1 THEN a[k] ELSE e[k - 1] \o a[k]
        <5>0. k \in 1..n /\ a[k] = s[k]
          BY <2>1
        <5>1. k \in 1..n /\ f[k] = f[k - 1] \o a[k] /\ a[k] = s[k]
          BY <1>5, <5>0
        <5>2. CASE k = 1
          <6>1. f[k - 1] = <<>> /\ a[k] \in Q
            BY <1>1, <1>5, <5>1, <5>2
          <6> QED  BY <5>1, <5>2, <6>1
        <5>3. CASE k # 1
          <6>1. k - 1 \in 1..i
            BY <5>3
          <6> QED  BY <5>1, <5>3, <6>1
        <5> QED  BY <5>2, <5>3
      <4> QED  BY <4>1
    <3>3. F(h)
      <4> HIDE DEF F, e
      <4> QED  BY <3>2
    <3> HIDE DEF h, e
    <3>4. {k \in 1..i : h[k] # f[k]} = {}
      <4> DEFINE V == {k \in 1..i : h[k] # f[k]}
      <4>1. SUFFICES ASSUME V # {} PROVE FALSE
        OBVIOUS
      <4>2. PICK m \in V : \A k \in V : m <= k
        <5>1. V \in SUBSET Nat
          OBVIOUS
        <5> QED  BY <4>1, <5>1, LeastNumber
      <4>3. m \in 1..i /\ h[m] # f[m]
        BY <4>2
      <4>4. f[m] = IF m = 1 THEN a[m] ELSE f[m - 1] \o a[m]
        <5>1. e[m] = f[m] /\ (m # 1 => e[m - 1] = f[m - 1])
          BY <4>3 DEF e
        <5>2. e[m] = IF m = 1 THEN a[m] ELSE e[m - 1] \o a[m]
          BY <3>2, <4>3
        <5> QED  BY <5>1, <5>2
      <4>5. h[m] = IF m = 1 THEN a[m] ELSE h[m - 1] \o a[m]
        BY <3>3, <4>3
      <4>6. m # 1
        BY <4>3, <4>4, <4>5
      <4>7. h[m - 1] = f[m - 1]
        BY <4>2, <4>3, <4>6
      <4> QED  BY <4>3, <4>4, <4>5, <4>6, <4>7
    <3>5. h[i] = f[i]
      <4>1. i \in 1..i
        BY <2>4
      <4> QED  BY <3>4, <4>1
    <3> QED  BY <2>2, <3>1, <3>5
  <2> QED  BY <2>3, <2>4
<1>7. \A i \in 0..n : f[i] \in Seq(U)
  BY <1>5
<1>8. \A i \in 0..n : IsSeq(f[i])
  BY <1>7, OfSeq
<1>9. 0 \in 0..n /\ \A i \in 1..n : i \in 0..n /\ i - 1 \in 0..n
  OBVIOUS
<1> QED  BY <1>5, <1>6, <1>8, <1>9

LEMMA FlatType ==
  ASSUME NEW n \in Nat, NEW S, NEW s, \A i \in 1..n : s[i] \in Seq(S)
  PROVE  Flat(s, n) \in Seq(S)
<1>1. \A i \in 1..n : IsSeq(s[i])
  BY OfSeq
<1>2. Flat(s, 0) = <<>> /\ \A i \in 1..n : Flat(s, i) = Flat(s, i - 1) \o s[i]
  BY <1>1, FlatIs
<1> DEFINE V == {i \in 0..n : Flat(s, i) \notin Seq(S)}
<1>3. V = {}
  <2>1. SUFFICES ASSUME V # {} PROVE FALSE
    OBVIOUS
  <2>2. PICK m \in V : \A k \in V : m <= k
    <3>1. V \in SUBSET Nat
      OBVIOUS
    <3> QED  BY <2>1, <3>1, LeastNumber
  <2>3. m \in 0..n /\ Flat(s, m) \notin Seq(S)
    BY <2>2
  <2>a. m # 0
    <3>1. <<>> \in Seq(S)
      OBVIOUS
    <3> QED  BY <1>2, <2>3, <3>1
  <2>b. m \in 1..n /\ m - 1 \in 0..n /\ m - 1 < m
    BY <2>3, <2>a
  <2>4. Flat(s, m - 1) \in Seq(S) /\ s[m] \in Seq(S)
    BY <2>2, <2>b
  <2>5. Flat(s, m) = Flat(s, m - 1) \o s[m]
    BY <1>2, <2>b
  <2> QED  BY <2>3, <2>4, <2>5, ConcatProperties
<1> QED  BY <1>3

\* The first part of a long text is not longer than all of it.
LEMMA FlatGrows ==
  ASSUME NEW n \in Nat, NEW s, \A i \in 1..n : IsSeq(s[i]), NEW m \in 0..n
  PROVE  Len(Flat(s, n)) \in Nat /\ Len(Flat(s, m)) \in Nat /\ Len(Flat(s, n)) >= Len(Flat(s, m))
<1>1. \A i \in 0..n : IsSeq(Flat(s, i))
  BY FlatIs
<1>2. \A i \in 1..n : Flat(s, i) = Flat(s, i - 1) \o s[i]
  BY FlatIs
<1>3. \A i \in 0..n : Len(Flat(s, i)) \in Nat
  BY <1>1, Facts
<1> DEFINE V == {i \in m..n : ~(Len(Flat(s, i)) >= Len(Flat(s, m)))}
<1>4. V = {}
  <2>1. SUFFICES ASSUME V # {} PROVE FALSE
    OBVIOUS
  <2>2. PICK k \in V : \A i \in V : k <= i
    <3>1. V \in SUBSET Nat
      OBVIOUS
    <3> QED  BY <2>1, <3>1, LeastNumber
  <2>3. k # m /\ k \in m..n /\ k \in 1..n /\ k - 1 \in m..n /\ k - 1 \in 0..n /\ k \in 0..n
    BY <1>3, <2>2
  <2>4. Len(Flat(s, k - 1)) >= Len(Flat(s, m))
    BY <2>2, <2>3
  <2>5. Len(Flat(s, k)) = Len(Flat(s, k - 1)) + Len(s[k]) /\ Len(s[k]) \in Nat
    <3>1. PICK x, y : x = Flat(s, k - 1) /\ y = s[k]
      OBVIOUS
    <3>2. IsSeq(x) /\ IsSeq(y) /\ Flat(s, k) = x \o y
      BY <1>1, <1>2, <2>3, <3>1
    <3> QED  BY <3>1, <3>2, Concat, Facts, ZenonT(60)
  <2>6. PICK x, y, z, l : x = Len(Flat(s, k)) /\ y = Len(Flat(s, k - 1)) /\ z = Len(Flat(s, m))
                          /\ l = Len(s[k])
    OBVIOUS
  <2>7. y \in Nat /\ z \in Nat /\ l \in Nat /\ x = y + l /\ y >= z
    BY <1>3, <2>3, <2>4, <2>5, <2>6
  <2>8. ~(x >= z)
    BY <2>2, <2>6
  <2> QED  BY <2>7, <2>8
<1> QED  BY <1>3, <1>4, SMTT(30)

-----------------------------------------------------------------------------
(* The hex dump.                                                           *)

HexAlphabet == {Space, <<"dot">>, <<"newline">>, <<"hex head", 1>>}
               \cup {<<"char", v>> : v \in 32..126}
HexCall == [text : Seq(HexAlphabet)] \cup [dec64 : Nat, width : Nat] \cup [hex : Nat, width : Nat]

LEMMA AppendIsCall ==
  ASSUME NEW t \in Seq(HexAlphabet)
  PROVE  Append1(t) \in HexCall
BY DEF Append1, HexCall

LEMMA SpacesAreText ==
  ASSUME NEW n \in Nat
  PROVE  Repeated(Space, n) \in Seq(HexAlphabet)
<1>1. Space \in HexAlphabet
  BY DEF HexAlphabet
<1>2. Repeated(Space, n) \in [1..n -> HexAlphabet]
  BY <1>1 DEF Repeated
<1> QED  BY <1>2

LEMMA HexByteIs ==
  ASSUME NEW bytes \in Seq(Nat), NEW o \in Nat \ {0}
  PROVE  HexByte(bytes, o) \in Seq(HexCall) /\ HexChar(bytes, o) \in Seq(HexCall)
<1>1. Append1(Repeated(Space, 3)) \in HexCall
  BY SpacesAreText, AppendIsCall
<1>2. <<Space>> \in Seq(HexAlphabet) /\ <<<<"dot">>>> \in Seq(HexAlphabet)
  BY DEF HexAlphabet
<1>3. Append1(<<Space>>) \in HexCall
  BY <1>2, AppendIsCall
<1>4. HexByte(bytes, o) \in Seq(HexCall)
  <2>1. CASE o > Len(bytes)
    BY <1>1, <2>1 DEF HexByte
  <2>2. CASE ~(o > Len(bytes))
    <3>1. bytes[o] \in Nat
      BY <2>2
    <3>2. [hex |-> bytes[o], width |-> 2] \in HexCall
      BY <3>1 DEF HexCall
    <3>3. PICK x, y : x = [hex |-> bytes[o], width |-> 2] /\ y = Append1(<<Space>>)
      OBVIOUS
    <3>4. HexByte(bytes, o) = <<x, y>>
      BY <2>2, <3>3 DEF HexByte
    <3> QED  BY <1>3, <3>2, <3>3, <3>4
  <2> QED  BY <2>1, <2>2
<1>5. HexChar(bytes, o) \in Seq(HexCall)
  <2>1. PICK t : t = IF o > Len(bytes) THEN <<Space>>
                     ELSE IF bytes[o] \in 32..126 THEN <<<<"char", bytes[o]>>>>
                     ELSE <<<<"dot">>>>
    OBVIOUS
  <2>2. bytes[o] \in 32..126 => <<<<"char", bytes[o]>>>> \in Seq(HexAlphabet)
    <3>1. PICK v : v = bytes[o]
      OBVIOUS
    <3>2. v \in 32..126 => <<"char", v>> \in HexAlphabet
      BY DEF HexAlphabet
    <3> HIDE DEF HexAlphabet
    <3> QED  BY <3>1, <3>2
  <2>3. t \in Seq(HexAlphabet)
    BY <1>2, <2>1, <2>2
  <2>4. HexChar(bytes, o) = <<Append1(t)>>
    BY <2>1 DEF HexChar
  <2> QED  BY <2>3, <2>4, AppendIsCall
<1> QED  BY <1>4, <1>5

LEMMA HexLineIs ==
  ASSUME NEW bytes \in Seq(Nat), NEW l \in Nat
  PROVE  HexLine(bytes, l) \in Seq(HexCall)
<1> DEFINE H == HexPerLine
           x == [i \in 1..H |-> HexByte(bytes, l * H + i)]
           y == [i \in 1..H |-> HexChar(bytes, l * H + i)]
<1>1. H \in Nat \ {0}
  BY MessageAssumption
<1> HIDE DEF H
<1>2. \A i \in 1..H : l * H + i \in Nat \ {0}
  <2>1. l * H \in Nat
    BY <1>1
  <2> QED  BY <2>1
<1>3. \A i \in 1..H : x[i] \in Seq(HexCall) /\ y[i] \in Seq(HexCall)
  BY <1>2, HexByteIs
<1>4. x = [i \in 1..H |-> x[i]] /\ y = [i \in 1..H |-> y[i]]
  OBVIOUS
<1>5. PICK p, q : p = FlattenSeq(x) /\ q = FlattenSeq(y)
  OBVIOUS
<1>6. HexLine(bytes, l) =
        <<Append1(<<<<"newline">>>>), [dec64 |-> l + 1, width |-> 10], Append1(Repeated(Space, 3))>>
        \o p \o <<Append1(Repeated(Space, 2))>> \o q
  BY <1>5 DEF HexLine, H
<1> HIDE DEF x, y
<1>7. p \in Seq(HexCall) /\ q \in Seq(HexCall)
  <2>1. p = Flat(x, H) /\ q = Flat(y, H)
    BY <1>4, <1>5 DEF Flat
  <2> QED  BY <1>1, <1>3, <2>1, FlatType
<1>8. PICK a, b, c, d : /\ a = Append1(<<<<"newline">>>>) /\ b = [dec64 |-> l + 1, width |-> 10]
                        /\ c = Append1(Repeated(Space, 3)) /\ d = Append1(Repeated(Space, 2))
  OBVIOUS
<1>9. a \in HexCall /\ b \in HexCall /\ c \in HexCall /\ d \in HexCall
  <2>1. <<<<"newline">>>> \in Seq(HexAlphabet)
    BY DEF HexAlphabet
  <2>2. a \in HexCall
    BY <1>8, <2>1, AppendIsCall
  <2>3. b \in HexCall
    BY <1>8 DEF HexCall
  <2>4. c \in HexCall /\ d \in HexCall
    BY <1>8, SpacesAreText, AppendIsCall
  <2> QED  BY <2>2, <2>3, <2>4
<1>10. HexLine(bytes, l) = <<a, b, c>> \o p \o <<d>> \o q
  BY <1>6, <1>8
<1>11. <<a, b, c>> \in Seq(HexCall) /\ <<d>> \in Seq(HexCall)
  BY <1>9
<1>12. PICK u, v : u = <<a, b, c>> /\ v = <<d>>
  OBVIOUS
<1>13. u \o p \in Seq(HexCall)
  BY <1>7, <1>11, <1>12, ConcatProperties
<1>14. (u \o p) \o v \in Seq(HexCall)
  BY <1>11, <1>12, <1>13, ConcatProperties
<1>15. ((u \o p) \o v) \o q \in Seq(HexCall)
  BY <1>7, <1>14, ConcatProperties
<1> QED  BY <1>10, <1>12, <1>15

LEMMA HexCallsAre ==
  ASSUME NEW bytes \in Seq(Nat)
  PROVE  HexCalls(bytes) \in Seq(HexCall)
<1> DEFINE k == (Len(bytes) + HexPerLine - 1) \div HexPerLine
           lines == Max({1, k})
           x == [l \in 1..lines |-> HexLine(bytes, l - 1)]
<1>1. HexPerLine \in Nat \ {0}
  BY MessageAssumption
<1>2. k \in Nat
  BY <1>1
<1>3. lines \in Nat
  <2> HIDE DEF k
  <2>1. 1 \in Int /\ k \in Int
    BY <1>2
  <2>2. lines = IF 1 <= k THEN k ELSE 1
    BY <2>1, Two
  <2> HIDE DEF lines
  <2> QED  BY <1>2, <2>2
<1>4. HexCalls(bytes) = <<Append1(Chars("hex head", 1))>> \o FlattenSeq(x)
  BY DEF HexCalls
<1> HIDE DEF lines
<1>5. \A l \in 1..lines : x[l] \in Seq(HexCall)
  <2>1. ASSUME NEW l \in 1..lines PROVE x[l] \in Seq(HexCall)
    <3>1. l - 1 \in Nat /\ x[l] = HexLine(bytes, l - 1)
      BY <1>3
    <3> QED  BY <3>1, HexLineIs
  <2> QED  BY <2>1
<1>6. x = [l \in 1..lines |-> x[l]]
  OBVIOUS
<1> HIDE DEF x
<1>7. FlattenSeq(x) \in Seq(HexCall)
  <2>1. FlattenSeq(x) = Flat(x, lines)
    BY <1>6 DEF Flat
  <2> QED  BY <1>3, <1>5, <2>1, FlatType
<1>8. Append1(Chars("hex head", 1)) \in HexCall
  <2>1. <<"hex head", 1>> \in HexAlphabet
    BY DEF HexAlphabet
  <2>2. PICK c : c = Chars("hex head", 1)
    OBVIOUS
  <2>3. c = [i \in 1..1 |-> <<"hex head", i>>]
    BY <2>2 DEF Chars
  <2>4. \A i \in 1..1 : <<"hex head", i>> = <<"hex head", 1>>
    OBVIOUS
  <2>5. c \in [1..1 -> HexAlphabet]
    BY <2>1, <2>3, <2>4
  <2>6. c \in Seq(HexAlphabet)
    <3>1. PICK n \in Nat : n = 1
      OBVIOUS
    <3>2. c \in [1..n -> HexAlphabet]
      BY <2>5, <3>1
    <3> QED  BY <3>2
  <2> QED  BY <2>2, <2>6, AppendIsCall
<1>9. <<Append1(Chars("hex head", 1))>> \in Seq(HexCall)
  <2>1. PICK c : c = Append1(Chars("hex head", 1))
    OBVIOUS
  <2>2. c \in HexCall
    BY <1>8, <2>1
  <2>3. <<c>> \in Seq(HexCall)
    BY <2>2
  <2> QED  BY <2>1, <2>3, Zenon
<1> QED  BY <1>4, <1>7, <1>9, ConcatProperties

LEMMA CallWritten ==
  ASSUME NEW b, IsBuffer(b), NEW c \in HexCall, NEW mem
  PROVE  Written(b, WriteCall(b, c, mem), CallText(c)) /\ IsSeq(CallText(c))
<1>1. CASE c \in [text : Seq(HexAlphabet)]
  <2>1. DOMAIN c = {"text"} /\ c.text \in Seq(HexAlphabet)
    BY <1>1
  <2>2. "dec64" \notin DOMAIN c /\ "hex" \notin DOMAIN c /\ "text" \in DOMAIN c
    BY <2>1
  <2>3. CallText(c) = c.text
    BY <2>2 DEF CallText
  <2>4. WriteCall(b, c, mem) = WriteText(b, c.text, mem)
    BY <2>2 DEF WriteCall, zlog_buf_append
  <2>5. IsSeq(c.text)
    BY <2>1, OfSeq
  <2> QED  BY <2>3, <2>4, <2>5, TextWritten
<1>2. CASE c \in [dec64 : Nat, width : Nat]
  <2>1. DOMAIN c = {"dec64", "width"} /\ c.dec64 \in Nat /\ c.width \in Nat
    BY <1>2
  <2>2. "dec64" \in DOMAIN c /\ "hex" \notin DOMAIN c /\ "text" \notin DOMAIN c
    BY <2>1
  <2>3. CallText(c) = NumberText(c.dec64, 10, c.width)
    BY <2>2 DEF CallText
  <2>4. WriteCall(b, c, mem) = PrintDigits(b, Digits(c.dec64, 10), c.width, mem)
    BY <2>2 DEF WriteCall, zlog_buf_printf_dec64
  <2>5. PICK n, w, base : n = c.dec64 /\ w = c.width /\ base = 10
    OBVIOUS
  <2>6. n \in Nat /\ w \in Nat /\ base \in Nat \ {0, 1}
    BY <2>1, <2>5
  <2>7. Written(b, PrintDigits(b, Digits(n, base), w, mem), NumberText(n, base, w))
        /\ IsSeq(NumberText(n, base, w))
    BY <2>6, NumberWritten, NumberIs
  <2> QED  BY <2>3, <2>4, <2>5, <2>7
<1>3. CASE c \in [hex : Nat, width : Nat]
  <2>1. DOMAIN c = {"hex", "width"} /\ c.hex \in Nat /\ c.width \in Nat
    BY <1>3
  <2>2. "dec64" \notin DOMAIN c /\ "hex" \in DOMAIN c /\ "text" \notin DOMAIN c
    BY <2>1
  <2>3. CallText(c) = NumberText(c.hex, 16, c.width)
    BY <2>2 DEF CallText
  <2>4. WriteCall(b, c, mem) = PrintDigits(b, Digits(c.hex, 16), c.width, mem)
    BY <2>2 DEF WriteCall, zlog_buf_printf_hex
  <2>5. PICK n, w, base : n = c.hex /\ w = c.width /\ base = 16
    OBVIOUS
  <2>6. n \in Nat /\ w \in Nat /\ base \in Nat \ {0, 1}
    BY <2>1, <2>5
  <2>7. Written(b, PrintDigits(b, Digits(n, base), w, mem), NumberText(n, base, w))
        /\ IsSeq(NumberText(n, base, w))
    BY <2>6, NumberWritten, NumberIs
  <2> QED  BY <2>3, <2>4, <2>5, <2>7
<1> QED  BY <1>1, <1>2, <1>3 DEF HexCall

\* Two writes are one write of both outputs.
LEMMA WrittenTwice ==
  ASSUME NEW b, IsBuffer(b), NEW x, IsSeq(x), NEW r, Written(b, r, x), r.rc = 0,
         NEW y, IsSeq(y), NEW q, Written(r.buf, q, y)
  PROVE  Written(b, q, x \o y)
<1>1. IsBuffer(r.buf) /\ r.buf.max = b.max /\ r.buf.mark = b.mark
      /\ r.buf.text = b.text \o x /\ (b.start => r.buf.start)
  BY DEF Written
<1>2. IsSeq(b.text) /\ (b.text \o x) \o y = b.text \o (x \o y)
  <2>1. PICK u : u = b.text
    OBVIOUS
  <2>2. IsSeq(u)
    BY <2>1 DEF IsBuffer
  <2>3. (u \o x) \o y = u \o (x \o y)
    BY <2>2, ConcatAssoc, SMTT(30)
  <2> QED  BY <2>1, <2>2, <2>3
<1>3. r.buf.text \o y = b.text \o (x \o y)
  BY <1>1, <1>2
<1>4. PICK c, t : c = r.buf /\ t = b.text \o (x \o y)
  OBVIOUS
<1>5. c.max = b.max /\ c.mark = b.mark /\ (b.start => c.start) /\ c.text \o y = t
  BY <1>1, <1>3, <1>4
<1>6. Written(c, q, y)
  BY <1>4
<1> QED  BY <1>4, <1>5, <1>6 DEF Written

\* What was cut stays cut.
LEMMA WrittenCut ==
  ASSUME NEW b, IsBuffer(b), NEW x, IsSeq(x), NEW r, Written(b, r, x), r.rc # 0,
         NEW y, IsSeq(y)
  PROVE  Written(b, r, x \o y)
<1>1. IsSeq(b.text) /\ IsSeq(b.mark) /\ b.max \in Nat
  BY DEF IsBuffer
<1>2. PICK t : t = b.text \o x
  OBVIOUS
<1>3. IsSeq(t) /\ t \o y = b.text \o (x \o y)
  <2>1. PICK u : u = b.text
    OBVIOUS
  <2>2. IsSeq(u \o x) /\ (u \o x) \o y = u \o (x \o y)
    <3>1. IsSeq(u)
      BY <1>1, <2>1
    <3>2. IsSeq(u \o x)
      BY <3>1, Concat
    <3>3. (u \o x) \o y = u \o (x \o y)
      BY <3>1, ConcatAssoc, SMTT(30)
    <3> QED  BY <3>2, <3>3
  <2> QED  BY <1>2, <2>1, <2>2
<1>4. ASSUME r.rc = 1, b.start
      PROVE  Len(t \o y) >= b.max /\ r.buf.text = Limited(t \o y, b.max, b.mark)
  <2>1. b.max # 0 /\ Len(t) >= b.max /\ r.buf.text = Limited(t, b.max, b.mark)
    BY <1>2, <1>4 DEF Written
  <2>2. PICK max, mark : max \in Nat \ {0} /\ max = b.max /\ mark = b.mark
    BY <1>1, <2>1
  <2>3. IsSeq(mark) /\ Len(t) >= max
    BY <1>1, <2>1, <2>2
  <2>4. Limited(t \o y, max, mark) = Limited(t, max, mark) /\ Len(t \o y) >= max
    <3>1. IsSeq(t) /\ IsSeq(y) /\ max \in Nat \ {0} /\ IsSeq(mark) /\ Len(t) >= max
      BY <1>3, <2>2, <2>3
    <3> QED  BY <3>1, LimitedExtends, ZenonT(60)
  <2> QED  BY <2>1, <2>2, <2>4
<1> QED  BY <1>3, <1>4 DEF Written

\* WriteAll writes the texts of its calls one after another.
LEMMA AllWritten ==
  ASSUME NEW b, IsBuffer(b), NEW calls \in Seq(HexCall), NEW mem
  PROVE  LET out == FlattenSeq([i \in DOMAIN calls |-> CallText(calls[i])])
         IN  Written(b, WriteAll(b, calls, mem), out) /\ IsSeq(out)
<1> DEFINE n == Len(calls)
           x == [i \in 1..n |-> CallText(calls[i])]
           G(h, m) == h = [i \in 0..m |-> IF i = 0 THEN Result(b, 0)
                                          ELSE WriteNext(h[i - 1], calls[i], mem)]
<1>1. n \in Nat /\ DOMAIN calls = 1..n /\ \A i \in 1..n : calls[i] \in HexCall
  OBVIOUS
<1>2. \A m \in Nat : \E h : G(h, m)
  <2> DEFINE V == {m \in Nat : ~\E h : G(h, m)}
  <2>1. SUFFICES ASSUME V # {} PROVE FALSE
    OBVIOUS
  <2>2. PICK m \in V : \A k \in V : m <= k
    <3> HIDE DEF G
    <3> QED  BY <2>1, LeastNumber
  <2>3. m \in Nat /\ ~\E h : G(h, m)
    BY <2>2
  <2>4. m # 0
    <3>1. G([i \in 0..0 |-> Result(b, 0)], 0)
      OBVIOUS
    <3> HIDE DEF G
    <3> QED  BY <2>3, <3>1
  <2>5. PICK h : G(h, m - 1)
    <3>1. m - 1 \in Nat /\ m - 1 \notin V
      BY <2>2, <2>3, <2>4
    <3> HIDE DEF G
    <3> QED  BY <3>1
  <2> DEFINE f == [i \in 0..m |-> IF i = m THEN WriteNext(h[m - 1], calls[m], mem) ELSE h[i]]
  <2>6. ASSUME NEW i \in 0..m
        PROVE  f[i] = IF i = 0 THEN Result(b, 0) ELSE WriteNext(f[i - 1], calls[i], mem)
    <3>1. i # 0 => i - 1 \in 0..m /\ i - 1 # m /\ i - 1 \in 0..(m - 1)
      BY <2>3
    <3>2. i # 0 => f[i - 1] = h[i - 1]
      BY <3>1
    <3>3. CASE i = m
      BY <2>4, <3>2, <3>3
    <3>4. CASE i # m
      <4>1. i \in 0..(m - 1) /\ f[i] = h[i]
        BY <2>3, <3>4
      <4> QED  BY <2>5, <3>2, <4>1
    <3> QED  BY <3>3, <3>4
  <2>7. G(f, m)
    <3>1. f = [i \in 0..m |-> f[i]]
      OBVIOUS
    <3> HIDE DEF f
    <3> QED  BY <2>6, <3>1
  <2> HIDE DEF G, f
  <2> QED  BY <2>3, <2>7
<1> DEFINE r == CHOOSE h : G(h, n)
<1>3. G(r, n)
  <2> HIDE DEF G
  <2> QED  BY <1>1, <1>2
<1>4. WriteAll(b, calls, mem) = r[n]
  BY DEF WriteAll
<1>5. \A i \in 1..n : x[i] = CallText(calls[i])
  OBVIOUS
<1>6. x = [i \in 1..n |-> x[i]] /\ x = [i \in DOMAIN calls |-> CallText(calls[i])]
  BY <1>1
<1> HIDE DEF x, r, n
<1>7. \A i \in 1..n : IsSeq(x[i])
  BY <1>1, <1>5, CallWritten
<1>8. /\ Flat(x, 0) = <<>>
      /\ \A i \in 0..n : IsSeq(Flat(x, i))
      /\ \A i \in 1..n : Flat(x, i) = Flat(x, i - 1) \o x[i]
  BY <1>1, <1>7, FlatIs
<1> DEFINE V == {i \in 0..n : ~Written(b, r[i], Flat(x, i))}
<1>9. V = {}
  <2>1. SUFFICES ASSUME V # {} PROVE FALSE
    OBVIOUS
  <2>2. PICK m \in V : \A k \in V : m <= k
    <3>1. V \in SUBSET Nat
      OBVIOUS
    <3> QED  BY <2>1, <3>1, LeastNumber
  <2>3. m \in 0..n /\ ~Written(b, r[m], Flat(x, m))
    BY <2>2
  <2>4. m # 0
    <3>1. SUFFICES ASSUME m = 0 PROVE FALSE
      OBVIOUS
    <3>2. r[0] = [buf |-> b, rc |-> 0]
      BY <1>1, <1>3 DEF Result
    <3>3. b.text \o <<>> = b.text
      BY ConcatEmpty DEF IsBuffer
    <3>4. PICK e : e = r[0]
      OBVIOUS
    <3>5. e.buf = b /\ e.rc = 0 /\ e = [buf |-> e.buf, rc |-> e.rc]
      BY <3>2, <3>4
    <3>6. Written(b, e, <<>>)
      BY <3>3, <3>5 DEF Written
    <3> QED  BY <1>8, <2>3, <3>1, <3>4, <3>6
  <2>5. m \in 1..n /\ m - 1 \in 0..n /\ m - 1 < m
    BY <1>1, <2>3, <2>4
  <2>6. Written(b, r[m - 1], Flat(x, m - 1))
    BY <2>2, <2>5
  <2>7. r[m] = WriteNext(r[m - 1], calls[m], mem)
    BY <1>3, <2>3, <2>4
  <2>8. PICK e, q, y, z : e = r[m - 1] /\ q = r[m] /\ y = Flat(x, m - 1) /\ z = x[m]
    OBVIOUS
  <2>9. IsSeq(y) /\ IsSeq(z) /\ Flat(x, m) = y \o z /\ Written(b, e, y) /\ ~Written(b, q, y \o z)
    BY <1>7, <1>8, <2>3, <2>5, <2>6, <2>8
  <2>10. CASE e.rc # 0
    <3>1. q = e
      BY <2>7, <2>8, <2>10 DEF WriteNext
    <3> QED  BY <2>9, <2>10, <3>1, WrittenCut
  <2>11. CASE e.rc = 0
    <3>1. q = WriteCall(e.buf, calls[m], mem)
      BY <2>7, <2>8, <2>11, SMTT(30) DEF WriteNext
    <3>2. IsBuffer(e.buf)
      BY <2>9 DEF Written
    <3>3. Written(e.buf, q, z)
      BY <1>1, <1>5, <2>5, <2>8, <3>1, <3>2, CallWritten
    <3> QED  BY <2>9, <2>11, <3>3, WrittenTwice
  <2> QED  BY <2>10, <2>11
<1>10. n \in 0..n
  BY <1>1
<1>11. FlattenSeq(x) = Flat(x, n)
  BY <1>6 DEF Flat
<1>12. Written(b, WriteAll(b, calls, mem), FlattenSeq(x)) /\ IsSeq(FlattenSeq(x))
  BY <1>4, <1>8, <1>9, <1>10, <1>11
<1> QED  BY <1>6, <1>12

LEMMA NothingWritten ==
  ASSUME NEW b, IsBuffer(b)
  PROVE  Written(b, Result(b, 0), <<>>)
<1>1. b.text \o <<>> = b.text
  BY ConcatEmpty DEF IsBuffer
<1>2. PICK e : e = Result(b, 0)
  OBVIOUS
<1>3. e.buf = b /\ e.rc = 0 /\ e = [buf |-> e.buf, rc |-> e.rc]
  BY <1>2 DEF Result
<1> QED  BY <1>1, <1>2, <1>3 DEF Written

-----------------------------------------------------------------------------
(* Widths.                                                                 *)

Adjusted(t, left, min, max) ==
  LET clipped == IF max = 0 THEN t ELSE Prefix(t, max)
      blanks == Repeated(Space, Max({0, min - Len(clipped)}))
  IN  IF left THEN clipped \o blanks ELSE blanks \o clipped

LEMMA AdjustWritten ==
  ASSUME NEW b, IsBuffer(b), NEW t, IsSeq(t), NEW left \in BOOLEAN, NEW min \in Nat,
         NEW max \in Nat, NEW mem
  PROVE  Written(b, zlog_buf_adjust_append(b, t, left, min, max, mem), Adjusted(t, left, min, max))
         /\ IsSeq(Adjusted(t, left, min, max))
<1> DEFINE n == Len(t)
           k == IF max = 0 \/ n < max THEN n ELSE max
           sp == IF min = 0 \/ k >= min THEN 0 ELSE min - k
           p == Prefix(t, k)
           s == Repeated(Space, sp)
           out == IF left THEN p \o s ELSE s \o p
           A == Adjusted(t, left, min, max)
           r == zlog_buf_adjust_append(b, t, left, min, max, mem)
<1>1. n \in Nat /\ k \in Nat /\ k <= n
  BY Facts
<1>2. sp \in Nat
  BY <1>1
<1>3. IsSeq(p) /\ Len(p) = k
  BY <1>1, PrefixIs
<1>4. IsSeq(s)
  BY <1>2, RepeatedIs
<1>5. (IF max = 0 THEN t ELSE Prefix(t, max)) = p
  <2>1. CASE max = 0
    BY <1>1, <2>1, PrefixAll
  <2>2. CASE max # 0 /\ n < max
    <3>1. Prefix(t, max) = t /\ Prefix(t, n) = t
      BY <1>1, <2>2, PrefixAll
    <3> QED  BY <2>2, <3>1
  <2>3. CASE max # 0 /\ ~(n < max)
    BY <2>3
  <2> QED  BY <2>1, <2>2, <2>3
<1>6. Max({0, min - k}) = sp
  <2>1. 0 \in Int /\ min - k \in Int
    BY <1>1
  <2>2. Max({0, min - k}) = IF 0 <= min - k THEN min - k ELSE 0
    BY <2>1, Two
  <2> QED  BY <1>1, <2>2
<1>7. A = out
  BY <1>3, <1>5, <1>6 DEF Adjusted
<1>8. b.start => r = WriteText(b, out, mem)
  BY DEF zlog_buf_adjust_append
<1>9. ~b.start => r = [buf |-> b, rc |-> -1]
  BY DEF zlog_buf_adjust_append, Result
<1> HIDE DEF p, s, r, A
<1>10. IsSeq(out)
  <2>1. IsSeq(p \o s) /\ IsSeq(s \o p)
    BY <1>3, <1>4, Concat
  <2> QED  BY <2>1
<1> HIDE DEF out
<1>11. CASE b.start
  <2>1. Written(b, r, out)
    BY <1>8, <1>10, <1>11, TextWritten
  <2> QED  BY <1>7, <1>10, <2>1 DEF r, A
<1>12. CASE ~b.start
  <2>1. r.buf = b /\ r.rc = -1 /\ r = [buf |-> r.buf, rc |-> r.rc]
    BY <1>9, <1>12
  <2>2. Written(b, r, out)
    BY <1>12, <2>1 DEF Written
  <2> QED  BY <1>7, <1>10, <2>2 DEF r, A
<1> QED  BY <1>11, <1>12

-----------------------------------------------------------------------------
(* The write functions.                                                    *)

\* An event with caches that hold what they say.
IsEvent(e) ==
  /\ e = [time_stamp |-> e.time_stamp, time_local |-> e.time_local,
          time_caches |-> e.time_caches, pid |-> e.pid, last_pid |-> e.last_pid,
          pid_str |-> e.pid_str, usr |-> e.usr]
  /\ e.time_stamp \in Nat \cup {NoTime}
  /\ DOMAIN e.time_caches = 0..(TimeCaches - 1)
  /\ e.time_caches = [i \in 0..(TimeCaches - 1) |-> e.time_caches[i]]
  /\ \A s \in TimeSpecs : LET c == e.time_caches[s.time_cache_index]
                          IN  c.sec = 0 \/ c.str = strftime(s, c.sec)
  /\ e.last_pid # 0 => e.pid_str = <<<<"pid", e.last_pid>>>>
  /\ e.pid # 0 => e.pid = e.last_pid
  /\ IsMessage(e.usr)

Bad(spec) == spec.write = "usrmsg" /\ event.usr.text = CannotConvert

\* What zlog_spec_write makes of event and b, for an event at tick t.
EventKept(e) ==
  /\ IsEvent(e) /\ e.usr = event.usr /\ (e.pid # 0 => e.pid = pid)
  /\ e.time_stamp = event.time_stamp \/ (event.time_stamp = NoTime /\ e.time_stamp = tick)

Outputs(b, w, spec, t) ==
  \/ Written(b, [buf |-> w.buf, rc |-> w.rc], Meant(spec, t))
  \/ Bad(spec) /\ w.rc = -1 /\ w.buf = b

Ready(spec) ==
  /\ IsEvent(event) /\ (event.pid # 0 => event.pid = pid)
  /\ tick \in Nat /\ pid \in Nat \ {0}
  /\ IsSpec(spec) /\ (spec.write = "time" => spec \in TimeSpecs)

LEMMA WroteIs ==
  ASSUME NEW e, NEW b, NEW r, NEW out, Written(b, r, out)
  PROVE  Wrote(e, r).event = e /\ [buf |-> Wrote(e, r).buf, rc |-> Wrote(e, r).rc] = r
BY DEF Wrote, Written

LEMMA StampedIs ==
  ASSUME IsEvent(event), event.pid # 0 => event.pid = pid, tick \in Nat
  PROVE  EventKept(Stamped(event)) /\ Stamped(event).time_stamp \in Nat
<1>1. CASE event.time_stamp = NoTime
  <2>1. PICK e : e = Stamped(event)
    OBVIOUS
  <2>2. e = [event EXCEPT !.time_stamp = tick]
    BY <1>1, <2>1 DEF Stamped
  <2>3. /\ e.time_stamp = tick /\ e.time_local = event.time_local
        /\ e.time_caches = event.time_caches /\ e.pid = event.pid
        /\ e.last_pid = event.last_pid /\ e.pid_str = event.pid_str /\ e.usr = event.usr
        /\ e = [time_stamp |-> e.time_stamp, time_local |-> e.time_local,
                time_caches |-> e.time_caches, pid |-> e.pid, last_pid |-> e.last_pid,
                pid_str |-> e.pid_str, usr |-> e.usr]
    BY <2>2 DEF IsEvent
  <2>4. IsEvent(e)
    BY <2>3 DEF IsEvent
  <2> QED  BY <1>1, <2>1, <2>3, <2>4 DEF EventKept
<1>2. CASE event.time_stamp # NoTime
  <2>1. Stamped(event) = event
    BY <1>2 DEF Stamped
  <2> QED  BY <1>2, <2>1 DEF EventKept, IsEvent
<1> QED  BY <1>1, <1>2

LEMMA StrftimeIs ==
  ASSUME NEW s, NEW l
  PROVE  IsSeq(strftime(s, l))
<1>1. PICK x : x = strftime(s, l)
  OBVIOUS
<1>2. x = [i \in 1..2 |-> x[i]]
  BY <1>1 DEF strftime
<1>3. PICK n \in Nat : n = 2
  OBVIOUS
<1>4. x = [i \in 1..n |-> x[i]]
  BY <1>2, <1>3
<1> QED  BY <1>1, <1>4, Built

LEMMA TimeWritten ==
  ASSUME NEW spec, Ready(spec), spec.write = "time", NEW b, IsBuffer(b), NEW mem, NEW t \in Nat
  PROVE  LET w == zlog_spec_write_time(event, spec, b, mem) IN
         /\ EventKept(w.event)
         /\ w.event.time_stamp \in {NoTime, t} => Outputs(b, w, spec, t)
         /\ IsSeq(Meant(spec, t))
<1> DEFINE st == Stamped(event)
           now == Seconds(st.time_stamp)
           i == spec.time_cache_index
           local == IF st.time_local # now THEN now ELSE st.time_local
           cached == IF st.time_caches[i].sec # now
                     THEN [sec |-> now, str |-> strftime(spec, local)] ELSE st.time_caches[i]
           e == [st EXCEPT !.time_local = local, !.time_caches[i] = cached]
           w == zlog_spec_write_time(event, spec, b, mem)
<1>1. EventKept(st) /\ st.time_stamp \in Nat
  BY StampedIs DEF Ready
<1> HIDE DEF st
<1>2. w = Wrote(e, zlog_buf_append(b, cached.str, mem))
  BY DEF zlog_spec_write_time, st
<1>3. i \in 0..(TimeCaches - 1) /\ spec \in TimeSpecs
  BY DEF Ready, IsSpec
<1>4. now \in Nat /\ now # 0
  BY <1>1 DEF Seconds
<1>5. local = now
  OBVIOUS
<1> HIDE DEF local, now, w
<1>6. cached.sec = now /\ cached.str = strftime(spec, now)
  <2>1. CASE st.time_caches[i].sec # now
    BY <1>5, <2>1
  <2>2. CASE st.time_caches[i].sec = now
    <3>1. st.time_caches[i].str = strftime(spec, st.time_caches[i].sec)
      BY <1>1, <1>3, <1>4, <2>2 DEF EventKept, IsEvent
    <3> QED  BY <2>2, <3>1
  <2> QED  BY <2>1, <2>2
<1> HIDE DEF cached
<1>7. PICK c : c = [st.time_caches EXCEPT ![i] = cached]
  OBVIOUS
<1>8. e = [st EXCEPT !.time_local = local, !.time_caches = c]
  BY <1>1, <1>7 DEF EventKept, IsEvent
<1> HIDE DEF e
<1>9. /\ e.time_stamp = st.time_stamp /\ e.time_caches = c /\ e.pid = st.pid
      /\ e.last_pid = st.last_pid /\ e.pid_str = st.pid_str /\ e.usr = st.usr
      /\ e = [time_stamp |-> e.time_stamp, time_local |-> e.time_local,
              time_caches |-> e.time_caches, pid |-> e.pid, last_pid |-> e.last_pid,
              pid_str |-> e.pid_str, usr |-> e.usr]
  BY <1>1, <1>8 DEF EventKept, IsEvent
<1>10. ASSUME NEW s \in TimeSpecs
       PROVE  c[s.time_cache_index].sec = 0
              \/ c[s.time_cache_index].str = strftime(s, c[s.time_cache_index].sec)
  <2>1. s.time_cache_index \in 0..(TimeCaches - 1)
    BY MessageAssumption DEF TimeSpecs, IsFormat, IsSpec
  <2>2. CASE s.time_cache_index = i
    <3>1. s.time_fmt = spec.time_fmt
      BY <1>3, <2>2, MessageAssumption
    <3>2. strftime(s, now) = strftime(spec, now)
      BY <3>1 DEF strftime
    <3>3. c[i] = cached
      BY <1>1, <1>3, <1>7 DEF EventKept, IsEvent
    <3> QED  BY <1>6, <2>2, <3>2, <3>3
  <2>3. CASE s.time_cache_index # i
    <3>1. c[s.time_cache_index] = st.time_caches[s.time_cache_index]
      BY <1>1, <1>7, <2>1, <2>3 DEF EventKept, IsEvent
    <3> QED  BY <1>1, <3>1 DEF EventKept, IsEvent
  <2> QED  BY <2>2, <2>3
<1>11. DOMAIN c = 0..(TimeCaches - 1) /\ c = [j \in 0..(TimeCaches - 1) |-> c[j]]
  BY <1>1, <1>7 DEF EventKept, IsEvent
<1>12. IsEvent(e)
  BY <1>1, <1>9, <1>10, <1>11 DEF EventKept, IsEvent
<1>13. EventKept(e)
  BY <1>1, <1>9, <1>12 DEF EventKept
<1>14. IsSeq(strftime(spec, now)) /\ \A u \in Nat : Meant(spec, u) = strftime(spec, Seconds(u))
  BY StrftimeIs DEF Meant, TextOf
<1>15. PICK r : r = zlog_buf_append(b, cached.str, mem)
  OBVIOUS
<1>16. Written(b, r, strftime(spec, now))
  BY <1>6, <1>14, <1>15, TextWritten DEF zlog_buf_append
<1>17. w.event = e /\ [buf |-> w.buf, rc |-> w.rc] = r
  BY <1>2, <1>15, <1>16, WroteIs
<1>18. ASSUME e.time_stamp \in {NoTime, t} PROVE Outputs(b, w, spec, t)
  <2>1. st.time_stamp = t
    BY <1>1, <1>9, <1>18 DEF NoTime
  <2> QED  BY <1>14, <1>16, <1>17, <2>1 DEF Outputs, now
<1>19. IsSeq(Meant(spec, t))
  BY <1>14, StrftimeIs
<1> QED  BY <1>13, <1>17, <1>18, <1>19 DEF w

LEMMA DecimalWritten ==
  ASSUME NEW b, IsBuffer(b), NEW n \in Nat, NEW w \in Nat, NEW mem
  PROVE  /\ Written(b, zlog_buf_printf_dec32(b, n, w, mem), NumberText(n, 10, w))
         /\ Written(b, zlog_buf_printf_dec64(b, n, w, mem), NumberText(n, 10, w))
         /\ IsSeq(NumberText(n, 10, w))
<1>1. PICK base \in Nat \ {0, 1} : base = 10
  OBVIOUS
<1>2. Written(b, PrintDigits(b, Digits(n, base), w, mem), NumberText(n, base, w))
      /\ IsSeq(NumberText(n, base, w))
  BY NumberWritten, NumberIs
<1> QED  BY <1>1, <1>2 DEF zlog_buf_printf_dec32, zlog_buf_printf_dec64

LEMMA FractionWritten ==
  ASSUME NEW spec, Ready(spec), spec.write \in {"ms", "us"}, NEW b, IsBuffer(b), NEW mem,
         NEW t \in Nat
  PROVE  LET w == zlog_spec_write_fraction(event, spec, b, mem) IN
         /\ EventKept(w.event)
         /\ w.event.time_stamp \in {NoTime, t} => Outputs(b, w, spec, t)
         /\ IsSeq(Meant(spec, t))
<1> DEFINE st == Stamped(event)
           w == zlog_spec_write_fraction(event, spec, b, mem)
           usec == Microseconds(st.time_stamp)
<1>1. EventKept(st) /\ st.time_stamp \in Nat
  BY StampedIs DEF Ready
<1> HIDE DEF st
<1>2. \A u \in Nat : Microseconds(u) \in Nat /\ Microseconds(u) \div 1000 \in Nat
  BY DEF Microseconds
<1>3. PICK n, k : IF spec.write = "ms" THEN n = usec \div 1000 /\ k = 3 ELSE n = usec /\ k = 6
  OBVIOUS
<1>4. n \in Nat /\ k \in Nat
  BY <1>1, <1>2, <1>3
<1>5. w = Wrote(st, zlog_buf_printf_dec32(b, n, k, mem))
  BY <1>3 DEF zlog_spec_write_fraction, st
<1> HIDE DEF w
<1>6. Written(b, zlog_buf_printf_dec32(b, n, k, mem), NumberText(n, 10, k))
  BY <1>4, DecimalWritten
<1>7. w.event = st /\ [buf |-> w.buf, rc |-> w.rc] = zlog_buf_printf_dec32(b, n, k, mem)
  BY <1>5, <1>6, WroteIs
<1>8. Meant(spec, t) = IF spec.write = "ms" THEN NumberText(Microseconds(t) \div 1000, 10, 3)
                       ELSE NumberText(Microseconds(t), 10, 6)
  <2>1. CASE spec.write = "ms"
    BY <2>1 DEF Meant, TextOf
  <2>2. CASE spec.write = "us"
    BY <2>2 DEF Meant, TextOf
  <2> QED  BY <2>1, <2>2
<1>9. IsSeq(Meant(spec, t))
  <2>1. PICK m, l : IF spec.write = "ms" THEN m = Microseconds(t) \div 1000 /\ l = 3
                    ELSE m = Microseconds(t) /\ l = 6
    OBVIOUS
  <2>2. m \in Nat /\ l \in Nat
    BY <1>2, <2>1
  <2>3. IsSeq(NumberText(m, 10, l))
    BY <2>2, DecimalWritten
  <2> QED  BY <1>8, <2>1, <2>3
<1>10. ASSUME w.event.time_stamp \in {NoTime, t} PROVE Outputs(b, w, spec, t)
  <2>1. st.time_stamp = t
    BY <1>1, <1>7, <1>10 DEF NoTime
  <2>2. Meant(spec, t) = NumberText(n, 10, k)
    BY <1>3, <1>8, <2>1
  <2> QED  BY <1>6, <1>7, <2>2 DEF Outputs
<1> QED  BY <1>1, <1>7, <1>9, <1>10 DEF w

LEMMA PidWritten ==
  ASSUME NEW spec, Ready(spec), spec.write = "pid", NEW b, IsBuffer(b), NEW mem, NEW t \in Nat
  PROVE  LET w == zlog_spec_write_pid(event, b, mem) IN
         /\ EventKept(w.event)
         /\ w.event.time_stamp \in {NoTime, t} => Outputs(b, w, spec, t)
         /\ IsSeq(Meant(spec, t))
<1> DEFINE w == zlog_spec_write_pid(event, b, mem)
<1>1. PICK e : e = IF event.pid # 0 THEN event
                   ELSE IF pid = event.last_pid THEN [event EXCEPT !.pid = pid]
                   ELSE [event EXCEPT !.pid = pid, !.last_pid = pid, !.pid_str = <<<<"pid", pid>>>>]
  OBVIOUS
<1>2. IsEvent(event) /\ (event.pid # 0 => event.pid = pid) /\ pid # 0
  BY DEF Ready
<1>3. /\ e.time_stamp = event.time_stamp /\ e.time_caches = event.time_caches
      /\ e.usr = event.usr /\ e.pid = pid /\ e.last_pid = pid /\ e.pid_str = <<<<"pid", pid>>>>
      /\ e = [time_stamp |-> e.time_stamp, time_local |-> e.time_local,
              time_caches |-> e.time_caches, pid |-> e.pid, last_pid |-> e.last_pid,
              pid_str |-> e.pid_str, usr |-> e.usr]
  <2>1. CASE event.pid # 0
    BY <1>1, <1>2, <2>1 DEF IsEvent
  <2>2. CASE event.pid = 0 /\ pid = event.last_pid
    BY <1>1, <1>2, <2>2 DEF IsEvent
  <2>3. CASE event.pid = 0 /\ pid # event.last_pid
    <3>1. PICK x : x = <<<<"pid", pid>>>>
      OBVIOUS
    <3>2. e = [event EXCEPT !.pid = pid, !.last_pid = pid, !.pid_str = x]
      BY <1>1, <2>3, <3>1
    <3>3. e.pid_str = x /\ e.pid = pid /\ e.last_pid = pid
          /\ e.time_stamp = event.time_stamp /\ e.time_caches = event.time_caches
          /\ e.usr = event.usr
          /\ e = [time_stamp |-> e.time_stamp, time_local |-> e.time_local,
                  time_caches |-> e.time_caches, pid |-> e.pid, last_pid |-> e.last_pid,
                  pid_str |-> e.pid_str, usr |-> e.usr]
      BY <1>2, <3>2 DEF IsEvent
    <3> QED  BY <3>1, <3>3
  <2> QED  BY <2>1, <2>2, <2>3
<1>4. EventKept(e)
  BY <1>2, <1>3 DEF EventKept, IsEvent
<1>5. w = Wrote(e, zlog_buf_append(b, e.pid_str, mem))
  BY <1>1 DEF zlog_spec_write_pid
<1> HIDE DEF w
<1>6. PICK x : x = <<<<"pid", pid>>>>
  OBVIOUS
<1>7. IsSeq(x)
  BY <1>6 DEF IsSeq
<1>8. Written(b, zlog_buf_append(b, e.pid_str, mem), x)
  BY <1>3, <1>6, <1>7, TextWritten DEF zlog_buf_append
<1>9. w.event = e /\ [buf |-> w.buf, rc |-> w.rc] = zlog_buf_append(b, e.pid_str, mem)
  BY <1>5, <1>8, WroteIs
<1>10. Meant(spec, t) = x
  BY <1>6 DEF Meant, TextOf
<1> QED  BY <1>4, <1>7, <1>8, <1>9, <1>10 DEF Outputs, w

\* The conversions that leave the event alone.
LEMMA OtherWritten ==
  ASSUME NEW spec, Ready(spec), spec.write \in {"mdc", "srcline", "str", "usrmsg"},
         NEW b, IsBuffer(b), NEW mem, NEW t \in Nat
  PROVE  LET w == zlog_spec_write(event, spec, b, mem) IN
         /\ EventKept(w.event)
         /\ w.event.time_stamp \in {NoTime, t} => Outputs(b, w, spec, t)
         /\ IsSeq(Meant(spec, t))
<1> DEFINE w == zlog_spec_write(event, spec, b, mem)
           R(r) == w = Wrote(event, r) /\ Written(b, r, Meant(spec, t)) /\ IsSeq(Meant(spec, t))
<1>1. EventKept(event) /\ IsMessage(event.usr) /\ IsSpec(spec)
  BY DEF Ready, EventKept, IsEvent
<1>2. SUFFICES (\E r : R(r)) \/ (/\ w = Wrote(event, [buf |-> b, rc |-> -1]) /\ Bad(spec)
                                 /\ IsSeq(Meant(spec, t)))
  <2> HIDE DEF w
  <2>1. CASE \E r : R(r)
    <3>1. PICK r : R(r)
      BY <2>1
    <3>2. w.event = event /\ [buf |-> w.buf, rc |-> w.rc] = r
      BY <3>1, WroteIs
    <3> QED  BY <1>1, <3>1, <3>2 DEF Outputs, w
  <2>2. CASE w = Wrote(event, [buf |-> b, rc |-> -1]) /\ Bad(spec) /\ IsSeq(Meant(spec, t))
    <3>1. w.event = event /\ w.buf = b /\ w.rc = -1
      BY <2>2 DEF Wrote
    <3> QED  BY <1>1, <2>2, <3>1 DEF Outputs, w
  <2> HIDE DEF R
  <2> QED  BY <1>2, <2>1, <2>2
<1>3. CASE spec.write = "mdc"
  <2>1. w = zlog_spec_write_mdc(event, b, mem) /\ Meant(spec, t) = event.usr.mdc
    BY <1>3 DEF zlog_spec_write, Meant, TextOf
  <2>2. IsSeq(event.usr.mdc)
    BY <1>1 DEF IsMessage
  <2> HIDE DEF w
  <2>3. CASE event.usr.mdc = <<>>
    <3>1. w = Wrote(event, Result(b, 0))
      BY <2>1, <2>3 DEF zlog_spec_write_mdc
    <3> QED  BY <2>1, <2>2, <2>3, <3>1, NothingWritten
  <2>4. CASE event.usr.mdc # <<>>
    <3>1. w = Wrote(event, WriteText(b, event.usr.mdc, mem))
      BY <2>1, <2>4 DEF zlog_spec_write_mdc, zlog_buf_append
    <3> QED  BY <2>1, <2>2, <3>1, TextWritten
  <2> QED  BY <2>3, <2>4
<1>4. CASE spec.write = "srcline"
  <2>1. w = zlog_spec_write_srcline(event, spec, b, mem)
        /\ Meant(spec, t) = NumberText(spec.line, 10, 1)
    BY <1>4 DEF zlog_spec_write, Meant, TextOf
  <2>2. PICK n, base, z : n = spec.line /\ base = 10 /\ z = 0
    OBVIOUS
  <2>3. n \in Nat /\ base \in Nat \ {0, 1} /\ z \in Nat
    BY <1>1, <1>4, <2>2 DEF IsSpec
  <2>4. NumberText(n, base, 1) = NumberText(n, base, z)
    BY <2>2, <2>3, NumberIs, ZenonT(60)
  <2>5. Written(b, zlog_buf_printf_dec64(b, n, z, mem), NumberText(n, 10, z))
        /\ IsSeq(NumberText(n, 10, z))
    BY <2>3, DecimalWritten
  <2>6. w = Wrote(event, zlog_buf_printf_dec64(b, n, z, mem))
    BY <2>1, <2>2 DEF zlog_spec_write_srcline
  <2> HIDE DEF w
  <2> QED  BY <2>1, <2>2, <2>4, <2>5, <2>6
<1>5. CASE spec.write = "str"
  <2>1. w = Wrote(event, WriteText(b, spec.str, mem)) /\ Meant(spec, t) = spec.str
    BY <1>5 DEF zlog_spec_write, zlog_spec_write_str, zlog_buf_append, Meant, TextOf
  <2>2. IsSeq(spec.str)
    BY <1>1, <1>5 DEF IsSpec
  <2> HIDE DEF w
  <2> QED  BY <2>1, <2>2, TextWritten
<1>6. CASE spec.write = "usrmsg"
  <2> DEFINE x == event.usr.text
             cmd == event.usr.cmd
  <2>1. w = zlog_spec_write_usrmsg(event, b, mem)
    BY <1>6 DEF zlog_spec_write
  <2>2. IsSeq(x) /\ cmd \in {"ZLOG_FMT", "ZLOG_HEX"}
        /\ (cmd = "ZLOG_HEX" /\ x # NULL => x \in Seq(Nat))
    BY <1>1 DEF IsMessage, NULL
  <2>3. Meant(spec, t) = IF cmd = "ZLOG_FMT" \/ x = NULL THEN x
                         ELSE FlattenSeq([i \in DOMAIN HexCalls(x) |-> CallText(HexCalls(x)[i])])
    BY <1>6 DEF Meant, TextOf
  <2> HIDE DEF w
  <2>4. CASE x = NULL
    <3>1. w = Wrote(event, WriteText(b, x, mem))
      BY <2>1, <2>4 DEF zlog_spec_write_usrmsg, zlog_buf_append
    <3> HIDE DEF x
    <3> QED  BY <2>2, <2>3, <2>4, <3>1, TextWritten
  <2>5. CASE x # NULL /\ cmd = "ZLOG_FMT"
    <3>1. w = Wrote(event, zlog_buf_vprintf(b, x, mem))
      BY <2>1, <2>5 DEF zlog_spec_write_usrmsg
    <3>2. Meant(spec, t) = x
      BY <2>3, <2>5
    <3>3. CASE ~b.start
      <4>1. PICK r : r = [buf |-> b, rc |-> -1]
        OBVIOUS
      <4>2. zlog_buf_vprintf(b, x, mem) = r
        BY <3>3, <4>1 DEF zlog_buf_vprintf, Result
      <4>3. r.buf = b /\ r.rc = -1 /\ r = [buf |-> r.buf, rc |-> r.rc]
        BY <4>1
      <4>4. Written(b, r, x)
        BY <3>3, <4>3 DEF Written
      <4> QED  BY <2>2, <3>1, <3>2, <4>2, <4>4
    <3>4. CASE b.start /\ x = CannotConvert
      <4>1. zlog_buf_vprintf(b, x, mem) = [buf |-> b, rc |-> -1]
        BY <3>4 DEF zlog_buf_vprintf, Result
      <4>2. Bad(spec)
        BY <1>6, <3>4 DEF Bad
      <4> QED  BY <2>2, <3>1, <3>2, <4>1, <4>2
    <3>5. CASE b.start /\ x # CannotConvert
      <4>1. zlog_buf_vprintf(b, x, mem) = WriteText(b, x, mem)
        BY <3>5 DEF zlog_buf_vprintf
      <4> HIDE DEF x
      <4> QED  BY <2>2, <3>1, <3>2, <4>1, TextWritten
    <3> QED  BY <3>3, <3>4, <3>5
  <2>6. CASE x # NULL /\ cmd = "ZLOG_HEX"
    <3>1. w = Wrote(event, WriteAll(b, HexCalls(x), mem))
      BY <2>1, <2>6 DEF zlog_spec_write_usrmsg
    <3>2. PICK c : c = HexCalls(x)
      OBVIOUS
    <3>3. c \in Seq(HexCall)
      BY <2>2, <2>6, <3>2, HexCallsAre
    <3>4. PICK out : out = FlattenSeq([i \in DOMAIN c |-> CallText(c[i])])
      OBVIOUS
    <3>5. Meant(spec, t) = out
      BY <2>3, <2>6, <3>2, <3>4
    <3>6. Written(b, WriteAll(b, c, mem), out) /\ IsSeq(out)
      BY <3>3, <3>4, AllWritten
    <3> QED  BY <3>1, <3>2, <3>5, <3>6
  <2> QED  BY <2>2, <2>4, <2>5, <2>6
<1> HIDE DEF w, R
<1> QED  BY <1>3, <1>4, <1>5, <1>6

\* Every conversion writes the text that is meant for one tick, and keeps
\* what the event knows.
LEMMA SpecWritten ==
  ASSUME NEW spec, Ready(spec), NEW b, IsBuffer(b), NEW mem, NEW t \in Nat
  PROVE  LET w == zlog_spec_write(event, spec, b, mem) IN
         /\ EventKept(w.event)
         /\ w.event.time_stamp \in {NoTime, t} => Outputs(b, w, spec, t)
         /\ IsSeq(Meant(spec, t))
<1>1. spec.write \in {"time", "ms", "us", "mdc", "pid", "srcline", "str", "usrmsg"}
  BY DEF Ready, IsSpec
<1>2. CASE spec.write = "time"
  <2>1. zlog_spec_write(event, spec, b, mem) = zlog_spec_write_time(event, spec, b, mem)
    BY <1>2 DEF zlog_spec_write
  <2> QED  BY <1>2, <2>1, TimeWritten
<1>3. CASE spec.write \in {"ms", "us"}
  <2>1. zlog_spec_write(event, spec, b, mem) = zlog_spec_write_fraction(event, spec, b, mem)
    BY <1>3 DEF zlog_spec_write
  <2> QED  BY <1>3, <2>1, FractionWritten
<1>4. CASE spec.write = "pid"
  <2>1. zlog_spec_write(event, spec, b, mem) = zlog_spec_write_pid(event, b, mem)
    BY <1>4 DEF zlog_spec_write
  <2> QED  BY <1>4, <2>1, PidWritten
<1>5. CASE spec.write \in {"mdc", "srcline", "str", "usrmsg"}
  BY <1>5, OtherWritten
<1> QED  BY <1>1, <1>2, <1>3, <1>4, <1>5

-----------------------------------------------------------------------------
(* One conversion into the buffers of the thread.                          *)

BufNames == {"msg_buf", "pre_msg_buf", "path_buf", "archive_path_buf", "pre_path_buf"}

BuffersOf(bs) == bs = [b \in BufNames |-> bs[b]] /\ \A b \in BufNames : IsBuffer(bs[b])

LEMMA Restarted ==
  ASSUME NEW b, IsBuffer(b)
  PROVE  LET r == zlog_buf_restart(b) IN
         IsBuffer(r) /\ r.text = <<>> /\ r.max = b.max /\ r.mark = b.mark /\ r.start = b.start
<1>1. PICK r : r = zlog_buf_restart(b)
  OBVIOUS
<1>2. r.text = <<>> /\ r.max = b.max /\ r.mark = b.mark /\ r.start = b.start /\ r.size = b.size
      /\ r = [start |-> r.start, text |-> r.text, size |-> r.size, max |-> r.max, mark |-> r.mark]
  BY <1>1 DEF zlog_buf_restart, IsBuffer
<1>3. IsSeq(<<>>) /\ Len(<<>>) = 0
  BY DEF IsSeq
<1>4. WellFormed(r)
  BY <1>2, <1>3 DEF WellFormed, IsBuffer
<1> QED  BY <1>1, <1>2, <1>3, <1>4 DEF IsBuffer

\* What a conversion adds to its target buffer: g is the result of
\* zlog_spec_gen.
GenOutputs(g, spec, target, t) ==
  /\ IsSeq(Shown(spec, target, t))
  /\ g.rc = 0 /\ (spec.reformat => bufs[PreBuf(target)].start)
       => g.bufs[target].text = bufs[target].text \o Shown(spec, target, t)
  /\ g.rc = 1 /\ bufs[target].start /\ (spec.reformat => bufs[PreBuf(target)].start)
       => /\ bufs[target].max # 0
          /\ Len(bufs[target].text \o Shown(spec, target, t)) >= bufs[target].max
  /\ g.rc = -1 => Bad(spec) \/ \E b \in BufNames : ~g.bufs[b].start

GenKeeps(g) ==
  /\ EventKept(g.event) /\ g.rc \in {-1, 0, 1}
  /\ BuffersOf(g.bufs)
  /\ \A b \in BufNames : g.bufs[b].max = bufs[b].max /\ g.bufs[b].mark = bufs[b].mark

LEMMA LimitedIs ==
  ASSUME NEW x, IsSeq(x), NEW max \in Nat, NEW mark, IsSeq(mark)
  PROVE  IsSeq(Limited(x, max, mark))
<1>1. CASE max = 0 \/ Len(x) < max
  BY <1>1 DEF Limited
<1>2. CASE ~(max = 0 \/ Len(x) < max)
  <2>1. max - 1 \in Nat /\ Len(mark) \in Nat
    BY <1>2, Facts
  <2>2. PICK m : m = Prefix(mark, max - 1)
    OBVIOUS
  <2>3. IsSeq(m) /\ Len(m) \in Nat /\ Len(m) <= max - 1
    BY <2>1, <2>2, PrefixIs
  <2>4. PICK k \in Nat : k = max - 1 - Len(m)
    <3>1. PICK l \in Nat : l = Len(m)
      BY <2>3
    <3>2. max - 1 - l \in Nat
      BY <2>1, <2>3, <3>1
    <3> QED  BY <3>1, <3>2
  <2>5. IsSeq(Prefix(x, k))
    BY PrefixIs
  <2>6. IsSeq(Prefix(x, k) \o m)
    BY <2>3, <2>5, Concat
  <2> QED  BY <1>2, <2>2, <2>4, <2>6 DEF Limited
<1> QED  BY <1>1, <1>2

LEMMA GenDirect ==
  ASSUME NEW spec, Ready(spec), ~spec.reformat, NEW target \in Targets, BuffersOf(bufs), NEW mem,
         NEW t \in Nat
  PROVE  LET g == zlog_spec_gen(spec, target, mem) IN
         /\ GenKeeps(g)
         /\ g.event.time_stamp \in {NoTime, t} => GenOutputs(g, spec, target, t)
<1>1. PICK g : g = zlog_spec_gen(spec, target, mem)
  OBVIOUS
<1>2. PICK b : b = bufs[target]
  OBVIOUS
<1>3. target \in BufNames /\ IsBuffer(b)
  BY <1>2 DEF Targets, BufNames, BuffersOf
<1>4. PICK w : w = zlog_spec_write(event, spec, b, mem)
  OBVIOUS
<1>5. g = [event |-> w.event, rc |-> w.rc, bufs |-> [bufs EXCEPT ![target] = w.buf]]
  BY <1>1, <1>2, <1>4 DEF zlog_spec_gen
<1>6. g.event = w.event /\ g.rc = w.rc /\ g.bufs = [bufs EXCEPT ![target] = w.buf]
  BY <1>5
<1>7. g.bufs[target] = w.buf /\ \A x \in BufNames : x # target => g.bufs[x] = bufs[x]
  BY <1>3, <1>6 DEF BuffersOf
<1>8. ASSUME NEW u \in Nat
      PROVE  /\ EventKept(w.event)
             /\ w.event.time_stamp \in {NoTime, u} => Outputs(b, w, spec, u)
             /\ IsSeq(Meant(spec, u))
  BY <1>3, <1>4, SpecWritten
<1>9. EventKept(w.event)
  BY <1>8
<1>10. \E u \in Nat : w.event.time_stamp \in {NoTime, u}
  BY <1>9 DEF EventKept, IsEvent
<1>11. PICK u \in Nat : w.event.time_stamp \in {NoTime, u}
  BY <1>10
<1>12. IsBuffer(w.buf) /\ w.buf.max = b.max /\ w.buf.mark = b.mark /\ w.rc \in {-1, 0, 1}
  <2>1. Outputs(b, w, spec, u)
    BY <1>8, <1>11
  <2> QED  BY <1>3, <2>1 DEF Outputs, Written
<1>13. BuffersOf(g.bufs)
  <2>1. g.bufs = [x \in BufNames |-> g.bufs[x]]
    BY <1>6 DEF BuffersOf
  <2> QED  BY <1>7, <1>12, <2>1 DEF BuffersOf
<1>14. GenKeeps(g)
  BY <1>2, <1>6, <1>7, <1>9, <1>12, <1>13 DEF GenKeeps
<1>15. ASSUME g.event.time_stamp \in {NoTime, t} PROVE GenOutputs(g, spec, target, t)
  <2>1. Outputs(b, w, spec, t)
    BY <1>6, <1>8, <1>15
  <2>2. PICK out : out = Meant(spec, t)
    OBVIOUS
  <2>3. IsSeq(out) /\ Shown(spec, target, t) = out
    BY <1>8, <2>2 DEF Shown, InWidth
  <2>4. \/ Written(b, [buf |-> w.buf, rc |-> w.rc], out)
        \/ Bad(spec) /\ w.rc = -1 /\ w.buf = b
    BY <2>1, <2>2 DEF Outputs
  <2>5. (w.rc = 0 => w.buf.text = b.text \o out)
        /\ (w.rc = 1 /\ b.start => b.max # 0 /\ Len(b.text \o out) >= b.max)
        /\ (w.rc = -1 => Bad(spec) \/ ~w.buf.start)
    BY <2>4 DEF Written
  <2> QED  BY <1>2, <1>3, <1>6, <1>7, <2>3, <2>5 DEF GenOutputs
<1> QED  BY <1>1, <1>14, <1>15

LEMMA GenReformat ==
  ASSUME NEW spec, Ready(spec), spec.reformat, NEW target \in Targets, BuffersOf(bufs), NEW mem,
         NEW t \in Nat
  PROVE  LET g == zlog_spec_gen(spec, target, mem) IN
         /\ GenKeeps(g)
         /\ g.event.time_stamp \in {NoTime, t} => GenOutputs(g, spec, target, t)
<1>1. PICK g, first : g = zlog_spec_gen(spec, target, mem) /\ first = PreBuf(target)
  OBVIOUS
<1>2. target \in BufNames /\ first \in BufNames /\ first # target
  BY <1>1 DEF Targets, BufNames, PreBuf
<1>3. PICK b, pre, into : b = bufs[target] /\ pre = bufs[first] /\ into = zlog_buf_restart(pre)
  OBVIOUS
<1>4. IsBuffer(b) /\ IsBuffer(pre)
  BY <1>2, <1>3 DEF BuffersOf
<1>5. IsBuffer(into) /\ into.text = <<>> /\ into.max = pre.max /\ into.mark = pre.mark
      /\ into.start = pre.start
  BY <1>3, <1>4, Restarted
<1>6. spec.left_adjust \in BOOLEAN /\ spec.min_width \in Nat /\ spec.max_width \in Nat
  BY DEF Ready, IsSpec
<1>7. PICK w : w = zlog_spec_write(event, spec, into, mem)
  OBVIOUS
<1>8. PICK r : r = zlog_buf_adjust_append(b, w.buf.text, spec.left_adjust,
                                          spec.min_width, spec.max_width, mem)
  OBVIOUS
<1>9. g = IF w.rc < 0
          THEN [event |-> w.event, rc |-> w.rc, bufs |-> [bufs EXCEPT ![first] = w.buf]]
          ELSE [event |-> w.event, rc |-> r.rc,
                bufs |-> [bufs EXCEPT ![first] = w.buf, ![target] = r.buf]]
  BY <1>1, <1>3, <1>7, <1>8 DEF zlog_spec_gen
<1>10. ASSUME NEW u \in Nat
       PROVE  /\ EventKept(w.event)
              /\ w.event.time_stamp \in {NoTime, u} => Outputs(into, w, spec, u)
              /\ IsSeq(Meant(spec, u))
  BY <1>5, <1>7, SpecWritten
<1>11. EventKept(w.event)
  BY <1>10
<1>12. \E u \in Nat : w.event.time_stamp \in {NoTime, u}
  BY <1>11 DEF EventKept, IsEvent
<1>13. PICK u \in Nat : w.event.time_stamp \in {NoTime, u}
  BY <1>12
<1>14. IsBuffer(w.buf) /\ w.buf.max = pre.max /\ w.buf.mark = pre.mark /\ w.rc \in {-1, 0, 1}
  <2>1. Outputs(into, w, spec, u)
    BY <1>10, <1>13
  <2> QED  BY <1>5, <2>1 DEF Outputs, Written
<1>15. IsSeq(w.buf.text)
  BY <1>14 DEF IsBuffer
<1>16. PICK shown : shown = Adjusted(w.buf.text, spec.left_adjust, spec.min_width, spec.max_width)
  OBVIOUS
<1>17. Written(b, r, shown) /\ IsSeq(shown)
  <2>1. PICK x, left, min, max : x = w.buf.text /\ left = spec.left_adjust
                                 /\ min = spec.min_width /\ max = spec.max_width
    OBVIOUS
  <2>2. IsSeq(x) /\ left \in BOOLEAN /\ min \in Nat /\ max \in Nat
    BY <1>6, <1>15, <2>1
  <2>3. Written(b, zlog_buf_adjust_append(b, x, left, min, max, mem), Adjusted(x, left, min, max))
        /\ IsSeq(Adjusted(x, left, min, max))
    BY <1>4, <2>2, AdjustWritten
  <2> QED  BY <1>8, <1>16, <2>1, <2>3
<1>18. CASE w.rc = -1
  <2>1. g.event = w.event /\ g.rc = -1 /\ g.bufs = [bufs EXCEPT ![first] = w.buf]
    BY <1>9, <1>18
  <2>2. g.bufs[first] = w.buf /\ \A x \in BufNames : x # first => g.bufs[x] = bufs[x]
    BY <1>2, <2>1 DEF BuffersOf
  <2>3. g.bufs = [x \in BufNames |-> g.bufs[x]]
    BY <2>1 DEF BuffersOf
  <2>4. BuffersOf(g.bufs)
    BY <1>14, <2>2, <2>3 DEF BuffersOf
  <2>5. GenKeeps(g)
    BY <1>3, <1>11, <1>14, <2>1, <2>2, <2>4 DEF GenKeeps
  <2>6. ASSUME g.event.time_stamp \in {NoTime, t} PROVE GenOutputs(g, spec, target, t)
    <3>1. Outputs(into, w, spec, t) /\ IsSeq(Meant(spec, t))
      BY <1>10, <2>1, <2>6
    <3>2. Bad(spec) \/ ~w.buf.start
      BY <1>18, <3>1 DEF Outputs, Written
    <3>3. IsSeq(Shown(spec, target, t))
      <4>1. PICK x, left, min, max : x = Limited(Meant(spec, t), pre.max, pre.mark)
              /\ left = spec.left_adjust /\ min = spec.min_width /\ max = spec.max_width
        OBVIOUS
      <4>2. IsSeq(x)
        BY <1>4, <3>1, <4>1, LimitedIs DEF IsBuffer
      <4>3. left \in BOOLEAN /\ min \in Nat /\ max \in Nat
        BY <1>6, <4>1
      <4>4. IsSeq(Adjusted(x, left, min, max))
        BY <1>4, <4>2, <4>3, AdjustWritten
      <4> QED  BY <1>1, <1>3, <4>1, <4>4 DEF Shown, InWidth, Adjusted
    <3> QED  BY <1>2, <2>1, <2>2, <3>2, <3>3 DEF GenOutputs
  <2> QED  BY <1>1, <2>5, <2>6
<1>19. CASE w.rc # -1
  <2>1. g.event = w.event /\ g.rc = r.rc
        /\ g.bufs = [bufs EXCEPT ![first] = w.buf, ![target] = r.buf]
    BY <1>9, <1>14, <1>19
  <2>2. g.bufs[first] = w.buf /\ g.bufs[target] = r.buf
        /\ \A x \in BufNames : x # first /\ x # target => g.bufs[x] = bufs[x]
    BY <1>2, <2>1 DEF BuffersOf
  <2>3. g.bufs = [x \in BufNames |-> g.bufs[x]]
    BY <2>1 DEF BuffersOf
  <2>4. IsBuffer(r.buf) /\ r.buf.max = b.max /\ r.buf.mark = b.mark /\ r.rc \in {-1, 0, 1}
    BY <1>17 DEF Written
  <2>5. BuffersOf(g.bufs)
    BY <1>14, <2>2, <2>3, <2>4 DEF BuffersOf
  <2>6. GenKeeps(g)
    BY <1>3, <1>11, <1>14, <2>1, <2>2, <2>4, <2>5, ZenonT(60) DEF GenKeeps
  <2>7. ASSUME g.event.time_stamp \in {NoTime, t} PROVE GenOutputs(g, spec, target, t)
    <3>1. Outputs(into, w, spec, t) /\ IsSeq(Meant(spec, t))
      BY <1>10, <2>1, <2>7
    <3>2. PICK m : m = Meant(spec, t)
      OBVIOUS
    <3>3. Written(into, [buf |-> w.buf, rc |-> w.rc], m)
      BY <1>19, <3>1, <3>2 DEF Outputs
    <3>4. <<>> \o m = m
      BY <3>1, <3>2, ConcatEmpty
    <3>5. ASSUME pre.start PROVE w.buf.text = Limited(m, pre.max, pre.mark)
      <4>1. CASE w.rc = 1
        BY <1>5, <3>3, <3>4, <3>5, <4>1 DEF Written
      <4>2. CASE w.rc = 0
        <5>1. w.buf.text = m /\ w.buf.start
          BY <1>5, <3>3, <3>4, <3>5, <4>2 DEF Written
        <5>2. w.buf.max = 0 \/ Len(m) < w.buf.max
          <6>1. Len(m) \in Nat
            BY <3>1, <3>2, Facts
          <6> QED  BY <1>14, <5>1, <6>1 DEF IsBuffer, WellFormed
        <5> QED  BY <1>14, <5>1, <5>2 DEF Limited
      <4> QED  BY <1>14, <1>19, <4>1, <4>2
    <3>6. PICK x : x = Limited(m, pre.max, pre.mark)
      OBVIOUS
    <3>7. Shown(spec, target, t) = Adjusted(x, spec.left_adjust, spec.min_width, spec.max_width)
      BY <1>1, <1>3, <3>2, <3>6 DEF Shown, InWidth, Adjusted
    <3>8. IsSeq(Shown(spec, target, t))
      <4>1. IsSeq(x)
        BY <1>4, <3>1, <3>2, <3>6, LimitedIs DEF IsBuffer
      <4>2. PICK left, min, max : left = spec.left_adjust /\ min = spec.min_width
                                  /\ max = spec.max_width
        OBVIOUS
      <4>3. left \in BOOLEAN /\ min \in Nat /\ max \in Nat
        BY <1>6, <4>2
      <4>4. IsSeq(Adjusted(x, left, min, max))
        BY <1>4, <4>1, <4>3, AdjustWritten
      <4> QED  BY <3>7, <4>2, <4>4
    <3>9. pre.start => Shown(spec, target, t) = shown
      BY <1>16, <3>5, <3>6, <3>7
    <3>10. /\ r.rc = 0 => r.buf.text = b.text \o shown
           /\ r.rc = 1 /\ b.start => b.max # 0 /\ Len(b.text \o shown) >= b.max
           /\ r.rc = -1 => ~r.buf.start
      BY <1>17 DEF Written
    <3> QED  BY <1>1, <1>2, <1>3, <2>1, <2>2, <3>8, <3>9, <3>10 DEF GenOutputs
  <2> QED  BY <1>1, <2>6, <2>7
<1> QED  BY <1>18, <1>19

LEMMA GenIs ==
  ASSUME NEW spec, Ready(spec), NEW target \in Targets, BuffersOf(bufs), NEW mem, NEW t \in Nat
  PROVE  LET g == zlog_spec_gen(spec, target, mem) IN
         /\ GenKeeps(g)
         /\ g.event.time_stamp \in {NoTime, t} => GenOutputs(g, spec, target, t)
<1>1. CASE spec.reformat
  BY <1>1, GenReformat
<1>2. CASE ~spec.reformat
  BY <1>2, GenDirect
<1> QED  BY <1>1, <1>2

-----------------------------------------------------------------------------
(* The inductive invariant: the buffer of the text under way holds what    *)
(* its first conversions are meant to write, for every time that the event *)
(* may still get; the caches are those of this process.                    *)

\* What the first n conversions of a format write for a target, usr and
\* process, where the first buffer has a limit and a mark.
TextUpTo(format, n, usr, process, max, mark, t) ==
  Flat([i \in 1..Len(format) |-> InWidth(format[i], TextOf(format[i], usr, process, t), max, mark)], n)

Plain(format, n) == \A i \in 1..n : ~format[i].reformat

ThreadInv ==
  event # NoEvent =>
    /\ IsEvent(event) /\ BuffersOf(bufs)
    /\ ~memLost => \A b \in BufNames : bufs[b].start
    /\ since # NoTime => /\ event.pid # 0 => event.pid = pid
                         /\ event.time_stamp # NoTime => event.time_stamp \in since..tick

JobInv ==
  job # NoJob =>
    /\ event # NoEvent /\ since # NoTime /\ outcome = NoOutcome
    /\ \E f \in Formats : job = [format |-> f.specs, target |-> f.target, next |-> job.next]
    /\ job.next \in 1..Len(job.format)
    /\ \A t \in Nat :
         event.time_stamp \in {NoTime, t} /\ (~memLost \/ Plain(job.format, job.next - 1))
         => bufs[job.target].text =
              TextUpTo(job.format, job.next - 1, event.usr, pid,
                       bufs[PreBuf(job.target)].max, bufs[PreBuf(job.target)].mark, t)

MessageInv ==
  /\ tick \in Nat /\ pid \in Nat \ {0} /\ memLost \in BOOLEAN
  /\ since = NoTime \/ since \in 0..tick
  /\ bufs = [b \in BufNames |-> bufs[b]]
  /\ event = NoEvent => job = NoJob /\ outcome = NoOutcome
  /\ \/ outcome = NoOutcome
     \/ /\ job = NoJob /\ since # NoTime /\ event # NoEvent
        /\ \E f \in Formats : outcome.format = f.specs /\ outcome.target = f.target
  /\ ThreadInv
  /\ JobInv
  /\ MessageExact
  /\ DroppedHasCause

-----------------------------------------------------------------------------
(* What the conversions of a format write one after the other.             *)

LEMMA ShownIs ==
  ASSUME NEW spec, Ready(spec), NEW target \in Targets, BuffersOf(bufs), NEW t \in Nat
  PROVE  IsSeq(Shown(spec, target, t))
<1>1. PICK b, pre : b = bufs[target] /\ pre = bufs[PreBuf(target)]
  OBVIOUS
<1>2. IsBuffer(b) /\ IsBuffer(pre)
  BY <1>1 DEF BuffersOf, Targets, BufNames, PreBuf
<1>3. PICK m : m = Meant(spec, t)
  OBVIOUS
<1>4. IsSeq(m)
  BY <1>2, <1>3, SpecWritten
<1>5. CASE ~spec.reformat
  BY <1>3, <1>4, <1>5 DEF Shown, InWidth
<1>6. CASE spec.reformat
  <2>1. PICK x, left, min, max : x = Limited(m, pre.max, pre.mark)
          /\ left = spec.left_adjust /\ min = spec.min_width /\ max = spec.max_width
    OBVIOUS
  <2>2. IsSeq(x)
    BY <1>2, <1>4, <2>1, LimitedIs DEF IsBuffer
  <2>3. left \in BOOLEAN /\ min \in Nat /\ max \in Nat
    BY <1>6, <2>1 DEF Ready, IsSpec
  <2>4. IsSeq(Adjusted(x, left, min, max))
    BY <1>2, <2>2, <2>3, AdjustWritten
  <2> QED  BY <1>1, <1>3, <1>6, <2>1, <2>4 DEF Shown, InWidth, Adjusted
<1> QED  BY <1>5, <1>6

\* The text so far, of the event and the buffers as they are.
SoFar(format, target, n, t) ==
  TextUpTo(format, n, event.usr, pid, bufs[PreBuf(target)].max, bufs[PreBuf(target)].mark, t)

LEMMA SoFarIs ==
  ASSUME NEW format, Len(format) \in Nat, \A i \in 1..Len(format) : Ready(format[i]),
         NEW target \in Targets, BuffersOf(bufs), NEW t \in Nat
  PROVE  /\ SoFar(format, target, 0, t) = <<>>
         /\ \A i \in 1..Len(format) :
              SoFar(format, target, i, t) =
                SoFar(format, target, i - 1, t) \o Shown(format[i], target, t)
         /\ \A i \in 0..Len(format) :
              /\ Len(SoFar(format, target, i, t)) \in Nat
              /\ Len(SoFar(format, target, Len(format), t)) \in Nat
              /\ Len(SoFar(format, target, Len(format), t)) >= Len(SoFar(format, target, i, t))
<1>1. PICK n \in Nat : n = Len(format)
  OBVIOUS
<1>2. PICK s : s = [i \in 1..n |-> Shown(format[i], target, t)]
  OBVIOUS
<1>3. \A i \in 1..n : s[i] = Shown(format[i], target, t) /\ IsSeq(s[i])
  BY <1>1, <1>2, ShownIs
<1>4. s = [i \in 1..Len(format) |->
             InWidth(format[i], TextOf(format[i], event.usr, pid, t),
                     bufs[PreBuf(target)].max, bufs[PreBuf(target)].mark)]
  BY <1>1, <1>2 DEF Shown, Meant
<1>5. \A i : SoFar(format, target, i, t) = Flat(s, i)
  BY <1>4 DEF SoFar, TextUpTo
<1>6. /\ Flat(s, 0) = <<>>
      /\ \A i \in 1..n : Flat(s, i) = Flat(s, i - 1) \o s[i]
  BY <1>3, FlatIs
<1>7. \A i \in 0..n : Len(Flat(s, n)) \in Nat /\ Len(Flat(s, i)) \in Nat
                      /\ Len(Flat(s, n)) >= Len(Flat(s, i))
  BY <1>3, FlatGrows
<1>8. SoFar(format, target, 0, t) = <<>>
  BY <1>5, <1>6
<1>9. \A i \in 1..n : SoFar(format, target, i, t)
                        = SoFar(format, target, i - 1, t) \o Shown(format[i], target, t)
  BY <1>3, <1>5, <1>6
<1>10. \A i \in 0..n : /\ Len(SoFar(format, target, i, t)) \in Nat
                       /\ Len(SoFar(format, target, n, t)) \in Nat
                       /\ Len(SoFar(format, target, n, t)) >= Len(SoFar(format, target, i, t))
  BY <1>5, <1>7
<1> QED  BY <1>1, <1>8, <1>9, <1>10

\* The conversions of a format of the configuration can be written.
LEMMA FormatsReady ==
  ASSUME NEW f \in Formats, IsEvent(event), event.pid # 0 => event.pid = pid,
         tick \in Nat, pid \in Nat \ {0}
  PROVE  /\ f.target \in Targets
         /\ Len(f.specs) \in Nat \ {0} /\ DOMAIN f.specs = 1..Len(f.specs)
         /\ \A i \in 1..Len(f.specs) : Ready(f.specs[i])
<1>1. IsFormat(f)
  BY MessageAssumption
<1>2. IsSeq(f.specs) /\ f.specs # <<>> /\ f.target \in Targets
  BY <1>1 DEF IsFormat
<1>3. Len(f.specs) \in Nat /\ DOMAIN f.specs = 1..Len(f.specs)
  BY <1>2, Facts
<1>4. Len(f.specs) # 0
  BY <1>2, <1>3 DEF IsSeq
<1>5. ASSUME NEW i \in 1..Len(f.specs) PROVE Ready(f.specs[i])
  <2>1. IsSpec(f.specs[i]) /\ i \in DOMAIN f.specs
    BY <1>1, <1>3 DEF IsFormat
  <2>2. f.specs[i].write = "time" => f.specs[i] \in TimeSpecs
    BY <2>1 DEF TimeSpecs
  <2> QED  BY <2>1, <2>2 DEF Ready
<1> QED  BY <1>2, <1>3, <1>4, <1>5

LEMMA NewBuffer ==
  ASSUME NEW min \in Nat, NEW max \in Nat, NEW mark, IsSeq(mark), NEW mem \in Nat,
         zlog_buf_new(min, max, mark, mem).start
  PROVE  IsBuffer(zlog_buf_new(min, max, mark, mem))
<1>1. PICK b : b = zlog_buf_new(min, max, mark, mem)
  OBVIOUS
<1>2. b = [start |-> TRUE, text |-> <<>>, size |-> min, max |-> max, mark |-> mark]
      /\ min # 0 /\ (max # 0 => min <= max)
  BY <1>1 DEF zlog_buf_new, NoBuffer
<1>3. IsSeq(<<>>) /\ Len(<<>>) = 0
  BY DEF IsSeq
<1>4. WellFormed(b)
  BY <1>2, <1>3 DEF WellFormed
<1> QED  BY <1>1, <1>2, <1>3, <1>4 DEF IsBuffer

-----------------------------------------------------------------------------
(* The invariant, action by action.                                        *)

LEMMA NothingShown ==
  ASSUME outcome' = NoOutcome
  PROVE  MessageExact' /\ DroppedHasCause'
BY DEF NoOutcome, MessageExact, DroppedHasCause

LEMMA MessageInitInv == MessageInit => MessageInv
<1> SUFFICES ASSUME MessageInit PROVE MessageInv
  OBVIOUS
<1>1. outcome.status = "none" /\ outcome = NoOutcome /\ event = NoEvent /\ job = NoJob
  BY DEF MessageInit, NoOutcome
<1>2. MessageExact /\ DroppedHasCause
  BY <1>1 DEF MessageExact, DroppedHasCause
<1>3. ThreadInv /\ JobInv
  BY <1>1 DEF ThreadInv, JobInv
<1>4. tick \in Nat /\ pid \in Nat \ {0} /\ since = NoTime
  BY DEF MessageInit
<1>5. memLost \in BOOLEAN
  BY Zenon DEF MessageInit
<1>6. bufs = [b \in BufNames |-> NoBuffer]
  BY DEF MessageInit, BufNames
<1>7. bufs = [b \in BufNames |-> bufs[b]]
  BY <1>6
<1> QED  BY <1>1, <1>2, <1>3, <1>4, <1>5, <1>7 DEF MessageInv

LEMMA ThreadNewInv == MessageInv /\ ThreadNew => MessageInv'
<1> SUFFICES ASSUME MessageInv, ThreadNew PROVE MessageInv'
  OBVIOUS
<1>1. /\ event = NoEvent /\ job = NoJob /\ outcome = NoOutcome
      /\ bufs = [b \in BufNames |-> bufs[b]]
      /\ tick \in Nat /\ pid \in Nat \ {0} /\ memLost \in BOOLEAN
      /\ since = NoTime \/ since \in 0..tick
  BY DEF MessageInv, ThreadNew
<1>2. /\ event' = zlog_event_new
      /\ job' = job /\ outcome' = outcome /\ tick' = tick /\ pid' = pid /\ memLost' = memLost
      /\ since' = since
  BY DEF ThreadNew
<1>3. PICK max \in BufMaxes, mem \in MemSizes :
        /\ \A b \in DOMAIN zlog_thread_buffers(max, mem) : zlog_thread_buffers(max, mem)[b].start
        /\ bufs' = zlog_thread_buffers(max, mem)
  BY DEF ThreadNew
<1>4. DOMAIN bufs = BufNames
  BY <1>1
<1>5. bufs' = [b \in BufNames |->
         IF b \in {"msg_buf", "pre_msg_buf"} THEN zlog_buf_new(BufMin, max, TruncateStr, mem)
         ELSE zlog_buf_new(PathMax, PathMax, <<>>, mem)]
  BY <1>3, <1>4 DEF zlog_thread_buffers
<1>6. \A b \in BufNames : bufs'[b].start
  BY <1>3, <1>5
<1>7. BuffersOf(bufs')
  <2>1. ASSUME NEW b \in BufNames PROVE IsBuffer(bufs'[b])
    <3>1. max \in Nat /\ mem \in Nat /\ BufMin \in Nat /\ PathMax \in Nat /\ IsSeq(TruncateStr)
      BY MessageAssumption
    <3>2. IsSeq(<<>>)
      BY DEF IsSeq
    <3>3. CASE b \in {"msg_buf", "pre_msg_buf"}
      BY <1>5, <1>6, <3>1, <3>3, NewBuffer
    <3>4. CASE b \notin {"msg_buf", "pre_msg_buf"}
      BY <1>5, <1>6, <3>1, <3>2, <3>4, NewBuffer
    <3> QED  BY <3>3, <3>4
  <2> QED  BY <1>5, <2>1 DEF BuffersOf
<1>8. IsEvent(event') /\ event'.pid = 0 /\ event'.time_stamp = NoTime
  <2>1. PICK e : e = zlog_event_new
    OBVIOUS
  <2>2. /\ e = [time_stamp |-> e.time_stamp, time_local |-> e.time_local,
                time_caches |-> e.time_caches, pid |-> e.pid, last_pid |-> e.last_pid,
                pid_str |-> e.pid_str, usr |-> e.usr]
        /\ e.time_stamp = NoTime /\ e.pid = 0 /\ e.last_pid = 0 /\ e.usr = NoMessage
        /\ e.time_caches = [i \in 0..(TimeCaches - 1) |-> [sec |-> 0, str |-> <<>>]]
    BY <2>1 DEF zlog_event_new
  <2>3. IsMessage(e.usr)
    <3>1. IsSeq(<<>>)
      BY DEF IsSeq
    <3> QED  BY <2>2, <3>1 DEF IsMessage, NoMessage
  <2>4. \A i \in 0..(TimeCaches - 1) : e.time_caches[i].sec = 0
    BY <2>2
  <2>5. \A s \in TimeSpecs : s.time_cache_index \in 0..(TimeCaches - 1)
    <3>1. ASSUME NEW s \in TimeSpecs PROVE IsSpec(s) /\ s.write = "time"
      <4>1. PICK f \in Formats : s \in {f.specs[i] : i \in {j \in DOMAIN f.specs : f.specs[j].write = "time"}}
        BY DEF TimeSpecs
      <4>2. IsFormat(f)
        BY MessageAssumption
      <4> QED  BY <4>1, <4>2 DEF IsFormat
    <3> QED  BY <3>1 DEF IsSpec
  <2>6. \A s \in TimeSpecs : e.time_caches[s.time_cache_index].sec = 0
    BY <2>4, <2>5
  <2>7. e.time_caches = [i \in 0..(TimeCaches - 1) |-> e.time_caches[i]]
        /\ DOMAIN e.time_caches = 0..(TimeCaches - 1)
    BY <2>2
  <2>8. IsEvent(e)
    BY <2>2, <2>3, <2>6, <2>7 DEF IsEvent
  <2> QED  BY <1>2, <2>1, <2>2, <2>8
<1>9. ThreadInv'
  BY <1>6, <1>7, <1>8 DEF ThreadInv
<1>10. JobInv' /\ MessageExact' /\ DroppedHasCause'
  BY <1>1, <1>2, NothingShown DEF JobInv
<1>11. bufs' = [b \in BufNames |-> bufs'[b]]
  BY <1>7 DEF BuffersOf
<1> QED  BY <1>1, <1>2, <1>9, <1>10, <1>11 DEF MessageInv

LEMMA NewEventInv == MessageInv /\ NewEvent => MessageInv'
<1> SUFFICES ASSUME MessageInv, NewEvent PROVE MessageInv'
  OBVIOUS
<1>1. /\ event # NoEvent /\ job = NoJob
      /\ bufs = [b \in BufNames |-> bufs[b]]
      /\ tick \in Nat /\ pid \in Nat \ {0} /\ memLost \in BOOLEAN
      /\ IsEvent(event) /\ BuffersOf(bufs) /\ (~memLost => \A b \in BufNames : bufs[b].start)
  BY DEF MessageInv, NewEvent, BetweenTexts, ThreadInv
<1>2. PICK usr \in UserMessages : event' = SetEvent(usr)
  BY DEF NewEvent
<1>3. /\ outcome' = NoOutcome /\ since' = tick /\ bufs' = bufs /\ job' = job /\ tick' = tick
      /\ pid' = pid /\ memLost' = memLost
  BY DEF NewEvent
<1>4. event' = [event EXCEPT !.usr = usr, !.pid = 0, !.time_stamp = NoTime]
  BY <1>2 DEF SetEvent
<1>5. IsMessage(usr)
  BY MessageAssumption
<1>6. event' = [time_stamp |-> NoTime, time_local |-> event.time_local,
                time_caches |-> event.time_caches, pid |-> 0, last_pid |-> event.last_pid,
                pid_str |-> event.pid_str, usr |-> usr]
  BY <1>1, <1>4 DEF IsEvent
<1>7. IsEvent(event') /\ event'.pid = 0 /\ event'.time_stamp = NoTime
  BY <1>1, <1>5, <1>6 DEF IsEvent
<1>8. event' # NoEvent
  BY <1>6 DEF NoEvent
<1>9. ThreadInv'
  BY <1>1, <1>3, <1>7 DEF ThreadInv
<1>10. JobInv' /\ MessageExact' /\ DroppedHasCause'
  BY <1>1, <1>3, NothingShown DEF JobInv
<1> QED  BY <1>1, <1>3, <1>8, <1>9, <1>10 DEF MessageInv

LEMMA ForkInv == MessageInv /\ Fork => MessageInv'
<1> SUFFICES ASSUME MessageInv, Fork PROVE MessageInv'
  OBVIOUS
<1>1. /\ event # NoEvent /\ job = NoJob
      /\ bufs = [b \in BufNames |-> bufs[b]]
      /\ tick \in Nat /\ pid \in Nat \ {0} /\ memLost \in BOOLEAN
      /\ IsEvent(event) /\ BuffersOf(bufs) /\ (~memLost => \A b \in BufNames : bufs[b].start)
  BY DEF MessageInv, Fork, BetweenTexts, ThreadInv
<1>2. /\ outcome' = NoOutcome /\ since' = NoTime /\ bufs' = bufs /\ job' = job /\ tick' = tick
      /\ pid' = pid + 1 /\ memLost' = memLost /\ event' = event
  BY DEF Fork
<1>3. ThreadInv'
  BY <1>1, <1>2 DEF ThreadInv
<1>4. JobInv' /\ MessageExact' /\ DroppedHasCause'
  BY <1>1, <1>2, NothingShown DEF JobInv
<1> QED  BY <1>1, <1>2, <1>3, <1>4 DEF MessageInv

LEMMA TickInv == MessageInv /\ Tick => MessageInv'
<1> SUFFICES ASSUME MessageInv, Tick PROVE MessageInv'
  OBVIOUS
<1>1. /\ tick \in Nat /\ tick' = tick + 1 /\ (since = NoTime \/ since \in 0..tick)
      /\ outcome' = outcome /\ since' = since /\ bufs' = bufs /\ job' = job
      /\ pid' = pid /\ memLost' = memLost /\ event' = event
  BY DEF MessageInv, Tick
<1>2. ThreadInv'
  <2>1. since # NoTime /\ event.time_stamp \in since..tick => event.time_stamp \in since..tick'
    BY <1>1
  <2> QED  BY <1>1, <2>1 DEF MessageInv, ThreadInv
<1>3. JobInv'
  BY <1>1 DEF MessageInv, JobInv
<1>4. ASSUME NEW t PROVE TextAt(t)' = TextAt(t)
  BY <1>1 DEF TextAt, Shown, Meant
<1>5. CASE outcome = NoOutcome
  <2>1. MessageExact' /\ DroppedHasCause'
    BY <1>1, <1>5, NothingShown
  <2> QED  BY <1>1, <1>2, <1>3, <1>5, <2>1 DEF MessageInv
<1>6. CASE outcome # NoOutcome
  <2>1. since # NoTime /\ since \in 0..tick
    BY <1>1, <1>6 DEF MessageInv
  <2>2. \A t \in since..tick : t \in since'..tick'
    BY <1>1, <2>1
  <2>3. MessageExact'
    BY <1>1, <1>4, <2>2 DEF MessageInv, MessageExact
  <2>4. CannotBeConverted => CannotBeConverted'
    BY <1>1 DEF CannotBeConverted
  <2>5. DroppedHasCause'
    BY <1>1, <1>4, <2>2, <2>4 DEF MessageInv, DroppedHasCause
  <2> QED  BY <1>1, <1>2, <1>3, <2>1, <2>3, <2>5 DEF MessageInv
<1> QED  BY <1>5, <1>6

LEMMA GenStartInv == MessageInv /\ GenStart => MessageInv'
<1> SUFFICES ASSUME MessageInv, GenStart PROVE MessageInv'
  OBVIOUS
<1>1. /\ event # NoEvent /\ since # NoTime
      /\ tick \in Nat /\ pid \in Nat \ {0} /\ memLost \in BOOLEAN
      /\ since \in 0..tick
      /\ IsEvent(event) /\ BuffersOf(bufs) /\ (~memLost => \A b \in BufNames : bufs[b].start)
      /\ event.pid # 0 => event.pid = pid
      /\ event.time_stamp # NoTime => event.time_stamp \in since..tick
  BY DEF MessageInv, GenStart, BetweenTexts, ThreadInv
<1>2. PICK f \in Formats :
        /\ job' = [format |-> f.specs, target |-> f.target, next |-> 1]
        /\ bufs' = [bufs EXCEPT ![f.target] = zlog_buf_restart(@)]
  BY DEF GenStart
<1>3. /\ outcome' = NoOutcome /\ event' = event /\ tick' = tick /\ pid' = pid
      /\ memLost' = memLost /\ since' = since
  BY DEF GenStart
<1>4. /\ f.target \in Targets
      /\ Len(f.specs) \in Nat \ {0} /\ \A i \in 1..Len(f.specs) : Ready(f.specs[i])
  BY <1>1, FormatsReady
<1>5. PICK b, r : b = bufs[f.target] /\ r = zlog_buf_restart(b)
  OBVIOUS
<1>6. f.target \in BufNames
  BY <1>4 DEF Targets, BufNames
<1>7. IsBuffer(r) /\ r.text = <<>> /\ r.start = b.start
  <2>1. IsBuffer(b)
    BY <1>1, <1>5, <1>6 DEF BuffersOf
  <2> QED  BY <1>5, <2>1, Restarted
<1>8. bufs' = [x \in BufNames |-> IF x = f.target THEN r ELSE bufs[x]]
  BY <1>1, <1>2, <1>5 DEF BuffersOf
<1>9. BuffersOf(bufs') /\ (~memLost' => \A x \in BufNames : bufs'[x].start)
      /\ bufs'[f.target].text = <<>>
  <2>1. ASSUME NEW x \in BufNames
        PROVE  IsBuffer(bufs'[x]) /\ bufs'[x].start = bufs[x].start
    <3>1. CASE x = f.target
      BY <1>5, <1>7, <1>8, <3>1
    <3>2. CASE x # f.target
      BY <1>1, <1>8, <3>2 DEF BuffersOf
    <3> QED  BY <3>1, <3>2
  <2>2. bufs'[f.target].text = <<>>
    BY <1>6, <1>7, <1>8
  <2>3. bufs' = [x \in BufNames |-> bufs'[x]]
    BY <1>8
  <2> QED  BY <1>1, <1>3, <2>1, <2>2, <2>3 DEF BuffersOf
<1>10. ThreadInv'
  BY <1>1, <1>3, <1>9 DEF ThreadInv
<1>11. JobInv'
  <2>1. job' = [format |-> f.specs, target |-> f.target, next |-> job'.next]
        /\ job'.format = f.specs /\ job'.target = f.target /\ job'.next = 1
    BY <1>2
  <2>2. ASSUME NEW usr, NEW process, NEW max, NEW mark, NEW t
        PROVE  TextUpTo(f.specs, 0, usr, process, max, mark, t) = <<>>
    <3>1. PICK s : s = [i \in 1..Len(f.specs) |->
                          InWidth(f.specs[i], TextOf(f.specs[i], usr, process, t), max, mark)]
      OBVIOUS
    <3>2. Flat(s, 0) = <<>>
      <4>1. \A i \in 1..0 : IsSeq(s[i])
        OBVIOUS
      <4> QED  BY <4>1, FlatIs
    <3> QED  BY <3>1, <3>2 DEF TextUpTo
  <2>3. job'.next \in 1..Len(job'.format) /\ job'.next - 1 = 0
    BY <1>4, <2>1
  <2>4. \A t : bufs'[job'.target].text =
                 TextUpTo(job'.format, job'.next - 1, event'.usr, pid',
                          bufs'[PreBuf(job'.target)].max, bufs'[PreBuf(job'.target)].mark, t)
    BY <1>9, <2>1, <2>2, <2>3
  <2> QED  BY <1>1, <1>3, <2>1, <2>3, <2>4 DEF JobInv
<1>12. MessageExact' /\ DroppedHasCause'
  BY <1>3, NothingShown
<1>13. bufs' = [x \in BufNames |-> bufs'[x]]
  BY <1>9 DEF BuffersOf
<1> QED  BY <1>1, <1>3, <1>10, <1>11, <1>12, <1>13 DEF MessageInv

\* One conversion of the text under way.
LEMMA GenStepInv == MessageInv /\ GenStep => MessageInv'
<1> SUFFICES ASSUME MessageInv, GenStep PROVE MessageInv'
  OBVIOUS
<1>1. /\ event # NoEvent /\ since # NoTime /\ outcome = NoOutcome /\ job # NoJob
      /\ tick \in Nat /\ pid \in Nat \ {0} /\ memLost \in BOOLEAN
      /\ since \in 0..tick
      /\ IsEvent(event) /\ BuffersOf(bufs) /\ (~memLost => \A b \in BufNames : bufs[b].start)
      /\ event.pid # 0 => event.pid = pid
      /\ event.time_stamp # NoTime => event.time_stamp \in since..tick
  BY DEF MessageInv, GenStep, ThreadInv, JobInv
<1>2. PICK f \in Formats : job = [format |-> f.specs, target |-> f.target, next |-> job.next]
  BY <1>1 DEF MessageInv, JobInv
<1>3. PICK format, target, next :
        /\ format = f.specs /\ target = f.target /\ next = job.next
        /\ job.format = format /\ job.target = target
  BY <1>2
<1>4. /\ target \in Targets
      /\ Len(format) \in Nat \ {0} /\ DOMAIN format = 1..Len(format)
      /\ \A i \in 1..Len(format) : Ready(format[i])
  BY <1>1, <1>3, FormatsReady
<1>5. next \in 1..Len(format)
  BY <1>1, <1>3 DEF MessageInv, JobInv
<1>6. ASSUME NEW t \in Nat, event.time_stamp \in {NoTime, t}, ~memLost \/ Plain(format, next - 1)
      PROVE  bufs[target].text = SoFar(format, target, next - 1, t)
  <2>1. event.time_stamp \in {NoTime, t} /\ (~memLost \/ Plain(job.format, job.next - 1))
        => bufs[job.target].text = SoFar(job.format, job.target, job.next - 1, t)
    BY <1>1, SMTT(30) DEF MessageInv, JobInv, SoFar
  <2> QED  BY <1>3, <1>6, <2>1
<1>7. PICK mem \in MemSizes :
        LET g == zlog_spec_gen(job.format[job.next], job.target, mem) IN
        /\ bufs' = g.bufs
        /\ event' = g.event
        /\ memLost' = (memLost \/ \E b \in DOMAIN bufs : bufs[b].start /\ ~g.bufs[b].start)
        /\ IF gen_loop(g.rc) /\ job.next < Len(job.format)
           THEN job' = [job EXCEPT !.next = @ + 1] /\ UNCHANGED outcome
           ELSE /\ job' = NoJob
                /\ outcome' = [status |-> IF gen_loop(g.rc) THEN "written" ELSE "dropped",
                               format |-> job.format, target |-> job.target,
                               text |-> g.bufs[job.target].text]
  BY DEF GenStep
<1>8. tick' = tick /\ pid' = pid /\ since' = since
  BY DEF GenStep
<1>9. PICK spec, g : spec = format[next] /\ g = zlog_spec_gen(spec, target, mem)
  BY Zenon
<1>10. /\ bufs' = g.bufs /\ event' = g.event
       /\ memLost' = (memLost \/ \E b \in BufNames : bufs[b].start /\ ~g.bufs[b].start)
       /\ IF g.rc = 0 /\ next < Len(format)
          THEN job' = [job EXCEPT !.next = @ + 1] /\ outcome' = outcome
          ELSE /\ job' = NoJob
               /\ outcome' = [status |-> IF g.rc = 0 THEN "written" ELSE "dropped",
                              format |-> format, target |-> target,
                              text |-> g.bufs[target].text]
  <2>1. DOMAIN bufs = BufNames
    BY <1>1 DEF BuffersOf
  <2> QED  BY <1>3, <1>7, <1>9, <2>1 DEF gen_loop
<1>11. Ready(spec)
  BY <1>4, <1>5, <1>9
<1>12. ASSUME NEW t \in Nat
       PROVE  GenKeeps(g) /\ (g.event.time_stamp \in {NoTime, t} => GenOutputs(g, spec, target, t))
  BY <1>1, <1>4, <1>9, <1>11, GenIs
<1>13. /\ EventKept(g.event) /\ g.rc \in {-1, 0, 1} /\ BuffersOf(g.bufs)
       /\ \A b \in BufNames : g.bufs[b].max = bufs[b].max /\ g.bufs[b].mark = bufs[b].mark
  BY <1>1, <1>12 DEF GenKeeps
<1>14. /\ IsEvent(g.event) /\ g.event.usr = event.usr /\ (g.event.pid # 0 => g.event.pid = pid)
       /\ g.event.time_stamp = event.time_stamp
          \/ (event.time_stamp = NoTime /\ g.event.time_stamp = tick)
  BY <1>13 DEF EventKept
<1>15. g.event.time_stamp # NoTime => g.event.time_stamp \in since..tick
  BY <1>1, <1>14
<1>16. ~memLost' => ~memLost /\ (\A b \in BufNames : bufs[b].start /\ g.bufs[b].start)
  BY <1>1, <1>10
<1>17. event' # NoEvent
  BY <1>10, <1>14 DEF IsEvent, NoEvent
<1>18. ThreadInv'
  BY <1>8, <1>10, <1>13, <1>14, <1>15, <1>16 DEF ThreadInv
<1>19. target \in BufNames /\ PreBuf(target) \in BufNames
  BY <1>4 DEF Targets, BufNames, PreBuf
<1>20. ASSUME NEW n, NEW t
       PROVE  TextUpTo(format, n, event'.usr, pid', bufs'[PreBuf(target)].max,
                       bufs'[PreBuf(target)].mark, t) = SoFar(format, target, n, t)
  BY <1>8, <1>10, <1>13, <1>14, <1>19 DEF SoFar
<1>21. ASSUME NEW t \in Nat
       PROVE  /\ SoFar(format, target, next, t)
                   = SoFar(format, target, next - 1, t) \o Shown(spec, target, t)
              /\ Len(SoFar(format, target, next, t)) \in Nat
              /\ Len(SoFar(format, target, Len(format), t)) \in Nat
              /\ Len(SoFar(format, target, Len(format), t)) >= Len(SoFar(format, target, next, t))
  <2>1. PICK n \in Nat : n = Len(format)
    BY <1>4
  <2>2. next \in 1..n /\ next \in 0..n
    BY <1>5, <2>1
  <2>3. /\ \A i \in 1..n : SoFar(format, target, i, t)
             = SoFar(format, target, i - 1, t) \o Shown(format[i], target, t)
        /\ \A i \in 0..n : /\ Len(SoFar(format, target, i, t)) \in Nat
                           /\ Len(SoFar(format, target, n, t)) \in Nat
                           /\ Len(SoFar(format, target, n, t)) >= Len(SoFar(format, target, i, t))
    BY <1>1, <1>4, <2>1, SoFarIs
  <2> QED  BY <1>9, <2>1, <2>2, <2>3, SMTT(30)
<1>22. ASSUME NEW t \in Nat, g.event.time_stamp \in {NoTime, t}, g.rc = 0,
              ~memLost' \/ Plain(format, next)
       PROVE  bufs'[target].text = SoFar(format, target, next, t)
  <2>1. event.time_stamp \in {NoTime, t}
    BY <1>14, <1>22
  <2>2. ~memLost \/ Plain(format, next - 1)
    BY <1>5, <1>16, <1>22 DEF Plain
  <2>3. bufs[target].text = SoFar(format, target, next - 1, t)
    BY <1>6, <2>1, <2>2
  <2>4. spec.reformat => bufs[PreBuf(target)].start
    BY <1>5, <1>9, <1>16, <1>19, <1>22 DEF Plain
  <2>5. GenOutputs(g, spec, target, t)
    BY <1>12, <1>22
  <2>6. g.bufs[target].text = bufs[target].text \o Shown(spec, target, t)
    BY <1>22, <2>4, <2>5 DEF GenOutputs
  <2> QED  BY <1>10, <1>21, <2>3, <2>6
<1>23. \E t \in Nat : t \in since..tick /\ g.event.time_stamp \in {NoTime, t}
  <2>1. CASE g.event.time_stamp = NoTime
    <3>1. since \in Nat /\ since \in since..tick
      BY <1>1
    <3> QED  BY <2>1, <3>1
  <2>2. CASE g.event.time_stamp # NoTime
    <3>1. g.event.time_stamp \in since..tick /\ g.event.time_stamp \in Nat
      BY <1>1, <1>15, <2>2
    <3> QED  BY <3>1
  <2> QED  BY <2>1, <2>2
<1>24. memLost' \in BOOLEAN
  BY <1>1, <1>10
<1>25. bufs' = [b \in BufNames |-> bufs'[b]]
  BY <1>10, <1>13 DEF BuffersOf
<1>26. CASE g.rc = 0 /\ next < Len(format)
  <2>1. job' = [format |-> f.specs, target |-> f.target, next |-> next + 1]
        /\ outcome' = NoOutcome
    <3>1. job' = [job EXCEPT !.next = @ + 1] /\ outcome' = outcome
      BY <1>10, <1>26
    <3> QED  BY <1>1, <1>2, <1>3, <3>1
  <2>2. job'.format = format /\ job'.target = target /\ job'.next = next + 1
        /\ job' = [format |-> f.specs, target |-> f.target, next |-> job'.next]
    BY <1>3, <2>1
  <2>3. job'.next - 1 = next /\ job'.next \in 1..Len(job'.format)
    BY <1>4, <1>5, <1>26, <2>2
  <2>4. ASSUME NEW t \in Nat, event'.time_stamp \in {NoTime, t},
               ~memLost' \/ Plain(job'.format, job'.next - 1)
        PROVE  bufs'[job'.target].text =
                 TextUpTo(job'.format, job'.next - 1, event'.usr, pid',
                          bufs'[PreBuf(job'.target)].max, bufs'[PreBuf(job'.target)].mark, t)
    <3>1. ~memLost' \/ Plain(format, next)
      BY <2>2, <2>3, <2>4
    <3>2. bufs'[target].text = SoFar(format, target, next, t)
      BY <1>10, <1>22, <1>26, <2>4, <3>1
    <3> QED  BY <1>20, <2>2, <2>3, <3>2
  <2>5. JobInv'
    BY <1>1, <1>8, <1>17, <2>1, <2>2, <2>3, <2>4 DEF JobInv
  <2>6. MessageExact' /\ DroppedHasCause'
    BY <2>1, NothingShown
  <2> QED  BY <1>1, <1>8, <1>17, <1>18, <1>24, <1>25, <2>1, <2>5, <2>6 DEF MessageInv
<1>27. CASE ~(g.rc = 0 /\ next < Len(format))
  <2>1. /\ job' = NoJob
        /\ outcome' = [status |-> IF g.rc = 0 THEN "written" ELSE "dropped",
                       format |-> format, target |-> target, text |-> g.bufs[target].text]
    BY <1>10, <1>27
  <2>2. /\ outcome'.format = format /\ outcome'.target = target
        /\ outcome'.text = bufs'[target].text
        /\ outcome'.status = IF g.rc = 0 THEN "written" ELSE "dropped"
    BY <1>10, <2>1
  <2>3. ASSUME NEW t \in Nat PROVE TextAt(t)' = SoFar(format, target, Len(format), t)
    <3>1. PICK s, n : n = Len(format) /\
            s = [i \in 1..n |-> InWidth(format[i], TextOf(format[i], event'.usr, pid', t),
                                        bufs'[PreBuf(target)].max, bufs'[PreBuf(target)].mark)]
      OBVIOUS
    <3>2. TextAt(t)' = FlattenSeq(s)
      BY <1>4, <2>2, <3>1 DEF TextAt, Shown, Meant
    <3>3. s = [j \in 1..n |-> s[j]]
      BY <3>1
    <3>4. Flat(s, n) = FlattenSeq(s)
      BY <3>3 DEF Flat
    <3>5. Flat(s, n) = SoFar(format, target, n, t)
      BY <1>20, <3>1 DEF TextUpTo
    <3> QED  BY <3>1, <3>2, <3>4, <3>5
  <2>4. PICK t \in Nat : t \in since..tick /\ g.event.time_stamp \in {NoTime, t}
    BY <1>23
  <2>5. MessageExact'
    <3>1. SUFFICES ASSUME outcome'.status = "written",
                          ~(memLost' /\ \E i \in DOMAIN format : format[i].reformat)
                   PROVE  outcome'.text = TextAt(t)'
      BY <1>8, <2>2, <2>4 DEF MessageExact
    <3>2. g.rc = 0
      BY <2>2, <3>1
    <3>3. next = Len(format)
      <4>1. PICK n \in Nat : n = Len(format)
        BY <1>4
      <4>2. next \in 1..n /\ ~(next < n)
        BY <1>5, <1>27, <3>2, <4>1
      <4> QED  BY <4>1, <4>2
    <3>4. ~memLost' \/ Plain(format, next)
      BY <1>4, <3>1, <3>3 DEF Plain
    <3> QED  BY <1>22, <2>2, <2>3, <2>4, <3>2, <3>3, <3>4
  <2>6. DroppedHasCause'
    <3>1. SUFFICES ASSUME outcome'.status = "dropped", ~memLost'
                   PROVE  \/ CannotBeConverted'
                          \/ /\ bufs'[target].max # 0
                             /\ Len(TextAt(t)') > bufs'[target].max - 1
      BY <1>8, <2>2, <2>4 DEF DroppedHasCause
    <3>2. g.rc \in {-1, 1}
      BY <1>13, <2>2, <3>1
    <3>3. GenOutputs(g, spec, target, t)
      BY <1>12, <2>4
    <3>4. CASE g.rc = -1
      <4>1. Bad(spec)
        BY <1>16, <3>1, <3>3, <3>4 DEF GenOutputs
      <4>2. spec.write = "usrmsg" /\ event'.usr.text = CannotConvert
        BY <1>10, <1>14, <4>1 DEF Bad
      <4>3. next \in DOMAIN outcome'.format /\ outcome'.format[next].write = "usrmsg"
        BY <1>4, <1>5, <1>9, <2>2, <4>2
      <4> QED  BY <4>2, <4>3 DEF CannotBeConverted
    <3>5. CASE g.rc = 1
      <4>1. bufs[target].max # 0
            /\ Len(bufs[target].text \o Shown(spec, target, t)) >= bufs[target].max
        BY <1>16, <1>19, <3>1, <3>3, <3>5 DEF GenOutputs
      <4>2. event.time_stamp \in {NoTime, t}
        BY <1>14, <2>4
      <4>3. bufs[target].text = SoFar(format, target, next - 1, t)
        BY <1>6, <1>16, <2>4, <3>1, <4>2
      <4>4. Len(SoFar(format, target, next, t)) >= bufs[target].max
        BY <1>21, <2>4, <4>1, <4>3
      <4>5. PICK max : max = bufs[target].max
        OBVIOUS
      <4>6. max \in Nat /\ bufs'[target].max = max
        BY <1>1, <1>10, <1>13, <1>19, <4>5 DEF BuffersOf, IsBuffer
      <4>7. PICK l, k : l = Len(SoFar(format, target, Len(format), t))
                        /\ k = Len(SoFar(format, target, next, t))
        OBVIOUS
      <4>8. l \in Nat /\ k \in Nat /\ l >= k /\ k >= max
        BY <1>21, <4>4, <4>5, <4>7
      <4>9. l > max - 1
        BY <4>6, <4>8
      <4> QED  BY <2>3, <4>1, <4>5, <4>6, <4>7, <4>9
    <3> QED  BY <3>2, <3>4, <3>5
  <2>7. JobInv'
    BY <2>1 DEF JobInv
  <2>8. \E h \in Formats : outcome'.format = h.specs /\ outcome'.target = h.target
    BY <1>3, <2>2
  <2> QED  BY <1>1, <1>8, <1>17, <1>18, <1>24, <1>25, <2>1, <2>5, <2>6, <2>7, <2>8 DEF MessageInv
<1> QED  BY <1>26, <1>27, SMTT(30)

\* The inductive invariant: caches, buffers and the text under way agree with
\* the event for as long as the thread of event.c and thread.c lives.
THEOREM MessageInvHolds == MessageSpec => []MessageInv
<1>1. MessageInit => MessageInv
  BY MessageInitInv
<1>2. MessageInv /\ [MessageNext]_messageVars => MessageInv'
  <2> SUFFICES ASSUME MessageInv, [MessageNext]_messageVars PROVE MessageInv'
    OBVIOUS
  <2>1. CASE ThreadNew
    BY <2>1, ThreadNewInv
  <2>2. CASE NewEvent
    BY <2>2, NewEventInv
  <2>3. CASE GenStart
    BY <2>3, GenStartInv
  <2>4. CASE GenStep
    BY <2>4, GenStepInv
  <2>5. CASE Tick
    BY <2>5, TickInv
  <2>6. CASE Fork
    BY <2>6, ForkInv
  <2>7. CASE UNCHANGED messageVars
    <3>1. /\ event' = event /\ bufs' = bufs /\ job' = job /\ outcome' = outcome /\ tick' = tick
          /\ pid' = pid /\ memLost' = memLost /\ since' = since
      BY <2>7 DEF messageVars
    <3>2. ThreadInv' /\ JobInv'
      BY <3>1 DEF MessageInv, ThreadInv, JobInv
    <3>3. ASSUME NEW t PROVE TextAt(t)' = TextAt(t)
      BY <3>1 DEF TextAt, Shown, Meant
    <3>4. MessageExact'
      BY <3>1, <3>3 DEF MessageInv, MessageExact
    <3>5. CannotBeConverted => CannotBeConverted'
      BY <3>1 DEF CannotBeConverted
    <3>6. DroppedHasCause'
      BY <3>1, <3>3, <3>5 DEF MessageInv, DroppedHasCause
    <3> QED  BY <3>1, <3>2, <3>4, <3>6 DEF MessageInv
  <2> QED  BY <2>1, <2>2, <2>3, <2>4, <2>5, <2>6, <2>7 DEF MessageNext
<1> QED  BY <1>1, <1>2, PTL DEF MessageSpec

\* No writer of buf.c ever leaves one of the five buffers of a thread with its
\* tail past its end or its size past its limit, whatever the order of
\* events, cuts, failed reallocs and writes after them.
THEOREM BuffersStayWellFormed == MessageSpec => []BuffersWellFormed
<1>1. MessageInv => BuffersWellFormed
  <2> SUFFICES ASSUME MessageInv, event # NoEvent, NEW b \in DOMAIN bufs PROVE WellFormed(bufs[b])
    BY DEF BuffersWellFormed
  <2>1. BuffersOf(bufs) /\ DOMAIN bufs = BufNames
    BY DEF MessageInv, ThreadInv
  <2> QED  BY <2>1 DEF BuffersOf, IsBuffer
<1> QED  BY <1>1, MessageInvHolds, PTL

\* A text that the loops of format.c and rule.c complete is, to the last
\* character, the text that its conversions mean for this event: one moment
\* for all of its times, the id of this process, hex dump, numbers, widths
\* and cuts included; or a conversion with a width met a first buffer that
\* has lost its memory.
THEOREM MessagesAreExact == MessageSpec => []MessageExact
BY MessageInvHolds, PTL DEF MessageInv

\* A text that the loops give up is too long for its buffer, has a message
\* that vsnprintf cannot convert, or memory has run out: no text that fits
\* is lost.
THEOREM DropsHaveCause == MessageSpec => []DroppedHasCause
BY MessageInvHolds, PTL DEF MessageInv
=============================================================================
