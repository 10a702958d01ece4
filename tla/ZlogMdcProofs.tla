---------------------------- MODULE ZlogMdcProofs ----------------------------
(***************************************************************************)
(* Proofs about ZlogMdc, for any keys, hash function and size of the       *)
(* table.  The invariant sees the pointers one by one: what next, prev and *)
(* tab of an entry and of its neighbours are, and a rank that falls along  *)
(* next, so that every chain ends.  The chains as sequences, and the order *)
(* of zc_hashtable_foreach, are derived from it afterwards.                *)
(*                                                                         *)
(* The lemmas on numbers, recursive functions and FlattenSeq are those of  *)
(* ZlogMessageProofs.                                                      *)
(***************************************************************************)
EXTENDS ZlogMdc, ZlogMessageProofs, FiniteSetTheorems

-----------------------------------------------------------------------------
(* Linked tables.                                                          *)

\* The entries of L, and no others, hang in the n buckets of t.
Linked(t, es, n, L, rank, top) ==
  /\ n \in Nat \ {0} /\ top \in Nat /\ rank \in [EntryId -> 0..top]
  /\ L \subseteq EntryId
  /\ t \in [1..n -> L \union {Nil}]
  /\ \A b \in 1..n : t[b] # Nil => es[t[b]].prev = Nil /\ BucketOf(es[t[b]].hash_key, n) = b
  /\ \A e \in L :
       /\ es[e].hash_key \in Nat
       /\ es[e].next \in L \union {Nil} /\ es[e].prev \in L \union {Nil}
       /\ es[e].next # Nil => /\ es[es[e].next].prev = e
                              /\ BucketOf(es[es[e].next].hash_key, n) = BucketOf(es[e].hash_key, n)
                              /\ rank[es[e].next] < rank[e]
       /\ es[e].prev # Nil => es[es[e].prev].next = e
       /\ es[e].prev = Nil => t[BucketOf(es[e].hash_key, n)] = e

\* An entry: a record of the five fields.
IsEntry(r) ==
  r = [key |-> r.key, value |-> r.value, hash_key |-> r.hash_key, next |-> r.next, prev |-> r.prev]

\* es is a function on the entries, those of A allocated.
EntriesAre(es, A) ==
  es = [e \in EntryId |-> es[e]] /\ \A e \in EntryId : IF e \in A THEN IsEntry(es[e]) ELSE es[e] = Free

LEMMA EntryIds == Cardinality(Keys) \in Nat /\ EntryId \subseteq Nat /\ Nil \notin EntryId
<1>1. Cardinality(Keys) \in Nat
  BY MdcAssumption, FS_CardinalityType
<1> QED  BY <1>1 DEF EntryId, Nil

LEMMA BucketIn ==
  ASSUME NEW h \in Nat, NEW n \in Nat \ {0}
  PROVE  BucketOf(h, n) \in 1..n
BY DEF BucketOf

\* Only the links of two tables differ.
SameData(es, fs) ==
  \A e \in EntryId : fs[e].key = es[e].key /\ fs[e].value = es[e].value
                     /\ fs[e].hash_key = es[e].hash_key

\* r is a table es after the entry e became the first of a bucket.
PushedIs(r, es, n, L, e, A) ==
  /\ \E rank, top : Linked(r.tab, r.entries, n, L \union {e}, rank, top)
  /\ EntriesAre(r.entries, A) /\ SameData(es, r.entries)
  /\ r = [tab |-> r.tab, entries |-> r.entries]

LEMMA Pushed ==
  ASSUME NEW t, NEW es, NEW n, NEW L, NEW rank, NEW top, Linked(t, es, n, L, rank, top),
         NEW A, EntriesAre(es, A), L \subseteq A,
         NEW e \in EntryId, e \notin L, e \in A, NEW h \in Nat, es[e].hash_key = h,
         NEW b, b = BucketOf(h, n)
  PROVE  PushedIs(PushFront([tab |-> t, entries |-> es], e, b), es, n, L, e, A)
<1>1. PICK r, head : r = PushFront([tab |-> t, entries |-> es], e, b) /\ head = t[b]
  OBVIOUS
<1>2. b \in 1..n /\ n \in Nat \ {0} /\ top \in Nat /\ rank \in [EntryId -> 0..top]
      /\ L \subseteq EntryId /\ t \in [1..n -> L \union {Nil}] /\ Nil \notin EntryId
      /\ es = [x \in EntryId |-> es[x]]
  BY BucketIn, EntryIds DEF Linked, EntriesAre
<1>3. head \in L \union {Nil} /\ head # e
  BY <1>1, <1>2
<1>4. r.tab = [t EXCEPT ![b] = e]
      /\ r.entries = IF head = Nil THEN [es EXCEPT ![e].next = head, ![e].prev = Nil]
                     ELSE [[es EXCEPT ![e].next = head, ![e].prev = Nil] EXCEPT ![head].prev = e]
  BY <1>1 DEF PushFront
<1>5. PICK fs : fs = r.entries
  OBVIOUS
<1>6. /\ fs[e] = [key |-> es[e].key, value |-> es[e].value, hash_key |-> h,
                  next |-> head, prev |-> Nil]
      /\ head # Nil => fs[head] = [es[head] EXCEPT !.prev = e]
      /\ \A x \in EntryId : x # e /\ x # head => fs[x] = es[x]
      /\ fs = [x \in EntryId |-> fs[x]]
  <2>1. PICK gs : gs = [es EXCEPT ![e].next = head, ![e].prev = Nil]
    OBVIOUS
  <2>2. IsEntry(es[e])
    BY DEF EntriesAre
  <2>3. gs[e] = [[es[e] EXCEPT !.next = head] EXCEPT !.prev = Nil]
        /\ (\A x \in EntryId : x # e => gs[x] = es[x]) /\ gs = [x \in EntryId |-> gs[x]]
    BY <1>2, <2>1
  <2>4. gs[e] = [key |-> es[e].key, value |-> es[e].value, hash_key |-> h,
                 next |-> head, prev |-> Nil]
    BY <2>2, <2>3 DEF IsEntry
  <2>5. CASE head = Nil
    BY <1>4, <1>5, <2>1, <2>3, <2>4, <2>5
  <2>6. CASE head # Nil
    <3>1. fs = [gs EXCEPT ![head].prev = e] /\ head \in EntryId
      BY <1>2, <1>3, <1>4, <1>5, <2>1, <2>6
    <3>2. fs[head] = [gs[head] EXCEPT !.prev = e] /\ (\A x \in EntryId : x # head => fs[x] = gs[x])
          /\ fs = [x \in EntryId |-> fs[x]]
      BY <2>3, <3>1
    <3> QED  BY <1>3, <2>3, <2>4, <3>1, <3>2
  <2> QED  BY <2>5, <2>6
<1>7. head # Nil => head \in EntryId /\ head \in A
                    /\ fs[head] = [key |-> es[head].key, value |-> es[head].value,
                                   hash_key |-> es[head].hash_key, next |-> es[head].next,
                                   prev |-> e]
  BY <1>2, <1>3, <1>6 DEF EntriesAre, IsEntry
<1>8. EntriesAre(fs, A)
  <2>1. IsEntry(fs[e]) /\ (head # Nil => IsEntry(fs[head]))
    BY <1>6, <1>7 DEF IsEntry
  <2>2. ASSUME NEW x \in EntryId PROVE IF x \in A THEN IsEntry(fs[x]) ELSE fs[x] = Free
    <3>1. CASE x = e
      BY <2>1, <3>1
    <3>2. CASE x = head
      BY <1>2, <1>7, <2>1, <3>2
    <3>3. CASE x # e /\ x # head
      BY <1>6, <3>3 DEF EntriesAre
    <3> QED  BY <3>1, <3>2, <3>3
  <2> QED  BY <1>6, <2>2 DEF EntriesAre
<1>9. SameData(es, fs)
  <2>1. ASSUME NEW x \in EntryId
        PROVE  fs[x].key = es[x].key /\ fs[x].value = es[x].value /\ fs[x].hash_key = es[x].hash_key
    <3>1. CASE x = e
      BY <1>6, <3>1
    <3>2. CASE x = head
      BY <1>2, <1>7, <3>2
    <3>3. CASE x # e /\ x # head
      BY <1>6, <3>3
    <3> QED  BY <3>1, <3>2, <3>3
  <2> QED  BY <2>1 DEF SameData
<1>10. r = [tab |-> r.tab, entries |-> r.entries]
  BY <1>1 DEF PushFront
<1>11. PICK rank2 : rank2 = [rank EXCEPT ![e] = top + 1]
  OBVIOUS
<1>12. rank2 \in [EntryId -> 0..(top + 1)] /\ rank2[e] = top + 1
       /\ \A x \in L : rank2[x] = rank[x] /\ rank[x] < top + 1
  BY <1>2, <1>11
<1>13. PICK u : u = r.tab
  OBVIOUS
<1>14. u \in [1..n -> L \union {e} \union {Nil}] /\ u[b] = e
       /\ \A c \in 1..n : c # b => u[c] = t[c]
  BY <1>2, <1>4, <1>13
<1>15. \A x \in L : BucketOf(es[x].hash_key, n) \in 1..n
  BY <1>2, BucketIn DEF Linked
<1>16. \A x \in L : fs[x].next = es[x].next /\ fs[x].hash_key = es[x].hash_key
                    /\ fs[x].prev = IF x = head THEN e ELSE es[x].prev
  BY <1>2, <1>3, <1>6, <1>7, ZenonT(60)
<1>17. \A c \in 1..n : u[c] # Nil => fs[u[c]].prev = Nil /\ BucketOf(fs[u[c]].hash_key, n) = c
  <2>1. ASSUME NEW c \in 1..n, u[c] # Nil, c # b
        PROVE  fs[u[c]].prev = Nil /\ BucketOf(fs[u[c]].hash_key, n) = c
    <3>1. u[c] = t[c] /\ t[c] \in L /\ es[t[c]].prev = Nil /\ BucketOf(es[t[c]].hash_key, n) = c
      <4>1. u[c] = t[c] /\ t[c] # Nil
        BY <1>14, <2>1
      <4>2. t[c] \in L
        BY <1>2, <4>1
      <4>3. es[t[c]].prev = Nil /\ BucketOf(es[t[c]].hash_key, n) = c
        BY <4>1 DEF Linked
      <4> QED  BY <4>1, <4>2, <4>3
    <3>2. t[c] # head
      BY <1>1, <1>2, <2>1, <3>1, ZenonT(60) DEF Linked
    <3> QED  BY <1>16, <3>1, <3>2
  <2>2. fs[u[b]].prev = Nil /\ BucketOf(fs[u[b]].hash_key, n) = b
    BY <1>6, <1>14
  <2> QED  BY <2>1, <2>2
<1>18. ASSUME NEW x \in L
       PROVE  /\ fs[x].hash_key \in Nat
              /\ fs[x].next \in L \union {e} \union {Nil} /\ fs[x].prev \in L \union {e} \union {Nil}
              /\ fs[x].next # Nil =>
                   /\ fs[fs[x].next].prev = x
                   /\ BucketOf(fs[fs[x].next].hash_key, n) = BucketOf(fs[x].hash_key, n)
                   /\ rank2[fs[x].next] < rank2[x]
              /\ fs[x].prev # Nil => fs[fs[x].prev].next = x
              /\ fs[x].prev = Nil => u[BucketOf(fs[x].hash_key, n)] = x
  <2>1. /\ es[x].hash_key \in Nat
        /\ es[x].next \in L \union {Nil} /\ es[x].prev \in L \union {Nil}
        /\ es[x].next # Nil =>
             /\ es[es[x].next].prev = x
             /\ BucketOf(es[es[x].next].hash_key, n) = BucketOf(es[x].hash_key, n)
             /\ rank[es[x].next] < rank[x]
        /\ es[x].prev # Nil => es[es[x].prev].next = x
        /\ es[x].prev = Nil => t[BucketOf(es[x].hash_key, n)] = x
    BY DEF Linked
  <2>2. fs[x].hash_key \in Nat /\ fs[x].next \in L \union {Nil}
        /\ fs[x].prev \in L \union {e} \union {Nil}
    BY <1>16, <2>1
  <2>3. head # Nil => es[head].prev = Nil
    BY <1>1, <1>2 DEF Linked
  <2>4. ASSUME fs[x].next # Nil
        PROVE  /\ fs[fs[x].next].prev = x
               /\ BucketOf(fs[fs[x].next].hash_key, n) = BucketOf(fs[x].hash_key, n)
               /\ rank2[fs[x].next] < rank2[x]
    <3>1. PICK y : y = es[x].next
      OBVIOUS
    <3>2. y \in L /\ y # Nil /\ fs[x].next = y /\ es[y].prev = x
      BY <1>16, <2>1, <2>4, <3>1
    <3>3. y # head
      BY <1>2, <2>3, <3>2
    <3> QED  BY <1>12, <1>16, <2>1, <3>1, <3>2, <3>3
  <2>5. ASSUME fs[x].prev # Nil PROVE fs[fs[x].prev].next = x
    <3>1. CASE x = head
      BY <1>6, <1>16, <3>1
    <3>2. CASE x # head
      BY <1>16, <2>1, <2>5, <3>2
    <3> QED  BY <3>1, <3>2
  <2>6. ASSUME fs[x].prev = Nil PROVE u[BucketOf(fs[x].hash_key, n)] = x
    <3>1. x # head /\ es[x].prev = Nil
      BY <1>2, <1>16, <2>6
    <3>2. t[BucketOf(es[x].hash_key, n)] = x
      BY <2>1, <3>1
    <3>3. BucketOf(es[x].hash_key, n) # b
      BY <1>1, <3>1, <3>2
    <3> QED  BY <1>14, <1>15, <1>16, <3>2, <3>3
  <2> QED  BY <2>2, <2>4, <2>5, <2>6
<1>19. /\ fs[e].hash_key \in Nat
       /\ fs[e].next \in L \union {e} \union {Nil} /\ fs[e].prev = Nil
       /\ fs[e].next # Nil =>
            /\ fs[fs[e].next].prev = e
            /\ BucketOf(fs[fs[e].next].hash_key, n) = BucketOf(fs[e].hash_key, n)
            /\ rank2[fs[e].next] < rank2[e]
       /\ u[BucketOf(fs[e].hash_key, n)] = e
  <2>1. head # Nil => BucketOf(es[head].hash_key, n) = b
    BY <1>1, <1>2 DEF Linked
  <2> QED  BY <1>3, <1>6, <1>7, <1>12, <1>14, <2>1
<1>20. Linked(u, fs, n, L \union {e}, rank2, top + 1)
  <2>1. ASSUME NEW x \in L \union {e}
        PROVE  /\ fs[x].hash_key \in Nat
               /\ fs[x].next \in L \union {e} \union {Nil}
               /\ fs[x].prev \in L \union {e} \union {Nil}
               /\ fs[x].next # Nil =>
                    /\ fs[fs[x].next].prev = x
                    /\ BucketOf(fs[fs[x].next].hash_key, n) = BucketOf(fs[x].hash_key, n)
                    /\ rank2[fs[x].next] < rank2[x]
               /\ fs[x].prev # Nil => fs[fs[x].prev].next = x
               /\ fs[x].prev = Nil => u[BucketOf(fs[x].hash_key, n)] = x
    <3>1. CASE x \in L
      BY <1>18, <3>1
    <3>2. CASE x = e
      BY <1>19, <3>2
    <3> QED  BY <3>1, <3>2
  <2>2. top + 1 \in Nat /\ L \union {e} \subseteq EntryId
    BY <1>2
  <2> QED  BY <1>2, <1>12, <1>14, <1>17, <2>1, <2>2 DEF Linked
<1> QED  BY <1>1, <1>5, <1>8, <1>9, <1>10, <1>13, <1>20 DEF PushedIs

\* u and fs are the table and its entries without e.
UnlinkedIs(u, fs, n, L, rank, top, e) ==
  /\ Linked(u, fs, n, L \ {e}, rank, top)
  /\ EntriesAre(fs, L \ {e})
  /\ \A x \in L \ {e} : fs[x].key = entries[x].key /\ fs[x].value = entries[x].value
                        /\ fs[x].hash_key = entries[x].hash_key

LEMMA Unlinked ==
  ASSUME NEW n, NEW L, NEW rank, NEW top, Linked(tab, entries, n, L, rank, top), tab_size = n,
         EntriesAre(entries, L), NEW e \in L
  PROVE  UnlinkedIs(IF entries[e].prev # Nil THEN tab
                    ELSE [tab EXCEPT ![Bucket(entries[e].hash_key)] = entries[e].next],
                    [Unlink(e) EXCEPT ![e] = Free], n, L, rank, top, e)
<1>1. PICK es, t, next, prev, b :
        es = entries /\ t = tab /\ next = es[e].next /\ prev = es[e].prev
        /\ b = BucketOf(es[e].hash_key, n)
  OBVIOUS
<1>2. PICK fs, u : fs = [Unlink(e) EXCEPT ![e] = Free]
        /\ u = IF prev # Nil THEN t ELSE [t EXCEPT ![b] = next]
  OBVIOUS
<1>3. /\ n \in Nat \ {0} /\ top \in Nat /\ rank \in [EntryId -> 0..top]
      /\ L \subseteq EntryId /\ t \in [1..n -> L \union {Nil}] /\ Nil \notin EntryId /\ Nil \notin L
      /\ es = [x \in EntryId |-> es[x]]
  BY <1>1, EntryIds DEF Linked, EntriesAre
<1>4. \A x \in L :
       /\ es[x].hash_key \in Nat
       /\ es[x].next \in L \union {Nil} /\ es[x].prev \in L \union {Nil}
       /\ es[x].next # Nil => /\ es[es[x].next].prev = x
                              /\ BucketOf(es[es[x].next].hash_key, n) = BucketOf(es[x].hash_key, n)
                              /\ rank[es[x].next] < rank[x]
       /\ es[x].prev # Nil => es[es[x].prev].next = x
       /\ es[x].prev = Nil => t[BucketOf(es[x].hash_key, n)] = x
  BY <1>1 DEF Linked
<1>5. \A x \in 1..n : t[x] # Nil => es[t[x]].prev = Nil /\ BucketOf(es[t[x]].hash_key, n) = x
  BY <1>1 DEF Linked
<1>6. \A x \in L : rank[x] \in Nat /\ BucketOf(es[x].hash_key, n) \in 1..n
  <2>1. ASSUME NEW x \in L PROVE rank[x] \in Nat
    BY <1>3
  <2>2. ASSUME NEW x \in L PROVE BucketOf(es[x].hash_key, n) \in 1..n
    <3>1. es[x].hash_key \in Nat
      BY <1>4
    <3> QED  BY <1>3, <3>1, BucketIn
  <2> QED  BY <2>1, <2>2
<1>7. next \in L \union {Nil} /\ prev \in L \union {Nil} /\ next # e /\ prev # e
      /\ (next # Nil => next # prev) /\ b \in 1..n
  <2>1. next \in L \union {Nil} /\ prev \in L \union {Nil} /\ b \in 1..n
    BY <1>1, <1>4, <1>6
  <2>2. next # Nil => rank[next] < rank[e] /\ rank[next] \in Nat /\ rank[e] \in Nat /\ next \in L
    BY <1>1, <1>4, <1>6, <2>1, SMTT(30)
  <2>3. prev # Nil => es[prev].next = e /\ prev \in L /\ e # Nil
    BY <1>1, <1>3, <1>4, <2>1
  <2>4. prev # Nil => rank[e] < rank[prev] /\ rank[prev] \in Nat
    BY <1>4, <1>6, <2>3
  <2>5. next # e
    BY <1>3, <2>2
  <2>6. prev # e
    BY <1>3, <1>6, <2>4
  <2>7. next # Nil => next # prev
    BY <1>6, <2>2, <2>4
  <2> QED  BY <2>1, <2>5, <2>6, <2>7
<1>8. PICK gs : gs = IF next = Nil THEN es ELSE [es EXCEPT ![next].prev = prev]
  OBVIOUS
<1>9. /\ gs = [x \in EntryId |-> gs[x]]
      /\ next # Nil => gs[next] = [es[next] EXCEPT !.prev = prev]
      /\ \A x \in EntryId : x # next => gs[x] = es[x]
  <2>1. CASE next = Nil
    BY <1>3, <1>8, <2>1
  <2>2. CASE next # Nil
    <3>1. gs = [es EXCEPT ![next].prev = prev] /\ next \in EntryId
      BY <1>3, <1>7, <1>8, <2>2
    <3> QED  BY <1>3, <3>1
  <2> QED  BY <2>1, <2>2
<1>10. PICK hs : hs = IF prev # Nil THEN [gs EXCEPT ![prev].next = next] ELSE gs
  OBVIOUS
<1>11. /\ hs = [x \in EntryId |-> hs[x]]
       /\ prev # Nil => hs[prev] = [gs[prev] EXCEPT !.next = next]
       /\ \A x \in EntryId : x # prev => hs[x] = gs[x]
  <2>1. CASE prev = Nil
    BY <1>9, <1>10, <2>1
  <2>2. CASE prev # Nil
    <3>1. hs = [gs EXCEPT ![prev].next = next] /\ prev \in EntryId
      BY <1>3, <1>7, <1>10, <2>2
    <3> QED  BY <1>9, <3>1
  <2> QED  BY <2>1, <2>2
<1>12. Unlink(e) = hs
  BY <1>1, <1>8, <1>10 DEF Unlink
<1>13. /\ fs = [x \in EntryId |-> fs[x]] /\ fs[e] = Free
       /\ \A x \in EntryId : x # e => fs[x] = hs[x]
  BY <1>2, <1>3, <1>11, <1>12
<1>14. \A x \in L : IsEntry(es[x])
  BY <1>1, <1>3 DEF EntriesAre
<1>15. next # Nil => fs[next] = [key |-> es[next].key, value |-> es[next].value,
                                 hash_key |-> es[next].hash_key, next |-> es[next].next,
                                 prev |-> prev]
  <2>1. next # Nil => next \in L /\ next \in EntryId /\ fs[next] = [es[next] EXCEPT !.prev = prev]
    BY <1>3, <1>7, <1>9, <1>11, <1>13
  <2> QED  BY <1>14, <2>1 DEF IsEntry
<1>16. prev # Nil => fs[prev] = [key |-> es[prev].key, value |-> es[prev].value,
                                 hash_key |-> es[prev].hash_key, next |-> next,
                                 prev |-> es[prev].prev]
  <2>1. prev # Nil => prev \in L /\ prev \in EntryId /\ fs[prev] = [es[prev] EXCEPT !.next = next]
    BY <1>3, <1>7, <1>9, <1>11, <1>13
  <2> QED  BY <1>14, <2>1 DEF IsEntry
<1>17. \A x \in EntryId : x \notin {e, next, prev} => fs[x] = es[x]
  BY <1>9, <1>11, <1>13
<1>18. EntriesAre(fs, L \ {e})
  <2>1. ASSUME NEW x \in EntryId PROVE IF x \in L \ {e} THEN IsEntry(fs[x]) ELSE fs[x] = Free
    <3>1. CASE x = e
      BY <1>13, <3>1
    <3>2. CASE x = next /\ x # e
      BY <1>3, <1>7, <1>15, <3>2 DEF IsEntry
    <3>3. CASE x = prev /\ x # e
      BY <1>3, <1>7, <1>16, <3>3 DEF IsEntry
    <3>4. CASE x \notin {e, next, prev}
      BY <1>1, <1>17, <3>4 DEF EntriesAre
    <3> QED  BY <3>1, <3>2, <3>3, <3>4
  <2> QED  BY <1>13, <2>1 DEF EntriesAre
<1>19. ASSUME NEW x \in L \ {e}
       PROVE  /\ fs[x].key = es[x].key /\ fs[x].value = es[x].value
              /\ fs[x].hash_key = es[x].hash_key
              /\ fs[x].next = IF x = prev THEN next ELSE es[x].next
              /\ fs[x].prev = IF x = next THEN prev ELSE es[x].prev
  <2>1. CASE x = next
    BY <1>3, <1>7, <1>15, <2>1
  <2>2. CASE x = prev
    BY <1>3, <1>7, <1>16, <2>2
  <2>3. CASE x \notin {e, next, prev}
    BY <1>3, <1>17, <2>3
  <2> QED  BY <2>1, <2>2, <2>3
<1>20. ASSUME NEW x \in L \ {e}, es[x].next = e PROVE x = prev
  <2>1. es[x].next # Nil /\ x \in L
    BY <1>3, <1>20
  <2>2. es[es[x].next].prev = x
    BY <1>4, <2>1
  <2> QED  BY <1>1, <1>20, <2>2
<1>21. ASSUME NEW x \in L \ {e}, es[x].prev = e PROVE x = next
  <2>1. es[x].prev # Nil /\ x \in L
    BY <1>3, <1>21
  <2>2. es[es[x].prev].next = x
    BY <1>4, <2>1
  <2> QED  BY <1>1, <1>21, <2>2
<1>22. /\ u \in [1..n -> (L \ {e}) \union {Nil}]
       /\ \A x \in 1..n : u[x] = IF prev = Nil /\ x = b THEN next ELSE t[x]
  <2>1. \A x \in 1..n : t[x] = e => prev = Nil /\ x = b
    BY <1>1, <1>3, <1>5
  <2>2. \A x \in 1..n : u[x] = IF prev = Nil /\ x = b THEN next ELSE t[x]
    BY <1>2, <1>3, <1>7
  <2>3. u = [x \in 1..n |-> u[x]]
    BY <1>2, <1>3, <1>7
  <2>4. \A x \in 1..n : u[x] \in (L \ {e}) \union {Nil}
    BY <1>3, <1>7, <2>1, <2>2
  <2> QED  BY <2>2, <2>3, <2>4
<1>23. ASSUME NEW x \in 1..n, u[x] # Nil
       PROVE  fs[u[x]].prev = Nil /\ BucketOf(fs[u[x]].hash_key, n) = x
  <2>1. CASE prev = Nil /\ x = b
    <3>1. u[x] = next /\ next # Nil /\ next \in L \ {e}
      BY <1>7, <1>22, <1>23, <2>1
    <3>2. fs[next].prev = Nil /\ fs[next].hash_key = es[next].hash_key
      BY <1>19, <2>1, <3>1
    <3>3. BucketOf(es[next].hash_key, n) = b
      BY <1>1, <1>4, <3>1
    <3> QED  BY <2>1, <3>1, <3>2, <3>3
  <2>2. CASE ~(prev = Nil /\ x = b)
    <3>1. u[x] = t[x] /\ t[x] # Nil /\ t[x] \in L \ {e}
      BY <1>22, <1>23, <2>2
    <3>2. es[t[x]].prev = Nil /\ BucketOf(es[t[x]].hash_key, n) = x
      BY <1>5, <3>1
    <3>3. t[x] # next
      <4>1. SUFFICES ASSUME t[x] = next PROVE FALSE
        OBVIOUS
      <4>2. es[next].prev = e
        BY <1>1, <1>4, <3>1, <4>1
      <4> QED  BY <1>3, <3>2, <4>1, <4>2
    <3> QED  BY <1>19, <3>1, <3>2, <3>3
  <2> QED  BY <2>1, <2>2
<1>24. ASSUME NEW x \in L \ {e}
       PROVE  /\ fs[x].hash_key \in Nat
              /\ fs[x].next \in (L \ {e}) \union {Nil} /\ fs[x].prev \in (L \ {e}) \union {Nil}
              /\ fs[x].next # Nil =>
                   /\ fs[fs[x].next].prev = x
                   /\ BucketOf(fs[fs[x].next].hash_key, n) = BucketOf(fs[x].hash_key, n)
                   /\ rank[fs[x].next] < rank[x]
              /\ fs[x].prev # Nil => fs[fs[x].prev].next = x
              /\ fs[x].prev = Nil => u[BucketOf(fs[x].hash_key, n)] = x
  <2>1. fs[x].hash_key \in Nat
    BY <1>4, <1>19
  <2>2. fs[x].next \in (L \ {e}) \union {Nil}
    BY <1>4, <1>7, <1>19, <1>20
  <2>3. fs[x].prev \in (L \ {e}) \union {Nil}
    BY <1>4, <1>7, <1>19, <1>21
  <2>4. ASSUME fs[x].next # Nil
        PROVE  /\ fs[fs[x].next].prev = x
               /\ BucketOf(fs[fs[x].next].hash_key, n) = BucketOf(fs[x].hash_key, n)
               /\ rank[fs[x].next] < rank[x]
    <3>1. CASE x = prev
      <4>1. fs[x].next = next /\ next \in L \ {e} /\ fs[next].prev = prev
        BY <1>7, <1>19, <2>4, <3>1
      <4>2. BucketOf(es[next].hash_key, n) = BucketOf(es[e].hash_key, n) /\ rank[next] < rank[e]
        <5>1. next # Nil
          BY <2>4, <4>1
        <5>2. es[e].next # Nil
          BY <1>1, <5>1
        <5>3. BucketOf(es[es[e].next].hash_key, n) = BucketOf(es[e].hash_key, n)
              /\ rank[es[e].next] < rank[e]
          BY <1>4, <5>2, SMTT(30)
        <5> QED  BY <1>1, <5>3
      <4>3. es[prev].next = e /\ prev # Nil
        BY <1>1, <1>3, <1>4, <3>1
      <4>4. BucketOf(es[e].hash_key, n) = BucketOf(es[prev].hash_key, n) /\ rank[e] < rank[prev]
        BY <1>3, <1>4, <3>1, <4>3
      <4>5. rank[next] < rank[prev]
        BY <1>6, <3>1, <4>1, <4>2, <4>4
      <4> QED  BY <1>19, <3>1, <4>1, <4>2, <4>4, <4>5
    <3>2. CASE x # prev
      <4>1. PICK y : y = es[x].next
        OBVIOUS
      <4>2. fs[x].next = y /\ y # Nil /\ y \in L \ {e}
        BY <1>19, <2>2, <2>4, <3>2, <4>1
      <4>3. es[y].prev = x /\ BucketOf(es[y].hash_key, n) = BucketOf(es[x].hash_key, n)
            /\ rank[y] < rank[x]
        BY <1>4, <4>1, <4>2
      <4>4. y # next
        <5>1. SUFFICES ASSUME y = next PROVE FALSE
          OBVIOUS
        <5>2. es[next].prev = e
          BY <1>1, <1>4, <4>2, <5>1
        <5> QED  BY <4>3, <5>1, <5>2
      <4> QED  BY <1>19, <4>2, <4>3, <4>4
    <3> QED  BY <3>1, <3>2
  <2>5. ASSUME fs[x].prev # Nil PROVE fs[fs[x].prev].next = x
    <3>1. CASE x = next
      <4>1. fs[x].prev = prev /\ prev # Nil /\ prev \in L \ {e}
        BY <1>7, <1>19, <2>5, <3>1
      <4> QED  BY <1>19, <3>1, <4>1
    <3>2. CASE x # next
      <4>1. PICK y : y = es[x].prev
        OBVIOUS
      <4>2. fs[x].prev = y /\ y # Nil /\ y \in L \ {e} /\ es[y].next = x
        BY <1>4, <1>19, <2>3, <2>5, <3>2, <4>1
      <4>3. y # prev
        <5>1. SUFFICES ASSUME y = prev PROVE FALSE
          OBVIOUS
        <5>2. es[prev].next = e
          BY <1>1, <1>4, <4>2, <5>1
        <5> QED  BY <4>2, <5>1, <5>2
      <4> QED  BY <1>19, <4>2, <4>3
    <3> QED  BY <3>1, <3>2
  <2>6. ASSUME fs[x].prev = Nil PROVE u[BucketOf(fs[x].hash_key, n)] = x
    <3>1. CASE x = next
      <4>1. prev = Nil /\ next # Nil
        BY <1>3, <1>19, <2>6, <3>1
      <4>2. BucketOf(es[next].hash_key, n) = b
        BY <1>1, <1>4, <4>1
      <4> QED  BY <1>7, <1>19, <1>22, <3>1, <4>1, <4>2
    <3>2. CASE x # next
      <4>1. es[x].prev = Nil
        BY <1>19, <2>6, <3>2
      <4>2. t[BucketOf(es[x].hash_key, n)] = x
        BY <1>4, <4>1
      <4>3. ~(prev = Nil /\ BucketOf(es[x].hash_key, n) = b)
        BY <1>1, <1>4, <4>2
      <4> QED  BY <1>6, <1>19, <1>22, <4>2, <4>3
    <3> QED  BY <3>1, <3>2
  <2> QED  BY <2>1, <2>2, <2>3, <2>4, <2>5, <2>6
<1>25. Linked(u, fs, n, L \ {e}, rank, top)
  BY <1>3, <1>22, <1>23, <1>24 DEF Linked
<1>26. u = IF entries[e].prev # Nil THEN tab
           ELSE [tab EXCEPT ![Bucket(entries[e].hash_key)] = entries[e].next]
  BY <1>1, <1>2 DEF Bucket
<1>27. \A x \in L \ {e} : fs[x].key = entries[x].key /\ fs[x].value = entries[x].value
                          /\ fs[x].hash_key = entries[x].hash_key
  BY <1>1, <1>19
<1>28. UnlinkedIs(u, fs, n, L, rank, top, e)
  BY <1>18, <1>25, <1>27 DEF UnlinkedIs
<1> QED  BY <1>2, <1>26, <1>28

-----------------------------------------------------------------------------
(* The inductive invariant.                                                *)

\* Key and value of an entry are in memory, and only there.
Contents ==
  /\ kvs = [p \in KvId |-> kvs[p]]
  /\ \A p \in KvId : kvs[p] # Free => kvs[p] \in [key : Keys, value : Values]
  /\ \A e \in Live : entries[e].value \in KvId /\ entries[e].hash_key = Hash[KeyOf(e)]
  /\ \A d, e \in Live : KeyOf(d) = KeyOf(e) => d = e

MdcInv ==
  /\ EntriesAre(entries, Live)
  /\ Contents
  /\ PairsOwned
  /\ nelem = Cardinality(Live)
  /\ tab = NoTab => Live = {}
  /\ tab # NoTab => \E rank, top : Linked(tab, entries, tab_size, Live, rank, top)

-----------------------------------------------------------------------------
(* From the pointers to the chains.                                        *)

LEMMA NthIs ==
  ASSUME NEW n, NEW rank, NEW top, Linked(tab, entries, n, Live, rank, top),
         NEW p \in Live \union {Nil}
  PROVE  /\ Nth(p) \in [Nat -> Live \union {Nil}]
         /\ Nth(p)[0] = p
         /\ \A i \in Nat \ {0} : Nth(p)[i] = NextOf(Nth(p)[i - 1])
<1> DEFINE S == Live \union {Nil}
           g == [x \in S \X Nat |-> NextOf(x[1])]
<1>1. \A x \in S : NextOf(x) \in S
  <2>1. Live \subseteq EntryId /\ Nil \notin Live
    BY EntryIds DEF Live
  <2> QED  BY <2>1 DEF NextOf, Linked
<1> HIDE DEF S
<1>2. g \in [S \X Nat -> S] /\ \A x \in S, i \in Nat : g[<<x, i>>] = NextOf(x)
  BY <1>1
<1> HIDE DEF g
<1>3. PICK f \in [Nat -> S] : f[0] = p /\ \A i \in Nat \ {0} : f[i] = g[<<f[i - 1], i>>]
  <2>1. p \in S
    BY DEF S
  <2>2. PICK f : Iterates(f, S, p, g)
    BY <1>2, <2>1, RunExists, Zenon
  <2> QED  BY <2>2 DEF Iterates
<1> DEFINE q == Nth(p)
<1>4. \A i \in Nat : f[i] = IF i = 0 THEN p ELSE NextOf(f[i - 1])
  <2>1. ASSUME NEW i \in Nat, i # 0 PROVE f[i] = NextOf(f[i - 1])
    <3>1. f[i - 1] \in S /\ f[i] = g[<<f[i - 1], i>>]
      BY <1>3, <2>1
    <3> QED  BY <1>2, <3>1
  <2> QED  BY <1>3, <2>1
<1>5. f = [i \in Nat |-> IF i = 0 THEN p ELSE NextOf(f[i - 1])]
  BY <1>3, <1>4
<1>6. q = CHOOSE q_1 : q_1 = [i \in Nat |-> IF i = 0 THEN p ELSE NextOf(q_1[i - 1])]
  BY DEF Nth
<1>7. q = [i \in Nat |-> IF i = 0 THEN p ELSE NextOf(q[i - 1])]
  <2> HIDE DEF q
  <2> QED  BY <1>5, <1>6
<1> DEFINE U == {i \in Nat : q[i] # f[i]}
<1>8. U = {}
  <2> HIDE DEF q
  <2>1. SUFFICES ASSUME U # {} PROVE FALSE
    OBVIOUS
  <2>2. PICK m \in U : \A i \in U : m <= i
    BY <2>1, LeastNumber
  <2>3. m # 0
    BY <1>3, <1>7, <2>2
  <2>4. m - 1 \in Nat /\ q[m - 1] = f[m - 1]
    BY <2>2, <2>3
  <2>5. q[m] = NextOf(q[m - 1])
    BY <1>7, <2>2, <2>3
  <2> QED  BY <1>4, <2>2, <2>3, <2>4, <2>5
<1>9. q = f
  <2> HIDE DEF q, S
  <2> QED  BY <1>3, <1>7, <1>8
<1> QED  BY <1>3, <1>4, <1>9 DEF S

\* c lists the entries from p on, without repetition.
IsChain(c, p) ==
  /\ c \in Seq(Live)
  /\ p = Nil => c = <<>>
  /\ p # Nil => Len(c) # 0 /\ c[1] = p
  /\ \A i \in 1..Len(c) : entries[c[i]].next = IF i = Len(c) THEN Nil ELSE c[i + 1]
  /\ \A i, j \in 1..Len(c) : c[i] = c[j] => i = j

LEMMA ChainIs ==
  ASSUME NEW n, NEW rank, NEW top, Linked(tab, entries, n, Live, rank, top),
         NEW p \in Live \union {Nil}
  PROVE  IsChain(Chain(p), p)
<1>1. PICK nth : nth = Nth(p)
  OBVIOUS
<1>2. nth \in [Nat -> Live \union {Nil}] /\ nth[0] = p
      /\ \A i \in Nat \ {0} : nth[i] = NextOf(nth[i - 1])
  BY <1>1, NthIs
<1>3. Live \subseteq EntryId /\ Nil \notin Live /\ EntryId \subseteq Nat /\ Nil = 0
  BY EntryIds DEF Live, Nil
<1>4. ASSUME NEW i \in Nat, nth[i] # Nil
      PROVE  /\ nth[i] \in Live /\ rank[nth[i]] \in Nat /\ nth[i + 1] = entries[nth[i]].next
             /\ nth[i + 1] # Nil => nth[i + 1] \in Live /\ rank[nth[i + 1]] < rank[nth[i]]
  <2>1. PICK x, y : x = nth[i] /\ y = nth[i + 1]
    OBVIOUS
  <2>2. x \in Live /\ x # Nil
    BY <1>2, <1>4, <2>1
  <2>3. i + 1 \in Nat \ {0} /\ (i + 1) - 1 = i
    OBVIOUS
  <2>4. y = NextOf(x)
    BY <1>2, <2>1, <2>3
  <2>5. y = entries[x].next
    BY <2>2, <2>4 DEF NextOf
  <2>6. y # Nil => y \in Live /\ rank[y] < rank[x]
    BY <2>2, <2>5 DEF Linked
  <2>7. rank[x] \in Nat
    BY <1>3, <2>2 DEF Linked
  <2> QED  BY <2>1, <2>2, <2>5, <2>6, <2>7
<1>5. \E i \in Nat : nth[i] = Nil
  <2>1. SUFFICES ASSUME \A i \in Nat : nth[i] # Nil PROVE FALSE
    OBVIOUS
  <2> DEFINE T == {rank[nth[i]] : i \in Nat}
  <2>2. T \in SUBSET Nat /\ T # {}
    BY <1>4, <2>1
  <2>3. PICK r \in T : \A x \in T : r <= x
    BY <2>2, LeastNumber
  <2>4. PICK i \in Nat : r = rank[nth[i]]
    BY <2>3
  <2>5. i + 1 \in Nat /\ rank[nth[i + 1]] < r /\ rank[nth[i + 1]] \in T /\ r \in Nat
    BY <1>4, <2>1, <2>2, <2>4
  <2>6. rank[nth[i + 1]] \in Nat
    BY <2>2, <2>5
  <2> QED  BY <2>3, <2>5, <2>6, SMTT(30)
<1>6. PICK m \in Nat : nth[m] = Nil /\ \A i \in 0..(m - 1) : nth[i] # Nil
  <2> DEFINE T == {i \in Nat : nth[i] = Nil}
  <2>1. T \in SUBSET Nat /\ T # {}
    BY <1>5
  <2>2. PICK m \in T : \A x \in T : m <= x
    BY <2>1, LeastNumber
  <2>3. \A i \in 0..(m - 1) : i \notin T
    BY <2>2
  <2> QED  BY <2>2, <2>3
<1>7. ASSUME NEW k \in Nat, nth[k] = Nil, \A i \in 0..(k - 1) : nth[i] # Nil
      PROVE  \A i, j \in 0..(k - 1) : i < j => rank[nth[j]] < rank[nth[i]]
  <2>1. SUFFICES ASSUME NEW i \in 0..(k - 1),
                        NEW j \in 0..(k - 1), i < j, ~(rank[nth[j]] < rank[nth[i]])
                 PROVE  FALSE
    OBVIOUS
  <2> DEFINE T == {x \in Nat : i < x /\ x \in 0..(k - 1) /\ ~(rank[nth[x]] < rank[nth[i]])}
  <2>2. j \in T
    BY <2>1
  <2>3. PICK x \in T : \A y \in T : x <= y
    BY <2>2, LeastNumber
  <2>4. x \in Nat /\ i < x /\ x \in 0..(k - 1) /\ ~(rank[nth[x]] < rank[nth[i]])
    BY <2>3
  <2>5. x - 1 \in Nat /\ x - 1 \in 0..(k - 1) /\ (x - 1) + 1 = x /\ x - 1 \notin T
    BY <2>3, <2>4
  <2>6. nth[x - 1] # Nil /\ nth[x] # Nil /\ nth[i] # Nil
    BY <1>7, <2>4, <2>5
  <2>7. rank[nth[x]] < rank[nth[x - 1]] /\ rank[nth[x]] \in Nat /\ rank[nth[x - 1]] \in Nat
        /\ rank[nth[i]] \in Nat
    BY <1>4, <2>4, <2>5, <2>6
  <2>8. CASE x - 1 = i
    BY <2>4, <2>7, <2>8
  <2>9. CASE x - 1 # i
    <3>1. i < x - 1
      BY <2>4, <2>5, <2>9
    <3>2. rank[nth[x - 1]] < rank[nth[i]]
      BY <2>5, <3>1
    <3> QED  BY <2>4, <2>7, <3>2
  <2> QED  BY <2>8, <2>9
<1>8. ASSUME NEW k \in Nat, nth[k] = Nil, \A i \in 0..(k - 1) : nth[i] # Nil
      PROVE  \A i, j \in 0..(k - 1) : nth[i] = nth[j] => i = j
  <2>1. SUFFICES ASSUME NEW i \in 0..(k - 1), NEW j \in 0..(k - 1), nth[i] = nth[j], i < j
                 PROVE  FALSE
    OBVIOUS
  <2>2. rank[nth[j]] < rank[nth[i]]
    BY <1>7, <1>8, <2>1
  <2>3. rank[nth[i]] \in Nat
    BY <1>4, <1>8
  <2> QED  BY <2>1, <2>2, <2>3
<1>9. m \in 0..Cardinality(Keys)
  <2>1. PICK c : c = Cardinality(Keys) /\ c \in Nat
    BY EntryIds
  <2>2. SUFFICES ASSUME m > c PROVE FALSE
    BY <2>1
  <2>3. IsFiniteSet(1..m) /\ Cardinality(1..m) = m /\ IsFiniteSet(1..c) /\ Cardinality(1..c) = c
    BY <2>1, <2>2, FS_Interval
  <2>4. [i \in 1..m |-> nth[i - 1]] \in [1..m -> 1..c]
    <3>1. ASSUME NEW i \in 1..m PROVE nth[i - 1] \in 1..c
      <4>1. i - 1 \in 0..(m - 1) /\ i - 1 \in Nat
        OBVIOUS
      <4>2. nth[i - 1] \in Live
        BY <1>4, <1>6, <4>1
      <4> QED  BY <1>3, <2>1, <4>2 DEF EntryId
    <3> QED  BY <3>1
  <2>5. PICK f : f = [i \in 1..m |-> nth[i - 1]]
    OBVIOUS
  <2>6. PICK x \in 1..m, y \in 1..m : x # y /\ f[x] = f[y]
    <3>1. PICK S, T : S = 1..m /\ T = 1..c
      OBVIOUS
    <3>2. IsFiniteSet(S) /\ IsFiniteSet(T) /\ f \in [S -> T]
      BY <2>3, <2>4, <2>5, <3>1
    <3>3. Cardinality(T) < Cardinality(S)
      BY <2>1, <2>2, <2>3, <3>1
    <3>4. \E x, y \in S : x # y /\ f[x] = f[y]
      BY <3>2, <3>3, FS_PigeonHole, Zenon
    <3> QED  BY <3>1, <3>4
  <2>7. x - 1 \in 0..(m - 1) /\ y - 1 \in 0..(m - 1) /\ nth[x - 1] = nth[y - 1]
    BY <2>5, <2>6
  <2>8. x - 1 = y - 1
    BY <1>6, <1>8, <2>7
  <2> QED  BY <2>6, <2>8
<1> DEFINE Ends(k) == nth[k] = Nil /\ \A i \in 0..(k - 1) : nth[i] # Nil
           len == CHOOSE k \in 0..Cardinality(Keys) : Ends(k)
<1>10. len \in 0..Cardinality(Keys) /\ Ends(len)
  <2>1. Ends(m)
    BY <1>6
  <2> HIDE DEF Ends
  <2> QED  BY <1>9, <2>1
<1>11. Chain(p) = [i \in 1..len |-> nth[i - 1]]
  BY <1>1 DEF Chain
<1>12. len \in Nat
  BY <1>10, EntryIds
<1>13. nth[len] = Nil /\ \A i \in 0..(len - 1) : nth[i] # Nil
  BY <1>10
<1> HIDE DEF len, Ends
<1>14. PICK c : c = Chain(p)
  OBVIOUS
<1>15. \A i \in 1..len : i - 1 \in 0..(len - 1) /\ i - 1 \in Nat /\ (i - 1) + 1 = i
  BY <1>12
<1>16. \A i \in 1..len : c[i] = nth[i - 1] /\ c[i] \in Live
  BY <1>4, <1>11, <1>13, <1>14, <1>15
<1>17. c \in Seq(Live) /\ Len(c) = len
  <2>1. c \in [1..len -> Live]
    BY <1>11, <1>14, <1>16
  <2> QED  BY <1>12, <2>1
<1>18. p = Nil => c = <<>>
  <2>1. SUFFICES ASSUME p = Nil, len # 0 PROVE FALSE
    BY <1>17
  <2>2. 0 \in 0..(len - 1)
    BY <1>12, <2>1
  <2> QED  BY <1>2, <1>13, <2>1, <2>2
<1>19. p # Nil => Len(c) # 0 /\ c[1] = p
  <2>1. SUFFICES ASSUME p # Nil PROVE len # 0 /\ c[1] = p
    BY <1>17
  <2>2. len # 0
    BY <1>2, <1>13, <2>1
  <2>3. 1 \in 1..len
    BY <1>12, <2>2
  <2> QED  BY <1>2, <1>16, <2>2, <2>3
<1>20. ASSUME NEW i \in 1..len
       PROVE  entries[c[i]].next = IF i = len THEN Nil ELSE c[i + 1]
  <2>1. nth[(i - 1) + 1] = entries[nth[i - 1]].next
    BY <1>4, <1>13, <1>15
  <2>2. entries[c[i]].next = nth[i]
    BY <1>15, <1>16, <2>1
  <2>3. CASE i = len
    BY <1>13, <2>2, <2>3
  <2>4. CASE i # len
    <3>1. i + 1 \in 1..len /\ (i + 1) - 1 = i
      BY <1>12, <2>4
    <3> QED  BY <1>16, <2>2, <2>4, <3>1
  <2> QED  BY <2>3, <2>4
<1>21. ASSUME NEW i \in 1..len, NEW j \in 1..len, c[i] = c[j] PROVE i = j
  <2>1. nth[i - 1] = nth[j - 1]
    BY <1>16, <1>21
  <2>2. i - 1 = j - 1
    BY <1>8, <1>12, <1>13, <1>15, <2>1
  <2> QED  BY <2>2
<1>22. IsChain(c, p)
  BY <1>17, <1>18, <1>19, <1>20, <1>21 DEF IsChain
<1> QED  BY <1>14, <1>22

\* The chain of a bucket lists exactly the entries that belong there.
LEMMA BucketChain ==
  ASSUME NEW n, NEW rank, NEW top, Linked(tab, entries, n, Live, rank, top), NEW b \in 1..n
  PROVE  /\ \A i \in 1..Len(Chain(tab[b])) : BucketOf(entries[Chain(tab[b])[i]].hash_key, n) = b
         /\ \A e \in Live : BucketOf(entries[e].hash_key, n) = b =>
              \E i \in 1..Len(Chain(tab[b])) : Chain(tab[b])[i] = e
<1>1. PICK p, c : p = tab[b] /\ c = Chain(p)
  OBVIOUS
<1>2. p \in Live \union {Nil}
  BY <1>1 DEF Linked
<1>3. /\ c \in Seq(Live)
      /\ p = Nil => c = <<>>
      /\ p # Nil => Len(c) # 0 /\ c[1] = p
      /\ \A i \in 1..Len(c) : entries[c[i]].next = IF i = Len(c) THEN Nil ELSE c[i + 1]
  <2>1. IsChain(Chain(p), p)
    BY <1>2, ChainIs
  <2>2. IsChain(c, p)
    BY <1>1, <2>1
  <2> QED  BY <2>2 DEF IsChain
<1>4. PICK l \in Nat : l = Len(c)
  BY <1>3
<1>5. Live \subseteq EntryId /\ Nil \notin Live
  BY EntryIds DEF Live
<1>6. \A i \in 1..l : c[i] \in Live
  BY <1>3, <1>4
<1>7. ASSUME NEW i \in 1..l PROVE BucketOf(entries[c[i]].hash_key, n) = b
  <2> DEFINE T == {j \in 1..l : BucketOf(entries[c[j]].hash_key, n) # b}
  <2>1. SUFFICES ASSUME T # {} PROVE FALSE
    OBVIOUS
  <2>2. T \in SUBSET Nat
    OBVIOUS
  <2>3. PICK j \in T : \A x \in T : j <= x
    BY <2>1, <2>2, LeastNumber
  <2>4. j \in 1..l /\ BucketOf(entries[c[j]].hash_key, n) # b
    BY <2>3
  <2>5. j # 1
    <3>1. SUFFICES ASSUME j = 1 PROVE FALSE
      OBVIOUS
    <3>2. p # Nil
      BY <1>3, <1>4, <2>4
    <3>3. BucketOf(entries[p].hash_key, n) = b
      BY <1>1, <3>2 DEF Linked
    <3> QED  BY <1>3, <2>4, <3>1, <3>2, <3>3
  <2>6. j - 1 \in 1..l /\ j - 1 # l /\ (j - 1) + 1 = j /\ j - 1 \notin T
    BY <2>3, <2>4, <2>5
  <2>7. entries[c[j - 1]].next = c[j] /\ c[j - 1] \in Live /\ c[j] # Nil
    BY <1>3, <1>4, <1>5, <1>6, <2>4, <2>6
  <2>8. BucketOf(entries[c[j]].hash_key, n) = BucketOf(entries[c[j - 1]].hash_key, n)
    BY <2>7 DEF Linked
  <2> QED  BY <2>4, <2>6, <2>8
<1>8. ASSUME NEW e \in Live, BucketOf(entries[e].hash_key, n) = b
      PROVE  \E i \in 1..l : c[i] = e
  <2> DEFINE Missed == {x \in Live : BucketOf(entries[x].hash_key, n) = b
                                     /\ ~\E i \in 1..l : c[i] = x}
             T == {top - rank[x] : x \in Missed}
  <2>1. SUFFICES ASSUME Missed # {} PROVE FALSE
    BY <1>8
  <2>2. \A x \in Live : top - rank[x] \in Nat /\ rank[x] \in Nat /\ top \in Nat
    BY <1>5 DEF Linked
  <2>3. T \in SUBSET Nat /\ T # {}
    BY <2>1, <2>2
  <2>4. PICK r \in T : \A x \in T : r <= x
    BY <2>3, LeastNumber
  <2>5. PICK x \in Missed : r = top - rank[x]
    BY <2>4
  <2>6. x \in Live /\ BucketOf(entries[x].hash_key, n) = b /\ ~\E i \in 1..l : c[i] = x
    BY <2>5
  <2>7. PICK y : y = entries[x].prev
    OBVIOUS
  <2>8. CASE y = Nil
    <3>1. p = x
      BY <1>1, <2>6, <2>7, <2>8 DEF Linked
    <3>2. p # Nil
      BY <1>5, <2>6, <3>1
    <3>3. 1 \in 1..l /\ c[1] = x
      BY <1>3, <1>4, <3>1, <3>2
    <3> QED  BY <2>6, <3>3
  <2>9. CASE y # Nil
    <3>1. y \in Live /\ entries[y].next = x
      BY <2>6, <2>7, <2>9 DEF Linked
    <3>2. entries[y].next # Nil
      BY <1>5, <2>6, <3>1
    <3>3. BucketOf(entries[entries[y].next].hash_key, n) = BucketOf(entries[y].hash_key, n)
          /\ rank[entries[y].next] < rank[y]
      BY <3>1, <3>2 DEF Linked
    <3>4. BucketOf(entries[y].hash_key, n) = b /\ rank[x] < rank[y]
      BY <2>6, <3>1, <3>3
    <3>5. y \notin Missed
      <4>1. SUFFICES ASSUME y \in Missed PROVE FALSE
        OBVIOUS
      <4>2. top - rank[y] \in T
        BY <4>1
      <4>3. top - rank[x] <= top - rank[y]
        BY <2>4, <2>5, <4>2
      <4> QED  BY <2>2, <2>6, <3>1, <3>4, <4>3
    <3>6. PICK i \in 1..l : c[i] = y
      BY <3>1, <3>4, <3>5
    <3>7. i # l /\ c[i + 1] = x
      BY <1>3, <1>4, <3>1, <3>2, <3>6
    <3>8. i + 1 \in 1..l
      BY <3>7
    <3> QED  BY <2>6, <3>7, <3>8
  <2> QED  BY <2>8, <2>9
<1> QED  BY <1>1, <1>4, <1>7, <1>8

LEMMA MinIs ==
  ASSUME NEW T \in SUBSET Nat, T # {}
  PROVE  Min(T) \in T /\ \A x \in T : Min(T) <= x
<1>1. \E x \in T : \A y \in T : x <= y
  BY LeastNumber
<1> QED  BY <1>1 DEF Min

\* The search finds the entry of a key, if there is one.
LEMMA EntryFound ==
  ASSUME MdcInv, tab # NoTab, NEW k \in Keys
  PROVE  /\ zc_hashtable_get_entry(k) \in Live \union {Nil}
         /\ zc_hashtable_get_entry(k) # Nil => KeyOf(zc_hashtable_get_entry(k)) = k
         /\ zc_hashtable_get_entry(k) = Nil => \A x \in Live : KeyOf(x) # k
<1>1. PICK rank, top : Linked(tab, entries, tab_size, Live, rank, top)
  BY DEF MdcInv
<1>2. PICK n, b, p, c : n = tab_size /\ b = BucketOf(Hash[k], n) /\ p = tab[b] /\ c = Chain(p)
  OBVIOUS
<1>3. Linked(tab, entries, n, Live, rank, top) /\ n \in Nat \ {0}
  BY <1>1, <1>2 DEF Linked
<1>4. Hash[k] \in Nat
  BY MdcAssumption
<1>5. b \in 1..n
  BY <1>2, <1>3, <1>4, BucketIn
<1>6. p \in Live \union {Nil}
  BY <1>2, <1>3, <1>5 DEF Linked
<1>7. c \in Seq(Live)
  <2>1. IsChain(Chain(p), p)
    BY <1>3, <1>6, ChainIs
  <2> QED  BY <1>2, <2>1 DEF IsChain
<1>8. PICK hits : hits = {i \in DOMAIN c : KeyOf(c[i]) = k}
  OBVIOUS
<1>9. zc_hashtable_get_entry(k) = IF hits = {} THEN Nil ELSE c[Min(hits)]
  BY <1>2, <1>8 DEF zc_hashtable_get_entry, Bucket
<1>10. hits \in SUBSET Nat /\ hits \subseteq 1..Len(c) /\ DOMAIN c = 1..Len(c)
  BY <1>7, <1>8
<1>11. Nil \notin Live
  BY EntryIds DEF Live
<1>12. CASE hits # {}
  <2>1. Min(hits) \in hits
    BY <1>10, <1>12, MinIs
  <2>2. c[Min(hits)] \in Live /\ KeyOf(c[Min(hits)]) = k
    BY <1>7, <1>8, <1>10, <2>1
  <2> QED  BY <1>9, <1>11, <1>12, <2>2
<1>13. CASE hits = {}
  <2>1. zc_hashtable_get_entry(k) = Nil
    BY <1>9, <1>13
  <2>2. ASSUME NEW x \in Live, KeyOf(x) = k PROVE FALSE
    <3>1. BucketOf(entries[x].hash_key, n) = b
      BY <1>2, <2>2 DEF MdcInv, Contents
    <3>2. PICK i \in 1..Len(Chain(tab[b])) : Chain(tab[b])[i] = x
      BY <1>3, <1>5, <3>1, BucketChain
    <3>3. i \in 1..Len(c) /\ c[i] = x
      BY <1>2, <3>2
    <3> QED  BY <1>8, <1>10, <1>13, <2>2, <3>3
  <2> QED  BY <2>1, <2>2
<1> QED  BY <1>12, <1>13

-----------------------------------------------------------------------------
(* From the chains to the order of zc_hashtable_foreach.                   *)

\* Where the elements of sequences are in their concatenation: o[b] is the
\* length of the first b of them.
Places(o, c, n, order) ==
  /\ o \in [0..n -> Nat] /\ o[0] = 0
  /\ \A b \in 1..n : o[b] = o[b - 1] + Len(c[b])
  /\ \A b \in 1..n : \A j \in 1..Len(c[b]) :
       o[b - 1] + j \in 1..o[n] /\ order[o[b - 1] + j] = c[b][j]
  /\ \A i \in 1..o[n] : \E b \in 1..n : \E j \in 1..Len(c[b]) : i = o[b - 1] + j
  /\ \A a, b \in 0..n : a <= b /\ (\A d \in (a + 1)..b : c[d] = <<>>) => o[a] = o[b]

LEMMA FlatPlaces ==
  ASSUME NEW n \in Nat, NEW c, \A b \in 1..n : IsSeq(c[b]),
         NEW o, o = [b \in 0..n |-> Len(Flat(c, b))]
  PROVE  Places(o, c, n, Flat(c, n))
<1>1. /\ Flat(c, 0) = <<>>
      /\ \A i \in 0..n : IsSeq(Flat(c, i))
      /\ \A i \in 1..n : Flat(c, i) = Flat(c, i - 1) \o c[i]
  BY FlatIs
<1>2. \A b \in 1..n : Len(c[b]) \in Nat
  BY Facts
<1>3. o \in [0..n -> Nat]
  <2>1. \A b \in 0..n : Len(Flat(c, b)) \in Nat
    BY <1>1, Facts
  <2> QED  BY <2>1
<1>4. o[0] = 0
  BY <1>1
<1>5. ASSUME NEW b \in 1..n PROVE o[b] = o[b - 1] + Len(c[b])
  <2>1. b \in 0..n /\ b - 1 \in 0..n
    OBVIOUS
  <2>2. o[b] = Len(Flat(c, b)) /\ o[b - 1] = Len(Flat(c, b - 1))
    BY <2>1
  <2>3. PICK x, y : x = Flat(c, b - 1) /\ y = c[b] /\ IsSeq(x) /\ IsSeq(y) /\ Flat(c, b) = x \o y
    BY <1>1, <2>1
  <2>4. Len(x \o y) = Len(x) + Len(y)
    BY <2>3, Concat
  <2> QED  BY <2>2, <2>3, <2>4
<1>6. ASSUME NEW b \in 1..n, NEW j \in 1..Len(c[b])
      PROVE  \A m \in b..n : o[b - 1] + j \in 1..o[m] /\ Flat(c, m)[o[b - 1] + j] = c[b][j]
  <2> DEFINE T == {m \in b..n : ~(o[b - 1] + j \in 1..o[m] /\ Flat(c, m)[o[b - 1] + j] = c[b][j])}
  <2>1. SUFFICES ASSUME T # {} PROVE FALSE
    OBVIOUS
  <2>2. T \in SUBSET Nat
    OBVIOUS
  <2>3. PICK m \in T : \A x \in T : m <= x
    BY <2>1, <2>2, LeastNumber
  <2>4. m \in b..n /\ m \in 1..n /\ m \in 0..n /\ m - 1 \in 0..n /\ b - 1 \in 0..n
        /\ ~(o[b - 1] + j \in 1..o[m] /\ Flat(c, m)[o[b - 1] + j] = c[b][j])
    BY <2>3, SMTT(30)
  <2>5. PICK x, y, i : x = Flat(c, m - 1) /\ y = c[m] /\ i = o[b - 1] + j
    OBVIOUS
  <2>6. IsSeq(x) /\ IsSeq(y) /\ Flat(c, m) = x \o y /\ Len(x) = o[m - 1] /\ Len(y) \in Nat
    BY <1>1, <1>2, <2>4, <2>5
  <2>7. o[m] = o[m - 1] + Len(y) /\ o[m - 1] \in Nat /\ o[m] \in Nat /\ o[b - 1] \in Nat
        /\ i \in Nat
    <3>1. o[m] = o[m - 1] + Len(y)
      BY <1>5, <2>4, <2>5
    <3>2. o[m - 1] \in Nat /\ o[m] \in Nat /\ o[b - 1] \in Nat
      BY <1>3, <2>4
    <3>3. j \in Nat
      BY <1>2
    <3> QED  BY <2>5, <3>1, <3>2, <3>3
  <2>8. \A a \in 1..(Len(x) + Len(y)) : (x \o y)[a] = IF a <= Len(x) THEN x[a] ELSE y[a - Len(x)]
    BY <2>6, Concat
  <2>9. CASE m = b
    <3>1. i \in 1..o[m] /\ ~(i <= Len(x)) /\ i - Len(x) = j
      <4>1. PICK u, l : u = o[m - 1] /\ l = Len(y)
        OBVIOUS
      <4>2. u \in Nat /\ l \in Nat /\ j \in 1..l /\ i = u + j /\ Len(x) = u /\ o[m] = u + l
        BY <2>5, <2>6, <2>7, <2>9, <4>1
      <4>3. i \in 1..(u + l) /\ ~(i <= u) /\ i - u = j
        BY <4>2
      <4> QED  BY <4>2, <4>3
    <3>2. (x \o y)[i] = y[j]
      BY <2>6, <2>7, <2>8, <3>1
    <3> QED  BY <2>4, <2>5, <2>6, <2>9, <3>1, <3>2
  <2>10. CASE m # b
    <3>1. m - 1 \in b..n /\ m - 1 \notin T
      <4>1. m - 1 \in b..n /\ ~(m <= m - 1)
        BY <2>4, <2>10
      <4> QED  BY <2>3, <4>1
    <3>2. i \in 1..o[m - 1] /\ x[i] = c[b][j]
      BY <2>5, <3>1
    <3>3. i \in 1..o[m] /\ i <= Len(x)
      BY <2>6, <2>7, <3>2, SMTT(30)
    <3>4. (x \o y)[i] = x[i]
      BY <2>6, <2>7, <2>8, <3>3
    <3> QED  BY <2>4, <2>5, <2>6, <3>2, <3>3, <3>4
  <2> QED  BY <2>9, <2>10
<1>7. ASSUME NEW b \in 1..n, NEW j \in 1..Len(c[b])
      PROVE  o[b - 1] + j \in 1..o[n] /\ Flat(c, n)[o[b - 1] + j] = c[b][j]
  <2>1. n \in b..n
    OBVIOUS
  <2> QED  BY <1>6, <2>1
<1>8. ASSUME NEW i \in 1..o[n] PROVE \E b \in 1..n : \E j \in 1..Len(c[b]) : i = o[b - 1] + j
  <2> DEFINE T == {m \in 0..n : i <= o[m]}
  <2>1. n \in T /\ T \in SUBSET Nat /\ o[n] \in Nat /\ i \in Nat
    BY <1>3
  <2>2. PICK b \in T : \A x \in T : b <= x
    BY <2>1, LeastNumber
  <2>3. b # 0
    BY <1>4, <2>1, <2>2
  <2>4. b \in 1..n /\ b - 1 \in 0..n /\ b - 1 \notin T /\ i <= o[b]
    BY <2>2, <2>3
  <2>5. o[b] = o[b - 1] + Len(c[b]) /\ o[b - 1] \in Nat /\ Len(c[b]) \in Nat
    BY <1>2, <1>3, <1>5, <2>4
  <2>6. ~(i <= o[b - 1])
    BY <2>4
  <2>7. PICK x, l, j : x = o[b - 1] /\ l = Len(c[b]) /\ j = i - x
    OBVIOUS
  <2>8. x \in Nat /\ l \in Nat /\ i \in Nat /\ ~(i <= x) /\ i <= x + l
    BY <2>1, <2>4, <2>5, <2>6, <2>7
  <2>9. j \in 1..l /\ i = x + j
    <3>1. \A u, v, w \in Nat : ~(w <= u) /\ w <= u + v => w - u \in 1..v /\ w = u + (w - u)
      OBVIOUS
    <3> QED  BY <2>7, <2>8, <3>1, ZenonT(60)
  <2> QED  BY <2>4, <2>7, <2>9
<1>9. ASSUME NEW a \in 0..n, NEW b \in 0..n, a <= b, \A d \in (a + 1)..b : c[d] = <<>>
      PROVE  o[a] = o[b]
  <2> DEFINE T == {m \in a..b : o[m] # o[a]}
  <2>1. SUFFICES ASSUME T # {} PROVE FALSE
    <3>1. b \in a..b
      BY <1>9
    <3> QED  BY <3>1
  <2>2. T \in SUBSET Nat
    OBVIOUS
  <2>3. PICK m \in T : \A x \in T : m <= x
    BY <2>1, <2>2, LeastNumber
  <2>4. m \in a..b /\ o[m] # o[a]
    BY <2>3
  <2>5. m # a
    BY <2>4
  <2>6. m - 1 \in a..b /\ m - 1 \notin T /\ m \in (a + 1)..b /\ m \in 1..n
    <3>1. a \in Nat /\ b \in Nat /\ m \in Nat /\ a <= m /\ m <= b /\ b <= n /\ m # a
      BY <2>4, <2>5
    <3>2. m - 1 \in a..b /\ m \in (a + 1)..b /\ m \in 1..n
      BY <3>1
    <3>3. ~(m <= m - 1)
      BY <3>1
    <3> QED  BY <2>3, <3>2, <3>3
  <2>7. o[m - 1] = o[a] /\ c[m] = <<>>
    BY <1>9, <2>6
  <2>8. o[m] = o[m - 1] + 0 /\ o[m - 1] \in Nat
    BY <1>3, <1>5, <2>6, <2>7
  <2> QED  BY <2>4, <2>7, <2>8
<1> QED  BY <1>3, <1>4, <1>5, <1>7, <1>8, <1>9 DEF Places

\* What the chains of the n buckets are together.
AreChains(c, n) ==
  /\ \A b \in 1..n : c[b] = Chain(tab[b]) /\ IsChain(c[b], tab[b]) /\ IsSeq(c[b])
  /\ \A b \in 1..n : \A i \in 1..Len(c[b]) : BucketOf(entries[c[b][i]].hash_key, n) = b
  /\ \A e \in Live : BucketOf(entries[e].hash_key, n) \in 1..n
                     /\ \E i \in 1..Len(c[BucketOf(entries[e].hash_key, n)]) :
                          c[BucketOf(entries[e].hash_key, n)][i] = e

LEMMA ChainsAre ==
  ASSUME NEW n, NEW rank, NEW top, Linked(tab, entries, n, Live, rank, top), n = tab_size
  PROVE  \E c : AreChains(c, n) /\ Traversal = Flat(c, n)
<1>1. PICK c : c = [b \in 1..n |-> Chain(tab[b])]
  OBVIOUS
<1>2. n \in Nat \ {0}
  BY DEF Linked
<1>3. ASSUME NEW b \in 1..n PROVE c[b] = Chain(tab[b]) /\ IsChain(c[b], tab[b]) /\ IsSeq(c[b])
  <2>1. PICK p : p = tab[b] /\ p \in Live \union {Nil}
    BY DEF Linked
  <2>2. IsChain(Chain(p), p)
    BY <2>1, ChainIs
  <2>3. c[b] = Chain(p)
    BY <1>1, <2>1
  <2>4. IsSeq(c[b])
    BY <2>2, <2>3, OfSeq DEF IsChain
  <2> QED  BY <2>1, <2>2, <2>3, <2>4
<1>4. ASSUME NEW b \in 1..n, NEW i \in 1..Len(c[b])
      PROVE  BucketOf(entries[c[b][i]].hash_key, n) = b
  BY <1>3, BucketChain
<1>5. ASSUME NEW e \in Live
      PROVE  BucketOf(entries[e].hash_key, n) \in 1..n
             /\ \E i \in 1..Len(c[BucketOf(entries[e].hash_key, n)]) :
                  c[BucketOf(entries[e].hash_key, n)][i] = e
  <2>1. entries[e].hash_key \in Nat
    BY DEF Linked
  <2>2. PICK b : b = BucketOf(entries[e].hash_key, n)
    OBVIOUS
  <2>3. b \in 1..n
    BY <1>2, <2>1, <2>2, BucketIn
  <2>4. \E i \in 1..Len(Chain(tab[b])) : Chain(tab[b])[i] = e
    BY <2>2, <2>3, BucketChain
  <2> QED  BY <1>3, <2>2, <2>3, <2>4
<1>6. AreChains(c, n)
  BY <1>3, <1>4, <1>5 DEF AreChains
<1>7. Traversal = Flat(c, n)
  <2>1. [j \in 1..n |-> c[j]] = [b \in 1..n |-> Chain(tab[b])]
    BY <1>1
  <2> QED  BY <2>1 DEF Traversal, Flat
<1> QED  BY <1>6, <1>7

\* The traversal meets every entry, and none twice.
LEMMA OrderIs ==
  ASSUME NEW n \in Nat, NEW c, AreChains(c, n)
  PROVE  /\ Flat(c, n) \in Seq(Live)
         /\ \A e \in Live : \E i \in 1..Len(Flat(c, n)) : Flat(c, n)[i] = e
         /\ \A i, j \in 1..Len(Flat(c, n)) : Flat(c, n)[i] = Flat(c, n)[j] => i = j
<1>1. PICK o, order : o = [b \in 0..n |-> Len(Flat(c, b))] /\ order = Flat(c, n)
  OBVIOUS
<1>2. \A b \in 1..n : c[b] \in Seq(Live) /\ IsSeq(c[b])
  BY DEF AreChains, IsChain
<1>3. /\ o \in [0..n -> Nat] /\ o[0] = 0
      /\ \A b \in 1..n : o[b] = o[b - 1] + Len(c[b])
      /\ \A b \in 1..n : \A j \in 1..Len(c[b]) :
           o[b - 1] + j \in 1..o[n] /\ order[o[b - 1] + j] = c[b][j]
      /\ \A i \in 1..o[n] : \E b \in 1..n : \E j \in 1..Len(c[b]) : i = o[b - 1] + j
  <2>1. Places(o, c, n, order)
    BY <1>1, <1>2, FlatPlaces
  <2> QED  BY <2>1 DEF Places
<1>4. order \in Seq(Live)
  BY <1>1, <1>2, FlatType
<1>5. o[n] = Len(order)
  <2>1. n \in 0..n
    OBVIOUS
  <2> QED  BY <1>1, <2>1
<1>6. ASSUME NEW e \in Live PROVE \E i \in 1..Len(order) : order[i] = e
  <2>1. PICK b \in 1..n : \E j \in 1..Len(c[b]) : c[b][j] = e
    BY DEF AreChains
  <2>2. PICK j \in 1..Len(c[b]) : c[b][j] = e
    BY <2>1
  <2>3. o[b - 1] + j \in 1..o[n] /\ order[o[b - 1] + j] = e
    BY <1>3, <2>2
  <2> QED  BY <1>5, <2>3
<1>7. ASSUME NEW i \in 1..Len(order), NEW k \in 1..Len(order), order[i] = order[k] PROVE i = k
  <2>1. i \in 1..o[n] /\ k \in 1..o[n]
    BY <1>5
  <2>2. PICK b \in 1..n : \E j \in 1..Len(c[b]) : i = o[b - 1] + j
    BY <1>3, <2>1
  <2>3. PICK j \in 1..Len(c[b]) : i = o[b - 1] + j
    BY <2>2
  <2>4. PICK d \in 1..n : \E j2 \in 1..Len(c[d]) : k = o[d - 1] + j2
    BY <1>3, <2>1
  <2>5. PICK l \in 1..Len(c[d]) : k = o[d - 1] + l
    BY <2>4
  <2>6. order[i] = c[b][j] /\ order[k] = c[d][l]
    BY <1>3, <2>3, <2>5
  <2>7. BucketOf(entries[c[b][j]].hash_key, n) = b /\ BucketOf(entries[c[d][l]].hash_key, n) = d
    BY DEF AreChains
  <2>8. b = d
    BY <1>7, <2>6, <2>7
  <2>9. c[b][j] = c[b][l] /\ l \in 1..Len(c[b])
    BY <1>7, <2>6, <2>8
  <2>10. j = l
    BY <2>9 DEF AreChains, IsChain
  <2> QED  BY <2>3, <2>5, <2>8, <2>10
<1> QED  BY <1>1, <1>4, <1>6, <1>7

\* begin and next go through the entries in this order.
LEMMA StepsAre ==
  ASSUME NEW n \in Nat, n = tab_size, NEW c, AreChains(c, n),
         NEW order, order = Flat(c, n), \A b \in 1..n : tab[b] \in Live \union {Nil}
  PROVE  /\ zc_hashtable_begin = IF order = <<>> THEN Nil ELSE order[1]
         /\ \A i \in 1..Len(order) :
              zc_hashtable_next(order[i]) = IF i = Len(order) THEN Nil ELSE order[i + 1]
<1>1. PICK o : o = [b \in 0..n |-> Len(Flat(c, b))]
  OBVIOUS
<1>2. /\ \A b \in 1..n : c[b] \in Seq(Live) /\ IsSeq(c[b])
      /\ \A b \in 1..n : tab[b] = Nil => c[b] = <<>>
      /\ \A b \in 1..n : tab[b] # Nil => Len(c[b]) # 0 /\ c[b][1] = tab[b]
  BY DEF AreChains, IsChain
<1>3. /\ o \in [0..n -> Nat] /\ o[0] = 0
      /\ \A b \in 1..n : o[b] = o[b - 1] + Len(c[b])
      /\ \A b \in 1..n : \A j \in 1..Len(c[b]) :
           o[b - 1] + j \in 1..o[n] /\ order[o[b - 1] + j] = c[b][j]
      /\ \A i \in 1..o[n] : \E b \in 1..n : \E j \in 1..Len(c[b]) : i = o[b - 1] + j
      /\ \A a, b \in 0..n : a <= b /\ (\A d \in (a + 1)..b : c[d] = <<>>) => o[a] = o[b]
  <2>1. Places(o, c, n, order)
    BY <1>1, <1>2, FlatPlaces
  <2> QED  BY <2>1 DEF Places
<1>4. order \in Seq(Live)
  BY <1>2, FlatType
<1>5. o[n] = Len(order) /\ o[n] \in Nat
  <2>1. n \in 0..n
    OBVIOUS
  <2> QED  BY <1>1, <1>3, <2>1
<1>6. ASSUME NEW a \in 0..n, NEW later, later = {b \in (a + 1)..n : tab[b] # Nil}
      PROVE  /\ later = {} => o[a] = Len(order)
             /\ later # {} => o[a] + 1 \in 1..Len(order) /\ order[o[a] + 1] = tab[Min(later)]
  <2>1. ASSUME later = {} PROVE o[a] = Len(order)
    <3>1. \A d \in (a + 1)..n : d \in 1..n /\ c[d] = <<>>
      BY <1>2, <1>6, <2>1
    <3>2. n \in 0..n /\ a <= n
      OBVIOUS
    <3> QED  BY <1>3, <1>5, <3>1, <3>2
  <2>2. ASSUME later # {}
        PROVE  o[a] + 1 \in 1..Len(order) /\ order[o[a] + 1] = tab[Min(later)]
    <3>1. later \in SUBSET Nat
      BY <1>6
    <3>2. PICK m : m = Min(later)
      OBVIOUS
    <3>3. m \in later /\ \A x \in later : m <= x
      BY <2>2, <3>1, <3>2, MinIs
    <3>4. m \in (a + 1)..n /\ m \in 1..n /\ m - 1 \in 0..n /\ a <= m - 1 /\ tab[m] # Nil
      BY <1>6, <3>3
    <3>5. \A d \in (a + 1)..(m - 1) : d \in 1..n /\ c[d] = <<>>
      <4>1. ASSUME NEW d \in (a + 1)..(m - 1) PROVE d \in 1..n /\ c[d] = <<>>
        <5>1. d \in (a + 1)..n /\ d \in 1..n /\ ~(m <= d)
          BY <3>4
        <5>2. d \notin later
          BY <3>3, <5>1
        <5> QED  BY <1>2, <1>6, <5>1, <5>2
      <4> QED  BY <4>1
    <3>6. o[a] = o[m - 1]
      BY <1>3, <3>4, <3>5
    <3>7. 1 \in 1..Len(c[m]) /\ c[m][1] = tab[m]
      <4>1. Len(c[m]) \in Nat /\ Len(c[m]) # 0 /\ c[m][1] = tab[m]
        BY <1>2, <3>4
      <4> QED  BY <4>1
    <3>8. o[m - 1] + 1 \in 1..o[n] /\ order[o[m - 1] + 1] = c[m][1]
      BY <1>3, <3>4, <3>7
    <3> QED  BY <1>5, <3>2, <3>6, <3>7, <3>8
  <2> QED  BY <2>1, <2>2
<1>7. zc_hashtable_begin = IF order = <<>> THEN Nil ELSE order[1]
  <2>1. PICK used : used = {b \in 1..n : tab[b] # Nil}
    OBVIOUS
  <2>2. zc_hashtable_begin = IF used = {} THEN Nil ELSE tab[Min(used)]
    BY <2>1 DEF zc_hashtable_begin
  <2>3. used = {b \in (0 + 1)..n : tab[b] # Nil} /\ 0 \in 0..n
    BY <2>1
  <2>4. /\ used = {} => o[0] = Len(order)
        /\ used # {} => o[0] + 1 \in 1..Len(order) /\ order[o[0] + 1] = tab[Min(used)]
    BY <1>6, <2>3
  <2>5. CASE used = {}
    <3>1. order = <<>>
      BY <1>3, <1>4, <2>4, <2>5
    <3> QED  BY <2>2, <2>5, <3>1
  <2>6. CASE used # {}
    <3>1. 1 \in 1..Len(order) /\ order[1] = tab[Min(used)]
      BY <1>3, <2>4, <2>6
    <3>2. order # <<>>
      BY <3>1
    <3> QED  BY <2>2, <2>6, <3>1, <3>2
  <2> QED  BY <2>5, <2>6
<1>8. ASSUME NEW i \in 1..Len(order)
      PROVE  zc_hashtable_next(order[i]) = IF i = Len(order) THEN Nil ELSE order[i + 1]
  <2>1. PICK b \in 1..n : \E j \in 1..Len(c[b]) : i = o[b - 1] + j
    BY <1>3, <1>5
  <2>2. PICK j \in 1..Len(c[b]) : i = o[b - 1] + j
    BY <2>1
  <2>3. PICK e, l : e = c[b][j] /\ l = Len(c[b])
    OBVIOUS
  <2>4. order[i] = e /\ BucketOf(entries[e].hash_key, n) = b /\ l \in Nat /\ j \in 1..l
    BY <1>2, <1>3, <2>2, <2>3, SMTT(30) DEF AreChains
  <2>5. entries[e].next = IF j = l THEN Nil ELSE c[b][j + 1]
    <3>1. PICK x : x = c[b] /\ IsChain(x, tab[b])
      BY DEF AreChains
    <3>2. \A a \in 1..Len(x) : entries[x[a]].next = IF a = Len(x) THEN Nil ELSE x[a + 1]
      BY <3>1 DEF IsChain
    <3> QED  BY <2>2, <2>3, <3>1, <3>2
  <2>6. PICK later : later = {d \in (b + 1)..n : tab[d] # Nil}
    OBVIOUS
  <2>7. zc_hashtable_next(e) = IF entries[e].next # Nil THEN entries[e].next
                               ELSE IF later = {} THEN Nil ELSE tab[Min(later)]
    BY <2>4, <2>6 DEF zc_hashtable_next, Bucket
  <2>8. CASE j = l
    <3>1. b \in 0..n /\ o[b] = o[b - 1] + l /\ o[b] = i
      BY <1>3, <2>2, <2>3, <2>8
    <3>2. /\ later = {} => i = Len(order)
          /\ later # {} => i + 1 \in 1..Len(order) /\ order[i + 1] = tab[Min(later)]
      BY <1>6, <2>6, <3>1
    <3>3. zc_hashtable_next(e) = IF later = {} THEN Nil ELSE tab[Min(later)]
      BY <2>5, <2>7, <2>8
    <3>4. i + 1 \in 1..Len(order) => i # Len(order)
      BY <1>5
    <3> QED  BY <2>4, <3>2, <3>3, <3>4
  <2>9. CASE j # l
    <3>1. j + 1 \in 1..l
      BY <2>4, <2>9
    <3>2. c[b][j + 1] \in Live
      BY <1>2, <2>3, <3>1
    <3>3. Nil \notin Live
      BY EntryIds DEF Live
    <3>4. zc_hashtable_next(e) = c[b][j + 1]
      BY <2>5, <2>7, <2>9, <3>2, <3>3
    <3>5. o[b - 1] + (j + 1) \in 1..o[n] /\ order[o[b - 1] + (j + 1)] = c[b][j + 1]
      BY <1>3, <2>3, <3>1
    <3>6. b - 1 \in 0..n /\ o[b - 1] \in Nat
      BY <1>3
    <3>7. o[b - 1] + (j + 1) = i + 1
      <4>1. \A u, v \in Nat : u + (v + 1) = (u + v) + 1
        OBVIOUS
      <4>2. j \in Nat
        BY <2>4
      <4> QED  BY <2>2, <3>6, <4>1, <4>2
    <3>8. i + 1 \in 1..Len(order) /\ i # Len(order)
      BY <1>5, <3>5, <3>7
    <3> QED  BY <2>4, <3>4, <3>5, <3>7, <3>8
  <2> QED  BY <2>8, <2>9
<1> QED  BY <1>7, <1>8

\* The invariant gives what the run checks.
LEMMA InvIsSound == MdcInv => TableSound
<1> SUFFICES ASSUME MdcInv PROVE TableSound
  OBVIOUS
<1>1. PairsOwned
  BY SMTT(30) DEF MdcInv
<1>2. ForeachMeetsAll
  <2>1. SUFFICES ASSUME tab # NoTab
                 PROVE  LET order == Traversal IN
                        /\ Range(order) = Live /\ Len(order) = nelem /\ Cardinality(Live) = nelem
                        /\ zc_hashtable_begin = IF order = <<>> THEN Nil ELSE order[1]
                        /\ \A i \in DOMAIN order :
                             /\ zc_hashtable_next(order[i]) =
                                  IF i = Len(order) THEN Nil ELSE order[i + 1]
                             /\ entries[order[i]].next # Nil =>
                                  entries[entries[order[i]].next].prev = order[i]
                             /\ entries[order[i]].prev = Nil =>
                                  tab[Bucket(entries[order[i]].hash_key)] = order[i]
    BY DEF ForeachMeetsAll
  <2>2. PICK rank, top : Linked(tab, entries, tab_size, Live, rank, top)
    BY <2>1 DEF MdcInv
  <2>3. PICK n : n = tab_size
    OBVIOUS
  <2>4. Linked(tab, entries, n, Live, rank, top) /\ n \in Nat
    BY <2>2, <2>3 DEF Linked
  <2>5. PICK c : AreChains(c, n) /\ Traversal = Flat(c, n)
    BY <2>3, <2>4, ChainsAre
  <2>6. PICK order : order = Traversal
    OBVIOUS
  <2>7. /\ order \in Seq(Live)
        /\ \A e \in Live : \E i \in 1..Len(order) : order[i] = e
        /\ \A i, j \in 1..Len(order) : order[i] = order[j] => i = j
    BY <2>4, <2>5, <2>6, OrderIs
  <2>8. DOMAIN order = 1..Len(order) /\ Len(order) \in Nat
    BY <2>7
  <2>9. Range(order) = Live
    BY <2>7, <2>8 DEF Range
  <2>10. Cardinality(Live) = Len(order)
    <3>1. PICK m, S : m = Len(order) /\ S = 1..m
      OBVIOUS
    <3>2. m \in Nat
      BY <2>8, <3>1
    <3>3. IsFiniteSet(1..m) /\ Cardinality(1..m) = m
      <4>1. 1 \in Int /\ m \in Int /\ (IF 1 > m THEN 0 ELSE m - 1 + 1) = m
        BY <3>2
      <4> QED  BY <4>1, FS_Interval
    <3>4. IsFiniteSet(S) /\ Cardinality(S) = m
      BY <3>1, <3>3
    <3>5. order \in [S -> Live]
      BY <2>7, <3>1
    <3>6. order \in Injection(S, Live)
      BY <2>7, <2>8, <3>1, <3>5 DEF Injection, IsInjective
    <3>7. order \in Surjection(S, Live)
      BY <2>7, <3>1, <3>5 DEF Surjection
    <3>8. order \in Bijection(S, Live)
      BY <3>6, <3>7 DEF Bijection
    <3>9. ExistsBijection(S, Live)
      BY <3>8 DEF ExistsBijection
    <3>10. Cardinality(Live) = Cardinality(S)
      BY <3>4, <3>9, FS_Bijection
    <3> QED  BY <3>1, <3>4, <3>10
  <2>11. \A b \in 1..n : tab[b] \in Live \union {Nil}
    BY <2>4 DEF Linked
  <2>12. /\ zc_hashtable_begin = IF order = <<>> THEN Nil ELSE order[1]
         /\ \A i \in 1..Len(order) :
              zc_hashtable_next(order[i]) = IF i = Len(order) THEN Nil ELSE order[i + 1]
    BY <2>3, <2>4, <2>5, <2>6, <2>11, StepsAre
  <2>13. ASSUME NEW i \in 1..Len(order)
         PROVE  /\ entries[order[i]].next # Nil =>
                     entries[entries[order[i]].next].prev = order[i]
                /\ entries[order[i]].prev = Nil =>
                     tab[Bucket(entries[order[i]].hash_key)] = order[i]
    <3>1. PICK e : e = order[i] /\ e \in Live
      BY <2>7, SMTT(30)
    <3>2. /\ entries[e].next # Nil => entries[entries[e].next].prev = e
          /\ entries[e].prev = Nil => tab[BucketOf(entries[e].hash_key, n)] = e
      BY <2>4, <3>1 DEF Linked
    <3> QED  BY <2>3, <3>1, <3>2 DEF Bucket
  <2>14. nelem = Cardinality(Live)
    BY DEF MdcInv
  <2> QED  BY <2>6, <2>8, <2>9, <2>10, <2>12, <2>13, <2>14
<1> QED  BY <1>1, <1>2 DEF TableSound

\* What zlog_mdc_get shows is in the pairs, whatever the chains are.
GetMeans ==
  /\ tab = NoTab => \A p \in KvId : kvs[p] = Free
  /\ \A k \in Keys :
       /\ (\A p \in KvId : kvs[p] # Free => kvs[p].key # k) => zlog_mdc_get(k) = NoValue
       /\ \A p \in KvId : kvs[p] # Free /\ kvs[p].key = k => zlog_mdc_get(k) = kvs[p].value

LEMMA GetIs == MdcInv => GetMeans
<1> SUFFICES ASSUME MdcInv PROVE GetMeans
  OBVIOUS
<1>1. /\ {p \in KvId : kvs[p] # Free} = {entries[e].value : e \in Live}
      /\ \A e \in Live : entries[e].key = entries[e].value /\ entries[e].value \in KvId
      /\ \A d, e \in Live : KeyOf(d) = KeyOf(e) => d = e
  BY DEF MdcInv, PairsOwned, Contents
<1>2. ASSUME NEW e \in Live
      PROVE  entries[e].value \in KvId /\ kvs[entries[e].value] # Free
             /\ KeyOf(e) = kvs[entries[e].value].key
  BY <1>1 DEF KeyOf
<1>3. ASSUME NEW p \in KvId, kvs[p] # Free PROVE \E e \in Live : entries[e].value = p
  BY <1>1, <1>3
<1>4. ASSUME tab = NoTab, NEW p \in KvId PROVE kvs[p] = Free
  <2>1. Live = {}
    BY <1>4 DEF MdcInv
  <2> QED  BY <1>3, <2>1
<1>5. ASSUME NEW k \in Keys
      PROVE  /\ (\A p \in KvId : kvs[p] # Free => kvs[p].key # k) => zlog_mdc_get(k) = NoValue
             /\ \A p \in KvId : kvs[p] # Free /\ kvs[p].key = k => zlog_mdc_get(k) = kvs[p].value
  <2>1. CASE tab = NoTab
    <3>1. zlog_mdc_get(k) = NoValue
      BY <2>1 DEF zlog_mdc_get
    <3> QED  BY <1>4, <2>1, <3>1
  <2>2. CASE tab # NoTab
    <3>1. PICK e : e = zc_hashtable_get_entry(k)
      OBVIOUS
    <3>2. /\ e \in Live \union {Nil}
          /\ e # Nil => KeyOf(e) = k
          /\ e = Nil => \A x \in Live : KeyOf(x) # k
      BY <2>2, <3>1, EntryFound
    <3>3. Nil \notin KvId
      BY EntryIds DEF KvId, Nil
    <3>4. CASE e = Nil
      <4>1. zlog_mdc_get(k) = NoValue
        BY <2>2, <3>1, <3>4 DEF zlog_mdc_get, zc_hashtable_get
      <4>2. \A p \in KvId : kvs[p] # Free => kvs[p].key # k
        BY <1>2, <1>3, <3>2, <3>4
      <4> QED  BY <4>1, <4>2
    <3>5. CASE e # Nil
      <4>1. e \in Live /\ KeyOf(e) = k
        BY <3>2, <3>5
      <4>2. PICK q : q = entries[e].value
        OBVIOUS
      <4>3. q \in KvId /\ kvs[q] # Free /\ kvs[q].key = k /\ q # Nil
        BY <1>2, <3>3, <4>1, <4>2
      <4>4. zlog_mdc_get(k) = kvs[q].value
        BY <2>2, <3>1, <3>5, <4>2, <4>3 DEF zlog_mdc_get, zc_hashtable_get
      <4>5. ASSUME NEW p \in KvId, kvs[p] # Free, kvs[p].key = k PROVE p = q
        <5>1. PICK d \in Live : entries[d].value = p
          BY <1>3, <4>5
        <5>2. KeyOf(d) = k
          BY <1>2, <4>5, <5>1
        <5>3. d = e
          BY <1>1, <4>1, <5>2
        <5> QED  BY <4>2, <5>1, <5>3
      <4> QED  BY <4>3, <4>4, <4>5
    <3> QED  BY <3>4, <3>5
  <2> QED  BY <2>1, <2>2
<1> QED  BY <1>4, <1>5 DEF GetMeans

-----------------------------------------------------------------------------
(* The invariant of any table t of n entries, es, and pairs, ks.           *)

ContentsAre(es, ks, A) ==
  /\ ks = [p \in KvId |-> ks[p]]
  /\ \A p \in KvId : ks[p] # Free => ks[p] \in [key : Keys, value : Values]
  /\ \A p \in KvId : ks[p] # Free => \E e \in A : es[e].value = p
  /\ \A e \in A : /\ es[e].value \in KvId /\ ks[es[e].value] # Free
                  /\ es[e].key = es[e].value
                  /\ es[e].hash_key = Hash[ks[es[e].value].key]
  /\ \A d, e \in A : ks[es[d].value].key = ks[es[e].value].key => d = e

TableIs(t, n, es, ks, A) ==
  /\ A \subseteq EntryId
  /\ EntriesAre(es, A)
  /\ ContentsAre(es, ks, A)
  /\ n = Cardinality(A)
  /\ t = NoTab => A = {}
  /\ t # NoTab => \E rank, top : Linked(t, es, Len(t), A, rank, top)

LEMMA EntryIsNotFree ==
  ASSUME NEW r, IsEntry(r)
  PROVE  r # Free
<1>1. DOMAIN r = {"key", "value", "hash_key", "next", "prev"}
  BY DEF IsEntry
<1>2. DOMAIN Free = {}
  BY DEF Free
<1> QED  BY <1>1, <1>2

LEMMA TableOfInv == MdcInv => TableIs(tab, nelem, entries, kvs, Live)
<1> SUFFICES ASSUME MdcInv PROVE TableIs(tab, nelem, entries, kvs, Live)
  OBVIOUS
<1>1. EntriesAre(entries, Live) /\ Contents /\ PairsOwned /\ nelem = Cardinality(Live)
      /\ (tab = NoTab => Live = {})
      /\ (tab # NoTab => \E rank, top : Linked(tab, entries, Len(tab), Live, rank, top))
  BY DEF MdcInv, tab_size
<1>2. ContentsAre(entries, kvs, Live)
  <2>1. ASSUME NEW e \in Live
        PROVE  /\ entries[e].value \in KvId /\ kvs[entries[e].value] # Free
               /\ entries[e].key = entries[e].value
               /\ entries[e].hash_key = Hash[kvs[entries[e].value].key]
               /\ KeyOf(e) = kvs[entries[e].value].key
    BY <1>1, SMTT(30) DEF Contents, PairsOwned, KeyOf
  <2>2. ASSUME NEW p \in KvId, kvs[p] # Free PROVE \E e \in Live : entries[e].value = p
    BY <1>1, <2>2 DEF PairsOwned
  <2>3. \A d, e \in Live : kvs[entries[d].value].key = kvs[entries[e].value].key => d = e
    BY <1>1, <2>1 DEF Contents
  <2>4. kvs = [p \in KvId |-> kvs[p]]
        /\ \A p \in KvId : kvs[p] # Free => kvs[p] \in [key : Keys, value : Values]
    BY <1>1 DEF Contents
  <2> QED  BY <2>1, <2>2, <2>3, <2>4 DEF ContentsAre
<1>3. Live \subseteq EntryId
  BY DEF Live
<1> QED  BY <1>1, <1>2, <1>3 DEF TableIs

LEMMA InvOfTable == \A A : TableIs(tab, nelem, entries, kvs, A) => MdcInv /\ Live = A
<1> SUFFICES ASSUME NEW A, TableIs(tab, nelem, entries, kvs, A) PROVE MdcInv /\ Live = A
  OBVIOUS
<1>1. A \subseteq EntryId /\ EntriesAre(entries, A) /\ ContentsAre(entries, kvs, A)
      /\ nelem = Cardinality(A) /\ (tab = NoTab => A = {})
      /\ (tab # NoTab => \E rank, top : Linked(tab, entries, Len(tab), A, rank, top))
  BY DEF TableIs
<1>2. Live = A
  BY <1>1, EntryIsNotFree DEF Live, EntriesAre
<1>3. ASSUME NEW e \in A
      PROVE  /\ entries[e].value \in KvId /\ kvs[entries[e].value] # Free
             /\ entries[e].key = entries[e].value
             /\ entries[e].hash_key = Hash[KeyOf(e)]
             /\ KeyOf(e) = kvs[entries[e].value].key
  BY <1>1 DEF ContentsAre, KeyOf
<1>4. \A d, e \in A : KeyOf(d) = KeyOf(e) => d = e
  BY <1>1, <1>3 DEF ContentsAre
<1>5. Contents
  BY <1>1, <1>2, <1>3, <1>4 DEF Contents, ContentsAre
<1>6. PairsOwned
  <2>1. {p \in KvId : kvs[p] # Free} = {entries[e].value : e \in A}
    BY <1>1, <1>3 DEF ContentsAre
  <2>2. ASSUME NEW d \in A, NEW e \in A, entries[d].value = entries[e].value PROVE d = e
    BY <1>3, <1>4, <2>2
  <2> QED  BY <1>2, <1>3, <2>1, <2>2 DEF PairsOwned
<1> QED  BY <1>1, <1>2, <1>5, <1>6 DEF MdcInv, tab_size

LEMMA InvOfTableNext == \A A : TableIs(tab', nelem', entries', kvs', A) => MdcInv' /\ Live' = A
<1>1. (\A A : TableIs(tab, nelem, entries, kvs, A) => MdcInv /\ Live = A)'
  BY InvOfTable, PTL
<1> QED  BY <1>1

-----------------------------------------------------------------------------
(* Memory for a new entry and for a new pair: no key has two of them.      *)

LEMMA NewEntryIs ==
  ASSUME MdcInv, NEW k \in Keys, \A x \in Live : KeyOf(x) # k
  PROVE  NewEntry \in EntryId \ Live
<1>1. PICK T : T = {e \in EntryId : entries[e] = Free}
  OBVIOUS
<1>2. T # {}
  <2>1. SUFFICES ASSUME T = {} PROVE FALSE
    OBVIOUS
  <2>2. \A e \in EntryId : e \in Live
    BY <1>1, <2>1 DEF Live
  <2>3. ContentsAre(entries, kvs, Live)
    BY TableOfInv DEF TableIs
  <2>4. ASSUME NEW e \in EntryId PROVE KeyOf(e) \in Keys \ {k}
    <3>1. e \in Live
      BY <2>2
    <3>2. PICK p : p = entries[e].value
      OBVIOUS
    <3>3. p \in KvId /\ kvs[p] # Free /\ entries[e].key = p
      BY <2>3, <3>1, <3>2 DEF ContentsAre
    <3>4. kvs[p] \in [key : Keys, value : Values]
      BY <2>3, <3>3 DEF ContentsAre
    <3>5. kvs[p].key \in Keys
      BY <3>4
    <3> QED  BY <3>1, <3>3, <3>5 DEF KeyOf
  <2>5. IsFiniteSet(Keys \ {k}) /\ Cardinality(Keys \ {k}) = Cardinality(Keys) - 1
    BY MdcAssumption, FS_RemoveElement
  <2>6. PICK c : c = Cardinality(Keys) /\ c \in Nat
    BY EntryIds
  <2>7. IsFiniteSet(EntryId) /\ Cardinality(EntryId) = c
    <3>1. IsFiniteSet(1..c) /\ Cardinality(1..c) = IF 1 > c THEN 0 ELSE c - 1 + 1
      <4>1. 1 \in Int /\ c \in Int
        BY <2>6
      <4> QED  BY <4>1, FS_Interval
    <3>2. (IF 1 > c THEN 0 ELSE c - 1 + 1) = c
      BY <2>6
    <3> QED  BY <2>6, <3>1, <3>2 DEF EntryId
  <2>8. PICK f, S, U : f = [e \in EntryId |-> KeyOf(e)] /\ S = EntryId /\ U = Keys \ {k}
    OBVIOUS
  <2>9. f \in [S -> U] /\ \A e \in S : f[e] = KeyOf(e)
    BY <2>4, <2>8
  <2>10. IsFiniteSet(S) /\ IsFiniteSet(U) /\ Cardinality(U) = c - 1 /\ Cardinality(S) = c
    BY <2>5, <2>6, <2>7, <2>8
  <2>11. Cardinality(U) < Cardinality(S)
    BY <2>6, <2>10
  <2>12. \E x, y \in S : x # y /\ f[x] = f[y]
    BY <2>9, <2>10, <2>11, FS_PigeonHole
  <2>13. PICK x, y \in EntryId : x # y /\ KeyOf(x) = KeyOf(y)
    BY <2>8, <2>9, <2>12
  <2>14. \A d, e \in Live : KeyOf(d) = KeyOf(e) => d = e
    BY DEF MdcInv, Contents
  <2> QED  BY <2>2, <2>13, <2>14
<1>3. T \in SUBSET Nat
  BY <1>1, EntryIds
<1>4. Min(T) \in T
  BY <1>2, <1>3, MinIs
<1>5. NewEntry = Min(T)
  BY <1>1 DEF NewEntry
<1> QED  BY <1>1, <1>4, <1>5 DEF Live

LEMMA NewKvIs ==
  ASSUME MdcInv
  PROVE  NewKv \in KvId /\ kvs[NewKv] = Free
<1>1. PICK T : T = {p \in KvId : kvs[p] = Free}
  OBVIOUS
<1>2. T # {}
  <2>1. SUFFICES ASSUME T = {} PROVE FALSE
    OBVIOUS
  <2>2. \A p \in KvId : kvs[p] # Free
    BY <1>1, <2>1
  <2>3. ContentsAre(entries, kvs, Live)
    BY TableOfInv DEF TableIs
  <2>4. ASSUME NEW p \in KvId PROVE kvs[p].key \in Keys
    <3>1. kvs[p] \in [key : Keys, value : Values]
      BY <2>2, <2>3 DEF ContentsAre
    <3> QED  BY <3>1
  <2>5. PICK c : c = Cardinality(Keys) /\ c \in Nat
    BY EntryIds
  <2>6. IsFiniteSet(KvId) /\ Cardinality(KvId) = c + 1
    <3>1. PICK m : m = c + 1 /\ m \in Nat /\ m >= 1
      BY <2>5
    <3>2. IsFiniteSet(1..m) /\ Cardinality(1..m) = IF 1 > m THEN 0 ELSE m - 1 + 1
      BY <3>1, FS_Interval
    <3>3. (IF 1 > m THEN 0 ELSE m - 1 + 1) = m
      BY <3>1
    <3> QED  BY <2>5, <3>1, <3>2, <3>3 DEF KvId
  <2>7. PICK f, S, U : f = [p \in KvId |-> kvs[p].key] /\ S = KvId /\ U = Keys
    OBVIOUS
  <2>8. f \in [S -> U] /\ \A p \in S : f[p] = kvs[p].key
    BY <2>4, <2>7
  <2>9. IsFiniteSet(S) /\ IsFiniteSet(U) /\ Cardinality(U) = c /\ Cardinality(S) = c + 1
    BY MdcAssumption, <2>5, <2>6, <2>7
  <2>10. Cardinality(U) < Cardinality(S)
    BY <2>5, <2>9
  <2>11. \E x, y \in S : x # y /\ f[x] = f[y]
    BY <2>8, <2>9, <2>10, FS_PigeonHole
  <2>12. PICK x, y \in KvId : x # y /\ kvs[x].key = kvs[y].key
    BY <2>7, <2>8, <2>11
  <2>13. PICK d, e \in Live : entries[d].value = x /\ entries[e].value = y
    BY <2>2, <2>3 DEF ContentsAre
  <2>14. d = e
    BY <2>3, <2>12, <2>13 DEF ContentsAre
  <2> QED  BY <2>12, <2>13, <2>14
<1>3. T \in SUBSET Nat
  BY <1>1, EntryIds DEF KvId
<1>4. Min(T) \in T
  BY <1>2, <1>3, MinIs
<1>5. NewKv = Min(T)
  BY <1>1 DEF NewKv
<1> QED  BY <1>1, <1>4, <1>5

-----------------------------------------------------------------------------
(* Rehashing.                                                              *)

LEMMA EmptyIsLinked ==
  ASSUME NEW es, NEW n \in Nat \ {0}
  PROVE  \E rank, top : Linked(EmptyTab(n), es, n, {}, rank, top)
<1>1. PICK rank : rank = [e \in EntryId |-> 0]
  OBVIOUS
<1>2. rank \in [EntryId -> 0..0]
  BY <1>1
<1>3. EmptyTab(n) \in [1..n -> {} \union {Nil}] /\ \A b \in 1..n : EmptyTab(n)[b] = Nil
  BY DEF EmptyTab
<1>4. Linked(EmptyTab(n), es, n, {}, rank, 0)
  BY <1>2, <1>3 DEF Linked
<1> QED  BY <1>4

\* h are the tables of a rehash while the first m entries are moved.
Moves(h, m, a, order, size) ==
  h = [i \in 0..m |-> IF i = 0 THEN a
                      ELSE PushFront(h[i - 1], order[i],
                                     BucketOf(entries[order[i]].hash_key, size))]

LEMMA MovesExist ==
  ASSUME NEW a, NEW order, NEW size, NEW n \in Nat
  PROVE  \E h : Moves(h, n, a, order, size)
<1> DEFINE T == {m \in Nat : ~\E h : Moves(h, m, a, order, size)}
           Move(t, i) == PushFront(t, order[i], BucketOf(entries[order[i]].hash_key, size))
<1>1. SUFFICES ASSUME T # {} PROVE FALSE
  BY Zenon
<1>2. PICK m \in T : \A k \in T : m <= k
  BY <1>1, LeastNumber
<1>3. m \in Nat /\ ~\E h : Moves(h, m, a, order, size)
  BY <1>2
<1>4. \A h, k : Moves(h, k, a, order, size) <=>
                h = [i \in 0..k |-> IF i = 0 THEN a ELSE Move(h[i - 1], i)]
  BY DEF Moves
<1> HIDE DEF Move
<1>5. m # 0
  <2>1. PICK h : h = [i \in 0..0 |-> a]
    OBVIOUS
  <2>2. h = [i \in 0..0 |-> IF i = 0 THEN a ELSE Move(h[i - 1], i)]
    BY <2>1
  <2> QED  BY <1>3, <1>4, <2>2
<1>6. PICK h : Moves(h, m - 1, a, order, size)
  <2>1. m - 1 \in Nat /\ m - 1 \notin T
    BY <1>2, <1>3, <1>5
  <2> QED  BY <2>1
<1>7. h = [i \in 0..(m - 1) |-> IF i = 0 THEN a ELSE Move(h[i - 1], i)]
  BY <1>4, <1>6
<1>8. PICK f : f = [i \in 0..m |-> IF i = m THEN Move(h[m - 1], m) ELSE h[i]]
  OBVIOUS
<1>9. ASSUME NEW i \in 0..m PROVE f[i] = IF i = 0 THEN a ELSE Move(f[i - 1], i)
  <2>1. CASE i = 0
    BY <1>3, <1>5, <1>7, <1>8, <2>1
  <2>2. CASE i # 0
    <3>1. i - 1 \in 0..(m - 1) /\ i - 1 \in 0..m /\ i - 1 # m
      BY <1>3, <2>2
    <3>2. f[i - 1] = h[i - 1]
      BY <1>8, <3>1
    <3>3. CASE i = m
      BY <1>8, <2>2, <3>2, <3>3
    <3>4. CASE i # m
      <4>1. i \in 0..(m - 1) /\ f[i] = h[i]
        BY <1>3, <1>8, <3>4
      <4> QED  BY <1>7, <2>2, <3>2, <4>1
    <3> QED  BY <3>3, <3>4
  <2> QED  BY <2>1, <2>2
<1>10. f = [i \in 0..m |-> IF i = 0 THEN a ELSE Move(f[i - 1], i)]
  BY <1>8, <1>9
<1> QED  BY <1>3, <1>4, <1>10

\* r is a table of size buckets with the entries of L in it.
Rehashed(r, size, L) ==
  /\ r = [tab |-> r.tab, entries |-> r.entries]
  /\ \E rank, top : Linked(r.tab, r.entries, size, L, rank, top)
  /\ EntriesAre(r.entries, Live) /\ SameData(entries, r.entries)

LEMMA RehashIs ==
  ASSUME MdcInv, tab # NoTab
  PROVE  Rehashed(zc_hashtable_rehash, 2 * tab_size, Live) /\ 2 * tab_size \in Nat \ {0}
<1>1. PICK rank, top : Linked(tab, entries, tab_size, Live, rank, top)
  BY DEF MdcInv
<1>2. PICK n : n = tab_size
  OBVIOUS
<1>3. Linked(tab, entries, n, Live, rank, top) /\ n \in Nat \ {0}
  BY <1>1, <1>2 DEF Linked
<1>4. PICK c : AreChains(c, n) /\ Traversal = Flat(c, n)
  BY <1>2, <1>3, ChainsAre
<1>5. PICK order, size, a : order = Traversal /\ size = 2 * n
                            /\ a = [tab |-> EmptyTab(size), entries |-> entries]
  OBVIOUS
<1>6. /\ order \in Seq(Live)
      /\ \A e \in Live : \E i \in 1..Len(order) : order[i] = e
      /\ \A i, j \in 1..Len(order) : order[i] = order[j] => i = j
  BY <1>3, <1>4, <1>5, OrderIs
<1>7. PICK m : m = Len(order) /\ m \in Nat
  BY <1>6
<1>8. size \in Nat \ {0} /\ size = 2 * tab_size
  BY <1>2, <1>3, <1>5
<1> DEFINE h == CHOOSE h_1 : h_1 = [i \in 0..m |-> IF i = 0 THEN a
                               ELSE PushFront(h_1[i - 1], order[i],
                                              BucketOf(entries[order[i]].hash_key, size))]
<1>9. zc_hashtable_rehash = h[m]
  BY <1>5, <1>7, <1>8 DEF zc_hashtable_rehash
<1>10. Moves(h, m, a, order, size)
  <2>1. \E k : Moves(k, m, a, order, size)
    BY <1>7, MovesExist
  <2> QED  BY <2>1 DEF Moves
<1> HIDE DEF h
<1> DEFINE First(i) == {order[j] : j \in 1..i}
           U == {i \in 0..m : ~Rehashed(h[i], size, First(i))}
<1>11. /\ h[0] = a
       /\ \A i \in 1..m : h[i] = PushFront(h[i - 1], order[i],
                                           BucketOf(entries[order[i]].hash_key, size))
  BY <1>7, <1>10 DEF Moves
<1>12. EntriesAre(entries, Live)
  BY DEF MdcInv
<1>13. Rehashed(h[0], size, First(0))
  <2>1. First(0) = {}
    OBVIOUS
  <2>2. \E x, y : Linked(EmptyTab(size), entries, size, {}, x, y)
    BY <1>8, EmptyIsLinked
  <2>3. SameData(entries, entries)
    BY DEF SameData
  <2>4. h[0].tab = EmptyTab(size) /\ h[0].entries = entries
        /\ h[0] = [tab |-> h[0].tab, entries |-> h[0].entries]
    BY <1>5, <1>11
  <2> HIDE DEF First
  <2> QED  BY <1>12, <2>1, <2>2, <2>3, <2>4 DEF Rehashed
<1>14. ASSUME NEW i \in 1..m, Rehashed(h[i - 1], size, First(i - 1))
       PROVE  Rehashed(h[i], size, First(i))
  <2>1. PICK t, es, L, e, b, rk, tp :
          /\ h[i - 1] = [tab |-> t, entries |-> es] /\ L = First(i - 1) /\ e = order[i]
          /\ Linked(t, es, size, L, rk, tp)
          /\ EntriesAre(es, Live) /\ SameData(entries, es)
          /\ b = BucketOf(entries[e].hash_key, size)
    BY <1>14 DEF Rehashed
  <2>2. e \in Live /\ e \in EntryId
    BY <1>6, <1>7, <2>1 DEF Live
  <2>3. e \notin L /\ L \subseteq Live
    <3>1. ASSUME NEW j \in 1..(i - 1) PROVE order[j] # e /\ order[j] \in Live
      <4>1. j \in 1..m /\ j # i
        BY <1>7
      <4> QED  BY <1>6, <1>7, <2>1, <4>1
    <3> QED  BY <2>1, <3>1
  <2>4. PICK hk : hk = entries[e].hash_key /\ hk \in Nat /\ es[e].hash_key = hk
    BY <1>3, <2>1, <2>2 DEF Linked, SameData
  <2>5. PICK r : r = PushFront([tab |-> t, entries |-> es], e, b)
    OBVIOUS
  <2>6. PushedIs(r, es, size, L, e, Live)
    <3>1. b = BucketOf(hk, size)
      BY <2>1, <2>4
    <3>2. PushedIs(PushFront([tab |-> t, entries |-> es], e, b), es, size, L, e, Live)
      BY <2>1, <2>2, <2>3, <2>4, <3>1, Pushed, Zenon
    <3> QED  BY <2>5, <3>2
  <2>7. h[i] = r
    BY <1>11, <2>1, <2>5
  <2>8. First(i) = L \union {e}
    <3>1. \A j \in 1..i : j \in 1..(i - 1) \/ j = i
      BY <1>7
    <3>2. i \in 1..i /\ \A j \in 1..(i - 1) : j \in 1..i
      BY <1>7
    <3> QED  BY <2>1, <3>1, <3>2
  <2>9. SameData(entries, r.entries)
    BY <2>1, <2>6 DEF SameData, PushedIs
  <2> HIDE DEF First
  <2> QED  BY <2>6, <2>7, <2>8, <2>9 DEF Rehashed, PushedIs
<1>15. U = {}
  <2>1. SUFFICES ASSUME U # {} PROVE FALSE
    OBVIOUS
  <2>2. U \in SUBSET Nat
    BY <1>7
  <2>3. PICK i \in U : \A j \in U : i <= j
    BY <2>1, <2>2, LeastNumber
  <2> HIDE DEF First
  <2>4. i \in 0..m /\ ~Rehashed(h[i], size, First(i))
    BY <2>3
  <2>5. i # 0
    BY <1>13, <2>4
  <2>6. i \in 1..m /\ i - 1 \in 0..m /\ ~(i <= i - 1)
    BY <1>7, <2>4, <2>5
  <2>7. Rehashed(h[i - 1], size, First(i - 1))
    BY <2>3, <2>6
  <2> QED  BY <1>14, <2>4, <2>6, <2>7
<1>16. First(m) = Live
  BY <1>6, <1>7
<1>17. Rehashed(h[m], size, First(m))
  <2> HIDE DEF First
  <2>1. m \in 0..m
    BY <1>7
  <2> QED  BY <1>15, <2>1
<1> QED  BY <1>8, <1>9, <1>16, <1>17

-----------------------------------------------------------------------------
(* The operations keep the invariant.                                      *)

\* Only the data of the entries differ.
LEMMA LinksStay ==
  ASSUME NEW t, NEW es, NEW fs, NEW n, NEW L, NEW rank, NEW top, Linked(t, es, n, L, rank, top),
         \A e \in L : fs[e].hash_key = es[e].hash_key /\ fs[e].next = es[e].next
                      /\ fs[e].prev = es[e].prev
  PROVE  Linked(t, fs, n, L, rank, top)
<1>1. /\ n \in Nat \ {0} /\ top \in Nat /\ rank \in [EntryId -> 0..top]
      /\ L \subseteq EntryId /\ t \in [1..n -> L \union {Nil}]
  BY DEF Linked
<1>2. ASSUME NEW b \in 1..n, t[b] # Nil
      PROVE  fs[t[b]].prev = Nil /\ BucketOf(fs[t[b]].hash_key, n) = b
  <2>1. PICK e : e = t[b] /\ e \in L
    BY <1>1, <1>2
  <2>2. es[e].prev = Nil /\ BucketOf(es[e].hash_key, n) = b
    BY <1>2, <2>1 DEF Linked
  <2> QED  BY <2>1, <2>2
<1>3. ASSUME NEW e \in L
      PROVE  /\ fs[e].hash_key \in Nat
             /\ fs[e].next \in L \union {Nil} /\ fs[e].prev \in L \union {Nil}
             /\ fs[e].next # Nil => /\ fs[fs[e].next].prev = e
                                    /\ BucketOf(fs[fs[e].next].hash_key, n) = BucketOf(fs[e].hash_key, n)
                                    /\ rank[fs[e].next] < rank[e]
             /\ fs[e].prev # Nil => fs[fs[e].prev].next = e
             /\ fs[e].prev = Nil => t[BucketOf(fs[e].hash_key, n)] = e
  <2>1. /\ es[e].hash_key \in Nat
        /\ es[e].next \in L \union {Nil} /\ es[e].prev \in L \union {Nil}
        /\ es[e].next # Nil => /\ es[es[e].next].prev = e
                               /\ BucketOf(es[es[e].next].hash_key, n) = BucketOf(es[e].hash_key, n)
                               /\ rank[es[e].next] < rank[e]
        /\ es[e].prev # Nil => es[es[e].prev].next = e
        /\ es[e].prev = Nil => t[BucketOf(es[e].hash_key, n)] = e
    BY DEF Linked
  <2> QED  BY <2>1
<1> QED  BY <1>1, <1>2, <1>3 DEF Linked

LEMMA ContentsStay ==
  ASSUME NEW es, NEW fs, NEW ks, NEW A, ContentsAre(es, ks, A), A \subseteq EntryId,
         SameData(es, fs)
  PROVE  ContentsAre(fs, ks, A)
<1>1. \A e \in A : fs[e].key = es[e].key /\ fs[e].value = es[e].value
                   /\ fs[e].hash_key = es[e].hash_key
  BY DEF SameData
<1> QED  BY <1>1 DEF ContentsAre

LEMMA LiveIsFinite == IsFiniteSet(Live) /\ Cardinality(Live) \in Nat
<1>1. PICK c : c = Cardinality(Keys) /\ c \in Int
  BY EntryIds
<1>2. IsFiniteSet(1..c)
  <2>1. 1 \in Int
    OBVIOUS
  <2> QED  BY <1>1, <2>1, FS_Interval
<1>3. IsFiniteSet(EntryId) /\ Live \in SUBSET EntryId
  BY <1>1, <1>2 DEF EntryId, Live
<1>4. IsFiniteSet(Live)
  BY <1>3, FS_Subset
<1> QED  BY <1>4, FS_CardinalityType

LEMMA InitHasInv == MdcInit => MdcInv
<1> SUFFICES ASSUME MdcInit PROVE MdcInv
  OBVIOUS
<1>1. EntriesAre(entries, {})
  BY DEF MdcInit, EntriesAre
<1>2. ContentsAre(entries, kvs, {})
  BY DEF MdcInit, ContentsAre
<1>3. TableIs(tab, nelem, entries, kvs, {})
  BY <1>1, <1>2, FS_EmptySet DEF MdcInit, TableIs
<1> QED  BY <1>3, InvOfTable

LEMMA NewKeeps ==
  ASSUME MdcInv, zlog_mdc_new
  PROVE  MdcInv'
<1>1. Live = {} /\ TableIs(tab, nelem, entries, kvs, {})
  BY TableOfInv DEF zlog_mdc_new, MdcInv
<1>2. EntriesAre(entries, {}) /\ ContentsAre(entries, kvs, {}) /\ nelem = Cardinality({})
  BY <1>1 DEF TableIs
<1>3. tab' = NoTab \/ tab' = EmptyTab(TabSize)
  BY DEF zlog_mdc_new
<1>4. tab' # NoTab => \E rank, top : Linked(tab', entries, Len(tab'), {}, rank, top)
  <2>1. SUFFICES ASSUME tab' = EmptyTab(TabSize)
                 PROVE  \E rank, top : Linked(tab', entries, Len(tab'), {}, rank, top)
    BY <1>3
  <2>2. TabSize \in Nat \ {0}
    BY MdcAssumption
  <2>3. \E rank, top : Linked(EmptyTab(TabSize), entries, TabSize, {}, rank, top)
    BY <2>2, EmptyIsLinked
  <2>4. Len(EmptyTab(TabSize)) = TabSize
    BY <2>2 DEF EmptyTab
  <2> QED  BY <2>1, <2>3, <2>4
<1>5. TableIs(tab', nelem', entries', kvs', {})
  BY <1>2, <1>4 DEF zlog_mdc_new, TableIs
<1> QED  BY <1>5, InvOfTableNext

LEMMA ReplaceKeeps ==
  ASSUME MdcInv, tab # NoTab, NEW k \in Keys, NEW v \in Values, NEW e \in Live, KeyOf(e) = k,
         NEW p \in KvId, kvs[p] = Free, NEW new, new = [kvs EXCEPT ![p] = [key |-> k, value |-> v]],
         Replace(e, p, new)
  PROVE  MdcInv'
<1>1. PICK es, fs, ks, ls, A, q : es = entries /\ fs = entries' /\ ks = kvs /\ ls = kvs' /\ A = Live
                                  /\ q = entries[e].value
  OBVIOUS
<1>2. A \subseteq EntryId /\ EntriesAre(es, A) /\ ContentsAre(es, ks, A)
  BY <1>1, TableOfInv DEF TableIs
<1>3. PICK rank, top : Linked(tab, es, Len(tab), A, rank, top)
  BY <1>1, TableOfInv DEF TableIs
<1>4. q \in KvId /\ q # p /\ ks[q] # Free /\ ks[q].key = k /\ es[e].hash_key = Hash[k]
  <2>1. q \in KvId /\ ks[q] # Free /\ es[e].key = q /\ es[e].hash_key = Hash[ks[q].key]
    BY <1>1, <1>2 DEF ContentsAre
  <2> QED  BY <1>1, <2>1 DEF KeyOf
<1>5. e \in EntryId /\ IsEntry(es[e]) /\ es = [x \in EntryId |-> es[x]]
  BY <1>1, <1>2 DEF EntriesAre
<1>6. fs = [es EXCEPT ![e].key = p, ![e].value = p]
      /\ ls = [[ks EXCEPT ![p] = [key |-> k, value |-> v]] EXCEPT ![q] = Free]
  BY <1>1 DEF Replace
<1>7. /\ fs[e] = [key |-> p, value |-> p, hash_key |-> es[e].hash_key,
                  next |-> es[e].next, prev |-> es[e].prev]
      /\ \A x \in EntryId : x # e => fs[x] = es[x]
      /\ fs = [x \in EntryId |-> fs[x]]
  <2>1. fs[e] = [[es[e] EXCEPT !.key = p] EXCEPT !.value = p]
        /\ (\A x \in EntryId : x # e => fs[x] = es[x])
        /\ fs = [x \in EntryId |-> fs[x]]
    BY <1>5, <1>6
  <2> QED  BY <1>5, <2>1 DEF IsEntry
<1>8. EntriesAre(fs, A)
  <2>1. IsEntry(fs[e])
    BY <1>7 DEF IsEntry
  <2> QED  BY <1>1, <1>2, <1>7, <2>1 DEF EntriesAre
<1>9. Linked(tab, fs, Len(tab), A, rank, top)
  <2>1. \A x \in A : fs[x].hash_key = es[x].hash_key /\ fs[x].next = es[x].next
                     /\ fs[x].prev = es[x].prev
    BY <1>2, <1>7
  <2> QED  BY <1>3, <2>1, LinksStay
<1>10. ks = [x \in KvId |-> ks[x]]
  BY <1>2 DEF ContentsAre
<1>11. /\ ls = [x \in KvId |-> ls[x]] /\ ls[p] = [key |-> k, value |-> v] /\ ls[q] = Free
       /\ \A x \in KvId : x # p /\ x # q => ls[x] = ks[x]
  <2>1. PICK ms : ms = [ks EXCEPT ![p] = [key |-> k, value |-> v]]
    OBVIOUS
  <2>2. ms = [x \in KvId |-> ms[x]] /\ ms[p] = [key |-> k, value |-> v]
        /\ \A x \in KvId : x # p => ms[x] = ks[x]
    BY <1>10, <2>1
  <2>3. ls = [ms EXCEPT ![q] = Free]
    BY <1>6, <2>1
  <2> QED  BY <1>4, <2>2, <2>3
<1>12. PICK rec : rec = [key |-> k, value |-> v]
  OBVIOUS
<1>13. rec \in [key : Keys, value : Values] /\ rec.key = k /\ rec # Free /\ ls[p] = rec
  <2>1. DOMAIN rec = {"key", "value"} /\ DOMAIN Free = {}
    BY <1>12 DEF Free
  <2>2. rec # Free
    BY <2>1
  <2> QED  BY <1>11, <1>12, <2>2
<1>14. ASSUME NEW d \in A, d # e
       PROVE  /\ fs[d] = es[d] /\ fs[d].value \in KvId /\ fs[d].value # p /\ fs[d].value # q
              /\ ls[fs[d].value] = ks[fs[d].value] /\ ks[fs[d].value] # Free
              /\ ks[fs[d].value].key # k
              /\ fs[d].key = fs[d].value /\ fs[d].hash_key = Hash[ks[fs[d].value].key]
  <2>1. PICK x : x = es[d].value
    OBVIOUS
  <2>2. fs[d] = es[d]
    BY <1>2, <1>7, <1>14
  <2>3. x \in KvId /\ ks[x] # Free /\ es[d].key = x /\ es[d].hash_key = Hash[ks[x].key]
    BY <1>2, <2>1 DEF ContentsAre
  <2>4. ks[x].key # k
    BY <1>1, <1>2, <1>4, <1>14, <2>1 DEF ContentsAre
  <2>5. x # p /\ x # q
    BY <1>1, <1>4, <2>3, <2>4
  <2> QED  BY <1>11, <2>1, <2>2, <2>3, <2>4, <2>5
<1>15. fs[e].value = p /\ fs[e].key = p /\ fs[e].hash_key = Hash[k] /\ ls[p].key = k
  BY <1>4, <1>7, <1>13
<1>16. ContentsAre(fs, ls, A)
  <2>1. ASSUME NEW x \in KvId, ls[x] # Free
        PROVE  ls[x] \in [key : Keys, value : Values] /\ \E d \in A : fs[d].value = x
    <3>1. CASE x = p
      BY <1>1, <1>13, <1>15, <3>1
    <3>2. CASE x # p
      <4>1. x # q /\ ls[x] = ks[x]
        BY <1>11, <2>1, <3>2
      <4>2. ks[x] \in [key : Keys, value : Values]
        BY <1>2, <2>1, <4>1 DEF ContentsAre
      <4>3. PICK d \in A : es[d].value = x
        BY <1>2, <2>1, <4>1 DEF ContentsAre
      <4>4. d # e
        BY <1>1, <4>1, <4>3
      <4> QED  BY <1>14, <4>1, <4>2, <4>3, <4>4
    <3> QED  BY <3>1, <3>2
  <2>2. ASSUME NEW d \in A
        PROVE  /\ fs[d].value \in KvId /\ ls[fs[d].value] # Free
               /\ fs[d].key = fs[d].value
               /\ fs[d].hash_key = Hash[ls[fs[d].value].key]
    <3>1. CASE d = e
      BY <1>13, <1>15, <3>1
    <3>2. CASE d # e
      BY <1>14, <3>2
    <3> QED  BY <3>1, <3>2
  <2>3. ASSUME NEW c \in A, NEW d \in A, ls[fs[c].value].key = ls[fs[d].value].key
        PROVE  c = d
    <3>1. CASE c = e /\ d = e
      BY <3>1
    <3>2. CASE c = e /\ d # e
      BY <1>14, <1>15, <2>3, <3>2
    <3>3. CASE c # e /\ d = e
      BY <1>14, <1>15, <2>3, <3>3
    <3>4. CASE c # e /\ d # e
      <4>1. ks[es[c].value].key = ks[es[d].value].key
        BY <1>14, <2>3, <3>4
      <4> QED  BY <1>2, <4>1 DEF ContentsAre
    <3> QED  BY <3>1, <3>2, <3>3, <3>4
  <2> QED  BY <1>11, <2>1, <2>2, <2>3 DEF ContentsAre
<1>17. tab' = tab /\ nelem' = nelem /\ nelem = Cardinality(A)
  BY <1>1 DEF Replace, MdcInv
<1>18. TableIs(tab', nelem', entries', kvs', A)
  BY <1>1, <1>2, <1>8, <1>9, <1>16, <1>17 DEF TableIs
<1> QED  BY <1>18, InvOfTableNext

\* The table before a new entry comes in, and with the entry of the pair p.
Grown == IF Crowded THEN zc_hashtable_rehash ELSE [tab |-> tab, entries |-> entries]

WithEntry(g, k, p) ==
  PushFront([g EXCEPT !.entries[NewEntry] = [key |-> p, value |-> p, hash_key |-> Hash[k],
                                             next |-> Nil, prev |-> Nil]],
            NewEntry, BucketOf(Hash[k], Len(g.tab)))

LEMMA GrownIs ==
  ASSUME MdcInv, tab # NoTab,
         NEW g, g = Grown
  PROVE  Rehashed(g, Len(g.tab), Live) /\ g.tab # NoTab
<1>1. PICK n : n \in Nat \ {0} /\ Rehashed(g, n, Live)
  <2>1. CASE Crowded
    <3>1. PICK n : n = 2 * tab_size
      OBVIOUS
    <3> QED  BY <2>1, <3>1, RehashIs DEF Grown
  <2>2. CASE ~Crowded
    <3>1. PICK n : n = tab_size
      OBVIOUS
    <3>2. PICK rank, top : Linked(tab, entries, n, Live, rank, top)
      BY <3>1 DEF MdcInv
    <3>3. n \in Nat \ {0}
      BY <3>2 DEF Linked
    <3>4. g.tab = tab /\ g.entries = entries /\ g = [tab |-> g.tab, entries |-> g.entries]
      BY <2>2 DEF Grown
    <3>5. EntriesAre(entries, Live) /\ SameData(entries, entries)
      BY DEF MdcInv, SameData
    <3>6. Rehashed(g, n, Live)
      BY <3>2, <3>4, <3>5 DEF Rehashed
    <3> QED  BY <3>3, <3>6
  <2> QED  BY <2>1, <2>2
<1>2. PICK t, S : t = g.tab /\ S = Live \union {Nil} /\ t \in [1..n -> S]
  BY <1>1 DEF Rehashed, Linked
<1>3. Len(t) = n /\ t # NoTab
  <2>1. t \in Seq(S) /\ Len(t) = n
    BY <1>1, <1>2
  <2> QED  BY <1>1, <2>1 DEF NoTab
<1> QED  BY <1>1, <1>2, <1>3

\* What Insert leaves behind: nothing, a larger table, or a new first entry.
LEMMA InsertCases ==
  \A k, p, new, g, r :
    Insert(k, p, new) /\ g = Grown /\ r = WithEntry(g, k, p) =>
      \/ UNCHANGED mdcVars
      \/ tab' = g.tab /\ entries' = g.entries /\ nelem' = nelem /\ kvs' = kvs
      \/ tab' = r.tab /\ entries' = r.entries /\ nelem' = nelem + 1 /\ kvs' = new
<1> SUFFICES ASSUME NEW k, NEW p, NEW new, Insert(k, p, new), NEW g, g = Grown,
                    NEW r, r = WithEntry(g, k, p)
             PROVE  \/ UNCHANGED mdcVars
                    \/ tab' = g.tab /\ entries' = g.entries /\ nelem' = nelem /\ kvs' = kvs
                    \/ tab' = r.tab /\ entries' = r.entries /\ nelem' = nelem + 1 /\ kvs' = new
  OBVIOUS
<1>1. PICK rehashed \in Chances, ok \in Chances :
        CASE Crowded /\ ~rehashed -> UNCHANGED mdcVars
          [] (~Crowded \/ rehashed) /\ ~ok ->
               tab' = g.tab /\ entries' = g.entries /\ UNCHANGED <<nelem, kvs>>
          [] (~Crowded \/ rehashed) /\ ok ->
               /\ tab' = r.tab /\ entries' = r.entries
               /\ nelem' = nelem + 1
               /\ kvs' = new
  BY DEF Insert, Grown, WithEntry
<1>2. rehashed \in BOOLEAN /\ ok \in BOOLEAN
  BY DEF Chances
<1>3. CASE Crowded /\ ~rehashed
  BY <1>1, <1>3
<1>4. CASE (~Crowded \/ rehashed) /\ ~ok
  BY <1>1, <1>4
<1>5. CASE (~Crowded \/ rehashed) /\ ok
  BY <1>1, <1>5
<1> QED  BY <1>2, <1>3, <1>4, <1>5

LEMMA InsertKeeps ==
  ASSUME MdcInv, tab # NoTab, NEW k \in Keys, NEW v \in Values, \A x \in Live : KeyOf(x) # k,
         NEW p \in KvId, kvs[p] = Free, NEW new, new = [kvs EXCEPT ![p] = [key |-> k, value |-> v]],
         Insert(k, p, new)
  PROVE  MdcInv'
<1>1. PICK g : g = Grown
  OBVIOUS
<1>2. PICK r : r = WithEntry(g, k, p)
  OBVIOUS
<1>3. \/ UNCHANGED mdcVars
      \/ tab' = g.tab /\ entries' = g.entries /\ nelem' = nelem /\ kvs' = kvs
      \/ tab' = r.tab /\ entries' = r.entries /\ nelem' = nelem + 1 /\ kvs' = new
  BY <1>1, <1>2, InsertCases
<1>4. PICK A, t, es, n : A = Live /\ t = g.tab /\ es = g.entries /\ n = Len(g.tab)
  OBVIOUS
<1>5. Rehashed(g, n, Live) /\ t # NoTab
  BY <1>1, <1>4, GrownIs
<1>6. g = [tab |-> t, entries |-> es] /\ EntriesAre(es, A) /\ SameData(entries, es)
  BY <1>4, <1>5 DEF Rehashed
<1>7. PICK rank, top : Linked(t, es, n, A, rank, top)
  BY <1>4, <1>5 DEF Rehashed
<1>8. A \subseteq EntryId /\ nelem = Cardinality(A) /\ ContentsAre(entries, kvs, A)
  BY <1>4, TableOfInv DEF TableIs
<1>9. ContentsAre(es, kvs, A)
  BY <1>6, <1>8, ContentsStay
<1>10. CASE UNCHANGED mdcVars
  <2>1. tab' = tab /\ nelem' = nelem /\ entries' = entries /\ kvs' = kvs
    BY <1>10 DEF mdcVars
  <2>2. TableIs(tab', nelem', entries', kvs', A)
    BY <1>4, <2>1, TableOfInv
  <2> QED  BY <2>2, InvOfTableNext
<1>11. CASE tab' = g.tab /\ entries' = g.entries /\ nelem' = nelem /\ kvs' = kvs
  <2>1. TableIs(tab', nelem', entries', kvs', A)
    BY <1>4, <1>5, <1>6, <1>7, <1>8, <1>9, <1>11 DEF TableIs
  <2> QED  BY <2>1, InvOfTableNext
<1>12. CASE tab' = r.tab /\ entries' = r.entries /\ nelem' = nelem + 1 /\ kvs' = new
  <2>1. PICK e, rec : e = NewEntry /\ rec = [key |-> p, value |-> p, hash_key |-> Hash[k],
                                             next |-> Nil, prev |-> Nil]
    OBVIOUS
  <2>2. e \in EntryId /\ e \notin A
    BY <1>4, <2>1, NewEntryIs
  <2>3. PICK hs : hs = [es EXCEPT ![e] = rec]
    OBVIOUS
  <2>4. [g EXCEPT !.entries[NewEntry] = rec] = [tab |-> t, entries |-> hs]
    BY <1>6, <2>1, <2>3
  <2>5. PICK B, h : B = A \union {e} /\ h = Hash[k] /\ h \in Nat
    BY MdcAssumption
  <2>6. IsEntry(rec) /\ rec.hash_key = h /\ rec.key = p /\ rec.value = p
    BY <2>1, <2>5 DEF IsEntry
  <2>7. hs = [x \in EntryId |-> hs[x]] /\ hs[e] = rec /\ \A x \in EntryId : x # e => hs[x] = es[x]
    BY <1>6, <2>2, <2>3 DEF EntriesAre
  <2>8. EntriesAre(hs, B)
    BY <1>6, <2>2, <2>5, <2>6, <2>7 DEF EntriesAre
  <2>9. Linked(t, hs, n, A, rank, top)
    <3>1. \A x \in A : hs[x].hash_key = es[x].hash_key /\ hs[x].next = es[x].next
                       /\ hs[x].prev = es[x].prev
      BY <1>8, <2>2, <2>7
    <3> QED  BY <1>7, <3>1, LinksStay
  <2>10. PICK b : b = BucketOf(h, n)
    OBVIOUS
  <2>11. r = PushFront([tab |-> t, entries |-> hs], e, b)
    BY <1>2, <1>4, <2>1, <2>4, <2>5, <2>10 DEF WithEntry
  <2>12. PushedIs(PushFront([tab |-> t, entries |-> hs], e, b), hs, n, A, e, B)
    <3>1. A \subseteq B /\ e \in B /\ hs[e].hash_key = h
      BY <2>5, <2>6, <2>7
    <3> QED  BY <2>2, <2>5, <2>8, <2>9, <2>10, <3>1, Pushed, Zenon
  <2>13. PICK u, fs : u = r.tab /\ fs = r.entries
    OBVIOUS
  <2>14. /\ \E rank2, top2 : Linked(u, fs, n, B, rank2, top2)
         /\ EntriesAre(fs, B) /\ SameData(hs, fs)
    BY <2>5, <2>11, <2>12, <2>13 DEF PushedIs
  <2>15. Len(u) = n
    <3>1. PICK S : u \in [1..n -> S] /\ n \in Nat
      BY <2>14 DEF Linked
    <3> QED  BY <3>1
  <2>16. kvs = [x \in KvId |-> kvs[x]]
    BY <1>8 DEF ContentsAre
  <2>17. PICK kv, ks : kv = [key |-> k, value |-> v] /\ ks = kvs
    OBVIOUS
  <2>18. kv \in [key : Keys, value : Values] /\ kv.key = k /\ kv # Free
    <3>1. DOMAIN kv = {"key", "value"} /\ DOMAIN Free = {}
      BY <2>17 DEF Free
    <3>2. kv # Free
      BY <3>1
    <3> QED  BY <2>17, <3>2
  <2>19. /\ new = [x \in KvId |-> new[x]] /\ new[p] = kv
         /\ \A x \in KvId : x # p => new[x] = ks[x]
    BY <2>16, <2>17
  <2>20. ASSUME NEW d \in A
         PROVE  /\ d # e /\ hs[d] = es[d] /\ hs[d].value \in KvId /\ hs[d].value # p
                /\ new[hs[d].value] = ks[hs[d].value] /\ ks[hs[d].value] # Free
                /\ ks[hs[d].value].key # k
                /\ hs[d].key = hs[d].value /\ hs[d].hash_key = Hash[ks[hs[d].value].key]
    <3>1. PICK x : x = es[d].value
      OBVIOUS
    <3>2. d # e /\ d \in EntryId /\ hs[d] = es[d]
      BY <1>8, <2>2, <2>7
    <3>3. x \in KvId /\ ks[x] # Free /\ es[d].key = x /\ es[d].hash_key = Hash[ks[x].key]
      BY <1>9, <2>17, <3>1 DEF ContentsAre
    <3>4. entries[d].key = x
      BY <1>6, <3>2, <3>3 DEF SameData
    <3>5. ks[x].key # k
      BY <1>4, <2>17, <3>4 DEF KeyOf
    <3>6. x # p
      BY <2>17, <3>3
    <3> QED  BY <2>19, <3>1, <3>2, <3>3, <3>5, <3>6
  <2>21. hs[e].value = p /\ hs[e].key = p /\ hs[e].hash_key = Hash[k] /\ new[p].key = k
    BY <2>5, <2>6, <2>7, <2>18, <2>19
  <2>22. ContentsAre(hs, new, B)
    <3>1. ASSUME NEW x \in KvId, new[x] # Free
          PROVE  new[x] \in [key : Keys, value : Values] /\ \E d \in B : hs[d].value = x
      <4>1. CASE x = p
        BY <2>5, <2>18, <2>19, <2>21, <4>1
      <4>2. CASE x # p
        <5>1. new[x] = ks[x]
          BY <2>19, <4>2
        <5>2. ks[x] \in [key : Keys, value : Values]
          BY <1>9, <2>17, <3>1, <5>1 DEF ContentsAre
        <5>3. PICK d \in A : es[d].value = x
          BY <1>9, <2>17, <3>1, <5>1 DEF ContentsAre
        <5> QED  BY <2>5, <2>20, <5>1, <5>2, <5>3
      <4> QED  BY <4>1, <4>2
    <3>2. ASSUME NEW d \in B
          PROVE  /\ hs[d].value \in KvId /\ new[hs[d].value] # Free
                 /\ hs[d].key = hs[d].value
                 /\ hs[d].hash_key = Hash[new[hs[d].value].key]
      <4>1. CASE d = e
        BY <2>18, <2>19, <2>21, <4>1
      <4>2. CASE d \in A
        BY <2>20, <4>2
      <4> QED  BY <2>5, <4>1, <4>2
    <3>3. ASSUME NEW c \in B, NEW d \in B, new[hs[c].value].key = new[hs[d].value].key
          PROVE  c = d
      <4>1. CASE c = e /\ d = e
        BY <4>1
      <4>2. CASE c = e /\ d \in A
        BY <2>20, <2>21, <3>3, <4>2
      <4>3. CASE c \in A /\ d = e
        BY <2>20, <2>21, <3>3, <4>3
      <4>4. CASE c \in A /\ d \in A
        <5>1. ks[es[c].value].key = ks[es[d].value].key
          BY <2>20, <3>3, <4>4
        <5> QED  BY <1>9, <2>17, <4>4, <5>1 DEF ContentsAre
      <4> QED  BY <2>5, <4>1, <4>2, <4>3, <4>4
    <3> QED  BY <2>19, <3>1, <3>2, <3>3 DEF ContentsAre
  <2>23. B \subseteq EntryId
    BY <1>8, <2>2, <2>5
  <2>24. ContentsAre(fs, new, B)
    BY <2>14, <2>22, <2>23, ContentsStay
  <2>25. nelem + 1 = Cardinality(B)
    <3>1. IsFiniteSet(A) /\ e \notin A
      BY <1>4, <2>2, LiveIsFinite
    <3>2. Cardinality(A \cup {e}) = IF e \in A THEN Cardinality(A) ELSE Cardinality(A) + 1
      BY <3>1, FS_AddElement
    <3> QED  BY <1>8, <2>5, <3>1, <3>2
  <2>26. u # NoTab
    <3>1. n \in Nat \ {0}
      BY <1>7 DEF Linked
    <3> QED  BY <2>15, <3>1 DEF NoTab
  <2>27. TableIs(u, nelem + 1, fs, new, B)
    BY <2>14, <2>15, <2>23, <2>24, <2>25, <2>26 DEF TableIs
  <2>28. TableIs(tab', nelem', entries', kvs', B)
    BY <1>12, <2>13, <2>27
  <2> QED  BY <2>28, InvOfTableNext
<1> QED  BY <1>3, <1>10, <1>11, <1>12

LEMMA PutKeeps ==
  ASSUME MdcInv, NEW k \in Keys, NEW v \in Values, zlog_mdc_put(k, v)
  PROVE  MdcInv'
<1>1. PICK p, new, e : p = NewKv /\ new = [kvs EXCEPT ![p] = [key |-> k, value |-> v]]
                       /\ e = zc_hashtable_get_entry(k)
  OBVIOUS
<1>2. tab # NoTab
  BY DEF zlog_mdc_put
<1>3. p \in KvId /\ kvs[p] = Free
  BY <1>1, NewKvIs
<1>4. /\ e \in Live \union {Nil}
      /\ e # Nil => KeyOf(e) = k
      /\ e = Nil => \A x \in Live : KeyOf(x) # k
  BY <1>1, <1>2, EntryFound
<1>5. UNCHANGED mdcVars \/ (e # Nil /\ Replace(e, p, new)) \/ (e = Nil /\ Insert(k, p, new))
  BY <1>1 DEF zlog_mdc_put
<1>6. CASE UNCHANGED mdcVars
  <2>1. tab' = tab /\ nelem' = nelem /\ entries' = entries /\ kvs' = kvs
    BY <1>6 DEF mdcVars
  <2>2. PICK A : TableIs(tab', nelem', entries', kvs', A)
    BY <2>1, TableOfInv
  <2> QED  BY <2>2, InvOfTableNext
<1>7. CASE e # Nil /\ Replace(e, p, new)
  <2>1. e \in Live /\ KeyOf(e) = k
    BY <1>4, <1>7
  <2> QED  BY <1>1, <1>2, <1>3, <1>7, <2>1, ReplaceKeeps
<1>8. CASE e = Nil /\ Insert(k, p, new)
  BY <1>1, <1>2, <1>3, <1>4, <1>8, InsertKeeps
<1> QED  BY <1>5, <1>6, <1>7, <1>8

LEMMA RemoveKeeps ==
  ASSUME MdcInv, NEW k \in Keys, zlog_mdc_remove(k)
  PROVE  MdcInv'
<1>1. PICK e : e = zc_hashtable_get_entry(k)
  OBVIOUS
<1>2. tab # NoTab /\ e # Nil
  BY <1>1 DEF zlog_mdc_remove
<1>3. e \in Live
  BY <1>1, <1>2, EntryFound
<1>4. PICK es, ks, A, B, n, q, u, fs :
        /\ es = entries /\ ks = kvs /\ A = Live /\ B = Live \ {e} /\ n = tab_size
        /\ q = entries[e].value /\ u = tab' /\ fs = entries'
  OBVIOUS
<1>5. A \subseteq EntryId /\ EntriesAre(es, A) /\ ContentsAre(es, ks, A) /\ nelem = Cardinality(A)
  BY <1>4, TableOfInv DEF TableIs
<1>6. PICK rank, top : Linked(tab, entries, n, A, rank, top)
  BY <1>2, <1>4 DEF MdcInv
<1>7. u = (IF entries[e].prev # Nil THEN tab
           ELSE [tab EXCEPT ![Bucket(entries[e].hash_key)] = entries[e].next])
      /\ fs = [Unlink(e) EXCEPT ![e] = Free] /\ kvs' = [ks EXCEPT ![q] = Free] /\ nelem' = nelem - 1
  BY <1>1, <1>4 DEF zlog_mdc_remove
<1>8. /\ Linked(u, fs, n, B, rank, top) /\ EntriesAre(fs, B)
      /\ \A x \in B : fs[x].key = es[x].key /\ fs[x].value = es[x].value
                      /\ fs[x].hash_key = es[x].hash_key
  <2>1. UnlinkedIs(IF entries[e].prev # Nil THEN tab
                   ELSE [tab EXCEPT ![Bucket(entries[e].hash_key)] = entries[e].next],
                   [Unlink(e) EXCEPT ![e] = Free], n, A, rank, top, e)
    <3>1. EntriesAre(entries, A) /\ tab_size = n /\ e \in A
      BY <1>3, <1>4, <1>5
    <3> QED  BY <1>6, <3>1, Unlinked
  <2>2. UnlinkedIs(u, fs, n, A, rank, top, e)
    BY <1>7, <2>1
  <2>3. A \ {e} = B
    BY <1>4
  <2> QED  BY <1>4, <2>2, <2>3 DEF UnlinkedIs
<1>9. PICK ls : ls = kvs'
  OBVIOUS
<1>10. q \in KvId /\ ks[q] # Free
  BY <1>3, <1>4, <1>5 DEF ContentsAre
<1>11. ls = [x \in KvId |-> ls[x]] /\ ls[q] = Free /\ \A x \in KvId : x # q => ls[x] = ks[x]
  <2>1. ks = [x \in KvId |-> ks[x]]
    BY <1>5 DEF ContentsAre
  <2> QED  BY <1>7, <1>9, <1>10, <2>1
<1>12. ASSUME NEW d \in B
       PROVE  /\ d \in A /\ fs[d].value = es[d].value /\ fs[d].value \in KvId
              /\ ls[fs[d].value] = ks[fs[d].value] /\ ks[fs[d].value] # Free
              /\ fs[d].key = fs[d].value /\ fs[d].hash_key = Hash[ks[fs[d].value].key]
  <2>1. d \in A /\ d # e
    BY <1>4
  <2>2. PICK x : x = es[d].value
    OBVIOUS
  <2>3. x \in KvId /\ ks[x] # Free /\ es[d].key = x /\ es[d].hash_key = Hash[ks[x].key]
    BY <1>5, <2>1, <2>2 DEF ContentsAre
  <2>4. x # q
    BY <1>3, <1>4, <1>5, <2>1, <2>2 DEF ContentsAre
  <2> QED  BY <1>8, <1>11, <2>1, <2>2, <2>3, <2>4
<1>13. ContentsAre(fs, ls, B)
  <2>1. ASSUME NEW x \in KvId, ls[x] # Free
        PROVE  ls[x] \in [key : Keys, value : Values] /\ \E d \in B : fs[d].value = x
    <3>1. x # q /\ ls[x] = ks[x]
      BY <1>11, <2>1
    <3>2. ks[x] \in [key : Keys, value : Values]
      BY <1>5, <2>1, <3>1 DEF ContentsAre
    <3>3. PICK d \in A : es[d].value = x
      BY <1>5, <2>1, <3>1 DEF ContentsAre
    <3>4. d \in B
      BY <1>4, <3>1, <3>3
    <3> QED  BY <1>12, <3>1, <3>2, <3>3, <3>4
  <2>2. ASSUME NEW c \in B, NEW d \in B, ls[fs[c].value].key = ls[fs[d].value].key
        PROVE  c = d
    <3>1. ks[es[c].value].key = ks[es[d].value].key /\ c \in A /\ d \in A
      BY <1>12, <2>2
    <3> QED  BY <1>5, <3>1 DEF ContentsAre
  <2> QED  BY <1>11, <1>12, <2>1, <2>2 DEF ContentsAre
<1>14. Len(u) = n /\ u # NoTab /\ B \subseteq EntryId
  <2>1. PICK S : u \in [1..n -> S] /\ n \in Nat \ {0} /\ B \subseteq EntryId
    BY <1>8 DEF Linked
  <2>2. Len(u) = n
    BY <2>1
  <2> QED  BY <2>1, <2>2 DEF NoTab
<1>15. nelem - 1 = Cardinality(B)
  <2>1. IsFiniteSet(A) /\ e \in A
    BY <1>3, <1>4, LiveIsFinite
  <2>2. Cardinality(A \ {e}) = IF e \in A THEN Cardinality(A) - 1 ELSE Cardinality(A)
    BY <2>1, FS_RemoveElement
  <2> QED  BY <1>4, <1>5, <2>1, <2>2
<1>16. TableIs(u, nelem - 1, fs, ls, B)
  BY <1>8, <1>13, <1>14, <1>15 DEF TableIs
<1>17. TableIs(tab', nelem', entries', kvs', B)
  BY <1>4, <1>7, <1>9, <1>16
<1> QED  BY <1>17, InvOfTableNext

\* Clean and del come to every entry, so they release everything.
LEMMA ReleaseIs ==
  ASSUME MdcInv, tab # NoTab, Release
  PROVE  entries' = [e \in EntryId |-> Free] /\ kvs' = [p \in KvId |-> Free]
<1>1. Range(Traversal) = Live
  <2>1. ForeachMeetsAll
    BY InvIsSound DEF TableSound
  <2> QED  BY <2>1 DEF ForeachMeetsAll
<1>2. \A e \in EntryId : e \notin Live => entries[e] = Free
  BY DEF Live
<1>3. PICK pairs : pairs = {entries[e].value : e \in Live}
  OBVIOUS
<1>4. {p \in KvId : kvs[p] # Free} = pairs
  BY <1>3 DEF MdcInv, PairsOwned
<1>5. /\ entries' = [e \in EntryId |-> IF e \in Live THEN Free ELSE entries[e]]
      /\ kvs' = [p \in KvId |-> IF p \in pairs THEN Free ELSE kvs[p]]
  BY <1>1, <1>3 DEF Release
<1>6. \A p \in KvId : p \notin pairs => kvs[p] = Free
  BY <1>4
<1> QED  BY <1>2, <1>5, <1>6

LEMMA CleanKeeps ==
  ASSUME MdcInv, zlog_mdc_clean \/ zlog_mdc_del
  PROVE  MdcInv'
<1>1. tab # NoTab /\ Release /\ nelem' = 0 /\ (tab' = NoTab \/ tab' = EmptyTab(tab_size))
  BY DEF zlog_mdc_clean, zlog_mdc_del
<1>2. entries' = [e \in EntryId |-> Free] /\ kvs' = [p \in KvId |-> Free]
  BY <1>1, ReleaseIs
<1>3. EntriesAre(entries', {}) /\ ContentsAre(entries', kvs', {})
  BY <1>2 DEF EntriesAre, ContentsAre
<1>4. PICK n : n = tab_size /\ n \in Nat \ {0}
  <2>1. PICK rank, top : Linked(tab, entries, tab_size, Live, rank, top)
    BY <1>1 DEF MdcInv
  <2> QED  BY <2>1 DEF Linked
<1>5. tab' # NoTab => \E rank, top : Linked(tab', entries', Len(tab'), {}, rank, top)
  <2>1. SUFFICES ASSUME tab' = EmptyTab(n)
                 PROVE  \E rank, top : Linked(tab', entries', Len(tab'), {}, rank, top)
    BY <1>1, <1>4
  <2>2. PICK es : es = entries'
    OBVIOUS
  <2>3. \E rank, top : Linked(EmptyTab(n), es, n, {}, rank, top)
    BY <1>4, EmptyIsLinked
  <2>4. Len(EmptyTab(n)) = n
    BY <1>4 DEF EmptyTab
  <2> QED  BY <2>1, <2>2, <2>3, <2>4
<1>6. TableIs(tab', nelem', entries', kvs', {})
  BY <1>1, <1>3, <1>5, FS_EmptySet DEF TableIs
<1> QED  BY <1>6, InvOfTableNext

LEMMA StutterKeeps ==
  ASSUME MdcInv, UNCHANGED mdcVars
  PROVE  MdcInv'
<1>1. tab' = tab /\ nelem' = nelem /\ entries' = entries /\ kvs' = kvs
  BY DEF mdcVars
<1>2. PICK A : TableIs(tab', nelem', entries', kvs', A)
  BY <1>1, TableOfInv
<1> QED  BY <1>2, InvOfTableNext

LEMMA NextKeeps == MdcInv /\ [MdcNext]_mdcVars => MdcInv'
<1> SUFFICES ASSUME MdcInv, [MdcNext]_mdcVars PROVE MdcInv'
  OBVIOUS
<1>1. CASE zlog_mdc_new
  BY <1>1, NewKeeps
<1>2. CASE zlog_mdc_clean \/ zlog_mdc_del
  BY <1>2, CleanKeeps
<1>3. ASSUME NEW k \in Keys, zlog_mdc_remove(k) PROVE MdcInv'
  BY <1>3, RemoveKeeps
<1>4. ASSUME NEW k \in Keys, NEW v \in Values, zlog_mdc_put(k, v) PROVE MdcInv'
  BY <1>4, PutKeeps
<1>5. CASE UNCHANGED mdcVars
  BY <1>5, StutterKeeps
<1> QED  BY <1>1, <1>2, <1>3, <1>4, <1>5 DEF MdcNext

-----------------------------------------------------------------------------
(* What an operation does to the pairs, and so to zlog_mdc_get.            *)

\* The pairs of the keys of K are gone, the others are what they were.
Drops(K) ==
  \A x \in KvId :
    kvs'[x] = IF kvs[x] # Free /\ kvs[x].key \in K THEN Free ELSE kvs[x]

\* p is a new pair and the only one of its key.
Adds(k, v, p) ==
  /\ p \in KvId /\ kvs[p] = Free /\ kvs'[p] = [key |-> k, value |-> v]
  /\ \A x \in KvId \ {p} :
       kvs'[x] = IF kvs[x] # Free /\ kvs[x].key = k THEN Free ELSE kvs[x]

LEMMA GetStays ==
  ASSUME GetMeans, GetMeans', NEW k \in Keys,
         \A x \in KvId : kvs[x] # Free /\ kvs[x].key = k => kvs'[x] = kvs[x],
         \A x \in KvId : kvs'[x] # Free /\ kvs'[x].key = k => kvs'[x] = kvs[x]
  PROVE  zlog_mdc_get(k)' = zlog_mdc_get(k)
<1>1. CASE \E x \in KvId : kvs[x] # Free /\ kvs[x].key = k
  <2>1. PICK x \in KvId : kvs[x] # Free /\ kvs[x].key = k
    BY <1>1
  <2>2. kvs'[x] = kvs[x]
    BY <2>1
  <2>3. zlog_mdc_get(k) = kvs[x].value
    BY <2>1 DEF GetMeans
  <2>4. zlog_mdc_get(k)' = kvs'[x].value
    BY <2>1, <2>2 DEF GetMeans
  <2> QED  BY <2>2, <2>3, <2>4
<1>2. CASE ~\E x \in KvId : kvs[x] # Free /\ kvs[x].key = k
  <2>1. zlog_mdc_get(k) = NoValue
    BY <1>2 DEF GetMeans
  <2>2. \A x \in KvId : kvs'[x] # Free => kvs'[x].key # k
    BY <1>2
  <2>3. zlog_mdc_get(k)' = NoValue
    BY <2>2 DEF GetMeans
  <2> QED  BY <2>1, <2>3
<1> QED  BY <1>1, <1>2

LEMMA GetAfterDrops ==
  ASSUME GetMeans, GetMeans', NEW K, Drops(K), NEW k \in Keys
  PROVE  zlog_mdc_get(k)' = IF k \in K THEN NoValue ELSE zlog_mdc_get(k)
<1>1. \A x \in KvId : kvs'[x] = IF kvs[x] # Free /\ kvs[x].key \in K THEN Free ELSE kvs[x]
  BY DEF Drops
<1>2. CASE k \in K
  <2>1. \A x \in KvId : kvs'[x] # Free => kvs'[x].key # k
    BY <1>1, <1>2
  <2>2. zlog_mdc_get(k)' = NoValue
    BY <2>1 DEF GetMeans
  <2> QED  BY <1>2, <2>2
<1>3. CASE k \notin K
  <2>1. /\ \A x \in KvId : kvs[x] # Free /\ kvs[x].key = k => kvs'[x] = kvs[x]
        /\ \A x \in KvId : kvs'[x] # Free /\ kvs'[x].key = k => kvs'[x] = kvs[x]
    BY <1>1, <1>3
  <2>2. zlog_mdc_get(k)' = zlog_mdc_get(k)
    BY <2>1, GetStays
  <2> QED  BY <1>3, <2>2
<1> QED  BY <1>2, <1>3

LEMMA GetAfterAdds ==
  ASSUME GetMeans, GetMeans', NEW k, NEW v, NEW p, Adds(k, v, p), NEW j \in Keys
  PROVE  zlog_mdc_get(j)' = IF j = k THEN v ELSE zlog_mdc_get(j)
<1>1. PICK rec : rec = [key |-> k, value |-> v]
  OBVIOUS
<1>2. rec.key = k /\ rec.value = v /\ rec # Free
  <2>1. DOMAIN rec = {"key", "value"} /\ DOMAIN Free = {}
    BY <1>1 DEF Free
  <2>2. rec # Free
    BY <2>1
  <2> QED  BY <1>1, <2>2
<1>3. /\ p \in KvId /\ kvs[p] = Free /\ kvs'[p] = rec
      /\ \A x \in KvId \ {p} :
           kvs'[x] = IF kvs[x] # Free /\ kvs[x].key = k THEN Free ELSE kvs[x]
  BY <1>1 DEF Adds
<1>4. CASE j = k
  <2>1. kvs'[p] # Free /\ kvs'[p].key = j
    BY <1>2, <1>3, <1>4
  <2>2. zlog_mdc_get(j)' = kvs'[p].value
    BY <1>3, <2>1 DEF GetMeans
  <2> QED  BY <1>2, <1>3, <1>4, <2>2
<1>5. CASE j # k
  <2>1. ASSUME NEW x \in KvId, kvs[x] # Free, kvs[x].key = j PROVE kvs'[x] = kvs[x]
    BY <1>3, <1>5, <2>1
  <2>2. ASSUME NEW x \in KvId, kvs'[x] # Free, kvs'[x].key = j PROVE kvs'[x] = kvs[x]
    BY <1>2, <1>3, <1>5, <2>2
  <2>3. zlog_mdc_get(j)' = zlog_mdc_get(j)
    BY <2>1, <2>2, GetStays
  <2> QED  BY <1>5, <2>3
<1> QED  BY <1>4, <1>5

LEMMA SamePairs == kvs' = kvs => Drops({})
BY DEF Drops

LEMMA RemoveDrops ==
  ASSUME MdcInv, NEW k \in Keys, zlog_mdc_remove(k)
  PROVE  Drops({k})
<1>1. PICK e : e = zc_hashtable_get_entry(k)
  OBVIOUS
<1>2. tab # NoTab /\ e # Nil
  BY <1>1 DEF zlog_mdc_remove
<1>3. e \in Live /\ KeyOf(e) = k
  BY <1>1, <1>2, EntryFound
<1>4. PICK q : q = entries[e].value
  OBVIOUS
<1>5. kvs' = [kvs EXCEPT ![q] = Free]
  BY <1>1, <1>4 DEF zlog_mdc_remove
<1>6. ContentsAre(entries, kvs, Live)
  BY TableOfInv DEF TableIs
<1>7. q \in KvId /\ kvs[q] # Free /\ kvs[q].key = k
  BY <1>3, <1>4, <1>6 DEF ContentsAre, KeyOf
<1>8. ASSUME NEW x \in KvId, kvs[x] # Free, kvs[x].key = k PROVE x = q
  <2>1. PICK d \in Live : entries[d].value = x
    BY <1>6, <1>8 DEF ContentsAre
  <2>2. d = e
    BY <1>3, <1>4, <1>6, <1>7, <1>8, <2>1 DEF ContentsAre
  <2> QED  BY <1>4, <2>1, <2>2
<1>9. kvs = [x \in KvId |-> kvs[x]]
  BY <1>6 DEF ContentsAre
<1>10. kvs'[q] = Free /\ \A x \in KvId : x # q => kvs'[x] = kvs[x]
  BY <1>5, <1>7, <1>9
<1> QED  BY <1>7, <1>8, <1>10 DEF Drops

LEMMA CleanDrops ==
  ASSUME MdcInv, zlog_mdc_clean \/ zlog_mdc_del
  PROVE  Drops(Keys)
<1>1. kvs' = [p \in KvId |-> Free]
  BY ReleaseIs DEF zlog_mdc_clean, zlog_mdc_del
<1>2. ContentsAre(entries, kvs, Live)
  BY TableOfInv DEF TableIs
<1>3. ASSUME NEW x \in KvId, kvs[x] # Free PROVE kvs[x].key \in Keys
  <2>1. kvs[x] \in [key : Keys, value : Values]
    BY <1>2, <1>3 DEF ContentsAre
  <2> QED  BY <2>1
<1> QED  BY <1>1, <1>3 DEF Drops

LEMMA PutAdds ==
  ASSUME MdcInv, NEW k \in Keys, NEW v \in Values, zlog_mdc_put(k, v)
  PROVE  kvs' = kvs \/ \E p : Adds(k, v, p)
<1>1. PICK p, new, e : p = NewKv /\ new = [kvs EXCEPT ![p] = [key |-> k, value |-> v]]
                       /\ e = zc_hashtable_get_entry(k)
  OBVIOUS
<1>2. tab # NoTab
  BY DEF zlog_mdc_put
<1>3. p \in KvId /\ kvs[p] = Free
  BY <1>1, NewKvIs
<1>4. /\ e \in Live \union {Nil}
      /\ e # Nil => KeyOf(e) = k
      /\ e = Nil => \A x \in Live : KeyOf(x) # k
  BY <1>1, <1>2, EntryFound
<1>5. UNCHANGED mdcVars \/ (e # Nil /\ Replace(e, p, new)) \/ (e = Nil /\ Insert(k, p, new))
  BY <1>1 DEF zlog_mdc_put
<1>6. ContentsAre(entries, kvs, Live)
  BY TableOfInv DEF TableIs
<1>7. kvs = [x \in KvId |-> kvs[x]]
  BY <1>6 DEF ContentsAre
<1>8. new = [x \in KvId |-> new[x]] /\ new[p] = [key |-> k, value |-> v]
      /\ \A x \in KvId : x # p => new[x] = kvs[x]
  BY <1>1, <1>3, <1>7
<1>9. ASSUME NEW x \in KvId, kvs[x] # Free
      PROVE  \E d \in Live : entries[d].value = x /\ KeyOf(d) = kvs[x].key
  BY <1>6, <1>9 DEF ContentsAre, KeyOf
<1>10. CASE UNCHANGED mdcVars
  BY <1>10 DEF mdcVars
<1>11. CASE e # Nil /\ Replace(e, p, new)
  <2>1. e \in Live /\ KeyOf(e) = k
    BY <1>4, <1>11
  <2>2. PICK q : q = entries[e].value
    OBVIOUS
  <2>3. q \in KvId /\ kvs[q] # Free /\ kvs[q].key = k /\ q # p
    BY <1>3, <1>6, <2>1, <2>2 DEF ContentsAre, KeyOf
  <2>4. kvs' = [new EXCEPT ![q] = Free]
    BY <1>11, <2>2 DEF Replace
  <2>5. kvs'[q] = Free /\ \A x \in KvId : x # q => kvs'[x] = new[x]
    BY <1>8, <2>3, <2>4
  <2>6. ASSUME NEW x \in KvId, kvs[x] # Free, kvs[x].key = k PROVE x = q
    <3>1. PICK d \in Live : entries[d].value = x /\ KeyOf(d) = k
      BY <1>9, <2>6
    <3>2. d = e
      BY <2>1, <3>1 DEF MdcInv, Contents
    <3> QED  BY <2>2, <3>1, <3>2
  <2>7. kvs'[p] = [key |-> k, value |-> v]
    BY <1>3, <1>8, <2>3, <2>5
  <2>8. ASSUME NEW x \in KvId \ {p}
        PROVE  kvs'[x] = IF kvs[x] # Free /\ kvs[x].key = k THEN Free ELSE kvs[x]
    <3>1. CASE x = q
      BY <2>3, <2>5, <3>1
    <3>2. CASE x # q
      BY <1>8, <2>5, <2>6, <3>2
    <3> QED  BY <3>1, <3>2
  <2>9. Adds(k, v, p)
    BY <1>3, <2>7, <2>8 DEF Adds
  <2> QED  BY <2>9
<1>12. CASE e = Nil /\ Insert(k, p, new)
  <2>1. kvs' = kvs \/ kvs' = new
    <3>1. PICK g, r : g = Grown /\ r = WithEntry(g, k, p)
      OBVIOUS
    <3>2. \/ UNCHANGED mdcVars
          \/ tab' = g.tab /\ entries' = g.entries /\ nelem' = nelem /\ kvs' = kvs
          \/ tab' = r.tab /\ entries' = r.entries /\ nelem' = nelem + 1 /\ kvs' = new
      BY <1>12, <3>1, InsertCases
    <3> QED  BY <3>2 DEF mdcVars
  <2>2. ASSUME kvs' = new PROVE Adds(k, v, p)
    <3>1. \A x \in KvId : ~(kvs[x] # Free /\ kvs[x].key = k)
      BY <1>4, <1>9, <1>12
    <3> QED  BY <1>3, <1>8, <2>2, <3>1 DEF Adds
  <2> QED  BY <2>1, <2>2
<1> QED  BY <1>5, <1>10, <1>11, <1>12

-----------------------------------------------------------------------------
(* The theorems.                                                           *)

\* The pointers, the pairs and nelem fit together in every reachable state,
\* whatever the keys hash to and whichever allocations fail.
THEOREM MdcInvHolds == MdcSpec => []MdcInv
BY InitHasInv, NextKeeps, PTL DEF MdcSpec

\* zc_hashtable_foreach meets every entry once in the order of the chains,
\* prev undoes next, nelem counts, and no pair is lost or used after its
\* release: for any number of keys, any hash function and any table size.
THEOREM TableStaysSound == MdcSpec => []TableSound
BY MdcInvHolds, InvIsSound, PTL

\* What a step does to all of the dictionary that zlog_mdc_get shows.
LEMMA StepIsDictStep ==
  MdcInv /\ MdcInv' /\ [MdcNext]_mdcVars =>
    [MdcDict!DictNext]_[k \in Keys |-> zlog_mdc_get(k)]
<1> SUFFICES ASSUME MdcInv, MdcInv', [MdcNext]_mdcVars
             PROVE  [MdcDict!DictNext]_[k \in Keys |-> zlog_mdc_get(k)]
  OBVIOUS
<1>1. GetMeans /\ GetMeans'
  <2>1. GetMeans
    BY GetIs
  <2>2. (MdcInv => GetMeans)'
    BY GetIs, PTL
  <2> QED  BY <2>1, <2>2
<1>2. PICK d, f : d = [k \in Keys |-> zlog_mdc_get(k)] /\ f = [k \in Keys |-> zlog_mdc_get(k)]'
  OBVIOUS
<1>3. f = [k \in Keys |-> zlog_mdc_get(k)']
  BY <1>2
<1>4. ASSUME kvs' = kvs PROVE f = d
  <2>1. \A k \in Keys : zlog_mdc_get(k)' = zlog_mdc_get(k)
    BY <1>1, <1>4, SamePairs, GetAfterDrops
  <2> QED  BY <1>2, <1>3, <2>1
<1>5. ASSUME NEW k \in Keys, zlog_mdc_remove(k) PROVE f = [d EXCEPT ![k] = NoValue]
  <2>1. \A j \in Keys : zlog_mdc_get(j)' = IF j \in {k} THEN NoValue ELSE zlog_mdc_get(j)
    BY <1>1, <1>5, RemoveDrops, GetAfterDrops
  <2> QED  BY <1>2, <1>3, <2>1
<1>6. ASSUME zlog_mdc_clean \/ zlog_mdc_del PROVE f = [k \in Keys |-> NoValue]
  <2>1. \A j \in Keys : zlog_mdc_get(j)' = IF j \in Keys THEN NoValue ELSE zlog_mdc_get(j)
    BY <1>1, <1>6, CleanDrops, GetAfterDrops
  <2> QED  BY <1>3, <2>1
<1>7. ASSUME NEW k \in Keys, NEW v \in Values, zlog_mdc_put(k, v)
      PROVE  f = d \/ f = [d EXCEPT ![k] = v]
  <2>1. CASE kvs' = kvs
    BY <1>4, <2>1
  <2>2. ASSUME NEW p, Adds(k, v, p) PROVE f = [d EXCEPT ![k] = v]
    <3>1. \A j \in Keys : zlog_mdc_get(j)' = IF j = k THEN v ELSE zlog_mdc_get(j)
      BY <1>1, <2>2, GetAfterAdds
    <3> QED  BY <1>2, <1>3, <3>1
  <2> QED  BY <1>7, <2>1, <2>2, PutAdds
<1>8. CASE zlog_mdc_new
  <2>1. kvs' = kvs
    BY <1>8 DEF zlog_mdc_new
  <2> QED  BY <1>2, <1>4, <2>1
<1>9. CASE zlog_mdc_clean \/ zlog_mdc_del
  BY <1>2, <1>6, <1>9 DEF MdcDict!DictNext, MdcDict!DictClean
<1>10. ASSUME NEW k \in Keys, zlog_mdc_remove(k)
       PROVE  [MdcDict!DictNext]_[j \in Keys |-> zlog_mdc_get(j)]
  BY <1>2, <1>5, <1>10 DEF MdcDict!DictNext, MdcDict!DictRemove
<1>11. ASSUME NEW k \in Keys, NEW v \in Values, zlog_mdc_put(k, v)
       PROVE  [MdcDict!DictNext]_[j \in Keys |-> zlog_mdc_get(j)]
  BY <1>2, <1>7, <1>11 DEF MdcDict!DictNext, MdcDict!DictPut
<1>12. CASE UNCHANGED mdcVars
  <2>1. kvs' = kvs
    BY <1>12 DEF mdcVars
  <2> QED  BY <1>2, <1>4, <2>1
<1> QED  BY <1>8, <1>9, <1>10, <1>11, <1>12 DEF MdcNext

\* The table refines a dictionary: zlog_mdc_get gives for every key the value
\* of its last put unless it was removed since, and a put that fails for want
\* of memory, the table already rehashed or not, changes nothing get can see.
THEOREM ContextIsDictionary == MdcSpec => ImplementsDictionary
<1>1. MdcInit => MdcDict!DictInit
  BY DEF MdcInit, MdcDict!DictInit, zlog_mdc_get
<1> QED  BY <1>1, MdcInvHolds, StepIsDictStep, PTL
         DEF MdcSpec, ImplementsDictionary, MdcDict!DictSpec
=============================================================================
