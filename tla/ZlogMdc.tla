------------------------------- MODULE ZlogMdc -------------------------------
(***************************************************************************)
(* zc_hashtable.c with mdc.c on top of it, the diagnostic context of one   *)
(* thread. Entries hang in doubly linked chains; the key of an entry is a  *)
(* pointer into the pair (zlog_mdc_kv_t) that is also its value, so the    *)
(* two must be replaced together. The table of the categories and that of  *)
(* the record functions are built in the same way.                         *)
(*                                                                         *)
(* Memory is explicit: an entry or a pair that is not allocated is Free.   *)
(***************************************************************************)
EXTENDS Integers, Sequences, FiniteSets, FiniteSetsExt, SequencesExt

CONSTANTS
  Keys,       \* keys of at most MAXLEN_PATH characters
  Values,     \* values of at most MAXLEN_PATH characters
  NoValue,    \* zlog_mdc_get returns NULL
  Hash,       \* key -> zc_hashtable_str_hash
  TabSize,    \* the size zlog_mdc_new asks for (20)
  MdcAllocFails \* whether calloc may fail

ASSUME MdcAssumption ==
  /\ IsFiniteSet(Keys)
  /\ NoValue \notin Values
  /\ Hash \in [Keys -> Nat]
  /\ TabSize \in Nat \ {0}
  /\ MdcAllocFails \in BOOLEAN

EntryId == 1..Cardinality(Keys)
KvId == 1..(Cardinality(Keys) + 1)
Nil == 0
Free == <<>>

VARIABLES
  tab,      \* bucket -> first entry, or Nil; <<>> when there is no table
  nelem,
  entries,  \* entry -> [key, value, hash_key, next, prev]; key and value are pairs
  kvs       \* pair -> [key, value]

mdcVars == <<tab, nelem, entries, kvs>>

NoTab == <<>>

\* Buckets count from 0 in the code and from 1 in the sequence tab.
tab_size == Len(tab)
BucketOf(hash_key, size) == (hash_key % size) + 1
Bucket(hash_key) == BucketOf(hash_key, tab_size)

MdcInit ==
  /\ tab = NoTab
  /\ nelem = 0
  /\ entries = [e \in EntryId |-> Free]
  /\ kvs = [p \in KvId |-> Free]

Chances == IF MdcAllocFails THEN BOOLEAN ELSE {TRUE}

\* calloc: the lowest free block.
NewEntry == Min({e \in EntryId : entries[e] = Free})
NewKv == Min({p \in KvId : kvs[p] = Free})

-----------------------------------------------------------------------------
(* zc_hashtable.c                                                          *)

\* The pointer of a loop over a chain from p on after i rounds.
NextOf(e) == IF e = Nil THEN Nil ELSE entries[e].next
Nth(p) == LET nth[i \in Nat] == IF i = 0 THEN p ELSE NextOf(nth[i - 1]) IN nth

\* The entries of a chain from p on, in the order of their next pointers.
Chain(p) ==
  LET nth == Nth(p)
      len == CHOOSE n \in 0..Cardinality(Keys) :
               nth[n] = Nil /\ \A i \in 0..(n - 1) : nth[i] # Nil
  IN  [i \in 1..len |-> nth[i - 1]]

\* equal(a_key, p->key) reads the key through the pointer into the pair.
KeyOf(e) == kvs[entries[e].key].key

\* zc_hashtable_get_entry, and the search in get, put and remove.
zc_hashtable_get_entry(k) ==
  LET chain == Chain(tab[Bucket(Hash[k])])
      hits == {i \in DOMAIN chain : KeyOf(chain[i]) = k}
  IN  IF hits = {} THEN Nil ELSE chain[Min(hits)]

\* zc_hashtable_get: the pair of a key, or Nil.
zc_hashtable_get(k) ==
  LET e == zc_hashtable_get_entry(k) IN IF e = Nil THEN Nil ELSE entries[e].value

\* Fault: the entry that was first is forgotten.
PushFront_Forgets(t, e, b) ==
  [tab |-> [t.tab EXCEPT ![b] = e],
   entries |-> [t.entries EXCEPT ![e].next = Nil, ![e].prev = Nil]]

\* An entry becomes the first of bucket b: t is a table and its entries.
PushFront(t, e, b) ==
  LET head == t.tab[b]
      linked == [t.entries EXCEPT ![e].next = head, ![e].prev = Nil]
  IN  [tab |-> [t.tab EXCEPT ![b] = e],
       entries |-> IF head = Nil THEN linked ELSE [linked EXCEPT ![head].prev = e]]

\* zc_hashtable_begin and zc_hashtable_next: bucket after bucket.
Traversal == FlattenSeq([b \in 1..tab_size |-> Chain(tab[b])])

zc_hashtable_next(e) ==
  LET later == {b \in (Bucket(entries[e].hash_key) + 1)..tab_size : tab[b] # Nil}
  IN  IF entries[e].next # Nil THEN entries[e].next
      ELSE IF later = {} THEN Nil ELSE tab[Min(later)]

zc_hashtable_begin ==
  LET used == {b \in 1..tab_size : tab[b] # Nil}
  IN  IF used = {} THEN Nil ELSE tab[Min(used)]

EmptyTab(size) == [b \in 1..size |-> Nil]

\* Fault: the prev pointer of the entry that was first is not set.
zc_hashtable_rehash_NoPrev ==
  LET order == Traversal
      size == 2 * tab_size
      Push(t, e, b) == [tab |-> [t.tab EXCEPT ![b] = e],
                        entries |-> [t.entries EXCEPT ![e].next = t.tab[b], ![e].prev = Nil]]
      moved[i \in 0..Len(order)] ==
        IF i = 0 THEN [tab |-> EmptyTab(size), entries |-> entries]
        ELSE Push(moved[i - 1], order[i], BucketOf(entries[order[i]].hash_key, size))
  IN  moved[Len(order)]

\* zc_hashtable_rehash: twice the buckets, every entry in its new one.
zc_hashtable_rehash ==
  LET order == Traversal
      size == 2 * tab_size
      moved[i \in 0..Len(order)] ==
        IF i = 0 THEN [tab |-> EmptyTab(size), entries |-> entries]
        ELSE PushFront(moved[i - 1], order[i], BucketOf(entries[order[i]].hash_key, size))
  IN  moved[Len(order)]

\* nelem > tab_size * 1.3
Crowded == 10 * nelem > 13 * tab_size

-----------------------------------------------------------------------------
(* mdc.c on top of it                                                      *)

\* zlog_mdc_new, with zc_hashtable_new.
zlog_mdc_new ==
  /\ tab = NoTab
  /\ \E ok \in Chances : tab' = IF ok THEN EmptyTab(TabSize) ELSE NoTab
  /\ UNCHANGED <<nelem, entries, kvs>>

\* zc_hashtable_put of a key that is there: the old pair is released, and
\* key and value of the entry are those of the new pair p.
Replace(e, p, new) ==
  /\ entries' = [entries EXCEPT ![e].key = p, ![e].value = p]
  /\ kvs' = [new EXCEPT ![entries[e].value] = Free]
  /\ UNCHANGED <<tab, nelem>>

\* zc_hashtable_put of a new key: rehash if the table is crowded, then a new
\* first entry. Without memory for the entry the table stays rehashed and
\* zlog_mdc_put releases the pair.
Insert(k, p, new) ==
  \E rehashed \in Chances, ok \in Chances :
    LET grown == IF Crowded THEN zc_hashtable_rehash
                 ELSE [tab |-> tab, entries |-> entries]
        e == NewEntry
        added == PushFront([grown EXCEPT !.entries[e] =
                              [key |-> p, value |-> p, hash_key |-> Hash[k],
                               next |-> Nil, prev |-> Nil]],
                           e, BucketOf(Hash[k], Len(grown.tab)))
    IN  CASE Crowded /\ ~rehashed -> UNCHANGED mdcVars
          [] (~Crowded \/ rehashed) /\ ~ok ->
               tab' = grown.tab /\ entries' = grown.entries /\ UNCHANGED <<nelem, kvs>>
          [] (~Crowded \/ rehashed) /\ ok ->
               /\ tab' = added.tab /\ entries' = added.entries
               /\ nelem' = nelem + 1
               /\ kvs' = new

\* zlog_mdc_put, with zlog_mdc_kv_new.
zlog_mdc_put(k, v) ==
  /\ tab # NoTab
  /\ \E ok \in Chances :
       LET p == NewKv
           new == [kvs EXCEPT ![p] = [key |-> k, value |-> v]]
           e == zc_hashtable_get_entry(k)
       IN  IF ~ok THEN UNCHANGED mdcVars
           ELSE IF e # Nil THEN Replace(e, p, new) ELSE Insert(k, p, new)

\* The neighbours of an entry that leaves its chain.
Unlink(e) ==
  LET p == entries[e]
      ahead == IF p.next = Nil THEN entries ELSE [entries EXCEPT ![p.next].prev = p.prev]
  IN  IF p.prev # Nil THEN [ahead EXCEPT ![p.prev].next = p.next] ELSE ahead

\* zlog_mdc_remove, with zc_hashtable_remove.
zlog_mdc_remove(k) ==
  /\ tab # NoTab
  /\ LET e == zc_hashtable_get_entry(k) IN
       /\ e # Nil
       /\ kvs' = [kvs EXCEPT ![entries[e].value] = Free]
       /\ entries' = [Unlink(e) EXCEPT ![e] = Free]
       /\ tab' = IF entries[e].prev # Nil THEN tab
                 ELSE [tab EXCEPT ![Bucket(entries[e].hash_key)] = entries[e].next]
       /\ nelem' = nelem - 1

\* The entries that zc_hashtable_clean and zc_hashtable_del come to, and the
\* pairs that value_del is called with.
Release ==
  LET gone == Range(Traversal)
      pairs == {entries[e].value : e \in gone}
  IN  /\ entries' = [e \in EntryId |-> IF e \in gone THEN Free ELSE entries[e]]
      /\ kvs' = [p \in KvId |-> IF p \in pairs THEN Free ELSE kvs[p]]

zlog_mdc_clean ==
  /\ tab # NoTab
  /\ Release
  /\ tab' = EmptyTab(tab_size)
  /\ nelem' = 0

\* zlog_mdc_del, with zc_hashtable_del.
zlog_mdc_del ==
  /\ tab # NoTab
  /\ Release
  /\ tab' = NoTab
  /\ nelem' = 0

\* zlog_mdc_get and zlog_mdc_get_kv.
zlog_mdc_get(k) ==
  LET p == IF tab = NoTab THEN Nil ELSE zc_hashtable_get(k)
  IN  IF p = Nil THEN NoValue ELSE kvs[p].value

MdcNext ==
  \/ zlog_mdc_new \/ zlog_mdc_clean \/ zlog_mdc_del
  \/ \E k \in Keys : zlog_mdc_remove(k) \/ \E v \in Values : zlog_mdc_put(k, v)

MdcSpec == MdcInit /\ [][MdcNext]_mdcVars

-----------------------------------------------------------------------------
(* Correctness                                                             *)

\* The dictionary that zlog_mdc_get shows.
MdcDict == INSTANCE Dictionary WITH
  DictKeys <- Keys, DictValues <- Values, dict <- [k \in Keys |-> zlog_mdc_get(k)]

\* The table is a dictionary: whatever the buckets, chains and rehashes are,
\* zlog_mdc_get gives for every key the value of its last put unless it was
\* removed since, and a put that fails changes nothing that get can see.
ImplementsDictionary == MdcDict!DictSpec

Live == {e \in EntryId : entries[e] # Free}

\* No pair is lost and none is used after it was released: the allocated
\* pairs are exactly those of the entries, each of one entry, and key and
\* value of an entry lie in the same pair. This is what value_del alone must
\* achieve for both, replacing and failing puts included.
PairsOwned ==
  /\ {p \in KvId : kvs[p] # Free} = {entries[e].value : e \in Live}
  /\ \A e \in Live : entries[e].key = entries[e].value
  /\ \A d, e \in Live : entries[d].value = entries[e].value => d = e

\* zc_hashtable_foreach meets every entry once, in every table that puts,
\* removes and rehashes can build: the order of begin and next is that of
\* the chains, prev undoes next, and nelem is their number.
ForeachMeetsAll ==
  tab # NoTab =>
    LET order == Traversal IN
    /\ Range(order) = Live /\ Len(order) = nelem /\ Cardinality(Live) = nelem
    /\ zc_hashtable_begin = IF order = <<>> THEN Nil ELSE order[1]
    /\ \A i \in DOMAIN order :
         /\ zc_hashtable_next(order[i]) = IF i = Len(order) THEN Nil ELSE order[i + 1]
         /\ entries[order[i]].next # Nil => entries[entries[order[i]].next].prev = order[i]
         /\ entries[order[i]].prev = Nil => tab[Bucket(entries[order[i]].hash_key)] = order[i]

\* Chains and memory stay sound through every sequence of puts that find,
\* replace, rehash or fail, removals and cleans.
TableSound == PairsOwned /\ ForeachMeetsAll
=============================================================================
