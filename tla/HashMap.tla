------------------------------- MODULE HashMap -------------------------------
(***************************************************************************)
(* The hash map of utilities/types/hashmap.c: open addressing with linear  *)
(* probing, the buckets in use linked in the order in which they were      *)
(* added.  A removed entry stays in the table and in the list as a         *)
(* tombstone until the table is resized.  The map has one user at a time,  *)
(* so an operation is one action.                                          *)
(*                                                                         *)
(* A key stands for the bytes of a key (size, hash and data are equal or   *)
(* all count as different); whose memory they are in is not modelled.      *)
(***************************************************************************)
EXTENDS Integers, Sequences, SequencesExt, FiniteSetsExt

CONSTANTS
  Key,           \* the keys
  Value,         \* the values, NULL (0) may be one of them
  Hash,          \* hash_data of each key
  CAPACITY,      \* HASHMAP_DEFAULT_CAPACITY
  MAX_CAPACITY,  \* bound: no memory for a table larger than this
  CALLOC_FAILS,  \* whether memory may run out before that
  NIL,           \* NULL: the key of an empty bucket, the end of the list
  HEAD           \* &m->first, "an imaginary bucket" before the first one

ASSUME HashAssumption == Hash \in [Key -> Nat]
ASSUME CapacityAssumption ==
  CAPACITY \in Nat \ {0, 1} /\ MAX_CAPACITY \in Nat /\ CAPACITY <= MAX_CAPACITY
ASSUME PointerAssumption == NIL \notin Nat /\ HEAD \notin Nat /\ HEAD # NIL
ASSUME KeyAssumption == NIL \notin Key /\ 0 \in Value /\ Value \subseteq Nat

VARIABLES
  m,    \* the map
  out   \* what the last operation returned and handed to its caller

mapVars == <<m, out>>

-----------------------------------------------------------------------------

DEAD == 57005  \* 0xDEAD, the value of a tombstone
RESIZE_FACTOR == 2

\* What a bucket holds; its next pointer is in m.next.
Bucket(k, v) == [key |-> k, value |-> v]
Empty == Bucket(NIL, 0)
Tombstone == Bucket(NIL, DEAD)

Table(capacity) == [i \in 0 .. capacity - 1 |-> Empty]

\* The pointers of an empty list.  m->first is the next pointer of HEAD, and
\* nothing comes after the end.
Pointers(capacity) == [i \in (0 .. capacity - 1) \cup {HEAD, NIL} |-> NIL]

Create ==
  [capacity |-> CAPACITY, count |-> 0, tombstone_count |-> 0,
   buckets |-> Table(CAPACITY), next |-> Pointers(CAPACITY), last |-> HEAD]

\* Where step n of a search for k looks: from the hash of k on, round the table.
At(h, k, n) ==
  LET i == (Hash[k] % h.capacity) + n IN IF i < h.capacity THEN i ELSE i - h.capacity

\* Where a search for k that stops at the buckets of stops ends, nowhere when there
\* is none and the loop goes round for ever.
Probe(h, k, stops) ==
  LET steps == {n \in 0 .. h.capacity - 1 : At(h, k, n) \in stops}
  IN  IF steps = {} THEN {} ELSE {At(h, k, Min(steps))}

find_entry(h, k) ==
  Probe(h, k, {i \in DOMAIN h.buckets : h.buckets[i] = Empty \/ h.buckets[i].key = k})

\* m->last->next = entry; m->last = entry; the entry becomes (k, v).
Link(h, e, k, v) ==
  [h EXCEPT !.next = [@ EXCEPT ![h.last] = e, ![e] = NIL],
            !.last = e, !.buckets[e] = Bucket(k, v)]

\* The buckets of the list in order, NIL from its end on.
List(h) ==
  LET at[n \in 1 .. h.capacity] == h.next[IF n = 1 THEN HEAD ELSE at[n - 1]] IN at

\* What the buckets of the list hold, without the tombstones.
Entries(h) ==
  LET Held(e) == IF e = NIL \/ h.buckets[e].key = NIL THEN <<>> ELSE <<h.buckets[e]>>
      seen[n \in 0 .. h.capacity] ==
        IF n = 0 THEN <<>> ELSE seen[n - 1] \o Held(List(h)[n])
  IN  seen[h.capacity]

\* resize_entry: the first bucket without a key.
Relink(h, b) ==
  LET e == CHOOSE i \in Probe(h, b.key, {j \in DOMAIN h.buckets : h.buckets[j].key = NIL}) : TRUE
  IN  Link(h, e, b.key, b.value)

\* Mutant: the tombstones stay counted when they are gone.
LargerKeepsTombstones ==
  LET capacity == RESIZE_FACTOR * m.capacity
  IN  [m EXCEPT !.capacity = capacity, !.buckets = Table(capacity),
                !.next = Pointers(capacity), !.last = HEAD,
                !.count = m.count - m.tombstone_count]

\* Mutant: m->last points where it pointed in the old table.
LargerKeepsLast ==
  LET capacity == RESIZE_FACTOR * m.capacity
  IN  [m EXCEPT !.capacity = capacity, !.buckets = Table(capacity),
                !.next = Pointers(capacity),
                !.count = m.count - m.tombstone_count, !.tombstone_count = 0]

\* The larger table before the entries are in it.
Larger ==
  LET capacity == RESIZE_FACTOR * m.capacity
  IN  [m EXCEPT !.capacity = capacity, !.buckets = Table(capacity),
                !.next = Pointers(capacity), !.last = HEAD,
                !.count = m.count - m.tombstone_count, !.tombstone_count = 0]

\* The entries move to it in the order of the list, the tombstones do not.
hashmap_resize ==
  LET entries == Entries(m)
      moved[n \in 0 .. Len(entries)] ==
        IF n = 0 THEN Larger ELSE Relink(moved[n - 1], entries[n])
  IN  moved[Len(entries)]

-----------------------------------------------------------------------------

Result(ret, seen) == [ret |-> ret, seen |-> seen]

MapInit == m = Create /\ out = Result(0, <<>>)

\* Mutant: only live entries count as load.
OverloadedByLive == 4 * (m.count - m.tombstone_count + 1) > 3 * m.capacity

\* m->count + 1 > HASHMAP_MAX_LOAD * m->capacity
Overloaded == 4 * (m.count + 1) > 3 * m.capacity

\* The map that set, get_set and set_free go on with after the load test.
Loaded == IF Overloaded THEN hashmap_resize ELSE m
MemoryForLoad == Overloaded => RESIZE_FACTOR * m.capacity <= MAX_CAPACITY

\* calloc fails in hashmap_resize: set, get_set and set_free return -1.
ResizeFails ==
  /\ Overloaded /\ (CALLOC_FAILS \/ ~ MemoryForLoad)
  /\ out' = Result(-1, <<>>)
  /\ UNCHANGED m

Add(h, e, k, v) == m' = [Link(h, e, k, v) EXCEPT !.count = @ + 1]

hashmap_set(k, v) ==
  /\ MemoryForLoad
  /\ \E h \in {Loaded} : \E e \in find_entry(h, k) :
       IF h.buckets[e].key = NIL THEN Add(h, e, k, v)
       ELSE m' = [h EXCEPT !.buckets[e].value = v]
  /\ out' = Result(0, <<>>)

\* The value of the entry is handed back, whether it was there or is new.
hashmap_get_set(k, v) ==
  /\ MemoryForLoad
  /\ \E h \in {Loaded} : \E e \in find_entry(h, k) :
       IF h.buckets[e].key = NIL
       THEN Add(h, e, k, v) /\ out' = Result(0, <<Bucket(k, v)>>)
       ELSE m' = h /\ out' = Result(1, <<h.buckets[e]>>)

\* The callback gets the entry it may free; its error is returned, the entry
\* overwritten all the same.
hashmap_set_free(k, v) ==
  /\ MemoryForLoad
  /\ \E h \in {Loaded} : \E e \in find_entry(h, k) :
       IF h.buckets[e].key = NIL THEN Add(h, e, k, v) /\ out' = Result(0, <<>>)
       ELSE /\ m' = [h EXCEPT !.buckets[e].value = v]
            /\ \E error \in {-1, 0} : out' = Result(error, <<h.buckets[e]>>)

hashmap_get(k) ==
  /\ \E e \in find_entry(m, k) :
       out' = IF m.buckets[e].key = NIL THEN Result(0, <<>>)
              ELSE Result(1, <<m.buckets[e]>>)
  /\ UNCHANGED m

\* Mutant: a removed entry leaves an empty bucket behind.
BuryWithoutTombstone(e) ==
  m' = IF m.buckets[e].key = NIL THEN m
       ELSE [m EXCEPT !.buckets[e] = Empty, !.tombstone_count = @ + 1]

Bury(e) ==
  m' = IF m.buckets[e].key = NIL THEN m
       ELSE [m EXCEPT !.buckets[e] = Tombstone, !.tombstone_count = @ + 1]

hashmap_remove(k) ==
  \E e \in find_entry(m, k) : Bury(e) /\ out' = Result(0, <<>>)

\* The callback gets the entry first.
hashmap_remove_free(k) ==
  \E e \in find_entry(m, k) :
    /\ Bury(e)
    /\ out' = Result(0, IF m.buckets[e].key = NIL THEN <<>> ELSE <<m.buckets[e]>>)

hashmap_size == out' = Result(m.count - m.tombstone_count, <<>>) /\ UNCHANGED m

\* The callback gets every entry in order, until it returns -1.
hashmap_iterate ==
  /\ \E seen \in {Entries(m)} :
       \/ out' = Result(0, seen)
       \/ \E n \in DOMAIN seen : out' = Result(-1, SubSeq(seen, 1, n))
  /\ UNCHANGED m

MapNext ==
  \/ ResizeFails
  \/ \E k \in Key, v \in Value : hashmap_set(k, v)
  \/ \E k \in Key, v \in Value : hashmap_get_set(k, v)
  \/ \E k \in Key, v \in Value : hashmap_set_free(k, v)
  \/ \E k \in Key : hashmap_get(k)
  \/ \E k \in Key : hashmap_remove(k)
  \/ \E k \in Key : hashmap_remove_free(k)
  \/ hashmap_size
  \/ hashmap_iterate

MapSpec == MapInit /\ [][MapNext]_mapVars

-----------------------------------------------------------------------------

Index == 0 .. m.capacity - 1

(***************************************************************************)
(* The fields keep their types over every sequence of operations and       *)
(* resizes; there are never more tombstones than entries in the count.     *)
(***************************************************************************)
MapTypeOK ==
  /\ m.capacity \in CAPACITY .. MAX_CAPACITY
  /\ m.count \in 0 .. m.capacity
  /\ m.tombstone_count \in 0 .. m.count
  /\ m.buckets \in [Index -> [key : Key \cup {NIL}, value : Value \cup {DEAD}]]
  /\ m.next \in [Index \cup {HEAD, NIL} -> Index \cup {NIL}]
  /\ m.last \in Index \cup {HEAD}

(***************************************************************************)
(* No search goes round the table for ever: for every key, also one that   *)
(* is not in the map, find_entry meets the key or an empty bucket, however *)
(* many tombstones the removals have left.                                 *)
(***************************************************************************)
SearchEnds == \A k \in Key : find_entry(m, k) # {}

(***************************************************************************)
(* The list that iteration and resizing go through holds every bucket in   *)
(* use exactly once, tombstones included, ends at m->last, and the two     *)
(* counters agree with the table.                                          *)
(***************************************************************************)
Linked == SubSeq(List(m), 1, Cardinality({n \in DOMAIN List(m) : List(m)[n] # NIL}))

ListIsWhole ==
  /\ IsInjective(Linked)
  /\ Range(Linked) = {i \in Index : m.buckets[i] # Empty}
  /\ m.last = IF Linked = <<>> THEN HEAD ELSE Last(Linked)
  /\ m.count = Len(Linked)
  /\ m.tombstone_count = Cardinality({i \in Index : m.buckets[i] = Tombstone})

(***************************************************************************)
(* The hash table is a map in the order of insertion: collisions,          *)
(* tombstones, resizes and failed resizes cannot be seen by its user.      *)
(***************************************************************************)
Abstract == INSTANCE OrderedMap WITH entries <- Entries(m)

ImplementsOrderedMap == Abstract!Spec

=============================================================================
