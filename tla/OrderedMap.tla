----------------------------- MODULE OrderedMap -----------------------------
(***************************************************************************)
(* What the hash map promises (utilities/hashmap.h): a map from keys to    *)
(* values that is iterated in the order in which the keys were added.  A   *)
(* key that is overwritten keeps its place, a key that is removed and      *)
(* added again goes to the end.                                            *)
(***************************************************************************)
EXTENDS Integers, Sequences, SequencesExt

CONSTANTS Key, Value

VARIABLES
  entries,  \* the keys and values, in the order in which the keys were added
  out       \* what the last operation returned and handed out

Entry == [key : Key, value : Value]
Result(ret, seen) == [ret |-> ret, seen |-> seen]

Init == entries = <<>> /\ out = Result(0, <<>>)

Pair(k, v) == [key |-> k, value |-> v]
Place(k) == SelectInSeq(entries, LAMBDA e : e.key = k)
Holds(k) == Place(k) # 0

\* The entries when k is mapped to v.
With(k, v) ==
  IF Holds(k) THEN [entries EXCEPT ![Place(k)].value = v] ELSE Append(entries, Pair(k, v))

\* There was no memory for a larger table: the map stays as it is.
Fail == out' = Result(-1, <<>>) /\ UNCHANGED entries

Set(k, v) == out' = Result(0, <<>>) /\ entries' = With(k, v)

GetSet(k, v) ==
  \/ out' = Result(0, <<Pair(k, v)>>) /\ ~ Holds(k) /\ entries' = With(k, v)
  \/ Holds(k) /\ out' = Result(1, <<entries[Place(k)]>>) /\ UNCHANGED entries

\* The callback gets the entry that is overwritten and may return any error; without
\* one this is Set.
SetFree(k, v, error) ==
  Holds(k) /\ out' = Result(error, <<entries[Place(k)]>>) /\ entries' = With(k, v)

Get(k) ==
  /\ out' = IF Holds(k) THEN Result(1, <<entries[Place(k)]>>) ELSE Result(0, <<>>)
  /\ UNCHANGED entries

\* The entry may be handed out before it goes.
Delete(k) ==
  /\ out' \in {Result(0, <<>>)} \cup {Result(0, <<entries[n]>>) : n \in {Place(k)} \ {0}}
  /\ entries' = IF Holds(k) THEN RemoveAt(entries, Place(k)) ELSE entries

Size == out' = Result(Len(entries), <<>>) /\ UNCHANGED entries

\* Every entry in order, or those up to the one the callback stops at.
Iterate ==
  /\ \/ out' = Result(0, entries)
     \/ \E n \in 1 .. Len(entries) : out' = Result(-1, SubSeq(entries, 1, n))
  /\ UNCHANGED entries

Next ==
  \/ Fail \/ Size \/ Iterate
  \/ \E k \in Key : Get(k) \/ Delete(k)
  \/ \E k \in Key, v \in Value :
       Set(k, v) \/ GetSet(k, v) \/ \E error \in {-1, 0} : SetFree(k, v, error)

Spec == Init /\ [][Next]_<<entries, out>>

=============================================================================
