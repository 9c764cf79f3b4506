---------------------------- MODULE Collections ----------------------------
(***************************************************************************)
(* The multimaps and the multiset of stl-utils' collections.ts.  Maps keep *)
(* their keys in the order in which they were added: a key whose value is  *)
(* replaced keeps its place, and one deleted and added again goes last.    *)
(*                                                                         *)
(* addAll consumes any iterable, which may throw after some values.        *)
(***************************************************************************)
EXTENDS Integers, Sequences, Sums

EntrySeqs == INSTANCE SequencesExt

CONSTANTS
  MapKeys, Values,
  Iterables, \* sequences of values, which addAll is given
  Counts,    \* what the multiset's add is given
  MaxSteps, MaxCount

ASSUME CollectionsAssumption == Iterables \subseteq Seq(Values) /\ Counts \subseteq Int

VARIABLES
  backing, \* of the multimap: "array" or "set"
  data,    \* its entries: [key, vals]
  size,    \* _size
  broken,  \* history: did an iterable throw?
  counts,  \* the multiset's entries: [key, count]
  total,   \* its _size
  positive, \* history: for each key, the step at which its count last became
            \* positive, 0 if it is not
  steps

mapVars == <<backing, data, size, broken>>
setVars == <<counts, total, positive>>
collectionsVars == <<mapVars, setVars, steps>>

Step == steps < MaxSteps /\ steps' = steps + 1

\* JavaScript's Map, as entries.
HasKey(entries, key) == \E i \in DOMAIN entries : entries[i].key = key
IndexOf(entries, key) == CHOOSE i \in DOMAIN entries : entries[i].key = key
EntryOf(entries, key) == entries[IndexOf(entries, key)]
DeleteKey(entries, key) ==
  IF HasKey(entries, key) THEN EntrySeqs!RemoveAt(entries, IndexOf(entries, key)) ELSE entries
Put(entries, entry) ==
  IF HasKey(entries, entry.key)
  THEN [entries EXCEPT ![IndexOf(entries, entry.key)] = entry]
  ELSE Append(entries, entry)

-----------------------------------------------------------------------------
(* Multimap *)

AddValue(col, val) ==
  IF backing = "set" /\ EntrySeqs!Contains(col, val) THEN col ELSE Append(col, val)

AddValues(col, vals) ==
  LET With[n \in 0 .. Len(vals)] == IF n = 0 THEN col ELSE AddValue(With[n - 1], vals[n])
  IN With[Len(vals)]

\* get: an empty collection of no key.
Get(key) == IF HasKey(data, key) THEN EntryOf(data, key).vals ELSE <<>>

Added(col, vals) == Len(AddValues(col, vals)) - Len(col)

\* add and addAll: a key is added even without values. What was added by an
\* iterable which then threw is not counted.
AddAll(key, vals, throws) ==
  /\ Step
  /\ data' = Put(data, [key |-> key, vals |-> AddValues(Get(key), vals)])
  /\ size' = IF throws THEN size ELSE size + Added(Get(key), vals)
  /\ broken' = (broken \/ throws)
  /\ UNCHANGED <<backing, setVars>>

DeleteOf(key) ==
  /\ Step
  /\ data' = DeleteKey(data, key)
  /\ size' = size - Len(Get(key))
  /\ UNCHANGED <<backing, broken, setVars>>

Clear ==
  /\ Step
  /\ data' = <<>> /\ size' = 0 /\ broken' = FALSE
  /\ UNCHANGED <<backing, setVars>>

-----------------------------------------------------------------------------
(* Multiset *)

CountOf(entries, key) == IF HasKey(entries, key) THEN EntryOf(entries, key).count ELSE 0

\* add. Mutant: a key without occurrences keeps its place.
AddKeepingPlace(ms, key, count) ==
  LET prev == CountOf(ms.counts, key)
      next == IF prev + count < 0 THEN 0 ELSE prev + count
  IN [counts |-> IF next > 0 \/ HasKey(ms.counts, key)
                 THEN Put(ms.counts, [key |-> key, count |-> next]) ELSE ms.counts,
      total |-> ms.total + next - prev]
Add(ms, key, count) ==
  LET prev == CountOf(ms.counts, key)
      next == IF prev + count < 0 THEN 0 ELSE prev + count
  IN [counts |-> IF next > 0 THEN Put(ms.counts, [key |-> key, count |-> next])
                 ELSE DeleteKey(ms.counts, key),
      total |-> ms.total + next - prev]

Multiset == [counts |-> counts, total |-> total]

Becomes(ms) ==
  /\ Step
  /\ counts' = ms.counts /\ total' = ms.total
  /\ positive' = [k \in MapKeys |->
       IF CountOf(ms.counts, k) = 0 THEN 0
       ELSE IF positive[k] = 0 THEN steps' ELSE positive[k]]
  /\ UNCHANGED mapVars

AddCount(key, count) ==
  /\ CountOf(counts, key) + count <= MaxCount
  /\ Becomes(Add(Multiset, key, count))

\* addAll, of the multiset itself: its counts double.
AddItself ==
  /\ \A k \in MapKeys : 2 * CountOf(counts, k) <= MaxCount
  /\ LET With[n \in 0 .. Len(counts)] ==
            IF n = 0 THEN Multiset ELSE Add(With[n - 1], counts[n].key, counts[n].count)
     IN Becomes(With[Len(counts)])

ClearCounts == Becomes([counts |-> <<>>, total |-> 0])

\* mostCommon: the first key in order with the highest count.
MostCommon ==
  LET best == {i \in DOMAIN counts : \A j \in DOMAIN counts : counts[j].count <= counts[i].count}
  IN counts[CHOOSE i \in best : \A j \in best : i <= j].key

-----------------------------------------------------------------------------
CollectionsInit ==
  /\ backing \in {"array", "set"} /\ data = <<>> /\ size = 0 /\ broken = FALSE
  /\ counts = <<>> /\ total = 0 /\ positive = [k \in MapKeys |-> 0] /\ steps = 0

CollectionsNext ==
  \/ \E key \in MapKeys : \/ \E vals \in Iterables, throws \in BOOLEAN : AddAll(key, vals, throws)
                          \/ DeleteOf(key)
                          \/ \E count \in Counts : AddCount(key, count)
  \/ Clear \/ AddItself \/ ClearCounts

CollectionsSpec == CollectionsInit /\ [][CollectionsNext]_collectionsVars

-----------------------------------------------------------------------------
(* Properties *)

\* After any sequence of calls, sizes are those of what iterating yields,
\* unless an iterable threw.
SizesCount ==
  /\ ~broken => size = SumTo([i \in DOMAIN data |-> Len(data[i].vals)], Len(data))
  /\ total = SumTo([i \in DOMAIN counts |-> counts[i].count], Len(counts))

\* "Keys are iterated in the order in which they were last added (i.e. reached
\* a positive count)" (collections.ts:227), and the most common is, of those
\* with the highest count, the first of these.
OrderedByLastAddition ==
  /\ \A k \in MapKeys : HasKey(counts, k) <=> positive[k] > 0
  /\ \A i, j \in DOMAIN counts :
       i < j => positive[counts[i].key] <= positive[counts[j].key]
  /\ counts # <<>> =>
       \A k \in MapKeys :
         \/ CountOf(counts, k) < CountOf(counts, MostCommon)
         \/ CountOf(counts, k) = CountOf(counts, MostCommon) /\ positive[MostCommon] <= positive[k]

\* Both collections are what their calls made of them.
CollectionsHold == SizesCount /\ OrderedByLastAddition
=============================================================================
