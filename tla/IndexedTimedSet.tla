-------------------------- MODULE IndexedTimedSet --------------------------
(***************************************************************************)
(* Containers::IndexedTimedSet<TIndex, TData>                              *)
(* (include/Containers/IndexedTimedSet.hpp): a map from an index to a      *)
(* datum and the steady_clock time of its last update.                     *)
(*                                                                         *)
(* The map is the set of its entries, records [index, data, age].  The     *)
(* container only ever compares now() - timestamp with a duration, so an   *)
(* entry carries that difference, its age, instead of the timestamp; Aged  *)
(* is the passing of one unit of time.  Ages saturate at a cap: above      *)
(* every duration passed to RemoveOlder, two ages are indistinguishable.   *)
(***************************************************************************)
EXTENDS Naturals

Entry(TIndex, TData, ageCap) ==
    [index : TIndex, data : TData, age : 0 .. ageCap]

EmptySet == {}

(* update, called once for each of the <<index, data>> pairs (no index      *)
(* twice): operator[] finds or creates the entry, its time becomes now.    *)
Update(S, pairs) ==
    {e \in S : \A p \in pairs : p[1] # e.index}
        \cup {[index |-> p[1], data |-> p[2], age |-> 0] : p \in pairs}

(* Mutants of RemoveOlder: a strict comparison, a comparison that keeps an *)
(* entry one tick too long, and an erase that is forgotten.                *)
RemoveAsOld(S, maxDuration) == {e \in S : ~(e.age >= maxDuration)}
RemoveMuchOlder(S, maxDuration) == {e \in S : ~(e.age > maxDuration + 1)}
RemoveNothing(S, maxDuration) == S

(* remove(maxDuration): an entry exactly maxDuration old stays.            *)
RemoveOlder(S, maxDuration) == {e \in S : ~(e.age > maxDuration)}

(* Mutant of Data: the pair is not projected to its first component.       *)
Pairs(S) == S

(* data(): the values without their timestamps.                            *)
Data(S) == {e.data : e \in S}

Aged(S, ageCap) ==
    {[e EXCEPT !.age = IF @ < ageCap THEN @ + 1 ELSE @] : e \in S}
=============================================================================
