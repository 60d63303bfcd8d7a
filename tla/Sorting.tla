------------------------------- MODULE Sorting -------------------------------
(***************************************************************************)
(* std::stable_sort as the library uses it: by ids, offsets and the like.  *)
(***************************************************************************)
EXTENDS Integers, Sequences, FiniteSets

(* std::stable_sort of the objects at some places: in the order of their   *)
(* keys, those with equal keys in the order they had.  The object at place *)
(* n is the one with n-1 objects before it.                                *)
SortPlaces(objects, places, Key(_)) ==
  LET Before(j, i) == \/ Key(objects[j]) < Key(objects[i])
                      \/ Key(objects[j]) = Key(objects[i]) /\ j < i
      Rank(i) == Cardinality({j \in places : Before(j, i)})
  IN [n \in 1..Cardinality(places) |-> objects[CHOOSE i \in places : Rank(i) = n - 1]]

StableSort(objects, Key(_)) == SortPlaces(objects, 1..Len(objects), Key)

PlacesById(objects, places) == SortPlaces(objects, places, LAMBDA x : x.id)
SortById(objects) == StableSort(objects, LAMBDA x : x.id)
SortIds(ids)      == StableSort(ids, LAMBDA x : x)
=============================================================================
