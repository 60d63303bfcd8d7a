------------------------------ MODULE LruCache ------------------------------
(***************************************************************************)
(* What a bounded least-recently-used cache promises, without saying how   *)
(* it is stored.  A cache holds at most Capacity bytes.  A use of a key    *)
(* makes it the most recently used one.  Storing a value keeps as many of  *)
(* the most recently used entries as fit, and nothing older than an entry  *)
(* that was dropped.                                                       *)
(***************************************************************************)
EXTENDS Integers, FiniteSets

CONSTANTS
  Keys,       \* names of resources
  Capacity,   \* bytes the cache may hold
  MaxBytes,   \* largest resource a caller offers
  None        \* no key

VARIABLES
  stored,     \* stored[k]: size in bytes of the resource cached under k
  newer,      \* <<a, b>> \in newer: a was used more recently than b
  last        \* the key last used or stored, None after a clear

lruVars == <<stored, newer, last>>

(* The single bytes stored under the keys in S, and their number.          *)
StoredBytes(sizes, S) == UNION {{k} \X (1..sizes[k]) : k \in S}
TotalBytes(sizes, S) == Cardinality(StoredBytes(sizes, S))

(* S leaves out no key that was used more recently than a member of S.     *)
UpwardClosed(S, order) == \A p \in order : p[2] \in S => p[1] \in S

LruInit == stored = << >> /\ newer = {} /\ last = None

(* The order after k has just been used among the keys in S.               *)
Freshest(k, S) ==
  {p \in newer : k \notin {p[1], p[2]}} \cup ({k} \X (S \ {k}))

LruUse(k) ==
  /\ k \in DOMAIN stored
  /\ newer' = Freshest(k, DOMAIN stored)
  /\ last' = k
  /\ UNCHANGED stored

LruStore(k, bytes) ==
  LET offered == [j \in DOMAIN stored \cup {k} |-> IF j = k THEN bytes ELSE stored[j]]
      order   == Freshest(k, DOMAIN offered)
      Fits(S) == TotalBytes(offered, S) <= Capacity /\ UpwardClosed(S, order)
  IN /\ bytes <= Capacity
     /\ \E S \in SUBSET DOMAIN offered :
          /\ Fits(S)
          /\ \A T \in SUBSET DOMAIN offered : Fits(T) => T \subseteq S
          /\ stored' = [j \in S |-> offered[j]]
          /\ newer' = order \cap (S \X S)
          /\ last' = k

LruClear == stored' = << >> /\ newer' = {} /\ last' = None

LruNext ==
  \/ \E k \in Keys : LruUse(k)
  \/ \E k \in Keys, bytes \in 0..MaxBytes : LruStore(k, bytes)
  \/ LruClear

LruSpec == LruInit /\ [][LruNext]_lruVars
=============================================================================
