--------------------------- MODULE ResourceCache ---------------------------
(***************************************************************************)
(* bse::ResourceCache: a byte-bounded cache made of a doubly linked list   *)
(* (most recently used entry first), an index from keys to list nodes, and *)
(* a running byte count.  Three representations of one set of resources    *)
(* that every operation must keep in agreement.                            *)
(*                                                                         *)
(* A list node has an address, as an iterator into std::list does: the     *)
(* index holds addresses, Get hands one out, and the allocator may reuse   *)
(* the address of a node that was erased.  `held` is a pointer some        *)
(* successful Get returned and what it showed, for as long as its key      *)
(* stays cached and is not stored again: the time in which a caller may    *)
(* rely on it.                                                             *)
(***************************************************************************)
EXTENDS Integers, Sequences, FiniteSets

CONSTANTS
  Keys,       \* names of resources
  Capacity,   \* capacity_bytes_
  MaxBytes,   \* bound: the largest resource a caller offers to Put
  Addrs,      \* addresses the allocator hands out for list nodes
  None        \* the null pointer

Entry == [addr : Addrs, key : Keys, bytes : 0..MaxBytes]

ASSUME CacheAssumption ==
  /\ Capacity \in Nat
  /\ MaxBytes \in Nat
  /\ None \notin Entry

VARIABLES
  entries,      \* entries_: the list, front first
  index,        \* index_: key -> address of its list node
  size_bytes,   \* size_bytes_
  held,         \* the pointer a caller got from Get and may still use
  used          \* the key the last Put or successful Get was for

vars == <<entries, index, size_bytes, held, used>>

EntrySet(es) == {es[i] : i \in 1..Len(es)}
KeysOf(es)   == {e.key : e \in EntrySet(es)}
AddrsOf(es)  == {e.addr : e \in EntrySet(es)}

(* The single bytes a set of entries holds; their number is the sum of the *)
(* sizes, list nodes being distinct.                                       *)
BytesOf(e)    == {e} \X (1..e.bytes)
HeldBytes(S)  == UNION {BytesOf(e) : e \in S}
ByteCount(es) == Cardinality(HeldBytes(EntrySet(es)))

(* The position of the node an iterator designates; the list without it.   *)
At(es, a) == CHOOSE i \in 1..Len(es) : es[i].addr = a
Erase(es, a) ==
  SubSeq(es, 1, At(es, a) - 1) \o SubSeq(es, At(es, a) + 1, Len(es))
PushFront(e, es) == <<e>> \o es

(* size_bytes_ after the loop has popped the list down to its first n      *)
(* nodes, and the number of nodes at which the loop stops.                 *)
SizeAt(es, size, n) == size - ByteCount(SubSeq(es, n + 1, Len(es)))
StopsAt(es, size) ==
  CHOOSE n \in 0..Len(es) :
    /\ n = 0 \/ SizeAt(es, size, n) <= Capacity
    /\ \A m \in n + 1..Len(es) : SizeAt(es, size, m) > Capacity

(* Variant: the loop drops nodes but leaves their keys in the index.       *)
EvictLeavingIndex(es, size, idx) ==
  /\ entries' = SubSeq(es, 1, StopsAt(es, size))
  /\ size_bytes' = SizeAt(es, size, StopsAt(es, size))
  /\ index' = idx

EvictUntilWithinCapacity(es, size, idx) ==
  LET n       == StopsAt(es, size)
      dropped == KeysOf(SubSeq(es, n + 1, Len(es)))
  IN /\ entries' = SubSeq(es, 1, n)
     /\ size_bytes' = SizeAt(es, size, n)
     /\ index' = [k \in DOMAIN idx \ dropped |-> idx[k]]

(* Variant: the use is not recorded.                                       *)
TouchNothing(a) == At(entries, a) > 0 /\ UNCHANGED entries

(* Variant: the resources are rotated through the nodes in place.          *)
TouchByRotating(a) ==
  LET moved == PushFront(entries[At(entries, a)], Erase(entries, a))
  IN entries' = [i \in 1..Len(entries) |-> [moved[i] EXCEPT !.addr = entries[i].addr]]

Touch(a) == entries' = PushFront(entries[At(entries, a)], Erase(entries, a))

-----------------------------------------------------------------------------

Init ==
  /\ entries = << >>
  /\ index = [k \in {} |-> None]
  /\ size_bytes = 0
  /\ held = None
  /\ used = None

(* A resource larger than the whole cache is refused; a value cached under *)
(* the same key stays.                                                     *)
PutTooLarge(k, bytes) == bytes > Capacity /\ UNCHANGED vars

(* Variant: overwriting a key does not give its bytes back.                *)
PutKeepingSize(k, bytes) ==
  LET present == k \in DOMAIN index
      rest    == IF present THEN Erase(entries, index[k]) ELSE entries
  IN /\ bytes <= Capacity
     /\ \E a \in Addrs \ AddrsOf(rest) :
          EvictUntilWithinCapacity(
            PushFront([addr |-> a, key |-> k, bytes |-> bytes], rest),
            size_bytes + bytes,
            [j \in DOMAIN index \cup {k} |-> IF j = k THEN a ELSE index[j]])
     /\ held' = None
     /\ used' = k

Put(k, bytes) ==
  LET present == k \in DOMAIN index
      rest    == IF present THEN Erase(entries, index[k]) ELSE entries
      freed   == IF present THEN entries[At(entries, index[k])].bytes ELSE 0
  IN /\ bytes <= Capacity
     /\ \E a \in Addrs \ AddrsOf(rest) :
          EvictUntilWithinCapacity(
            PushFront([addr |-> a, key |-> k, bytes |-> bytes], rest),
            size_bytes - freed + bytes,
            [j \in DOMAIN index \cup {k} |-> IF j = k THEN a ELSE index[j]])
     /\ held' = IF held # None /\ held.key # k /\ held.key \in DOMAIN index'
                  THEN held ELSE None
     /\ used' = k

(* Get of a cached key returns the front of the list, which the caller may *)
(* keep instead of an older pointer; a miss returns null.                  *)
Get(k) ==
  /\ k \in DOMAIN index
  /\ Touch(index[k])
  /\ held' \in {held, entries'[1]}
  /\ used' = k
  /\ UNCHANGED <<index, size_bytes>>

GetMiss(k) == k \notin DOMAIN index /\ UNCHANGED vars

Clear ==
  /\ entries' = << >>
  /\ index' = [k \in {} |-> None]
  /\ size_bytes' = 0
  /\ held' = None
  /\ used' = None

Next ==
  \/ \E k \in Keys, bytes \in 0..MaxBytes : PutTooLarge(k, bytes) \/ Put(k, bytes)
  \/ \E k \in Keys : Get(k) \/ GetMiss(k)
  \/ Clear

Spec == Init /\ [][Next]_vars

-----------------------------------------------------------------------------

(* Every variable has its type; in particular size_bytes_, an unsigned     *)
(* number in the code, never drops below zero.                             *)
TypeOK ==
  /\ entries \in Seq(Entry)
  /\ DOMAIN index \subseteq Keys
  /\ index \in [DOMAIN index -> Addrs]
  /\ size_bytes \in Nat
  /\ held \in Entry \cup {None}
  /\ used \in Keys \cup {None}

(* The index and the list describe the same resources: each list node has  *)
(* its own address and its own key, and the index leads from every key in  *)
(* the list, and from no other, to the node that carries it.  An entry     *)
(* evicted from one and not the other would break a later Get or Put.      *)
IndexAgrees ==
  /\ \A i, j \in 1..Len(entries) :
       i # j => /\ entries[i].key # entries[j].key
                /\ entries[i].addr # entries[j].addr
  /\ DOMAIN index = KeysOf(entries)
  /\ \A i \in 1..Len(entries) : index[entries[i].key] = entries[i].addr

(* size_bytes_ is the number of bytes the list holds, through overwrites   *)
(* and evictions, and never exceeds the capacity between calls.            *)
WithinCapacity ==
  /\ size_bytes = ByteCount(entries)
  /\ size_bytes <= Capacity

(* The pointer Get returned stays good until its key is stored again,      *)
(* evicted or cleared: later calls for other keys neither move nor change  *)
(* the resource it designates, although they reorder the list around it.   *)
HeldPointerUsable == held # None => held \in EntrySet(entries)

(* What the list says to someone who knows only the keys: the size stored  *)
(* under each, and which of two is nearer to the front.                    *)
Sizes(es, idx) == [k \in DOMAIN idx |-> es[At(es, idx[k])].bytes]
Order(es) ==
  UNION {{<<es[i].key, es[j].key>> : j \in i + 1..Len(es)} : i \in 1..Len(es)}

(* The cache is a least-recently-used cache: each operation, evictions     *)
(* included, is an operation of LruCache, where recency is the order of    *)
(* uses and not the order of a list.                                       *)
Lru == INSTANCE LruCache WITH
  stored <- Sizes(entries, index), newer <- Order(entries), last <- used

EvictsLeastRecentlyUsed == Lru!LruSpec
=============================================================================
