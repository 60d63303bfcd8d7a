-------------------------- MODULE MCResourceCache --------------------------
(***************************************************************************)
(* ResourceCache for TLC: four keys, four list-node addresses, so that     *)
(* every freed address is reused at once, and a capacity of five bytes     *)
(* with sizes from zero to six: a resource of no bytes, two that fit       *)
(* together, one that displaces several and one that is refused.           *)
(***************************************************************************)
EXTENDS ResourceCache, TLC

CacheSymmetry == Permutations(Keys) \cup Permutations(Addrs)
=============================================================================
