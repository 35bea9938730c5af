----------------------------- MODULE MCDictIter -----------------------------
(***************************************************************************)
(* Small instances of DictIter.  The answers of the dict are left out of   *)
(* the view: no property here reads them.                                  *)
(***************************************************************************)
EXTENDS DictIter, TLC

CONSTANTS k1, k2, k3, v1, i1, i2

(* k1 and k2 share a chain in tables of size 2, and part in one of 4. *)
ChainHash == Restrict(k1 :> 0 @@ k2 :> 2 @@ k3 :> 1, Keys)

SmallSizes == {2, 4, 8}

IterSymmetry == Permutations(Iters)

IterView == <<d, dict_can_resize, iterVars>>
=============================================================================
