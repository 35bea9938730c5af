------------------------------- MODULE MCDict -------------------------------
(***************************************************************************)
(* Small instances of Dict for TLC.  With an initial size of 1 the dict    *)
(* grows through the sizes 1, 2, 4 and 8 with as few keys as possible.     *)
(***************************************************************************)
EXTENDS Dict, TLC

CONSTANTS k1, k2, k3, k4, k5, v1, v2

(* All apart in a table of size 8; k1 and k2 share a slot up to size 2.    *)
SpreadHash == Restrict(k1 :> 0 @@ k2 :> 2 @@ k3 :> 1 @@ k4 :> 3 @@ k5 :> 4, Keys)

(* The last answer is left out: no call depends on it. *)
OwnView == <<d, dict_can_resize>>

FirstSizes == {1, 2, 4, 8, 16}
=============================================================================
