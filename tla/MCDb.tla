-------------------------------- MODULE MCDb --------------------------------
(***************************************************************************)
(* A small instance of Db: an initial size of 1, so that the tables grow   *)
(* with few keys, and answers that just fit the buffer, but for one key    *)
(* that is as long as the buffer.                                          *)
(***************************************************************************)
EXTENDS Db, TLC

CONSTANTS k1, k2, k3, k4, t1, t2, o1, o2, o3, o4

SpreadHash == Restrict(k1 :> 0 @@ k2 :> 2 @@ k3 :> 1 @@ k4 :> 3, Keys)

Lengths == [word \in Keys \cup Texts |-> IF word = k1 THEN CLIENT_BUF_SIZE ELSE 2]

FirstSizes == {1, 2, 4, 8, 16}

(* The histories are left out: no command depends on them.                 *)
OwnState == <<d, objs, sdss, held>>
=============================================================================
