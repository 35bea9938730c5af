------------------------------ MODULE DictMap ------------------------------
(***************************************************************************)
(* What a dict promises its callers: a finite map from keys to values.     *)
(* The incremental rehashing of src/dict.c, its two hash tables and the    *)
(* iterators that pause it are invisible here; a maintenance call is a     *)
(* stuttering step.  Module Dict is shown to implement this specification. *)
(*                                                                         *)
(* reply records the last call that answered its caller: which operation,  *)
(* on which key, with which result.                                        *)
(***************************************************************************)
CONSTANTS Keys, Vals, NULL

VARIABLES map,      \* map[key] is the value bound to key, or NULL
          reply     \* the last answer, [op, key, ret]

vars == <<map, reply>>

Answer(op, key, ret) == [op |-> op, key |-> key, ret |-> ret]

Bound(key) == map[key] # NULL

Entry(key) == IF Bound(key) THEN [key |-> key, val |-> map[key]] ELSE NULL

Init == /\ map = [key \in Keys |-> NULL]
        /\ reply = Answer("create", NULL, NULL)

(* A failed add leaves the binding that is there alone. *)
Add(key, val) ==
  /\ map' = IF Bound(key) THEN map ELSE [map EXCEPT ![key] = val]
  /\ reply' = Answer("add", key, IF Bound(key) THEN "ERR" ELSE "OK")

AddOrReplace(key, val) ==
  /\ map' = [map EXCEPT ![key] = val]
  /\ reply' = Answer("put", key, IF Bound(key) THEN "REPLACED" ELSE "ADDED")

Find(key) == /\ reply' = Answer("find", key, Entry(key))
             /\ UNCHANGED map

FetchValue(key) == /\ reply' = Answer("fetch", key, map[key])
                   /\ UNCHANGED map

Delete(key) == /\ map' = [map EXCEPT ![key] = NULL]
               /\ reply' = Answer("delete", key, IF Bound(key) THEN "OK" ELSE "ERR")

Unlink(key) == /\ map' = [map EXCEPT ![key] = NULL]
               /\ reply' = Answer("unlink", key, Entry(key))

(* The dict is released and a new one is created in its place. *)
Recreate == Init'

Next == \/ \E key \in Keys, val \in Vals : Add(key, val) \/ AddOrReplace(key, val)
        \/ \E key \in Keys : Find(key) \/ FetchValue(key) \/ Delete(key) \/ Unlink(key)
        \/ Recreate

Spec == Init /\ [][Next]_vars
=============================================================================
