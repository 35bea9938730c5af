----------------------------- MODULE KvService -----------------------------
(***************************************************************************)
(* What ArenaDB promises its clients: a table from keys to values, and     *)
(* commands that read and change it one at a time.  Connections, receive   *)
(* buffers, the memory of the words and the loop of net.c are invisible.   *)
(*                                                                         *)
(* answer is what the last command was answered, [words, text], or NULL    *)
(* when nothing was sent: it was no command, or its answer got lost.  An   *)
(* answer may get lost when a connection is broken; an empty one is never  *)
(* sent.  The command is done all the same.                                *)
(***************************************************************************)
CONSTANTS Keys, Vals, NULL,
          Mute        \* the values that read as empty

VARIABLES table,    \* table[key] is the value SET under key, or NULL
          answer,
          broken    \* input: whether some connection is, or has been, broken

vars == <<table, answer>>

Reply(words, text) ==
  \/ text \notin Mute /\ answer' = [words |-> words, text |-> text]
  \/ (broken \/ text \in Mute) /\ answer' = NULL

Init == /\ table = [key \in Keys |-> NULL]
        /\ answer = NULL

Get(key) == /\ Reply(<<"get", key>>, IF table[key] = NULL THEN "missing" ELSE table[key])
            /\ UNCHANGED table

(* SET never overwrites: a key that has a value keeps it. *)
Set(key, val) ==
  IF table[key] = NULL
  THEN /\ table' = [table EXCEPT ![key] = val]
       /\ Reply(<<"set", key, val>>, "ok")
  ELSE /\ Reply(<<"set", key, val>>, "present")
       /\ UNCHANGED table

Del(key) == /\ table' = [table EXCEPT ![key] = NULL]
            /\ Reply(<<"del", key>>, IF table[key] = NULL THEN "missing" ELSE "ok")

Exist(key) == /\ Reply(<<"exist", key>>, IF table[key] = NULL THEN "no" ELSE "yes")
              /\ UNCHANGED table

Time == /\ Reply(<<"time">>, "time")
        /\ UNCHANGED table

(* Anything that is not a command changes nothing. *)
Refuse == /\ answer' # NULL /\ answer'.text \in {"error", "none"}
          /\ UNCHANGED table

Quiet == /\ answer' = NULL
         /\ UNCHANGED table

Next == \/ \E key \in Keys : Get(key) \/ Del(key) \/ Exist(key)
        \/ \E key \in Keys, val \in Vals : Set(key, val)
        \/ Time \/ Refuse \/ Quiet

Spec == Init /\ [][Next]_vars
=============================================================================
