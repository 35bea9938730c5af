------------------------------ MODULE MCServer ------------------------------
(***************************************************************************)
(* Small instances of Server.                                              *)
(***************************************************************************)
EXTENDS Server, TLC

CONSTANTS k, v, w

OneFd == {4}

TwoFds == {4, 5}

(* Every kind of line; w is a value that reads as empty. *)
AllLines == {<<"set", k, v>>, <<"set", k, w>>, <<"get", k>>, <<"del", k>>, <<"exist", k>>,
             <<"time">>, <<"exit">>, <<Blank>>}

(* Enough for a peer to be answered, to be refused and to leave. *)
FewLines == {<<"get", k>>, <<"exit">>}

(* The histories are left out: nothing is decided by them, and the server  *)
(* serves its one descriptor with no answer before it in the same round.   *)
OwnView == <<server, pc, read_fds, conn, backlog>>
=============================================================================
