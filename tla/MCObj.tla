------------------------------- MODULE MCObj -------------------------------
(***************************************************************************)
(* A small instance of Obj, with binary numbers.                           *)
(***************************************************************************)
EXTENDS Obj

(* Long longs of four bits, where a pointer has three; -1, 0, 1 are shared. *)
NarrowNumbers == {-8, -5, -4, -2, -1, 1, 2, 4}

NarrowMin == -4

FewTexts == {<<>>, <<1, 0>>}

FewIds == 0..(SHARED_INTEGERS + 1)

SharedFirst == [i \in 0..(SHARED_INTEGERS - 1) |-> i]

=============================================================================
