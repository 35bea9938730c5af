------------------------------- MODULE MCSds -------------------------------
(***************************************************************************)
(* Instances of Sds: narrow fields, so that every length can be tried, and *)
(* the fields of the code.                                                 *)
(***************************************************************************)
EXTENDS Sds

AllLengths == 0..MaxLength

AllIndexes == (-MaxLength - 1)..(MaxLength + 1)

(* The lengths at which a narrow field wraps. *)
Wrapping == {Six, Eight}

WrappingGrown == {Eight \div 2}

(* Around the limits of the headers of the code. *)
LimitLengths == {1, 63, 64, 65, 127, 128, 255, 256, 257}
=============================================================================
