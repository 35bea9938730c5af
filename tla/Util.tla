-------------------------------- MODULE Util --------------------------------
(***************************************************************************)
(* The conversion of integers to text of src/util.c.  A text is a sequence *)
(* of characters, of which the digits are the numbers below Base.          *)
(***************************************************************************)
EXTENDS Integers, SequencesExt

CONSTANTS Base,     \* 10
          Minus,    \* the character '-'
          LlValues  \* how many values a long long has: 2^64

ASSUME BaseAssumption == /\ Base \in Nat /\ Base > 1 /\ Minus \notin 0..(Base - 1)
                         /\ LlValues \in Nat \ {0} /\ LlValues % 2 = 0

LongLongs == -(LlValues \div 2)..(LlValues \div 2 - 1)

(* The loop: the digits of a number, the last one first.                   *)
Digits[n \in Nat] ==
  <<n % Base>> \o (IF n \div Base = 0 THEN <<>> ELSE Digits[n \div Base])

(* The minus of a long long, as the build negates it: the least one has no *)
(* opposite and comes back as itself.                                      *)
Negated(val) == IF -val \in LongLongs THEN -val ELSE -val - LlValues

(* Mutant: the magnitude gets a bit too few.                               *)
MagnitudeNarrow(val) ==
  (IF val > 0 THEN val ELSE Negated(val)) % (LlValues \div 2)

(* A long long becomes an unsigned one.                                    *)
Magnitude(val) == (IF val > 0 THEN val ELSE Negated(val)) % LlValues

(* util_convert_ll_to_str                                                  *)
LlToStr(val) ==
  LET digits == Digits[Magnitude(val)]
  IN  Reverse(IF val < 0 THEN Append(digits, Minus) ELSE digits)

(* What digits mean in the usual notation, the last one counting 1.        *)
Value[digits \in Seq(0..(Base - 1))] ==
  IF digits = <<>> THEN 0 ELSE Value[Front(digits)] * Base + Last(digits)

(* What a text means.                                                      *)
NumberOf(text) == IF text[1] = Minus THEN -Value[Tail(text)] ELSE Value[text]
=============================================================================
