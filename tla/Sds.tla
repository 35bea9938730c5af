-------------------------------- MODULE Sds --------------------------------
(***************************************************************************)
(* The dynamic strings of src/sds.c, by their lengths: which header a      *)
(* string has, what its fields hold, how much memory lies behind it.       *)
(*                                                                         *)
(* A field is as wide as its header has it, and keeps what fits.  For each *)
(* string text is the length it ought to have, which the operations of the *)
(* library define one after the other, and written how far the last        *)
(* operation wrote into it, not counting the null character at the end.    *)
(*                                                                         *)
(* The widths are parameters.  In the code Six, Eight, Sixteen are 2^6,    *)
(* 2^8, 2^16 and MaxPrealloc is 2^20.                                      *)
(***************************************************************************)
EXTENDS Integers, FiniteSetsExt

CONSTANTS
  Six, Eight, Sixteen,  \* how many values the length field of each header has
  MaxPrealloc,          \* SDS_MAX_PREALLOC
  Lengths,              \* the lengths callers pass
  Indexes,              \* the indexes callers pass to sds_range
  AvoidNew,             \* lengths with which no caller creates a string
  AvoidGrown,           \* lengths to which no caller extends one
  PastEnd,              \* whether callers pass sds_range an end equal to the length
  MaxLength             \* bound on the lengths of strings

ASSUME WidthAssumption == /\ Six \in Nat \ {0} /\ Eight \in Nat /\ Sixteen \in Nat
                          /\ 2 * Six < Eight /\ 2 * Eight < Sixteen
                          /\ Sixteen <= MaxPrealloc /\ MaxPrealloc \in Nat

ASSUME CallerAssumption == /\ Lengths \subseteq Nat /\ Indexes \subseteq Int
                           /\ AvoidNew \subseteq Nat /\ AvoidGrown \subseteq Nat
                           /\ PastEnd \in BOOLEAN /\ MaxLength \in Nat

VARIABLES s,       \* the string: header type, header fields, bytes of memory for the text
          text,    \* history: the length the string ought to have
          written  \* history: how far the last operation wrote

vars == <<s, text, written>>

Width(type) == CASE type = 6 -> Six [] type = 8 -> Eight [] type = 16 -> Sixteen

(* Mutant: a length field is taken to hold one value more.                 *)
ReqTypeLoose(size) == IF size <= Six + 1 THEN 6 ELSE IF size <= Eight THEN 8 ELSE 16

(* sds_req_type                                                            *)
ReqType(size) == IF size <= Six THEN 6 ELSE IF size <= Eight THEN 8 ELSE 16

Sds(type, len, alloc, room) ==
  [type |-> type, len |-> len % Width(type), alloc |-> alloc % Width(type), room |-> room]

(* sds_len; sds_get_alloc, the length itself for a header without the      *)
(* field; sds_avail, converted to size_t.                                  *)
LenOf(str) == str.len

AllocOf(str) == IF str.type = 6 THEN str.len ELSE str.alloc

Unlimited == 2 * Sixteen

AvailOf(str) == IF str.type = 6 THEN 0
                ELSE IF str.alloc >= str.len THEN str.alloc - str.len
                ELSE Unlimited

(* sds_set_len                                                             *)
WithLen(str, len) == [str EXCEPT !.len = len % Width(str.type)]

(* sds_new_len                                                             *)
NewLen(len) == Sds(ReqType(len), len, len, len)

(* How much sds_make_room_for allocates for a text of length len.          *)
Grown(len) == IF len < MaxPrealloc THEN 2 * len ELSE len + MaxPrealloc

(* Mutant: the space that is taken already is not counted.                 *)
MakeRoomForTaken(str, add) ==
  LET new == Grown(LenOf(str) + add)
  IN  IF AllocOf(str) >= add THEN str ELSE Sds(Max({8, ReqType(new)}), LenOf(str), new, new)

(* Mutant: the alloc field stays as it is when the memory is reallocated.  *)
MakeRoomForStaleAlloc(str, add) ==
  LET new == Grown(LenOf(str) + add)
  IN  IF AvailOf(str) >= add THEN str
      ELSE Sds(Max({8, ReqType(new)}), LenOf(str), AllocOf(str), new)

(* sds_make_room_for: the header it allocates has an alloc field.          *)
MakeRoomFor(str, add) ==
  LET new == Grown(LenOf(str) + add)
  IN  IF AvailOf(str) >= add THEN str
      ELSE Sds(Max({8, ReqType(new)}), LenOf(str), new, new)

(* Where sds_range finds the substring end, -1 for none.                   *)
Shifted(index, len) == IF index < 0 THEN len + index ELSE index

RangeLen(len, start, end) ==
  LET first == Max({Shifted(start, len), 0})
      last  == IF Shifted(end, len) > len THEN len - 1 ELSE Shifted(end, len)
  IN  IF first > len \/ last < 0 \/ first > last THEN 0 ELSE last - first + 1

-----------------------------------------------------------------------------
Becomes(str, len, extent) == /\ s' = str
                             /\ text' = len
                             /\ written' = extent

Creates(len) == len \notin AvoidNew /\ Becomes(NewLen(len), len, len)

(* sds_new_empty *)
Init == s = NewLen(0) /\ text = 0 /\ written = 0

(* sds_new_len, sds_new, sds_from_longlong; sds_dup *)
New(len) == Creates(len)

Dup == Creates(LenOf(s))

(* sds_cat_len, sds_cat, sds_cat_vprintf *)
Cat(len) ==
  LET roomy == MakeRoomFor(s, len)
      total == LenOf(s) + len
  IN  /\ text + len <= MaxLength /\ text + len \notin AvoidGrown
      /\ Becomes(WithLen(roomy, total), text + len, total)

(* sds_make_room_for, then the caller writes and calls sds_incr_len, which *)
(* asserts that the space is there.                                        *)
IncrLen(len) ==
  LET roomy == MakeRoomFor(s, len)
      total == LenOf(s) + len
  IN  /\ text + len <= MaxLength /\ text + len \notin AvoidGrown
      /\ len > 0 /\ roomy.type # 6 /\ AvailOf(roomy) >= len
      /\ Becomes(WithLen(roomy, total), text + len, total)

(* sds_copy_len, sds_copy *)
Copy(len) ==
  LET roomy == IF AllocOf(s) < len THEN MakeRoomFor(s, len - LenOf(s)) ELSE s
  IN  /\ len \notin AvoidGrown
      /\ Becomes(WithLen(roomy, len), len, len)

(* sds_trim leaves some of the characters.                                 *)
Trim(len) == /\ len <= LenOf(s)
             /\ Becomes(WithLen(s, len), len, len)

(* The length of the characters start..end of a text, counted from the end *)
(* when negative, as far as there are such characters.                     *)
Selected(len, start, end) ==
  LET positions == {p \in 0..(len - 1) : /\ p >= Shifted(start, len)
                                         /\ p <= Shifted(end, len)}
  IN  IF positions = {} THEN 0 ELSE Max(positions) - Min(positions) + 1

(* sds_range *)
Substring(start, end) ==
  LET len == RangeLen(LenOf(s), start, end)
  IN  /\ LenOf(s) > 0
      /\ PastEnd \/ end # LenOf(s)
      /\ Becomes(WithLen(s, len), Selected(text, start, end), len)

Next == \/ \E len \in Lengths : New(len) \/ Cat(len) \/ IncrLen(len) \/ Copy(len) \/ Trim(len)
        \/ Dup
        \/ \E start, end \in Indexes : Substring(start, end)

Spec == Init /\ [][Next]_vars

-----------------------------------------------------------------------------
(* Properties. *)

(* The length a string reports is the length of its text, whatever header  *)
(* it has come to and whatever was done to it (sds.h:20-41, 56-69).        *)
LengthIsTrue == LenOf(s) = text

(* No operation writes behind the memory of the string: neither because it *)
(* took space for free that is not, nor because a field has lost the upper *)
(* bits of a size (sds.c:181-240, 314-327, 365-400).                       *)
WritesFit == written <= s.room

(* What the header says of the memory is so: the text lies within alloc,   *)
(* and alloc within the memory (sds.h:26-41; sds.c:181-225).               *)
AllocIsHonest == /\ LenOf(s) <= AllocOf(s)
                 /\ AllocOf(s) <= s.room
=============================================================================
