------------------------------ MODULE SdsProofs ------------------------------
(***************************************************************************)
(* Proofs about module Sds, for every width of the fields: away from the   *)
(* lengths listed in Away, strings have their length, stay within their    *)
(* memory and know how much of it there is.  Away says exactly from which  *)
(* lengths on the library is not to be trusted.                            *)
(***************************************************************************)
EXTENDS Sds, TLAPS

(* No string is created whose length is the number of values of a field,   *)
(* none is grown to half of that, where the doubled size does not fit the  *)
(* field that is chosen for it, sds_range is not given the length as the   *)
(* end, and lengths do not come near what the widest field can hold.       *)
Away == /\ {Six, Eight} \subseteq AvoidNew
        /\ \A n \in Nat : 2 * n = Eight => n \in AvoidGrown
        /\ ~PastEnd
        /\ Lengths \subseteq 0..MaxLength
        /\ 2 * MaxLength < Sixteen

(* The header describes the string, and its fields have room for it. *)
Sound(str) == /\ str = [type |-> str.type, len |-> str.len, alloc |-> str.alloc, room |-> str.room]
              /\ str.type \in {6, 8, 16}
              /\ str.len \in Nat /\ str.alloc \in Nat /\ str.room \in Nat
              /\ str.len < Width(str.type)
              /\ str.type # 6 => str.alloc < Width(str.type)
              /\ LenOf(str) <= AllocOf(str) /\ AllocOf(str) <= str.room

SdsInv == /\ Sound(s)
          /\ text \in 0..MaxLength /\ LenOf(s) = text
          /\ written \in Nat /\ written <= s.room

-----------------------------------------------------------------------------
LEMMA Widths ==
  /\ Six \in Nat /\ Eight \in Nat /\ Sixteen \in Nat /\ MaxPrealloc \in Nat /\ MaxLength \in Nat
  /\ 0 < Six /\ 2 * Six < Eight /\ 2 * Eight < Sixteen /\ Sixteen <= MaxPrealloc
  /\ Width(6) = Six /\ Width(8) = Eight /\ Width(16) = Sixteen
BY WidthAssumption, CallerAssumption DEF Width

LEMMA Fits ==
  ASSUME NEW n \in Nat, NEW w \in Nat, n < w
  PROVE  n % w = n
OBVIOUS

(* A string whose fields hold what they are given. *)
LEMMA SdsSound ==
  ASSUME NEW type \in {6, 8, 16}, NEW len \in Nat, NEW alloc \in Nat,
         len <= alloc, alloc < Width(type), type = 6 => alloc = len
  PROVE  /\ Sound(Sds(type, len, alloc, alloc))
         /\ LenOf(Sds(type, len, alloc, alloc)) = len
         /\ AllocOf(Sds(type, len, alloc, alloc)) = alloc
         /\ Sds(type, len, alloc, alloc).type = type
         /\ Sds(type, len, alloc, alloc).room = alloc
<1>1. Width(type) \in Nat
  BY Widths
<1>2. len % Width(type) = len /\ alloc % Width(type) = alloc
  BY <1>1, Fits
<1>3. Sds(type, len, alloc, alloc) = [type |-> type, len |-> len, alloc |-> alloc, room |-> alloc]
  BY <1>2 DEF Sds
<1> DEFINE str == [type |-> type, len |-> len, alloc |-> alloc, room |-> alloc]
<1>4. str.type = type /\ str.len = len /\ str.alloc = alloc /\ str.room = alloc
  OBVIOUS
<1>5. str = [type |-> str.type, len |-> str.len, alloc |-> str.alloc, room |-> str.room]
  OBVIOUS
<1> HIDE DEF str
<1>6. LenOf(str) = len /\ AllocOf(str) = alloc
  BY <1>4 DEF LenOf, AllocOf
<1>7. len < Width(type)
  BY <1>1
<1>8. Sound(str)
  BY <1>4, <1>5, <1>6, <1>7 DEF Sound
<1> QED BY <1>3, <1>4, <1>6, <1>8 DEF str

LEMMA NewLenSound ==
  ASSUME Away, NEW len \in 0..MaxLength, len # Six, len # Eight
  PROVE  Sound(NewLen(len)) /\ LenOf(NewLen(len)) = len /\ NewLen(len).room = len
<1>1. len \in Nat /\ len < Sixteen
  BY Widths DEF Away
<1>2. ReqType(len) \in {6, 8, 16} /\ len < Width(ReqType(len))
  BY <1>1, Widths DEF ReqType
<1> QED BY <1>1, <1>2, SdsSound DEF NewLen

LEMMA MaxOfTwo ==
  ASSUME NEW type \in {6, 8, 16}
  PROVE  Max({8, type}) = IF type = 6 THEN 8 ELSE type
<1>1. \E x \in {8, type} : \A y \in {8, type} : x >= y
  OBVIOUS
<1> QED BY <1>1 DEF Max

(* After sds_make_room_for there is room for the text and `add' more.      *)
LEMMA MakeRoomForSound ==
  ASSUME Away, NEW str, Sound(str), NEW add \in Nat,
         LenOf(str) + add <= MaxLength, LenOf(str) + add \notin AvoidGrown
  PROVE  /\ Sound(MakeRoomFor(str, add))
         /\ LenOf(MakeRoomFor(str, add)) = LenOf(str)
         /\ LenOf(str) + add <= AllocOf(MakeRoomFor(str, add))
         /\ LenOf(str) + add < Width(MakeRoomFor(str, add).type)
<1> DEFINE need == LenOf(str) + add
           new == 2 * need
<1>1. LenOf(str) \in Nat /\ need \in Nat /\ new \in Nat
  BY DEF Sound, LenOf
<1>2. CASE AvailOf(str) >= add
  <2>1. MakeRoomFor(str, add) = str
    BY <1>2 DEF MakeRoomFor
  <2>2. need <= AllocOf(str)
    BY <1>2 DEF Sound, AvailOf, AllocOf, LenOf
  <2>3. AllocOf(str) < Width(str.type)
    BY DEF Sound, AllocOf
  <2>4. Width(str.type) \in Nat /\ AllocOf(str) \in Nat
    BY Widths DEF Sound, AllocOf
  <2> QED BY <1>1, <2>1, <2>2, <2>3, <2>4
<1>3. CASE ~(AvailOf(str) >= add)
  <2>1. need < MaxPrealloc /\ new < Sixteen /\ new # Eight
    BY <1>1, Widths DEF Away
  <2>2. Grown(need) = new
    BY <2>1 DEF Grown
  <2> DEFINE type == Max({8, ReqType(new)})
  <2>3. type \in {8, 16} /\ new < Width(type)
    <3>1. ReqType(new) \in {6, 8, 16}
      BY DEF ReqType
    <3>2. type = IF ReqType(new) = 6 THEN 8 ELSE ReqType(new)
      BY <3>1, MaxOfTwo
    <3> QED BY <3>1, <3>2, <1>1, <2>1, Widths DEF ReqType
  <2>4. MakeRoomFor(str, add) = Sds(type, LenOf(str), new, new)
    BY <1>3, <2>2 DEF MakeRoomFor
  <2>5. LenOf(str) <= new /\ need <= new
    BY <1>1
  <2> HIDE DEF type, new
  <2>6. /\ Sound(Sds(type, LenOf(str), new, new))
        /\ LenOf(Sds(type, LenOf(str), new, new)) = LenOf(str)
        /\ AllocOf(Sds(type, LenOf(str), new, new)) = new
        /\ Sds(type, LenOf(str), new, new).type = type
    BY <1>1, <2>3, <2>5, SdsSound
  <2>7. need < Width(type)
    BY <1>1, <2>3, <2>5, Widths
  <2> QED BY <2>4, <2>5, <2>6, <2>7
<1> QED BY <1>2, <1>3

(* A length that is within the memory can be set. *)
LEMMA WithLenSound ==
  ASSUME NEW str, Sound(str), NEW len \in Nat,
         len <= AllocOf(str), len < Width(str.type)
  PROVE  /\ Sound(WithLen(str, len))
         /\ LenOf(WithLen(str, len)) = len
         /\ len <= WithLen(str, len).room
<1>1. Width(str.type) \in Nat
  BY Widths DEF Sound
<1>2. len % Width(str.type) = len
  BY <1>1, Fits
<1>3. WithLen(str, len) = [type |-> str.type, len |-> len, alloc |-> str.alloc, room |-> str.room]
  BY <1>2 DEF WithLen, Sound
<1> QED BY <1>3 DEF Sound, LenOf, AllocOf

-----------------------------------------------------------------------------
(* What sds_range keeps is what lies between its two ends. *)
LEMMA RangeIsSelected ==
  ASSUME NEW len \in Nat, len > 0, NEW start \in Int, NEW end \in Int, end # len
  PROVE  RangeLen(len, start, end) = Selected(len, start, end)
<1> DEFINE a == Shifted(start, len)
           b == Shifted(end, len)
           first == Max({a, 0})
           last == IF b > len THEN len - 1 ELSE b
           positions == {p \in 0..(len - 1) : p >= a /\ p <= b}
<1>1. a \in Int /\ b \in Int /\ b # len
  BY DEF Shifted
<1>2. first = IF a > 0 THEN a ELSE 0
  <2> HIDE DEF a
  <2>1. \E x \in {a, 0} : \A y \in {a, 0} : x >= y
    BY <1>1
  <2> QED BY <1>1, <2>1 DEF Max
<1>3. last \in Int /\ last <= len - 1 /\ first \in Int
  BY <1>1, <1>2
<1>4. positions = {p \in 0..(len - 1) : first <= p /\ p <= last}
  <2> HIDE DEF a, b, first
  <2> QED BY <1>1, <1>2
<1>5. RangeLen(len, start, end) = IF first > len \/ last < 0 \/ first > last THEN 0 ELSE last - first + 1
  BY DEF RangeLen
<1>6. Selected(len, start, end) = IF positions = {} THEN 0 ELSE Max(positions) - Min(positions) + 1
  BY DEF Selected
<1>7. first >= 0
  BY <1>1, <1>2
<1> HIDE DEF a, b, first, last, positions
<1>8. CASE first > len \/ last < 0 \/ first > last
  <2>1. positions = {}
    BY <1>3, <1>4, <1>7, <1>8
  <2> QED BY <1>5, <1>6, <1>8, <2>1
<1>9. CASE ~(first > len \/ last < 0 \/ first > last)
  <2>1. first \in positions /\ last \in positions
    BY <1>3, <1>4, <1>7, <1>9
  <2>2. \A p \in positions : p \in Int /\ first <= p /\ p <= last
    BY <1>4
  <2>3. Max(positions) = last
    <3>1. \E x \in positions : \A y \in positions : x >= y
      BY <2>1, <2>2, <1>3
    <3>2. Max(positions) \in positions /\ \A y \in positions : Max(positions) >= y
      BY <3>1 DEF Max
    <3>3. Max(positions) \in Int /\ Max(positions) >= last
      BY <3>2, <2>1, <2>2
    <3>4. last >= Max(positions)
      BY <3>2, <2>2
    <3> QED BY <3>3, <3>4, <1>3
  <2>4. Min(positions) = first
    <3>1. \E x \in positions : \A y \in positions : x <= y
      BY <2>1, <2>2, <1>3
    <3>2. Min(positions) \in positions /\ \A y \in positions : Min(positions) <= y
      BY <3>1 DEF Min
    <3>3. Min(positions) \in Int /\ Min(positions) <= first
      BY <3>2, <2>1, <2>2
    <3>4. first <= Min(positions)
      BY <3>2, <2>2
    <3> QED BY <3>3, <3>4, <1>3
  <2> QED BY <1>5, <1>6, <1>9, <2>1, <2>3, <2>4
<1> QED BY <1>8, <1>9

LEMMA RangeLenBound ==
  ASSUME NEW len \in Nat, len > 0, NEW start \in Int, NEW end \in Int, end # len
  PROVE  RangeLen(len, start, end) \in 0..len
<1> DEFINE a == Shifted(start, len)
           b == Shifted(end, len)
<1>1. a \in Int /\ b \in Int /\ b # len
  BY DEF Shifted
<1>2. Max({a, 0}) = IF a > 0 THEN a ELSE 0
  <2> HIDE DEF a
  <2>1. \E x \in {a, 0} : \A y \in {a, 0} : x >= y
    BY <1>1
  <2> QED BY <1>1, <2>1 DEF Max
<1>3. RangeLen(len, start, end) =
        LET first == Max({a, 0})
            last  == IF b > len THEN len - 1 ELSE b
        IN  IF first > len \/ last < 0 \/ first > last THEN 0 ELSE last - first + 1
  BY DEF RangeLen
<1> HIDE DEF a, b
<1> QED BY <1>1, <1>2, <1>3

-----------------------------------------------------------------------------
(* A string that is created. *)
LEMMA CreatesInv ==
  ASSUME Away, NEW len \in 0..MaxLength, Creates(len)
  PROVE  SdsInv'
<1>1. len # Six /\ len # Eight
  BY DEF Away, Creates
<1>2. Sound(NewLen(len)) /\ LenOf(NewLen(len)) = len /\ NewLen(len).room = len
  BY <1>1, NewLenSound
<1>3. s' = NewLen(len) /\ text' = len /\ written' = len
  BY DEF Creates, Becomes
<1>4. len \in Nat /\ len <= len
  BY Widths
<1> QED BY <1>2, <1>3, <1>4 DEF SdsInv, Sound, LenOf, AllocOf

(* A string that has grown by add, or is as it was, and then has another   *)
(* length set.                                                             *)
LEMMA WrittenInv ==
  ASSUME NEW str, Sound(str), NEW len \in 0..MaxLength,
         len <= AllocOf(str), len < Width(str.type),
         Becomes(WithLen(str, len), len, len)
  PROVE  SdsInv'
<1>1. len \in Nat
  BY Widths
<1>2. Sound(WithLen(str, len)) /\ LenOf(WithLen(str, len)) = len /\ len <= WithLen(str, len).room
  BY <1>1, WithLenSound
<1>3. s' = WithLen(str, len) /\ text' = len /\ written' = len
  BY DEF Becomes
<1> QED BY <1>1, <1>2, <1>3 DEF SdsInv, Sound, LenOf, AllocOf

LEMMA SdsInitInv ==
  ASSUME Away, Init
  PROVE  SdsInv
<1>1. 0 \in 0..MaxLength /\ 0 # Six /\ 0 # Eight
  BY Widths
<1>2. Sound(NewLen(0)) /\ LenOf(NewLen(0)) = 0 /\ NewLen(0).room = 0
  BY <1>1, NewLenSound
<1> QED BY <1>1, <1>2 DEF Init, SdsInv

(* A text that becomes longer: sds_cat, and sds_incr_len. *)
LEMMA LongerInv ==
  ASSUME Away, SdsInv, NEW len \in Nat,
         text + len <= MaxLength, text + len \notin AvoidGrown,
         Becomes(WithLen(MakeRoomFor(s, len), LenOf(s) + len), text + len, LenOf(s) + len)
  PROVE  SdsInv'
<1> DEFINE total == LenOf(s) + len
           roomy == MakeRoomFor(s, len)
<1>1. Sound(s) /\ LenOf(s) = text /\ text \in Nat
  BY Widths DEF SdsInv
<1>2. total <= MaxLength /\ total \notin AvoidGrown /\ total = text + len /\ total \in Nat
  BY <1>1
<1>3. Sound(roomy) /\ total <= AllocOf(roomy) /\ total < Width(roomy.type)
  BY <1>1, <1>2, MakeRoomForSound
<1>4. total \in 0..MaxLength
  BY <1>2, Widths
<1>5. Becomes(WithLen(roomy, total), total, total)
  BY <1>2
<1> HIDE DEF total, roomy
<1> QED BY <1>3, <1>4, <1>5, WrittenInv

LEMMA CopyInv ==
  ASSUME Away, SdsInv, NEW len \in Lengths, Copy(len)
  PROVE  SdsInv'
<1>1. len \in 0..MaxLength /\ len \in Nat /\ len \notin AvoidGrown
  BY Widths DEF Away, Copy
<1>2. Sound(s) /\ LenOf(s) \in Nat /\ AllocOf(s) \in Nat /\ LenOf(s) <= AllocOf(s)
  BY DEF SdsInv, Sound, LenOf, AllocOf
<1>3. CASE AllocOf(s) < len
  <2> DEFINE add == len - LenOf(s)
             roomy == MakeRoomFor(s, add)
  <2>1. add \in Nat /\ LenOf(s) + add = len /\ len <= MaxLength
    BY <1>1, <1>2, <1>3, Widths
  <2>2. Becomes(WithLen(roomy, len), len, len)
    BY <1>3 DEF Copy
  <2> HIDE DEF add
  <2>3. Sound(roomy) /\ len <= AllocOf(roomy) /\ len < Width(roomy.type)
    BY <1>1, <1>2, <2>1, MakeRoomForSound
  <2> HIDE DEF roomy
  <2> QED BY <1>1, <2>2, <2>3, WrittenInv
<1>4. CASE ~(AllocOf(s) < len)
  <2>1. len <= AllocOf(s)
    BY <1>1, <1>2, <1>4
  <2>2. AllocOf(s) < Width(s.type)
    BY <1>2 DEF Sound, AllocOf
  <2>3. len < Width(s.type)
    BY <1>1, <1>2, <2>1, <2>2, Widths DEF Sound
  <2>4. Becomes(WithLen(s, len), len, len)
    BY <1>4 DEF Copy
  <2> QED BY <1>1, <1>2, <2>1, <2>3, <2>4, WrittenInv
<1> QED BY <1>3, <1>4

(* A text that becomes no longer: sds_trim, and sds_range. *)
LEMMA ShorterInv ==
  ASSUME SdsInv, NEW len \in Nat, len <= LenOf(s),
         Becomes(WithLen(s, len), len, len)
  PROVE  SdsInv'
<1>1. Sound(s) /\ LenOf(s) \in 0..MaxLength /\ AllocOf(s) \in Nat /\ LenOf(s) <= AllocOf(s)
  BY DEF SdsInv, Sound, LenOf, AllocOf
<1>2. len \in 0..MaxLength /\ len <= AllocOf(s)
  BY <1>1, Widths
<1>3. LenOf(s) < Width(s.type)
  BY DEF SdsInv, Sound, LenOf
<1>4. len < Width(s.type)
  BY <1>1, <1>3, Widths DEF Sound
<1> QED BY <1>1, <1>2, <1>4, WrittenInv

LEMMA SubstringInv ==
  ASSUME Away, SdsInv, NEW start \in Indexes, NEW end \in Indexes, Substring(start, end)
  PROVE  SdsInv'
<1> DEFINE len == RangeLen(LenOf(s), start, end)
<1>1. start \in Int /\ end \in Int
  BY CallerAssumption
<1>2. LenOf(s) \in Nat /\ LenOf(s) > 0 /\ end # LenOf(s) /\ text = LenOf(s)
  BY Widths DEF SdsInv, Substring, Away
<1>3. len = Selected(text, start, end) /\ len \in 0..LenOf(s)
  BY <1>1, <1>2, RangeIsSelected, RangeLenBound
<1>4. Becomes(WithLen(s, len), len, len)
  BY <1>3 DEF Substring
<1> HIDE DEF len
<1>5. len \in Nat /\ len <= LenOf(s)
  BY <1>2, <1>3
<1> QED BY <1>4, <1>5, ShorterInv

LEMMA SdsNextInv ==
  ASSUME Away, SdsInv, [Next]_vars
  PROVE  SdsInv'
<1>1. ASSUME NEW len \in Lengths, New(len)
      PROVE  SdsInv'
  <2>1. len \in 0..MaxLength
    BY DEF Away
  <2> QED BY <1>1, <2>1, CreatesInv DEF New
<1>2. CASE Dup
  <2>1. LenOf(s) \in 0..MaxLength
    BY DEF SdsInv
  <2> QED BY <1>2, <2>1, CreatesInv DEF Dup
<1>3. ASSUME NEW len \in Lengths, Cat(len)
      PROVE  SdsInv'
  BY <1>3, LongerInv, CallerAssumption DEF Cat
<1>4. ASSUME NEW len \in Lengths, IncrLen(len)
      PROVE  SdsInv'
  BY <1>4, LongerInv, CallerAssumption DEF IncrLen
<1>5. ASSUME NEW len \in Lengths, Copy(len)
      PROVE  SdsInv'
  BY <1>5, CopyInv
<1>6. ASSUME NEW len \in Lengths, Trim(len)
      PROVE  SdsInv'
  BY <1>6, ShorterInv, CallerAssumption DEF Trim
<1>7. ASSUME NEW start \in Indexes, NEW end \in Indexes, Substring(start, end)
      PROVE  SdsInv'
  BY <1>7, SubstringInv
<1>8. CASE UNCHANGED vars
  BY <1>8 DEF vars, SdsInv, Sound, LenOf, AllocOf
<1> QED BY <1>1, <1>2, <1>3, <1>4, <1>5, <1>6, <1>7, <1>8 DEF Next

(* Away from the lengths of Away the header describes the string, whatever *)
(* is done to it.                                                          *)
THEOREM SdsInvariant ==
  ASSUME Away
  PROVE  Spec => []SdsInv
<1>1. Init => SdsInv
  BY SdsInitInv
<1>2. SdsInv /\ [Next]_vars => SdsInv'
  BY SdsNextInv
<1> QED BY <1>1, <1>2, PTL DEF Spec

(* LengthIsTrue, for every width of the fields. *)
THEOREM LengthsAreTrue ==
  ASSUME Away
  PROVE  Spec => []LengthIsTrue
<1>1. SdsInv => LengthIsTrue
  BY DEF SdsInv, LengthIsTrue
<1> QED BY <1>1, SdsInvariant, PTL

(* WritesFit: no operation of the library writes behind a string. *)
THEOREM NothingIsWrittenBehind ==
  ASSUME Away
  PROVE  Spec => []WritesFit
<1>1. SdsInv => WritesFit
  BY DEF SdsInv, WritesFit
<1> QED BY <1>1, SdsInvariant, PTL

(* AllocIsHonest: the header knows the memory. *)
THEOREM AllocsAreHonest ==
  ASSUME Away
  PROVE  Spec => []AllocIsHonest
<1>1. SdsInv => AllocIsHonest
  BY DEF SdsInv, Sound, AllocIsHonest
<1> QED BY <1>1, SdsInvariant, PTL
=============================================================================
