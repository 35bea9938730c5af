------------------------------ MODULE ObjProofs ------------------------------
(***************************************************************************)
(* Proofs about module Obj, for any number of objects, any numbers and     *)
(* texts, and any reference count that means shared.                       *)
(*                                                                         *)
(* The reference counts are right because the objects are, and the other   *)
(* way round: that an object a caller holds is there (CountsAreHeld) is    *)
(* needed for a step to keep the types, and that the strings have owners   *)
(* (SdsHaveOneOwner) for the string that goes with an object not to be     *)
(* that of another.                                                        *)
(*                                                                         *)
(* That the text of a number means the number is an induction on its       *)
(* digits.  It is done with sets: among the numbers for which it fails     *)
(* there would be a least one.                                             *)
(***************************************************************************)
EXTENDS Obj, WellFoundedInduction, TLAPS

(* The objects made at the start stay shared. *)
SharedStay == \A id \in SharedIds : IsShared(objs[id])

ObjInv == ObjTypeOK /\ SharedStay /\ CountsAreHeld /\ SdsHaveOneOwner

(* The object is one the type invariant allows. *)
IsObject(o, strings) ==
  /\ o = Object(o.encoding, o.ptr, o.ref_count)
  /\ o.encoding \in {"sds", "embsds", "int"}
  /\ o.encoding = "sds" => o.ptr \in strings
  /\ o.encoding = "int" => o.ptr \in Int
  /\ o.ref_count \in 1..SHARED_REFCOUNT

-----------------------------------------------------------------------------
(* The index of a shared integer is within the array (obj.c:136-138): the  *)
(* bounds tested are those of the array because its size is odd.           *)
THEOREM SharedIndexInBounds ==
  ASSUME NEW val \in MinShared..MaxShared
  PROVE  /\ val - MinShared \in 0..(SHARED_INTEGERS - 1)
         /\ SharedInteger(val) \in SharedIds
<1>1. SHARED_INTEGERS \in Nat /\ SHARED_INTEGERS % 2 = 1
  BY SharedAssumption
<1>2. SHARED_INTEGERS = 2 * (SHARED_INTEGERS \div 2) + 1
  BY <1>1
<1>3. DOMAIN SharedAt = 0..(SHARED_INTEGERS - 1)
  BY SharedAssumption DEF Injection
<1>4. val - MinShared \in 0..(SHARED_INTEGERS - 1)
  BY <1>1, <1>2 DEF MinShared, MaxShared
<1> QED
  BY <1>3, <1>4 DEF SharedInteger, SharedIds, Range

LEMMA SharedFacts ==
  /\ SHARED_REFCOUNT \in Nat /\ SHARED_REFCOUNT > 1
  /\ SharedIds \subseteq Ids
  /\ MinShared \in Int
  /\ \A id \in SharedIds : AntiFunction(SharedAt)[id] \in Int
<1>1. SHARED_REFCOUNT \in Nat /\ SHARED_REFCOUNT > 1 /\ SHARED_INTEGERS \in Nat
  BY SharedAssumption
<1>2. SharedAt \in [0..(SHARED_INTEGERS - 1) -> Ids]
  BY SharedAssumption DEF Injection
<1>3. SharedIds \subseteq Ids
  BY <1>2 DEF SharedIds, Range
<1>4. MinShared \in Int
  BY <1>1 DEF MinShared
<1>5. ASSUME NEW id \in SharedIds PROVE AntiFunction(SharedAt)[id] \in Int
  <2>1. PICK i \in DOMAIN SharedAt : SharedAt[i] = id
    BY DEF SharedIds, Range
  <2>2. AntiFunction(SharedAt)[id] = CHOOSE s \in DOMAIN SharedAt : id \in Range(SharedAt) => SharedAt[s] = id
    BY DEF AntiFunction, Inverse, SharedIds
  <2>3. AntiFunction(SharedAt)[id] \in DOMAIN SharedAt
    BY <2>1, <2>2
  <2> QED BY <2>3, <1>1, <1>2
<1> QED BY <1>1, <1>3, <1>4, <1>5

LEMMA ObjTypeByObject ==
  ObjTypeOK <=> /\ Live \subseteq Ids /\ SharedIds \subseteq Live
                /\ \A id \in Live : IsObject(objs[id], DOMAIN sdss)
                /\ DOMAIN sdss \subseteq Ids
                /\ held \in [Ids -> Nat]
BY DEF ObjTypeOK, IsObject

LEMMA ObjTypeByObjectNext ==
  ObjTypeOK' <=> /\ Live' \subseteq Ids /\ SharedIds \subseteq Live'
                 /\ \A id \in Live' : IsObject(objs'[id], DOMAIN sdss')
                 /\ DOMAIN sdss' \subseteq Ids
                 /\ held' \in [Ids -> Nat]
BY DEF ObjTypeOK, IsObject

LEMMA ObjectFields ==
  ASSUME NEW encoding, NEW ptr, NEW ref_count
  PROVE  /\ Object(encoding, ptr, ref_count).encoding = encoding
         /\ Object(encoding, ptr, ref_count).ptr = ptr
         /\ Object(encoding, ptr, ref_count).ref_count = ref_count
BY DEF Object

-----------------------------------------------------------------------------
LEMMA InitInv == Init => ObjInv
<1> SUFFICES ASSUME Init PROVE ObjInv
  OBVIOUS
<1>1. Live = SharedIds /\ DOMAIN sdss = {} /\ \A id \in Ids : held[id] = 0
  BY DEF Init, Live
<1>2. ASSUME NEW id \in SharedIds
      PROVE  /\ objs[id] = Object("int", MinShared + AntiFunction(SharedAt)[id], SHARED_REFCOUNT)
             /\ MinShared + AntiFunction(SharedAt)[id] \in Int
  BY SharedFacts DEF Init
<1>3. \A id \in SharedIds : IsObject(objs[id], DOMAIN sdss) /\ IsShared(objs[id])
                            /\ objs[id].encoding = "int"
  BY <1>2, ObjectFields, SharedFacts DEF IsObject, IsShared
<1>4. ObjTypeOK
  BY <1>1, <1>3, SharedFacts, ObjTypeByObject DEF Init
<1>5. SharedStay
  BY <1>3 DEF SharedStay
<1>6. CountsAreHeld
  BY <1>1, <1>3, SharedFacts DEF CountsAreHeld, Live
<1>7. SdsHaveOneOwner
  BY <1>1, <1>3 DEF SdsHaveOneOwner
<1> QED BY <1>4, <1>5, <1>6, <1>7 DEF ObjInv

(* A new object that brings its own string, or none. *)
LEMMA CreateWholeInv ==
  ASSUME ObjInv, NEW encoding \in {"embsds", "int"}, NEW ptr, NEW asked,
         encoding = "int" => ptr \in Int,
         CreateWhole(encoding, ptr, asked)
  PROVE  ObjInv'
<1>1. PICK id \in Free(objs) : /\ objs' = With(objs, id, Object(encoding, ptr, 1))
                               /\ held' = [held EXCEPT ![id] = @ + 1]
                               /\ sdss' = sdss
  BY DEF CreateWhole, Gives
<1>2. id \in Ids /\ id \notin Live
  BY <1>1 DEF Free, Live
<1>3. /\ Live' = Live \cup {id}
      /\ objs'[id] = Object(encoding, ptr, 1)
      /\ \A i \in Live : objs'[i] = objs[i]
  BY <1>1, <1>2 DEF With, Live
<1>4. held \in [Ids -> Nat] /\ held[id] = 0
  BY <1>2 DEF ObjInv, ObjTypeOK, CountsAreHeld
<1>5. /\ held' \in [Ids -> Nat] /\ held'[id] = 1
      /\ \A i \in Ids \ {id} : held'[i] = held[i]
  BY <1>1, <1>2, <1>4
<1>6. IsObject(objs'[id], DOMAIN sdss') /\ objs'[id].encoding # "sds" /\ objs'[id].ref_count = 1
  BY <1>3, ObjectFields, SharedFacts DEF IsObject
<1>7. ObjTypeOK'
  BY <1>1, <1>2, <1>3, <1>5, <1>6, ObjTypeByObject, ObjTypeByObjectNext DEF ObjInv
<1>8. SharedStay'
  BY <1>3 DEF ObjInv, SharedStay, ObjTypeOK, IsShared
<1>9. CountsAreHeld'
  BY <1>3, <1>5, <1>6 DEF ObjInv, CountsAreHeld, IsShared
<1>10. SdsHaveOneOwner'
  BY <1>1, <1>2, <1>3, <1>6 DEF ObjInv, SdsHaveOneOwner
<1> QED BY <1>7, <1>8, <1>9, <1>10 DEF ObjInv

(* A new object with a new sds string. *)
LEMMA CreateSdsInv ==
  ASSUME ObjInv, NEW text, NEW asked, CreateSds(text, asked)
  PROVE  ObjInv'
<1>1. PICK id \in Free(objs), s \in Free(sdss) :
        /\ objs' = With(objs, id, Object("sds", s, 1))
        /\ sdss' = With(sdss, s, text)
        /\ held' = [held EXCEPT ![id] = @ + 1]
  BY DEF CreateSds, Gives
<1>2. id \in Ids /\ id \notin Live /\ s \in Ids /\ s \notin DOMAIN sdss
  BY <1>1 DEF Free, Live
<1>3. /\ Live' = Live \cup {id}
      /\ objs'[id] = Object("sds", s, 1)
      /\ \A i \in Live : objs'[i] = objs[i]
      /\ DOMAIN sdss' = DOMAIN sdss \cup {s}
  BY <1>1, <1>2 DEF With, Live
<1>4. held \in [Ids -> Nat] /\ held[id] = 0
  BY <1>2 DEF ObjInv, ObjTypeOK, CountsAreHeld
<1>5. /\ held' \in [Ids -> Nat] /\ held'[id] = 1
      /\ \A i \in Ids \ {id} : held'[i] = held[i]
  BY <1>1, <1>2, <1>4
<1>6. /\ IsObject(objs'[id], DOMAIN sdss') /\ objs'[id].encoding = "sds"
      /\ objs'[id].ptr = s /\ objs'[id].ref_count = 1
  BY <1>3, ObjectFields, SharedFacts DEF IsObject
<1>7. ObjTypeOK'
  <2>1. \A i \in Live : IsObject(objs'[i], DOMAIN sdss')
    BY <1>3, ObjTypeByObject DEF ObjInv, IsObject
  <2> QED BY <2>1, <1>2, <1>3, <1>5, <1>6, ObjTypeByObject, ObjTypeByObjectNext DEF ObjInv
<1>8. SharedStay'
  BY <1>3 DEF ObjInv, SharedStay, ObjTypeOK, IsShared
<1>9. CountsAreHeld'
  BY <1>3, <1>5, <1>6 DEF ObjInv, CountsAreHeld, IsShared
<1>10. SdsHaveOneOwner'
  <2>1. \A i \in Live : ~(objs[i].encoding = "sds" /\ objs[i].ptr = s)
    BY <1>2 DEF ObjInv, SdsHaveOneOwner
  <2>2. ASSUME NEW i \in Live', NEW t \in Ids \ DOMAIN sdss'
        PROVE  ~(objs'[i].encoding = "sds" /\ objs'[i].ptr = t)
    BY <1>3, <1>6 DEF ObjInv, SdsHaveOneOwner
  <2>3. ASSUME NEW t \in DOMAIN sdss'
        PROVE  \E o \in Live' : \A i \in Live' :
                 (objs'[i].encoding = "sds" /\ objs'[i].ptr = t) <=> i = o
    <3>1. CASE t = s
      BY <3>1, <2>1, <1>2, <1>3, <1>6
    <3>2. CASE t \in DOMAIN sdss
      <4>1. PICK o \in Live : \A i \in Live : (objs[i].encoding = "sds" /\ objs[i].ptr = t) <=> i = o
        BY <3>2 DEF ObjInv, SdsHaveOneOwner
      <4> QED BY <4>1, <3>2, <1>2, <1>3, <1>6
    <3> QED BY <3>1, <3>2, <1>3
  <2> QED BY <2>2, <2>3 DEF SdsHaveOneOwner
<1> QED BY <1>7, <1>8, <1>9, <1>10 DEF ObjInv

LEMMA CreateFromLlInv ==
  ASSUME ObjInv, NEW val \in Numbers, NEW try_shared \in BOOLEAN, CreateFromLl(val, try_shared)
  PROVE  ObjInv'
<1>1. val \in Int /\ val \in LongLongs
  BY ValueAssumption, BaseAssumption DEF LongLongs
<1>2. CASE /\ try_shared /\ val \in MinShared..MaxShared
           /\ Gives(SharedInteger(val), Number(val))
           /\ UNCHANGED <<objs, sdss>>
  <2> DEFINE id == SharedInteger(val)
  <2>1. id \in SharedIds
    BY <1>2, SharedIndexInBounds
  <2>2. id \in Ids /\ id \in Live /\ IsShared(objs[id]) /\ held \in [Ids -> Nat]
    BY <2>1, SharedFacts DEF ObjInv, ObjTypeOK, SharedStay
  <2>3. held' = [held EXCEPT ![id] = @ + 1] /\ objs' = objs /\ sdss' = sdss
    BY <1>2 DEF Gives
  <2>4. held' \in [Ids -> Nat] /\ \A i \in Ids \ {id} : held'[i] = held[i]
    BY <2>2, <2>3
  <2>5. ObjTypeOK'
    BY <2>3, <2>4 DEF ObjInv, ObjTypeOK, Live
  <2>6. SharedStay' /\ SdsHaveOneOwner'
    BY <2>3 DEF ObjInv, SharedStay, SdsHaveOneOwner, Live, IsShared
  <2>7. CountsAreHeld'
    BY <2>2, <2>3, <2>4 DEF ObjInv, CountsAreHeld, Live, IsShared
  <2> QED BY <2>5, <2>6, <2>7 DEF ObjInv
<1>3. CASE CreateWhole("int", val, Number(val))
  BY <1>1, <1>3, CreateWholeInv
<1>4. CASE CreateSds(LlToStr(val), Number(val))
  BY <1>4, CreateSdsInv
<1> QED BY <1>2, <1>3, <1>4 DEF CreateFromLl

(* A step that changes the counts alone keeps the types and the owners.    *)
LEMMA CountsAlone ==
  ASSUME ObjInv, NEW id \in Live, NEW count \in 1..SHARED_REFCOUNT,
         objs' = [objs EXCEPT ![id].ref_count = count],
         sdss' = sdss, held' \in [Ids -> Nat]
  PROVE  /\ ObjTypeOK' /\ SdsHaveOneOwner'
         /\ Live' = Live
         /\ objs'[id].ref_count = count
         /\ \A i \in Live \ {id} : objs'[i] = objs[i]
<1>1. /\ Live' = Live /\ objs'[id] = [objs[id] EXCEPT !.ref_count = count]
      /\ \A i \in Live \ {id} : objs'[i] = objs[i]
  BY DEF Live
<1>2. IsObject(objs[id], DOMAIN sdss)
  BY ObjTypeByObject DEF ObjInv
<1>3. objs'[id] = Object(objs[id].encoding, objs[id].ptr, count)
  BY <1>1, <1>2 DEF IsObject, Object
<1>4. /\ objs'[id].encoding = objs[id].encoding /\ objs'[id].ptr = objs[id].ptr
      /\ objs'[id].ref_count = count
  BY <1>3, ObjectFields
<1>5. IsObject(objs'[id], DOMAIN sdss')
  BY <1>2, <1>3, <1>4 DEF IsObject
<1>6. ObjTypeOK'
  BY <1>1, <1>5, ObjTypeByObject, ObjTypeByObjectNext DEF ObjInv
<1>7. SdsHaveOneOwner'
  BY <1>1, <1>4 DEF ObjInv, SdsHaveOneOwner
<1> QED BY <1>1, <1>4, <1>6, <1>7

LEMMA IncRefInv ==
  ASSUME ObjInv, NEW id \in Ids, IncRef(id)
  PROVE  ObjInv'
<1>1. held[id] > 0 /\ held' = [held EXCEPT ![id] = @ + 1] /\ sdss' = sdss
  BY DEF IncRef
<1>2. held \in [Ids -> Nat] /\ id \in Live
  BY <1>1 DEF ObjInv, ObjTypeOK, CountsAreHeld
<1>3. /\ held' \in [Ids -> Nat] /\ held'[id] = held[id] + 1
      /\ \A i \in Ids \ {id} : held'[i] = held[i]
  BY <1>1, <1>2
<1>4. CASE IsShared(objs[id])
  <2>1. objs' = objs
    BY <1>4 DEF IncRef
  <2>2. ObjTypeOK' /\ SharedStay' /\ SdsHaveOneOwner'
    BY <1>1, <1>3, <2>1 DEF ObjInv, ObjTypeOK, SharedStay, SdsHaveOneOwner, Live, IsShared
  <2>3. CountsAreHeld'
    BY <1>2, <1>3, <1>4, <2>1 DEF ObjInv, CountsAreHeld, Live, IsShared
  <2> QED BY <2>2, <2>3 DEF ObjInv
<1>5. CASE ~IsShared(objs[id])
  <2> DEFINE count == objs[id].ref_count + 1
  <2>1. objs' = [objs EXCEPT ![id].ref_count = count]
    BY <1>5 DEF IncRef
  <2>2. objs[id].ref_count \in 1..SHARED_REFCOUNT /\ count \in 1..SHARED_REFCOUNT
    BY <1>2, <1>5, SharedFacts DEF ObjInv, ObjTypeOK, IsShared
  <2>3. /\ ObjTypeOK' /\ SdsHaveOneOwner' /\ Live' = Live
        /\ objs'[id].ref_count = count
        /\ \A i \in Live \ {id} : objs'[i] = objs[i]
    <3> HIDE DEF count
    <3> QED BY <1>1, <1>2, <1>3, <2>1, <2>2, CountsAlone
  <2>4. id \notin SharedIds
    BY <1>5 DEF ObjInv, SharedStay
  <2>5. SharedStay'
    BY <2>3, <2>4 DEF ObjInv, SharedStay, ObjTypeOK, IsShared
  <2>6. objs[id].ref_count = held[id]
    BY <1>2, <1>5 DEF ObjInv, CountsAreHeld
  <2>7. CountsAreHeld'
    BY <1>2, <1>3, <2>3, <2>6 DEF ObjInv, CountsAreHeld, IsShared
  <2> QED BY <2>3, <2>5, <2>7 DEF ObjInv
<1> QED BY <1>4, <1>5


(* The last reference of an object that is not shared.                     *)
LEMMA LastRefInv ==
  ASSUME ObjInv, NEW id \in Live \ SharedIds,
         held[id] = 1, objs[id].ref_count = 1,
         objs' = Without(objs, id), sdss' = SdsFreed(objs[id]),
         held' = [held EXCEPT ![id] = @ - 1]
  PROVE  ObjInv'
<1>1. Live' = Live \ {id} /\ \A i \in Live \ {id} : objs'[i] = objs[i]
  BY DEF Without, Restrict, Live
<1>2. id \in Ids /\ held \in [Ids -> Nat] /\ SharedIds \subseteq Live'
  BY <1>1 DEF ObjInv, ObjTypeOK
<1>3. /\ held' \in [Ids -> Nat] /\ held'[id] = 0
      /\ \A i \in Ids \ {id} : held'[i] = held[i]
  BY <1>2
<1>4. SharedStay'
  BY <1>1 DEF ObjInv, SharedStay, ObjTypeOK, IsShared
<1>5. CountsAreHeld'
  BY <1>1, <1>3 DEF ObjInv, CountsAreHeld, IsShared
<1>6. CASE objs[id].encoding = "sds"
  <2> DEFINE s == objs[id].ptr
  <2>1. sdss' = Without(sdss, s) /\ s \in DOMAIN sdss
    BY <1>6 DEF SdsFreed, ObjInv, ObjTypeOK
  <2>2. DOMAIN sdss' = DOMAIN sdss \ {s}
    BY <2>1 DEF Without, Restrict
  <2>3. \A i \in Live : (objs[i].encoding = "sds" /\ objs[i].ptr = s) => i = id
    BY <1>6, <2>1 DEF ObjInv, SdsHaveOneOwner
  <2>4. \A i \in Live' : IsObject(objs'[i], DOMAIN sdss')
    BY <1>1, <2>2, <2>3, ObjTypeByObject DEF ObjInv, IsObject
  <2>5. ObjTypeOK'
    BY <1>1, <1>2, <1>3, <2>2, <2>4, ObjTypeByObject, ObjTypeByObjectNext DEF ObjInv
  <2>6. ASSUME NEW i \in Live', NEW t \in Ids \ DOMAIN sdss'
        PROVE  ~(objs'[i].encoding = "sds" /\ objs'[i].ptr = t)
    BY <1>1, <2>2, <2>3 DEF ObjInv, SdsHaveOneOwner
  <2>7. ASSUME NEW t \in DOMAIN sdss'
        PROVE  \E o \in Live' : \A i \in Live' :
                 (objs'[i].encoding = "sds" /\ objs'[i].ptr = t) <=> i = o
    <3>1. t \in DOMAIN sdss /\ t # s
      BY <2>2
    <3>2. PICK o \in Live : \A i \in Live : (objs[i].encoding = "sds" /\ objs[i].ptr = t) <=> i = o
      BY <3>1 DEF ObjInv, SdsHaveOneOwner
    <3>3. o # id
      BY <3>1, <3>2
    <3> QED BY <3>2, <3>3, <1>1
  <2>8. SdsHaveOneOwner'
    BY <2>6, <2>7 DEF SdsHaveOneOwner
  <2> QED BY <2>5, <2>8, <1>4, <1>5 DEF ObjInv
<1>7. CASE objs[id].encoding # "sds"
  <2>1. sdss' = sdss
    BY <1>7 DEF SdsFreed
  <2>2. ObjTypeOK'
    BY <1>1, <1>2, <1>3, <2>1, ObjTypeByObject, ObjTypeByObjectNext DEF ObjInv
  <2>3. SdsHaveOneOwner'
    BY <1>1, <1>7, <2>1 DEF ObjInv, SdsHaveOneOwner
  <2> QED BY <2>2, <2>3, <1>4, <1>5 DEF ObjInv
<1> QED BY <1>6, <1>7

LEMMA DecRefInv ==
  ASSUME ObjInv, NEW id \in Ids, DecRef(id)
  PROVE  ObjInv'
<1>1. held[id] > 0 /\ held' = [held EXCEPT ![id] = @ - 1]
  BY DEF DecRef
<1>2. held \in [Ids -> Nat] /\ id \in Live
  BY <1>1 DEF ObjInv, ObjTypeOK, CountsAreHeld
<1>3. /\ held' \in [Ids -> Nat] /\ held'[id] = held[id] - 1
      /\ \A i \in Ids \ {id} : held'[i] = held[i]
  BY <1>1, <1>2
<1>4. CASE IsShared(objs[id])
  <2>1. objs' = objs /\ sdss' = sdss
    BY <1>4 DEF DecRef
  <2>2. ObjTypeOK' /\ SharedStay' /\ SdsHaveOneOwner'
    BY <1>3, <2>1 DEF ObjInv, ObjTypeOK, SharedStay, SdsHaveOneOwner, Live, IsShared
  <2>3. CountsAreHeld'
    BY <1>2, <1>3, <1>4, <2>1 DEF ObjInv, CountsAreHeld, Live, IsShared
  <2> QED BY <2>2, <2>3 DEF ObjInv
<1>5. CASE ~IsShared(objs[id])
  <2>1. id \notin SharedIds /\ objs[id].ref_count = held[id]
    BY <1>2, <1>5 DEF ObjInv, SharedStay, CountsAreHeld
  <2>2. objs[id].ref_count \in 1..SHARED_REFCOUNT
    BY <1>2 DEF ObjInv, ObjTypeOK
  <2>3. CASE objs[id].ref_count > 1
    <3> DEFINE count == objs[id].ref_count - 1
    <3>1. objs' = [objs EXCEPT ![id].ref_count = count] /\ sdss' = sdss
      BY <1>5, <2>3 DEF DecRef
    <3>2. count \in 1..SHARED_REFCOUNT
      BY <2>2, <2>3, SharedFacts
    <3>3. /\ ObjTypeOK' /\ SdsHaveOneOwner' /\ Live' = Live
          /\ objs'[id].ref_count = count
          /\ \A i \in Live \ {id} : objs'[i] = objs[i]
      <4> HIDE DEF count
      <4> QED BY <1>2, <1>3, <3>1, <3>2, CountsAlone
    <3>4. SharedStay'
      BY <2>1, <3>3 DEF ObjInv, SharedStay, ObjTypeOK, IsShared
    <3>5. CountsAreHeld'
      BY <1>2, <1>3, <2>1, <3>3 DEF ObjInv, CountsAreHeld, IsShared
    <3> QED BY <3>3, <3>4, <3>5 DEF ObjInv
  <2>4. CASE ~(objs[id].ref_count > 1)
    <3>1. objs' = Without(objs, id) /\ sdss' = SdsFreed(objs[id])
      BY <1>5, <2>4 DEF DecRef
    <3>2. objs[id].ref_count = 1 /\ held[id] = 1
      BY <2>1, <2>2, <2>4, SharedFacts
    <3> QED BY <1>1, <1>2, <2>1, <3>1, <3>2, LastRefInv
  <2> QED BY <2>3, <2>4
<1> QED BY <1>4, <1>5

-----------------------------------------------------------------------------
LEMMA NextInv ==
  ASSUME ObjInv, [Next]_vars
  PROVE  ObjInv'
<1>1. CASE Next
  <2>1. ASSUME NEW text \in Texts, CreateString(text) PROVE ObjInv'
    BY <2>1, CreateWholeInv, CreateSdsInv DEF CreateString
  <2>2. ASSUME NEW text \in Texts, CreateSds(text, Text(text)) PROVE ObjInv'
    BY <2>2, CreateSdsInv
  <2>3. ASSUME NEW val \in Numbers, NEW try_shared \in BOOLEAN, CreateFromLl(val, try_shared)
        PROVE  ObjInv'
    BY <2>3, CreateFromLlInv
  <2>4. ASSUME NEW id \in Ids, DupString(id) PROVE ObjInv'
    BY <2>4, CreateSdsInv DEF DupString
  <2>5. ASSUME NEW id \in Ids, IncRef(id) PROVE ObjInv'
    BY <2>5, IncRefInv
  <2>6. ASSUME NEW id \in Ids, DecRef(id) PROVE ObjInv'
    BY <2>6, DecRefInv
  <2> QED BY <1>1, <2>1, <2>2, <2>3, <2>4, <2>5, <2>6 DEF Next, Create
<1>2. CASE UNCHANGED vars
  BY <1>2 DEF vars, ObjInv, ObjTypeOK, SharedStay, CountsAreHeld, SdsHaveOneOwner, Live, IsShared
<1> QED BY <1>1, <1>2

(* The inductive invariant holds in every behaviour.                       *)
THEOREM ObjInvariant == Spec => []ObjInv
<1> QED BY InitInv, NextInv, PTL DEF Spec

(* Objects have their types, and pointers lead somewhere.                  *)
THEOREM ObjTypes == Spec => []ObjTypeOK
<1>1. ObjInv => ObjTypeOK
  BY DEF ObjInv
<1> QED BY <1>1, ObjInvariant, PTL

(* Reference counts are what callers hold.                                 *)
THEOREM CountsAgreeWithHolders == Spec => []CountsAreHeld
<1>1. ObjInv => CountsAreHeld
  BY DEF ObjInv
<1> QED BY <1>1, ObjInvariant, PTL

(* Every sds string is owned by one object that lives.                     *)
THEOREM StringsAreOwned == Spec => []SdsHaveOneOwner
<1>1. ObjInv => SdsHaveOneOwner
  BY DEF ObjInv
<1> QED BY <1>1, ObjInvariant, PTL


-----------------------------------------------------------------------------
(* What a step leaves of the object at id and of its string. *)
Stays(id) == /\ id \in DOMAIN objs'
             /\ objs'[id].encoding = objs[id].encoding /\ objs'[id].ptr = objs[id].ptr
             /\ objs[id].encoding = "sds" => sdss'[objs[id].ptr] = sdss[objs[id].ptr]

LEMMA CreateStays ==
  ASSUME ObjInv, NEW id \in Live,
         \/ \E encoding, ptr, asked : CreateWhole(encoding, ptr, asked)
         \/ \E text, asked : CreateSds(text, asked)
  PROVE  Stays(id)
<1>1. objs[id].encoding = "sds" => objs[id].ptr \in DOMAIN sdss
  BY DEF ObjInv, ObjTypeOK
<1>2. CASE \E encoding, ptr, asked : CreateWhole(encoding, ptr, asked)
  <2>1. PICK encoding, ptr, asked : CreateWhole(encoding, ptr, asked)
    BY <1>2
  <2>2. PICK new \in Free(objs) : objs' = With(objs, new, Object(encoding, ptr, 1)) /\ sdss' = sdss
    BY <2>1 DEF CreateWhole
  <2> QED BY <2>2 DEF With, Free, Live, Stays
<1>3. CASE \E text, asked : CreateSds(text, asked)
  <2>1. PICK text, asked : CreateSds(text, asked)
    BY <1>3
  <2>2. PICK new \in Free(objs), s \in Free(sdss) : /\ objs' = With(objs, new, Object("sds", s, 1))
                                                   /\ sdss' = With(sdss, s, text)
    BY <2>1 DEF CreateSds
  <2>3. id \in DOMAIN objs' /\ objs'[id] = objs[id]
    BY <2>2 DEF With, Free, Live
  <2>4. \A t \in DOMAIN sdss : sdss'[t] = sdss[t]
    BY <2>2 DEF With, Free
  <2> QED BY <1>1, <2>3, <2>4 DEF Stays
<1> QED BY <1>2, <1>3

LEMMA IncRefStays ==
  ASSUME ObjInv, NEW id \in Live, NEW other \in Ids, IncRef(other)
  PROVE  Stays(id)
<1>1. sdss' = sdss /\ (objs' = objs \/ objs' = [objs EXCEPT ![other].ref_count = @ + 1])
  BY DEF IncRef
<1>2. objs[id] = Object(objs[id].encoding, objs[id].ptr, objs[id].ref_count)
  BY DEF ObjInv, ObjTypeOK
<1> QED BY <1>1, <1>2 DEF Stays, Live, Object

LEMMA DecRefStays ==
  ASSUME ObjInv, NEW id \in Ids, NEW other \in Ids, DecRef(other),
         held[id] > 0, held'[id] > 0
  PROVE  Stays(id)
<1>1. id \in Live /\ held \in [Ids -> Nat]
  BY DEF ObjInv, ObjTypeOK, CountsAreHeld
<1>2. objs[id] = Object(objs[id].encoding, objs[id].ptr, objs[id].ref_count)
  BY <1>1 DEF ObjInv, ObjTypeOK
<1>3. CASE UNCHANGED <<objs, sdss>>
  BY <1>1, <1>3 DEF Stays, Live
<1>4. CASE objs' = [objs EXCEPT ![other].ref_count = @ - 1] /\ sdss' = sdss
  BY <1>1, <1>2, <1>4 DEF Stays, Live, Object
<1>5. CASE /\ ~IsShared(objs[other]) /\ ~(objs[other].ref_count > 1)
           /\ objs' = Without(objs, other) /\ sdss' = SdsFreed(objs[other])
  <2>1. other \in Live /\ objs[other].ref_count = held[other] /\ held[other] > 0
    BY <1>1, <1>5 DEF DecRef, ObjInv, CountsAreHeld
  <2>2. held[other] = 1
    BY <1>1, <1>5, <2>1
  <2>3. held'[other] = 0
    BY <1>1, <2>2 DEF DecRef
  <2>4. id # other
    BY <2>3
  <2>5. id \in DOMAIN objs' /\ objs'[id] = objs[id]
    BY <1>1, <1>5, <2>4 DEF Without, Restrict, Live
  <2>6. ASSUME objs[id].encoding = "sds" PROVE sdss'[objs[id].ptr] = sdss[objs[id].ptr]
    <3>1. objs[id].ptr \in DOMAIN sdss
      BY <1>1, <2>6 DEF ObjInv, ObjTypeOK
    <3>2. CASE objs[other].encoding = "sds"
      <4>1. objs[other].ptr # objs[id].ptr
        BY <1>1, <2>1, <2>4, <2>6, <3>1, <3>2 DEF ObjInv, SdsHaveOneOwner
      <4> QED BY <1>5, <3>1, <3>2, <4>1 DEF SdsFreed, Without, Restrict
    <3>3. CASE objs[other].encoding # "sds"
      BY <1>5, <3>3 DEF SdsFreed
    <3> QED BY <3>2, <3>3
  <2> QED BY <2>5, <2>6 DEF Stays
<1> QED BY <1>3, <1>4, <1>5 DEF DecRef

(* An object somebody holds stays what it is, in its place.                *)
THEOREM HeldObjectsStay == Spec => HeldStays
<1>1. ASSUME ObjInv, [Next]_vars, NEW id \in Ids, held[id] > 0, held'[id] > 0
      PROVE  Stays(id)
  <2>1. id \in Live /\ held \in [Ids -> Nat]
    BY <1>1 DEF ObjInv, ObjTypeOK, CountsAreHeld
  <2>2. CASE UNCHANGED vars
    BY <2>1, <2>2 DEF vars, Stays, Live
  <2>3. ASSUME NEW text \in Texts, CreateString(text) \/ CreateSds(text, Text(text)) PROVE Stays(id)
    BY <1>1, <2>1, <2>3, CreateStays DEF CreateString
  <2>4. ASSUME NEW val \in Numbers, NEW try_shared \in BOOLEAN, CreateFromLl(val, try_shared)
        PROVE  Stays(id)
    <3>1. CASE UNCHANGED <<objs, sdss>>
      BY <2>1, <3>1 DEF Stays, Live
    <3>2. CASE CreateWhole("int", val, Number(val)) \/ CreateSds(LlToStr(val), Number(val))
      BY <1>1, <2>1, <3>2, CreateStays
    <3> QED BY <2>4, <3>1, <3>2 DEF CreateFromLl
  <2>5. ASSUME NEW other \in Ids, DupString(other) PROVE Stays(id)
    BY <1>1, <2>1, <2>5, CreateStays DEF DupString
  <2>6. ASSUME NEW other \in Ids, IncRef(other) PROVE Stays(id)
    BY <1>1, <2>1, <2>6, IncRefStays
  <2>7. ASSUME NEW other \in Ids, DecRef(other) PROVE Stays(id)
    BY <1>1, <2>7, DecRefStays
  <2> QED BY <1>1, <2>2, <2>3, <2>4, <2>5, <2>6, <2>7 DEF Next, Create
<1>2. ASSUME ObjInv, [Next]_vars
      PROVE  [\A id \in Ids : held[id] > 0 /\ held'[id] > 0 =>
                /\ id \in DOMAIN objs'
                /\ objs'[id].encoding = objs[id].encoding /\ objs'[id].ptr = objs[id].ptr
                /\ objs[id].encoding = "sds" => sdss'[objs[id].ptr] = sdss[objs[id].ptr]]_vars
  BY <1>1, <1>2 DEF Stays
<1> QED BY <1>2, ObjInvariant, PTL DEF Spec, HeldStays

-----------------------------------------------------------------------------
(* Numbers and recursive functions. *)

(* A set of numbers that is not empty has a least one.                     *)
LEMMA LeastOf ==
  ASSUME NEW S, S \subseteq Nat, S # {}
  PROVE  \E n \in S : \A m \in S : n <= m
<1>1. IsWellFoundedOn(OpToRel(<, Nat), Nat)
  BY NatLessThanWellFounded
<1>2. PICK n \in S : \A m \in S : ~(<<m, n>> \in OpToRel(<, Nat))
  BY <1>1, WFMin
<1>3. \A m \in S : ~(m < n)
  BY <1>2 DEF OpToRel
<1> QED BY <1>3

(* Induction on a set of numbers.                                          *)
LEMMA SetInduction ==
  ASSUME NEW S, 0 \in S, \A n \in Nat : n \in S => n + 1 \in S
  PROVE  Nat \subseteq S
<1> SUFFICES ASSUME Nat \ S # {} PROVE FALSE
  OBVIOUS
<1>1. PICK n \in Nat \ S : \A m \in Nat \ S : n <= m
  BY LeastOf
<1>2. n - 1 \in Nat /\ n - 1 \in S
  BY <1>1
<1> QED BY <1>1, <1>2

(* An element for which f differs from g, and of those one of least rank.  *)
LEMMA LeastRank ==
  ASSUME NEW S, NEW rank \in [S -> Nat], NEW T, T \subseteq S, T # {}
  PROVE  \E x \in T : \A y \in T : rank[x] <= rank[y]
<1> DEFINE ranks == {rank[x] : x \in T}
<1>1. ranks \subseteq Nat /\ ranks # {}
  OBVIOUS
<1>2. PICK n \in ranks : \A m \in ranks : n <= m
  <2> HIDE DEF ranks
  <2> QED BY <1>1, LeastOf
<1> QED BY <1>2

(* F[x][g] is the value at x computed from values g at smaller arguments.  *)
Recursion(S, V, rank, F) ==
  /\ rank \in [S -> Nat]
  /\ \A x \in S, g \in [S -> V] : F[x][g] \in V
  /\ \A x \in S : \A g, h \in [S -> V] :
       (\A y \in S : rank[y] < rank[x] => g[y] = h[y]) => F[x][g] = F[x][h]

LEMMA RecursionHasASolution ==
  ASSUME NEW S, NEW V, V # {}, NEW rank, NEW F, Recursion(S, V, rank, F)
  PROVE  \E f \in [S -> V] : \A x \in S : f[x] = F[x][f]
<1> DEFINE Solves(g, n) == g \in [S -> V] /\ \A x \in S : rank[x] < n => g[x] = F[x][g]
           Solved == {n \in Nat : \E g \in [S -> V] : Solves(g, n)}
<1>0. rank \in [S -> Nat] /\ \A x \in S : rank[x] \in Nat
  BY DEF Recursion
<1>1. 0 \in Solved
  <2>1. PICK v \in V : TRUE
    OBVIOUS
  <2>2. [x \in S |-> v] \in [S -> V]
    BY <2>1
  <2>3. \A x \in S : ~(rank[x] < 0)
    BY <1>0
  <2> QED BY <2>2, <2>3
<1>2. ASSUME NEW n \in Nat, n \in Solved PROVE n + 1 \in Solved
  <2>1. PICK g \in [S -> V] : Solves(g, n)
    BY <1>2
  <2> DEFINE h == [x \in S |-> F[x][g]]
  <2>2. h \in [S -> V]
    BY DEF Recursion
  <2>3. \A x \in S : rank[x] < n => g[x] = h[x]
    BY <2>1
  <2>4. ASSUME NEW x \in S, rank[x] < n + 1 PROVE h[x] = F[x][h]
    <3>1. \A y \in S : rank[y] < rank[x] => g[y] = h[y]
      <4>1. \A y \in S : rank[y] < rank[x] => rank[y] < n
        BY <1>0, <2>4
      <4> HIDE DEF h
      <4> QED BY <2>3, <4>1
    <3>2. F[x][g] = F[x][h]
      <4> HIDE DEF h
      <4> QED BY <2>2, <3>1 DEF Recursion
    <3> QED BY <3>2
  <2> HIDE DEF h
  <2>5. Solves(h, n + 1)
    BY <2>2, <2>4
  <2>6. n + 1 \in Nat
    OBVIOUS
  <2> HIDE DEF Solves
  <2> QED BY <2>2, <2>5, <2>6
<1>3. Nat \subseteq Solved
  <2> HIDE DEF Solved
  <2> QED BY <1>1, <1>2, SetInduction
<1>4. ASSUME NEW g, NEW h, NEW m \in Nat, NEW n \in Nat, m <= n, Solves(g, m), Solves(h, n),
             NEW x \in S, rank[x] < m
      PROVE  g[x] = h[x]
  <2> DEFINE T == {y \in S : rank[y] < m /\ g[y] # h[y]}
  <2> SUFFICES ASSUME T # {} PROVE FALSE
    BY <1>4
  <2>1. PICK y \in T : \A z \in T : rank[y] <= rank[z]
    <3>1. T \subseteq S
      OBVIOUS
    <3> HIDE DEF T
    <3> QED BY <1>0, <3>1, LeastRank
  <2>2. \A z \in S : rank[z] < rank[y] => g[z] = h[z]
    BY <1>0, <2>1
  <2>3. F[y][g] = F[y][h]
    BY <2>2, <1>4, <2>1 DEF Recursion
  <2>4. y \in S /\ rank[y] < m /\ rank[y] < n
    <3>1. m <= n
      BY <1>4
    <3>2. y \in S /\ rank[y] < m /\ rank[y] \in Nat
      BY <1>0
    <3> QED BY <3>1, <3>2
  <2>5. g[y] = F[y][g] /\ h[y] = F[y][h]
    BY <1>4, <2>4
  <2> QED BY <2>1, <2>3, <2>5
<1> DEFINE pick(n) == CHOOSE g \in [S -> V] : Solves(g, n)
           f == [x \in S |-> pick(rank[x] + 1)[x]]
<1>5. \A n \in Nat : pick(n) \in [S -> V] /\ Solves(pick(n), n)
  BY <1>3
<1>6. f \in [S -> V]
  <2>1. \A x \in S : rank[x] + 1 \in Nat
    BY <1>0
  <2> HIDE DEF pick, Solves
  <2> QED BY <1>5, <2>1
<1>7. ASSUME NEW n \in Nat, NEW x \in S, rank[x] < n PROVE f[x] = pick(n)[x]
  <2>1. rank[x] + 1 \in Nat /\ rank[x] + 1 <= n /\ rank[x] < rank[x] + 1
    BY <1>0, <1>7
  <2>2. Solves(pick(rank[x] + 1), rank[x] + 1) /\ Solves(pick(n), n)
    BY <1>5, <2>1
  <2> HIDE DEF Solves, pick
  <2>3. pick(rank[x] + 1)[x] = pick(n)[x]
    BY <1>4, <2>1, <2>2
  <2> QED BY <2>3
<1>8. ASSUME NEW x \in S PROVE f[x] = F[x][f]
  <2> DEFINE n == rank[x] + 1
  <2>1. n \in Nat /\ rank[x] < n /\ \A y \in S : rank[y] < rank[x] => rank[y] < n
    BY <1>0
  <2>2. pick(n) \in [S -> V] /\ pick(n)[x] = F[x][pick(n)]
    BY <1>5, <2>1
  <2>3. f[x] = pick(n)[x] /\ \A y \in S : rank[y] < rank[x] => f[y] = pick(n)[y]
    <3> HIDE DEF f, pick, n
    <3> QED BY <1>7, <2>1
  <2>4. F[x][f] = F[x][pick(n)]
    <3> HIDE DEF f, pick, n
    <3> QED BY <1>6, <2>2, <2>3 DEF Recursion
  <2> QED BY <2>2, <2>3, <2>4
<1> HIDE DEF f
<1> QED BY <1>6, <1>8

-----------------------------------------------------------------------------
(* The conversion of numbers to texts (module Util). *)

DigitSet == 0..(Base - 1)

LEMMA Division ==
  ASSUME NEW n \in Nat
  PROVE  /\ n \div Base \in Nat /\ n % Base \in DigitSet
         /\ n = (n \div Base) * Base + (n % Base)
         /\ n \div Base # 0 => n \div Base < n
<1> DEFINE q == n \div Base
           d == n % Base
<1>1. Base \in Nat /\ Base > 1
  BY BaseAssumption
<1>2. q \in Nat /\ d \in 0..(Base - 1) /\ n = q * Base + d
  BY <1>1
<1>3. ASSUME q # 0 PROVE q < n
  <2> HIDE DEF q, d
  <2>1. q * Base >= q * 2
    BY <1>1, <1>2
  <2> QED BY <1>1, <1>2, <1>3, <2>1
<1> QED BY <1>2, <1>3 DEF DigitSet

(* The loop of util_convert_ll_to_str computes digits from fewer digits.   *)
NextDigits(n, g) == <<n % Base>> \o (IF n \div Base = 0 THEN <<>> ELSE g[n \div Base])

LEMMA DigitsDef ==
  /\ \A n \in Nat : Digits[n] = NextDigits(n, Digits)
  /\ \A n \in Nat : Digits[n] \in Seq(DigitSet)
<1> DEFINE V == Seq(DigitSet)
           F == [n \in Nat |-> [g \in [Nat -> V] |-> NextDigits(n, g)]]
           rank == [n \in Nat |-> n]
<1>1. ASSUME NEW n \in Nat, NEW g, n \div Base # 0 => g[n \div Base] \in V
      PROVE  NextDigits(n, g) \in V
  <2>1. <<n % Base>> \in V
    BY Division
  <2> QED BY <1>1, <2>1 DEF NextDigits
<1>2. Recursion(Nat, V, rank, F)
  <2>1. ASSUME NEW n \in Nat, NEW g \in [Nat -> V] PROVE F[n][g] = NextDigits(n, g) /\ F[n][g] \in V
    BY <1>1, Division
  <2>2. ASSUME NEW n \in Nat, NEW g \in [Nat -> V], NEW h \in [Nat -> V],
               \A m \in Nat : rank[m] < rank[n] => g[m] = h[m]
        PROVE  F[n][g] = F[n][h]
    <3>1. n \div Base # 0 => g[n \div Base] = h[n \div Base]
      BY <2>2, Division
    <3> QED BY <2>1, <3>1 DEF NextDigits
  <2> HIDE DEF F, V
  <2> QED BY <2>1, <2>2 DEF Recursion
<1>3. PICK f \in [Nat -> V] : \A n \in Nat : f[n] = F[n][f]
  <2>1. V # {}
    <3>1. <<>> \in V
      OBVIOUS
    <3> QED BY <3>1
  <2> HIDE DEF F, V, rank
  <2> QED BY <1>2, <2>1, RecursionHasASolution
<1>4. f = [n \in Nat |-> NextDigits(n, f)]
  BY <1>3
<1>5. Digits = [n \in Nat |-> NextDigits(n, Digits)]
  BY <1>4 DEF Digits, NextDigits
<1>6. \A n \in Nat : Digits[n] = NextDigits(n, Digits)
  BY <1>5
<1>7. \A n \in Nat : Digits[n] \in V
  <2> DEFINE T == {n \in Nat : Digits[n] \notin V}
  <2> SUFFICES ASSUME T # {} PROVE FALSE
    OBVIOUS
  <2>1. PICK n \in T : \A m \in T : n <= m
    <3>1. T \subseteq Nat
      OBVIOUS
    <3> HIDE DEF T
    <3> QED BY <3>1, LeastOf
  <2>2. n \div Base # 0 => Digits[n \div Base] \in V
    <3>1. n \in Nat /\ \A m \in Nat : m < n => Digits[m] \in V
      <4> HIDE DEF V
      <4> QED BY <2>1
    <3> HIDE DEF V
    <3> QED BY <3>1, Division
  <2> QED BY <1>1, <1>6, <2>1, <2>2
<1> QED BY <1>6, <1>7

NextValue(s, g) == IF s = <<>> THEN 0 ELSE g[Front(s)] * Base + Last(s)

LEMMA FrontLast ==
  ASSUME NEW S, NEW s \in Seq(S), s # <<>>
  PROVE  Front(s) \in Seq(S) /\ Len(Front(s)) < Len(s) /\ Last(s) \in S
BY DEF Front, Last

LEMMA AppendFrontLast ==
  ASSUME NEW S, NEW s \in Seq(S), NEW e \in S
  PROVE  Append(s, e) \in Seq(S) /\ Append(s, e) # <<>>
         /\ Front(Append(s, e)) = s /\ Last(Append(s, e)) = e
BY DEF Front, Last

LEMMA ValueDef ==
  /\ \A s \in Seq(DigitSet) : Value[s] = NextValue(s, Value)
  /\ \A s \in Seq(DigitSet) : Value[s] \in Nat
<1> DEFINE S == Seq(DigitSet)
           F == [s \in S |-> [g \in [S -> Nat] |-> NextValue(s, g)]]
           rank == [s \in S |-> Len(s)]
<1>0. Base \in Nat /\ DigitSet \subseteq Nat
  BY BaseAssumption DEF DigitSet
<1>1. ASSUME NEW s \in S, NEW g, s # <<>> => g[Front(s)] \in Nat
      PROVE  NextValue(s, g) \in Nat
  <2>1. CASE s # <<>>
    <3>1. g[Front(s)] \in Nat /\ Last(s) \in Nat
      BY <1>0, <1>1, <2>1, FrontLast
    <3>2. NextValue(s, g) = g[Front(s)] * Base + Last(s)
      BY <2>1 DEF NextValue
    <3> QED BY <1>0, <3>1, <3>2
  <2> QED BY <2>1 DEF NextValue
<1>2. Recursion(S, Nat, rank, F)
  <2>1. ASSUME NEW s \in S, NEW g \in [S -> Nat] PROVE F[s][g] = NextValue(s, g) /\ F[s][g] \in Nat
    BY <1>1, FrontLast
  <2>2. ASSUME NEW s \in S, NEW g \in [S -> Nat], NEW h \in [S -> Nat],
               \A t \in S : rank[t] < rank[s] => g[t] = h[t]
        PROVE  F[s][g] = F[s][h]
    <3>1. s # <<>> => g[Front(s)] = h[Front(s)]
      BY <2>2, FrontLast
    <3> QED BY <2>1, <3>1 DEF NextValue
  <2>3. rank \in [S -> Nat]
    OBVIOUS
  <2> HIDE DEF F, S, rank
  <2> QED BY <2>1, <2>2, <2>3 DEF Recursion
<1>3. PICK f \in [S -> Nat] : \A s \in S : f[s] = F[s][f]
  <2> HIDE DEF F, S, rank
  <2> QED BY <1>2, RecursionHasASolution
<1>4. f = [s \in S |-> NextValue(s, f)]
  BY <1>3
<1>5. Value = [s \in S |-> NextValue(s, Value)]
  BY <1>4 DEF Value, NextValue, DigitSet
<1>6. \A s \in S : Value[s] = NextValue(s, Value)
  BY <1>5
<1>7. \A s \in S : Value[s] \in Nat
  <2> DEFINE T == {s \in S : Value[s] \notin Nat}
  <2> SUFFICES ASSUME T # {} PROVE FALSE
    OBVIOUS
  <2>1. PICK s \in T : \A t \in T : rank[s] <= rank[t]
    <3>1. T \subseteq S /\ rank \in [S -> Nat]
      OBVIOUS
    <3> HIDE DEF T, S, rank
    <3> QED BY <3>1, LeastRank
  <2>2. ASSUME s # <<>> PROVE Value[Front(s)] \in Nat
    <3>1. Front(s) \in S /\ Len(Front(s)) < Len(s)
      BY <2>2, FrontLast
    <3>2. rank[Front(s)] < rank[s] /\ rank[Front(s)] \in Nat /\ rank[s] \in Nat
      BY <3>1
    <3>3. Front(s) \notin T
      <4> HIDE DEF rank, T
      <4> QED BY <2>1, <3>2
    <3> QED BY <3>1, <3>3
  <2> QED BY <1>1, <1>6, <2>1, <2>2
<1> QED BY <1>6, <1>7

LEMMA ReverseDigits ==
  ASSUME NEW d \in DigitSet, NEW s \in Seq(DigitSet)
  PROVE  Reverse(s) \in Seq(DigitSet) /\ Reverse(<<d>> \o s) = Append(Reverse(s), d)
<1>1. Reverse(s) \in Seq(DigitSet) /\ Len(Reverse(s)) = Len(s)
  BY DEF Reverse
<1> QED BY <1>1 DEF Reverse

(* Read in the usual notation, the digits of a number mean the number.     *)
LEMMA ValueOfDigits == \A n \in Nat : Value[Reverse(Digits[n])] = n
<1> DEFINE T == {n \in Nat : Value[Reverse(Digits[n])] # n}
<1> SUFFICES ASSUME T # {} PROVE FALSE
  OBVIOUS
<1>1. PICK n \in T : \A m \in T : n <= m
  <2>1. T \subseteq Nat
    OBVIOUS
  <2> HIDE DEF T
  <2> QED BY <2>1, LeastOf
<1>2. n \in Nat /\ \A m \in Nat : m < n => Value[Reverse(Digits[m])] = m
  BY <1>1
<1> DEFINE q == n \div Base
           d == n % Base
           s == IF q = 0 THEN <<>> ELSE Digits[q]
<1>3. q \in Nat /\ d \in DigitSet /\ n = q * Base + d /\ (q # 0 => q < n)
  BY <1>2, Division
<1>4. Digits[n] = <<d>> \o s /\ s \in Seq(DigitSet)
  BY <1>2, <1>3, DigitsDef DEF NextDigits
<1>5. Value[Reverse(s)] = q
  <2>1. CASE q = 0
    <3>1. Reverse(s) = <<>>
      BY <2>1 DEF Reverse
    <3>2. <<>> \in Seq(DigitSet)
      OBVIOUS
    <3>3. Value[<<>>] = 0
      BY <3>2, ValueDef DEF NextValue
    <3> QED BY <2>1, <3>1, <3>3
  <2>2. CASE q # 0
    <3> HIDE DEF q
    <3> QED BY <1>2, <1>3, <2>2
  <2> QED BY <2>1, <2>2
<1> HIDE DEF q, d, s
<1>6. Reverse(Digits[n]) = Append(Reverse(s), d) /\ Reverse(s) \in Seq(DigitSet)
  BY <1>3, <1>4, ReverseDigits
<1>7. Value[Append(Reverse(s), d)] = q * Base + d
  <2>1. /\ Append(Reverse(s), d) \in Seq(DigitSet) /\ Append(Reverse(s), d) # <<>>
        /\ Front(Append(Reverse(s), d)) = Reverse(s) /\ Last(Append(Reverse(s), d)) = d
    BY <1>3, <1>6, AppendFrontLast
  <2> QED BY <1>5, <2>1, ValueDef DEF NextValue
<1> QED BY <1>1, <1>3, <1>6, <1>7

(* A number below LlValues is the remainder of itself, and of itself a     *)
(* round earlier.                                                          *)
LEMMA Wraps ==
  ASSUME NEW m \in 0..(LlValues - 1)
  PROVE  m % LlValues = m /\ (m - LlValues) % LlValues = m
<1>1. LlValues \in Nat /\ LlValues > 0
  BY BaseAssumption
<1>2. ASSUME NEW n \in Int, NEW q \in Int, n = q * LlValues + m
      PROVE  n % LlValues = m
  <2> DEFINE e == n \div LlValues
             r == n % LlValues
  <2>1. e \in Int /\ r \in 0..(LlValues - 1) /\ n = e * LlValues + r
    BY <1>1
  <2> HIDE DEF e, r
  <2>2. (q - e) * LlValues = r - m
    BY <1>1, <1>2, <2>1
  <2>3. q - e >= 1 => (q - e) * LlValues >= LlValues
    BY <1>1, <2>1
  <2>4. q - e <= -1 => (q - e) * LlValues <= -LlValues
    BY <1>1, <2>1
  <2>5. q - e = 0
    BY <1>1, <2>1, <2>2, <2>3, <2>4
  <2>6. r = m
    BY <1>1, <2>1, <2>2, <2>5
  <2> QED BY <2>6 DEF r
<1>3. m = 0 * LlValues + m /\ m - LlValues = (-1) * LlValues + m
  BY <1>1
<1> QED BY <1>1, <1>2, <1>3

(* The magnitude of a long long is what it should be, that of the least    *)
(* one, which negated is itself, too.                                      *)
LEMMA MagnitudeIsRight ==
  ASSUME NEW val \in LongLongs
  PROVE  Magnitude(val) \in Nat /\ Magnitude(val) = IF val < 0 THEN -val ELSE val
<1> DEFINE half == LlValues \div 2
<1>1. LlValues \in Nat /\ half \in Nat /\ half > 0 /\ LlValues = 2 * half
  BY BaseAssumption
<1>2. val \in Int /\ -half <= val /\ val <= half - 1
  BY <1>1 DEF LongLongs
<1>3. \A m \in Int : m \in LongLongs <=> -half <= m /\ m <= half - 1
  BY <1>1 DEF LongLongs
<1> HIDE DEF half
<1>4. CASE val > 0
  <2>1. val \in 0..(LlValues - 1)
    BY <1>1, <1>2, <1>4
  <2>2. Magnitude(val) = val % LlValues
    BY <1>4 DEF Magnitude
  <2> QED BY <1>2, <1>4, <2>1, <2>2, Wraps
<1>5. CASE val <= 0 /\ -half < val
  <2>1. -val \in 0..(LlValues - 1) /\ -val \in LongLongs
    BY <1>1, <1>2, <1>3, <1>5
  <2>2. Magnitude(val) = (-val) % LlValues
    BY <1>2, <1>5, <2>1 DEF Magnitude, Negated
  <2> QED BY <1>2, <1>5, <2>1, <2>2, Wraps
<1>6. CASE val = -half
  <2>1. half \in 0..(LlValues - 1) /\ half \notin LongLongs /\ -val = half
    BY <1>1, <1>3, <1>6
  <2>2. Magnitude(val) = (half - LlValues) % LlValues
    BY <1>1, <1>2, <1>6, <2>1 DEF Magnitude, Negated
  <2> QED BY <1>1, <1>2, <1>6, <2>1, <2>2, Wraps
<1> QED BY <1>1, <1>2, <1>4, <1>5, <1>6

(* What util_convert_ll_to_str writes is the number in the usual notation, *)
(* whatever the base and the width of a long long, and for the least long  *)
(* long, which has no opposite, too.                                       *)
THEOREM ConversionIsRight == \A val \in LongLongs : NumberOf(LlToStr(val)) = val
<1> SUFFICES ASSUME NEW val \in LongLongs PROVE NumberOf(LlToStr(val)) = val
  OBVIOUS
<1>0. val \in Int
  BY BaseAssumption DEF LongLongs
<1>1. ASSUME NEW n \in Nat
      PROVE  /\ Digits[n] \in Seq(DigitSet) /\ Len(Digits[n]) > 0
             /\ Reverse(Digits[n])[1] \in DigitSet
  <2>1. Digits[n] \in Seq(DigitSet)
    BY DigitsDef
  <2>2. Len(Digits[n]) > 0
    <3>1. n \div Base # 0 => Digits[n \div Base] \in Seq(DigitSet)
      BY DigitsDef, Division
    <3>2. Digits[n] = <<n % Base>> \o (IF n \div Base = 0 THEN <<>> ELSE Digits[n \div Base])
      BY DigitsDef DEF NextDigits
    <3> QED BY <3>1, <3>2, Division
  <2> QED BY <2>1, <2>2 DEF Reverse
<1>2. CASE val < 0
  <2> DEFINE s == Digits[-val]
  <2>1. -val \in Nat /\ Magnitude(val) = -val
    BY <1>0, <1>2, MagnitudeIsRight
  <2>2. s \in Seq(DigitSet)
    BY <1>1, <2>1
  <2>3. LlToStr(val) = Reverse(Append(s, Minus))
    BY <1>2, <2>1 DEF LlToStr
  <2>4. Value[Reverse(s)] = -val
    BY <2>1, ValueOfDigits
  <2> HIDE DEF s
  <2>5. Reverse(Append(s, Minus))[1] = Minus
    BY <2>2 DEF Reverse
  <2>6. Tail(Reverse(Append(s, Minus))) = Reverse(s)
    BY <2>2 DEF Reverse
  <2>7. NumberOf(LlToStr(val)) = -Value[Reverse(s)]
    BY <2>3, <2>5, <2>6 DEF NumberOf
  <2>8. -(-val) = val
    BY <1>0
  <2> QED BY <2>4, <2>7, <2>8
<1>3. CASE ~(val < 0)
  <2>1. val \in Nat /\ Magnitude(val) = val
    BY <1>0, <1>3, MagnitudeIsRight
  <2>2. LlToStr(val) = Reverse(Digits[val])
    BY <1>3, <2>1 DEF LlToStr
  <2>3. Reverse(Digits[val])[1] # Minus
    BY <1>1, <2>1, BaseAssumption DEF DigitSet
  <2> QED BY <2>1, <2>2, <2>3, ValueOfDigits DEF NumberOf
<1> QED BY <1>2, <1>3

-----------------------------------------------------------------------------
(* What objects denote. *)

(* Each shared integer is the one its place in the array says. *)
SharedValues ==
  \A i \in DOMAIN SharedAt : /\ objs[SharedAt[i]].encoding = "int"
                             /\ objs[SharedAt[i]].ptr = MinShared + i

AskedInv == SharedValues /\ ReturnsWhatWasAsked

LEMMA SharedIn == \A i \in DOMAIN SharedAt : SharedAt[i] \in SharedIds
BY DEF SharedIds, Range

LEMMA InitAsked == Init => AskedInv
<1> SUFFICES ASSUME Init PROVE AskedInv
  OBVIOUS
<1>1. ASSUME NEW i \in DOMAIN SharedAt
      PROVE  objs[SharedAt[i]].encoding = "int" /\ objs[SharedAt[i]].ptr = MinShared + i
  <2> DEFINE id == SharedAt[i]
  <2>1. id \in SharedIds /\ id \in Range(SharedAt)
    BY SharedIn DEF SharedIds
  <2>2. AntiFunction(SharedAt)[id] = CHOOSE s \in DOMAIN SharedAt : id \in Range(SharedAt) => SharedAt[s] = id
    BY <2>1 DEF AntiFunction, Inverse, SharedIds
  <2>3. \A s \in DOMAIN SharedAt : SharedAt[s] = id => s = i
    BY SharedAssumption DEF Injection, IsInjective
  <2>4. AntiFunction(SharedAt)[id] = i
    BY <2>1, <2>2, <2>3
  <2>5. objs[id] = Object("int", MinShared + i, SHARED_REFCOUNT)
    BY <2>1, <2>4 DEF Init
  <2> QED BY <2>5, ObjectFields
<1>2. got = NULL
  BY DEF Init
<1> QED BY <1>1, <1>2 DEF AskedInv, SharedValues, ReturnsWhatWasAsked

LEMMA SharedKept ==
  ASSUME SharedValues, \A id \in SharedIds : objs'[id] = objs[id]
  PROVE  SharedValues'
BY SharedIn DEF SharedValues

LEMMA CreateWholeAsked ==
  ASSUME ObjInv, SharedValues, NEW encoding, NEW ptr, NEW asked,
         CreateWhole(encoding, ptr, asked),
         \/ encoding = "embsds" /\ asked = Text(ptr)
         \/ encoding = "int" /\ asked = Number(ptr)
  PROVE  AskedInv'
<1>1. PICK id \in Free(objs) : /\ objs' = With(objs, id, Object(encoding, ptr, 1))
                               /\ got' = [id |-> id, asked |-> asked]
  BY DEF CreateWhole, Gives
<1>2. id \notin Live
  BY <1>1 DEF Free, Live
<1>3. objs'[id] = Object(encoding, ptr, 1) /\ \A i \in Live : objs'[i] = objs[i]
  BY <1>1, <1>2 DEF With, Live
<1>4. SharedValues'
  BY <1>3, SharedKept DEF ObjInv, ObjTypeOK
<1>5. objs'[id].encoding = encoding /\ objs'[id].ptr = ptr
  BY <1>3, ObjectFields
<1>6. Denotes(id, asked)'
  BY <1>5 DEF Denotes, TextOf, Text, Number
<1>7. ReturnsWhatWasAsked'
  BY <1>1, <1>6 DEF ReturnsWhatWasAsked
<1> QED BY <1>4, <1>7 DEF AskedInv

LEMMA CreateSdsAsked ==
  ASSUME ObjInv, SharedValues, NEW text, NEW asked, CreateSds(text, asked),
         \/ asked = Text(text)
         \/ \E val : asked = Number(val) /\ NumberOf(text) = val
  PROVE  AskedInv'
<1>1. PICK id \in Free(objs), s \in Free(sdss) :
        /\ objs' = With(objs, id, Object("sds", s, 1))
        /\ sdss' = With(sdss, s, text)
        /\ got' = [id |-> id, asked |-> asked]
  BY DEF CreateSds, Gives
<1>2. id \notin Live
  BY <1>1 DEF Free, Live
<1>3. /\ objs'[id] = Object("sds", s, 1) /\ \A i \in Live : objs'[i] = objs[i]
      /\ sdss'[s] = text
  BY <1>1, <1>2 DEF With, Live
<1>4. SharedValues'
  BY <1>3, SharedKept DEF ObjInv, ObjTypeOK
<1>5. objs'[id].encoding = "sds" /\ sdss'[objs'[id].ptr] = text
  BY <1>3, ObjectFields
<1>6. Denotes(id, asked)'
  BY <1>5 DEF Denotes, TextOf, Text, Number
<1>7. ReturnsWhatWasAsked'
  BY <1>1, <1>6 DEF ReturnsWhatWasAsked
<1> QED BY <1>4, <1>7 DEF AskedInv

LEMMA CreateFromLlAsked ==
  ASSUME ObjInv, SharedValues, NEW val \in Numbers, NEW try_shared \in BOOLEAN,
         CreateFromLl(val, try_shared)
  PROVE  AskedInv'
<1>1. val \in Int /\ val \in LongLongs
  BY ValueAssumption, BaseAssumption DEF LongLongs
<1>2. CASE /\ val \in MinShared..MaxShared
           /\ Gives(SharedInteger(val), Number(val))
           /\ UNCHANGED <<objs, sdss>>
  <2> DEFINE i == val - MinShared
             id == SharedAt[i]
  <2>1. i \in DOMAIN SharedAt
    BY <1>2, SharedIndexInBounds, SharedAssumption DEF Injection
  <2>2. MinShared + i = val
    BY <1>1, SharedFacts
  <2>3. objs[id].encoding = "int" /\ objs[id].ptr = MinShared + i
    <3> HIDE DEF i
    <3> QED BY <2>1 DEF SharedValues
  <2>4. objs' = objs /\ got' = [id |-> id, asked |-> Number(val)]
    BY <1>2 DEF Gives, SharedInteger
  <2>5. Denotes(id, Number(val))'
    <3> HIDE DEF i, id
    <3> QED BY <2>2, <2>3, <2>4 DEF Denotes
  <2>6. ReturnsWhatWasAsked'
    BY <2>4, <2>5 DEF ReturnsWhatWasAsked
  <2>7. SharedValues'
    BY <2>4, SharedKept
  <2> QED BY <2>6, <2>7 DEF AskedInv
<1>3. CASE CreateWhole("int", val, Number(val))
  BY <1>3, CreateWholeAsked
<1>4. CASE CreateSds(LlToStr(val), Number(val))
  BY <1>1, <1>4, CreateSdsAsked, ConversionIsRight
<1> QED BY <1>2, <1>3, <1>4 DEF CreateFromLl

LEMMA RefAsked ==
  ASSUME ObjInv, SharedValues, NEW id \in Ids, IncRef(id) \/ DecRef(id)
  PROVE  AskedInv'
<1>1. got' = NULL
  BY DEF IncRef, DecRef
<1>2. ASSUME NEW other \in SharedIds PROVE objs'[other] = objs[other]
  <2>1. other \in Live /\ IsShared(objs[other])
    BY DEF ObjInv, ObjTypeOK, SharedStay
  <2>2. \/ objs' = objs
        \/ /\ ~IsShared(objs[id])
           /\ \/ \E count : objs' = [objs EXCEPT ![id].ref_count = count]
              \/ objs' = Without(objs, id)
    BY DEF IncRef, DecRef
  <2> QED BY <2>1, <2>2 DEF Without, Restrict, Live
<1>3. SharedValues'
  BY <1>2, SharedKept
<1> QED BY <1>1, <1>3 DEF AskedInv, ReturnsWhatWasAsked

LEMMA NextAsked ==
  ASSUME ObjInv, AskedInv, [Next]_vars
  PROVE  AskedInv'
<1>0. SharedValues
  BY DEF AskedInv
<1>1. ASSUME NEW text \in Texts, CreateString(text) PROVE AskedInv'
  BY <1>0, <1>1, CreateWholeAsked, CreateSdsAsked DEF CreateString
<1>2. ASSUME NEW text \in Texts, CreateSds(text, Text(text)) PROVE AskedInv'
  BY <1>0, <1>2, CreateSdsAsked
<1>3. ASSUME NEW val \in Numbers, NEW try_shared \in BOOLEAN, CreateFromLl(val, try_shared)
      PROVE  AskedInv'
  BY <1>0, <1>3, CreateFromLlAsked
<1>4. ASSUME NEW id \in Ids, DupString(id) PROVE AskedInv'
  BY <1>0, <1>4, CreateSdsAsked DEF DupString
<1>5. ASSUME NEW id \in Ids, IncRef(id) \/ DecRef(id) PROVE AskedInv'
  BY <1>0, <1>5, RefAsked
<1>6. CASE UNCHANGED vars
  BY <1>6 DEF vars, AskedInv, SharedValues, ReturnsWhatWasAsked, Denotes, TextOf
<1> QED BY <1>1, <1>2, <1>3, <1>4, <1>5, <1>6 DEF Next, Create

(* Whatever a create function returns denotes what was asked for.          *)
THEOREM CreatesWhatWasAsked == Spec => []ReturnsWhatWasAsked
<1>1. AskedInv => ReturnsWhatWasAsked
  BY DEF AskedInv
<1> QED BY <1>1, InitAsked, NextAsked, ObjInvariant, PTL DEF Spec
=============================================================================
