-------------------------------- MODULE Obj --------------------------------
(***************************************************************************)
(* The reference-counted objects of src/obj.c.                             *)
(*                                                                         *)
(* An object is a string in one of three encodings: an sds string of its   *)
(* own, an sds string embedded behind the object in the same allocation,   *)
(* or an integer in the place of the pointer.  Callers hold references,    *)
(* and the last one given back frees the object.  The integers around 0    *)
(* exist once and for all and are shared by everybody.                     *)
(*                                                                         *)
(* held is what the callers know: how many references to an object they    *)
(* have been given, by a create function or by obj_inc_ref, and have not   *)
(* given back.  Memory is a function from the addresses that are allocated *)
(* to what is there; malloc returns any other.                             *)
(***************************************************************************)
EXTENDS Util

CONSTANTS
  NULL,
  SHARED_INTEGERS,    \* OBJ_SHARED_INTEGERS
  SHARED_REFCOUNT,    \* OBJ_SHARED_REFCOUNT
  EMBSTR_MAX_LENGTH,
  LongMin, LongMax,   \* what the pointer of an object can hold
  Numbers,            \* the numbers callers pass, of type long long
  Texts,              \* the texts callers pass
  Ids,                \* the addresses malloc can return
  SharedAt,           \* SharedAt[i] is the one it has returned for shared.integers[i]
  MaxHeld             \* bound on the references callers hold

ASSUME SharedAssumption == /\ SHARED_INTEGERS \in Nat /\ SHARED_INTEGERS % 2 = 1
                           /\ SHARED_REFCOUNT \in Nat /\ SHARED_REFCOUNT > 1
                           /\ IsFiniteSet(Ids)
                           /\ SharedAt \in Injection(0..(SHARED_INTEGERS - 1), Ids)
                           /\ MaxHeld \in Nat

ASSUME ValueAssumption == /\ LongMin \in Int /\ LongMax \in Int /\ Numbers \subseteq LongLongs
                          /\ EMBSTR_MAX_LENGTH \in Nat

VARIABLES
  objs,  \* objs[id] is the object at id
  sdss,  \* sdss[s] is the text of the sds string at s
  held,  \* held[id] is how many references to the object at id callers hold
  got    \* history: the object a call has just returned, and what was asked for

vars == <<objs, sdss, held, got>>

SharedIds == Range(SharedAt)

MinShared == -(SHARED_INTEGERS \div 2)

MaxShared == SHARED_INTEGERS \div 2

Free(memory) == Ids \ DOMAIN memory

With(memory, id, what) ==
  [i \in DOMAIN memory \cup {id} |-> IF i = id THEN what ELSE memory[i]]

Without(memory, id) == Restrict(memory, DOMAIN memory \ {id})

Object(encoding, ptr, ref_count) ==
  [encoding |-> encoding, ptr |-> ptr, ref_count |-> ref_count]

IsShared(o) == o.ref_count = SHARED_REFCOUNT

TextOf(o) == IF o.encoding = "sds" THEN sdss[o.ptr] ELSE o.ptr

(* What an object may be asked to be.                                      *)
Text(text) == [kind |-> "text", is |-> text]

Number(val) == [kind |-> "number", is |-> val]

Denotes(id, what) ==
  IF objs[id].encoding = "int" THEN what = Number(objs[id].ptr)
  ELSE IF what.kind = "text" THEN what.is = TextOf(objs[id])
  ELSE what.is = NumberOf(TextOf(objs[id]))

-----------------------------------------------------------------------------
Gives(id, asked) == /\ held' = [held EXCEPT ![id] = @ + 1]
                    /\ got' = [id |-> id, asked |-> asked]

HasRoom == SumFunction(held) < MaxHeld

(* obj_create_shared                                                       *)
Init ==
  /\ objs = [id \in SharedIds |->
               Object("int", MinShared + AntiFunction(SharedAt)[id], SHARED_REFCOUNT)]
  /\ sdss = [s \in {} |-> <<>>]
  /\ held = [id \in Ids |-> 0]
  /\ got = NULL

(* _obj_create_embedded_sds_string; obj_create of an integer               *)
CreateWhole(encoding, ptr, asked) ==
  \E id \in Free(objs) : /\ objs' = With(objs, id, Object(encoding, ptr, 1))
                         /\ Gives(id, asked)
                         /\ UNCHANGED sdss

(* _obj_create_sds_string; obj_create of an sds string the caller has made *)
CreateSds(text, asked) ==
  \E id \in Free(objs), s \in Free(sdss) :
    /\ objs' = With(objs, id, Object("sds", s, 1))
    /\ sdss' = With(sdss, s, text)
    /\ Gives(id, asked)

(* obj_create_string                                                       *)
CreateString(text) ==
  IF Len(text) < EMBSTR_MAX_LENGTH THEN CreateWhole("embsds", text, Text(text))
  ELSE CreateSds(text, Text(text))

SharedInteger(val) == SharedAt[val - MinShared]

(* obj_create_string_from_ll_withoption                                    *)
CreateFromLl(val, try_shared) ==
  \/ /\ try_shared /\ val \in MinShared..MaxShared
     /\ Gives(SharedInteger(val), Number(val))
     /\ UNCHANGED <<objs, sdss>>
  \/ /\ ~(try_shared /\ val \in MinShared..MaxShared)
     /\ IF val \in LongMin..LongMax THEN CreateWhole("int", val, Number(val))
        ELSE CreateSds(LlToStr(val), Number(val))

(* obj_dup_string makes an sds string of either kind of string.  It takes  *)
(* an integer for a pointer: nobody duplicates one.                        *)
DupString(id) ==
  /\ held[id] > 0
  /\ objs[id].encoding # "int"
  /\ CreateSds(TextOf(objs[id]), Text(TextOf(objs[id])))

(* Mutant: shared objects are counted as well.                             *)
IncRefShared(id) ==
  /\ held[id] > 0
  /\ objs' = [objs EXCEPT ![id].ref_count = @ + 1]
  /\ held' = [held EXCEPT ![id] = @ + 1]
  /\ got' = NULL
  /\ UNCHANGED sdss

(* obj_inc_ref                                                             *)
IncRef(id) ==
  /\ held[id] > 0
  /\ objs' = IF IsShared(objs[id]) THEN objs ELSE [objs EXCEPT ![id].ref_count = @ + 1]
  /\ held' = [held EXCEPT ![id] = @ + 1]
  /\ got' = NULL
  /\ UNCHANGED sdss

(* Mutant: the string is taken for a part of the object.                   *)
SdsFreedNever(o) == sdss

(* _obj_free_string                                                        *)
SdsFreed(o) == IF o.encoding = "sds" THEN Without(sdss, o.ptr) ELSE sdss

(* Mutant: shared objects are counted down like others.                    *)
DecRefShared(id) ==
  /\ held[id] > 0
  /\ IF objs[id].ref_count > 1
     THEN /\ objs' = [objs EXCEPT ![id].ref_count = @ - 1]
          /\ UNCHANGED sdss
     ELSE /\ objs' = Without(objs, id)
          /\ sdss' = SdsFreed(objs[id])
  /\ held' = [held EXCEPT ![id] = @ - 1]
  /\ got' = NULL

(* Mutant: the object is freed while one reference is left.                *)
DecRefEarly(id) ==
  /\ held[id] > 0
  /\ IF IsShared(objs[id]) THEN UNCHANGED <<objs, sdss>>
     ELSE IF objs[id].ref_count > 2
     THEN /\ objs' = [objs EXCEPT ![id].ref_count = @ - 1]
          /\ UNCHANGED sdss
     ELSE /\ objs' = Without(objs, id)
          /\ sdss' = SdsFreed(objs[id])
  /\ held' = [held EXCEPT ![id] = @ - 1]
  /\ got' = NULL

(* obj_dec_ref                                                             *)
DecRef(id) ==
  /\ held[id] > 0
  /\ IF IsShared(objs[id]) THEN UNCHANGED <<objs, sdss>>
     ELSE IF objs[id].ref_count > 1
     THEN /\ objs' = [objs EXCEPT ![id].ref_count = @ - 1]
          /\ UNCHANGED sdss
     ELSE /\ objs' = Without(objs, id)
          /\ sdss' = SdsFreed(objs[id])
  /\ held' = [held EXCEPT ![id] = @ - 1]
  /\ got' = NULL

Create == \/ \E text \in Texts : CreateString(text) \/ CreateSds(text, Text(text))
          \/ \E val \in Numbers, try_shared \in BOOLEAN : CreateFromLl(val, try_shared)
          \/ \E id \in Ids : DupString(id)

Next == \/ HasRoom /\ Create
        \/ HasRoom /\ \E id \in Ids : IncRef(id)
        \/ \E id \in Ids : DecRef(id)

Spec == Init /\ [][Next]_vars

-----------------------------------------------------------------------------
(* Properties. *)

Live == DOMAIN objs

(* Every variable has its type; for an object: the pointer is what its     *)
(* encoding says (obj.h:18-33).                                            *)
ObjTypeOK ==
  /\ Live \subseteq Ids /\ SharedIds \subseteq Live
  /\ \A id \in Live :
       /\ objs[id] = Object(objs[id].encoding, objs[id].ptr, objs[id].ref_count)
       /\ objs[id].encoding \in {"sds", "embsds", "int"}
       /\ objs[id].encoding = "sds" => objs[id].ptr \in DOMAIN sdss
       /\ objs[id].encoding = "int" => objs[id].ptr \in Int
       /\ objs[id].ref_count \in 1..SHARED_REFCOUNT
  /\ DOMAIN sdss \subseteq Ids
  /\ held \in [Ids -> Nat]

(* An object lives exactly as long as somebody holds it, and its count is  *)
(* how many do, unless it is shared: from the start, or because its count  *)
(* has come to the number that means shared, which makes it immortal       *)
(* (obj.c:43, 172-201).                                                    *)
CountsAreHeld ==
  \A id \in Ids : \/ id \in Live /\ IsShared(objs[id])
                  \/ id \in Live /\ objs[id].ref_count = held[id]
                  \/ id \notin Live /\ held[id] = 0

(* Every sds string belongs to one object that lives, and every object in  *)
(* that encoding has its own: none is freed too early or twice, and none   *)
(* is left behind (obj.c:76-87, 178-206).                                  *)
SdsHaveOneOwner ==
  LET owns(id, s) == objs[id].encoding = "sds" /\ objs[id].ptr = s
  IN  /\ \A id \in Live, s \in Ids \ DOMAIN sdss : ~owns(id, s)
      /\ \A s \in DOMAIN sdss : \E id \in Live : \A i \in Live : owns(i, s) <=> i = id

(* What a create function returns denotes what was asked for, whether it   *)
(* is one of the shared integers, an integer in the place of the pointer,  *)
(* or a text (obj.c:37-40, 66-73, 119-151, 158-164; util.c:65-93).         *)
ReturnsWhatWasAsked == got # NULL => Denotes(got.id, got.asked)

(* A value does not change under those who hold it: whatever others do,    *)
(* the object a reference points to stays what it is, in its place, until  *)
(* the reference is given back (obj.c:43, 172-201).                        *)
HeldStays ==
  [][\A id \in Ids : held[id] > 0 /\ held'[id] > 0 =>
       /\ id \in DOMAIN objs'
       /\ objs'[id].encoding = objs[id].encoding /\ objs'[id].ptr = objs[id].ptr
       /\ objs[id].encoding = "sds" => sdss'[objs[id].ptr] = sdss[objs[id].ptr]]_vars
=============================================================================
