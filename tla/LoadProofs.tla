----------------------------- MODULE LoadProofs -----------------------------
(***************************************************************************)
(* Proof that the incremental rehashing of module Dict keeps pace with the *)
(* inserts, for every set of keys, every hash function and all parameters. *)
(*                                                                         *)
(* Every insert during a rehash passes at least one slot of the old table. *)
(* So the dict, which begins the rehash with as many keys as that table    *)
(* has slots, has at most one more for each slot passed, and when all of   *)
(* them have been passed at most twice as many: as many as the new table   *)
(* has slots.                                                              *)
(*                                                                         *)
(* And no call that rehashes goes by without either passing a slot or      *)
(* ending the rehash: the part of module Dict's RehashEnds that a step can *)
(* violate.                                                                *)
(***************************************************************************)
EXTENDS DictProofs

Paced(x, spare) ==
  /\ x.num_safe_iterators = 0
  /\ IF Rehashing(x)
     THEN /\ NumKeys(x) + spare <= x.ht0.size + x.rehash_idx + 1
          /\ x.rehash_idx < x.ht0.size
          /\ 2 * x.ht0.size <= x.ht1.size
     ELSE NumKeys(x) + spare <= x.ht0.size

LoadInv == IndInv /\ dict_can_resize = TRUE /\ Paced(d, 0)

-----------------------------------------------------------------------------
LEMMA NumKeysIsPresent ==
  ASSUME NEW x, Consistent(x)
  PROVE  NumKeys(x) = Cardinality(Present(x)) /\ NumKeys(x) \in Nat
<1>1. /\ Counted(x.ht0) /\ Counted(x.ht1) /\ x.ht0.keys \in Nat /\ x.ht1.keys \in Nat
      /\ Entries(x.ht0) \cap Entries(x.ht1) = {}
  BY ConsistentFacts DEF Unique
<1>2. Cardinality(Entries(x.ht0) \cap Entries(x.ht1)) = 0
  BY <1>1, FS_EmptySet
<1>3. IsFiniteSet(Entries(x.ht0)) /\ IsFiniteSet(Entries(x.ht1))
  BY <1>1 DEF Counted
<1>4. Cardinality(Present(x)) =
        Cardinality(Entries(x.ht0)) + Cardinality(Entries(x.ht1))
          - Cardinality(Entries(x.ht0) \cap Entries(x.ht1))
  BY <1>3, FS_Union DEF Present
<1>5. x.ht0.keys = Cardinality(Entries(x.ht0)) /\ x.ht1.keys = Cardinality(Entries(x.ht1))
  BY <1>1 DEF Counted
<1> QED BY <1>1, <1>2, <1>4, <1>5 DEF NumKeys

(* A step of a rehash ends it, or passes a slot and leaves another.        *)
LEMMA StepPasses ==
  ASSUME NEW x, Consistent(x), Rehashing(x)
  PROVE  LET y == Rehash(x, 1)
         IN  Rehashing(y) => y.rehash_idx > x.rehash_idx /\ y.rehash_idx < x.ht0.size
<1> DEFINE stop == Min(RehashStops(x, 1))
           y == Rehash(x, 1)
           old == Emptied(x.ht0, x.rehash_idx, stop)
<1>1. stop \in x.rehash_idx..x.ht0.size
  BY RehashStopOk
<1>2. /\ x.rehash_idx \in Nat /\ x.ht0.size \in Nat /\ x.ht0.keys \in Nat
      /\ Counted(x.ht0) /\ \A i \in 0..(x.rehash_idx - 1) : x.ht0.table[i] = {}
  BY ConsistentFacts
<1>3. stop \in RehashStops(x, 1)
  <2>1. RehashStops(x, 1) \subseteq Nat
    BY <1>2 DEF RehashStops
  <2>2. RehashStops(x, 1) # {}
    <3>1. Moved(x, x.ht0.size) = Entries(x.ht0)
      BY <1>2 DEF Moved, Entries
    <3>2. x.ht0.size \in x.rehash_idx..x.ht0.size
      BY <1>1, <1>2
    <3> QED BY <1>2, <3>1, <3>2 DEF RehashStops, Counted
  <2> HIDE DEF stop
  <2> QED BY <2>1, <2>2, MinInSet DEF stop
<1>4. y = RehashUpTo(x, stop)
  BY DEF Rehash
<1> HIDE DEF stop, y
<1>5. old.keys = x.ht0.keys - Cardinality(Moved(x, stop))
  BY DEF Emptied, Moved
<1>6. CASE stop = x.rehash_idx
  <2>1. x.rehash_idx..(stop - 1) = {}
    BY <1>2, <1>6
  <2>2. Moved(x, stop) = {} /\ EmptySlots(x, stop) = {}
    BY <2>1 DEF Moved, EmptySlots
  <2>3. Cardinality({}) = 0
    BY FS_EmptySet
  <2>4. x.ht0.keys = 0
    <3>1. (x.rehash_idx..(stop - 1)) \ EmptySlots(x, stop) = {}
      BY <2>1
    <3>2. \/ Cardinality({}) = 1 \/ Cardinality({}) = x.ht0.keys \/ Cardinality({}) = 1 * EmptyVisits
      BY <1>3, <2>2, <3>1 DEF RehashStops
    <3> QED BY <2>3, <3>2, ParameterAssumption
  <2>5. old.keys = 0
    BY <1>5, <2>2, <2>3, <2>4
  <2> QED BY <1>4, <2>5 DEF RehashUpTo, Rehashing, DictOf, y
<1>7. CASE stop = x.ht0.size
  <2>1. Moved(x, stop) = Entries(x.ht0)
    BY <1>2, <1>7 DEF Moved, Entries
  <2>2. old.keys = 0
    BY <1>2, <1>5, <2>1 DEF Counted
  <2> QED BY <1>4, <2>2 DEF RehashUpTo, Rehashing, DictOf, y
<1>8. CASE stop # x.rehash_idx /\ stop # x.ht0.size
  <2>1. stop > x.rehash_idx /\ stop < x.ht0.size
    BY <1>1, <1>2, <1>8
  <2>2. Rehashing(y) => y.rehash_idx = stop
    BY <1>4 DEF RehashUpTo, Rehashing, DictOf
  <2> QED BY <2>1, <2>2 DEF y
<1> QED BY <1>6, <1>7, <1>8

(* Every call that rehashes a step makes room for one more key, unless it  *)
(* finds no rehash under way or ends the one it finds.                     *)
LEMMA StepPaced ==
  ASSUME NEW x, Consistent(x), Paced(x, 0)
  PROVE  LET y == Rehash1Step(x)
         IN  /\ Consistent(y) /\ Present(y) = Present(x)
             /\ Paced(y, 0)
             /\ Rehashing(y) => Paced(y, 1)
<1> DEFINE y == Rehash1Step(x)
<1>1. y = Rehash(x, 1)
  BY DEF Rehash1Step, Paced
<1> DEFINE w == Rehash(x, 1)
<1>2. /\ Consistent(w) /\ Present(w) = Present(x)
      /\ w.num_safe_iterators = x.num_safe_iterators
      /\ ~Rehashing(x) => w = x
      /\ Rehashing(x) => \/ /\ Rehashing(w)
                            /\ w.ht0.size = x.ht0.size /\ w.ht1.size = x.ht1.size
                         \/ ~Rehashing(w) /\ w.ht0.size = x.ht1.size
  BY RehashOk
<1>3. Rehashing(x) /\ Rehashing(w) => w.rehash_idx > x.rehash_idx /\ w.rehash_idx < x.ht0.size
  BY StepPasses
<1> HIDE DEF w
<1>4. NumKeys(w) = NumKeys(x) /\ NumKeys(x) \in Nat
  BY <1>2, NumKeysIsPresent
<1>5. /\ x.ht0.size \in Nat /\ x.ht1.size \in Nat /\ x.rehash_idx \in Int
      /\ w.ht0.size \in Nat /\ w.ht1.size \in Nat /\ w.rehash_idx \in Int
  BY <1>2, ConsistentFacts
<1>6. Paced(w, 0) /\ (Rehashing(w) => Paced(w, 1))
  BY <1>2, <1>3, <1>4, <1>5 DEF Paced
<1> QED BY <1>1, <1>2, <1>6 DEF w

(* After the preliminaries of an insert there is room for the new key. *)
LEMMA PreparedPaced ==
  ASSUME NEW x, Consistent(x), Paced(x, 0), dict_can_resize = TRUE
  PROVE  Paced(Prepared(x), 1)
<1> DEFINE z == Rehash1Step(x)
           y == ExpandIfNeeded(z)
<1>1. Consistent(z) /\ Paced(z, 0) /\ (Rehashing(z) => Paced(z, 1))
  BY StepPaced
<1>2. Prepared(x) = y
  BY DEF Prepared
<1> HIDE DEF z
<1>3. /\ z.ht0.size \in Nat /\ z.ht0.keys \in Nat /\ z.ht1.keys \in Nat
      /\ NumKeys(z) = z.ht0.keys + z.ht1.keys
      /\ ~Rehashing(z) => z.rehash_idx = -1 /\ z.ht1 = NoHt
  BY <1>1, ConsistentFacts DEF NumKeys
<1>4. NoHt.keys = 0 /\ \A size : NewHt(size).keys = 0 /\ NewHt(size).size = size
  BY DEF NoHt, NewHt
<1>5. CASE Rehashing(z)
  <2>1. y = z
    BY <1>5 DEF ExpandIfNeeded
  <2> QED BY <1>1, <1>2, <1>5, <2>1
<1>6. CASE ~Rehashing(z) /\ z.ht0.size = 0
  <2> DEFINE size == NextPower(InitialSize)
  <2>1. size \in TableSizes /\ size \in Nat \ {0}
    <3>1. InitialSize \in Nat /\ \E n \in TableSizes : InitialSize <= n
      BY ParameterAssumption, TableSizesAssumption
    <3>2. size \in TableSizes
      BY <3>1, NextPowerOk
    <3> QED BY <3>2, TableSizesAssumption
  <2> HIDE DEF size
  <2>2. y = DictOf(NewHt(size), z.ht1, z.rehash_idx, z.num_safe_iterators)
    BY <1>6, <2>1 DEF ExpandIfNeeded, ResizeTo, Resizable, size
  <2>3. y.ht0 = NewHt(size) /\ y.ht1 = NoHt /\ y.rehash_idx = -1 /\ y.num_safe_iterators = 0
    BY <1>1, <1>3, <1>6, <2>2, DictFields DEF Paced
  <2>4. NumKeys(y) = 0 /\ y.ht0.size = size /\ ~Rehashing(y)
    BY <1>4, <2>3 DEF NumKeys, Rehashing
  <2> QED BY <1>2, <2>1, <2>3, <2>4 DEF Paced
<1>7. CASE ~Rehashing(z) /\ z.ht0.size # 0 /\ MustExpand(z)
  <2>1. z.ht0.keys = z.ht0.size
    <3>1. z.ht0.keys >= z.ht0.size
      BY <1>7 DEF MustExpand
    <3>2. NumKeys(z) <= z.ht0.size
      BY <1>1, <1>3, <1>7, NumKeysIsPresent DEF Paced
    <3> QED BY <1>3, <1>4, <1>7, <3>1, <3>2
  <2> DEFINE size == NextPower(z.ht0.keys * 2)
  <2>2. size \in Nat /\ size >= 2 * z.ht0.size
    <3>1. z.ht0.keys <= Cardinality(Keys) /\ Cardinality(Keys) \in Nat
      BY <1>1, KeysBoundEntries, KeysAssumption, FS_CardinalityType
    <3>2. PICK big \in TableSizes : 2 * Cardinality(Keys) <= big
      BY TableSizesAssumption
    <3>3. big \in Nat /\ z.ht0.keys * 2 \in Nat /\ z.ht0.keys * 2 <= big
      BY <1>3, <3>1, <3>2, TableSizesAssumption
    <3>4. size \in TableSizes /\ z.ht0.keys * 2 <= size
      BY <3>3, NextPowerOk
    <3> HIDE DEF size
    <3>5. size \in Nat
      BY <3>4, TableSizesAssumption
    <3> QED BY <2>1, <1>3, <3>4, <3>5
  <2> HIDE DEF size
  <2>3. size # z.ht0.size
    BY <1>3, <1>7, <2>2
  <2>4. y = DictOf(z.ht0, NewHt(size), 0, z.num_safe_iterators)
    BY <1>7, <2>3 DEF ExpandIfNeeded, ResizeTo, Resizable, size
  <2>5. y.ht0 = z.ht0 /\ y.ht1 = NewHt(size) /\ y.rehash_idx = 0 /\ y.num_safe_iterators = 0
    BY <1>1, <2>4, DictFields DEF Paced
  <2>6. NumKeys(y) = z.ht0.size /\ y.ht1.size = size /\ Rehashing(y)
    BY <1>3, <1>4, <2>1, <2>5 DEF NumKeys, Rehashing
  <2> QED BY <1>2, <1>3, <1>7, <2>2, <2>5, <2>6 DEF Paced
<1>8. CASE ~Rehashing(z) /\ z.ht0.size # 0 /\ ~MustExpand(z)
  <2>1. y = z
    BY <1>8 DEF ExpandIfNeeded
  <2>2. z.ht0.keys < z.ht0.size
    BY <1>3, <1>8 DEF MustExpand
  <2>3. NumKeys(z) + 1 <= z.ht0.size
    BY <1>3, <1>4, <1>8, <2>2
  <2> QED BY <1>1, <1>2, <1>8, <2>1, <2>3 DEF Paced
<1> QED BY <1>5, <1>6, <1>7, <1>8

-----------------------------------------------------------------------------
LEMMA AddPaced ==
  ASSUME LoadInv, NEW key \in Keys, NEW val \in Vals, Add(key, val)
  PROVE  Paced(d, 0)'
<1> DEFINE z == Prepared(d)
           e == [key |-> key, val |-> val]
<1>1. Consistent(d) /\ Paced(d, 0) /\ dict_can_resize = TRUE
  BY DEF LoadInv, IndInv, DictInv
<1>2. Consistent(z) /\ z.ht0.size > 0 /\ Paced(z, 1)
  BY <1>1, PreparedOk, PreparedPaced
<1>3. z.ht0.size \in Nat /\ z.rehash_idx \in Int /\ NumKeys(z) \in Nat
  BY <1>2, ConsistentFacts, NumKeysIsPresent
<1>4. CASE d' = z
  BY <1>2, <1>3, <1>4 DEF Paced
<1>5. CASE Scan(z, key) = {} /\ d' = Link(z, e)
  <2> HIDE DEF z
  <2> DEFINE y == Link(z, e)
  <2>1. e \in EntryType /\ e.key = key
    BY DEF EntryType
  <2>2. \A f \in Present(z) : f.key # e.key
    BY <1>2, <1>5, <2>1, ScanOk
  <2>3. e \notin Present(z)
    BY <2>2
  <2> HIDE DEF e
  <2>4. /\ Consistent(y) /\ Present(y) = Present(z) \cup {e}
        /\ y.num_safe_iterators = z.num_safe_iterators
        /\ y.rehash_idx = z.rehash_idx
        /\ y.ht0.size = z.ht0.size /\ y.ht1.size = z.ht1.size
    BY <1>2, <2>1, <2>2, LinkOk
  <2> HIDE DEF y
  <2>5. NumKeys(y) = NumKeys(z) + 1
    BY <1>2, <2>3, <2>4, NumKeysIsPresent, ConsistentFacts, FS_AddElement
  <2>6. Paced(y, 0)
    BY <1>2, <1>3, <2>4, <2>5 DEF Paced, Rehashing
  <2> QED BY <1>5, <2>6 DEF y
<1> QED BY <1>4, <1>5 DEF Add

LEMMA VisitedPaced ==
  ASSUME NEW x, Consistent(x), Paced(x, 0)
  PROVE  Consistent(Visited(x)) /\ Paced(Visited(x), 0)
BY StepPaced DEF Visited

LEMMA LookupPaced ==
  ASSUME LoadInv, NEW key \in Keys, Find(key) \/ FetchValue(key)
  PROVE  Paced(d, 0)'
<1>1. Consistent(d) /\ Paced(d, 0)
  BY DEF LoadInv, IndInv, DictInv
<1>2. d' = Visited(d)
  BY DEF Find, FetchValue
<1> QED BY <1>1, <1>2, VisitedPaced

LEMMA UnlinkPaced ==
  ASSUME LoadInv, NEW key \in Keys, Unlink(key)
  PROVE  Paced(d, 0)'
<1> DEFINE z == Visited(d)
<1>1. Consistent(z) /\ Paced(z, 0)
  BY VisitedPaced DEF LoadInv, IndInv, DictInv
<1>2. Found(z, key) = {f \in Present(z) : f.key = key}
  BY <1>1, FoundOk
<1>3. \/ \E e \in Found(z, key) : d' = Unlinked(z, e)
      \/ d' = z
  BY DEF Unlink, GenericDelete
<1> HIDE DEF z
<1>4. ASSUME NEW e \in Present(z), d' = Unlinked(z, e)
      PROVE  Paced(d, 0)'
  <2> DEFINE y == Unlinked(z, e)
  <2>1. /\ Consistent(y) /\ Present(y) = Present(z) \ {e}
        /\ y.num_safe_iterators = z.num_safe_iterators
        /\ y.rehash_idx = z.rehash_idx
        /\ y.ht0.size = z.ht0.size /\ y.ht1.size = z.ht1.size
    BY <1>1, <1>4, UnlinkedOk
  <2> HIDE DEF y
  <2>2. NumKeys(y) = NumKeys(z) - 1
    BY <1>1, <1>4, <2>1, NumKeysIsPresent, ConsistentFacts, FS_RemoveElement
  <2>3. z.ht0.size \in Nat /\ z.rehash_idx \in Int /\ NumKeys(z) \in Nat
    BY <1>1, ConsistentFacts, NumKeysIsPresent
  <2>4. Paced(y, 0)
    BY <1>1, <2>1, <2>2, <2>3 DEF Paced, Rehashing
  <2> QED BY <1>4, <2>4 DEF y
<1> QED BY <1>1, <1>2, <1>3, <1>4

LEMMA ServerNextPaced ==
  ASSUME LoadInv, [ServerNext]_vars
  PROVE  LoadInv'
<1>1. CASE ServerNext
  <2>1. Next
    BY <1>1 DEF ServerNext, Next, Lookup, Update
  <2>2. IndInv'
    BY <2>1, NextOk DEF LoadInv
  <2>3. dict_can_resize' = TRUE
    BY <1>1 DEF LoadInv, ServerNext, Add, Find, FetchValue, Unlink, GenericDelete
  <2>4. Paced(d, 0)'
    BY <1>1, AddPaced, LookupPaced, UnlinkPaced DEF ServerNext
  <2> QED BY <2>2, <2>3, <2>4 DEF LoadInv
<1>2. CASE UNCHANGED vars
  BY <1>2, NextOk DEF LoadInv, vars, Paced, Rehashing, NumKeys
<1> QED BY <1>1, <1>2

LEMMA InitPaced == Init => LoadInv
<1> SUFFICES ASSUME Init PROVE LoadInv
  OBVIOUS
<1>1. IndInv /\ dict_can_resize = TRUE
  BY InitOk DEF Init
<1>2. Paced(Created, 0)
  <2>1. Created.ht0 = NoHt /\ Created.ht1 = NoHt /\ Created.rehash_idx = -1
        /\ Created.num_safe_iterators = 0
    BY DictFields DEF Created
  <2>2. NoHt.keys = 0 /\ NoHt.size = 0
    BY DEF NoHt, NewHt
  <2> QED BY <2>1, <2>2 DEF Paced, Rehashing, NumKeys
<1> QED BY <1>1, <1>2 DEF Init, LoadInv

LEMMA PacedIsBounded == LoadInv => LoadBounded
<1> SUFFICES ASSUME LoadInv PROVE LoadBounded
  OBVIOUS
<1>1. Consistent(d) /\ Paced(d, 0)
  BY DEF LoadInv, IndInv, DictInv
<1>2. /\ d.ht0.size \in Nat /\ d.ht1.size \in Nat /\ d.rehash_idx \in Int /\ NumKeys(d) \in Nat
  BY <1>1, ConsistentFacts, NumKeysIsPresent
<1> QED BY <1>1, <1>2 DEF Paced, LoadBounded

(* Under the calls of the server a rehash is over before the next          *)
(* expansion is due, whatever the keys and their hashes (dict.c:110-118,   *)
(* 164-176).                                                               *)
THEOREM LoadStaysBounded == ServerSpec => []LoadBounded
<1>1. Init => LoadInv
  BY InitPaced
<1>2. LoadInv /\ [ServerNext]_vars => LoadInv'
  BY ServerNextPaced
<1>3. LoadInv => LoadBounded
  BY PacedIsBounded
<1> QED BY <1>1, <1>2, <1>3, PTL DEF ServerSpec

-----------------------------------------------------------------------------
(* What RehashEnds rests on: no call on a dict that is rehashing goes by   *)
(* without passing a slot.                                                 *)

(* A rehash that a call has to carry on. *)
UnderWay == Rehashing(d) /\ NumKeys(d) > 0 /\ d.num_safe_iterators = 0

SlotPassed(x, y) ==
  /\ y.ht0.size = x.ht0.size /\ y.ht1.size = x.ht1.size
  /\ x.rehash_idx < y.rehash_idx /\ y.rehash_idx < x.ht0.size

(* The new table is the one in use; an insert may find it full and begin   *)
(* the rehash of the next one.                                             *)
RehashOver(x, y) ==
  /\ y.ht0.size = x.ht1.size
  /\ Rehashing(y) => y.rehash_idx = 0 /\ y.ht0.size < y.ht1.size

Advances(x, y) == SlotPassed(x, y) \/ RehashOver(x, y)

(* Every lookup and every update, one that finds nothing included, passes  *)
(* at least one slot of the old table or ends the rehash: as many calls as *)
(* there are slots left are always enough, whatever keys they are about    *)
(* and whatever they insert and delete in between (dict.c:110-160, 184,    *)
(* 272, 321).                                                              *)
CallsAdvance == [][UnderWay /\ (Lookup \/ Update) => Advances(d, d')]_vars

LEMMA StepAdvances ==
  ASSUME NEW x, Consistent(x), Rehashing(x), x.num_safe_iterators = 0
  PROVE  LET y == Rehash1Step(x)
         IN  Consistent(y) /\ Advances(x, y) /\ (~Rehashing(y) => y.ht0.size = x.ht1.size)
<1> DEFINE y == Rehash(x, 1)
<1>1. Rehash1Step(x) = y
  BY DEF Rehash1Step
<1>2. /\ Consistent(y)
      /\ \/ Rehashing(y) /\ y.ht0.size = x.ht0.size /\ y.ht1.size = x.ht1.size
         \/ ~Rehashing(y) /\ y.ht0.size = x.ht1.size
  BY RehashOk
<1>3. Rehashing(y) => y.rehash_idx > x.rehash_idx /\ y.rehash_idx < x.ht0.size
  BY StepPasses
<1> HIDE DEF y
<1>4. x.rehash_idx \in Int /\ y.rehash_idx \in Int
  BY <1>2, ConsistentFacts
<1>5. CASE Rehashing(y)
  BY <1>1, <1>2, <1>3, <1>4, <1>5 DEF Advances, SlotPassed
<1>6. CASE ~Rehashing(y)
  BY <1>1, <1>2, <1>6 DEF Advances, RehashOver
<1> QED BY <1>5, <1>6

(* An expansion begins a rehash from its first slot, to a larger table.    *)
LEMMA ExpansionGrows ==
  ASSUME NEW x, Consistent(x), ~Rehashing(x), x.ht0.size > 0
  PROVE  LET y == ExpandIfNeeded(x)
         IN  /\ y.ht0 = x.ht0
             /\ Rehashing(y) => y.rehash_idx = 0 /\ y.ht0.size < y.ht1.size
<1> DEFINE y == ExpandIfNeeded(x)
           size == NextPower(x.ht0.keys * 2)
<1>1. x.ht0.size \in Nat /\ x.ht0.keys \in Nat
  BY ConsistentFacts
<1>2. CASE ~MustExpand(x)
  BY <1>1, <1>2 DEF ExpandIfNeeded
<1>3. CASE MustExpand(x)
  <2>1. x.ht0.keys >= x.ht0.size
    BY <1>3 DEF MustExpand
  <2>2. x.ht0.keys <= Cardinality(Keys) /\ Cardinality(Keys) \in Nat
    BY KeysBoundEntries, KeysAssumption, FS_CardinalityType
  <2>3. PICK big \in TableSizes : 2 * Cardinality(Keys) <= big
    BY TableSizesAssumption
  <2>4. big \in Nat /\ x.ht0.keys * 2 \in Nat /\ x.ht0.keys * 2 <= big
    BY <1>1, <2>2, <2>3, TableSizesAssumption
  <2>5. size \in TableSizes /\ x.ht0.keys * 2 <= size
    BY <2>4, NextPowerOk
  <2> HIDE DEF size
  <2>6. size \in Nat /\ x.ht0.size < size
    <3>1. size \in Nat
      BY <2>5, TableSizesAssumption
    <3> QED BY <1>1, <2>1, <2>5, <3>1
  <2>7. y = DictOf(x.ht0, NewHt(size), 0, x.num_safe_iterators)
    BY <1>1, <1>3, <2>6 DEF ExpandIfNeeded, ResizeTo, Resizable, size
  <2>8. y.ht0 = x.ht0 /\ y.ht1 = NewHt(size) /\ y.rehash_idx = 0
    BY <2>7, DictFields
  <2>9. y.ht1.size = size
    BY <2>8 DEF NewHt
  <2> QED BY <2>6, <2>8, <2>9
<1> QED BY <1>2, <1>3

LEMMA PreparedAdvances ==
  ASSUME NEW x, Consistent(x), Rehashing(x), x.num_safe_iterators = 0
  PROVE  Advances(x, Prepared(x))
<1> DEFINE z == Rehash1Step(x)
           y == ExpandIfNeeded(z)
<1>1. Consistent(z) /\ Advances(x, z) /\ (~Rehashing(z) => z.ht0.size = x.ht1.size)
  BY StepAdvances
<1>2. Prepared(x) = y
  BY DEF Prepared
<1> HIDE DEF z
<1>3. CASE Rehashing(z)
  BY <1>1, <1>2, <1>3 DEF ExpandIfNeeded
<1>4. CASE ~Rehashing(z)
  <2>1. z.ht0.size = x.ht1.size /\ x.ht1.size > 0
    BY <1>1, <1>4, ConsistentFacts
  <2>2. y.ht0 = z.ht0 /\ (Rehashing(y) => y.rehash_idx = 0 /\ y.ht0.size < y.ht1.size)
    BY <1>1, <1>4, <2>1, ExpansionGrows
  <2> HIDE DEF y
  <2> QED BY <1>2, <2>1, <2>2 DEF Advances, RehashOver
<1> QED BY <1>3, <1>4

(* What follows the preliminaries of a call leaves the rehash alone. *)
LEMMA AdvancesOnwards ==
  ASSUME NEW x, NEW z, NEW y, Advances(x, z),
         y.ht0.size = z.ht0.size, y.ht1.size = z.ht1.size, y.rehash_idx = z.rehash_idx
  PROVE  Advances(x, y)
BY DEF Advances, SlotPassed, RehashOver, Rehashing

LEMMA LookupsAdvance ==
  ASSUME DictInv, UnderWay, Lookup
  PROVE  Advances(d, d')
<1>1. d' = Visited(d)
  BY DEF Lookup, Find, FetchValue
<1>2. Visited(d) = Rehash1Step(d)
  BY DEF Visited, UnderWay
<1> QED BY <1>1, <1>2, StepAdvances DEF DictInv, UnderWay

LEMMA InsertsAdvance ==
  ASSUME DictInv, UnderWay, NEW key \in Keys, NEW val \in Vals,
         Add(key, val) \/ AddOrReplace(key, val)
  PROVE  Advances(d, d')
<1> DEFINE z == Prepared(d)
           e2 == [key |-> key, val |-> val]
<1>1. Consistent(z) /\ z.ht0.size > 0
  BY PreparedOk DEF DictInv
<1>2. Advances(d, z)
  BY PreparedAdvances DEF DictInv, UnderWay
<1>3. Scan(z, key) = {e \in Present(z) : e.key = key}
  BY <1>1, ScanOk
<1>4. \/ d' = z
      \/ Scan(z, key) = {} /\ d' = Link(z, e2)
      \/ \E e \in Scan(z, key) : d' = SetVal(z, e, val)
  BY DEF Add, AddOrReplace
<1> HIDE DEF z
<1>5. CASE Scan(z, key) = {} /\ d' = Link(z, e2)
  <2>1. e2 \in EntryType /\ e2.key = key
    BY DEF EntryType
  <2>2. \A f \in Present(z) : f.key # e2.key
    BY <1>3, <1>5, <2>1
  <2> HIDE DEF e2
  <2>3. LET y == Link(z, e2)
        IN  y.ht0.size = z.ht0.size /\ y.ht1.size = z.ht1.size /\ y.rehash_idx = z.rehash_idx
    BY <1>1, <2>1, <2>2, LinkOk
  <2> QED BY <1>2, <1>5, <2>3, AdvancesOnwards
<1>6. ASSUME NEW e \in Scan(z, key), d' = SetVal(z, e, val)
      PROVE  Advances(d, d')
  <2>1. e \in Present(z)
    BY <1>3
  <2>2. LET y == SetVal(z, e, val)
        IN  y.ht0.size = z.ht0.size /\ y.ht1.size = z.ht1.size /\ y.rehash_idx = z.rehash_idx
    BY <1>1, <2>1, SetValOk
  <2> QED BY <1>2, <1>6, <2>2, AdvancesOnwards
<1> QED BY <1>2, <1>4, <1>5, <1>6

LEMMA RemovalsAdvance ==
  ASSUME DictInv, UnderWay, NEW key \in Keys, Delete(key) \/ Unlink(key)
  PROVE  Advances(d, d')
<1> DEFINE z == Visited(d)
<1>1. Consistent(z)
  BY VisitedOk DEF DictInv
<1>2. Advances(d, z)
  BY StepAdvances DEF DictInv, UnderWay, Visited
<1>3. \/ d' = z
      \/ \E e \in Found(z, key) : d' = Unlinked(z, e)
  BY DEF Delete, Unlink, GenericDelete
<1>4. Found(z, key) = {e \in Present(z) : e.key = key}
  BY <1>1, FoundOk
<1> HIDE DEF z
<1>5. ASSUME NEW e \in Found(z, key), d' = Unlinked(z, e)
      PROVE  Advances(d, d')
  <2>1. e \in Present(z)
    BY <1>4
  <2>2. LET y == Unlinked(z, e)
        IN  y.ht0.size = z.ht0.size /\ y.ht1.size = z.ht1.size /\ y.rehash_idx = z.rehash_idx
    BY <1>1, <2>1, UnlinkedOk
  <2> QED BY <1>2, <1>5, <2>2, AdvancesOnwards
<1> QED BY <1>2, <1>3, <1>5

(* A rehash has as many calls to go as slots, at most: the part of         *)
(* RehashEnds that needs no fairness, for lookups and updates alike        *)
(* (dict.c:110-160).                                                       *)
THEOREM EveryCallAdvances == Spec => CallsAdvance
<1>1. IndInv /\ [Next]_vars => [UnderWay /\ (Lookup \/ Update) => Advances(d, d')]_vars
  BY LookupsAdvance, InsertsAdvance, RemovalsAdvance DEF IndInv, Update
<1> QED BY <1>1, Invariant, PTL DEF Spec, CallsAdvance
=============================================================================
