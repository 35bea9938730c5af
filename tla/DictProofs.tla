----------------------------- MODULE DictProofs -----------------------------
(***************************************************************************)
(* Proofs about module Dict, for every set of keys and values, every hash  *)
(* function and every value of the parameters its assumptions allow.       *)
(*                                                                         *)
(* Consistent(dict) is the inductive invariant.  Each helper of dict.c has *)
(* a lemma saying that it keeps a consistent dict consistent and what it   *)
(* does to Present(dict), the entries the dict holds; the theorems compose *)
(* these lemmas in the order in which the operations call the helpers.     *)
(***************************************************************************)
EXTENDS Dict, FiniteSetTheorems, NaturalsInduction, TLAPS

-----------------------------------------------------------------------------
(* Hash tables. *)

LEMMA SlotInTable ==
  ASSUME NEW ht, NEW key \in Keys, ht.size \in Nat \ {0}
  PROVE  SlotOf(ht, key) \in 0..(ht.size - 1)
<1>1. Hash[key] \in Nat
  BY KeysAssumption
<1>2. \A h \in Nat, s \in Nat \ {0} : h % s \in 0..(s - 1)
  BY SMT
<1> QED BY <1>1, <1>2 DEF SlotOf

LEMMA SizesAreNat == TableSizes \cup {0} \subseteq Nat
BY TableSizesAssumption

LEMMA InEntries ==
  ASSUME NEW ht, NEW e
  PROVE  e \in Entries(ht) <=> \E i \in 0..(ht.size - 1) : e \in ht.table[i]
BY DEF Entries

(* An empty table of an allowed size is a consistent table without entries. *)
LEMMA NewHtEmpty ==
  ASSUME NEW size \in TableSizes \cup {0}
  PROVE  /\ IsHt(NewHt(size))
         /\ NewHt(size).size = size
         /\ Entries(NewHt(size)) = {}
         /\ Placed(NewHt(size))
         /\ Counted(NewHt(size))
<1>1. size \in Nat
  BY SizesAreNat
<1>2. Entries(NewHt(size)) = {}
  BY <1>1 DEF Entries, NewHt
<1>3. Counted(NewHt(size))
  BY <1>2, FS_EmptySet DEF Counted, NewHt
<1> QED BY <1>1, <1>2, <1>3 DEF IsHt, NewHt, Placed

(* The entries of a well-placed table are those of the slots their hashes select. *)
LEMMA EntryInItsSlot ==
  ASSUME NEW ht, IsHt(ht), Placed(ht), NEW e \in Entries(ht)
  PROVE  /\ e \in EntryType
         /\ ht.size > 0
         /\ SlotOf(ht, e.key) \in 0..(ht.size - 1)
         /\ e \in ht.table[SlotOf(ht, e.key)]
<1>1. ht.size \in Nat
  BY SizesAreNat DEF IsHt
<1>2. PICK i \in 0..(ht.size - 1) : e \in ht.table[i]
  BY DEF Entries
<1>3. SlotOf(ht, e.key) = i
  BY <1>2 DEF Placed
<1> QED BY <1>1, <1>2, <1>3 DEF IsHt

LEMMA InSlotIsEntries ==
  ASSUME NEW ht, IsHt(ht), Placed(ht), ht.size > 0, NEW key \in Keys
  PROVE  InSlot(ht, key) = {e \in Entries(ht) : e.key = key}
<1>1. ht.size \in Nat
  BY SizesAreNat DEF IsHt
<1>2. SlotOf(ht, key) \in 0..(ht.size - 1)
  BY <1>1, SlotInTable
<1>3. ASSUME NEW e \in InSlot(ht, key) PROVE e \in Entries(ht) /\ e.key = key
  BY <1>2, <1>3 DEF InSlot, Entries
<1>4. ASSUME NEW e \in Entries(ht), e.key = key PROVE e \in InSlot(ht, key)
  BY <1>4, EntryInItsSlot DEF InSlot
<1> QED BY <1>3, <1>4

(* Linking a new entry into the slot its hash selects. *)
LEMMA WithEntryOk ==
  ASSUME NEW ht, IsHt(ht), Placed(ht), Counted(ht), ht.size > 0,
         NEW e \in EntryType, e \notin Entries(ht)
  PROVE  /\ IsHt(WithEntry(ht, e)) /\ Placed(WithEntry(ht, e)) /\ Counted(WithEntry(ht, e))
         /\ WithEntry(ht, e).size = ht.size
         /\ Entries(WithEntry(ht, e)) = Entries(ht) \cup {e}
<1> DEFINE new == WithEntry(ht, e)
           slot == SlotOf(ht, e.key)
<1>1. ht.size \in Nat /\ new.size = ht.size /\ new.keys = ht.keys + 1
  BY SizesAreNat DEF IsHt, WithEntry
<1>2. slot \in 0..(ht.size - 1)
  BY <1>1, SlotInTable DEF EntryType
<1>3. /\ new.table \in [0..(ht.size - 1) -> SUBSET EntryType]
      /\ \A i \in 0..(ht.size - 1) :
           new.table[i] = IF i = slot THEN ht.table[i] \cup {e} ELSE ht.table[i]
  BY <1>2 DEF WithEntry, IsHt
<1>4. Entries(new) = Entries(ht) \cup {e}
  <2>1. ASSUME NEW f \in Entries(new) PROVE f \in Entries(ht) \cup {e}
    <3>1. PICK i \in 0..(ht.size - 1) : f \in new.table[i]
      BY <2>1, <1>1, InEntries
    <3> QED BY <3>1, <1>3, InEntries
  <2>2. ASSUME NEW f \in Entries(ht) PROVE f \in Entries(new)
    <3>1. PICK i \in 0..(ht.size - 1) : f \in ht.table[i]
      BY <2>2, InEntries
    <3> QED BY <3>1, <1>1, <1>3, InEntries
  <2>3. e \in Entries(new)
    BY <1>1, <1>2, <1>3, InEntries
  <2> QED BY <2>1, <2>2, <2>3
<1>5. Counted(new)
  BY <1>1, <1>4, FS_AddElement DEF Counted
<1>6. IsHt(new)
  BY <1>1, <1>3 DEF IsHt, WithEntry
<1>7. Placed(new)
  <2>1. \A f : SlotOf(new, f.key) = SlotOf(ht, f.key)
    BY <1>1 DEF SlotOf
  <2> QED BY <2>1, <1>1, <1>3 DEF Placed
<1> QED BY <1>1, <1>4, <1>5, <1>6, <1>7

LEMMA WithoutEntryOk ==
  ASSUME NEW ht, IsHt(ht), Placed(ht), Counted(ht), NEW e \in Entries(ht)
  PROVE  /\ IsHt(WithoutEntry(ht, e)) /\ Placed(WithoutEntry(ht, e)) /\ Counted(WithoutEntry(ht, e))
         /\ WithoutEntry(ht, e).size = ht.size
         /\ \A i \in 0..(ht.size - 1) : WithoutEntry(ht, e).table[i] \subseteq ht.table[i]
         /\ Entries(WithoutEntry(ht, e)) = Entries(ht) \ {e}
<1> DEFINE new == WithoutEntry(ht, e)
           slot == SlotOf(ht, e.key)
<1>1. ht.size \in Nat /\ new.size = ht.size /\ new.keys = ht.keys - 1
  BY SizesAreNat DEF IsHt, WithoutEntry
<1>2. slot \in 0..(ht.size - 1) /\ e \in ht.table[slot]
  BY EntryInItsSlot
<1>3. /\ new.table \in [0..(ht.size - 1) -> SUBSET EntryType]
      /\ \A i \in 0..(ht.size - 1) :
           new.table[i] = IF i = slot THEN ht.table[i] \ {e} ELSE ht.table[i]
  BY <1>2 DEF WithoutEntry, IsHt
<1>4. \A i \in 0..(ht.size - 1) : e \in ht.table[i] => i = slot
  BY DEF Placed
<1>5. Entries(new) = Entries(ht) \ {e}
  <2>1. ASSUME NEW f \in Entries(new) PROVE f \in Entries(ht) \ {e}
    <3>1. PICK i \in 0..(ht.size - 1) : f \in new.table[i]
      BY <2>1, <1>1, InEntries
    <3> QED BY <3>1, <1>3, <1>4, InEntries
  <2>2. ASSUME NEW f \in Entries(ht) \ {e} PROVE f \in Entries(new)
    <3>1. PICK i \in 0..(ht.size - 1) : f \in ht.table[i]
      BY <2>2, InEntries
    <3> QED BY <3>1, <2>2, <1>1, <1>3, InEntries
  <2> QED BY <2>1, <2>2
<1>6. Counted(new) /\ new.keys \in Nat
  <2>1. IsFiniteSet(Entries(new)) /\ Cardinality(Entries(new)) = Cardinality(Entries(ht)) - 1
    BY <1>5, FS_RemoveElement DEF Counted
  <2> QED BY <2>1, <1>1, FS_CardinalityType DEF Counted
<1>7. IsHt(new)
  BY <1>1, <1>3, <1>6 DEF IsHt, WithoutEntry
<1>8. Placed(new)
  <2>1. \A f : SlotOf(new, f.key) = SlotOf(ht, f.key)
    BY <1>1 DEF SlotOf
  <2> QED BY <2>1, <1>1, <1>3 DEF Placed
<1> QED BY <1>1, <1>3, <1>5, <1>6, <1>7, <1>8

(* Giving an entry another value leaves it in its slot. *)
LEMMA RevaluedOk ==
  ASSUME NEW ht, IsHt(ht), Placed(ht), Counted(ht), NEW e \in Entries(ht), NEW val \in Vals,
         \A f \in Entries(ht) : f.key = e.key => f = e
  PROVE  LET new == Revalued(ht, e, val)
             e2  == [key |-> e.key, val |-> val]
         IN  /\ IsHt(new) /\ Placed(new) /\ Counted(new)
             /\ new.size = ht.size
             /\ \A i \in 0..(ht.size - 1) : ht.table[i] = {} => new.table[i] = {}
             /\ Entries(new) = (Entries(ht) \ {e}) \cup {e2}
<1> DEFINE new == Revalued(ht, e, val)
           slot == SlotOf(ht, e.key)
           e2 == [key |-> e.key, val |-> val]
<1>1. ht.size \in Nat /\ new.size = ht.size /\ new.keys = ht.keys
  BY SizesAreNat DEF IsHt, Revalued
<1>2. slot \in 0..(ht.size - 1) /\ e \in ht.table[slot] /\ e \in EntryType
  BY EntryInItsSlot
<1>3. e2 \in EntryType /\ e2.key = e.key
  BY <1>2 DEF EntryType
<1>4. /\ new.table \in [0..(ht.size - 1) -> SUBSET EntryType]
      /\ \A i \in 0..(ht.size - 1) :
           new.table[i] = IF i = slot THEN (ht.table[i] \ {e}) \cup {e2} ELSE ht.table[i]
  BY <1>2, <1>3 DEF Revalued, IsHt
<1>5. \A i \in 0..(ht.size - 1) : e \in ht.table[i] => i = slot
  BY DEF Placed
<1> HIDE DEF new, slot, e2
<1>6. Entries(new) = (Entries(ht) \ {e}) \cup {e2}
  <2>1. ASSUME NEW f \in Entries(new) PROVE f \in (Entries(ht) \ {e}) \cup {e2}
    <3>1. PICK i \in 0..(ht.size - 1) : f \in new.table[i]
      BY <2>1, <1>1, InEntries
    <3> QED BY <3>1, <1>4, <1>5, InEntries
  <2>2. ASSUME NEW f \in Entries(ht) \ {e} PROVE f \in Entries(new)
    <3>1. PICK i \in 0..(ht.size - 1) : f \in ht.table[i]
      BY <2>2, InEntries
    <3> QED BY <3>1, <2>2, <1>1, <1>4, InEntries
  <2>3. e2 \in Entries(new)
    BY <1>1, <1>2, <1>4, InEntries
  <2> QED BY <2>1, <2>2, <2>3
<1>7. Counted(new)
  <2>1. /\ IsFiniteSet(Entries(ht) \ {e})
        /\ Cardinality(Entries(ht) \ {e}) = Cardinality(Entries(ht)) - 1
    BY FS_RemoveElement DEF Counted
  <2>2. e2 \notin Entries(ht) \ {e}
    BY <1>3
  <2>3. /\ IsFiniteSet(Entries(new))
        /\ Cardinality(Entries(new)) = Cardinality(Entries(ht) \ {e}) + 1
    BY <2>1, <2>2, <1>6, FS_AddElement
  <2> QED BY <2>1, <2>3, <1>1, FS_CardinalityType DEF Counted
<1>8. IsHt(new)
  BY <1>1, <1>4 DEF IsHt, Revalued, new
<1>9. Placed(new)
  <2>1. \A f : SlotOf(new, f.key) = SlotOf(ht, f.key)
    BY <1>1 DEF SlotOf
  <2>2. SlotOf(ht, e2.key) = slot
    BY <1>3 DEF slot
  <2> QED BY <2>1, <2>2, <1>1, <1>4 DEF Placed
<1>10. \A i \in 0..(ht.size - 1) : ht.table[i] = {} => new.table[i] = {}
  BY <1>2, <1>4
<1> QED BY <1>1, <1>6, <1>7, <1>8, <1>9, <1>10 DEF new, e2

-----------------------------------------------------------------------------
(* Sizes. *)

LEMMA MinInSet ==
  ASSUME NEW S, S \subseteq Nat, S # {}
  PROVE  Min(S) \in S /\ \A m \in S : Min(S) <= m
<1>1. PICK n \in S : \A m \in S : ~(m < n)
  <2>1. IsWellFoundedOn(OpToRel(<, Nat), Nat)
    BY NatLessThanWellFounded
  <2>2. \E n \in S : \A m \in S : ~ (<<m, n>> \in OpToRel(<, Nat))
    BY <2>1, WFMin
  <2> QED BY <2>2 DEF OpToRel
<1>2. \A m \in S : n <= m
  BY <1>1
<1> QED BY <1>2 DEF Min

(* _dict_next_power returns an allowed size that is large enough. *)
LEMMA NextPowerOk ==
  ASSUME NEW n \in Nat, \E size \in TableSizes : n <= size
  PROVE  NextPower(n) \in TableSizes /\ n <= NextPower(n)
<1> DEFINE S == {size \in TableSizes : n <= size}
<1>1. S \subseteq Nat /\ S # {}
  BY TableSizesAssumption
<1>2. Min(S) \in S
  BY <1>1, MinInSet
<1> QED BY <1>2 DEF NextPower

-----------------------------------------------------------------------------
(* Rehashing. *)

(* The table of the new size gains the entries that are moved into it. *)
LEMMA ReceiveOk ==
  ASSUME NEW ht, IsHt(ht), Placed(ht), Counted(ht), ht.size > 0,
         NEW moved, moved \subseteq EntryType, IsFiniteSet(moved), moved \cap Entries(ht) = {}
  PROVE  LET new == Receive(ht, moved)
         IN  /\ IsHt(new) /\ Placed(new) /\ Counted(new)
             /\ new.size = ht.size
             /\ Entries(new) = Entries(ht) \cup moved
<1> DEFINE new == Receive(ht, moved)
<1>1. ht.size \in Nat \ {0} /\ new.size = ht.size /\ new.keys = ht.keys + Cardinality(moved)
  BY SizesAreNat DEF IsHt, Receive
<1>2. \A e \in moved : SlotOf(ht, e.key) \in 0..(ht.size - 1)
  BY <1>1, SlotInTable DEF EntryType
<1>3. /\ new.table \in [0..(ht.size - 1) -> SUBSET EntryType]
      /\ \A i \in 0..(ht.size - 1) :
           new.table[i] = ht.table[i] \cup {e \in moved : SlotOf(ht, e.key) = i}
  BY DEF Receive, IsHt
<1> HIDE DEF new
<1>4. Entries(new) = Entries(ht) \cup moved
  <2>1. ASSUME NEW e \in Entries(new) PROVE e \in Entries(ht) \cup moved
    <3>1. PICK i \in 0..(ht.size - 1) : e \in new.table[i]
      BY <2>1, <1>1, InEntries
    <3> QED BY <3>1, <1>3, InEntries
  <2>2. ASSUME NEW e \in Entries(ht) PROVE e \in Entries(new)
    <3>1. PICK i \in 0..(ht.size - 1) : e \in ht.table[i]
      BY <2>2, InEntries
    <3> QED BY <3>1, <1>1, <1>3, InEntries
  <2>3. ASSUME NEW e \in moved PROVE e \in Entries(new)
    BY <2>3, <1>1, <1>2, <1>3, InEntries
  <2> QED BY <2>1, <2>2, <2>3
<1>5. Counted(new) /\ new.keys \in Nat
  <2>1. /\ IsFiniteSet(Entries(new))
        /\ Cardinality(Entries(new)) = Cardinality(Entries(ht)) + Cardinality(moved)
                                       - Cardinality(Entries(ht) \cap moved)
    BY <1>4, FS_Union DEF Counted
  <2>2. Cardinality(Entries(ht) \cap moved) = 0
    BY FS_EmptySet
  <2> QED BY <2>1, <2>2, <1>1, FS_CardinalityType DEF Counted
<1>6. IsHt(new)
  BY <1>1, <1>3, <1>5 DEF IsHt, Receive, new
<1>7. Placed(new)
  <2>1. \A f : SlotOf(new, f.key) = SlotOf(ht, f.key)
    BY <1>1 DEF SlotOf
  <2> QED BY <2>1, <1>1, <1>3 DEF Placed
<1> QED BY <1>1, <1>4, <1>5, <1>6, <1>7 DEF new

(* The old table loses the entries of the slots that are emptied, and no other. *)
LEMMA EmptiedOk ==
  ASSUME NEW ht, IsHt(ht), Placed(ht), Counted(ht),
         NEW from \in Nat, NEW stop \in 0..ht.size, from <= stop
  PROVE  LET new   == Emptied(ht, from, stop)
             moved == UNION {ht.table[i] : i \in from..(stop - 1)}
         IN  /\ IsHt(new) /\ Placed(new) /\ Counted(new)
             /\ new.size = ht.size
             /\ \A i \in 0..(ht.size - 1) :
                  new.table[i] = IF i \in from..(stop - 1) THEN {} ELSE ht.table[i]
             /\ moved \subseteq Entries(ht)
             /\ IsFiniteSet(moved)
             /\ Entries(new) = Entries(ht) \ moved
<1> DEFINE new   == Emptied(ht, from, stop)
           moved == UNION {ht.table[i] : i \in from..(stop - 1)}
<1>1. ht.size \in Nat /\ new.size = ht.size /\ new.keys = ht.keys - Cardinality(moved)
  BY SizesAreNat DEF IsHt, Emptied
<1>2. /\ new.table \in [0..(ht.size - 1) -> SUBSET EntryType]
      /\ \A i \in 0..(ht.size - 1) :
           new.table[i] = IF i \in from..(stop - 1) THEN {} ELSE ht.table[i]
  BY DEF Emptied, IsHt
<1>3. \A e : e \in moved <=> \E i \in from..(stop - 1) : e \in ht.table[i]
  OBVIOUS
<1>4. from..(stop - 1) \subseteq 0..(ht.size - 1)
  BY <1>1
<1>5. \A i, j \in 0..(ht.size - 1) : \A e : e \in ht.table[i] /\ e \in ht.table[j] => i = j
  BY DEF Placed
<1> HIDE DEF new, moved
<1>6. moved \subseteq Entries(ht)
  BY <1>3, <1>4, InEntries
<1>7. Entries(new) = Entries(ht) \ moved
  <2>1. ASSUME NEW e \in Entries(new) PROVE e \in Entries(ht) \ moved
    <3>1. PICK i \in 0..(ht.size - 1) : e \in new.table[i]
      BY <2>1, <1>1, InEntries
    <3>2. i \notin from..(stop - 1) /\ e \in ht.table[i]
      BY <3>1, <1>2
    <3> QED BY <3>2, <1>3, <1>4, <1>5, InEntries
  <2>2. ASSUME NEW e \in Entries(ht) \ moved PROVE e \in Entries(new)
    <3>1. PICK i \in 0..(ht.size - 1) : e \in ht.table[i]
      BY <2>2, InEntries
    <3>2. i \notin from..(stop - 1)
      BY <3>1, <2>2, <1>3
    <3> QED BY <3>1, <3>2, <1>1, <1>2, InEntries
  <2> QED BY <2>1, <2>2
<1>8. IsFiniteSet(moved)
  BY <1>6, FS_Subset DEF Counted
<1>9. Counted(new) /\ new.keys \in Nat
  <2>1. /\ IsFiniteSet(Entries(new))
        /\ Cardinality(Entries(new)) = Cardinality(Entries(ht)) - Cardinality(Entries(ht) \cap moved)
    BY <1>7, <1>8, FS_Difference DEF Counted
  <2>2. Entries(ht) \cap moved = moved
    BY <1>6
  <2> QED BY <2>1, <2>2, <1>1, FS_CardinalityType DEF Counted
<1>10. IsHt(new)
  BY <1>1, <1>2, <1>9 DEF IsHt, Emptied, new
<1>11. Placed(new)
  <2>1. \A f : SlotOf(new, f.key) = SlotOf(ht, f.key)
    BY <1>1 DEF SlotOf
  <2> QED BY <2>1, <1>1, <1>2 DEF Placed
<1> QED BY <1>1, <1>2, <1>6, <1>7, <1>8, <1>9, <1>10, <1>11 DEF new, moved

LEMMA DictFields ==
  ASSUME NEW ht0, NEW ht1, NEW rehash_idx, NEW iterators
  PROVE  LET x == DictOf(ht0, ht1, rehash_idx, iterators)
         IN  /\ x.ht0 = ht0 /\ x.ht1 = ht1
             /\ x.rehash_idx = rehash_idx /\ x.num_safe_iterators = iterators
             /\ x = DictOf(x.ht0, x.ht1, x.rehash_idx, x.num_safe_iterators)
BY DEF DictOf

(* The bare facts about a consistent dict that the other lemmas use. *)
LEMMA ConsistentFacts ==
  ASSUME NEW x, Consistent(x)
  PROVE  /\ IsHt(x.ht0) /\ Placed(x.ht0) /\ Counted(x.ht0)
         /\ IsHt(x.ht1) /\ Placed(x.ht1) /\ Counted(x.ht1)
         /\ Unique(x)
         /\ x.ht0.size \in Nat /\ x.ht1.size \in Nat
         /\ x.ht0.keys \in Nat /\ x.ht1.keys \in Nat
         /\ x.rehash_idx \in Int /\ x.num_safe_iterators \in 0..MaxIterators
         /\ x.rehash_idx <= x.ht0.size
         /\ Present(x) \subseteq EntryType
         /\ IsFiniteSet(Present(x))
         /\ Rehashing(x) => /\ x.rehash_idx \in Nat
                            /\ x.ht0.size > 0 /\ x.ht1.size > 0
                            /\ \A i \in 0..(x.rehash_idx - 1) : x.ht0.table[i] = {}
         /\ ~Rehashing(x) => /\ x.rehash_idx = -1
                             /\ x.ht1 = NoHt /\ Entries(x.ht1) = {}
<1>1. x.ht0.size \in Nat /\ x.ht1.size \in Nat
  BY SizesAreNat DEF Consistent, IsDict, IsHt
<1>2. Present(x) \subseteq EntryType
  BY EntryInItsSlot DEF Consistent, IsDict, Present
<1>3. IsFiniteSet(Present(x))
  BY FS_Union DEF Consistent, Counted, Present
<1>4. Entries(NoHt) = {}
  BY NewHtEmpty DEF NoHt
<1>5. Rehashing(x) => /\ x.rehash_idx \in Nat
                      /\ x.ht0.size > 0 /\ x.ht1.size > 0
                      /\ \A i \in 0..(x.rehash_idx - 1) : x.ht0.table[i] = {}
  BY DEF Consistent, IsDict, Frontier, Rehashing
<1>6. ~Rehashing(x) => x.rehash_idx = -1 /\ x.ht1 = NoHt /\ Entries(x.ht1) = {}
  BY <1>4 DEF Consistent, Frontier, Rehashing
<1> QED BY <1>1, <1>2, <1>3, <1>5, <1>6 DEF Consistent, IsDict, IsHt

(* A rehash call always has a place to stop within ht0: at the latest      *)
(* where every entry of ht0 has been moved.                                *)
LEMMA RehashStopOk ==
  ASSUME NEW x, Consistent(x), Rehashing(x), NEW n
  PROVE  Min(RehashStops(x, n)) \in x.rehash_idx..x.ht0.size
<1>1. x.ht0.size \in Nat /\ x.rehash_idx \in 0..x.ht0.size
  BY ConsistentFacts
<1>2. Moved(x, x.ht0.size) = Entries(x.ht0)
  <2>1. \A i \in 0..(x.rehash_idx - 1) : x.ht0.table[i] = {}
    BY ConsistentFacts
  <2> QED BY <2>1, <1>1 DEF Moved, Entries
<1>3. Cardinality(Moved(x, x.ht0.size)) = x.ht0.keys
  BY <1>2, ConsistentFacts DEF Counted
<1>4. x.ht0.size \in RehashStops(x, n) /\ RehashStops(x, n) \subseteq x.rehash_idx..x.ht0.size
  BY <1>1, <1>3 DEF RehashStops
<1> HIDE DEF RehashStops
<1>5. RehashStops(x, n) \subseteq Nat /\ RehashStops(x, n) # {}
  BY <1>1, <1>4
<1> QED BY <1>4, <1>5, MinInSet

(* A rehash call moves entries from one table to the other: none is lost,  *)
(* none is duplicated, and the dict is consistent wherever the call stops. *)
LEMMA RehashUpToOk ==
  ASSUME NEW x, Consistent(x), Rehashing(x), NEW stop \in x.rehash_idx..x.ht0.size
  PROVE  LET y == RehashUpTo(x, stop)
         IN  /\ Consistent(y)
             /\ Present(y) = Present(x)
             /\ y.num_safe_iterators = x.num_safe_iterators
             /\ \/ /\ Rehashing(y) /\ y.rehash_idx >= x.rehash_idx
                   /\ y.ht0.size = x.ht0.size /\ y.ht1.size = x.ht1.size
                \/ ~Rehashing(y) /\ y.ht0.size = x.ht1.size
             /\ y.ht0.size > 0
<1> DEFINE y     == RehashUpTo(x, stop)
           moved == Moved(x, stop)
           old   == Emptied(x.ht0, x.rehash_idx, stop)
           new   == Receive(x.ht1, moved)
<1>1. /\ x.rehash_idx \in Nat /\ stop \in 0..x.ht0.size /\ x.rehash_idx <= stop
      /\ x.ht0.size \in Nat \ {0} /\ x.ht1.size \in Nat \ {0}
      /\ x.num_safe_iterators \in 0..MaxIterators
      /\ Entries(x.ht0) \subseteq EntryType
      /\ Entries(x.ht0) \cap Entries(x.ht1) = {}
      /\ \A e, f \in Present(x) : e.key = f.key => e = f
      /\ \A i \in 0..(x.rehash_idx - 1) : x.ht0.table[i] = {}
  <2>1. /\ x.rehash_idx \in Nat /\ x.ht0.size \in Nat \ {0} /\ x.ht1.size \in Nat \ {0}
        /\ x.num_safe_iterators \in 0..MaxIterators
        /\ \A i \in 0..(x.rehash_idx - 1) : x.ht0.table[i] = {}
    BY ConsistentFacts
  <2>2. stop \in 0..x.ht0.size /\ x.rehash_idx <= stop
    BY <2>1
  <2>3. Present(x) \subseteq EntryType /\ Unique(x)
    BY ConsistentFacts
  <2> QED BY <2>1, <2>2, <2>3 DEF Present, Unique
<1>2. /\ IsHt(old) /\ Placed(old) /\ Counted(old)
      /\ old.size = x.ht0.size
      /\ \A i \in 0..(x.ht0.size - 1) :
           old.table[i] = IF i \in x.rehash_idx..(stop - 1) THEN {} ELSE x.ht0.table[i]
      /\ moved \subseteq Entries(x.ht0)
      /\ IsFiniteSet(moved)
      /\ Entries(old) = Entries(x.ht0) \ moved
  BY <1>1, ConsistentFacts, EmptiedOk DEF Moved
<1>3. /\ IsHt(new) /\ Placed(new) /\ Counted(new)
      /\ new.size = x.ht1.size
      /\ Entries(new) = Entries(x.ht1) \cup moved
  <2>1. moved \subseteq EntryType /\ moved \cap Entries(x.ht1) = {}
    BY <1>1, <1>2
  <2> QED BY <2>1, <1>1, <1>2, ConsistentFacts, ReceiveOk
<1> HIDE DEF moved, old, new
<1>4. CASE old.keys = 0
  <2>1. y = DictOf(new, NoHt, -1, x.num_safe_iterators)
    BY <1>4 DEF RehashUpTo, old, new, moved
  <2> HIDE DEF y
  <2>2. /\ y.ht0 = new /\ y.ht1 = NoHt /\ y.rehash_idx = -1
        /\ y.num_safe_iterators = x.num_safe_iterators
    BY <2>1, DictFields
  <2>3. IsHt(NoHt) /\ Placed(NoHt) /\ Counted(NoHt) /\ Entries(NoHt) = {}
    BY NewHtEmpty DEF NoHt
  <2>4. Entries(old) = {}
    BY <1>2, <1>4, FS_EmptySet DEF Counted
  <2>5. Present(y) = Present(x)
    BY <2>2, <2>3, <2>4, <1>2, <1>3 DEF Present
  <2>6. Unique(y)
    BY <2>5, <2>2, <2>3, <1>1 DEF Unique
  <2>7. IsDict(y)
    BY <2>1, <2>2, <2>3, <1>1, <1>3 DEF IsDict
  <2>8. Frontier(y) /\ ~Rehashing(y)
    BY <2>2 DEF Frontier, Rehashing
  <2> QED BY <2>2, <2>3, <2>5, <2>6, <2>7, <2>8, <1>1, <1>3 DEF Consistent, y
<1>5. CASE old.keys # 0
  <2>1. y = DictOf(old, new, stop, x.num_safe_iterators)
    BY <1>5 DEF RehashUpTo, old, new, moved
  <2> HIDE DEF y
  <2>2. /\ y.ht0 = old /\ y.ht1 = new /\ y.rehash_idx = stop
        /\ y.num_safe_iterators = x.num_safe_iterators
    BY <2>1, DictFields
  <2>3. Present(y) = Present(x)
    BY <2>2, <1>2, <1>3 DEF Present
  <2>4. Unique(y)
    BY <2>2, <2>3, <1>1, <1>2, <1>3 DEF Unique
  <2>5. IsDict(y)
    BY <2>1, <2>2, <1>1, <1>2, <1>3 DEF IsDict
  <2>6. Frontier(y) /\ Rehashing(y)
    BY <2>2, <1>1, <1>2, <1>3 DEF Frontier, Rehashing
  <2> QED BY <2>2, <2>3, <2>4, <2>5, <2>6, <1>1, <1>2, <1>3 DEF Consistent, y
<1> QED BY <1>4, <1>5

(* dict_rehash, whatever its argument. *)
LEMMA RehashOk ==
  ASSUME NEW x, Consistent(x), NEW n
  PROVE  LET y == Rehash(x, n)
         IN  /\ Consistent(y)
             /\ Present(y) = Present(x)
             /\ y.num_safe_iterators = x.num_safe_iterators
             /\ ~Rehashing(x) => y = x
             /\ Rehashing(x) =>
                  /\ \/ /\ Rehashing(y) /\ y.rehash_idx >= x.rehash_idx
                        /\ y.ht0.size = x.ht0.size /\ y.ht1.size = x.ht1.size
                     \/ ~Rehashing(y) /\ y.ht0.size = x.ht1.size
                  /\ y.ht0.size > 0
<1>1. CASE Rehashing(x)
  <2>1. PICK stop \in x.rehash_idx..x.ht0.size : stop = Min(RehashStops(x, n))
    BY <1>1, RehashStopOk
  <2>2. Rehash(x, n) = RehashUpTo(x, stop)
    BY <1>1, <2>1 DEF Rehash
  <2> QED BY <1>1, <2>2, RehashUpToOk
<1>2. CASE ~Rehashing(x)
  BY <1>2 DEF Rehash
<1> QED BY <1>1, <1>2

-----------------------------------------------------------------------------
(* Resizing. *)

(* A consistent dict has no more entries than there are keys. *)
LEMMA KeysBoundEntries ==
  ASSUME NEW x, Consistent(x)
  PROVE  x.ht0.keys <= Cardinality(Keys)
<1> DEFINE S == Entries(x.ht0)
           f == [e \in S |-> e.key]
<1>1. S \subseteq EntryType /\ \A e, g \in S : e.key = g.key => e = g
  BY ConsistentFacts DEF Present, Unique
<1>2. f \in [S -> Keys]
  BY <1>1 DEF EntryType
<1>3. f \in Injection(S, Keys)
  BY <1>1, <1>2 DEF Injection, IsInjective
<1>4. Cardinality(S) <= Cardinality(Keys)
  BY <1>3, FS_Injection, KeysAssumption
<1> QED BY <1>4, ConsistentFacts DEF Counted

(* A request within the table sizes is granted a table of an allowed size. *)
LEMMA ResizeToOk ==
  ASSUME NEW x, Consistent(x), NEW n \in Nat, \E size \in TableSizes : n <= size
  PROVE  LET y == ResizeTo(x, n)
         IN  /\ Consistent(y)
             /\ Present(y) = Present(x)
             /\ y.num_safe_iterators = x.num_safe_iterators
             /\ Rehashing(x) => y = x
             /\ x.ht0.size > 0 => y.ht0 = x.ht0
             /\ x.ht0.size = 0 /\ ~Rehashing(x) => y.ht0.size > 0
<1> DEFINE y == ResizeTo(x, n)
           ht == NewHt(NextPower(n))
<1>1. NextPower(n) \in TableSizes
  BY NextPowerOk
<1>2. /\ IsHt(ht) /\ Placed(ht) /\ Counted(ht) /\ Entries(ht) = {} /\ ht.size = NextPower(n)
      /\ ht.size \in Nat \ {0}
  BY <1>1, NewHtEmpty, TableSizesAssumption
<1> HIDE DEF ht
<1>3. CASE ~Resizable(x, n)
  <2>1. ResizeTo(x, n) = x
    BY <1>3 DEF ResizeTo
  <2> QED BY <2>1, <1>2, <1>3 DEF Resizable
<1>4. CASE Resizable(x, n) /\ x.ht0.size = 0
  <2>1. y = DictOf(ht, x.ht1, x.rehash_idx, x.num_safe_iterators) /\ ~Rehashing(x)
    BY <1>4 DEF ResizeTo, Resizable, ht
  <2> HIDE DEF y
  <2>2. /\ y.ht0 = ht /\ y.ht1 = x.ht1 /\ y.rehash_idx = -1
        /\ y.num_safe_iterators = x.num_safe_iterators
    BY <2>1, DictFields, ConsistentFacts
  <2>3. x.ht1 = NoHt /\ Entries(x.ht1) = {} /\ IsHt(x.ht1) /\ Placed(x.ht1) /\ Counted(x.ht1)
    BY <2>1, ConsistentFacts
  <2>4. Entries(x.ht0) = {}
    BY <1>4, InEntries
  <2>5. Present(y) = Present(x) /\ Present(y) = {}
    BY <2>2, <2>3, <2>4, <1>2 DEF Present
  <2>6. IsDict(y)
    BY <2>1, <2>2, <2>3, <1>2, ConsistentFacts DEF IsDict
  <2>7. Unique(y) /\ Frontier(y)
    BY <2>2, <2>3, <2>5, <1>2 DEF Unique, Frontier, Rehashing
  <2> QED BY <2>1, <2>2, <2>3, <2>5, <2>6, <2>7, <1>2, <1>4 DEF Consistent, y
<1>5. CASE Resizable(x, n) /\ x.ht0.size # 0
  <2>1. y = DictOf(x.ht0, ht, 0, x.num_safe_iterators) /\ ~Rehashing(x)
    BY <1>5 DEF ResizeTo, Resizable, ht
  <2> HIDE DEF y
  <2>2. /\ y.ht0 = x.ht0 /\ y.ht1 = ht /\ y.rehash_idx = 0
        /\ y.num_safe_iterators = x.num_safe_iterators
    BY <2>1, DictFields
  <2>3. Entries(x.ht1) = {}
    BY <2>1, ConsistentFacts
  <2>4. Present(y) = Present(x)
    BY <2>2, <2>3, <1>2 DEF Present
  <2>5. IsDict(y)
    BY <2>1, <2>2, <1>2, ConsistentFacts DEF IsDict
  <2>6. Unique(y)
    BY <2>2, <2>4, <1>2, ConsistentFacts DEF Unique
  <2>7. Frontier(y)
    BY <2>2, <1>2, <1>5, ConsistentFacts DEF Frontier, Rehashing
  <2> QED BY <2>1, <2>2, <2>4, <2>5, <2>6, <2>7, <1>2, <1>5, ConsistentFacts DEF Consistent, y
<1> QED BY <1>3, <1>4, <1>5

(* After _dict_expand_if_needed there is a table to insert into. *)
LEMMA ExpandOk ==
  ASSUME NEW x, Consistent(x)
  PROVE  LET y == ExpandIfNeeded(x)
         IN  /\ Consistent(y)
             /\ Present(y) = Present(x)
             /\ y.num_safe_iterators = x.num_safe_iterators
             /\ Rehashing(x) => y = x
             /\ x.ht0.size > 0 => y.ht0 = x.ht0
             /\ y.ht0.size > 0
<1>1. x.ht0.size \in Nat /\ x.ht0.keys \in Nat
  BY ConsistentFacts
<1>2. CASE Rehashing(x)
  BY <1>2, ConsistentFacts DEF ExpandIfNeeded
<1>3. CASE ~Rehashing(x) /\ x.ht0.size = 0
  <2>1. ExpandIfNeeded(x) = ResizeTo(x, InitialSize)
    BY <1>3 DEF ExpandIfNeeded
  <2>2. InitialSize \in Nat /\ \E size \in TableSizes : InitialSize <= size
    BY ParameterAssumption, TableSizesAssumption
  <2> QED BY <1>3, <2>1, <2>2, ResizeToOk
<1>4. CASE ~Rehashing(x) /\ x.ht0.size # 0 /\ MustExpand(x)
  <2>1. ExpandIfNeeded(x) = ResizeTo(x, x.ht0.keys * 2)
    BY <1>4 DEF ExpandIfNeeded
  <2>2. x.ht0.keys * 2 \in Nat
    BY <1>1
  <2>3. \E size \in TableSizes : x.ht0.keys * 2 <= size
    <3>1. x.ht0.keys <= Cardinality(Keys) /\ Cardinality(Keys) \in Nat
      BY KeysBoundEntries, KeysAssumption, FS_CardinalityType
    <3>2. PICK size \in TableSizes : 2 * Cardinality(Keys) <= size
      BY TableSizesAssumption
    <3>3. size \in Nat
      BY TableSizesAssumption
    <3> QED BY <1>1, <3>1, <3>2, <3>3
  <2> QED BY <1>1, <1>4, <2>1, <2>2, <2>3, ResizeToOk
<1>5. CASE ~Rehashing(x) /\ x.ht0.size # 0 /\ ~MustExpand(x)
  BY <1>1, <1>5 DEF ExpandIfNeeded
<1> QED BY <1>2, <1>3, <1>4, <1>5

-----------------------------------------------------------------------------
(* Scanning, linking and unlinking. *)

(* The two-table scan meets exactly the entries of the key, whatever state *)
(* the rehash is in.                                                       *)
LEMMA ScanOk ==
  ASSUME NEW x, Consistent(x), x.ht0.size > 0, NEW key \in Keys
  PROVE  Scan(x, key) = {e \in Present(x) : e.key = key}
<1>1. InSlot(x.ht0, key) = {e \in Entries(x.ht0) : e.key = key}
  BY ConsistentFacts, InSlotIsEntries
<1>2. CASE ~Rehashing(x)
  <2>1. Present(x) = Entries(x.ht0)
    BY <1>2, ConsistentFacts DEF Present
  <2> QED BY <1>1, <1>2, <2>1 DEF Scan
<1>3. CASE Rehashing(x)
  <2>1. InSlot(x.ht1, key) = {e \in Entries(x.ht1) : e.key = key}
    BY <1>3, ConsistentFacts, InSlotIsEntries
  <2>2. \A e, f \in Present(x) : e.key = f.key => e = f
    BY ConsistentFacts DEF Unique
  <2>3. Entries(x.ht0) \cap Entries(x.ht1) = {}
    BY ConsistentFacts DEF Unique
  <2> QED BY <1>1, <1>3, <2>1, <2>2, <2>3 DEF Scan, InHt0, Present
<1> QED BY <1>2, <1>3

(* The early return of dict_find is sound: no keys counted, no entries.    *)
LEMMA EmptyMeansEmpty ==
  ASSUME NEW x, Consistent(x)
  PROVE  /\ NumKeys(x) = 0 <=> Present(x) = {}
         /\ x.ht0.size = 0 => Present(x) = {}
<1>1. /\ x.ht0.keys = 0 <=> Entries(x.ht0) = {}
      /\ x.ht1.keys = 0 <=> Entries(x.ht1) = {}
      /\ x.ht0.keys \in Nat /\ x.ht1.keys \in Nat
  BY ConsistentFacts, FS_EmptySet DEF Counted
<1>2. x.ht0.size = 0 => Entries(x.ht0) = {}
  BY InEntries
<1>3. x.ht0.size = 0 => Entries(x.ht1) = {}
  <2>1. Rehashing(x) => x.ht0.size \in Nat \ {0}
    BY ConsistentFacts
  <2>2. ~Rehashing(x) => Entries(x.ht1) = {}
    BY ConsistentFacts
  <2> QED BY <2>1, <2>2
<1> QED BY <1>1, <1>2, <1>3 DEF NumKeys, Present

LEMMA FoundOk ==
  ASSUME NEW x, Consistent(x), NEW key \in Keys
  PROVE  Found(x, key) = {e \in Present(x) : e.key = key}
<1>1. CASE NumKeys(x) = 0
  BY <1>1, EmptyMeansEmpty DEF Found
<1>2. CASE NumKeys(x) # 0
  <2>1. x.ht0.size > 0
    BY <1>2, EmptyMeansEmpty, ConsistentFacts
  <2> QED BY <1>2, <2>1, ScanOk DEF Found
<1> QED BY <1>1, <1>2

LEMMA LinkOk ==
  ASSUME NEW x, Consistent(x), x.ht0.size > 0, NEW e \in EntryType,
         \A f \in Present(x) : f.key # e.key
  PROVE  LET y == Link(x, e)
         IN  /\ Consistent(y)
             /\ Present(y) = Present(x) \cup {e}
             /\ y.num_safe_iterators = x.num_safe_iterators
             /\ y.rehash_idx = x.rehash_idx
             /\ y.ht0.size = x.ht0.size /\ y.ht1.size = x.ht1.size
             /\ \A f \in Present(x) : f \in Entries(y.ht0) <=> f \in Entries(x.ht0)
<1> DEFINE y == Link(x, e)
<1>1. e \notin Entries(x.ht0) /\ e \notin Entries(x.ht1)
  BY DEF Present
<1>2. CASE Rehashing(x)
  <2> DEFINE new == WithEntry(x.ht1, e)
  <2>1. y = DictOf(x.ht0, new, x.rehash_idx, x.num_safe_iterators)
    BY <1>2 DEF Link
  <2>2. /\ IsHt(new) /\ Placed(new) /\ Counted(new) /\ new.size = x.ht1.size
        /\ Entries(new) = Entries(x.ht1) \cup {e}
    BY <1>1, <1>2, ConsistentFacts, WithEntryOk
  <2> HIDE DEF new, y
  <2>3. /\ y.ht0 = x.ht0 /\ y.ht1 = new /\ y.rehash_idx = x.rehash_idx
        /\ y.num_safe_iterators = x.num_safe_iterators
    BY <2>1, DictFields
  <2>4. Present(y) = Present(x) \cup {e}
    BY <2>2, <2>3 DEF Present
  <2>5. Unique(y)
    <3>1. \A f, g \in Present(x) : f.key = g.key => f = g
      BY ConsistentFacts DEF Unique
    <3>2. Entries(x.ht0) \cap Entries(x.ht1) = {}
      BY ConsistentFacts DEF Unique
    <3>3. Entries(y.ht0) \cap Entries(y.ht1) = {}
      BY <2>2, <2>3, <3>2, <1>1
    <3> QED BY <3>1, <3>3, <2>4 DEF Unique
  <2>6. IsDict(y)
    BY <2>1, <2>2, <2>3, ConsistentFacts DEF IsDict, Consistent
  <2>7. Frontier(y)
    BY <1>2, <2>2, <2>3, ConsistentFacts DEF Frontier, Rehashing
  <2> QED BY <1>2, <2>2, <2>3, <2>4, <2>5, <2>6, <2>7, ConsistentFacts DEF Consistent, y
<1>3. CASE ~Rehashing(x)
  <2> DEFINE new == WithEntry(x.ht0, e)
  <2>1. y = DictOf(new, x.ht1, x.rehash_idx, x.num_safe_iterators)
    BY <1>3 DEF Link
  <2>2. /\ IsHt(new) /\ Placed(new) /\ Counted(new) /\ new.size = x.ht0.size
        /\ Entries(new) = Entries(x.ht0) \cup {e}
    BY <1>1, ConsistentFacts, WithEntryOk
  <2> HIDE DEF new, y
  <2>3. /\ y.ht0 = new /\ y.ht1 = x.ht1 /\ y.rehash_idx = x.rehash_idx
        /\ y.num_safe_iterators = x.num_safe_iterators
    BY <2>1, DictFields
  <2>4. Present(y) = Present(x) \cup {e}
    BY <2>2, <2>3 DEF Present
  <2>5. Unique(y)
    <3>1. \A f, g \in Present(x) : f.key = g.key => f = g
      BY ConsistentFacts DEF Unique
    <3>2. Entries(y.ht0) \cap Entries(y.ht1) = {}
      BY <1>3, <2>3, ConsistentFacts
    <3> QED BY <3>1, <3>2, <2>4 DEF Unique
  <2>6. IsDict(y)
    BY <2>1, <2>2, <2>3, ConsistentFacts DEF IsDict, Consistent
  <2>7. Frontier(y)
    BY <1>3, <2>3, ConsistentFacts DEF Frontier, Rehashing
  <2> QED BY <1>3, <2>2, <2>3, <2>4, <2>5, <2>6, <2>7, ConsistentFacts DEF Consistent, y
<1> QED BY <1>2, <1>3

(* Which table the entry that the scan returns is in. *)
LEMMA InHt0Ok ==
  ASSUME NEW x, Consistent(x), NEW e \in Present(x)
  PROVE  /\ e \in EntryType
         /\ InHt0(x, e.key) => e \in Entries(x.ht0)
         /\ ~InHt0(x, e.key) => e \in Entries(x.ht1) /\ Rehashing(x)
<1>1. e \in EntryType /\ e.key \in Keys
  BY ConsistentFacts DEF EntryType
<1>2. \A f, g \in Present(x) : f.key = g.key => f = g
  BY ConsistentFacts DEF Unique
<1>3. x.ht0.size \in Nat /\ IsHt(x.ht0) /\ Placed(x.ht0)
  BY ConsistentFacts
<1>4. x.ht0.size > 0
  BY <1>3, EmptyMeansEmpty
<1>5. InSlot(x.ht0, e.key) = {f \in Entries(x.ht0) : f.key = e.key}
  BY <1>1, <1>3, <1>4, InSlotIsEntries
<1>6. ~Rehashing(x) => Entries(x.ht1) = {}
  BY ConsistentFacts
<1> QED BY <1>1, <1>2, <1>5, <1>6 DEF InHt0, Present

LEMMA UnlinkedOk ==
  ASSUME NEW x, Consistent(x), NEW e \in Present(x)
  PROVE  LET y == Unlinked(x, e)
         IN  /\ Consistent(y)
             /\ Present(y) = Present(x) \ {e}
             /\ y.num_safe_iterators = x.num_safe_iterators
             /\ y.rehash_idx = x.rehash_idx
             /\ y.ht0.size = x.ht0.size /\ y.ht1.size = x.ht1.size
             /\ Entries(y.ht0) = Entries(x.ht0) \ {e}
<1> DEFINE y == Unlinked(x, e)
<1>1. /\ \A f, g \in Present(x) : f.key = g.key => f = g
      /\ Entries(x.ht0) \cap Entries(x.ht1) = {}
  BY ConsistentFacts DEF Unique
<1>2. CASE InHt0(x, e.key)
  <2> DEFINE new == WithoutEntry(x.ht0, e)
  <2>1. y = DictOf(new, x.ht1, x.rehash_idx, x.num_safe_iterators)
    BY <1>2 DEF Unlinked
  <2>2. e \in Entries(x.ht0)
    BY <1>2, InHt0Ok
  <2>3. /\ IsHt(new) /\ Placed(new) /\ Counted(new) /\ new.size = x.ht0.size
        /\ Entries(new) = Entries(x.ht0) \ {e}
        /\ \A i \in 0..(x.ht0.size - 1) : new.table[i] \subseteq x.ht0.table[i]
    BY <2>2, ConsistentFacts, WithoutEntryOk
  <2> HIDE DEF new, y
  <2>4. /\ y.ht0 = new /\ y.ht1 = x.ht1 /\ y.rehash_idx = x.rehash_idx
        /\ y.num_safe_iterators = x.num_safe_iterators
    BY <2>1, DictFields
  <2>5. Present(y) = Present(x) \ {e}
    BY <2>2, <2>3, <2>4, <1>1 DEF Present
  <2>6. Unique(y)
    BY <2>3, <2>4, <2>5, <1>1 DEF Unique
  <2>7. IsDict(y)
    BY <2>1, <2>3, <2>4, ConsistentFacts DEF IsDict, Consistent
  <2>8. Frontier(y)
    <3>1. CASE Rehashing(x)
      <4>1. \A i \in 0..(x.rehash_idx - 1) : new.table[i] = {}
        <5>1. /\ x.rehash_idx \in Nat /\ x.rehash_idx <= x.ht0.size /\ x.ht0.size \in Nat
              /\ \A i \in 0..(x.rehash_idx - 1) : x.ht0.table[i] = {}
          BY <3>1, ConsistentFacts
        <5> QED BY <5>1, <2>3
      <4> QED BY <3>1, <4>1, <2>3, <2>4, ConsistentFacts DEF Frontier, Rehashing
    <3>2. CASE ~Rehashing(x)
      BY <3>2, <2>4, ConsistentFacts DEF Frontier, Rehashing
    <3> QED BY <3>1, <3>2
  <2> QED BY <2>3, <2>4, <2>5, <2>6, <2>7, <2>8, ConsistentFacts DEF Consistent, y
<1>3. CASE ~InHt0(x, e.key)
  <2> DEFINE new == WithoutEntry(x.ht1, e)
  <2>1. y = DictOf(x.ht0, new, x.rehash_idx, x.num_safe_iterators)
    BY <1>3 DEF Unlinked
  <2>2. e \in Entries(x.ht1) /\ Rehashing(x)
    BY <1>3, InHt0Ok
  <2>3. /\ IsHt(new) /\ Placed(new) /\ Counted(new) /\ new.size = x.ht1.size
        /\ Entries(new) = Entries(x.ht1) \ {e}
    BY <2>2, ConsistentFacts, WithoutEntryOk
  <2> HIDE DEF new, y
  <2>4. /\ y.ht0 = x.ht0 /\ y.ht1 = new /\ y.rehash_idx = x.rehash_idx
        /\ y.num_safe_iterators = x.num_safe_iterators
    BY <2>1, DictFields
  <2>5. Present(y) = Present(x) \ {e} /\ Entries(y.ht0) = Entries(x.ht0) \ {e}
    BY <2>2, <2>3, <2>4, <1>1 DEF Present
  <2>6. Unique(y)
    BY <2>3, <2>4, <2>5, <1>1 DEF Unique
  <2>7. IsDict(y)
    BY <2>1, <2>3, <2>4, ConsistentFacts DEF IsDict, Consistent
  <2>8. Frontier(y)
    BY <2>2, <2>3, <2>4, ConsistentFacts DEF Frontier, Rehashing
  <2> QED BY <2>3, <2>4, <2>5, <2>6, <2>7, <2>8, ConsistentFacts DEF Consistent, y
<1> QED BY <1>2, <1>3

(* dict_add_or_replace_entry on a key that is there. *)
LEMMA SetValOk ==
  ASSUME NEW x, Consistent(x), NEW e \in Present(x), NEW val \in Vals
  PROVE  LET y  == SetVal(x, e, val)
             e2 == [key |-> e.key, val |-> val]
         IN  /\ Consistent(y)
             /\ Present(y) = (Present(x) \ {e}) \cup {e2}
             /\ y.num_safe_iterators = x.num_safe_iterators
             /\ y.rehash_idx = x.rehash_idx
             /\ y.ht0.size = x.ht0.size /\ y.ht1.size = x.ht1.size
             /\ e \in Entries(x.ht0) => Entries(y.ht0) = (Entries(x.ht0) \ {e}) \cup {e2}
             /\ e \notin Entries(x.ht0) => y.ht0 = x.ht0
<1> DEFINE y  == SetVal(x, e, val)
           e2 == [key |-> e.key, val |-> val]
<1>1. /\ \A f, g \in Present(x) : f.key = g.key => f = g
      /\ Entries(x.ht0) \cap Entries(x.ht1) = {}
  BY ConsistentFacts DEF Unique
<1>2. e2.key = e.key /\ e2 \in EntryType
  BY InHt0Ok DEF EntryType
<1>3. CASE InHt0(x, e.key)
  <2> DEFINE new == Revalued(x.ht0, e, val)
  <2>1. y = DictOf(new, x.ht1, x.rehash_idx, x.num_safe_iterators)
    BY <1>3 DEF SetVal
  <2>2. e \in Entries(x.ht0) /\ \A f \in Entries(x.ht0) : f.key = e.key => f = e
    BY <1>3, <1>1, InHt0Ok DEF Present
  <2>3. /\ IsHt(new) /\ Placed(new) /\ Counted(new) /\ new.size = x.ht0.size
        /\ Entries(new) = (Entries(x.ht0) \ {e}) \cup {e2}
        /\ \A i \in 0..(x.ht0.size - 1) : x.ht0.table[i] = {} => new.table[i] = {}
    BY <2>2, ConsistentFacts, RevaluedOk
  <2> HIDE DEF new, y, e2
  <2>4. /\ y.ht0 = new /\ y.ht1 = x.ht1 /\ y.rehash_idx = x.rehash_idx
        /\ y.num_safe_iterators = x.num_safe_iterators
    BY <2>1, DictFields
  <2>5. Present(y) = (Present(x) \ {e}) \cup {e2}
    BY <2>2, <2>3, <2>4, <1>1 DEF Present
  <2>6. Unique(y)
    <3>1. e2 \notin Entries(x.ht1)
      BY <2>2, <1>1, <1>2 DEF Present
    <3>2. Entries(y.ht0) \cap Entries(y.ht1) = {}
      BY <2>3, <2>4, <3>1, <1>1
    <3>3. \A f, g \in Present(y) : f.key = g.key => f = g
      BY <2>5, <1>1, <1>2
    <3> QED BY <3>2, <3>3 DEF Unique
  <2>7. IsDict(y)
    BY <2>1, <2>3, <2>4, ConsistentFacts DEF IsDict, Consistent
  <2>8. Frontier(y)
    <3>1. CASE Rehashing(x)
      <4>1. \A i \in 0..(x.rehash_idx - 1) : new.table[i] = {}
        <5>1. /\ x.rehash_idx \in Nat /\ x.rehash_idx <= x.ht0.size /\ x.ht0.size \in Nat
              /\ \A i \in 0..(x.rehash_idx - 1) : x.ht0.table[i] = {}
          BY <3>1, ConsistentFacts
        <5> QED BY <5>1, <2>3
      <4> QED BY <3>1, <4>1, <2>3, <2>4, ConsistentFacts DEF Frontier, Rehashing
    <3>2. CASE ~Rehashing(x)
      BY <3>2, <2>4, ConsistentFacts DEF Frontier, Rehashing
    <3> QED BY <3>1, <3>2
  <2> QED BY <2>2, <2>3, <2>4, <2>5, <2>6, <2>7, <2>8, ConsistentFacts DEF Consistent, y, e2
<1>4. CASE ~InHt0(x, e.key)
  <2> DEFINE new == Revalued(x.ht1, e, val)
  <2>1. y = DictOf(x.ht0, new, x.rehash_idx, x.num_safe_iterators)
    BY <1>4 DEF SetVal
  <2>2. /\ e \in Entries(x.ht1) /\ Rehashing(x) /\ e \notin Entries(x.ht0)
        /\ \A f \in Entries(x.ht1) : f.key = e.key => f = e
    BY <1>4, <1>1, InHt0Ok DEF Present
  <2>3. /\ IsHt(new) /\ Placed(new) /\ Counted(new) /\ new.size = x.ht1.size
        /\ Entries(new) = (Entries(x.ht1) \ {e}) \cup {e2}
    BY <2>2, ConsistentFacts, RevaluedOk
  <2> HIDE DEF new, y, e2
  <2>4. /\ y.ht0 = x.ht0 /\ y.ht1 = new /\ y.rehash_idx = x.rehash_idx
        /\ y.num_safe_iterators = x.num_safe_iterators
    BY <2>1, DictFields
  <2>5. Present(y) = (Present(x) \ {e}) \cup {e2}
    BY <2>2, <2>3, <2>4, <1>1 DEF Present
  <2>6. Unique(y)
    <3>1. e2 \notin Entries(x.ht0)
      BY <2>2, <1>1, <1>2 DEF Present
    <3>2. Entries(y.ht0) \cap Entries(y.ht1) = {}
      BY <2>3, <2>4, <3>1, <1>1
    <3>3. \A f, g \in Present(y) : f.key = g.key => f = g
      BY <2>5, <1>1, <1>2
    <3> QED BY <3>2, <3>3 DEF Unique
  <2>7. IsDict(y)
    BY <2>1, <2>3, <2>4, ConsistentFacts DEF IsDict, Consistent
  <2>8. Frontier(y)
    BY <2>2, <2>3, <2>4, ConsistentFacts DEF Frontier, Rehashing
  <2> QED BY <2>2, <2>3, <2>4, <2>5, <2>6, <2>7, <2>8, ConsistentFacts DEF Consistent, y, e2
<1> QED BY <1>3, <1>4

-----------------------------------------------------------------------------
(* The helpers as the operations compose them. *)

(* A call carries a rehash that is under way forward, or completes it.     *)
Carried(x, y) == Rehashing(x) => \/ /\ y.ht0.size = x.ht0.size /\ y.ht1.size = x.ht1.size
                                    /\ y.rehash_idx >= x.rehash_idx
                                 \/ y.ht0.size = x.ht1.size

(* A call made while a safe iterator is open leaves the entries in place.  *)
InPlace(x, y) == x.num_safe_iterators > 0 =>
                   \A e \in Present(x), f \in Present(y) :
                     e.key = f.key => /\ e \in Entries(x.ht0) <=> f \in Entries(y.ht0)
                                      /\ y.ht0.size = x.ht0.size

LEMMA VisitedOk ==
  ASSUME NEW x, Consistent(x)
  PROVE  LET y == Visited(x)
         IN  /\ Consistent(y)
             /\ Present(y) = Present(x)
             /\ y.num_safe_iterators = x.num_safe_iterators
             /\ x.num_safe_iterators > 0 => y = x
             /\ Carried(x, y)
<1>1. x.rehash_idx \in Int
  BY ConsistentFacts
<1>2. CASE NumKeys(x) = 0 \/ x.num_safe_iterators # 0
  <2>1. Visited(x) = x
    BY <1>2 DEF Visited, Rehash1Step
  <2> QED BY <2>1, <1>1 DEF Carried
<1>3. CASE NumKeys(x) # 0 /\ x.num_safe_iterators = 0
  <2>1. Visited(x) = Rehash(x, 1)
    BY <1>3 DEF Visited, Rehash1Step
  <2> QED BY <2>1, <1>3, RehashOk DEF Carried
<1> QED BY <1>2, <1>3

LEMMA PreparedOk ==
  ASSUME NEW x, Consistent(x)
  PROVE  LET y == Prepared(x)
         IN  /\ Consistent(y)
             /\ Present(y) = Present(x)
             /\ y.num_safe_iterators = x.num_safe_iterators
             /\ y.ht0.size > 0
             /\ x.num_safe_iterators > 0 /\ Present(x) # {} => y.ht0 = x.ht0
             /\ Carried(x, y)
<1> DEFINE z == Rehash1Step(x)
           y == ExpandIfNeeded(z)
<1>1. /\ Consistent(z) /\ Present(z) = Present(x)
      /\ z.num_safe_iterators = x.num_safe_iterators
      /\ x.num_safe_iterators > 0 => z = x
      /\ Rehashing(x) =>
           /\ \/ /\ Rehashing(z) /\ z.rehash_idx >= x.rehash_idx
                 /\ z.ht0.size = x.ht0.size /\ z.ht1.size = x.ht1.size
              \/ ~Rehashing(z) /\ z.ht0.size = x.ht1.size
           /\ z.ht0.size > 0
  <2>1. CASE x.num_safe_iterators = 0
    <3>1. z = Rehash(x, 1)
      BY <2>1 DEF Rehash1Step
    <3> QED BY <3>1, <2>1, RehashOk
  <2>2. CASE x.num_safe_iterators # 0
    <3>1. z = x
      BY <2>2 DEF Rehash1Step
    <3>2. x.rehash_idx \in Int /\ (Rehashing(x) => x.ht0.size > 0)
      BY ConsistentFacts
    <3> QED BY <3>1, <3>2
  <2> QED BY <2>1, <2>2
<1> HIDE DEF z
<1>2. /\ Consistent(y) /\ Present(y) = Present(z)
      /\ y.num_safe_iterators = z.num_safe_iterators
      /\ Rehashing(z) => y = z
      /\ z.ht0.size > 0 => y.ht0 = z.ht0
      /\ y.ht0.size > 0
  BY <1>1, ExpandOk
<1>3. Present(x) # {} => x.ht0.size > 0
  BY ConsistentFacts, EmptyMeansEmpty
<1> HIDE DEF y
<1>4. Carried(x, y)
  BY <1>1, <1>2 DEF Carried
<1>5. Prepared(x) = y
  BY DEF Prepared, y, z
<1> QED BY <1>1, <1>2, <1>3, <1>4, <1>5

(* Whether one entry stands for a key, its value is what the map shows.    *)
LEMMA ValueOfOk ==
  ASSUME NEW x, Consistent(x), NEW key \in Keys
  PROVE  /\ \A e \in Present(x) : e.key = key => ValueOf(x, key) = e.val /\ e = [key |-> key, val |-> e.val]
         /\ (\A e \in Present(x) : e.key # key) => ValueOf(x, key) = NULL
         /\ ValueOf(x, key) \in Vals \cup {NULL}
<1>1. \A e, f \in Present(x) : e.key = f.key => e = f
  BY ConsistentFacts DEF Unique
<1>2. \A e \in Present(x) : e.val \in Vals /\ e = [key |-> e.key, val |-> e.val]
  BY ConsistentFacts DEF EntryType
<1>3. ASSUME NEW e \in Present(x), e.key = key PROVE ValueOf(x, key) = e.val
  <2>1. (CHOOSE f \in Present(x) : f.key = key) = e
    BY <1>1, <1>3
  <2> QED BY <2>1, <1>3 DEF ValueOf
<1>4. ASSUME \A e \in Present(x) : e.key # key PROVE ValueOf(x, key) = NULL
  BY <1>4 DEF ValueOf
<1> QED BY <1>2, <1>3, <1>4

-----------------------------------------------------------------------------
(* How the map changes with the entries. *)

LEMMA MapSame ==
  ASSUME NEW x, NEW y, Present(y) = Present(x)
  PROVE  MapOf(y) = MapOf(x)
BY DEF MapOf, ValueOf

LEMMA MapLinked ==
  ASSUME NEW x, Consistent(x), NEW y, Consistent(y), NEW e \in EntryType,
         \A f \in Present(x) : f.key # e.key,
         Present(y) = Present(x) \cup {e}
  PROVE  /\ MapOf(x)[e.key] = NULL
         /\ MapOf(y) = [MapOf(x) EXCEPT ![e.key] = e.val]
<1>1. e.key \in Keys
  BY DEF EntryType
<1>2. ValueOf(x, e.key) = NULL
  BY <1>1, ValueOfOk
<1>3. ASSUME NEW key \in Keys
      PROVE  ValueOf(y, key) = IF key = e.key THEN e.val ELSE ValueOf(x, key)
  <2>1. CASE \E f \in Present(x) : f.key = key
    <3>1. PICK f \in Present(x) : f.key = key
      BY <2>1
    <3> QED BY <3>1, ValueOfOk
  <2>2. CASE ~\E f \in Present(x) : f.key = key
    BY <2>2, ValueOfOk
  <2> QED BY <2>1, <2>2
<1> QED BY <1>1, <1>2, <1>3 DEF MapOf

LEMMA MapUnlinked ==
  ASSUME NEW x, Consistent(x), NEW y, Consistent(y), NEW e \in Present(x),
         Present(y) = Present(x) \ {e}
  PROVE  /\ MapOf(x)[e.key] = e.val /\ e.val # NULL
         /\ e = [key |-> e.key, val |-> MapOf(x)[e.key]]
         /\ MapOf(y) = [MapOf(x) EXCEPT ![e.key] = NULL]
<1>1. e.key \in Keys /\ e.val \in Vals
  BY ConsistentFacts DEF EntryType
<1>2. ValueOf(x, e.key) = e.val /\ e.val # NULL /\ e = [key |-> e.key, val |-> e.val]
  BY <1>1, ValueOfOk, KeysAssumption
<1>3. \A f \in Present(x) : f.key = e.key => f = e
  BY ConsistentFacts DEF Unique
<1>4. ASSUME NEW key \in Keys
      PROVE  ValueOf(y, key) = IF key = e.key THEN NULL ELSE ValueOf(x, key)
  <2>1. CASE key = e.key
    BY <2>1, <1>3, ValueOfOk
  <2>2. CASE key # e.key /\ \E f \in Present(x) : f.key = key
    <3>1. PICK f \in Present(x) : f.key = key
      BY <2>2
    <3>2. f \in Present(y)
      BY <2>2, <3>1
    <3> QED BY <2>2, <3>1, <3>2, ValueOfOk
  <2>3. CASE key # e.key /\ ~\E f \in Present(x) : f.key = key
    BY <2>3, ValueOfOk
  <2> QED BY <2>1, <2>2, <2>3
<1> QED BY <1>1, <1>2, <1>4 DEF MapOf

LEMMA MapRevalued ==
  ASSUME NEW x, Consistent(x), NEW y, Consistent(y), NEW e \in Present(x), NEW val \in Vals,
         Present(y) = (Present(x) \ {e}) \cup {[key |-> e.key, val |-> val]}
  PROVE  /\ MapOf(x)[e.key] # NULL
         /\ MapOf(y) = [MapOf(x) EXCEPT ![e.key] = val]
<1>1. e.key \in Keys /\ e.val \in Vals
  BY ConsistentFacts DEF EntryType
<1>2. ValueOf(x, e.key) # NULL
  BY <1>1, ValueOfOk, KeysAssumption
<1>3. \A f \in Present(x) : f.key = e.key => f = e
  BY ConsistentFacts DEF Unique
<1>4. ASSUME NEW key \in Keys
      PROVE  ValueOf(y, key) = IF key = e.key THEN val ELSE ValueOf(x, key)
  <2>1. CASE key = e.key
    <3> DEFINE e2 == [key |-> e.key, val |-> val]
    <3>1. e2.key = e.key /\ e2.val = val /\ e2 \in Present(y)
      OBVIOUS
    <3> HIDE DEF e2
    <3> QED BY <1>1, <2>1, <3>1, ValueOfOk
  <2>2. CASE key # e.key /\ \E f \in Present(x) : f.key = key
    <3>1. PICK f \in Present(x) : f.key = key
      BY <2>2
    <3>2. f \in Present(y)
      BY <2>2, <3>1
    <3> QED BY <2>2, <3>1, <3>2, ValueOfOk
  <2>3. CASE key # e.key /\ ~\E f \in Present(x) : f.key = key
    BY <2>3, ValueOfOk
  <2> QED BY <2>1, <2>2, <2>3
<1> QED BY <1>1, <1>2, <1>4 DEF MapOf

(* An empty answer of the scan means that the map does not bind the key.   *)
LEMMA MapMiss ==
  ASSUME NEW x, Consistent(x), NEW key \in Keys, {e \in Present(x) : e.key = key} = {}
  PROVE  MapOf(x)[key] = NULL
BY ValueOfOk DEF MapOf

LEMMA MapHit ==
  ASSUME NEW x, Consistent(x), NEW key \in Keys, NEW e \in Present(x), e.key = key
  PROVE  /\ MapOf(x)[key] = e.val /\ e.val # NULL /\ e.val \in Vals
         /\ e = [key |-> key, val |-> MapOf(x)[key]]
<1>1. e.val \in Vals
  BY ConsistentFacts DEF EntryType
<1> QED BY <1>1, ValueOfOk, KeysAssumption DEF MapOf

-----------------------------------------------------------------------------
(* One lemma per operation: it keeps the dict consistent, answers what the *)
(* map answers, carries a rehash forward and leaves entries in place under *)
(* an open iterator.                                                       *)

StepOk == Consistent(d') /\ Carried(d, d') /\ InPlace(d, d')

(* z stands for the dict after the preliminaries of a call, y for the dict *)
(* after the call.                                                         *)
LEMMA InPlaceKept ==
  ASSUME NEW x, Consistent(x), NEW z, Present(z) = Present(x),
         x.num_safe_iterators > 0 /\ Present(x) # {} => z.ht0 = x.ht0,
         NEW y, y.ht0.size = z.ht0.size,
         \A f \in Present(z) : f \in Present(y) => (f \in Entries(y.ht0) <=> f \in Entries(z.ht0)),
         \A f \in Present(y) : f \in Present(z) \/ \A g \in Present(z) : g.key # f.key
  PROVE  InPlace(x, y)
<1>1. \A g, h \in Present(x) : g.key = h.key => g = h
  BY ConsistentFacts DEF Unique
<1>2. SUFFICES ASSUME x.num_safe_iterators > 0, NEW e \in Present(x), NEW f \in Present(y), e.key = f.key
               PROVE  (e \in Entries(x.ht0) <=> f \in Entries(y.ht0)) /\ y.ht0.size = x.ht0.size
  BY DEF InPlace
<1>3. z.ht0 = x.ht0
  BY <1>2
<1>4. f = e
  BY <1>1, <1>2
<1> QED BY <1>3, <1>4

LEMMA AddOk ==
  ASSUME Consistent(d), NEW key \in Keys, NEW val \in Vals, Add(key, val)
  PROVE  StepOk /\ reply' \in Answers /\ Map!Add(key, val)
<1> DEFINE z == Prepared(d)
           e == [key |-> key, val |-> val]
<1>1. /\ Consistent(z) /\ Present(z) = Present(d) /\ z.ht0.size > 0
      /\ d.num_safe_iterators > 0 /\ Present(d) # {} => z.ht0 = d.ht0
      /\ Carried(d, z)
  BY PreparedOk
<1>2. Scan(z, key) = {f \in Present(d) : f.key = key}
  BY <1>1, ScanOk
<1>3. MapOf(z) = MapOf(d)
  BY <1>1, MapSame
<1>4. e \in EntryType /\ e.key = key /\ e.val = val
  BY DEF EntryType
<1> HIDE DEF z, e
<1>5. CASE Scan(z, key) # {}
  <2>1. d' = z /\ reply' = Answer("add", key, "ERR")
    BY <1>5 DEF Add, z
  <2>2. PICK f \in Present(d) : f.key = key
    BY <1>2, <1>5
  <2>3. MapOf(d)[key] # NULL
    BY <2>2, MapHit
  <2>4. MapOf(d)' = MapOf(d)
    BY <2>1, <1>3
  <2>5. Map!Add(key, val)
    BY <2>1, <2>3, <2>4 DEF Map!Add, Map!Bound, Map!Answer, Answer
  <2>6. InPlace(d, d')
    BY <2>1, <1>1, InPlaceKept
  <2> QED BY <2>1, <2>5, <2>6, <1>1 DEF StepOk, Answers, Answer
<1>6. CASE Scan(z, key) = {}
  <2>1. d' = Link(z, e) /\ reply' = Answer("add", key, "OK")
    BY <1>6 DEF Add, z, e
  <2>2. \A f \in Present(z) : f.key # e.key
    BY <1>1, <1>2, <1>4, <1>6
  <2>3. /\ Consistent(d')
        /\ Present(d') = Present(z) \cup {e}
        /\ d'.rehash_idx = z.rehash_idx
        /\ d'.ht0.size = z.ht0.size /\ d'.ht1.size = z.ht1.size
        /\ \A f \in Present(z) : f \in Entries(d'.ht0) <=> f \in Entries(z.ht0)
    BY <2>1, <2>2, <1>1, <1>4, LinkOk
  <2>4. MapOf(z)[key] = NULL /\ MapOf(d') = [MapOf(z) EXCEPT ![key] = val]
    BY <2>2, <2>3, <1>1, <1>4, MapLinked
  <2>5. Map!Add(key, val)
    BY <2>1, <2>4, <1>3 DEF Map!Add, Map!Bound, Map!Answer, Answer, MapOf, ValueOf, Present
  <2>6. InPlace(d, d')
    BY <2>2, <2>3, <1>1, <1>4, InPlaceKept
  <2> QED BY <2>1, <2>3, <2>5, <2>6, <1>1 DEF StepOk, Answers, Answer, Carried
<1> QED BY <1>5, <1>6 DEF Add, z

LEMMA AddOrReplaceOk ==
  ASSUME Consistent(d), NEW key \in Keys, NEW val \in Vals, AddOrReplace(key, val)
  PROVE  StepOk /\ reply' \in Answers /\ Map!AddOrReplace(key, val)
<1> DEFINE z == Prepared(d)
           e == [key |-> key, val |-> val]
<1>1. /\ Consistent(z) /\ Present(z) = Present(d) /\ z.ht0.size > 0
      /\ d.num_safe_iterators > 0 /\ Present(d) # {} => z.ht0 = d.ht0
      /\ Carried(d, z)
  BY PreparedOk
<1>2. Scan(z, key) = {f \in Present(z) : f.key = key}
  BY <1>1, ScanOk
<1>3. MapOf(z) = MapOf(d)
  BY <1>1, MapSame
<1>4. e \in EntryType /\ e.key = key /\ e.val = val
  BY DEF EntryType
<1>5. CASE \E f \in Scan(z, key) : d' = SetVal(z, f, val) /\ reply' = Answer("put", key, "REPLACED")
  <2> HIDE DEF z
  <2>1. PICK f \in Present(z) : f.key = key /\ d' = SetVal(z, f, val)
    BY <1>2, <1>5
  <2>2. [key |-> f.key, val |-> val] = e
    BY <2>1
  <2> HIDE DEF e
  <2>3. /\ Consistent(d')
        /\ Present(d') = (Present(z) \ {f}) \cup {e}
        /\ d'.rehash_idx = z.rehash_idx
        /\ d'.ht0.size = z.ht0.size /\ d'.ht1.size = z.ht1.size
        /\ f \in Entries(z.ht0) => Entries(d'.ht0) = (Entries(z.ht0) \ {f}) \cup {e}
        /\ f \notin Entries(z.ht0) => d'.ht0 = z.ht0
    <3> DEFINE y  == SetVal(z, f, val)
               e2 == [key |-> f.key, val |-> val]
    <3>1. /\ Consistent(y)
          /\ Present(y) = (Present(z) \ {f}) \cup {e2}
          /\ y.rehash_idx = z.rehash_idx
          /\ y.ht0.size = z.ht0.size /\ y.ht1.size = z.ht1.size
          /\ f \in Entries(z.ht0) => Entries(y.ht0) = (Entries(z.ht0) \ {f}) \cup {e2}
          /\ f \notin Entries(z.ht0) => y.ht0 = z.ht0
      BY <1>1, SetValOk
    <3>2. d' = y /\ e2 = e
      BY <2>1, <2>2
    <3> HIDE DEF y, e2
    <3> QED BY <3>1, <3>2
  <2>4. MapOf(z)[key] # NULL /\ MapOf(d') = [MapOf(z) EXCEPT ![key] = val]
    BY <2>1, <2>2, <2>3, <1>1, MapRevalued
  <2>5. Map!AddOrReplace(key, val)
    BY <2>4, <1>3, <1>5 DEF Map!AddOrReplace, Map!Bound, Map!Answer, Answer, MapOf, ValueOf, Present
  <2>6. InPlace(d, d')
    <3>1. \A g, h \in Present(z) : g.key = h.key => g = h
      BY <1>1 DEF Consistent, Unique
    <3>2. \A g \in Present(z), h \in Present(d') :
            g.key = h.key => (g \in Entries(z.ht0) <=> h \in Entries(d'.ht0))
      <4>1. SUFFICES ASSUME NEW g \in Present(z), NEW h \in Present(d'), g.key = h.key
                     PROVE  g \in Entries(z.ht0) <=> h \in Entries(d'.ht0)
        OBVIOUS
      <4>2. CASE h = e
        <5>1. g = f
          BY <4>1, <4>2, <3>1, <2>1, <1>4
        <5>2. f \notin Entries(z.ht0) => e \notin Entries(z.ht0)
          BY <3>1, <2>1, <1>4 DEF Present
        <5> QED BY <5>1, <5>2, <4>2, <2>3
      <4>3. CASE h # e
        <5>1. h \in Present(z) /\ h # f
          BY <4>3, <2>3
        <5>2. g = h
          BY <5>1, <4>1, <3>1
        <5> QED BY <5>1, <5>2, <4>3, <2>3
      <4> QED BY <4>2, <4>3
    <3> QED BY <3>2, <2>3, <1>1 DEF InPlace
  <2> QED BY <2>3, <2>5, <2>6, <1>1, <1>5 DEF StepOk, Answers, Answer, Carried
<1>6. CASE Scan(z, key) = {} /\ d' = Link(z, e) /\ reply' = Answer("put", key, "ADDED")
  <2> HIDE DEF z, e
  <2>1. \A f \in Present(z) : f.key # e.key
    BY <1>2, <1>4, <1>6
  <2>2. /\ Consistent(d')
        /\ Present(d') = Present(z) \cup {e}
        /\ d'.rehash_idx = z.rehash_idx
        /\ d'.ht0.size = z.ht0.size /\ d'.ht1.size = z.ht1.size
        /\ \A f \in Present(z) : f \in Entries(d'.ht0) <=> f \in Entries(z.ht0)
    BY <2>1, <1>1, <1>4, <1>6, LinkOk
  <2>3. MapOf(z)[key] = NULL /\ MapOf(d') = [MapOf(z) EXCEPT ![key] = val]
    BY <2>1, <2>2, <1>1, <1>4, MapLinked
  <2>4. Map!AddOrReplace(key, val)
    BY <2>3, <1>3, <1>6 DEF Map!AddOrReplace, Map!Bound, Map!Answer, Answer, MapOf, ValueOf, Present
  <2>5. InPlace(d, d')
    BY <2>1, <2>2, <1>1, <1>4, InPlaceKept
  <2> QED BY <2>2, <2>4, <2>5, <1>1, <1>6 DEF StepOk, Answers, Answer, Carried
<1> QED BY <1>5, <1>6 DEF AddOrReplace

LEMMA LookupOk ==
  ASSUME Consistent(d), NEW key \in Keys, Find(key) \/ FetchValue(key)
  PROVE  StepOk /\ reply' \in Answers /\ (Map!Find(key) \/ Map!FetchValue(key))
<1> DEFINE z == Visited(d)
<1>1. /\ Consistent(z) /\ Present(z) = Present(d)
      /\ d.num_safe_iterators > 0 => z = d
      /\ Carried(d, z)
  BY VisitedOk
<1>2. Found(z, key) = {f \in Present(d) : f.key = key}
  BY <1>1, FoundOk
<1>3. d' = z
  BY DEF Find, FetchValue
<1>4. MapOf(d') = MapOf(d)
  BY <1>1, <1>3, MapSame
<1>5. InPlace(d, d')
  BY <1>1, <1>3, InPlaceKept
<1>6. StepOk
  BY <1>1, <1>3, <1>5 DEF StepOk
<1> HIDE DEF z
<1>7. CASE Find(key)
  <2>1. CASE \E e \in Found(z, key) : reply' = Answer("find", key, e)
    <3>1. PICK e \in Present(d) : e.key = key /\ reply' = Answer("find", key, e)
      BY <2>1, <1>2
    <3>2. MapOf(d)[key] # NULL /\ e = [key |-> key, val |-> MapOf(d)[key]] /\ e \in EntryType
      BY <3>1, MapHit, ConsistentFacts
    <3>3. Map!Find(key)
      BY <3>1, <3>2, <1>4 DEF Map!Find, Map!Entry, Map!Bound, Map!Answer, Answer, MapOf, ValueOf, Present
    <3> QED BY <3>1, <3>2, <3>3, <1>6 DEF Answers, Answer
  <2>2. CASE Found(z, key) = {} /\ reply' = Answer("find", key, NULL)
    <3>1. MapOf(d)[key] = NULL
      BY <2>2, <1>2, MapMiss
    <3>2. Map!Find(key)
      BY <2>2, <3>1, <1>4 DEF Map!Find, Map!Entry, Map!Bound, Map!Answer, Answer, MapOf, ValueOf, Present
    <3> QED BY <2>2, <3>2, <1>6 DEF Answers, Answer
  <2> QED BY <1>7, <2>1, <2>2 DEF Find, z
<1>8. CASE FetchValue(key)
  <2>1. CASE \E e \in Found(z, key) : reply' = Answer("fetch", key, e.val)
    <3>1. PICK e \in Present(d) : e.key = key /\ reply' = Answer("fetch", key, e.val)
      BY <2>1, <1>2
    <3>2. e.val = MapOf(d)[key] /\ e.val \in Vals
      BY <3>1, MapHit
    <3>3. Map!FetchValue(key)
      BY <3>1, <3>2, <1>4 DEF Map!FetchValue, Map!Answer, Answer, MapOf, ValueOf, Present
    <3> QED BY <3>1, <3>2, <3>3, <1>6 DEF Answers, Answer
  <2>2. CASE Found(z, key) = {} /\ reply' = Answer("fetch", key, NULL)
    <3>1. MapOf(d)[key] = NULL
      BY <2>2, <1>2, MapMiss
    <3>2. Map!FetchValue(key)
      BY <2>2, <3>1, <1>4 DEF Map!FetchValue, Map!Answer, Answer, MapOf, ValueOf, Present
    <3> QED BY <2>2, <3>2, <1>6 DEF Answers, Answer
  <2> QED BY <1>8, <2>1, <2>2 DEF FetchValue, z
<1> QED BY <1>7, <1>8

LEMMA RemoveOk ==
  ASSUME Consistent(d), NEW key \in Keys, Delete(key) \/ Unlink(key)
  PROVE  StepOk /\ reply' \in Answers /\ (Map!Delete(key) \/ Map!Unlink(key))
<1> DEFINE z == Visited(d)
<1>1. /\ Consistent(z) /\ Present(z) = Present(d)
      /\ d.num_safe_iterators > 0 => z = d
      /\ Carried(d, z)
  BY VisitedOk
<1>2. Found(z, key) = {f \in Present(d) : f.key = key}
  BY <1>1, FoundOk
<1>3. MapOf(z) = MapOf(d)
  BY <1>1, MapSame
<1>4. \/ /\ Delete(key)
         /\ \/ \E e \in Found(z, key) : d' = Unlinked(z, e) /\ reply' = Answer("delete", key, "OK")
            \/ Found(z, key) = {} /\ d' = z /\ reply' = Answer("delete", key, "ERR")
      \/ /\ Unlink(key)
         /\ \/ \E e \in Found(z, key) : d' = Unlinked(z, e) /\ reply' = Answer("unlink", key, e)
            \/ Found(z, key) = {} /\ d' = z /\ reply' = Answer("unlink", key, NULL)
  BY DEF Delete, Unlink, GenericDelete
<1> HIDE DEF z
<1>5. CASE Found(z, key) = {}
  <2>1. d' = z /\ (reply' = Answer("delete", key, "ERR") \/ reply' = Answer("unlink", key, NULL))
    BY <1>4, <1>5
  <2>2. MapOf(d)[key] = NULL
    BY <1>2, <1>5, MapMiss
  <2>3. MapOf(d') = [MapOf(d) EXCEPT ![key] = NULL]
    BY <2>1, <2>2, <1>3 DEF MapOf
  <2>4. Map!Delete(key) \/ Map!Unlink(key)
    BY <2>1, <2>2, <2>3
       DEF Map!Delete, Map!Unlink, Map!Entry, Map!Bound, Map!Answer, Answer, MapOf, ValueOf, Present
  <2>5. InPlace(d, d')
    BY <2>1, <1>1, InPlaceKept
  <2> QED BY <2>1, <2>4, <2>5, <1>1 DEF StepOk, Answers, Answer
<1>6. CASE Found(z, key) # {}
  <2>1. PICK e \in Found(z, key) :
          /\ d' = Unlinked(z, e)
          /\ reply' = Answer("delete", key, "OK") \/ reply' = Answer("unlink", key, e)
    BY <1>4, <1>6
  <2>2. e \in Present(z) /\ e.key = key /\ e \in EntryType
    BY <2>1, <1>1, <1>2, ConsistentFacts
  <2>3. /\ Consistent(d')
        /\ Present(d') = Present(z) \ {e}
        /\ d'.rehash_idx = z.rehash_idx
        /\ d'.ht0.size = z.ht0.size /\ d'.ht1.size = z.ht1.size
        /\ Entries(d'.ht0) = Entries(z.ht0) \ {e}
    BY <2>1, <2>2, <1>1, UnlinkedOk
  <2>4. /\ MapOf(z)[key] # NULL
        /\ e = [key |-> key, val |-> MapOf(z)[key]]
        /\ MapOf(d') = [MapOf(z) EXCEPT ![key] = NULL]
    BY <2>2, <2>3, <1>1, MapUnlinked
  <2>5. Map!Delete(key) \/ Map!Unlink(key)
    BY <2>1, <2>4, <1>3
       DEF Map!Delete, Map!Unlink, Map!Entry, Map!Bound, Map!Answer, Answer, MapOf, ValueOf, Present
  <2>6. InPlace(d, d')
    BY <2>3, <1>1, InPlaceKept
  <2> QED BY <2>1, <2>2, <2>3, <2>5, <2>6, <1>1 DEF StepOk, Answers, Answer, Carried
<1> QED BY <1>5, <1>6

LEMMA CreatedOk == Consistent(Created) /\ Present(Created) = {}
<1>1. /\ IsHt(NoHt) /\ Placed(NoHt) /\ Counted(NoHt) /\ Entries(NoHt) = {}
      /\ NoHt.size = 0
  BY NewHtEmpty DEF NoHt
<1>2. /\ Created.ht0 = NoHt /\ Created.ht1 = NoHt
      /\ Created.rehash_idx = -1 /\ Created.num_safe_iterators = 0
      /\ Created = DictOf(NoHt, NoHt, -1, 0)
  BY DictFields DEF Created
<1>3. Present(Created) = {}
  BY <1>1, <1>2 DEF Present
<1>4. IsDict(Created)
  BY <1>1, <1>2, ParameterAssumption DEF IsDict
<1>5. Unique(Created) /\ Frontier(Created)
  BY <1>1, <1>2, <1>3 DEF Unique, Frontier, Rehashing
<1> QED BY <1>1, <1>2, <1>3, <1>4, <1>5 DEF Consistent

(* Maintenance is invisible to the map, save for the dict that starts over. *)
LEMMA MaintainOk ==
  ASSUME Consistent(d), reply \in Answers, Maintain
  PROVE  /\ Consistent(d') /\ InPlace(d, d') /\ reply' \in Answers
         /\ d' # Created => Carried(d, d')
         /\ Map!Recreate \/ UNCHANGED Map!vars
<1>1. /\ \A g, h \in Present(d) : g.key = h.key => g = h
      /\ d.rehash_idx \in Int /\ d.num_safe_iterators \in 0..MaxIterators
  BY ConsistentFacts DEF Unique
<1>2. ASSUME NEW n \in ResizeArgs, Resize(n)
      PROVE  /\ StepOk /\ reply' = reply
             /\ Present(d') = Present(d)
  <2>1. n \in Nat /\ \E size \in TableSizes : n <= size
    BY ParameterAssumption, TableSizesAssumption
  <2>2. /\ Consistent(d') /\ Present(d') = Present(d)
        /\ Rehashing(d) => d' = d
        /\ d.ht0.size > 0 => d'.ht0 = d.ht0
    BY <1>2, <2>1, ResizeToOk DEF Resize
  <2>3. Carried(d, d')
    BY <2>2, <1>1 DEF Carried
  <2>4. Present(d) # {} => d.ht0.size > 0
    BY EmptyMeansEmpty, ConsistentFacts
  <2>5. InPlace(d, d')
    BY <2>2, <2>4, <1>1 DEF InPlace
  <2> QED BY <1>2, <2>2, <2>3, <2>5 DEF StepOk, Resize
<1>3. ASSUME NEW n \in RehashArgs, RehashSteps(n)
      PROVE  /\ StepOk /\ reply' = reply
             /\ Present(d') = Present(d)
  <2>1. d' = Rehash(d, n) /\ Rehashing(d) /\ d.num_safe_iterators = 0 /\ reply' = reply
    BY <1>3 DEF RehashSteps
  <2>2. Consistent(d') /\ Present(d') = Present(d) /\ Carried(d, d')
    BY <2>1, RehashOk DEF Carried
  <2>3. InPlace(d, d')
    BY <2>1 DEF InPlace
  <2> QED BY <2>1, <2>2, <2>3 DEF StepOk
<1>4. ASSUME NEW on \in BOOLEAN, SetCanResize(on)
      PROVE  /\ StepOk /\ reply' = reply
             /\ Present(d') = Present(d)
  <2>1. d' = d /\ reply' = reply
    BY <1>4 DEF SetCanResize
  <2> QED BY <2>1, <1>1 DEF StepOk, Carried, InPlace
<1>5. ASSUME OpenIterator \/ CloseIterator
      PROVE  /\ StepOk /\ reply' = reply
             /\ Present(d') = Present(d)
  <2>1. PICK n \in 0..MaxIterators : d' = DictOf(d.ht0, d.ht1, d.rehash_idx, n)
    BY <1>1, <1>5, ParameterAssumption DEF OpenIterator, CloseIterator
  <2>2. /\ d'.ht0 = d.ht0 /\ d'.ht1 = d.ht1 /\ d'.rehash_idx = d.rehash_idx
        /\ d'.num_safe_iterators = n /\ reply' = reply
    BY <1>5, <2>1, DictFields DEF OpenIterator, CloseIterator
  <2>3. Present(d') = Present(d)
    BY <2>2 DEF Present
  <2>4. Consistent(d')
    BY <2>1, <2>2, <2>3 DEF Consistent, IsDict, Unique, Frontier, Rehashing
  <2> QED BY <2>2, <2>3, <2>4, <1>1 DEF StepOk, Carried, InPlace
<1>6. ASSUME Recreate
      PROVE  /\ Consistent(d') /\ d' = Created /\ InPlace(d, d') /\ reply' \in Answers
             /\ Map!Recreate
  <2>1. d' = Created /\ reply' = Answer("create", NULL, NULL) /\ d.num_safe_iterators = 0
    BY <1>6 DEF Recreate
  <2>2. Consistent(Created) /\ Present(Created) = {}
    BY CreatedOk
  <2>3. MapOf(d') = [key \in Keys |-> NULL]
    BY <2>1, <2>2 DEF MapOf, ValueOf
  <2>4. Map!Recreate
    BY <2>1, <2>3 DEF Map!Recreate, Map!Init, Map!Answer, Answer, MapOf, ValueOf, Present
  <2> QED BY <2>1, <2>2, <2>4 DEF InPlace, Answers, Answer
<1>7. ASSUME Present(d') = Present(d), reply' = reply PROVE UNCHANGED Map!vars
  BY <1>7, MapSame DEF Map!vars, MapOf, ValueOf, Present
<1> QED BY <1>2, <1>3, <1>4, <1>5, <1>6, <1>7 DEF Maintain, StepOk

-----------------------------------------------------------------------------
(* Theorems. *)

IndInv == DictInv /\ reply \in Answers /\ dict_can_resize \in BOOLEAN

LEMMA InitOk == Init => IndInv /\ Map!Init
<1> SUFFICES ASSUME Init PROVE IndInv /\ Map!Init
  OBVIOUS
<1>1. d = Created /\ reply = Answer("create", NULL, NULL) /\ dict_can_resize = TRUE
  BY DEF Init
<1>2. MapOf(d) = [key \in Keys |-> NULL]
  BY <1>1, CreatedOk DEF MapOf, ValueOf
<1>3. Map!Init
  BY <1>1, <1>2 DEF Map!Init, Map!Answer, Answer, MapOf, ValueOf, Present
<1> QED BY <1>1, <1>3, CreatedOk DEF IndInv, DictInv, Answers, Answer

(* Every step keeps the invariant, carries a rehash forward, leaves        *)
(* entries in place under an iterator and is a step of the map.            *)
LEMMA NextOk ==
  ASSUME IndInv, [Next]_vars
  PROVE  /\ IndInv' /\ InPlace(d, d')
         /\ d' # Created => Carried(d, d')
         /\ [Map!Next]_(Map!vars)
<1>1. Consistent(d) /\ reply \in Answers /\ dict_can_resize \in BOOLEAN
  BY DEF IndInv, DictInv
<1>2. dict_can_resize' \in BOOLEAN
  BY <1>1 DEF Next, vars, Lookup, Update, Maintain, Find, FetchValue, Add, AddOrReplace,
              Delete, Unlink, GenericDelete, Resize, RehashSteps, SetCanResize,
              OpenIterator, CloseIterator, Recreate
<1>3. CASE Lookup
  <2>1. PICK key \in Keys : Find(key) \/ FetchValue(key)
    BY <1>3 DEF Lookup
  <2>2. StepOk /\ reply' \in Answers /\ (Map!Find(key) \/ Map!FetchValue(key))
    BY <1>1, <2>1, LookupOk
  <2> QED BY <2>2, <1>2 DEF StepOk, IndInv, DictInv, Map!Next
<1>4. CASE Update
  <2>1. CASE \E key \in Keys, val \in Vals : Add(key, val) \/ AddOrReplace(key, val)
    <3>1. PICK key \in Keys, val \in Vals : Add(key, val) \/ AddOrReplace(key, val)
      BY <2>1
    <3>2. StepOk /\ reply' \in Answers /\ (Map!Add(key, val) \/ Map!AddOrReplace(key, val))
      BY <1>1, <3>1, AddOk, AddOrReplaceOk
    <3> QED BY <3>2, <1>2 DEF StepOk, IndInv, DictInv, Map!Next
  <2>2. CASE \E key \in Keys : Delete(key) \/ Unlink(key)
    <3>1. PICK key \in Keys : Delete(key) \/ Unlink(key)
      BY <2>2
    <3>2. StepOk /\ reply' \in Answers /\ (Map!Delete(key) \/ Map!Unlink(key))
      BY <1>1, <3>1, RemoveOk
    <3> QED BY <3>2, <1>2 DEF StepOk, IndInv, DictInv, Map!Next
  <2> QED BY <1>4, <2>1, <2>2 DEF Update
<1>5. CASE Maintain
  BY <1>1, <1>2, <1>5, MaintainOk DEF IndInv, DictInv, Map!Next
<1>6. CASE UNCHANGED vars
  <2>1. d' = d /\ reply' = reply
    BY <1>6 DEF vars
  <2>2. /\ \A g, h \in Present(d) : g.key = h.key => g = h
        /\ d.rehash_idx \in Int
    BY <1>1, ConsistentFacts DEF Unique
  <2>3. InPlace(d, d') /\ Carried(d, d')
    BY <2>1, <2>2 DEF InPlace, Carried
  <2>4. UNCHANGED Map!vars
    BY <2>1, MapSame DEF Map!vars, MapOf, ValueOf, Present
  <2> QED BY <2>1, <2>3, <2>4, <1>1, <1>2 DEF IndInv, DictInv
<1> QED BY <1>3, <1>4, <1>5, <1>6 DEF Next

(* The inductive invariant holds in every reachable state.                 *)
THEOREM Invariant == Spec => []IndInv
<1>1. Init => IndInv
  BY InitOk
<1>2. IndInv /\ [Next]_vars => IndInv'
  BY NextOk
<1> QED BY <1>1, <1>2, PTL DEF Spec

(* The dict is consistent between any two calls: entries lie where their   *)
(* hashes put them, the counters are exact, no key is held twice and the   *)
(* part of the old table that was rehashed is empty (dict.c:122-160,       *)
(* 182-223, 318-352).                                                      *)
THEOREM StaysConsistent == Spec => []DictInv
<1>1. IndInv => DictInv
  BY DEF IndInv
<1> QED BY <1>1, Invariant, PTL

(* Type correctness of the dict, the resize switch and the answers.        *)
THEOREM TypeCorrect == Spec => []TypeOK
<1>1. IndInv => TypeOK
  BY DEF IndInv, DictInv, Consistent, TypeOK
<1> QED BY <1>1, Invariant, PTL

(* However dict_resize_to and dict_rehash are interleaved with the other   *)
(* calls, dict_find meets every entry the dict holds (dict.c:266-288).     *)
THEOREM EveryEntryIsFound == Spec => []LookupComplete
<1>1. IndInv => LookupComplete
  <2> SUFFICES ASSUME Consistent(d), NEW e \in Present(d)
               PROVE  Found(d, e.key) = {e}
    BY DEF IndInv, DictInv, LookupComplete
  <2>1. e.key \in Keys
    BY ConsistentFacts DEF EntryType
  <2>2. Found(d, e.key) = {f \in Present(d) : f.key = e.key}
    BY <2>1, FoundOk
  <2>3. \A f, g \in Present(d) : f.key = g.key => f = g
    BY ConsistentFacts DEF Unique
  <2> QED BY <2>2, <2>3
<1> QED BY <1>1, Invariant, PTL

(* No key is held twice (dict.c:182-223).                                  *)
THEOREM NoKeyTwice == Spec => []KeysUnique
<1>1. IndInv => KeysUnique
  BY DEF IndInv, DictInv, Consistent, KeysUnique
<1> QED BY <1>1, Invariant, PTL

(* The key counters are exact (dict.c:127, 144-145, 204, 221, 343).        *)
THEOREM CountersAgree == Spec => []CountersExact
<1>1. IndInv => CountersExact
  BY DEF IndInv, DictInv, Consistent, CountersExact
<1> QED BY <1>1, Invariant, PTL

(* No table is dereferenced before it is allocated (dict.c:131, 192, 209,  *)
(* 278, 327).                                                              *)
THEOREM NoNullTable == Spec => []TablesAllocated
<1>1. ASSUME Consistent(d) PROVE TablesAllocated
  <2>1. NumKeys(d) > 0 => d.ht0.size > 0
    BY <1>1, EmptyMeansEmpty, ConsistentFacts DEF NumKeys
  <2>2. Rehashing(d) => d.ht0.size > 0 /\ d.ht1.size > 0
    BY <1>1, ConsistentFacts
  <2>3. ~Rehashing(d) => d.ht1.size = 0
    BY <1>1, ConsistentFacts, NewHtEmpty DEF NoHt
  <2> QED BY <2>1, <2>2, <2>3 DEF TablesAllocated
<1>2. IndInv => TablesAllocated
  BY <1>1 DEF IndInv, DictInv
<1> QED BY <1>2, Invariant, PTL

(* The scan for the next non-empty slot stays inside the table             *)
(* (dict.c:128-134).                                                       *)
THEOREM NoStrayIndex == Spec => []RehashInBounds
<1>1. ASSUME Consistent(d) PROVE RehashInBounds
  <2> SUFFICES ASSUME Rehashing(d), d.ht0.keys > 0
               PROVE  \E i \in d.rehash_idx..(d.ht0.size - 1) : d.ht0.table[i] # {}
    BY DEF RehashInBounds
  <2>1. PICK e : e \in Entries(d.ht0)
    BY <1>1, ConsistentFacts, FS_EmptySet DEF Counted
  <2>2. PICK i \in 0..(d.ht0.size - 1) : e \in d.ht0.table[i]
    BY <2>1, InEntries
  <2>3. /\ d.rehash_idx \in Nat
        /\ \A j \in 0..(d.rehash_idx - 1) : d.ht0.table[j] = {}
    BY <1>1, ConsistentFacts
  <2>4. i \notin 0..(d.rehash_idx - 1)
    BY <2>2, <2>3
  <2> QED BY <2>2, <2>3, <2>4
<1>2. IndInv => RehashInBounds
  BY <1>1 DEF IndInv, DictInv
<1> QED BY <1>2, Invariant, PTL

(* A resize is never restarted before it is complete (dict.c:86, 167).     *)
THEOREM ResizeNotRestarted == Spec => ResizeRunsToItsEnd
<1>1. IndInv /\ [Next]_vars =>
        [Rehashing(d) /\ d' # Created =>
           \/ /\ d'.ht0.size = d.ht0.size /\ d'.ht1.size = d.ht1.size
              /\ d'.rehash_idx >= d.rehash_idx
           \/ d'.ht0.size = d.ht1.size]_vars
  BY NextOk DEF Carried
<1> QED BY <1>1, Invariant, PTL DEF Spec, ResizeRunsToItsEnd

(* While a safe iterator is open no entry changes its place                *)
(* (dict.c:110-118).                                                       *)
THEOREM IteratorPinsEntries == Spec => EntriesStayPut
<1>1. IndInv /\ [Next]_vars =>
        [d.num_safe_iterators > 0 =>
           \A e \in Present(d), f \in Present(d') :
             e.key = f.key => /\ e \in Entries(d.ht0) <=> f \in Entries(d'.ht0)
                              /\ d'.ht0.size = d.ht0.size]_vars
  BY NextOk DEF InPlace
<1> QED BY <1>1, Invariant, PTL DEF Spec, EntriesStayPut

(* The dict is a map: every answer is the one the map of DictMap gives.    *)
THEOREM DictIsAMap == Spec => ImplementsMap
<1>1. Init => Map!Init
  BY InitOk
<1>2. IndInv /\ [Next]_vars => [Map!Next]_(Map!vars)
  BY NextOk
<1> QED BY <1>1, <1>2, Invariant, PTL DEF Spec, ImplementsMap, Map!Spec
=============================================================================
