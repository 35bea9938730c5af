----------------------------- MODULE IterProofs -----------------------------
(***************************************************************************)
(* Proofs about iterators, for any number of them, safe and unsafe, and    *)
(* any dict: rehashing is paused exactly while a safe one traverses, an    *)
(* unsafe one never raises its alarm unless the dict was changed, what one *)
(* has read ahead is in the dict, and a traversal is complete.             *)
(*                                                                         *)
(* The argument for the last: what is ahead of an iterator - the rest of   *)
(* its chain, the slots behind its position, and the second table while it *)
(* is in the first - only changes by what is added or deleted, because no  *)
(* entry moves under a safe iterator (Pinned); what is not ahead has been  *)
(* returned (Tallied).                                                     *)
(***************************************************************************)
EXTENDS DictIter, DictProofs

Pausing == {i \in Iters : Safe(i) /\ InUse(i)}

(* What an unsafe iterator that is not misused yet has recorded.           *)
FingerprintHolds ==
  \A i \in Iters : ~Safe(i) /\ iter[i].state \in {"active", "done", "dangling"} =>
                     iter[i].fingerprint = Fingerprint(d)

IterInv == DOMAIN iter = Iters /\ PausedWhileTraversed /\ FingerprintHolds

-----------------------------------------------------------------------------
LEMMA DictFieldsOk ==
  ASSUME NEW old, NEW new, NEW idx, NEW n
  PROVE  LET x == DictOf(old, new, idx, n)
         IN  x.ht0 = old /\ x.ht1 = new /\ x.num_safe_iterators = n
BY DEF DictOf

(* The calls on the dict do not touch the counter of iterators.            *)
LEMMA RehashKeepsCount == \A x, n : Rehash(x, n).num_safe_iterators = x.num_safe_iterators
BY DictFieldsOk DEF Rehash, RehashUpTo

LEMMA ResizeKeepsCount == \A x, n : ResizeTo(x, n).num_safe_iterators = x.num_safe_iterators
BY DictFieldsOk DEF ResizeTo

LEMMA StepKeepsCount ==
  ASSUME NEW x
  PROVE  /\ Rehash1Step(x).num_safe_iterators = x.num_safe_iterators
         /\ Visited(x).num_safe_iterators = x.num_safe_iterators
         /\ Prepared(x).num_safe_iterators = x.num_safe_iterators
<1>1. Rehash1Step(x).num_safe_iterators = x.num_safe_iterators
  BY RehashKeepsCount DEF Rehash1Step
<1>2. \A y : ExpandIfNeeded(y).num_safe_iterators = y.num_safe_iterators
  BY ResizeKeepsCount DEF ExpandIfNeeded
<1> QED BY <1>1, <1>2 DEF Visited, Prepared

LEMMA LinkKeepsCount ==
  ASSUME NEW x, NEW e, NEW val
  PROVE  /\ Link(x, e).num_safe_iterators = x.num_safe_iterators
         /\ Unlinked(x, e).num_safe_iterators = x.num_safe_iterators
         /\ SetVal(x, e, val).num_safe_iterators = x.num_safe_iterators
BY DictFieldsOk DEF Link, Unlinked, SetVal

LEMMA LookupKeepsCount ==
  ASSUME Lookup
  PROVE  d'.num_safe_iterators = d.num_safe_iterators
BY StepKeepsCount DEF Lookup, Find, FetchValue

LEMMA UpdateKeepsCount ==
  ASSUME Update
  PROVE  d'.num_safe_iterators = d.num_safe_iterators
<1>1. ASSUME NEW key \in Keys, NEW val \in Vals, Add(key, val) \/ AddOrReplace(key, val)
      PROVE  d'.num_safe_iterators = d.num_safe_iterators
  <2>1. \/ d' = Prepared(d)
        \/ \E e : d' = Link(Prepared(d), e)
        \/ \E e : d' = SetVal(Prepared(d), e, val)
    BY <1>1 DEF Add, AddOrReplace
  <2> QED BY <2>1, StepKeepsCount, LinkKeepsCount
<1>2. ASSUME NEW key \in Keys, Delete(key) \/ Unlink(key)
      PROVE  d'.num_safe_iterators = d.num_safe_iterators
  <2>1. d' = Visited(d) \/ \E e : d' = Unlinked(Visited(d), e)
    BY <1>2 DEF Delete, Unlink, GenericDelete
  <2> QED BY <2>1, StepKeepsCount, LinkKeepsCount
<1> QED BY <1>1, <1>2 DEF Update

LEMMA ResizeKeepsTheCount ==
  ASSUME NEW n, Resize(n)
  PROVE  d'.num_safe_iterators = d.num_safe_iterators
BY ResizeKeepsCount DEF Resize

LEMMA GoneFields ==
  ASSUME NEW state
  PROVE  ~Gone(state).safe /\ Gone(state).state = state
BY DEF Gone, Iterator

-----------------------------------------------------------------------------
LEMMA CallOk ==
  ASSUME IterInv, DictCall
  PROVE  IterInv' /\ \A i \in Iters : iter'[i].state = "aborted" => iter[i].state = "aborted"
<1>1. PICK freed :
        /\ freed = KeysIn(Present(d)) \ KeysIn(Present(d'))
        /\ iter' = [i \in Iters |-> IF InUse(i) THEN Follow(iter[i], freed) ELSE iter[i]]
  BY DEF DictCall
<1>2. d'.num_safe_iterators = d.num_safe_iterators
  <2>1. CASE \E n \in ResizeArgs : Resize(n)
    BY <2>1, ResizeKeepsTheCount
  <2>2. CASE \E on \in BOOLEAN : SetCanResize(on)
    BY <2>2 DEF SetCanResize
  <2> QED BY <2>1, <2>2, LookupKeepsCount, UpdateKeepsCount DEF DictCall
<1>3. ASSUME NEW i \in Iters
      PROVE  /\ Safe(i)' /\ InUse(i)' <=> Safe(i) /\ InUse(i)
             /\ iter'[i].state = "aborted" => iter[i].state = "aborted"
             /\ ~Safe(i)' /\ iter'[i].state \in {"active", "done", "dangling"} =>
                  d' = d /\ ~Safe(i) /\ iter[i].state \in {"active", "done", "dangling"}
                  /\ iter'[i].fingerprint = iter[i].fingerprint
  <2>1. CASE InUse(i)
    <3>1. iter'[i] = Follow(iter[i], freed)
      BY <1>1, <2>1
    <3>2. d' = d => freed = {}
      BY <1>1
    <3>3. CASE ~iter[i].safe /\ d' # d
      <4>1. iter'[i] = Iterator(FALSE, "misused", 0, -1, NULL, {}, iter[i].fingerprint)
        BY <3>1, <3>3 DEF Follow
      <4>2. ~iter'[i].safe /\ iter'[i].state = "misused"
        BY <4>1 DEF Iterator
      <4> QED BY <3>3, <4>2 DEF Safe, InUse
    <3>4. CASE ~(~iter[i].safe /\ d' # d) /\ iter[i].entry \in freed
      <4>1. iter'[i] = Iterator(iter[i].safe, "dangling", iter[i].table, iter[i].index, NULL, {},
                                iter[i].fingerprint)
        BY <3>1, <3>4 DEF Follow
      <4>2. iter'[i].safe = iter[i].safe /\ iter'[i].state = "dangling"
        BY <4>1 DEF Iterator
      <4>3. iter[i].safe
        BY <3>2, <3>4
      <4> QED BY <2>1, <4>2, <4>3 DEF Safe, InUse
    <3>5. CASE ~(~iter[i].safe /\ d' # d) /\ iter[i].entry \notin freed
      <4>1. iter'[i] = Iterator(iter[i].safe, iter[i].state, iter[i].table, iter[i].index,
                                iter[i].entry, iter[i].rest \ freed, iter[i].fingerprint)
        BY <3>1, <3>5 DEF Follow
      <4>2. /\ iter'[i].safe = iter[i].safe /\ iter'[i].state = iter[i].state
            /\ iter'[i].fingerprint = iter[i].fingerprint
        BY <4>1 DEF Iterator
      <4> QED BY <3>5, <4>2 DEF Safe, InUse
    <3> QED BY <3>3, <3>4, <3>5
  <2>2. CASE ~InUse(i)
    BY <1>1, <2>2 DEF Safe, InUse
  <2> QED BY <2>1, <2>2
<1>4. Pausing' = Pausing
  BY <1>3 DEF Pausing
<1>5. PausedWhileTraversed'
  BY <1>2, <1>4 DEF IterInv, PausedWhileTraversed, Pausing
<1>6. FingerprintHolds'
  BY <1>3 DEF IterInv, FingerprintHolds, Fingerprint
<1> QED BY <1>1, <1>3, <1>5, <1>6 DEF IterInv

LEMMA DictNextOk ==
  ASSUME IterInv, NEW i \in Iters, DictNext(i)
  PROVE  IterInv' /\ \A j \in Iters : iter'[j].state = "aborted" => iter[j].state = "aborted"
<1>1. iter[i].state \in {"fresh", "active"} /\ Register(i)
  BY DEF DictNext
<1>2. PICK it : /\ iter' = [iter EXCEPT ![i] = it]
                /\ it.safe = iter[i].safe /\ it.state \in {"active", "done"}
                /\ it.fingerprint = FingerprintOf(i)
  <2>1. CASE NextInChain(i)
    <3>1. PICK ahead \in ReadAhead(iter[i].rest) :
            iter' = [iter EXCEPT ![i] = Iterator(@.safe, "active", @.table, @.index,
                                                 ahead[1], ahead[2], FingerprintOf(i))]
      BY <2>1 DEF NextInChain
    <3> DEFINE it == Iterator(iter[i].safe, "active", iter[i].table, iter[i].index,
                              ahead[1], ahead[2], FingerprintOf(i))
    <3>2. iter' = [iter EXCEPT ![i] = it]
      BY <3>1
    <3>3. it.safe = iter[i].safe /\ it.state = "active" /\ it.fingerprint = FingerprintOf(i)
      BY DEF Iterator
    <3> HIDE DEF it
    <3> QED BY <3>2, <3>3
  <2>2. CASE NextSlot(i)
    <3>1. PICK position \in Positions(d, iter[i].table, iter[i].index) :
            \E chain : \E key \in chain : \E ahead \in ReadAhead(chain \ {key}) :
              iter' = [iter EXCEPT ![i] = Iterator(@.safe, "active", position[1], position[2],
                                                   ahead[1], ahead[2], FingerprintOf(i))]
      BY <2>2 DEF NextSlot
    <3>2. PICK ahead :
            iter' = [iter EXCEPT ![i] = Iterator(@.safe, "active", position[1], position[2],
                                                 ahead[1], ahead[2], FingerprintOf(i))]
      BY <3>1
    <3> DEFINE it == Iterator(iter[i].safe, "active", position[1], position[2],
                              ahead[1], ahead[2], FingerprintOf(i))
    <3>3. iter' = [iter EXCEPT ![i] = it]
      BY <3>2
    <3>4. it.safe = iter[i].safe /\ it.state = "active" /\ it.fingerprint = FingerprintOf(i)
      BY DEF Iterator
    <3> HIDE DEF it
    <3> QED BY <3>3, <3>4
  <2>3. CASE NextEnd(i)
    <3> DEFINE t == IF Rehashing(d) THEN 1 ELSE iter[i].table
               it == Iterator(iter[i].safe, "done", t, TableOf(d, t).size, NULL, {},
                              FingerprintOf(i))
    <3>1. iter' = [iter EXCEPT ![i] = it]
      BY <2>3 DEF NextEnd
    <3>2. it.safe = iter[i].safe /\ it.state = "done" /\ it.fingerprint = FingerprintOf(i)
      BY DEF Iterator
    <3> HIDE DEF it
    <3> QED BY <3>1, <3>2
  <2> QED BY <2>1, <2>2, <2>3 DEF DictNext
<1>3. iter'[i] = it /\ DOMAIN iter' = Iters /\ \A j \in Iters \ {i} : iter'[j] = iter[j]
  BY <1>2 DEF IterInv
<1>4. Fingerprint(d)' = Fingerprint(d)
  BY <1>1, DictFieldsOk DEF Register, Fingerprint
<1>5. FingerprintHolds'
  <2>1. ~Safe(i)' => it.fingerprint = Fingerprint(d)'
    BY <1>1, <1>2, <1>3, <1>4 DEF IterInv, FingerprintHolds, FingerprintOf, Safe
  <2> QED BY <1>3, <1>4, <2>1 DEF IterInv, FingerprintHolds, Safe
<1>6. IsFiniteSet(Pausing)
  BY IteratorsAssumption, FS_Subset DEF Pausing
<1>7. CASE iter[i].state = "fresh" /\ Safe(i)
  <2>1. d'.num_safe_iterators = d.num_safe_iterators + 1
    BY <1>1, <1>7, DictFieldsOk DEF Register
  <2>2. Pausing' = Pausing \cup {i} /\ i \notin Pausing
    BY <1>2, <1>3, <1>7 DEF Pausing, Safe, InUse
  <2>3. Cardinality(Pausing') = Cardinality(Pausing) + 1
    BY <1>6, <2>2, FS_AddElement
  <2> QED BY <1>2, <1>3, <1>5, <2>1, <2>3 DEF IterInv, PausedWhileTraversed, Pausing
<1>8. CASE ~(iter[i].state = "fresh" /\ Safe(i))
  <2>1. d' = d
    BY <1>1, <1>8 DEF Register
  <2>2. Pausing' = Pausing
    BY <1>1, <1>2, <1>3, <1>8 DEF Pausing, Safe, InUse
  <2> QED BY <1>2, <1>3, <1>5, <2>1, <2>2 DEF IterInv, PausedWhileTraversed, Pausing
<1> QED BY <1>7, <1>8

LEMMA FreeIteratorOk ==
  ASSUME IterInv, NEW i \in Iters, DictFreeIterator(i)
  PROVE  /\ IterInv'
         /\ \A j \in Iters : iter'[j].state = "aborted" => iter[j].state \in {"aborted", "misused"}
<1>1. PICK it : /\ iter' = [iter EXCEPT ![i] = it]
                /\ it = IF InUse(i) /\ ~Safe(i) /\ iter[i].fingerprint # Fingerprint(d)
                        THEN Gone("aborted") ELSE Gone("freed")
  BY DEF DictFreeIterator
<1>2. ~it.safe /\ it.state \in {"aborted", "freed"}
  BY <1>1, GoneFields
<1>3. iter'[i] = it /\ DOMAIN iter' = Iters /\ \A j \in Iters \ {i} : iter'[j] = iter[j]
  BY <1>1 DEF IterInv
<1>4. Fingerprint(d)' = Fingerprint(d)
  BY DictFieldsOk DEF DictFreeIterator, Fingerprint
<1>5. FingerprintHolds'
  BY <1>2, <1>3, <1>4 DEF IterInv, FingerprintHolds, Safe
<1>6. it.state = "aborted" => iter[i].state = "misused"
  <2>1. it.state = "aborted" => InUse(i) /\ ~Safe(i) /\ iter[i].fingerprint # Fingerprint(d)
    BY <1>1, GoneFields
  <2> QED BY <2>1 DEF IterInv, FingerprintHolds, InUse
<1>7. IsFiniteSet(Pausing)
  BY IteratorsAssumption, FS_Subset DEF Pausing
<1>8. CASE InUse(i) /\ Safe(i)
  <2>1. d'.num_safe_iterators = d.num_safe_iterators - 1
    BY <1>8, DictFieldsOk DEF DictFreeIterator
  <2>2. Pausing' = Pausing \ {i} /\ i \in Pausing
    BY <1>2, <1>3, <1>8 DEF Pausing, Safe, InUse
  <2>3. Cardinality(Pausing') = Cardinality(Pausing) - 1
    BY <1>7, <2>2, FS_RemoveElement
  <2> QED BY <1>3, <1>5, <1>6, <2>1, <2>3 DEF IterInv, PausedWhileTraversed, Pausing
<1>9. CASE ~(InUse(i) /\ Safe(i))
  <2>1. d' = d
    BY <1>9 DEF DictFreeIterator
  <2>2. Pausing' = Pausing
    BY <1>2, <1>3, <1>9 DEF Pausing, Safe, InUse
  <2> QED BY <1>3, <1>5, <1>6, <2>1, <2>2 DEF IterInv, PausedWhileTraversed, Pausing
<1> QED BY <1>8, <1>9

LEMMA IterInitOk == InitIter => IterInv
<1> SUFFICES ASSUME InitIter PROVE IterInv
  OBVIOUS
<1>1. ASSUME NEW i \in Iters PROVE iter[i].state = "fresh"
  <2>1. PICK safe \in BOOLEAN : iter[i] = Fresh(safe)
    BY DEF InitIter
  <2> QED BY <2>1 DEF Fresh, Iterator
<1>2. DOMAIN iter = Iters
  BY DEF InitIter
<1>3. d.num_safe_iterators = 0
  BY DictFieldsOk DEF InitIter, Init, Created
<1>4. Pausing = {}
  BY <1>1 DEF Pausing, InUse
<1>5. PausedWhileTraversed
  BY <1>3, <1>4, FS_EmptySet DEF PausedWhileTraversed, Pausing
<1> QED BY <1>1, <1>2, <1>5 DEF IterInv, FingerprintHolds

LEMMA IterNextOk ==
  ASSUME IterInv, [NextIter]_allVars
  PROVE  /\ IterInv'
         /\ NextIter => \A i \in Iters : iter'[i].state = "aborted" => iter[i].state = "misused"
<1>1. CASE NextIter
  <2>1. \A i \in Iters : iter[i].state # "aborted"
    BY <1>1 DEF NextIter
  <2> QED BY <1>1, <2>1, CallOk, DictNextOk, FreeIteratorOk DEF NextIter
<1>2. CASE UNCHANGED allVars
  <2>1. UNCHANGED <<iter, d>>
    BY <1>2 DEF allVars, iterVars, vars
  <2>2. IterInv'
    BY <2>1 DEF IterInv, PausedWhileTraversed, FingerprintHolds, Safe, InUse, Fingerprint
  <2>3. ASSUME NextIter
        PROVE  \A i \in Iters : iter'[i].state = "aborted" => iter[i].state = "misused"
    BY <2>1, <2>3 DEF NextIter
  <2> QED BY <2>2, <2>3
<1> QED BY <1>1, <1>2

-----------------------------------------------------------------------------
(* Iterating is using the dict: the steps of iterators and of their callers *)
(* are calls of the dict, or leave it alone.                               *)
LEMMA CallIsUse == ASSUME DictCall PROVE Next
<1>1. CASE Lookup \/ Update
  BY <1>1 DEF Next
<1>2. CASE \E n \in ResizeArgs : Resize(n)
  BY <1>2 DEF Next, Maintain
<1>3. CASE \E on \in BOOLEAN : SetCanResize(on)
  BY <1>3 DEF Next, Maintain
<1> QED BY <1>1, <1>2, <1>3 DEF DictCall

LEMMA NextIsUse ==
  ASSUME IterInv, NEW i \in Iters, DictNext(i)
  PROVE  OpenIterator \/ UNCHANGED vars
<1>1. CASE iter[i].state = "fresh" /\ Safe(i)
  <2>1. d' = DictOf(d.ht0, d.ht1, d.rehash_idx, d.num_safe_iterators + 1)
        /\ UNCHANGED <<dict_can_resize, reply>>
    BY <1>1 DEF DictNext, Register
  <2>2. IsFiniteSet(Pausing \cup {i}) /\ IsFiniteSet(Pausing) /\ IsFiniteSet(Iters)
        /\ i \notin Pausing
    BY <1>1, IteratorsAssumption, FS_Subset, FS_AddElement DEF Pausing, InUse
  <2>3. Cardinality(Pausing \cup {i}) = Cardinality(Pausing) + 1
    BY <2>2, FS_AddElement
  <2>4. Cardinality(Pausing \cup {i}) <= Cardinality(Iters)
    BY <2>2, FS_Subset DEF Pausing
  <2>5. Cardinality(Pausing) \in Nat /\ Cardinality(Iters) \in Nat
    BY <2>2, FS_CardinalityType
  <2>6. d.num_safe_iterators = Cardinality(Pausing)
    BY DEF IterInv, PausedWhileTraversed, Pausing
  <2>7. d.num_safe_iterators < MaxIterators
    BY <2>3, <2>4, <2>5, <2>6, IteratorsAssumption, ParameterAssumption
  <2> QED BY <2>1, <2>7 DEF OpenIterator
<1>2. CASE ~(iter[i].state = "fresh" /\ Safe(i))
  BY <1>2 DEF DictNext, Register, vars
<1> QED BY <1>1, <1>2

LEMMA PausedByOne ==
  ASSUME IterInv, NEW i \in Iters, Safe(i), InUse(i)
  PROVE  d.num_safe_iterators > 0
<1>1. IsFiniteSet(Pausing) /\ i \in Pausing
  BY IteratorsAssumption, FS_Subset DEF Pausing
<1>2. Cardinality(Pausing) \in Nat /\ Cardinality(Pausing) # 0
  BY <1>1, FS_EmptySet, FS_CardinalityType
<1> QED BY <1>2 DEF IterInv, PausedWhileTraversed, Pausing

LEMMA FreeIsUse ==
  ASSUME IterInv, NEW i \in Iters, DictFreeIterator(i)
  PROVE  CloseIterator \/ UNCHANGED vars
<1>1. CASE InUse(i) /\ Safe(i)
  <2>1. d' = DictOf(d.ht0, d.ht1, d.rehash_idx, d.num_safe_iterators - 1)
        /\ UNCHANGED <<dict_can_resize, reply>>
    BY <1>1 DEF DictFreeIterator
  <2> QED BY <1>1, <2>1, PausedByOne DEF CloseIterator
<1>2. CASE ~(InUse(i) /\ Safe(i))
  BY <1>2 DEF DictFreeIterator, vars
<1> QED BY <1>1, <1>2

LEMMA UseOk == ASSUME IterInv, [NextIter]_allVars PROVE [Next]_vars
<1>1. ASSUME NEW i \in Iters, DictNext(i) PROVE Next \/ UNCHANGED vars
  BY <1>1, NextIsUse DEF Next, Maintain
<1>2. ASSUME NEW i \in Iters, DictFreeIterator(i) PROVE Next \/ UNCHANGED vars
  BY <1>2, FreeIsUse DEF Next, Maintain
<1>3. CASE UNCHANGED allVars
  BY <1>3 DEF allVars
<1> QED BY <1>1, <1>2, <1>3, CallIsUse DEF NextIter

-----------------------------------------------------------------------------
(* Where an iterator is.  An iterator holds the entry it has read ahead    *)
(* and the rest of its chain; ahead of it lie what it holds, the slots     *)
(* beyond its position, and from the first table also the second one.      *)
Bound(dict) == KeysIn(Present(dict))

KeysOf(ht) == KeysIn(Entries(ht))

KeysAt(ht, index) == {key \in KeysOf(ht) : SlotOf(ht, key) = index}

KeysBeyond(ht, index) == {key \in KeysOf(ht) : SlotOf(ht, key) > index}

Held(it) == it.rest \cup ({it.entry} \ {NULL})

Ahead(it, dict) ==
  IF it.state = "done" THEN {}
  ELSE Held(it) \cup KeysBeyond(TableOf(dict, it.table), it.index)
                \cup (IF it.table = 0 THEN KeysOf(dict.ht1) ELSE {})

Positioned(it, dict) ==
  /\ it.state \in {"fresh", "active", "done", "dangling", "misused", "freed", "aborted"}
  /\ it.table \in 0..1
  /\ it.table = 1 => Rehashing(dict)
  /\ it.index \in -1..TableOf(dict, it.table).size
  /\ it.entry \in Keys \cup {NULL}
  /\ it.rest \subseteq Keys \ {it.entry}
  /\ it.entry = NULL => it.rest = {}
  /\ it.state \in {"fresh", "misused", "freed", "aborted"} =>
       it.table = 0 /\ it.index = -1 /\ it.entry = NULL
  /\ it.state = "active" => /\ it.index \in 0..(TableOf(dict, it.table).size - 1)
                            /\ Held(it) \subseteq KeysAt(TableOf(dict, it.table), it.index)

(* What an iterator has returned: nothing that is ahead of it, and every   *)
(* stable entry that is not.                                               *)
Underway(it) == it.state \in {"active", "done"}

Tallied(it, keys, seen, dict) ==
  /\ keys \subseteq Bound(dict)
  /\ seen \in [Keys -> {0, 1}]
  /\ ~Underway(it) => keys = {} /\ \A key \in Keys : seen[key] = 0
  /\ \A key \in Keys \ Bound(dict) : seen[key] = 0
  /\ \A key \in Keys : Underway(it) /\ key \in Ahead(it, dict) => seen[key] = 0
  /\ \A key \in keys : key \notin Ahead(it, dict) => seen[key] = 1

TraversalInv ==
  /\ DOMAIN visits = Iters /\ DOMAIN stable = Iters
  /\ \A i \in Iters : Positioned(iter[i], d) /\ Tallied(iter[i], stable[i], visits[i], d)

LEMMA KeyFacts ==
  ASSUME NEW x, Consistent(x)
  PROVE  /\ KeysOf(x.ht0) \cap KeysOf(x.ht1) = {}
         /\ Bound(x) = KeysOf(x.ht0) \cup KeysOf(x.ht1)
         /\ Bound(x) \subseteq Keys
         /\ ~Rehashing(x) => KeysOf(x.ht1) = {}
         /\ x.ht0.size \in Nat /\ x.ht1.size \in Nat
         /\ \A key \in KeysOf(x.ht0) : SlotOf(x.ht0, key) \in 0..(x.ht0.size - 1)
         /\ \A key \in KeysOf(x.ht1) : SlotOf(x.ht1, key) \in 0..(x.ht1.size - 1)
<1>1. /\ Unique(x) /\ Present(x) \subseteq EntryType
      /\ x.ht0.size \in Nat /\ x.ht1.size \in Nat
      /\ IsHt(x.ht0) /\ Placed(x.ht0) /\ IsHt(x.ht1) /\ Placed(x.ht1)
      /\ ~Rehashing(x) => Entries(x.ht1) = {}
  BY ConsistentFacts
<1>2. Bound(x) = KeysOf(x.ht0) \cup KeysOf(x.ht1) /\ Bound(x) \subseteq Keys
  BY <1>1 DEF Bound, KeysOf, KeysIn, Present, EntryType
<1>3. KeysOf(x.ht0) \cap KeysOf(x.ht1) = {}
  BY <1>1 DEF KeysOf, KeysIn, Present, Unique
<1>4. \A key \in KeysOf(x.ht0) : SlotOf(x.ht0, key) \in 0..(x.ht0.size - 1)
  BY <1>1, EntryInItsSlot DEF KeysOf, KeysIn
<1>5. \A key \in KeysOf(x.ht1) : SlotOf(x.ht1, key) \in 0..(x.ht1.size - 1)
  BY <1>1, EntryInItsSlot DEF KeysOf, KeysIn
<1>6. ~Rehashing(x) => KeysOf(x.ht1) = {}
  BY <1>1 DEF KeysOf, KeysIn
<1> QED BY <1>1, <1>2, <1>3, <1>4, <1>5, <1>6

LEMMA ChainIsKeysAt ==
  ASSUME NEW ht, IsHt(ht), Placed(ht), NEW index \in 0..(ht.size - 1)
  PROVE  /\ KeysIn(ht.table[index]) = KeysAt(ht, index)
         /\ ht.table[index] = {} <=> KeysAt(ht, index) = {}
<1>1. \A e \in Entries(ht) : e \in ht.table[SlotOf(ht, e.key)]
  BY EntryInItsSlot
<1>2. ht.table[index] \subseteq Entries(ht) /\ \A e \in ht.table[index] : SlotOf(ht, e.key) = index
  BY DEF Entries, Placed
<1>3. KeysIn(ht.table[index]) = KeysAt(ht, index)
  BY <1>1, <1>2 DEF KeysIn, KeysAt, KeysOf
<1>4. ht.table[index] = {} <=> KeysIn(ht.table[index]) = {}
  BY DEF KeysIn
<1> QED BY <1>3, <1>4

(* What a call on the dict leaves as it is while rehashing is paused.      *)
Pinned(x, y) ==
  /\ x.ht0.size > 0 => y.ht0.size = x.ht0.size
  /\ Rehashing(x) => Rehashing(y) /\ y.ht1.size = x.ht1.size
  /\ \A key \in Bound(x) \cap Bound(y) : key \in KeysOf(x.ht0) <=> key \in KeysOf(y.ht0)

LEMMA ResizePins ==
  ASSUME NEW x, NEW n
  PROVE  /\ Rehashing(x) => ResizeTo(x, n) = x
         /\ x.ht0.size # 0 => ResizeTo(x, n).ht0 = x.ht0
BY DictFields DEF ResizeTo, Resizable

LEMMA PreparedPins ==
  ASSUME NEW x, x.num_safe_iterators # 0
  PROVE  /\ Rehashing(x) => Prepared(x) = x
         /\ x.ht0.size # 0 => Prepared(x).ht0 = x.ht0
<1>1. Prepared(x) = ExpandIfNeeded(x)
  BY DEF Prepared, Rehash1Step
<1> QED BY <1>1, ResizePins DEF ExpandIfNeeded

LEMMA LinkPins ==
  ASSUME NEW x, NEW e
  PROVE  /\ Link(x, e).ht0.size = x.ht0.size /\ Link(x, e).ht1.size = x.ht1.size
         /\ Unlinked(x, e).ht0.size = x.ht0.size /\ Unlinked(x, e).ht1.size = x.ht1.size
         /\ Link(x, e).rehash_idx = x.rehash_idx /\ Unlinked(x, e).rehash_idx = x.rehash_idx
BY DictFields DEF Link, Unlinked, WithEntry, WithoutEntry

LEMMA SetValPins ==
  ASSUME NEW x, NEW e, NEW val
  PROVE  /\ SetVal(x, e, val).ht0.size = x.ht0.size
         /\ SetVal(x, e, val).ht1.size = x.ht1.size
         /\ SetVal(x, e, val).rehash_idx = x.rehash_idx
BY DictFields DEF SetVal, Revalued

LEMMA CallPins ==
  ASSUME Consistent(d), Consistent(d'), InPlace(d, d'), d.num_safe_iterators > 0, DictCall
  PROVE  Pinned(d, d')
<1>1. d.num_safe_iterators # 0 /\ d.ht0.size \in Nat
  BY ConsistentFacts
<1>2. /\ d.ht0.size > 0 => d'.ht0.size = d.ht0.size
      /\ Rehashing(d) => Rehashing(d') /\ d'.ht1.size = d.ht1.size
  <2>1. ASSUME NEW key \in Keys, NEW val \in Vals, Add(key, val) \/ AddOrReplace(key, val)
        PROVE  /\ d.ht0.size > 0 => d'.ht0.size = d.ht0.size
               /\ Rehashing(d) => Rehashing(d') /\ d'.ht1.size = d.ht1.size
    <3>1. \/ d' = Prepared(d)
          \/ \E e : d' = Link(Prepared(d), e)
          \/ \E e : d' = SetVal(Prepared(d), e, val)
      BY <2>1 DEF Add, AddOrReplace
    <3> QED BY <3>1, <1>1, PreparedPins, LinkPins, SetValPins DEF Rehashing
  <2>2. ASSUME NEW key \in Keys, Find(key) \/ FetchValue(key) \/ Delete(key) \/ Unlink(key)
        PROVE  /\ d.ht0.size > 0 => d'.ht0.size = d.ht0.size
               /\ Rehashing(d) => Rehashing(d') /\ d'.ht1.size = d.ht1.size
    <3>1. Visited(d) = d
      BY <1>1 DEF Visited, Rehash1Step
    <3>2. d' = d \/ \E e : d' = Unlinked(d, e)
      BY <2>2, <3>1 DEF Find, FetchValue, Delete, Unlink, GenericDelete
    <3> QED BY <3>2, LinkPins DEF Rehashing
  <2>3. ASSUME NEW n \in ResizeArgs, Resize(n)
        PROVE  /\ d.ht0.size > 0 => d'.ht0.size = d.ht0.size
               /\ Rehashing(d) => Rehashing(d') /\ d'.ht1.size = d.ht1.size
    BY <2>3, <1>1, ResizePins DEF Resize
  <2>4. ASSUME NEW on, SetCanResize(on)
        PROVE  d' = d
    BY <2>4 DEF SetCanResize
  <2> QED BY <2>1, <2>2, <2>3, <2>4 DEF DictCall, Lookup, Update
<1>3. ASSUME NEW key \in Bound(d), key \in Bound(d')
      PROVE  key \in KeysOf(d.ht0) <=> key \in KeysOf(d'.ht0)
  <2>1. \A e \in Present(d), f \in Present(d') :
          e.key = f.key => (e \in Entries(d.ht0) <=> f \in Entries(d'.ht0))
    BY DEF InPlace
  <2>2. (\E e \in Present(d) : e.key = key) /\ (\E f \in Present(d') : f.key = key)
    BY <1>3 DEF Bound, KeysIn
  <2>3. key \in KeysOf(d.ht0) <=> \E e \in Present(d) : e \in Entries(d.ht0) /\ e.key = key
    BY DEF KeysOf, KeysIn, Present
  <2>4. key \in KeysOf(d'.ht0) <=> \E f \in Present(d') : f \in Entries(d'.ht0) /\ f.key = key
    BY DEF KeysOf, KeysIn, Present
  <2> QED BY <2>1, <2>2, <2>3, <2>4
<1> QED BY <1>2, <1>3 DEF Pinned

(* dict_next and dict_free_iterator touch no table.                        *)
LEMMA SameTables ==
  ASSUME NEW x, NEW y, y.ht0 = x.ht0, y.ht1 = x.ht1, y.rehash_idx = x.rehash_idx,
         NEW it, NEW keys, NEW seen
  PROVE  /\ Bound(y) = Bound(x)
         /\ \A t : TableOf(y, t) = TableOf(x, t)
         /\ Positioned(it, y) <=> Positioned(it, x)
         /\ Tallied(it, keys, seen, y) <=> Tallied(it, keys, seen, x)
<1>1. Bound(y) = Bound(x)
  BY DEF Bound, Present
<1>2. \A t : TableOf(y, t) = TableOf(x, t)
  BY DEF TableOf
<1>3. Positioned(it, y) <=> Positioned(it, x)
  BY <1>2 DEF Positioned, Rehashing
<1>4. Ahead(it, y) = Ahead(it, x)
  BY <1>2 DEF Ahead
<1> QED BY <1>1, <1>2, <1>3, <1>4 DEF Tallied

(* An iterator that is not used any more is at no entry of any table.      *)
LEMMA AwayOk ==
  ASSUME NEW x, Consistent(x), NEW it, NEW keys, NEW seen,
         it.state \in {"fresh", "misused", "freed", "aborted"},
         it.table = 0, it.index = -1, it.entry = NULL, it.rest = {},
         keys = {}, seen = [key \in Keys |-> 0]
  PROVE  Positioned(it, x) /\ Tallied(it, keys, seen, x)
<1>1. x.ht0.size \in Nat
  BY ConsistentFacts
<1>2. Positioned(it, x)
  BY <1>1 DEF Positioned, TableOf, Held
<1>3. Tallied(it, keys, seen, x)
  BY DEF Tallied, Underway
<1> QED BY <1>2, <1>3

(* A call on the dict leaves an iterator at its place, and what is bound   *)
(* throughout stays on the side of the iterator where it is.               *)
LEMMA SideKept ==
  ASSUME NEW x, NEW y, Consistent(x), Consistent(y), Pinned(x, y),
         NEW it, NEW new, Positioned(it, x), Underway(it),
         new.state = it.state, new.table = it.table, new.index = it.index,
         new.entry = it.entry, it.entry \notin Bound(x) \ Bound(y),
         new.rest = it.rest \ (Bound(x) \ Bound(y))
  PROVE  /\ new.state = "active" =>
              /\ new.index \in 0..(TableOf(y, new.table).size - 1)
              /\ Held(new) \subseteq KeysAt(TableOf(y, new.table), new.index)
         /\ \A key \in Bound(x) \cap Bound(y) : key \in Ahead(new, y) <=> key \in Ahead(it, x)
         /\ Ahead(new, y) \subseteq Bound(y)
<1> DEFINE t == it.table
           T == TableOf(x, t)
           U == TableOf(y, t)
<1>1. CASE it.state = "done"
  BY <1>1 DEF Ahead
<1>2. CASE it.state = "active"
  <2>1. /\ t \in 0..1 /\ (t = 1 => Rehashing(x)) /\ it.index \in 0..(T.size - 1)
        /\ Held(it) \subseteq KeysAt(T, it.index)
    BY <1>2 DEF Positioned
  <2>2. T.size \in Nat /\ U.size \in Nat
    BY KeyFacts DEF TableOf
  <2>3. U.size = T.size
    BY <2>1, <2>2 DEF TableOf, Pinned
  <2>4. \A key : SlotOf(U, key) = SlotOf(T, key)
    BY <2>3 DEF SlotOf
  <2>5. /\ KeysOf(x.ht0) \cap KeysOf(x.ht1) = {} /\ Bound(x) = KeysOf(x.ht0) \cup KeysOf(x.ht1)
        /\ KeysOf(y.ht0) \cap KeysOf(y.ht1) = {} /\ Bound(y) = KeysOf(y.ht0) \cup KeysOf(y.ht1)
    BY KeyFacts
  <2>6. \A key \in Bound(x) \cap Bound(y) :
          /\ key \in KeysOf(x.ht0) <=> key \in KeysOf(y.ht0)
          /\ key \in KeysOf(x.ht1) <=> key \in KeysOf(y.ht1)
    BY <2>5 DEF Pinned
  <2>7. \A key \in Bound(x) \cap Bound(y) : key \in KeysOf(T) <=> key \in KeysOf(U)
    BY <2>6 DEF TableOf
  <2>8. KeysOf(T) \subseteq Bound(x) /\ KeysOf(U) \subseteq Bound(y)
    BY <2>5 DEF TableOf
  <2>9. Held(it) \subseteq Bound(x)
    BY <2>1, <2>8 DEF KeysAt
  <2>10. Held(new) = Held(it) \cap Bound(y)
    BY <2>9 DEF Held
  <2> HIDE DEF T, U, t
  <2>11. Held(new) \subseteq KeysAt(U, it.index)
    BY <2>1, <2>4, <2>7, <2>9, <2>10 DEF KeysAt
  <2>12. \A key \in Bound(x) \cap Bound(y) :
           key \in KeysBeyond(T, it.index) <=> key \in KeysBeyond(U, it.index)
    BY <2>4, <2>7 DEF KeysBeyond
  <2>13. Ahead(it, x) = Held(it) \cup KeysBeyond(T, it.index)
                          \cup (IF t = 0 THEN KeysOf(x.ht1) ELSE {})
    BY <1>2 DEF Ahead, T, t
  <2>14. Ahead(new, y) = Held(new) \cup KeysBeyond(U, it.index)
                           \cup (IF t = 0 THEN KeysOf(y.ht1) ELSE {})
    BY <1>2 DEF Ahead, U, t
  <2>15. \A key \in Bound(x) \cap Bound(y) : key \in Ahead(new, y) <=> key \in Ahead(it, x)
    BY <2>6, <2>10, <2>12, <2>13, <2>14
  <2>16. KeysBeyond(U, it.index) \subseteq KeysOf(U)
    BY DEF KeysBeyond
  <2>17. Ahead(new, y) \subseteq Bound(y)
    BY <2>5, <2>8, <2>10, <2>14, <2>16
  <2>18. new.index \in 0..(U.size - 1) /\ TableOf(y, new.table) = U
    BY <2>1, <2>3 DEF U, t
  <2> QED BY <2>11, <2>15, <2>17, <2>18
<1> QED BY <1>1, <1>2 DEF Underway

LEMMA FollowOk ==
  ASSUME NEW x, NEW y, Consistent(x), Consistent(y), Pinned(x, y),
         NEW it, NEW new, NEW keys, NEW seen, NEW newkeys, NEW newseen,
         Positioned(it, x), Tallied(it, keys, seen, x),
         new.table = it.table, new.index = it.index,
         \/ /\ new.state = it.state /\ it.entry \notin Bound(x) \ Bound(y)
            /\ new.entry = it.entry /\ new.rest = it.rest \ (Bound(x) \ Bound(y))
         \/ new.state = "dangling" /\ new.entry = NULL /\ new.rest = {},
         newkeys = IF Underway(new) THEN keys \cap Bound(y) ELSE {},
         newseen = [key \in Keys |-> IF Underway(new) /\ key \in Bound(y) THEN seen[key] ELSE 0]
  PROVE  Positioned(new, y) /\ Tallied(new, newkeys, newseen, y)
<1>1. /\ it.table = 1 => Rehashing(y)
      /\ it.index \in -1..TableOf(y, it.table).size
  <2>1. /\ it.table \in 0..1 /\ (it.table = 1 => Rehashing(x))
        /\ it.index \in -1..TableOf(x, it.table).size
    BY DEF Positioned
  <2>2. x.ht0.size \in Nat /\ x.ht1.size \in Nat /\ y.ht0.size \in Nat /\ y.ht1.size \in Nat
    BY KeyFacts
  <2>3. TableOf(x, it.table).size <= TableOf(y, it.table).size
    BY <2>1, <2>2 DEF Pinned, TableOf
  <2>4. TableOf(x, it.table).size \in Nat /\ TableOf(y, it.table).size \in Nat
    BY <2>2 DEF TableOf
  <2> QED BY <2>1, <2>3, <2>4 DEF Pinned
<1>2. new.state = "active" =>
        /\ new.index \in 0..(TableOf(y, new.table).size - 1)
        /\ Held(new) \subseteq KeysAt(TableOf(y, new.table), new.index)
  BY SideKept DEF Underway
<1>3. Positioned(new, y)
  BY <1>1, <1>2 DEF Positioned
<1>4. Bound(x) \subseteq Keys /\ Bound(y) \subseteq Keys
  BY KeyFacts
<1>5. CASE ~Underway(new)
  BY <1>3, <1>5 DEF Tallied
<1>6. CASE Underway(new)
  <2>1. /\ Underway(it)
        /\ \A key \in Bound(x) \cap Bound(y) : key \in Ahead(new, y) <=> key \in Ahead(it, x)
        /\ Ahead(new, y) \subseteq Bound(y)
    BY <1>6, SideKept DEF Underway
  <2>2. /\ newkeys = keys \cap Bound(y)
        /\ newseen = [key \in Keys |-> IF key \in Bound(y) THEN seen[key] ELSE 0]
    BY <1>6
  <2>3. seen \in [Keys -> {0, 1}] /\ keys \subseteq Bound(x)
    BY DEF Tallied
  <2>4. newseen \in [Keys -> {0, 1}] /\ newkeys \subseteq Bound(y)
        /\ \A key \in Keys \ Bound(y) : newseen[key] = 0
    BY <2>2, <2>3
  <2>5. ASSUME NEW key \in Keys, key \in Ahead(new, y) PROVE newseen[key] = 0
    <3>1. key \in Bound(y) /\ newseen[key] = seen[key]
      BY <2>1, <2>2, <2>5
    <3>2. CASE key \in Bound(x)
      <4>1. key \in Ahead(it, x)
        BY <2>1, <2>5, <3>1, <3>2
      <4> QED BY <4>1, <3>1, <2>1 DEF Tallied
    <3>3. CASE key \notin Bound(x)
      BY <3>1, <3>3 DEF Tallied
    <3> QED BY <3>2, <3>3
  <2>6. ASSUME NEW key \in newkeys, key \notin Ahead(new, y) PROVE newseen[key] = 1
    <3>1. key \in keys /\ key \in Bound(x) \cap Bound(y) /\ key \in Keys
      BY <2>2, <2>3, <1>4
    <3>2. key \notin Ahead(it, x)
      BY <2>1, <2>6, <3>1
    <3>3. seen[key] = 1
      BY <3>1, <3>2 DEF Tallied
    <3> QED BY <2>2, <3>1, <3>3
  <2>7. Tallied(new, newkeys, newseen, y)
    BY <1>6, <2>4, <2>5, <2>6 DEF Tallied
  <2> QED BY <1>3, <2>7
<1> QED BY <1>5, <1>6

(* The scan of dict_next for the next non-empty slot passes no key.        *)
LEMMA BeyondOk ==
  ASSUME NEW x, Consistent(x), NEW t \in 0..1, NEW index \in Int, -1 <= index
  PROVE  LET ht == TableOf(x, t)
             S == SlotsAhead(x, t, index)
         IN  /\ S = {} => KeysBeyond(ht, index) = {}
             /\ S # {} => /\ Min(S) \in 0..(ht.size - 1)
                          /\ KeysBeyond(ht, index) = KeysAt(ht, Min(S)) \cup KeysBeyond(ht, Min(S))
             /\ index = -1 => KeysBeyond(ht, index) = KeysOf(ht)
<1> DEFINE ht == TableOf(x, t)
           S == SlotsAhead(x, t, index)
<1>1. IsHt(ht) /\ Placed(ht) /\ ht.size \in Nat
      /\ \A key \in KeysOf(ht) : SlotOf(ht, key) \in 0..(ht.size - 1)
  BY ConsistentFacts, KeyFacts DEF TableOf
<1>2. S = {i \in (index + 1)..(ht.size - 1) : ht.table[i] # {}}
  BY DEF SlotsAhead
<1> HIDE DEF ht, S
<1>3. ASSUME NEW key \in KeysOf(ht), SlotOf(ht, key) > index PROVE SlotOf(ht, key) \in S
  <2>1. SlotOf(ht, key) \in 0..(ht.size - 1) /\ key \in KeysAt(ht, SlotOf(ht, key))
    BY <1>1 DEF KeysAt
  <2>2. ht.table[SlotOf(ht, key)] # {}
    BY <2>1, <1>1, ChainIsKeysAt
  <2>3. SlotOf(ht, key) \in (index + 1)..(ht.size - 1)
    BY <2>1, <1>1, <1>3
  <2> QED BY <2>2, <2>3, <1>2
<1>4. S = {} => KeysBeyond(ht, index) = {}
  BY <1>3 DEF KeysBeyond
<1>5. ASSUME S # {}
      PROVE  /\ Min(S) \in 0..(ht.size - 1)
             /\ KeysBeyond(ht, index) = KeysAt(ht, Min(S)) \cup KeysBeyond(ht, Min(S))
  <2>1. S \subseteq Nat /\ \A s \in S : s > index /\ s <= ht.size - 1
    BY <1>1, <1>2
  <2>2. Min(S) \in S /\ \A s \in S : Min(S) <= s
    BY <1>5, <2>1, MinInSet
  <2> DEFINE m == Min(S)
  <2>3. m \in Nat /\ m > index /\ m <= ht.size - 1
    BY <2>1, <2>2
  <2>4. \A key \in KeysOf(ht) : SlotOf(ht, key) > index => SlotOf(ht, key) >= m
    BY <1>3, <2>2
  <2> HIDE DEF m
  <2>5. KeysBeyond(ht, index) = KeysAt(ht, m) \cup KeysBeyond(ht, m)
    BY <1>1, <2>3, <2>4 DEF KeysBeyond, KeysAt
  <2> QED BY <1>1, <2>3, <2>5 DEF m
<1>6. index = -1 => KeysBeyond(ht, index) = KeysOf(ht)
  BY <1>1 DEF KeysBeyond
<1> QED BY <1>4, <1>5, <1>6 DEF ht, S

LEMMA ReadAheadOk ==
  ASSUME NEW chain, chain \subseteq Keys, NEW ahead \in ReadAhead(chain)
  PROVE  /\ ahead[1] \in Keys \cup {NULL} /\ ahead[2] \subseteq Keys \ {ahead[1]}
         /\ ahead[1] = NULL => ahead[2] = {}
         /\ ahead[2] \cup ({ahead[1]} \ {NULL}) = chain
<1>1. NULL \notin Keys
  BY IteratorsAssumption
<1>2. CASE chain = {}
  BY <1>2 DEF ReadAhead
<1>3. CASE chain # {}
  <2>1. PICK key \in chain : ahead = <<key, chain \ {key}>>
    BY <1>3 DEF ReadAhead
  <2> QED BY <2>1, <1>1
<1> QED BY <1>2, <1>3

(* What an iterator about to move has returned, in terms of what is ahead  *)
(* of it; and what it has returned once it has returned the next entry.    *)
About(keys, seen, ahead, x) ==
  /\ keys \subseteq Bound(x) /\ ahead \subseteq Bound(x)
  /\ seen \in [Keys -> {0, 1}]
  /\ \A key \in Keys \ Bound(x) : seen[key] = 0
  /\ \A key \in ahead : seen[key] = 0
  /\ \A key \in keys : key \notin ahead => seen[key] = 1

LEMMA ReturnedOk ==
  ASSUME NEW x, NEW keys, NEW seen, NEW ahead, About(keys, seen, ahead, x), Bound(x) \subseteq Keys,
         NEW new, Underway(new), NEW key \in ahead, Ahead(new, x) = ahead \ {key}
  PROVE  Tallied(new, keys, [seen EXCEPT ![key] = @ + 1], x)
<1> DEFINE s == [seen EXCEPT ![key] = @ + 1]
<1>1. key \in Keys /\ key \in Bound(x) /\ seen[key] = 0 /\ seen \in [Keys -> {0, 1}]
  BY DEF About
<1>2. s \in [Keys -> {0, 1}] /\ s[key] = 1 /\ \A k \in Keys \ {key} : s[k] = seen[k]
  BY <1>1
<1> HIDE DEF s
<1>3. /\ \A k \in Keys \ Bound(x) : s[k] = 0
      /\ \A k \in Keys : k \in Ahead(new, x) => s[k] = 0
      /\ \A k \in keys : k \notin Ahead(new, x) => s[k] = 1
  BY <1>1, <1>2 DEF About
<1>4. Tallied(new, keys, s, x)
  BY <1>2, <1>3 DEF Tallied, About
<1> QED BY <1>4 DEF s

(* The first dict_next finds everything ahead of it.                       *)
LEMMA AboutOk ==
  ASSUME NEW x, Consistent(x), NEW it, NEW keys, NEW seen, NEW newkeys,
         Positioned(it, x), Tallied(it, keys, seen, x), it.state \in {"fresh", "active"},
         newkeys = IF it.state = "fresh" THEN Bound(x) ELSE keys
  PROVE  About(newkeys, seen, Ahead(it, x), x)
<1>1. /\ Bound(x) = KeysOf(x.ht0) \cup KeysOf(x.ht1) /\ Bound(x) \subseteq Keys
  BY KeyFacts
<1>2. CASE it.state = "active"
  <2>1. Held(it) \subseteq KeysOf(TableOf(x, it.table)) /\ it.table \in 0..1
    BY <1>2 DEF Positioned, KeysAt
  <2>2. Ahead(it, x) \subseteq Bound(x)
    BY <2>1, <1>1 DEF Ahead, KeysBeyond, TableOf
  <2> QED BY <2>2, <1>1, <1>2 DEF Tallied, About, Underway
<1>3. CASE it.state = "fresh"
  <2>1. it.table = 0 /\ it.index = -1 /\ it.entry = NULL /\ it.rest = {}
    BY <1>3 DEF Positioned
  <2>2. KeysBeyond(TableOf(x, 0), -1) = KeysOf(x.ht0)
    BY BeyondOk DEF TableOf
  <2>3. Ahead(it, x) = Bound(x)
    BY <2>1, <2>2, <1>1, <1>3 DEF Ahead, Held
  <2> QED BY <2>3, <1>1, <1>3 DEF Tallied, About, Underway
<1> QED BY <1>2, <1>3

(* dict_next, within a chain.                                              *)
LEMMA InChainOk ==
  ASSUME NEW x, Consistent(x), NEW it, Positioned(it, x), it.state = "active", it.entry # NULL,
         NEW ahead \in ReadAhead(it.rest), NEW new,
         new.state = "active", new.table = it.table, new.index = it.index,
         new.entry = ahead[1], new.rest = ahead[2]
  PROVE  /\ Positioned(new, x) /\ it.entry \in Ahead(it, x)
         /\ Ahead(new, x) = Ahead(it, x) \ {it.entry}
<1> DEFINE T == TableOf(x, it.table)
<1>1. /\ it.table \in 0..1 /\ it.rest \subseteq Keys \ {it.entry} /\ it.index \in 0..(T.size - 1)
      /\ Held(it) \subseteq KeysAt(T, it.index) /\ it.entry \in Keys
  BY DEF Positioned
<1>2. Held(new) = it.rest /\ Held(it) = it.rest \cup {it.entry}
  BY <1>1, ReadAheadOk DEF Held
<1>3. Positioned(new, x)
  BY <1>1, <1>2, ReadAheadOk DEF Positioned
<1>4. it.entry \in KeysAt(T, it.index)
  BY <1>1, <1>2
<1>5. it.entry \notin KeysBeyond(T, it.index)
  BY <1>1, <1>4 DEF KeysBeyond, KeysAt
<1>6. it.table = 0 => it.entry \notin KeysOf(x.ht1)
  BY <1>4, KeyFacts DEF KeysAt, TableOf
<1>7. Ahead(it, x) = Held(it) \cup KeysBeyond(T, it.index)
                       \cup (IF it.table = 0 THEN KeysOf(x.ht1) ELSE {})
  BY DEF Ahead
<1>8. Ahead(new, x) = Held(new) \cup KeysBeyond(T, it.index)
                        \cup (IF it.table = 0 THEN KeysOf(x.ht1) ELSE {})
  BY DEF Ahead
<1>9. Ahead(new, x) = Ahead(it, x) \ {it.entry}
  BY <1>1, <1>2, <1>5, <1>6, <1>7, <1>8
<1> QED BY <1>2, <1>3, <1>7, <1>9

(* dict_next, from one slot to the next, and from one table to the other.  *)
LEMMA ToSlotOk ==
  ASSUME NEW x, Consistent(x), NEW it, Positioned(it, x), it.state \in {"fresh", "active"},
         it.entry = NULL,
         NEW t, NEW m, <<t, m>> \in Positions(x, it.table, it.index),
         NEW key, key \in KeysIn(TableOf(x, t).table[m]),
         NEW ahead, ahead \in ReadAhead(KeysIn(TableOf(x, t).table[m]) \ {key}), NEW new,
         new.state = "active", new.table = t, new.index = m,
         new.entry = ahead[1], new.rest = ahead[2]
  PROVE  /\ Positioned(new, x) /\ key \in Ahead(it, x)
         /\ Ahead(new, x) = Ahead(it, x) \ {key}
<1> DEFINE T == TableOf(x, it.table)
           U == TableOf(x, t)
           second == IF t = 0 THEN KeysOf(x.ht1) ELSE {}
<1>1. /\ it.table \in 0..1 /\ it.index \in Int /\ -1 <= it.index /\ it.rest = {}
      /\ it.table = 1 => Rehashing(x)
  <2>1. TableOf(x, it.table).size \in Int
    BY KeyFacts DEF TableOf
  <2> QED BY <2>1 DEF Positioned
<1>2. /\ KeysOf(x.ht0) \cap KeysOf(x.ht1) = {} /\ Bound(x) \subseteq Keys
      /\ Bound(x) = KeysOf(x.ht0) \cup KeysOf(x.ht1)
  BY KeyFacts
<1>3. Ahead(it, x) = KeysBeyond(T, it.index) \cup (IF it.table = 0 THEN KeysOf(x.ht1) ELSE {})
  BY <1>1 DEF Ahead, Held
<1>4. /\ t \in 0..1 /\ (t = 1 => Rehashing(x)) /\ m \in 0..(U.size - 1)
      /\ Ahead(it, x) = KeysAt(U, m) \cup KeysBeyond(U, m) \cup second
  <2>1. CASE SlotsAhead(x, it.table, it.index) # {}
    <3>1. t = it.table /\ m = Min(SlotsAhead(x, it.table, it.index))
      BY <2>1 DEF Positions
    <3>2. /\ m \in 0..(T.size - 1)
          /\ KeysBeyond(T, it.index) = KeysAt(T, m) \cup KeysBeyond(T, m)
      BY <1>1, <2>1, <3>1, BeyondOk
    <3> QED BY <1>1, <1>3, <3>1, <3>2
  <2>2. CASE SlotsAhead(x, it.table, it.index) = {}
    <3>1. /\ it.table = 0 /\ Rehashing(x) /\ SlotsAhead(x, 1, -1) # {}
          /\ t = 1 /\ m = Min(SlotsAhead(x, 1, -1))
      BY <2>2 DEF Positions
    <3>2. KeysBeyond(T, it.index) = {}
      BY <1>1, <2>2, BeyondOk
    <3>3. /\ m \in 0..(U.size - 1) /\ KeysBeyond(U, -1) = KeysOf(U)
          /\ KeysBeyond(U, -1) = KeysAt(U, m) \cup KeysBeyond(U, m)
      BY <3>1, BeyondOk
    <3>4. U = x.ht1
      BY <3>1 DEF TableOf
    <3> QED BY <1>3, <3>1, <3>2, <3>3, <3>4
  <2> QED BY <2>1, <2>2
<1>5. IsHt(U) /\ Placed(U) /\ U.size \in Nat
  BY <1>4, ConsistentFacts DEF TableOf
<1>6. KeysIn(U.table[m]) = KeysAt(U, m)
  BY <1>4, <1>5, ChainIsKeysAt
<1>7. KeysAt(U, m) \subseteq KeysOf(U) /\ KeysOf(U) \subseteq Keys
  BY <1>2, <1>4 DEF TableOf, KeysAt
<1> HIDE DEF T
<1>8. Held(new) = KeysAt(U, m) \ {key}
  BY <1>6, <1>7, ReadAheadOk DEF Held
<1>9. Positioned(new, x)
  <2>1. new.entry \in Keys \cup {NULL} /\ new.rest \subseteq Keys \ {new.entry}
        /\ (new.entry = NULL => new.rest = {})
    BY <1>6, <1>7, ReadAheadOk
  <2>2. m \in -1..U.size
    BY <1>4, <1>5
  <2> QED BY <2>1, <2>2, <1>4, <1>8 DEF Positioned
<1>10. key \in KeysAt(U, m) /\ key \notin KeysBeyond(U, m) /\ key \notin second
  <2>1. key \in KeysAt(U, m)
    BY <1>6
  <2>2. key \notin KeysBeyond(U, m)
    BY <2>1, <1>4 DEF KeysAt, KeysBeyond
  <2>3. t = 0 => U = x.ht0
    BY DEF TableOf
  <2> QED BY <2>1, <2>2, <2>3, <1>2, <1>7
<1>11. Ahead(new, x) = Held(new) \cup KeysBeyond(U, m) \cup second
  BY DEF Ahead
<1> QED BY <1>4, <1>8, <1>9, <1>10, <1>11

(* dict_next, off the end.                                                 *)
LEMMA ToEndOk ==
  ASSUME NEW x, Consistent(x), NEW it, Positioned(it, x), it.state \in {"fresh", "active"},
         it.entry = NULL, Positions(x, it.table, it.index) = {}, NEW new,
         new.state = "done", new.table = IF Rehashing(x) THEN 1 ELSE it.table,
         new.index = TableOf(x, new.table).size, new.entry = NULL, new.rest = {}
  PROVE  Positioned(new, x) /\ Ahead(it, x) = {} /\ Ahead(new, x) = {}
<1>1. /\ it.table \in 0..1 /\ it.index \in Int /\ -1 <= it.index /\ it.rest = {}
      /\ it.table = 1 => Rehashing(x)
  <2>1. TableOf(x, it.table).size \in Int
    BY KeyFacts DEF TableOf
  <2> QED BY <2>1 DEF Positioned
<1>2. SlotsAhead(x, it.table, it.index) = {}
      /\ (it.table = 0 /\ Rehashing(x) => SlotsAhead(x, 1, -1) = {})
  BY DEF Positions
<1>3. KeysBeyond(TableOf(x, it.table), it.index) = {}
  BY <1>1, <1>2, BeyondOk
<1>4. it.table = 0 => KeysOf(x.ht1) = {}
  <2>1. CASE Rehashing(x)
    <3>1. it.table = 0 => KeysBeyond(TableOf(x, 1), -1) = {} /\ KeysOf(TableOf(x, 1)) = {}
      BY <1>2, <2>1, BeyondOk
    <3> QED BY <3>1 DEF TableOf
  <2>2. CASE ~Rehashing(x)
    BY <2>2, KeyFacts
  <2> QED BY <2>1, <2>2
<1>5. Ahead(it, x) = {}
  BY <1>1, <1>3, <1>4 DEF Ahead, Held
<1>6. TableOf(x, new.table).size \in Nat
  BY KeyFacts DEF TableOf
<1>7. Positioned(new, x)
  BY <1>1, <1>6 DEF Positioned
<1> QED BY <1>5, <1>7 DEF Ahead

LEMMA CallTraversal ==
  ASSUME IterInv, TraversalInv, Consistent(d), Consistent(d'), InPlace(d, d'), DictCall
  PROVE  TraversalInv'
<1> DEFINE freed == Bound(d) \ Bound(d')
<1>1. /\ iter' = [i \in Iters |-> IF InUse(i) THEN Follow(iter[i], freed) ELSE iter[i]]
      /\ stable' = [i \in Iters |-> IF Traversing(i)' THEN stable[i] \cap Bound(d') ELSE {}]
      /\ visits' = [i \in Iters |-> [key \in Keys |->
                      IF Traversing(i)' /\ key \in Bound(d') THEN visits[i][key] ELSE 0]]
  <2>1. PICK bound \in {Bound(d')} :
          /\ \E gone \in {Bound(d) \ bound} :
               iter' = [i \in Iters |-> IF InUse(i) THEN Follow(iter[i], gone) ELSE iter[i]]
          /\ stable' = [i \in Iters |-> IF Traversing(i)' THEN stable[i] \cap bound ELSE {}]
          /\ visits' = [i \in Iters |-> [key \in Keys |->
                          IF Traversing(i)' /\ key \in bound THEN visits[i][key] ELSE 0]]
    BY Zenon DEF DictCall, Bound
  <2>2. bound = Bound(d')
    BY <2>1
  <2> QED BY <2>1, <2>2, Zenon
<1> HIDE DEF freed
<1>2. ASSUME NEW i \in Iters
      PROVE  Positioned(iter'[i], d') /\ Tallied(iter'[i], stable'[i], visits'[i], d')
  <2> DEFINE it == iter[i]
             new == iter'[i]
  <2>1. /\ stable'[i] = IF Underway(new) THEN stable[i] \cap Bound(d') ELSE {}
        /\ visits'[i] = [key \in Keys |->
                           IF Underway(new) /\ key \in Bound(d') THEN visits[i][key] ELSE 0]
    BY <1>1 DEF Traversing, Underway
  <2>2. Positioned(it, d) /\ Tallied(it, stable[i], visits[i], d)
    BY DEF TraversalInv
  <2>3. new = IF InUse(i) THEN Follow(it, freed) ELSE it
    BY <1>1
  <2> HIDE DEF new
  <2>4. CASE InUse(i) /\ ~it.safe /\ d' # d
    <3>1. new = Iterator(FALSE, "misused", 0, -1, NULL, {}, it.fingerprint)
      BY <2>3, <2>4 DEF Follow
    <3>2. /\ new.state = "misused" /\ new.table = 0 /\ new.index = -1
          /\ new.entry = NULL /\ new.rest = {}
      BY <3>1 DEF Iterator
    <3>3. stable'[i] = {} /\ visits'[i] = [key \in Keys |-> 0]
      BY <2>1, <3>2 DEF Underway
    <3> QED BY <3>2, <3>3, AwayOk DEF new
  <2>5. CASE InUse(i) /\ (it.safe \/ d' = d)
    <3>1. Pinned(d, d')
      <4>1. CASE it.safe
        BY <2>5, <4>1, PausedByOne, CallPins DEF Safe
      <4>2. CASE d' = d
        BY <4>2 DEF Pinned
      <4> QED BY <2>5, <4>1, <4>2
    <3>2. new = IF it.entry \in freed
                THEN Iterator(it.safe, "dangling", it.table, it.index, NULL, {}, it.fingerprint)
                ELSE Iterator(it.safe, it.state, it.table, it.index, it.entry, it.rest \ freed,
                              it.fingerprint)
      BY <2>3, <2>5 DEF Follow
    <3>3. /\ new.table = it.table /\ new.index = it.index
          /\ \/ /\ new.state = it.state /\ it.entry \notin freed
                /\ new.entry = it.entry /\ new.rest = it.rest \ freed
             \/ new.state = "dangling" /\ new.entry = NULL /\ new.rest = {}
      BY <3>2 DEF Iterator
    <3> DEFINE keys == stable[i]
               seen == visits[i]
               newkeys == stable'[i]
               newseen == visits'[i]
    <3>4. Positioned(new, d') /\ Tallied(new, newkeys, newseen, d')
      <4> HIDE DEF it, keys, seen, newkeys, newseen
      <4>1. Positioned(it, d) /\ Tallied(it, keys, seen, d)
        BY <2>2 DEF keys, seen
      <4>2. /\ newkeys = IF Underway(new) THEN keys \cap Bound(d') ELSE {}
            /\ newseen = [key \in Keys |->
                           IF Underway(new) /\ key \in Bound(d') THEN seen[key] ELSE 0]
        BY <2>1 DEF keys, seen, newkeys, newseen
      <4> QED BY <3>1, <3>3, <4>1, <4>2, FollowOk DEF freed
    <3> QED BY <3>4 DEF new
  <2>6. CASE ~InUse(i)
    <3>1. new = it /\ it.state \in {"fresh", "freed", "aborted"}
      BY <2>2, <2>3, <2>6 DEF InUse, Positioned
    <3>2. it.table = 0 /\ it.index = -1 /\ it.entry = NULL /\ it.rest = {}
      BY <2>2, <3>1 DEF Positioned
    <3>3. stable'[i] = {} /\ visits'[i] = [key \in Keys |-> 0]
      BY <2>1, <3>1 DEF Underway
    <3> HIDE DEF it
    <3> QED BY <3>1, <3>2, <3>3, AwayOk DEF new
  <2> QED BY <2>4, <2>5, <2>6 DEF Safe
<1> QED BY <1>1, <1>2 DEF TraversalInv

LEMMA NextTraversal ==
  ASSUME IterInv, TraversalInv, Consistent(d), NEW i \in Iters, DictNext(i)
  PROVE  TraversalInv'
<1> DEFINE it == iter[i]
           new == iter'[i]
<1>1. /\ it.state \in {"fresh", "active"}
      /\ Positioned(it, d) /\ Tallied(it, stable[i], visits[i], d)
  BY DEF DictNext, TraversalInv
<1>2. d'.ht0 = d.ht0 /\ d'.ht1 = d.ht1 /\ d'.rehash_idx = d.rehash_idx
  BY DictFields DEF DictNext, Register
<1>3. /\ DOMAIN stable' = Iters /\ (\A j \in Iters \ {i} : stable'[j] = stable[j])
      /\ stable'[i] = IF it.state = "fresh" THEN Bound(d) ELSE stable[i]
  <2>1. CASE it.state = "fresh"
    <3>1. stable' = [stable EXCEPT ![i] = Bound(d)]
      BY <2>1 DEF DictNext, Register, Bound
    <3> QED BY <2>1, <3>1 DEF TraversalInv
  <2>2. CASE it.state # "fresh"
    BY <2>2 DEF DictNext, Register, TraversalInv
  <2> QED BY <2>1, <2>2
<1>4. About(stable'[i], visits[i], Ahead(it, d), d)
  <2> DEFINE keys == stable[i]
             seen == visits[i]
             newkeys == stable'[i]
  <2>1. Tallied(it, keys, seen, d)
    BY <1>1
  <2>2. newkeys = IF it.state = "fresh" THEN Bound(d) ELSE keys
    BY <1>3
  <2> HIDE DEF it, keys, seen, newkeys
  <2>3. About(newkeys, seen, Ahead(it, d), d)
    BY <1>1, <2>1, <2>2, AboutOk
  <2> QED BY <2>3 DEF seen, newkeys
<1>5. Bound(d) \subseteq Keys
  BY KeyFacts
<1>6. /\ DOMAIN visits' = Iters
      /\ \A j \in Iters \ {i} : iter'[j] = iter[j] /\ visits'[j] = visits[j]
      /\ Positioned(new, d) /\ Tallied(new, stable'[i], visits'[i], d)
  <2>1. CASE NextInChain(i)
    <3>1. PICK ahead \in ReadAhead(it.rest) :
            iter' = [iter EXCEPT ![i] = Iterator(@.safe, "active", @.table, @.index,
                                                 ahead[1], ahead[2], FingerprintOf(i))]
      BY <2>1 DEF NextInChain
    <3>2. /\ it.entry # NULL
          /\ visits' = [visits EXCEPT ![i] = [visits[i] EXCEPT ![it.entry] = @ + 1]]
      BY <2>1 DEF NextInChain, Visit
    <3>3. it.state = "active"
      BY <1>1, <3>2 DEF Positioned
    <3>4. new = Iterator(it.safe, "active", it.table, it.index, ahead[1], ahead[2], FingerprintOf(i))
          /\ \A j \in Iters \ {i} : iter'[j] = iter[j]
      BY <3>1 DEF IterInv
    <3> HIDE DEF it, new
    <3>5. /\ new.state = "active" /\ new.table = it.table /\ new.index = it.index
          /\ new.entry = ahead[1] /\ new.rest = ahead[2]
      BY <3>4 DEF Iterator
    <3>6. /\ Positioned(new, d) /\ it.entry \in Ahead(it, d)
          /\ Ahead(new, d) = Ahead(it, d) \ {it.entry}
      BY <1>1, <3>1, <3>2, <3>3, <3>5, InChainOk
    <3>7. Tallied(new, stable'[i], [visits[i] EXCEPT ![it.entry] = @ + 1], d)
      BY <1>4, <1>5, <3>5, <3>6, ReturnedOk DEF Underway
    <3>8. DOMAIN visits' = Iters /\ visits'[i] = [visits[i] EXCEPT ![it.entry] = @ + 1]
          /\ \A j \in Iters \ {i} : visits'[j] = visits[j]
      BY <3>2 DEF TraversalInv
    <3> QED BY <3>4, <3>6, <3>7, <3>8
  <2>2. CASE NextSlot(i)
    <3>1. PICK position \in Positions(d, it.table, it.index) :
            \E key \in KeysIn(TableOf(d, position[1]).table[position[2]]) :
              \E ahead \in ReadAhead(KeysIn(TableOf(d, position[1]).table[position[2]]) \ {key}) :
                /\ Visit(i, key)
                /\ iter' = [iter EXCEPT ![i] = Iterator(@.safe, "active", position[1], position[2],
                                                        ahead[1], ahead[2], FingerprintOf(i))]
      BY <2>2 DEF NextSlot
    <3>2. PICK t, m : position = <<t, m>>
      BY DEF Positions
    <3>3. position[1] = t /\ position[2] = m
      BY <3>2
    <3> DEFINE chain == KeysIn(TableOf(d, t).table[m])
    <3>12. PICK key \in chain :
             \E ahead \in ReadAhead(chain \ {key}) :
               /\ Visit(i, key)
               /\ iter' = [iter EXCEPT ![i] = Iterator(@.safe, "active", t, m,
                                                       ahead[1], ahead[2], FingerprintOf(i))]
      BY <3>1, <3>3
    <3>4. PICK ahead \in ReadAhead(chain \ {key}) :
            /\ Visit(i, key)
            /\ iter' = [iter EXCEPT ![i] = Iterator(@.safe, "active", t, m,
                                                    ahead[1], ahead[2], FingerprintOf(i))]
      BY <3>12
    <3>5. new = Iterator(it.safe, "active", t, m, ahead[1], ahead[2], FingerprintOf(i))
          /\ \A j \in Iters \ {i} : iter'[j] = iter[j]
      BY <3>4 DEF IterInv
    <3>6. it.entry = NULL /\ visits' = [visits EXCEPT ![i] = [visits[i] EXCEPT ![key] = @ + 1]]
      BY <2>2, <3>4 DEF NextSlot, Visit
    <3> HIDE DEF it, new
    <3>7. /\ new.state = "active" /\ new.table = t /\ new.index = m
          /\ new.entry = ahead[1] /\ new.rest = ahead[2]
      BY <3>5 DEF Iterator
    <3>8. <<t, m>> \in Positions(d, it.table, it.index)
      BY <3>1, <3>2
    <3>9. /\ Positioned(new, d) /\ key \in Ahead(it, d)
          /\ Ahead(new, d) = Ahead(it, d) \ {key}
      <4>1. key \in KeysIn(TableOf(d, t).table[m])
            /\ ahead \in ReadAhead(KeysIn(TableOf(d, t).table[m]) \ {key})
        OBVIOUS
      <4> HIDE DEF chain
      <4>2. Positioned(it, d) /\ it.state \in {"fresh", "active"} /\ it.entry = NULL
        BY <1>1, <3>6
      <4> QED BY <4>1, <4>2, <3>7, <3>8, ToSlotOk
    <3>10. Tallied(new, stable'[i], [visits[i] EXCEPT ![key] = @ + 1], d)
      BY <1>4, <1>5, <3>7, <3>9, ReturnedOk DEF Underway
    <3>11. DOMAIN visits' = Iters /\ visits'[i] = [visits[i] EXCEPT ![key] = @ + 1]
           /\ \A j \in Iters \ {i} : visits'[j] = visits[j]
      BY <3>6 DEF TraversalInv
    <3> QED BY <3>5, <3>9, <3>10, <3>11
  <2>3. CASE NextEnd(i)
    <3> DEFINE t == IF Rehashing(d) THEN 1 ELSE it.table
    <3>1. /\ it.entry = NULL /\ Positions(d, it.table, it.index) = {} /\ visits' = visits
          /\ iter' = [iter EXCEPT ![i] = Iterator(@.safe, "done", t, TableOf(d, t).size, NULL, {},
                                                  FingerprintOf(i))]
      BY <2>3 DEF NextEnd
    <3>2. new = Iterator(it.safe, "done", t, TableOf(d, t).size, NULL, {}, FingerprintOf(i))
          /\ \A j \in Iters \ {i} : iter'[j] = iter[j]
      BY <3>1 DEF IterInv
    <3> HIDE DEF it, new
    <3>3. /\ new.state = "done" /\ new.table = t /\ new.index = TableOf(d, t).size
          /\ new.entry = NULL /\ new.rest = {}
      BY <3>2 DEF Iterator
    <3>4. Positioned(new, d) /\ Ahead(it, d) = {} /\ Ahead(new, d) = {}
      BY <1>1, <3>1, <3>3, ToEndOk
    <3>5. Tallied(new, stable'[i], visits[i], d)
      BY <1>4, <3>3, <3>4 DEF About, Tallied, Underway
    <3> QED BY <3>1, <3>2, <3>4, <3>5 DEF TraversalInv
  <2> QED BY <2>1, <2>2, <2>3 DEF DictNext
<1> HIDE DEF it, new
<1>7. ASSUME NEW j \in Iters
      PROVE  Positioned(iter'[j], d) /\ Tallied(iter'[j], stable'[j], visits'[j], d)
  <2>1. CASE j = i
    BY <1>6, <2>1 DEF new
  <2>2. CASE j # i
    BY <1>3, <1>6, <2>2 DEF TraversalInv
  <2> QED BY <2>1, <2>2
<1>8. \A j \in Iters : Positioned(iter'[j], d') /\ Tallied(iter'[j], stable'[j], visits'[j], d')
  BY <1>2, <1>7, SameTables
<1> QED BY <1>3, <1>6, <1>8 DEF TraversalInv

LEMMA FreeTraversal ==
  ASSUME IterInv, TraversalInv, Consistent(d), NEW i \in Iters, DictFreeIterator(i)
  PROVE  TraversalInv'
<1>1. PICK state \in {"aborted", "freed"} : iter' = [iter EXCEPT ![i] = Gone(state)]
  BY DEF DictFreeIterator
<1>2. /\ d'.ht0 = d.ht0 /\ d'.ht1 = d.ht1 /\ d'.rehash_idx = d.rehash_idx
      /\ visits' = [visits EXCEPT ![i] = [key \in Keys |-> 0]]
      /\ stable' = [stable EXCEPT ![i] = {}]
  BY DictFields DEF DictFreeIterator
<1>3. /\ DOMAIN visits' = Iters /\ DOMAIN stable' = Iters
      /\ iter'[i] = Gone(state) /\ visits'[i] = [key \in Keys |-> 0] /\ stable'[i] = {}
      /\ \A j \in Iters \ {i} : iter'[j] = iter[j] /\ visits'[j] = visits[j] /\ stable'[j] = stable[j]
  BY <1>1, <1>2 DEF IterInv, TraversalInv
<1>4. LET it == Gone(state)
      IN  /\ it.state = state /\ it.table = 0 /\ it.index = -1 /\ it.entry = NULL /\ it.rest = {}
  BY DEF Gone, Iterator
<1>5. Positioned(iter'[i], d) /\ Tallied(iter'[i], stable'[i], visits'[i], d)
  BY <1>3, <1>4, AwayOk
<1>6. \A j \in Iters : Positioned(iter'[j], d) /\ Tallied(iter'[j], stable'[j], visits'[j], d)
  BY <1>3, <1>5 DEF TraversalInv
<1>7. \A j \in Iters : Positioned(iter'[j], d') /\ Tallied(iter'[j], stable'[j], visits'[j], d')
  BY <1>2, <1>6, SameTables
<1> QED BY <1>3, <1>7 DEF TraversalInv

(* The inductive invariant of a dict that is iterated over.                *)
AllInv == IndInv /\ IterInv /\ TraversalInv

LEMMA AllInitOk == InitIter => AllInv
<1> SUFFICES ASSUME InitIter PROVE AllInv
  OBVIOUS
<1>1. IndInv /\ IterInv
  BY InitOk, IterInitOk DEF InitIter
<1>2. Consistent(d)
  BY <1>1 DEF IndInv, DictInv
<1>3. ASSUME NEW i \in Iters
      PROVE  Positioned(iter[i], d) /\ Tallied(iter[i], stable[i], visits[i], d)
  <2>1. PICK safe \in BOOLEAN : iter[i] = Fresh(safe)
    BY DEF InitIter
  <2>2. /\ iter[i].state = "fresh" /\ iter[i].table = 0 /\ iter[i].index = -1
        /\ iter[i].entry = NULL /\ iter[i].rest = {}
    BY <2>1 DEF Fresh, Iterator
  <2>3. stable[i] = {} /\ visits[i] = [key \in Keys |-> 0]
    BY DEF InitIter
  <2> QED BY <1>2, <2>2, <2>3, AwayOk
<1>4. DOMAIN visits = Iters /\ DOMAIN stable = Iters
  BY DEF InitIter
<1> QED BY <1>1, <1>3, <1>4 DEF AllInv, TraversalInv

LEMMA AllNextOk == ASSUME AllInv, [NextIter]_allVars PROVE AllInv'
<1>1. IterInv' /\ IndInv' /\ InPlace(d, d')
  BY IterNextOk, UseOk, NextOk DEF AllInv
<1>2. Consistent(d) /\ Consistent(d') /\ IterInv /\ TraversalInv
  BY <1>1 DEF AllInv, IndInv, DictInv
<1>3. CASE DictCall
  BY <1>1, <1>2, <1>3, CallTraversal DEF AllInv
<1>4. CASE \E i \in Iters : DictNext(i) \/ DictFreeIterator(i)
  BY <1>1, <1>2, <1>4, NextTraversal, FreeTraversal DEF AllInv
<1>5. CASE UNCHANGED allVars
  BY <1>1, <1>2, <1>5 DEF AllInv, allVars, vars, iterVars, TraversalInv
<1> QED BY <1>3, <1>4, <1>5 DEF NextIter

LEMMA AllInvariant == SpecIter => []AllInv
<1>1. InitIter => AllInv
  BY AllInitOk
<1>2. AllInv /\ [NextIter]_allVars => AllInv'
  BY AllNextOk
<1> QED BY <1>1, <1>2, PTL DEF SpecIter

-----------------------------------------------------------------------------
(* Rehashing is paused exactly while a safe iterator is between its first  *)
(* dict_next and its dict_free_iterator, however many there are            *)
(* (dict.c:448, 480).                                                      *)
THEOREM PausesAreCounted == SpecIter => []PausedWhileTraversed
<1>1. InitIter => IterInv
  BY IterInitOk
<1>2. IterInv /\ [NextIter]_allVars => IterInv'
  BY IterNextOk
<1>3. IterInv => PausedWhileTraversed
  BY DEF IterInv
<1> QED BY <1>1, <1>2, <1>3, PTL DEF SpecIter

(* The assertion of dict_free_iterator holds unless the dict was changed   *)
(* under the iterator (dict.c:392-413, 482-484).                           *)
THEOREM AlarmsAreTrue == SpecIter => NoFalseAlarm
<1>1. InitIter => IterInv
  BY IterInitOk
<1>2. IterInv /\ [NextIter]_allVars => IterInv'
  BY IterNextOk
<1>3. IterInv /\ [NextIter]_allVars =>
        [\A i \in Iters : iter'[i].state = "aborted" => iter[i].state = "misused"]_allVars
  BY IterNextOk
<1> QED BY <1>1, <1>2, <1>3, PTL DEF SpecIter, NoFalseAlarm

(* Every step of the iterators is one the dict allows, so that all that is *)
(* proved of a dict holds of one that is iterated over: dict_next and      *)
(* dict_free_iterator do nothing to it but pause and resume its rehashing  *)
(* (dict.c:437-488).                                                       *)
THEOREM IteratingIsUse == SpecIter => Spec
<1>1. InitIter => IterInv /\ Init
  BY IterInitOk DEF InitIter
<1>2. IterInv /\ [NextIter]_allVars => IterInv'
  BY IterNextOk
<1>3. IterInv /\ [NextIter]_allVars => [Next]_vars
  BY UseOk
<1> QED BY <1>1, <1>2, <1>3, PTL DEF SpecIter, Spec

(* Type correctness of the iterators: in particular no position lies       *)
(* outside its table, whatever resizes begin under it (dict.c:453-465).    *)
THEOREM PositionsInTables == SpecIter => []IterTypeOK
<1>1. AllInv => IterTypeOK
  <2> SUFFICES ASSUME AllInv PROVE IterTypeOK
    OBVIOUS
  <2>1. TypeOK
    BY DEF AllInv, IndInv, DictInv, Consistent, TypeOK
  <2>2. \A i \in Iters : Positioned(iter[i], d)
    BY DEF AllInv, TraversalInv
  <2> QED BY <2>1, <2>2 DEF IterTypeOK, Positioned
<1> QED BY <1>1, AllInvariant, PTL

(* What an iterator holds of a chain is in the chain, for any number of    *)
(* iterators over any dict (dict.c:437-474).                               *)
THEOREM HeldIsLive == SpecIter => []ReadAheadIsLive
<1>1. AllInv => ReadAheadIsLive
  <2> SUFFICES ASSUME AllInv, NEW i \in Iters, iter[i].state = "active"
               PROVE  (iter[i].rest \cup ({iter[i].entry} \ {NULL}))
                        \subseteq KeysIn(IF iter[i].index >= 0
                                         THEN TableOf(d, iter[i].table).table[iter[i].index]
                                         ELSE {})
    BY DEF ReadAheadIsLive
  <2> DEFINE ht == TableOf(d, iter[i].table)
             index == iter[i].index
  <2>1. /\ iter[i].table \in 0..1 /\ index \in 0..(ht.size - 1)
        /\ Held(iter[i]) \subseteq KeysAt(ht, index)
    BY DEF AllInv, TraversalInv, Positioned
  <2>2. IsHt(ht) /\ Placed(ht) /\ ht.size \in Nat
    BY <2>1, ConsistentFacts DEF AllInv, IndInv, DictInv, TableOf
  <2> HIDE DEF ht, index
  <2>3. KeysIn(ht.table[index]) = KeysAt(ht, index) /\ index >= 0
    BY <2>1, <2>2, ChainIsKeysAt
  <2> QED BY <2>1, <2>3 DEF Held, ht, index
<1> QED BY <1>1, AllInvariant, PTL

(* A traversal is complete and returns nothing twice: for every dict, any  *)
(* number of iterators and whatever is added, deleted or resized during a  *)
(* traversal by a safe one (dict.c:437-474).                               *)
THEOREM TraversalsAreComplete == SpecIter => []TraversalComplete
<1>1. AllInv => TraversalComplete
  <2> SUFFICES ASSUME AllInv, NEW i \in Iters
               PROVE  /\ \A key \in Keys : visits[i][key] <= 1
                      /\ iter[i].state = "done" => \A key \in stable[i] : visits[i][key] = 1
    BY DEF TraversalComplete
  <2>1. Tallied(iter[i], stable[i], visits[i], d)
    BY DEF AllInv, TraversalInv
  <2>2. visits[i] \in [Keys -> {0, 1}]
    BY <2>1 DEF Tallied
  <2>3. iter[i].state = "done" => Ahead(iter[i], d) = {}
    BY DEF Ahead
  <2> QED BY <2>1, <2>2, <2>3 DEF Tallied
<1> QED BY <1>1, AllInvariant, PTL
=============================================================================
