-------------------------------- MODULE Dict --------------------------------
(***************************************************************************)
(* The hash table of src/dict.c with incremental rehashing.                *)
(*                                                                         *)
(* A dict has two hash tables.  ht0 is the table in use; while the dict is *)
(* rehashing, ht1 is the table of the new size, and the slots of ht0 below *)
(* rehash_idx have been emptied into it.  Every lookup and update moves    *)
(* one slot, unless a safe iterator is open.  When ht0 has no key left,    *)
(* ht1 takes its place and rehashing ends.                                 *)
(*                                                                         *)
(* The dict is one record, d, and the C helpers are operators from a dict  *)
(* to the dict they leave behind, composed in the order of the calls.      *)
(*                                                                         *)
(* Abstracted: the chain of a slot is the SET of its entries (no operation *)
(* of the dict but iteration depends on the order of a chain, and within a *)
(* chain a key occurs at most once, which LookupComplete checks); a table  *)
(* is NULL exactly when its size is 0; malloc succeeds, as the code        *)
(* assumes; `hash & size_mask' is written Hash[key] % size, the same       *)
(* number for the power-of-two sizes the code allocates.                   *)
(***************************************************************************)
EXTENDS Integers, FiniteSets, FiniteSetsExt

CONSTANTS
  Keys, Vals, NULL,
  Hash,              \* Hash[key], what hash_func returns for key
  InitialSize,       \* DICT_HT_INITIAL_SIZE
  ForceResizeRatio,  \* dict_force_resize_ratio
  EmptyVisits,       \* the 10 of dict_rehash's n * 10
  TableSizes,        \* the values the doubling loop of _dict_next_power runs through
  ResizeArgs,        \* the arguments callers pass to dict_resize_to
  RehashArgs,        \* the arguments callers pass to dict_rehash
  MaxIterators       \* bound on safe iterators open at the same time

ASSUME KeysAssumption == /\ IsFiniteSet(Keys)
                         /\ NULL \notin Vals
                         /\ NULL \notin [key : Keys, val : Vals]
                         /\ Hash \in [Keys -> Nat]

ASSUME ParameterAssumption == /\ InitialSize \in Nat \ {0}
                              /\ ForceResizeRatio \in Nat
                              /\ EmptyVisits \in Nat \ {0}
                              /\ ResizeArgs \subseteq Nat
                              /\ RehashArgs \subseteq Nat
                              /\ MaxIterators \in Nat

(* The doubling starts at InitialSize, and its values are large enough for *)
(* every request (the code's wrap-around above 2^63 is out of bounds).     *)
ASSUME TableSizesAssumption ==
  /\ TableSizes \subseteq Nat \ {0}
  /\ InitialSize \in TableSizes
  /\ \A size \in TableSizes \ {InitialSize} : \E half \in TableSizes : size = 2 * half
  /\ \A n \in ResizeArgs \cup {2 * Cardinality(Keys)} : \E size \in TableSizes : n <= size

VARIABLES d,               \* the dict
          dict_can_resize, \* the global switch of dict_enable_resize/dict_disable_resize
          reply            \* the last answer, [op, key, ret]

vars == <<d, dict_can_resize, reply>>

-----------------------------------------------------------------------------
(* Hash tables. *)

EntryType == [key : Keys, val : Vals]

NewHt(size) == [size |-> size, table |-> [i \in 0..(size - 1) |-> {}], keys |-> 0]

NoHt == NewHt(0)

Entries(ht) == UNION {ht.table[i] : i \in 0..(ht.size - 1)}

SlotOf(ht, key) == Hash[key] % ht.size

InSlot(ht, key) == {e \in ht.table[SlotOf(ht, key)] : e.key = key}

WithEntry(ht, e) ==
  [size |-> ht.size,
   table |-> [ht.table EXCEPT ![SlotOf(ht, e.key)] = @ \cup {e}],
   keys |-> ht.keys + 1]

WithoutEntry(ht, e) ==
  [size |-> ht.size,
   table |-> [ht.table EXCEPT ![SlotOf(ht, e.key)] = @ \ {e}],
   keys |-> ht.keys - 1]

NextPower(n) == Min({size \in TableSizes : n <= size})

-----------------------------------------------------------------------------
(* The dict and its internal helpers. *)

DictOf(ht0, ht1, rehash_idx, num_safe_iterators) ==
  [ht0 |-> ht0, ht1 |-> ht1,
   rehash_idx |-> rehash_idx, num_safe_iterators |-> num_safe_iterators]

Created == DictOf(NoHt, NoHt, -1, 0)

Rehashing(dict) == dict.rehash_idx # -1

NumKeys(dict) == dict.ht0.keys + dict.ht1.keys

(* Mutant: the test for a rehash under way is missing.                     *)
ResizableAnytime(dict, n) == NextPower(n) # dict.ht0.size

(* dict_resize_to refuses while rehashing, and when the size would stay.   *)
Resizable(dict, n) == ~Rehashing(dict) /\ NextPower(n) # dict.ht0.size

ResizeTo(dict, n) ==
  LET ht == NewHt(NextPower(n))
  IN  IF ~Resizable(dict, n) THEN dict
      ELSE IF dict.ht0.size = 0
           THEN DictOf(ht, dict.ht1, dict.rehash_idx, dict.num_safe_iterators)
           ELSE DictOf(dict.ht0, ht, 0, dict.num_safe_iterators)

(* Where a call of dict_rehash leaves rehash_idx: it goes up slot by slot  *)
(* until n slots have been emptied, or no key is left in ht0, or           *)
(* n * EmptyVisits empty slots have been passed.                           *)
Moved(dict, stop) == UNION {dict.ht0.table[i] : i \in dict.rehash_idx..(stop - 1)}

EmptySlots(dict, stop) == {i \in dict.rehash_idx..(stop - 1) : dict.ht0.table[i] = {}}

RehashStops(dict, n) ==
  {stop \in dict.rehash_idx..dict.ht0.size :
     \/ Cardinality((dict.rehash_idx..(stop - 1)) \ EmptySlots(dict, stop)) = n
     \/ Cardinality(Moved(dict, stop)) = dict.ht0.keys
     \/ Cardinality(EmptySlots(dict, stop)) = n * EmptyVisits}

(* Mutant: ht[1].keys ++ is missing.                                       *)
ReceiveUncounted(ht, moved) ==
  [size |-> ht.size,
   table |-> [i \in 0..(ht.size - 1) |->
                ht.table[i] \cup {e \in moved : SlotOf(ht, e.key) = i}],
   keys |-> ht.keys]

(* The new table once the entries `moved' have been linked into it.        *)
Receive(ht, moved) ==
  [size |-> ht.size,
   table |-> [i \in 0..(ht.size - 1) |->
                ht.table[i] \cup {e \in moved : SlotOf(ht, e.key) = i}],
   keys |-> ht.keys + Cardinality(moved)]

(* Mutant: the emptied slot still points to its chain.                     *)
EmptiedKeepsChains(ht, from, stop) ==
  [size |-> ht.size,
   table |-> ht.table,
   keys |-> ht.keys - Cardinality(UNION {ht.table[i] : i \in from..(stop - 1)})]

(* Mutant: ht[0].keys -- is missing.                                       *)
EmptiedUncounted(ht, from, stop) ==
  [size |-> ht.size,
   table |-> [i \in 0..(ht.size - 1) |-> IF i \in from..(stop - 1) THEN {} ELSE ht.table[i]],
   keys |-> ht.keys]

(* The old table once its slots from..stop-1 have been emptied.            *)
Emptied(ht, from, stop) ==
  [size |-> ht.size,
   table |-> [i \in 0..(ht.size - 1) |-> IF i \in from..(stop - 1) THEN {} ELSE ht.table[i]],
   keys |-> ht.keys - Cardinality(UNION {ht.table[i] : i \in from..(stop - 1)})]

(* Mutant: the second table is not reset when the tables are swapped.      *)
RehashUpToNoReset(dict, stop) ==
  LET old == Emptied(dict.ht0, dict.rehash_idx, stop)
      new == Receive(dict.ht1, Moved(dict, stop))
  IN  IF old.keys = 0
      THEN DictOf(new, new, -1, dict.num_safe_iterators)
      ELSE DictOf(old, new, stop, dict.num_safe_iterators)

(* Mutant: the next call resumes one slot too far.                         *)
RehashUpToSkips(dict, stop) ==
  LET old == Emptied(dict.ht0, dict.rehash_idx, stop)
      new == Receive(dict.ht1, Moved(dict, stop))
  IN  IF old.keys = 0
      THEN DictOf(new, NoHt, -1, dict.num_safe_iterators)
      ELSE DictOf(old, new, stop + 1, dict.num_safe_iterators)

RehashUpTo(dict, stop) ==
  LET old == Emptied(dict.ht0, dict.rehash_idx, stop)
      new == Receive(dict.ht1, Moved(dict, stop))
  IN  IF old.keys = 0
      THEN DictOf(new, NoHt, -1, dict.num_safe_iterators)
      ELSE DictOf(old, new, stop, dict.num_safe_iterators)

Rehash(dict, n) ==
  IF Rehashing(dict) THEN RehashUpTo(dict, Min(RehashStops(dict, n))) ELSE dict

(* Mutant: open iterators are ignored.                                     *)
Rehash1StepUnguarded(dict) == Rehash(dict, 1)

Rehash1Step(dict) == IF dict.num_safe_iterators = 0 THEN Rehash(dict, 1) ELSE dict

(* Mutant: a full table is not expanded yet.                               *)
MustExpandLate(dict) ==
  /\ dict.ht0.keys > dict.ht0.size
  /\ dict_can_resize \/ dict.ht0.keys \div dict.ht0.size > ForceResizeRatio

MustExpand(dict) ==
  /\ dict.ht0.keys >= dict.ht0.size
  /\ dict_can_resize \/ dict.ht0.keys \div dict.ht0.size > ForceResizeRatio

ExpandIfNeeded(dict) ==
  IF Rehashing(dict) THEN dict
  ELSE IF dict.ht0.size = 0 THEN ResizeTo(dict, InitialSize)
  ELSE IF MustExpand(dict) THEN ResizeTo(dict, dict.ht0.keys * 2)
  ELSE dict

(* What the scan of dict_find, dict_accommodate_key and                    *)
(* dict_generic_delete meets: the slot of key in ht0, then, if the dict is *)
(* rehashing, its slot in ht1.                                             *)
InHt0(dict, key) == InSlot(dict.ht0, key) # {}

(* Mutant: only the first table is scanned.                                *)
ScanFirstTable(dict, key) == InSlot(dict.ht0, key)

Scan(dict, key) == IF InHt0(dict, key) \/ ~Rehashing(dict)
                   THEN InSlot(dict.ht0, key)
                   ELSE InSlot(dict.ht1, key)

Link(dict, e) ==
  IF Rehashing(dict)
  THEN DictOf(dict.ht0, WithEntry(dict.ht1, e), dict.rehash_idx, dict.num_safe_iterators)
  ELSE DictOf(WithEntry(dict.ht0, e), dict.ht1, dict.rehash_idx, dict.num_safe_iterators)

(* Mutant: the counter of the first table is decremented in either case.   *)
UnlinkedFirstCounter(dict, e) ==
  IF InHt0(dict, e.key)
  THEN DictOf(WithoutEntry(dict.ht0, e), dict.ht1, dict.rehash_idx, dict.num_safe_iterators)
  ELSE DictOf([WithoutEntry(dict.ht0, e) EXCEPT !.table = dict.ht0.table],
              [WithoutEntry(dict.ht1, e) EXCEPT !.keys = dict.ht1.keys],
              dict.rehash_idx, dict.num_safe_iterators)

Unlinked(dict, e) ==
  IF InHt0(dict, e.key)
  THEN DictOf(WithoutEntry(dict.ht0, e), dict.ht1, dict.rehash_idx, dict.num_safe_iterators)
  ELSE DictOf(dict.ht0, WithoutEntry(dict.ht1, e), dict.rehash_idx, dict.num_safe_iterators)

(* The entry keeps its place; only its value changes.                      *)
Revalued(ht, e, val) ==
  [size |-> ht.size,
   table |-> [ht.table EXCEPT ![SlotOf(ht, e.key)] = (@ \ {e}) \cup {[key |-> e.key, val |-> val]}],
   keys |-> ht.keys]

SetVal(dict, e, val) ==
  IF InHt0(dict, e.key)
  THEN DictOf(Revalued(dict.ht0, e, val), dict.ht1, dict.rehash_idx, dict.num_safe_iterators)
  ELSE DictOf(dict.ht0, Revalued(dict.ht1, e, val), dict.rehash_idx, dict.num_safe_iterators)

(* dict_accommodate_key rehashes a step and expands before it scans.       *)
Prepared(dict) == ExpandIfNeeded(Rehash1Step(dict))

(* Mutant: lookups do not rehash.                                          *)
VisitedOnly(dict) == dict

(* dict_find and dict_generic_delete return before anything on an empty    *)
(* dict, and otherwise rehash a step before they scan.                     *)
Visited(dict) == IF NumKeys(dict) = 0 THEN dict ELSE Rehash1Step(dict)

(* Mutant: the early return looks at the first table's counter alone.      *)
FoundFirstCounter(dict, key) == IF dict.ht0.keys = 0 THEN {} ELSE Scan(dict, key)

Found(dict, key) == IF NumKeys(dict) = 0 THEN {} ELSE Scan(dict, key)

-----------------------------------------------------------------------------
(* The operations. *)

Answer(op, key, ret) == [op |-> op, key |-> key, ret |-> ret]

Init == /\ d = Created
        /\ dict_can_resize = TRUE
        /\ reply = Answer("create", NULL, NULL)

(* dict_add_entry *)
Add(key, val) ==
  LET ready == Prepared(d)
  IN  /\ \/ /\ Scan(ready, key) # {}
            /\ d' = ready
            /\ reply' = Answer("add", key, "ERR")
         \/ /\ Scan(ready, key) = {}
            /\ d' = Link(ready, [key |-> key, val |-> val])
            /\ reply' = Answer("add", key, "OK")
      /\ UNCHANGED dict_can_resize

(* dict_add_or_replace_entry *)
AddOrReplace(key, val) ==
  LET ready == Prepared(d)
  IN  /\ \/ \E e \in Scan(ready, key) :
              /\ d' = SetVal(ready, e, val)
              /\ reply' = Answer("put", key, "REPLACED")
         \/ /\ Scan(ready, key) = {}
            /\ d' = Link(ready, [key |-> key, val |-> val])
            /\ reply' = Answer("put", key, "ADDED")
      /\ UNCHANGED dict_can_resize

(* dict_find *)
Find(key) ==
  LET ready == Visited(d)
  IN  /\ d' = ready
      /\ \/ \E e \in Found(ready, key) : reply' = Answer("find", key, e)
         \/ Found(ready, key) = {} /\ reply' = Answer("find", key, NULL)
      /\ UNCHANGED dict_can_resize

(* dict_fetch_value *)
FetchValue(key) ==
  LET ready == Visited(d)
  IN  /\ d' = ready
      /\ \/ \E e \in Found(ready, key) : reply' = Answer("fetch", key, e.val)
         \/ Found(ready, key) = {} /\ reply' = Answer("fetch", key, NULL)
      /\ UNCHANGED dict_can_resize

(* dict_generic_delete, the part dict_delete and dict_unlink share         *)
GenericDelete(key, op, Hit(_), miss) ==
  LET ready == Visited(d)
  IN  /\ \/ \E e \in Found(ready, key) :
              /\ d' = Unlinked(ready, e)
              /\ reply' = Answer(op, key, Hit(e))
         \/ /\ Found(ready, key) = {}
            /\ d' = ready
            /\ reply' = Answer(op, key, miss)
      /\ UNCHANGED dict_can_resize

(* dict_delete *)
Delete(key) == GenericDelete(key, "delete", LAMBDA e : "OK", "ERR")

(* dict_unlink *)
Unlink(key) == GenericDelete(key, "unlink", LAMBDA e : e, NULL)

(* dict_resize_to, called from outside the dict; a refused call changes    *)
(* nothing.                                                                *)
Resize(n) == /\ Resizable(d, n)
             /\ d' = ResizeTo(d, n)
             /\ UNCHANGED <<dict_can_resize, reply>>

(* dict_rehash, called from outside the dict.  The one caller, the         *)
(* benchmark, has no iterator open.                                        *)
RehashSteps(n) == /\ Rehashing(d)
                  /\ d.num_safe_iterators = 0
                  /\ d' = Rehash(d, n)
                  /\ UNCHANGED <<dict_can_resize, reply>>

(* dict_enable_resize and dict_disable_resize *)
SetCanResize(on) == /\ dict_can_resize' = on
                    /\ UNCHANGED <<d, reply>>

(* What the first dict_next of a safe iterator, and dict_free_iterator of  *)
(* one that was used, do to the dict.                                      *)
OpenIterator == /\ d.num_safe_iterators < MaxIterators
                /\ d' = DictOf(d.ht0, d.ht1, d.rehash_idx, d.num_safe_iterators + 1)
                /\ UNCHANGED <<dict_can_resize, reply>>

CloseIterator == /\ d.num_safe_iterators > 0
                 /\ d' = DictOf(d.ht0, d.ht1, d.rehash_idx, d.num_safe_iterators - 1)
                 /\ UNCHANGED <<dict_can_resize, reply>>

(* dict_release, and the dict_create that starts over.  An iterator does   *)
(* not outlive its dict.                                                   *)
Recreate == /\ d.num_safe_iterators = 0
            /\ d' = Created
            /\ reply' = Answer("create", NULL, NULL)
            /\ UNCHANGED dict_can_resize

Lookup == \E key \in Keys : Find(key) \/ FetchValue(key)

Update == \/ \E key \in Keys, val \in Vals : Add(key, val) \/ AddOrReplace(key, val)
          \/ \E key \in Keys : Delete(key) \/ Unlink(key)

Maintain == \/ \E n \in ResizeArgs : Resize(n)
            \/ \E n \in RehashArgs : RehashSteps(n)
            \/ \E on \in BOOLEAN : SetCanResize(on)
            \/ OpenIterator
            \/ CloseIterator
            \/ Recreate

Next == Lookup \/ Update \/ Maintain

Spec == Init /\ [][Next]_vars

(* What a lookup does to the dict.                                         *)
RehashCall == d' = Visited(d)

(* Callers keep looking keys up.                                           *)
FairSpec == Spec /\ WF_d(RehashCall)

(* The calls the commands GET, SET, DEL and EXISTS make (command.c:167,    *)
(* 192, 207, 228).                                                         *)
ServerNext == \E key \in Keys : \/ \E val \in Vals : Add(key, val)
                                \/ Find(key) \/ FetchValue(key) \/ Unlink(key)

ServerSpec == Init /\ [][ServerNext]_vars

-----------------------------------------------------------------------------
(* Properties. *)

IsHt(ht) == /\ ht = [size |-> ht.size, table |-> ht.table, keys |-> ht.keys]
            /\ ht.size \in TableSizes \cup {0}
            /\ ht.table \in [0..(ht.size - 1) -> SUBSET EntryType]
            /\ ht.keys \in Nat

IsDict(dict) == /\ dict = DictOf(dict.ht0, dict.ht1, dict.rehash_idx, dict.num_safe_iterators)
                /\ IsHt(dict.ht0) /\ IsHt(dict.ht1)
                /\ dict.rehash_idx \in Int /\ -1 <= dict.rehash_idx /\ dict.rehash_idx <= dict.ht0.size
                /\ dict.num_safe_iterators \in 0..MaxIterators

Answers == [op : {"create"}, key : {NULL}, ret : {NULL}]
             \cup [op : {"add", "delete"}, key : Keys, ret : {"OK", "ERR"}]
             \cup [op : {"put"}, key : Keys, ret : {"ADDED", "REPLACED"}]
             \cup [op : {"fetch"}, key : Keys, ret : Vals \cup {NULL}]
             \cup [op : {"find", "unlink"}, key : Keys, ret : EntryType \cup {NULL}]

(* Every variable has its type; for a table that is: a size the doubling   *)
(* loop produces, and one chain of entries for each slot (dict.h:34-50).   *)
TypeOK == /\ IsDict(d)
          /\ dict_can_resize \in BOOLEAN
          /\ reply \in Answers

Present(dict) == Entries(dict.ht0) \cup Entries(dict.ht1)

(* No entry is ever out of reach: whatever resizing and rehashing is under *)
(* way, the scan dict_find performs meets every entry the dict holds, and  *)
(* only that entry for its key (dict.c:275-287 against 122-160, 182-223).  *)
LookupComplete == \A e \in Present(d) : Found(d, e.key) = {e}

(* No key is held twice: not in one table, and not once in each table      *)
(* while the dict is rehashing (dict_accommodate_key scans both tables     *)
(* before it inserts, dict.c:192-216).                                     *)
Unique(dict) == /\ \A e, f \in Present(dict) : e.key = f.key => e = f
                /\ Entries(dict.ht0) \cap Entries(dict.ht1) = {}

KeysUnique == Unique(d)

(* The key counters agree with the chains.  dict_find trusts them to       *)
(* return early, dict_rehash to end a rehash and free the old table, and   *)
(* _dict_ht_clear asserts that they reach 0 (dict.c:127, 151, 269, 385).   *)
Counted(ht) == /\ IsFiniteSet(Entries(ht))
               /\ ht.keys = Cardinality(Entries(ht))

CountersExact == Counted(d.ht0) /\ Counted(d.ht1)

(* The scan of dict_rehash for the next non-empty slot never leaves ht0:   *)
(* while ht0 has keys, one of them lies at or above rehash_idx (the        *)
(* assertion of dict.c:128 and the unchecked index of dict.c:131).         *)
RehashInBounds ==
  Rehashing(d) /\ d.ht0.keys > 0 =>
    \E i \in d.rehash_idx..(d.ht0.size - 1) : d.ht0.table[i] # {}

(* A table is there whenever one is dereferenced: ht0 has one as soon as   *)
(* the dict has a key, and ht1 has one exactly while the dict is rehashing *)
(* (dict.c:192, 209, 278, 327 index the tables without a test).            *)
TablesAllocated == /\ NumKeys(d) > 0 \/ Rehashing(d) => d.ht0.size > 0
                   /\ Rehashing(d) <=> d.ht1.size > 0

(* The inductive invariant: what each helper relies on and restores.  An   *)
(* entry lies in the slot its hash selects; below rehash_idx ht0 is empty; *)
(* the second table exists exactly while the dict is rehashing.            *)
Placed(ht) == \A i \in 0..(ht.size - 1) : \A e \in ht.table[i] : SlotOf(ht, e.key) = i

Frontier(dict) ==
  IF Rehashing(dict)
  THEN /\ dict.ht0.size > 0 /\ dict.ht1.size > 0
       /\ \A i \in 0..(dict.rehash_idx - 1) : dict.ht0.table[i] = {}
  ELSE dict.ht1 = NoHt

Consistent(dict) == /\ IsDict(dict)
                    /\ Placed(dict.ht0) /\ Placed(dict.ht1)
                    /\ Counted(dict.ht0) /\ Counted(dict.ht1)
                    /\ Unique(dict)
                    /\ Frontier(dict)

DictInv == Consistent(d)

(* A resize is never restarted: while the dict is rehashing, a call either *)
(* carries the same rehash forward, or completes it, so that the new table *)
(* is the one in use, before the table of another resize is allocated (an  *)
(* add may do both in one call; dict.c:86-87, 151-156, 167, 184-186).      *)
ResizeRunsToItsEnd ==
  [][Rehashing(d) /\ d' # Created =>
       \/ /\ d'.ht0.size = d.ht0.size /\ d'.ht1.size = d.ht1.size
          /\ d'.rehash_idx >= d.rehash_idx
       \/ d'.ht0.size = d.ht1.size]_vars

(* While a safe iterator is open no entry moves to another slot or table:  *)
(* inserts and resizes may happen, rehashing may not (dict.c:110-118).     *)
EntriesStayPut ==
  [][d.num_safe_iterators > 0 =>
       \A e \in Present(d), f \in Present(d') :
         e.key = f.key => /\ e \in Entries(d.ht0) <=> f \in Entries(d'.ht0)
                          /\ d'.ht0.size = d.ht0.size]_vars

(* Rehashing ends although no call is devoted to it: as long as lookups    *)
(* keep coming, a rehash is over after finitely many of them, unless the   *)
(* dict is emptied first or a safe iterator is opened (dict.c:110-118,     *)
(* 269-270).                                                               *)
RehashEnds == (Rehashing(d) /\ NumKeys(d) > 0 /\ d.num_safe_iterators = 0)
                ~> (~Rehashing(d) \/ NumKeys(d) = 0 \/ d.num_safe_iterators > 0)

(* One slot per call is enough: under the calls of the server the dict     *)
(* never holds more keys than the newest of its tables has slots, so a     *)
(* rehash is always over before the next expansion is due (dict.c:164-176  *)
(* against the pace of dict.c:115-118, 124, 133).                          *)
LoadBounded == NumKeys(d) <= IF Rehashing(d) THEN d.ht1.size ELSE d.ht0.size

-----------------------------------------------------------------------------
(* The dict implements the map of module DictMap. *)

ValueOf(dict, key) ==
  IF \E e \in Present(dict) : e.key = key
  THEN (CHOOSE e \in Present(dict) : e.key = key).val
  ELSE NULL

MapOf(dict) == [key \in Keys |-> ValueOf(dict, key)]

Map == INSTANCE DictMap WITH map <- MapOf(d)

(* Every call answers as the map would, whatever the tables look like: an  *)
(* add reports a key that is there, a lookup returns the value bound last, *)
(* a delete removes it for good, and rehashing is invisible.               *)
ImplementsMap == Map!Spec
=============================================================================
