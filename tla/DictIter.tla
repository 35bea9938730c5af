------------------------------ MODULE DictIter ------------------------------
(***************************************************************************)
(* Iterators over a dict: dict_get_iterator, dict_get_safe_iterator,       *)
(* dict_next and dict_free_iterator of src/dict.c, interleaved with every  *)
(* operation of the dict.                                                  *)
(*                                                                         *)
(* An iterator is a position (table, index), the entry it will return next *)
(* (dict_next reads de->next ahead, so that the entry it returns may be    *)
(* deleted) and the rest of that entry's chain.  A caller that deletes the *)
(* entry an iterator has read ahead leaves it with a pointer to freed      *)
(* memory: the iterator is then dangling.                                  *)
(*                                                                         *)
(* A safe iterator pauses rehashing from its first dict_next on.  An       *)
(* unsafe one records a fingerprint of the dict instead, which             *)
(* dict_free_iterator asserts to be unchanged: it is misused when the dict *)
(* changes under it, and callers then do nothing with it but free it.      *)
(*                                                                         *)
(* Callers stop at the first NULL, as the loop of test.c:78 does, and an   *)
(* iterator that has been freed is not used again.                         *)
(***************************************************************************)
EXTENDS Dict

CONSTANTS Iters,     \* the iterators, each used once
          MaxUnsafe  \* bound on how many of them are unsafe

(* As many safe iterators as there are may be open together; an entry is   *)
(* named by its key, and no entry has the address NULL.                    *)
ASSUME IteratorsAssumption == /\ IsFiniteSet(Iters)
                              /\ Cardinality(Iters) <= MaxIterators
                              /\ NULL \notin Keys

VARIABLES iter,    \* iter[i], the dict_iterator
          visits,  \* history: visits[i][key], how often i returned the entry of key
          stable   \* history: the keys bound to the same entry since i's first dict_next

iterVars == <<iter, visits, stable>>

allVars == <<vars, iterVars>>

KeysIn(entries) == {e.key : e \in entries}

Iterator(safe, state, table, index, entry, rest, fingerprint) ==
  [safe |-> safe, state |-> state, table |-> table, index |-> index, entry |-> entry,
   rest |-> rest, fingerprint |-> fingerprint]

(* Mutant: the iterators that are open count as well.                      *)
FingerprintOfAll(dict) ==
  <<dict.ht0.size, dict.ht0.keys, dict.ht1.size + dict.num_safe_iterators, dict.ht1.keys>>

(* What dict_fingerprint hashes: the sizes and counters of the tables.     *)
(* Their addresses add nothing as long as a new table has a new size.      *)
Fingerprint(dict) == <<dict.ht0.size, dict.ht0.keys, dict.ht1.size, dict.ht1.keys>>

NoFingerprint == <<0, 0, 0, 0>>

(* dict_get_iterator, dict_get_safe_iterator *)
Fresh(safe) == Iterator(safe, "fresh", 0, -1, NULL, {}, NoFingerprint)

Gone(state) == Iterator(FALSE, state, 0, -1, NULL, {}, NoFingerprint)

Safe(i) == iter[i].safe

InUse(i) == iter[i].state \in {"active", "done", "dangling", "misused"}

Traversing(i) == iter[i].state \in {"active", "done"}

TableOf(dict, t) == IF t = 0 THEN dict.ht0 ELSE dict.ht1

(* The non-empty slots from position (table, index) on, and the first one. *)
SlotsAhead(dict, t, index) == {i \in (index + 1)..(TableOf(dict, t).size - 1) :
                                 TableOf(dict, t).table[i] # {}}

(* Mutant: the second table is not traversed.                              *)
PositionsFirstTable(dict, t, index) ==
  IF SlotsAhead(dict, t, index) # {} THEN {<<t, Min(SlotsAhead(dict, t, index))>>} ELSE {}

Positions(dict, t, index) ==
  IF SlotsAhead(dict, t, index) # {} THEN {<<t, Min(SlotsAhead(dict, t, index))>>}
  ELSE IF t = 0 /\ Rehashing(dict) /\ SlotsAhead(dict, 1, -1) # {}
       THEN {<<1, Min(SlotsAhead(dict, 1, -1))>>}
       ELSE {}

(* Mutant: the entry read ahead is also left in the rest.                  *)
ReadAheadTwice(chain) ==
  IF chain = {} THEN {<<NULL, {}>>} ELSE {<<key, chain>> : key \in chain}

(* The entry after the one returned, read ahead, and what follows it.      *)
ReadAhead(chain) ==
  IF chain = {} THEN {<<NULL, {}>>} ELSE {<<key, chain \ {key}>> : key \in chain}

Visit(i, key) == visits' = [visits EXCEPT ![i][key] = @ + 1]

-----------------------------------------------------------------------------
InitIter == /\ Init
            /\ iter \in [Iters -> {Fresh(safe) : safe \in BOOLEAN}]
            /\ Cardinality({i \in Iters : ~Safe(i)}) <= MaxUnsafe
            /\ visits = [i \in Iters |-> [key \in Keys |-> 0]]
            /\ stable = [i \in Iters |-> {}]

(* Mutant: a flag in place of the counter of safe iterators.               *)
RegisterFlag(i) ==
  IF iter[i].state = "fresh"
  THEN /\ d' = IF Safe(i) THEN DictOf(d.ht0, d.ht1, d.rehash_idx, 1) ELSE d
       /\ stable' = [stable EXCEPT ![i] = KeysIn(Present(d))]
  ELSE UNCHANGED <<d, stable>>

(* The first dict_next of an iterator: a safe one pauses rehashing, an     *)
(* unsafe one takes the fingerprint.                                       *)
Register(i) ==
  IF iter[i].state = "fresh"
  THEN /\ d' = IF Safe(i)
               THEN DictOf(d.ht0, d.ht1, d.rehash_idx, d.num_safe_iterators + 1) ELSE d
       /\ stable' = [stable EXCEPT ![i] = KeysIn(Present(d))]
  ELSE UNCHANGED <<d, stable>>

FingerprintOf(i) == IF iter[i].state = "fresh" /\ ~Safe(i) THEN Fingerprint(d)
                    ELSE iter[i].fingerprint

(* dict_next, three ways: within a chain, from one slot to the next, and   *)
(* off the end.                                                            *)
NextInChain(i) ==
  /\ iter[i].entry # NULL
  /\ Visit(i, iter[i].entry)
  /\ \E ahead \in ReadAhead(iter[i].rest) :
       iter' = [iter EXCEPT ![i] = Iterator(@.safe, "active", @.table, @.index, ahead[1], ahead[2],
                                            FingerprintOf(i))]

NextSlot(i) ==
  /\ iter[i].entry = NULL
  /\ \E position \in Positions(d, iter[i].table, iter[i].index) :
       LET chain == KeysIn(TableOf(d, position[1]).table[position[2]])
       IN  \E key \in chain : \E ahead \in ReadAhead(chain \ {key}) :
             /\ Visit(i, key)
             /\ iter' = [iter EXCEPT ![i] = Iterator(@.safe, "active", position[1], position[2],
                                                     ahead[1], ahead[2], FingerprintOf(i))]

NextEnd(i) ==
  /\ iter[i].entry = NULL
  /\ Positions(d, iter[i].table, iter[i].index) = {}
  /\ LET t == IF Rehashing(d) THEN 1 ELSE iter[i].table
     IN  iter' = [iter EXCEPT ![i] = Iterator(@.safe, "done", t, TableOf(d, t).size, NULL, {},
                                              FingerprintOf(i))]
  /\ UNCHANGED visits

DictNext(i) == /\ iter[i].state \in {"fresh", "active"}
               /\ Register(i)
               /\ NextInChain(i) \/ NextSlot(i) \/ NextEnd(i)
               /\ UNCHANGED <<dict_can_resize, reply>>

(* dict_free_iterator; when its assertion fails the process ends.          *)
DictFreeIterator(i) ==
  /\ iter[i].state \in {"fresh", "active", "done", "dangling", "misused"}
  /\ iter' = [iter EXCEPT ![i] =
                IF InUse(i) /\ ~Safe(i) /\ @.fingerprint # Fingerprint(d)
                THEN Gone("aborted") ELSE Gone("freed")]
  /\ d' = IF InUse(i) /\ Safe(i)
          THEN DictOf(d.ht0, d.ht1, d.rehash_idx, d.num_safe_iterators - 1) ELSE d
  /\ visits' = [visits EXCEPT ![i] = [key \in Keys |-> 0]]
  /\ stable' = [stable EXCEPT ![i] = {}]
  /\ UNCHANGED <<dict_can_resize, reply>>

(* What a call on the dict does to the iterators: an entry that is freed   *)
(* leaves the chains, and a safe iterator that has read it ahead dangles.  *)
(* An unsafe one may only be freed once the dict has changed.              *)
Follow(it, freed) ==
  IF ~it.safe /\ d' # d
  THEN Iterator(FALSE, "misused", 0, -1, NULL, {}, it.fingerprint)
  ELSE IF it.entry \in freed
  THEN Iterator(it.safe, "dangling", it.table, it.index, NULL, {}, it.fingerprint)
  ELSE Iterator(it.safe, it.state, it.table, it.index, it.entry, it.rest \ freed, it.fingerprint)

(* Every call a caller with iterators open may make.  Left out are those   *)
(* nobody makes then: dict_release, which no iterator outlives, and        *)
(* dict_rehash from outside, whose one caller has no iterator.  An entry   *)
(* that is unlinked is freed by its caller at once (command.c:214).        *)
DictCall ==
  /\ \/ Lookup
     \/ Update
     \/ \E n \in ResizeArgs : Resize(n)
     \/ \E on \in BOOLEAN : SetCanResize(on)
  /\ \E bound \in {KeysIn(Present(d'))} :
       /\ \E freed \in {KeysIn(Present(d)) \ bound} :
            iter' = [i \in Iters |-> IF InUse(i) THEN Follow(iter[i], freed) ELSE iter[i]]
       /\ stable' = [i \in Iters |-> IF Traversing(i)' THEN stable[i] \cap bound ELSE {}]
       /\ visits' = [i \in Iters |-> [key \in Keys |->
                       IF Traversing(i)' /\ key \in bound THEN visits[i][key] ELSE 0]]

NextIter == /\ \A i \in Iters : iter[i].state # "aborted"
            /\ DictCall \/ \E i \in Iters : DictNext(i) \/ DictFreeIterator(i)

SpecIter == InitIter /\ [][NextIter]_allVars

-----------------------------------------------------------------------------
(* Properties. *)

(* Every iterator is in one of the states of its life, and its position    *)
(* lies in the table it is at, also when tables come and go under it       *)
(* (dict.h:54-66; dict_next indexes the table without a test, dict.c:465). *)
IterTypeOK ==
  /\ TypeOK
  /\ \A i \in Iters :
       /\ iter[i].state \in {"fresh", "active", "done", "dangling", "misused", "freed",
                              "aborted"}
       /\ iter[i].table \in 0..1
       /\ iter[i].index \in -1..TableOf(d, iter[i].table).size
       /\ iter[i].entry \in Keys \cup {NULL}
       /\ iter[i].rest \subseteq Keys \ {iter[i].entry}

(* A traversal returns every entry that was in the dict throughout exactly *)
(* once; with a safe iterator whatever is added, deleted or resized        *)
(* meanwhile, also when a resize begins during the traversal               *)
(* (dict.c:437-474).                                                       *)
TraversalComplete ==
  \A i \in Iters :
    /\ \A key \in Keys : visits[i][key] <= 1
    /\ iter[i].state = "done" => \A key \in stable[i] : visits[i][key] = 1

(* What an iterator holds of a chain is in the chain: the entry read ahead *)
(* and the rest of the chain are live, in the slot the iterator is at.     *)
ReadAheadIsLive ==
  \A i \in Iters : iter[i].state = "active" =>
    (iter[i].rest \cup ({iter[i].entry} \ {NULL}))
       \subseteq KeysIn(IF iter[i].index >= 0 THEN TableOf(d, iter[i].table).table[iter[i].index]
                        ELSE {})

(* Rehashing is paused exactly while a safe iterator is between its first  *)
(* dict_next and its dict_free_iterator, no matter in which order several  *)
(* iterators are opened and freed (dict.c:448, 480).                       *)
PausedWhileTraversed ==
  d.num_safe_iterators = Cardinality({i \in Iters : Safe(i) /\ InUse(i)})

(* dict.h:52: "Safe iterator can modify dict while tranversing".           *)
SafeIteratorNeverDangles == \A i \in Iters : Safe(i) => iter[i].state # "dangling"

(* An unsafe iterator makes no false alarm: the fingerprint it took still  *)
(* holds when it is freed, whatever other iterators are doing, unless a    *)
(* call has changed the dict in between                                    *)
(* (dict.c:392-413, 482-484; dict.h:52-53).                                *)
NoFalseAlarm ==
  [][\A i \in Iters : iter'[i].state = "aborted" => iter[i].state = "misused"]_allVars
=============================================================================
