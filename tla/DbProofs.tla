------------------------------ MODULE DbProofs ------------------------------
(***************************************************************************)
(* Proofs about module Db, for every set of keys, values and addresses.    *)
(*                                                                         *)
(* What the dict does is known from DictProofs and LoadProofs: a command   *)
(* takes a step of it, so it takes a step of the map.  What is left to say *)
(* is how the map and the memory of the objects belong together: every     *)
(* value bound in the map is the address of an object that nobody else     *)
(* has, with a string that nobody else has.                                *)
(***************************************************************************)
EXTENDS Db, LoadProofs

(* m is the map of the dict, memory the objects and strings their texts.   *)
Owned(m, memory, strings) ==
  \A key \in Keys : m[key] # NULL =>
    /\ m[key] \in DOMAIN memory
    /\ memory[m[key]].ref_count = 1 /\ memory[m[key]].encoding = "sds"
    /\ memory[m[key]].ptr \in DOMAIN strings
    /\ strings[memory[m[key]].ptr] \in Texts
    /\ \A other \in Keys :
         m[other] # NULL /\ memory[m[other]].ptr = memory[m[key]].ptr => other = key

TextOfKey(m, memory, strings) ==
  [key \in Keys |-> IF m[key] = NULL THEN NULL ELSE strings[memory[m[key]].ptr]]

SharedStays == SharedId \in DOMAIN objs /\ objs[SharedId].ref_count = 3

DbInv == /\ LoadInv
         /\ SharedStays
         /\ Owned(MapOf(d), objs, sdss)

-----------------------------------------------------------------------------
(* Creating and freeing an object in a memory that is owned.               *)

LEMMA OwnedCreated ==
  ASSUME NEW m, NEW memory, NEW strings, Owned(m, memory, strings),
         NEW id, id \notin DOMAIN memory, NEW s, s \notin DOMAIN strings, NEW text \in Texts
  PROVE  LET more == Objects!With(memory, id, Objects!Object("sds", s, 1))
             longer == Objects!With(strings, s, text)
         IN  /\ Owned(m, more, longer)
             /\ TextOfKey(m, more, longer) = TextOfKey(m, memory, strings)
             /\ more[id] = Objects!Object("sds", s, 1) /\ longer[s] = text
             /\ id \in DOMAIN more /\ s \in DOMAIN longer
             /\ \A i \in DOMAIN memory : i \in DOMAIN more /\ more[i] = memory[i]
<1> DEFINE more == Objects!With(memory, id, Objects!Object("sds", s, 1))
           longer == Objects!With(strings, s, text)
<1>1. \A i \in DOMAIN memory : i \in DOMAIN more /\ more[i] = memory[i]
  BY DEF Objects!With
<1>2. \A i \in DOMAIN strings : i \in DOMAIN longer /\ longer[i] = strings[i]
  BY DEF Objects!With
<1>3. more[id] = Objects!Object("sds", s, 1) /\ longer[s] = text /\ id \in DOMAIN more /\ s \in DOMAIN longer
  BY DEF Objects!With
<1> HIDE DEF more, longer
<1>4. Owned(m, more, longer)
  BY <1>1, <1>2 DEF Owned
<1>5. TextOfKey(m, more, longer) = TextOfKey(m, memory, strings)
  BY <1>1, <1>2 DEF Owned, TextOfKey
<1> QED BY <1>1, <1>3, <1>4, <1>5 DEF more, longer

LEMMA OwnedBound ==
  ASSUME NEW m, NEW memory, NEW strings, Owned(m, memory, strings),
         NEW id \in Vals, id \notin DOMAIN memory, NEW s, s \notin DOMAIN strings, NEW text \in Texts,
         NEW key \in Keys, m[key] = NULL,
         NEW more, more = Objects!With(memory, id, Objects!Object("sds", s, 1)),
         NEW longer, longer = Objects!With(strings, s, text),
         NEW bound, \A k \in Keys : bound[k] = IF k = key THEN id ELSE m[k]
  PROVE  /\ Owned(bound, more, longer)
         /\ \A k \in Keys : TextOfKey(bound, more, longer)[k] =
                            IF k = key THEN text ELSE TextOfKey(m, memory, strings)[k]
<1>1. /\ Owned(m, more, longer)
      /\ TextOfKey(m, more, longer) = TextOfKey(m, memory, strings)
      /\ more[id] = Objects!Object("sds", s, 1) /\ longer[s] = text
      /\ id \in DOMAIN more /\ s \in DOMAIN longer
      /\ \A i \in DOMAIN memory : i \in DOMAIN more /\ more[i] = memory[i]
  BY OwnedCreated
<1>2. more[id].ref_count = 1 /\ more[id].encoding = "sds" /\ more[id].ptr = s
  BY <1>1 DEF Objects!Object
<1>3. \A other \in Keys : m[other] # NULL => more[m[other]].ptr # s
  BY <1>1 DEF Owned
<1>4. bound[key] = id /\ id # NULL /\ \A other \in Keys : other # key => bound[other] = m[other]
  BY KeysAssumption
<1>5. Owned(bound, more, longer)
  <2>1. SUFFICES ASSUME NEW k \in Keys, bound[k] # NULL
                 PROVE  /\ bound[k] \in DOMAIN more
                        /\ more[bound[k]].ref_count = 1 /\ more[bound[k]].encoding = "sds"
                        /\ more[bound[k]].ptr \in DOMAIN longer
                        /\ longer[more[bound[k]].ptr] \in Texts
                        /\ \A other \in Keys :
                             bound[other] # NULL /\ more[bound[other]].ptr = more[bound[k]].ptr => other = k
    BY DEF Owned
  <2>2. CASE k = key
    BY <2>2, <1>1, <1>2, <1>3, <1>4
  <2>3. CASE k # key
    BY <2>1, <2>3, <1>1, <1>2, <1>3, <1>4 DEF Owned
  <2> QED BY <2>2, <2>3
<1>6. \A k \in Keys : TextOfKey(bound, more, longer)[k] =
                      IF k = key THEN text ELSE TextOfKey(m, more, longer)[k]
  BY <1>1, <1>2, <1>4 DEF TextOfKey
<1> QED BY <1>1, <1>5, <1>6

LEMMA OwnedFreed ==
  ASSUME NEW m, NEW memory, NEW strings, Owned(m, memory, strings),
         NEW key \in Keys, m[key] # NULL,
         NEW less, less = Objects!Without(memory, m[key]),
         NEW shorter, shorter = Objects!Without(strings, memory[m[key]].ptr),
         NEW unbound, \A k \in Keys : unbound[k] = IF k = key THEN NULL ELSE m[k]
  PROVE  /\ Owned(unbound, less, shorter)
         /\ \A k \in Keys : TextOfKey(unbound, less, shorter)[k] =
                            IF k = key THEN NULL ELSE TextOfKey(m, memory, strings)[k]
         /\ \A i \in DOMAIN memory : i # m[key] => i \in DOMAIN less /\ less[i] = memory[i]
<1>1. \A i \in DOMAIN memory : i # m[key] => i \in DOMAIN less /\ less[i] = memory[i]
  BY DEF Objects!Without, Objects!Restrict
<1>2. \A i \in DOMAIN strings : i # memory[m[key]].ptr => i \in DOMAIN shorter /\ shorter[i] = strings[i]
  BY DEF Objects!Without, Objects!Restrict
<1>3. unbound[key] = NULL /\ \A other \in Keys : other # key => unbound[other] = m[other]
  OBVIOUS
<1>4. \A other \in Keys : other # key /\ m[other] # NULL =>
        m[other] # m[key] /\ memory[m[other]].ptr # memory[m[key]].ptr
  BY DEF Owned
<1>5. Owned(unbound, less, shorter)
  BY <1>1, <1>2, <1>3, <1>4 DEF Owned
<1>6. ASSUME NEW k \in Keys
      PROVE  TextOfKey(unbound, less, shorter)[k] =
               IF k = key THEN NULL ELSE TextOfKey(m, memory, strings)[k]
  <2>1. CASE k = key
    BY <1>3, <2>1 DEF TextOfKey
  <2>2. CASE k # key /\ m[k] = NULL
    BY <1>3, <2>2 DEF TextOfKey
  <2>3. CASE k # key /\ m[k] # NULL
    <3>1. less[m[k]] = memory[m[k]] /\ shorter[memory[m[k]].ptr] = strings[memory[m[k]].ptr]
      BY <1>1, <1>2, <1>4, <2>3 DEF Owned
    <3> QED BY <1>3, <2>3, <3>1 DEF TextOfKey
  <2> QED BY <2>1, <2>2, <2>3
<1> QED BY <1>1, <1>5, <1>6

-----------------------------------------------------------------------------
(* What the commands append.                                               *)

LEMMA ReplyOk ==
  ASSUME NEW words \in Requests, NEW text \in AnswerTexts, NEW size \in Nat,
         Reply(words, text, size)
  PROVE  Table!Reply(words, text)
<1>1. client' = [pieces |-> <<text>>, reply_size |-> size]
  BY DEF Reply, Appended, Received, NoReply
<1>2. sent' = [words |-> words, pieces |-> <<text>>, size |-> size]
  BY <1>1 DEF Reply
<1>3. <<text>> \in Seq(AnswerTexts)
  OBVIOUS
<1>4. sent' # NULL
  <2> DEFINE pieces == <<text>>
  <2>1. pieces \in Seq(AnswerTexts) /\ sent' = [words |-> words, pieces |-> pieces, size |-> size]
    BY <1>2, <1>3
  <2> HIDE DEF pieces
  <2>2. sent' \in [words : Requests, pieces : Seq(AnswerTexts), size : Nat]
    BY <2>1
  <2> QED BY <2>2, NothingAssumption
<1>5. sent'.size = size /\ sent'.words = words /\ Len(sent'.pieces) = 1 /\ sent'.pieces[1] = text
  BY <1>2
<1> QED BY <1>4, <1>5 DEF Table!Reply

(* The table of KvService in terms of the map.                             *)
TableIs == TextOfKey(MapOf(d), objs, sdss)

LEMMA TableOk ==
  TableIs = [key \in Keys |-> IF ValueOf(d, key) = NULL THEN NULL ELSE ValueText(ValueOf(d, key))]
BY DEF TableIs, TextOfKey, MapOf, ValueText

LEMMA MapType == LoadInv => MapOf(d) \in [Keys -> Vals \cup {NULL}]
BY ValueOfOk DEF LoadInv, IndInv, DictInv, MapOf

-----------------------------------------------------------------------------
(* The commands. *)

LEMMA GetOk ==
  ASSUME DbInv, NEW key \in Keys, CmdGet(key)
  PROVE  DbInv' /\ Table!Get(key)
<1>1. LoadInv' /\ Map!FetchValue(key)
  <2>1. FetchValue(key) /\ Consistent(d) /\ LoadInv
    BY DEF CmdGet, DbInv, LoadInv, IndInv, DictInv
  <2>2. Map!Find(key) \/ Map!FetchValue(key)
    BY <2>1, LookupOk
  <2>3. reply'.op = "fetch"
    BY <2>1 DEF FetchValue, Answer
  <2>4. ~Map!Find(key)
    BY <2>3 DEF Map!Find, Map!Answer
  <2> QED BY <2>1, <2>2, <2>4, ServerNextPaced DEF ServerNext
<1>2. MapOf(d)' = MapOf(d) /\ reply'.ret = MapOf(d)[key]
  BY <1>1 DEF Map!FetchValue, Map!Answer
<1>3. Owned(MapOf(d), objs, sdss) /\ SharedStays
  BY DEF DbInv
<1>4. UNCHANGED <<objs, sdss>>
  BY DEF CmdGet, objVars
<1>5. Owned(MapOf(d), objs, sdss)' /\ SharedStays' /\ TableIs' = TableIs
  BY <1>2, <1>3, <1>4 DEF Owned, SharedStays, TableIs, TextOfKey
<1>6. Table!Reply(<<"get", key>>, IF TableIs[key] = NULL THEN "missing" ELSE TableIs[key])
  <2>1. CASE MapOf(d)[key] = NULL
    <3>1. Reply(<<"get", key>>, "missing", Length[key] + Wrapping)
      BY <1>2, <2>1 DEF CmdGet
    <3>2. TableIs[key] = NULL
      BY <2>1 DEF TableIs, TextOfKey
    <3> QED BY <3>1, <3>2, ReplyOk, WordsAssumption DEF Requests, AnswerTexts
  <2>2. CASE MapOf(d)[key] # NULL
    <3> DEFINE text == ValueText(MapOf(d)[key])
    <3>1. ValueText(reply'.ret) = text
      BY <1>2 DEF ValueText
    <3>2. Reply(<<"get", key>>, text, Length[text])
      BY <1>2, <2>2, <3>1 DEF CmdGet
    <3>3. text \in Texts /\ TableIs[key] = text /\ text # NULL
      BY <1>3, <2>2, NothingAssumption DEF Owned, ValueText, TableIs, TextOfKey
    <3> HIDE DEF text
    <3>4. Length[text] \in Nat
      BY <3>3, WordsAssumption
    <3> QED BY <3>2, <3>3, <3>4, ReplyOk DEF Requests, AnswerTexts
  <2> QED BY <2>1, <2>2
<1>7. Table!Get(key)
  BY <1>5, <1>6, TableOk DEF Table!Get, TableIs, TextOfKey, MapOf, ValueText
<1> QED BY <1>1, <1>5, <1>6, <1>7 DEF DbInv

LEMMA ExistOk ==
  ASSUME DbInv, NEW key \in Keys, CmdExist(key)
  PROVE  DbInv' /\ Table!Exist(key)
<1>1. LoadInv' /\ Map!Find(key)
  <2>1. Find(key) /\ Consistent(d) /\ LoadInv
    BY DEF CmdExist, DbInv, LoadInv, IndInv, DictInv
  <2>2. Map!Find(key) \/ Map!FetchValue(key)
    BY <2>1, LookupOk
  <2>3. reply'.op = "find"
    BY <2>1 DEF Find, Answer
  <2>4. ~Map!FetchValue(key)
    BY <2>3 DEF Map!FetchValue, Map!Answer
  <2> QED BY <2>1, <2>2, <2>4, ServerNextPaced DEF ServerNext
<1>2. MapOf(d)' = MapOf(d) /\ (reply'.ret = NULL <=> MapOf(d)[key] = NULL)
  <2>1. MapOf(d) \in [Keys -> Vals \cup {NULL}]
    BY MapType DEF DbInv
  <2> DEFINE e == [key |-> key, val |-> MapOf(d)[key]]
  <2>2. MapOf(d)[key] # NULL => e \in [key : Keys, val : Vals]
    BY <2>1
  <2>3. reply'.ret = IF MapOf(d)[key] # NULL THEN e ELSE NULL
    BY <1>1 DEF Map!Find, Map!Answer, Map!Entry, Map!Bound
  <2> HIDE DEF e
  <2> QED BY <1>1, <2>2, <2>3, KeysAssumption DEF Map!Find
<1>3. Owned(MapOf(d), objs, sdss) /\ SharedStays
  BY DEF DbInv
<1>4. UNCHANGED <<objs, sdss>>
  BY DEF CmdExist, objVars
<1>5. Owned(MapOf(d), objs, sdss)' /\ SharedStays' /\ TableIs' = TableIs
  BY <1>2, <1>3, <1>4 DEF Owned, SharedStays, TableIs, TextOfKey
<1>6. TableIs[key] = NULL <=> MapOf(d)[key] = NULL
  BY <1>3, NothingAssumption DEF Owned, TableIs, TextOfKey
<1>7. Table!Reply(<<"exist", key>>, IF TableIs[key] = NULL THEN "no" ELSE "yes")
  <2> DEFINE text == IF reply'.ret = NULL THEN "no" ELSE "yes"
  <2>1. Reply(<<"exist", key>>, text, Wrapping) /\ text \in AnswerTexts
    BY DEF CmdExist, AnswerTexts
  <2>2. Wrapping \in Nat
    BY WordsAssumption
  <2>3. text = IF TableIs[key] = NULL THEN "no" ELSE "yes"
    BY <1>2, <1>6
  <2> HIDE DEF text
  <2>4. Table!Reply(<<"exist", key>>, text)
    BY <2>1, <2>2, ReplyOk DEF Requests
  <2> QED BY <2>3, <2>4
<1>8. Table!Exist(key)
  BY <1>5, <1>7, TableOk DEF Table!Exist, TableIs, TextOfKey, MapOf, ValueText
<1> QED BY <1>1, <1>5, <1>7, <1>8 DEF DbInv

LEMMA SetOk ==
  ASSUME DbInv, NEW key \in Keys, NEW text \in Texts, CmdSet(key, text)
  PROVE  DbInv' /\ Table!Set(key, text)
<1>1. PICK id \in Objects!Free(objs), s \in Objects!Free(sdss) :
        /\ objs' = Objects!With(objs, id, Objects!Object("sds", s, 1))
        /\ sdss' = Objects!With(sdss, s, text)
        /\ got'.id = id
  BY DEF CmdSet, Objects!CreateSds, Objects!Gives
<1>2. id \notin DOMAIN objs /\ s \notin DOMAIN sdss /\ id \in Vals
  BY DEF Objects!Free, DbInv, SharedStays
<1>3. Add(key, id)
  BY <1>1 DEF CmdSet
<1>4. LoadInv' /\ Map!Add(key, id)
  <2>1. Consistent(d) /\ LoadInv
    BY DEF DbInv, LoadInv, IndInv, DictInv
  <2> QED BY <1>2, <1>3, <2>1, AddOk, ServerNextPaced DEF ServerNext
<1>5. Owned(MapOf(d), objs, sdss) /\ SharedStays /\ MapOf(d) \in [Keys -> Vals \cup {NULL}]
  BY MapType DEF DbInv
<1>6. SharedStays'
  BY <1>1, <1>2, <1>5, OwnedCreated DEF SharedStays
<1>7. TableIs[key] = NULL <=> MapOf(d)[key] = NULL
  BY <1>5, NothingAssumption DEF Owned, TableIs, TextOfKey
<1>8. Wrapping \in Nat /\ Length[key] + Wrapping \in Nat
  BY WordsAssumption
<1>9. <<"set", key, text>> \in Requests /\ "ok" \in AnswerTexts /\ "present" \in AnswerTexts
  BY DEF Requests, AnswerTexts
<1>10. CASE MapOf(d)[key] = NULL
  <2>1. MapOf(d)' = [MapOf(d) EXCEPT ![key] = id] /\ reply'.ret = "OK"
    BY <1>4, <1>10 DEF Map!Add, Map!Answer, Map!Bound
  <2>2. Owned(MapOf(d), objs, sdss)' /\ TableIs' = [TableIs EXCEPT ![key] = text]
    <3> DEFINE m == MapOf(d)
               bound == MapOf(d)'
    <3>1. \A k \in Keys : bound[k] = IF k = key THEN id ELSE m[k]
      BY <1>5, <2>1
    <3>2. Owned(m, objs, sdss) /\ m[key] = NULL
      BY <1>5, <1>10
    <3> HIDE DEF m, bound
    <3>3. /\ Owned(bound, objs', sdss')
          /\ \A k \in Keys : TextOfKey(bound, objs', sdss')[k] =
                             IF k = key THEN text ELSE TextOfKey(m, objs, sdss)[k]
      BY <1>1, <1>2, <3>1, <3>2, OwnedBound
    <3>4. TextOfKey(bound, objs', sdss') = [TextOfKey(m, objs, sdss) EXCEPT ![key] = text]
      BY <3>3 DEF TextOfKey
    <3> QED BY <3>3, <3>4 DEF m, bound, TableIs, Owned, TextOfKey
  <2>3. Reply(<<"set", key, text>>, "ok", Wrapping)
    BY <2>1 DEF CmdSet
  <2>4. Table!Reply(<<"set", key, text>>, "ok")
    BY <1>8, <1>9, <2>3, ReplyOk
  <2>5. Table!Set(key, text)
    BY <1>7, <1>10, <2>2, <2>4, TableOk DEF Table!Set, TableIs, TextOfKey, MapOf, ValueText
  <2> QED BY <1>4, <1>6, <2>2, <2>4, <2>5 DEF DbInv
<1>11. CASE MapOf(d)[key] # NULL
  <2>1. MapOf(d)' = MapOf(d) /\ reply'.ret = "ERR"
    BY <1>4, <1>11 DEF Map!Add, Map!Answer, Map!Bound
  <2>2. Owned(MapOf(d), objs, sdss)' /\ TableIs' = TableIs
    BY <1>1, <1>2, <1>5, <2>1, OwnedCreated DEF TableIs
  <2>3. Reply(<<"set", key, text>>, "present", Length[key] + Wrapping)
    BY <2>1 DEF CmdSet
  <2>4. Table!Reply(<<"set", key, text>>, "present")
    BY <1>8, <1>9, <2>3, ReplyOk
  <2>5. Table!Set(key, text)
    BY <1>7, <1>11, <2>2, <2>4, TableOk DEF Table!Set, TableIs, TextOfKey, MapOf, ValueText
  <2> QED BY <1>4, <1>6, <2>2, <2>4, <2>5 DEF DbInv
<1> QED BY <1>10, <1>11

LEMMA DelOk ==
  ASSUME DbInv, NEW key \in Keys, CmdDel(key)
  PROVE  DbInv' /\ Table!Del(key)
<1>1. LoadInv' /\ Map!Unlink(key)
  <2>1. Unlink(key) /\ Consistent(d) /\ LoadInv
    BY DEF CmdDel, DbInv, LoadInv, IndInv, DictInv
  <2>2. Map!Delete(key) \/ Map!Unlink(key)
    BY <2>1, RemoveOk
  <2>3. reply'.op = "unlink"
    BY <2>1 DEF Unlink, GenericDelete, Answer
  <2>4. ~Map!Delete(key)
    BY <2>3 DEF Map!Delete, Map!Answer
  <2> QED BY <2>1, <2>2, <2>4, ServerNextPaced DEF ServerNext
<1>2. Owned(MapOf(d), objs, sdss) /\ SharedStays /\ MapOf(d) \in [Keys -> Vals \cup {NULL}]
  BY MapType DEF DbInv
<1>3. MapOf(d)' = [MapOf(d) EXCEPT ![key] = NULL]
  BY <1>1 DEF Map!Unlink
<1>4. TableIs[key] = NULL <=> MapOf(d)[key] = NULL
  BY <1>2, NothingAssumption DEF Owned, TableIs, TextOfKey
<1>5. <<"del", key>> \in Requests /\ "ok" \in AnswerTexts /\ "missing" \in AnswerTexts
  BY DEF Requests, AnswerTexts
<1>6. Wrapping \in Nat /\ Length[key] + Wrapping \in Nat
  BY WordsAssumption
<1>7. CASE MapOf(d)[key] = NULL
  <2>1. reply'.ret = NULL
    BY <1>1, <1>7 DEF Map!Unlink, Map!Answer, Map!Entry, Map!Bound
  <2>2. Reply(<<"del", key>>, "missing", Length[key] + Wrapping) /\ UNCHANGED <<objs, sdss>>
    BY <2>1 DEF CmdDel, objVars
  <2>3. MapOf(d)' = MapOf(d)
    BY <1>2, <1>3, <1>7
  <2>4. /\ Owned(MapOf(d), objs, sdss)' /\ SharedStays'
        /\ TableIs' = TableIs /\ [TableIs EXCEPT ![key] = NULL] = TableIs
    BY <1>2, <1>4, <1>7, <2>2, <2>3 DEF Owned, SharedStays, TableIs, TextOfKey
  <2>5. Table!Reply(<<"del", key>>, "missing")
    BY <1>5, <1>6, <2>2, ReplyOk
  <2>6. Table!Del(key)
    BY <1>4, <1>7, <2>4, <2>5, TableOk DEF Table!Del, TableIs, TextOfKey, MapOf, ValueText
  <2> QED BY <1>1, <2>4, <2>5, <2>6 DEF DbInv
<1>8. CASE MapOf(d)[key] # NULL
  <2> DEFINE id == MapOf(d)[key]
             e == [key |-> key, val |-> id]
  <2>1. reply'.ret = e /\ e.val = id
    BY <1>1, <1>8 DEF Map!Unlink, Map!Answer, Map!Entry, Map!Bound
  <2>2. e # NULL
    <3>1. e \in [key : Keys, val : Vals]
      BY <1>2, <1>8
    <3> HIDE DEF e
    <3> QED BY <3>1, KeysAssumption
  <2> HIDE DEF e
  <2>3. /\ Reply(<<"del", key>>, "ok", Wrapping)
        /\ Objects!DecRef(reply'.ret.val)
    BY <2>1, <2>2 DEF CmdDel
  <2>4. objs[id].ref_count = 1 /\ objs[id].encoding = "sds" /\ id # SharedId
    BY <1>2, <1>8 DEF Owned, SharedStays
  <2> HIDE DEF id
  <2>5. objs' = Objects!Without(objs, id) /\ sdss' = Objects!Without(sdss, objs[id].ptr)
    BY <2>1, <2>3, <2>4 DEF Objects!DecRef, Objects!IsShared, Objects!SdsFreed
  <2>6. /\ Owned(MapOf(d), objs, sdss)' /\ SharedStays'
        /\ TableIs' = [TableIs EXCEPT ![key] = NULL]
    <3> DEFINE m == MapOf(d)
               unbound == MapOf(d)'
    <3>1. \A k \in Keys : unbound[k] = IF k = key THEN NULL ELSE m[k]
      BY <1>2, <1>3
    <3>2. Owned(m, objs, sdss) /\ m[key] # NULL /\ m[key] = id
      BY <1>2, <1>8 DEF id
    <3> HIDE DEF m, unbound
    <3>3. /\ Owned(unbound, objs', sdss')
          /\ \A k \in Keys : TextOfKey(unbound, objs', sdss')[k] =
                             IF k = key THEN NULL ELSE TextOfKey(m, objs, sdss)[k]
          /\ \A i \in DOMAIN objs : i # id => i \in DOMAIN objs' /\ objs'[i] = objs[i]
      BY <2>5, <3>1, <3>2, OwnedFreed
    <3>4. TextOfKey(unbound, objs', sdss') = [TextOfKey(m, objs, sdss) EXCEPT ![key] = NULL]
      BY <3>3 DEF TextOfKey
    <3>5. SharedStays'
      BY <1>2, <2>4, <3>3 DEF SharedStays
    <3> QED BY <3>3, <3>4, <3>5 DEF m, unbound, TableIs, Owned, TextOfKey
  <2>7. Table!Reply(<<"del", key>>, "ok")
    BY <1>5, <1>6, <2>3, ReplyOk
  <2>8. Table!Del(key)
    BY <1>4, <1>8, <2>6, <2>7, TableOk DEF Table!Del, TableIs, TextOfKey, MapOf, ValueText
  <2> QED BY <1>1, <2>6, <2>7, <2>8 DEF DbInv
<1> QED BY <1>7, <1>8

-----------------------------------------------------------------------------
LEMMA DbInitOk == DbInit => DbInv /\ Table!Init
<1> SUFFICES ASSUME DbInit PROVE DbInv /\ Table!Init
  OBVIOUS
<1>1. LoadInv /\ Map!Init
  BY InitPaced, InitOk DEF DbInit
<1>2. MapOf(d) = [key \in Keys |-> NULL]
  BY <1>1 DEF Map!Init
<1>3. Owned(MapOf(d), objs, sdss) /\ TableIs = [key \in Keys |-> NULL]
  BY <1>2 DEF Owned, TableIs, TextOfKey
<1>4. Objects!SharedIds = {SharedId}
  BY DEF Objects!SharedIds, Objects!Range
<1>5. SharedStays
  BY <1>4 DEF DbInit, Objects!Init, Objects!Object, SharedStays
<1>6. sent = NULL
  BY DEF DbInit
<1> QED BY <1>1, <1>3, <1>5, <1>6, TableOk DEF DbInv, Table!Init

LEMMA DbNextOk ==
  ASSUME DbInv, [DbNext]_dbVars
  PROVE  DbInv' /\ [Table!Next]_(Table!vars)
<1>1. CASE DbNext
  <2>1. PICK key \in Keys : \/ CmdGet(key) \/ CmdDel(key) \/ CmdExist(key)
                           \/ \E text \in Texts : CmdSet(key, text)
    BY <1>1 DEF DbNext
  <2> QED BY <2>1, GetOk, DelOk, ExistOk, SetOk DEF Table!Next
<1>2. CASE UNCHANGED dbVars
  <2>1. LoadInv'
    BY <1>2, ServerNextPaced DEF DbInv, dbVars, vars
  <2>2. MapOf(d)' = MapOf(d)
    BY <1>2 DEF dbVars, MapOf, ValueOf, Present, Entries
  <2>3. SharedStays' /\ Owned(MapOf(d), objs, sdss)'
    BY <1>2, <2>2 DEF DbInv, dbVars, SharedStays, Owned
  <2>4. UNCHANGED Table!vars
    BY <1>2 DEF dbVars, Table!vars, ValueOf, Present, Entries, ValueText
  <2> QED BY <2>1, <2>3, <2>4 DEF DbInv
<1> QED BY <1>1, <1>2

LEMMA OwnersKnown == DbInv => EntriesOwnTheirObjects
<1> SUFFICES ASSUME DbInv, NEW e \in Present(d)
             PROVE  /\ e.val \in DOMAIN objs
                    /\ objs[e.val].ref_count = 1 /\ objs[e.val].encoding = "sds"
                    /\ \A f \in Present(d) : f.val = e.val => f = e
  BY DEF EntriesOwnTheirObjects
<1>1. Consistent(d) /\ Owned(MapOf(d), objs, sdss)
  BY DEF DbInv, LoadInv, IndInv, DictInv
<1>2. \A f \in Present(d) : f.key \in Keys
  BY <1>1, ConsistentFacts DEF EntryType
<1>3. \A f \in Present(d) : MapOf(d)[f.key] = f.val /\ f.val # NULL
  BY <1>1, <1>2, MapHit
<1>4. \A f, g \in Present(d) : f.key = g.key => f = g
  BY <1>1, ConsistentFacts DEF Unique
<1> QED BY <1>1, <1>2, <1>3, <1>4 DEF Owned

-----------------------------------------------------------------------------
(* What a database relies on holds at all times: each value bound in the   *)
(* dict is an sds object with one reference and a string nobody else has   *)
(* (command.c:163-236).                                                    *)
THEOREM DbInvariant == DbSpec => []DbInv
<1>1. DbInit => DbInv
  BY DbInitOk
<1>2. DbInv /\ [DbNext]_dbVars => DbInv'
  BY DbNextOk
<1> QED BY <1>1, <1>2, PTL DEF DbSpec

(* The commands never outrun the rehashing of their dict (dict.c:110-118,  *)
(* 164-176; command.c:167, 192, 207, 228).                                 *)
THEOREM DbLoadBounded == DbSpec => []LoadBounded
<1>1. DbInv => LoadBounded
  BY PacedIsBounded DEF DbInv
<1> QED BY <1>1, DbInvariant, PTL

(* GET may take a value for an sds string without a test, and the          *)
(* assertion of DEL that it frees the last reference holds                 *)
(* (command.c:167-179, 214).                                               *)
THEOREM OwnersAreAlone == DbSpec => []EntriesOwnTheirObjects
BY DbInvariant, OwnersKnown, PTL

(* Every request is answered as a plain table would answer it, with that   *)
(* answer alone (command.c:163-236).                                       *)
THEOREM DbIsATable == DbSpec => ImplementsTable
<1>1. DbInit => Table!Init
  BY DbInitOk
<1>2. DbInv /\ [DbNext]_dbVars => [Table!Next]_(Table!vars)
  BY DbNextOk
<1> QED BY <1>1, <1>2, DbInvariant, PTL DEF DbSpec, ImplementsTable, Table!Spec
=============================================================================
