--------------------------------- MODULE Db ---------------------------------
(***************************************************************************)
(* A database: the dict of src/dict.c with the objects of src/obj.c as its *)
(* values, under the commands of src/command.c.                            *)
(*                                                                         *)
(* Modules Dict and Obj are composed as the code composes them: a command  *)
(* takes a step of the one and, where it creates or frees a value, a step  *)
(* of the other.  One request is one action: the buffer of the client is   *)
(* reset, the command runs, appends its answer, and flushes it.  How       *)
(* requests arrive, and who owns the strings of the keys, is in module     *)
(* Server, for which this one is the database.                             *)
(*                                                                         *)
(* The value of an entry is the address of its object.  The text of a      *)
(* value is what SET was given.  Every client uses the first database.     *)
(***************************************************************************)
EXTENDS Dict, Sequences

CONSTANTS
  Texts,            \* the values clients send
  SharedId,         \* the address of a shared object
  Length,           \* Length[word], for the keys and the values
  CLIENT_BUF_SIZE,
  Wrapping          \* how long an answer is, at most, without the word in it

(* A word comes out of one receive buffer, with the rest of its request.   *)
ASSUME WordsAssumption ==
  /\ CLIENT_BUF_SIZE \in Nat /\ Wrapping \in 0..CLIENT_BUF_SIZE
  /\ \A word \in Keys \cup Texts : Length[word] \in 0..CLIENT_BUF_SIZE

Requests == ({"get", "del", "exist"} \X Keys) \cup ({"set"} \X Keys \X Texts)

AnswerTexts == Texts \cup {"missing", "ok", "present", "no", "yes"}

ASSUME NothingAssumption ==
  /\ NULL \notin Texts
  /\ NULL \notin [words : Requests, pieces : Seq(AnswerTexts), size : Nat]

VARIABLES
  objs, sdss, held, got,  \* the objects, as in module Obj
  client,                 \* what has been appended to reply_buf, and reply_size
  sent                    \* history: the last request and what was sent

objVars == <<objs, sdss, held, got>>

dbVars == <<d, dict_can_resize, reply, objs, sdss, held, got, client, sent>>

(* One shared integer stands for all: the commands never ask for them.     *)
Objects == INSTANCE Obj WITH
  Base <- 10, Minus <- NULL, LlValues <- 2, SHARED_INTEGERS <- 1, SHARED_REFCOUNT <- 3,
  EMBSTR_MAX_LENGTH <- 0, LongMin <- 0, LongMax <- 0, Numbers <- {},
  Ids <- Vals \cup {SharedId}, SharedAt <- [i \in {0} |-> SharedId],
  MaxHeld <- Cardinality(Vals)

(* malloc hands out the first address that is free: which one that is, is  *)
(* no matter, but what is freed is soon something else.                    *)
FirstFree(memory) == CHOOSE id \in Vals : id \notin DOMAIN memory

ValueText(val) == sdss[objs[val].ptr]

-----------------------------------------------------------------------------
(* The reply buffer. *)

NoReply == [pieces |-> <<>>, reply_size |-> 0]

(* Mutant: only the flush resets, and it resets another counter.           *)
ReceivedNoReset(c) == c

(* recv() has returned a request.                                          *)
Received(c) == NoReply

(* net_client_reply_append_cstr, _sds, _fmt                                *)
Appended(c, text, size) == [pieces     |-> Append(c.pieces, text),
                            reply_size |-> c.reply_size + size]

(* net_client_reply_flush, when send() sends.  What it resets is recv_size. *)
Reply(words, text, size) ==
  /\ client' = Appended(Received(client), text, size)
  /\ sent' = [words |-> words, pieces |-> client'.pieces, size |-> client'.reply_size]

-----------------------------------------------------------------------------
(* The commands. *)

DbInit == Init /\ Objects!Init /\ client = NoReply /\ sent = NULL

CmdGet(key) ==
  /\ FetchValue(key)
  /\ \/ /\ reply'.ret = NULL
        /\ Reply(<<"get", key>>, "missing", Length[key] + Wrapping)
     \/ /\ reply'.ret # NULL
        /\ LET text == ValueText(reply'.ret) IN Reply(<<"get", key>>, text, Length[text])
  /\ UNCHANGED objVars

(* Mutant: a value that is stored already is not created again.            *)
CmdSetSharing(key, text) ==
  \/ /\ \A e \in Present(d) : ValueText(e.val) # text
     /\ Objects!CreateSds(text, Objects!Text(text))
     /\ got'.id = FirstFree(objs) /\ FirstFree(sdss) \in DOMAIN sdss'
     /\ Add(key, got'.id)
     /\ Reply(<<"set", key, text>>, IF reply'.ret = "OK" THEN "ok" ELSE "present", Wrapping)
  \/ \E e \in Present(d) :
       /\ ValueText(e.val) = text
       /\ Objects!IncRef(e.val)
       /\ Add(key, e.val)
       /\ Reply(<<"set", key, text>>, IF reply'.ret = "OK" THEN "ok" ELSE "present", Wrapping)

(* When the key is there already nobody frees the object.                  *)
CmdSet(key, text) ==
  /\ Objects!CreateSds(text, Objects!Text(text))
  /\ got'.id = FirstFree(objs) /\ FirstFree(sdss) \in DOMAIN sdss'
  /\ Add(key, got'.id)
  /\ \/ /\ reply'.ret = "OK"
        /\ Reply(<<"set", key, text>>, "ok", Wrapping)
     \/ /\ reply'.ret = "ERR"
        /\ Reply(<<"set", key, text>>, "present", Length[key] + Wrapping)

(* Mutant: the entry is looked up, not unlinked.                           *)
CmdDelFinds(key) ==
  /\ Find(key)
  /\ \/ /\ reply'.ret = NULL
        /\ Reply(<<"del", key>>, "missing", Length[key] + Wrapping)
        /\ UNCHANGED objVars
     \/ /\ reply'.ret # NULL
        /\ Objects!DecRef(reply'.ret.val)
        /\ Reply(<<"del", key>>, "ok", Wrapping)

(* dict_free_unlinked_entry gives the reference of the entry back.         *)
CmdDel(key) ==
  /\ Unlink(key)
  /\ \/ /\ reply'.ret = NULL
        /\ Reply(<<"del", key>>, "missing", Length[key] + Wrapping)
        /\ UNCHANGED objVars
     \/ /\ reply'.ret # NULL
        /\ Objects!DecRef(reply'.ret.val)
        /\ Reply(<<"del", key>>, "ok", Wrapping)

CmdExist(key) ==
  /\ Find(key)
  /\ Reply(<<"exist", key>>, IF reply'.ret = NULL THEN "no" ELSE "yes", Wrapping)
  /\ UNCHANGED objVars

DbNext == \E key \in Keys : \/ CmdGet(key) \/ CmdDel(key) \/ CmdExist(key)
                            \/ \E text \in Texts : CmdSet(key, text)

DbSpec == DbInit /\ [][DbNext]_dbVars

-----------------------------------------------------------------------------
(* Properties. *)

(* Every entry owns an object of its own: it lives, it is an sds string,   *)
(* which GET takes it for without a test, and the entry's reference is the *)
(* only one, as DEL asserts (command.c:167-179, 188, 214; dict.c:529-532). *)
EntriesOwnTheirObjects ==
  \A e \in Present(d) :
    /\ e.val \in DOMAIN objs
    /\ objs[e.val].ref_count = 1 /\ objs[e.val].encoding = "sds"
    /\ \A f \in Present(d) : f.val = e.val => f = e

(* How far an answer may overrun the reply buffer: nobody checks that it   *)
(* does not (net.c:217), and an error that quotes a key is longer than the *)
(* key by its own words - no other answer overruns, and no answer by more, *)
(* however many requests came before (net.c:205-258, 278: "reset reply     *)
(* index" resets the index of the other buffer).                           *)
OnlyQuotesOverrun ==
  sent # NULL /\ sent.size > CLIENT_BUF_SIZE =>
    sent.pieces \in {<<"missing">>, <<"present">>} /\ sent.size <= CLIENT_BUF_SIZE + Wrapping

-----------------------------------------------------------------------------
(* The database implements the table of module KvService. *)

Table == INSTANCE KvService WITH
  Vals <- Texts, Mute <- {}, broken <- FALSE,
  table <- [key \in Keys |-> IF ValueOf(d, key) = NULL THEN NULL ELSE ValueText(ValueOf(d, key))],
  answer <- IF sent = NULL THEN NULL
            ELSE [words |-> sent.words,
                  text |-> IF Len(sent.pieces) = 1 THEN sent.pieces[1] ELSE "several"]

(* Every request is answered as a table would answer it, with that answer  *)
(* and nothing else, whichever of the two hash tables an entry is in, and  *)
(* whatever has been freed and allocated again in the meantime             *)
(* (command.c:163-236).                                                    *)
ImplementsTable == Table!Spec
=============================================================================
