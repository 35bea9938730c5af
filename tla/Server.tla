------------------------------- MODULE Server -------------------------------
(***************************************************************************)
(* The server: the select() loop of src/net.c, the table of clients of     *)
(* src/client.c and the commands of src/command.c.  One thread serves the  *)
(* descriptors select() reported, in ascending order, while the peers at   *)
(* the other ends connect, send, hang up and reset as they like.           *)
(*                                                                         *)
(* The state of the program is one record, server, and the C functions     *)
(* are operators from a record to the record they leave behind.            *)
(*                                                                         *)
(* Memory.  Every word of a request becomes an sds string on the heap, and *)
(* who owns it moves about: the argv of the client, the database, nobody.  *)
(* heap[id] is the word a string holds, NULL once it is freed; malloc      *)
(* hands out the lowest free ids, so a freed string is soon another one.   *)
(* The value object of an entry is one allocation with its string.         *)
(*                                                                         *)
(* The database is the map that module Dict implements.  Words are model   *)
(* values or names of commands; a request is whatever words one recv()     *)
(* returns, for lines mean nothing to the parser.  num_clients, recv_size, *)
(* reply_size and cmd carry nothing from one request to the next.          *)
(***************************************************************************)
EXTENDS Integers, FiniteSets, SequencesExt

CONSTANTS
  NULL,
  Fds,          \* descriptors accept() can return: from socket_fd + 1 up to the limit
  Keys, Vals,   \* the words peers send as keys and as values
  Lines,        \* the lines peers send, sequences of words
  Hollow,       \* the values whose sds_len is 0 (64 or 256 characters, sds.c:36-43)
  Blank,        \* white space sent on its own
  MaxArg,       \* CLIENT_MAX_ARG
  MaxPeers,     \* bound on the peers connected or connecting
  MaxPending,   \* bound on the words under way to the server on one connection
  MaxStrings,   \* bound on the strings on the heap
  MaxBase,      \* bound on how often server.clients is moved
  Resets        \* whether peers reset connections

(* cmd_table: the commands and how many words each has.                    *)
Arity == [get |-> 2, set |-> 3, del |-> 2, exist |-> 2, exit |-> 1, time |-> 1]

ASSUME DescriptorAssumption == IsFiniteSet(Fds) /\ Fds = 4..(3 + Cardinality(Fds))

Words == Keys \cup Vals \cup DOMAIN Arity \cup {Blank} \cup UNION {ToSet(line) : line \in Lines}

Texts == Vals \cup {"missing", "present", "ok", "no", "yes", "time", "error", "none"}

ASSUME WordAssumption == /\ Blank \notin Keys \cup Vals \cup DOMAIN Arity
                         /\ Hollow \subseteq Vals

(* A command is followed by the key and the value it is about.             *)
Complete(words) ==
  \A p \in DOMAIN words :
    /\ words[p] \in {"get", "set", "del", "exist"} =>
         p + 1 \in DOMAIN words /\ words[p + 1] \in Keys
    /\ words[p] = "set" => p + 2 \in DOMAIN words /\ words[p + 2] \in Vals

(* The lines of a peer are complete; what recv() makes of them is another  *)
(* matter.                                                                 *)
ASSUME LinesAssumption == \A line \in Lines : line \in Seq(Words) /\ Complete(line)

(* The cells below the array are not modelled: nobody reaches them before  *)
(* server.clients has been moved further than the lowest descriptor.       *)
ASSUME BoundsAssumption == /\ MaxBase \in 0..4
                           /\ MaxStrings \in Nat /\ MaxPeers \in Nat

VARIABLES
  server,    \* the global arena_server, with the heap
  pc,        \* where the loop of net_loop is
  read_fds,  \* what select() reported and is not served yet
  conn,      \* the kernel's sockets: the state of each and what has arrived on it
  backlog,   \* connections waiting to be accepted
  reply,     \* history: the answer of the last step, NULL if it gave none
  leaked     \* history: a string has become unreachable

vars == <<server, pc, read_fds, conn, backlog, reply, leaked>>

-----------------------------------------------------------------------------
(* Sockets. *)

Closed == [state |-> "closed", inbox |-> <<>>]

Established == [state |-> "up", inbox |-> <<>>]

Open(fd) == conn[fd].state # "closed"

Readable == {fd \in server.active_fds : conn[fd].inbox # <<>> \/ conn[fd].state # "up"}

FreeFds == {fd \in Fds : ~Open(fd)}

(* send() succeeds as long as no reset has come back: also to a peer that  *)
(* has hung up.                                                            *)
Sendable(fd) == conn[fd].state \in {"up", "hungup"}

-----------------------------------------------------------------------------
(* Strings. *)

Ids == 1..MaxStrings

Unread == "unread"

FreeIds(s) == {id \in Ids : s.heap[id] = NULL}

Nth(S, j) == CHOOSE e \in S : Cardinality({f \in S : f < e}) = j - 1

Allocated(s, n) == [j \in 1..n |-> Nth(FreeIds(s), j)]

(* sds_free of each string; NULL is skipped, and free() ends the process   *)
(* when the string has been freed before.                                  *)
Free(s, strings) ==
  LET ids == ToSet(strings) \ {NULL}
  IN  [s EXCEPT !.up = @ /\ ids \cap FreeIds(s) = {},
                !.heap = [id \in Ids |-> IF id \in ids THEN NULL ELSE @[id]]]

Owned(s) == UNION {ToSet(s.db[key]) : key \in {k \in Keys : s.db[k] # NULL}}

Held(s) == UNION {ToSet(s.clients[i].argv) : i \in {j \in DOMAIN s.clients : s.clients[j] # NULL}}

(* The end of a request.  What nobody can reach any more is lost, and its  *)
(* id may as well be reused; of the arguments that are kept the words are  *)
(* never read again.  A request that would move server.clients beyond its  *)
(* bound is cut off here, the others go on.                                *)
Commit(new) ==
  /\ new.base <= MaxBase
  /\ \E s \in {new} :
       LET lost == Ids \ (FreeIds(s) \cup Owned(s) \cup Held(s))
           unread == Held(s) \ (FreeIds(s) \cup Owned(s))
       IN  /\ server' = [s EXCEPT !.heap = [id \in Ids |-> CASE id \in lost -> NULL
                                                            [] id \in unread -> Unread
                                                            [] OTHER -> @[id]]]
           /\ leaked' = (leaked \/ lost # {})

-----------------------------------------------------------------------------
(* The table of clients.  server.clients is a pointer into an array that   *)
(* starts with FD_SETSIZE null pointers; base says how far below the start *)
(* of the array it points, so that clients[fd] is element fd - base.       *)

Cells == 0..Max(Fds)

CellOf(s, fd) == fd - s.base

Client == [fd : Fds, argv : Seq(Ids \cup {NULL}), first : {"unset", "kept", "freed"}]

Answer == [from : Fds, to : Fds, words : Seq(Words), text : Texts, sent : BOOLEAN]

(* What a null pointer is told apart from.                                 *)
ASSUME NullAssumption == /\ NULL \notin Words \cup {Unread}
                         /\ NULL \notin Ids /\ NULL \notin Ids \X Ids
                         /\ NULL \notin Client /\ NULL \notin Answer
                         /\ NULL \notin [words : Seq(Words), text : Texts]

(* client_register.  The memory malloc returns is not cleared: argv[0] is  *)
(* whatever was there.                                                     *)
NewClient(fd) == [fd |-> fd, argv |-> <<>>, first |-> "unset"]

Registered(s, fd) == [s EXCEPT !.clients[CellOf(s, fd)] = NewClient(fd)]

(* client_unregister                                                       *)
Unregistered(s, fd) ==
  LET c == s.clients[CellOf(s, fd)]
  IN  IF c = NULL THEN [s EXCEPT !.up = FALSE]
      ELSE [Free(s, c.argv) EXCEPT !.base = @ + 1]

-----------------------------------------------------------------------------
(* Requests. *)

(* command_parse_client_args                                               *)
Parsed(s, i, words) ==
  LET ids == Allocated(s, Len(words))
      at(id) == words[CHOOSE n \in DOMAIN ids : ids[n] = id]
  IN  [s EXCEPT !.heap = [id \in Ids |-> IF id \in ToSet(ids) THEN at(id) ELSE @[id]],
                !.clients[i].argv = ids,
                !.clients[i].first = IF words = <<>> THEN @ ELSE "kept"]

(* command_free_client_args                                                *)
ArgsFreed(s, i) ==
  [Free(s, s.clients[i].argv) EXCEPT !.clients[i].argv = <<>>, !.clients[i].first = "freed"]

Sent(fd, text) == Sendable(fd) /\ text \notin Hollow

(* net_client_reply_flush: when send() fails, or there is nothing to send, *)
(* the client is unregistered and no longer watched, but not closed.       *)
Flushed(s, fd, text) ==
  IF Sent(fd, text) THEN s
  ELSE [Unregistered(s, fd) EXCEPT !.active_fds = @ \ {fd}]

(* The commands.  Each is given the server with the request parsed, and    *)
(* leaves [server, text].                                                  *)
Outcome(s, text) == [server |-> s, text |-> text]

ValueAt(s, key) == s.heap[s.db[key][2]]

CmdGet(s, key) == Outcome(s, IF s.db[key] = NULL THEN "missing" ELSE ValueAt(s, key))

(* Mutant: the strings stay in argv as well.                               *)
CmdSetKeepsArgs(s, i, key) ==
  LET argv == s.clients[i].argv
  IN  IF s.db[key] # NULL THEN Outcome(s, "present")
      ELSE Outcome([s EXCEPT !.db[key] = <<argv[2], argv[3]>>], "ok")

(* Mutant: argv is read after it has been cleared.                         *)
CmdSetReadsLate(s, i, key) ==
  LET given == [s EXCEPT !.clients[i].argv = <<@[1], NULL, NULL>>]
      argv == given.clients[i].argv
  IN  IF s.db[key] # NULL THEN Outcome(given, "present")
      ELSE Outcome([given EXCEPT !.db[key] = <<argv[2], argv[3]>>], "ok")

(* Mutant: a key that is there gets the new value.                         *)
CmdSetReplaces(s, i, key) ==
  LET argv == s.clients[i].argv
      given == [s EXCEPT !.clients[i].argv = <<argv[1], NULL, NULL>>]
  IN  Outcome([given EXCEPT !.db[key] = <<argv[2], argv[3]>>], "ok")

(* SET hands its argument strings over to the database, and takes them out *)
(* of argv; when the key is there already nobody frees them.               *)
CmdSet(s, i, key) ==
  LET argv == s.clients[i].argv
      given == [s EXCEPT !.clients[i].argv = <<argv[1], NULL, NULL>>]
  IN  IF s.db[key] # NULL THEN Outcome(given, "present")
      ELSE Outcome([given EXCEPT !.db[key] = <<argv[2], argv[3]>>], "ok")

CmdDel(s, key) ==
  IF s.db[key] = NULL THEN Outcome(s, "missing")
  ELSE Outcome([Free(s, s.db[key]) EXCEPT !.db[key] = NULL], "ok")

CmdExist(s, key) == Outcome(s, IF s.db[key] = NULL THEN "no" ELSE "yes")

Executed(s, i, words) ==
  CASE words[1] = "get"   -> CmdGet(s, words[2])
    [] words[1] = "set"   -> CmdSet(s, i, words[2])
    [] words[1] = "del"   -> CmdDel(s, words[2])
    [] words[1] = "exist" -> CmdExist(s, words[2])
    [] words[1] = "time"  -> Outcome(s, "time")

WellFormed(words) == /\ words # <<>>
                     /\ words[1] \in DOMAIN Arity
                     /\ Len(words) = Arity[words[1]]

-----------------------------------------------------------------------------
(* The loop. *)

Init == /\ server = [clients    |-> [i \in Cells |-> NULL],
                     base       |-> 0,
                     active_fds |-> {},
                     db         |-> [key \in Keys |-> NULL],
                     heap       |-> [id \in Ids |-> NULL],
                     up         |-> TRUE]
        /\ pc = "select"
        /\ read_fds = {}
        /\ conn = [fd \in Fds |-> Closed]
        /\ backlog = 0
        /\ reply = NULL
        /\ leaked = FALSE

(* select() blocks until something is readable.                            *)
Select == /\ pc = "select"
          /\ Readable # {} \/ backlog > 0
          /\ read_fds' = Readable
          /\ pc' = IF backlog > 0 THEN "accept" ELSE "serve"
          /\ reply' = NULL
          /\ UNCHANGED <<server, conn, backlog, leaked>>

(* "exit" typed at the server's own terminal.                              *)
StdinExit == /\ pc = "select"
             /\ pc' = "exited"
             /\ UNCHANGED <<server, read_fds, conn, backlog, reply, leaked>>

(* accept() returns the lowest free descriptor.                            *)
Accept == /\ pc = "accept"
          /\ FreeFds # {}
          /\ LET fd == Min(FreeFds)
                 s == Registered(server, fd)
             IN  /\ conn' = [conn EXCEPT ![fd] = Established]
                 /\ Commit([s EXCEPT !.active_fds = @ \cup {fd}])
          /\ backlog' = backlog - 1
          /\ pc' = IF read_fds = {} THEN "select" ELSE "serve"
          /\ UNCHANGED <<read_fds, reply>>

(* Without a free descriptor accept() fails, and the loop starts over.     *)
AcceptFails == /\ pc = "accept"
               /\ FreeFds = {}
               /\ pc' = "select"
               /\ read_fds' = {}
               /\ UNCHANGED <<server, conn, backlog, reply, leaked>>

ServedNow(fd) == pc = "serve" /\ fd = Min(read_fds)

(* Mutant: the loop starts over after one client.                          *)
ProceedOnce(fd) == /\ read_fds' = {}
                   /\ pc' = IF ~server'.up THEN "aborted" ELSE "select"
                   /\ UNCHANGED backlog

Proceed(fd) == /\ read_fds' = read_fds \ {fd}
               /\ pc' = IF ~server'.up THEN "aborted"
                        ELSE IF read_fds' = {} THEN "select" ELSE "serve"
               /\ UNCHANGED backlog

ClientOf(fd) == server.clients[CellOf(server, fd)]

(* Mutant: a client that leaves is unregistered.                           *)
UnwatchedUnregistered(s, fd) == [Unregistered(s, fd) EXCEPT !.active_fds = @ \ {fd}]

(* Mutant: the descriptor stays in active_fds.                             *)
UnwatchedNever(s, fd) == s

(* FD_CLR                                                                  *)
Unwatched(s, fd) == [s EXCEPT !.active_fds = @ \ {fd}]

(* recv() returns 0 when the peer is gone, and -1 when the connection is   *)
(* reset or closed, or there is no client to receive into.                 *)
RecvNone(fd) ==
  /\ ServedNow(fd)
  /\ conn[fd].inbox = <<>> \/ ClientOf(fd) = NULL
  /\ conn' = [conn EXCEPT ![fd] = Closed]
  /\ server' = Unwatched(server, fd)
  /\ reply' = NULL
  /\ Proceed(fd)
  /\ UNCHANGED leaked

(* recv() returns some of what has arrived.  The words are those between   *)
(* the white space, wherever the lines ended.                              *)
Received(fd, n) ==
  /\ ServedNow(fd)
  /\ ClientOf(fd) # NULL
  /\ n \in DOMAIN conn[fd].inbox

WordsIn(fd, n) ==
  LET at == {p \in 1..n : conn[fd].inbox[p] # Blank}
  IN  [j \in 1..Cardinality(at) |-> conn[fd].inbox[Nth(at, j)]]

Taken(fd, n) == [conn EXCEPT ![fd].inbox = SubSeq(@, n + 1, Len(@))]

Room(words) == Cardinality(FreeIds(server)) >= Len(words)

(* The answer, and whether it has left the server.                         *)
Answered(fd, words, text) ==
  reply' = [from |-> fd, to |-> ClientOf(fd).fd, words |-> words, text |-> text,
            sent |-> Sent(ClientOf(fd).fd, text)]

(* command_process for words that are no command: the arguments stay.      *)
Refuse(fd, n) ==
  LET i == CellOf(server, fd)
      words == WordsIn(fd, n)
  IN  /\ Received(fd, n)
      /\ words # <<>> /\ ~WellFormed(words) /\ Len(words) <= MaxArg
      /\ Room(words)
      /\ Commit(Flushed(Parsed(server, i, words), ClientOf(fd).fd, "error"))
      /\ conn' = Taken(fd, n)
      /\ Answered(fd, <<>>, "error")
      /\ Proceed(fd)

(* command_process when there was only white space.  argv[0] is not reset: *)
(* it is taken for the name of a command, unless the memory malloc         *)
(* returned for the client happened to be zero there.                      *)
NoCommand(fd, n) ==
  LET i == CellOf(server, fd)
  IN  /\ Received(fd, n)
      /\ WordsIn(fd, n) = <<>>
      /\ Room(<<>>)
      /\ \E text \in {"error"} \cup (IF ClientOf(fd).first = "unset" THEN {"none"} ELSE {}) :
           /\ Commit(Flushed(Parsed(server, i, <<>>), ClientOf(fd).fd, text))
           /\ Answered(fd, <<>>, text)
      /\ conn' = Taken(fd, n)
      /\ Proceed(fd)

(* command_process for every command but EXIT.                             *)
Command(fd, n) ==
  LET i == CellOf(server, fd)
      words == WordsIn(fd, n)
  IN  /\ Received(fd, n)
      /\ WellFormed(words) /\ words[1] # "exit"
      /\ Room(words)
      /\ \E parsed \in {Parsed(server, i, words)} :
           \E outcome \in {Executed(parsed, i, words)} :
             /\ Commit(ArgsFreed(Flushed(outcome.server, ClientOf(fd).fd, outcome.text), i))
             /\ Answered(fd, words, outcome.text)
      /\ conn' = Taken(fd, n)
      /\ Proceed(fd)

(* command_process for EXIT: the client is closed, and answered nothing.   *)
Exit(fd, n) ==
  LET i == CellOf(server, fd)
  IN  /\ Received(fd, n)
      /\ WordsIn(fd, n) = <<"exit">>
      /\ Room(<<"exit">>)
      /\ Commit(ArgsFreed(Unwatched(Parsed(server, i, <<"exit">>), ClientOf(fd).fd), i))
      /\ conn' = [Taken(fd, n) EXCEPT ![ClientOf(fd).fd] = Closed]
      /\ reply' = NULL
      /\ Proceed(fd)

(* The process ends within command_process: the assertion on the number of *)
(* words, a stray argv[0], or a send() that raises SIGPIPE.                *)
Die(fd, n) ==
  /\ Received(fd, n)
  /\ \/ Len(WordsIn(fd, n)) > MaxArg
     \/ WordsIn(fd, n) = <<>> /\ ClientOf(fd).first # "kept"
     \/ WordsIn(fd, n) # <<"exit">> /\ conn[ClientOf(fd).fd].state = "reset"
  /\ pc' = "aborted"
  /\ UNCHANGED <<server, read_fds, conn, backlog, reply, leaked>>

Serve(fd) == \/ RecvNone(fd)
             \/ \E n \in 1..MaxPending : \/ Refuse(fd, n) \/ NoCommand(fd, n)
                                         \/ Command(fd, n) \/ Exit(fd, n) \/ Die(fd, n)

Loop == Select \/ Accept \/ AcceptFails \/ \E fd \in Fds : Serve(fd)

-----------------------------------------------------------------------------
(* The peers, as long as the server runs. *)

Running == pc \notin {"exited", "aborted"}

Connect == /\ Running
           /\ backlog + Cardinality(Fds \ FreeFds) < MaxPeers
           /\ backlog' = backlog + 1
           /\ UNCHANGED <<server, pc, read_fds, conn, reply, leaked>>

Peer(fd, socket) == /\ Running
                    /\ conn' = [conn EXCEPT ![fd] = socket]
                    /\ UNCHANGED <<server, pc, read_fds, backlog, reply, leaked>>

Send(fd, line) ==
  /\ conn[fd].state = "up"
  /\ Len(conn[fd].inbox) + Len(line) <= MaxPending
  /\ Peer(fd, [conn[fd] EXCEPT !.inbox = @ \o line])

HangUp(fd) == /\ conn[fd].state = "up"
              /\ Peer(fd, [conn[fd] EXCEPT !.state = "hungup"])

Reset(fd) == /\ Resets
             /\ conn[fd].state \in {"up", "hungup"}
             /\ Peer(fd, [conn[fd] EXCEPT !.state = "reset"])

Peers == \/ Connect
         \/ \E fd \in Fds : HangUp(fd) \/ Reset(fd) \/ \E line \in Lines : Send(fd, line)

Next == Loop \/ StdinExit \/ Peers

(* The process runs: the loop goes on whenever select() has something to   *)
(* report.  Peers need not do anything.                                    *)
Spec == Init /\ [][Next]_vars /\ WF_vars(Loop)

-----------------------------------------------------------------------------
(* Properties. *)

(* Every variable has its type: for the clients, what a pointer of the     *)
(* array can point to.                                                     *)
ServerTypeOK ==
  /\ server.clients \in [Cells -> Client \cup {NULL}]
  /\ server.base \in 0..MaxBase
  /\ server.active_fds \subseteq Fds /\ read_fds \subseteq Fds
  /\ server.db \in [Keys -> (Ids \X Ids) \cup {NULL}]
  /\ DOMAIN server.heap = Ids
  /\ pc \in {"select", "accept", "serve", "exited", "aborted"}
  /\ \A fd \in Fds : conn[fd].state \in {"closed", "up", "hungup", "reset"}
  /\ backlog \in 0..MaxPeers

(* A connection the server holds open is one it still serves, so that it   *)
(* is closed when its peer goes, and select() is never given a descriptor  *)
(* that is closed, which would end the loop with EBADF                     *)
(* (net.c:112-116, 190-203; net.c:270, "Send() failed. Close client fd").  *)
OpenAreWatched == \A fd \in Fds : Open(fd) <=> fd \in server.active_fds

(* The answer to a request goes to the peer that sent it: client_lookup    *)
(* finds the client of the descriptor it is given (client.c:23, "Lookup a  *)
(* client connection by 'fd'. Used after select() returns").               *)
RepliesReachTheSender == reply # NULL => reply.to = reply.from

(* The strings of the database are its own: none is freed or held by an    *)
(* argv, no two entries share one, and those of an entry are its key and a *)
(* value (command.c:182-201, 122-128).  Once client_unregister has moved   *)
(* the table, a client may free strings that have become somebody else's.  *)
DatabaseOwnsItsStrings ==
  LET bound == {key \in Keys : server.db[key] # NULL}
      string(key, m) == server.db[key][m]
  IN  server.base = 0 =>
        /\ Owned(server) \cap (FreeIds(server) \cup Held(server)) = {}
        /\ \A key, other \in bound, m, n \in 1..2 :
             string(key, m) = string(other, n) => key = other /\ m = n
        /\ \A key \in bound : /\ server.heap[string(key, 1)] = key
                              /\ server.heap[string(key, 2)] \in Vals

(* Nothing is freed twice, neither by a command nor by the clean-up after  *)
(* it, as long as every send() succeeds and client_unregister, which frees *)
(* the arguments as well, is not called                                    *)
(* (command.c:122-128, 182-201, 204-222; client.c:42-50).                  *)
FreedOnce == server.base = 0 => server.up

(* command.c:159, "Free parsed arguments if any": the strings of a request *)
(* do not outlive it unless the database has taken them.                   *)
ArgumentsAreFreed == ~leaked

(* No peer is kept waiting for ever: while a connection has something to   *)
(* read, it is read from again and again (net.c:184-213).                  *)
RequestsServed ==
  \A fd \in Fds :
    \/ []<>~(Running /\ fd \in server.active_fds /\ conn[fd].inbox # <<>>)
    \/ []<><<Len(conn'[fd].inbox) < Len(conn[fd].inbox)>>_vars

-----------------------------------------------------------------------------
(* The server implements the service of module KvService. *)

Service == INSTANCE KvService WITH
  table <- [key \in Keys |-> IF server.db[key] = NULL THEN NULL ELSE ValueAt(server, key)],
  Mute <- Hollow,
  answer <- IF reply = NULL \/ ~reply.sent THEN NULL
            ELSE [words |-> reply.words, text |-> reply.text],
  broken <- Resets /\ (server.base > 0 \/ \E fd \in Fds : conn[fd].state = "reset")

(* Every answer that is sent is the one a table that is read and changed   *)
(* by one command at a time would give, none is lost unless a peer has     *)
(* reset its connection, now or before a send() that failed, or the value  *)
(* reads as empty, and nothing but a command changes the table: not a      *)
(* request that is refused, nor one cut in two by recv(), nor an answer    *)
(* that is lost, nor the reuse of memory that has been freed               *)
(* (command.c:131-280; net.c:265-282).                                     *)
ImplementsService == Service!Spec
=============================================================================
