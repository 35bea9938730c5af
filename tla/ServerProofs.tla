---------------------------- MODULE ServerProofs ----------------------------
(***************************************************************************)
(* Proofs about the server, for any number of descriptors, peers, keys,    *)
(* values and strings.                                                     *)
(*                                                                         *)
(* As long as every send() succeeds - no peer resets, and no value reads   *)
(* as empty - it serves every connection it holds open and answers whom it *)
(* should: nobody is unregistered, so server.clients stays the array it    *)
(* is, and client_lookup finds the client of the descriptor it is given.   *)
(* Where a send() fails, module Server shows what goes wrong.              *)
(*                                                                         *)
(* Without that assumption, and until client_unregister has moved the      *)
(* table, the strings have one owner each: the database, the argv of one   *)
(* client, or malloc (the "memory" sections).  A request passes through    *)
(* states where this holds with one argument list still in use; the        *)
(* lemmas follow the program from one of them to the next.  This invariant *)
(* gives that the server takes the steps of module KvService until then,   *)
(* and that strings are lost in two ways only.                             *)
(***************************************************************************)
EXTENDS Server, FiniteSetTheorems, WellFoundedInduction, TLAPS

SendsSucceed == ~Resets /\ Hollow = {}

IsClient(c, fd) == {"fd", "argv", "first"} \subseteq DOMAIN c /\ c.fd = fd

IsServer(s) == {"clients", "base", "active_fds", "db", "heap", "up"} \subseteq DOMAIN s

(* The table is where it was allocated, and has each client at its place.  *)
TableOK(s) == /\ IsServer(s)
              /\ s.base = 0
              /\ DOMAIN s.clients = Cells
              /\ s.active_fds \subseteq Fds
              /\ \A fd \in s.active_fds : IsClient(s.clients[fd], fd)

Kept(s, t) == TableOK(t) /\ t.active_fds = s.active_fds

IsSocket(c) == /\ {"state", "inbox"} \subseteq DOMAIN c
               /\ c.state \in {"closed", "up", "hungup"}

ServerInv == /\ TableOK(server)
             /\ DOMAIN conn = Fds /\ \A fd \in Fds : IsSocket(conn[fd])
             /\ OpenAreWatched
             /\ read_fds \subseteq server.active_fds
             /\ pc = "serve" => read_fds # {}
             /\ RepliesReachTheSender

-----------------------------------------------------------------------------
LEMMA FdsInCells ==
  Fds \subseteq Nat /\ Fds \subseteq Cells /\ \A fd \in Fds : 0..fd \subseteq Cells
<1> DEFINE n == Cardinality(Fds)
<1>1. n \in Nat /\ Fds = 4..(3 + n)
  BY DescriptorAssumption, FS_CardinalityType
<1> HIDE DEF n
<1>2. Fds \subseteq Nat
  BY <1>1
<1>3. CASE n = 0
  <2>1. Fds = {}
    BY <1>1, <1>3
  <2> QED BY <1>2, <2>1
<1>4. CASE n # 0
  <2>1. 3 + n \in Fds /\ \A fd \in Fds : 3 + n >= fd
    BY <1>1, <1>4
  <2>2. Max(Fds) \in Fds /\ \A fd \in Fds : Max(Fds) >= fd
    BY <2>1 DEF Max
  <2>3. Max(Fds) \in Nat
    BY <1>2, <2>2
  <2>4. \A fd \in Fds : 0..fd \subseteq 0..Max(Fds)
    BY <1>2, <2>2, <2>3
  <2> QED BY <1>2, <2>2, <2>3, <2>4 DEF Cells
<1> QED BY <1>3, <1>4

(* A set of numbers that is not empty has a least one.                     *)
LEMMA LeastOf ==
  ASSUME NEW S, S \subseteq Nat, S # {}
  PROVE  \E n \in S : \A m \in S : n <= m
<1>1. IsWellFoundedOn(OpToRel(<, Nat), Nat)
  BY NatLessThanWellFounded
<1>2. PICK n \in S : \A m \in S : ~(<<m, n>> \in OpToRel(<, Nat))
  BY <1>1, WFMin
<1>3. \A m \in S : ~(m < n)
  BY <1>2 DEF OpToRel
<1> QED BY <1>3

LEMMA LeastFd ==
  ASSUME NEW S, S \subseteq Fds, S # {}
  PROVE  Min(S) \in S
<1>1. S \subseteq Nat
  BY FdsInCells
<1>2. \E n \in S : \A m \in S : n <= m
  BY <1>1, LeastOf
<1> QED BY <1>2 DEF Min

LEMMA CellIsFd == \A s, fd : s.base = 0 /\ fd \in Fds => CellOf(s, fd) = fd
BY FdsInCells DEF CellOf

-----------------------------------------------------------------------------
(* What the steps of a request leave as it is.                             *)

LEMMA HeapKept ==
  ASSUME NEW s, TableOK(s), NEW heap, NEW up
  PROVE  /\ Kept(s, [s EXCEPT !.heap = heap])
         /\ Kept(s, [s EXCEPT !.up = up, !.heap = heap])
BY DEF Kept, TableOK, IsServer

LEMMA FreeKept ==
  ASSUME NEW s, TableOK(s), NEW strings
  PROVE  Kept(s, Free(s, strings))
BY HeapKept DEF Free

LEMMA DbKept ==
  ASSUME NEW s, TableOK(s), NEW key, NEW strings
  PROVE  Kept(s, [s EXCEPT !.db[key] = strings])
BY DEF Kept, TableOK, IsServer

LEMMA ArgvKept ==
  ASSUME NEW s, TableOK(s), NEW i, NEW argv, NEW first
  PROVE  /\ Kept(s, [s EXCEPT !.clients[i].argv = argv])
         /\ Kept(s, [s EXCEPT !.clients[i].argv = argv, !.clients[i].first = first])
<1> DEFINE t == [s EXCEPT !.clients[i].argv = argv]
           u == [s EXCEPT !.clients[i].argv = argv, !.clients[i].first = first]
<1>1. IsServer(t) /\ t.base = s.base /\ t.active_fds = s.active_fds
      /\ t.clients = [s.clients EXCEPT ![i].argv = argv]
  BY DEF TableOK, IsServer
<1>2. IsServer(u) /\ u.base = s.base /\ u.active_fds = s.active_fds
      /\ u.clients = [s.clients EXCEPT ![i].argv = argv, ![i].first = first]
  BY DEF TableOK, IsServer
<1> HIDE DEF t, u
<1>3. DOMAIN t.clients = Cells /\ DOMAIN u.clients = Cells
  BY <1>1, <1>2 DEF TableOK
<1>4. ASSUME NEW fd \in s.active_fds
      PROVE  IsClient(t.clients[fd], fd) /\ IsClient(u.clients[fd], fd)
  <2>1. fd \in DOMAIN s.clients
    BY FdsInCells DEF TableOK
  <2>2. IsClient(s.clients[fd], fd)
    BY DEF TableOK
  <2>3. CASE fd # i
    BY <1>1, <1>2, <2>1, <2>2, <2>3
  <2>4. CASE fd = i
    <3>1. t.clients[fd] = [s.clients[fd] EXCEPT !.argv = argv]
      BY <1>1, <2>1, <2>4
    <3>2. u.clients[fd] = [s.clients[fd] EXCEPT !.argv = argv, !.first = first]
      BY <1>2, <2>1, <2>4
    <3> QED BY <2>2, <3>1, <3>2 DEF IsClient
  <2> QED BY <2>3, <2>4
<1> QED BY <1>1, <1>2, <1>3, <1>4 DEF Kept, TableOK, t, u

LEMMA ParsedKept ==
  ASSUME NEW s, TableOK(s), NEW i, NEW words
  PROVE  Kept(s, Parsed(s, i, words))
<1> DEFINE ids == Allocated(s, Len(words))
           t == Parsed(s, i, words)
<1>1. IsServer(t) /\ t.base = s.base /\ t.active_fds = s.active_fds
  BY DEF TableOK, IsServer, Parsed
<1>2. t.clients = [s.clients EXCEPT ![i].argv = ids,
                                    ![i].first = IF words = <<>> THEN @ ELSE "kept"]
  BY DEF TableOK, IsServer, Parsed
<1> HIDE DEF t, ids
<1>3. DOMAIN t.clients = Cells
  BY <1>2 DEF TableOK
<1>4. ASSUME NEW fd \in s.active_fds
      PROVE  IsClient(t.clients[fd], fd)
  <2>1. fd \in DOMAIN s.clients
    BY FdsInCells DEF TableOK
  <2>2. IsClient(s.clients[fd], fd)
    BY DEF TableOK
  <2>3. CASE fd # i
    BY <1>2, <2>1, <2>2, <2>3
  <2>4. CASE fd = i
    <3>1. t.clients[fd] = [s.clients[fd] EXCEPT !.argv = ids,
                                                !.first = IF words = <<>> THEN @ ELSE "kept"]
      BY <1>2, <2>1, <2>4
    <3> QED BY <2>2, <3>1 DEF IsClient
  <2> QED BY <2>3, <2>4
<1> QED BY <1>1, <1>3, <1>4 DEF Kept, TableOK, t

LEMMA ArgsFreedKept ==
  ASSUME NEW s, TableOK(s), NEW i
  PROVE  Kept(s, ArgsFreed(s, i))
<1> DEFINE t == Free(s, s.clients[i].argv)
<1>1. Kept(s, t) /\ TableOK(t)
  BY FreeKept DEF Kept
<1> HIDE DEF t
<1>2. Kept(t, [t EXCEPT !.clients[i].argv = <<>>, !.clients[i].first = "freed"])
  BY <1>1, ArgvKept
<1> QED BY <1>1, <1>2 DEF ArgsFreed, Kept, t

LEMMA ExecutedKept ==
  ASSUME NEW s, TableOK(s), NEW i, NEW words, WellFormed(words), words[1] # "exit"
  PROVE  Kept(s, Executed(s, i, words).server)
<1> DEFINE key == words[2]
<1>1. Kept(s, s)
  BY DEF Kept
<1>2. Kept(s, CmdGet(s, key).server) /\ Kept(s, CmdExist(s, key).server)
  BY <1>1 DEF CmdGet, CmdExist, Outcome
<1>3. Kept(s, CmdSet(s, i, key).server)
  <2> DEFINE argv == s.clients[i].argv
             rest == <<argv[1], NULL, NULL>>
             given == [s EXCEPT !.clients[i].argv = rest]
             bound == [given EXCEPT !.db[key] = <<argv[2], argv[3]>>]
  <2>1. Kept(s, given) /\ TableOK(given)
    <3> HIDE DEF rest
    <3>1. /\ Kept(s, [s EXCEPT !.clients[i].argv = rest])
          /\ Kept(s, [s EXCEPT !.clients[i].argv = rest, !.clients[i].first = NULL])
      BY ArgvKept
    <3> QED BY <3>1 DEF Kept
  <2> HIDE DEF given
  <2>2. Kept(given, bound)
    BY <2>1, DbKept
  <2> HIDE DEF bound
  <2>3. CmdSet(s, i, key).server \in {given, bound}
    BY DEF CmdSet, Outcome, given, bound
  <2> QED BY <2>1, <2>2, <2>3 DEF Kept
<1>4. Kept(s, CmdDel(s, key).server)
  <2> DEFINE t == Free(s, s.db[key])
             unbound == [t EXCEPT !.db[key] = NULL]
  <2>1. Kept(s, t) /\ TableOK(t)
    BY FreeKept DEF Kept
  <2> HIDE DEF t
  <2>2. Kept(t, unbound)
    BY <2>1, DbKept
  <2> HIDE DEF unbound
  <2>3. CmdDel(s, key).server \in {s, unbound}
    BY DEF CmdDel, Outcome, unbound, t
  <2> QED BY <1>1, <2>1, <2>2, <2>3 DEF Kept
<1>5. words[1] \in {"get", "set", "del", "exist", "time"}
  BY DEF WellFormed, Arity
<1> QED BY <1>1, <1>2, <1>3, <1>4, <1>5 DEF Executed, Outcome

LEMMA CommitKept ==
  ASSUME NEW s, TableOK(s), Commit(s)
  PROVE  Kept(s, server')
<1>1. PICK heap : server' = [s EXCEPT !.heap = heap]
  BY DEF Commit
<1> QED BY <1>1, HeapKept

LEMMA UnwatchedOk ==
  ASSUME NEW s, TableOK(s), NEW fd
  PROVE  TableOK(Unwatched(s, fd)) /\ Unwatched(s, fd).active_fds = s.active_fds \ {fd}
BY DEF Unwatched, TableOK, IsServer

-----------------------------------------------------------------------------
(* The loop. *)

LEMMA ServedFd ==
  ASSUME ServerInv, NEW fd \in Fds, ServedNow(fd)
  PROVE  /\ fd \in read_fds /\ fd \in server.active_fds
         /\ CellOf(server, fd) = fd /\ ClientOf(fd).fd = fd
         /\ conn[fd].state \in {"up", "hungup"}
<1>1. read_fds # {} /\ read_fds \subseteq Fds /\ TableOK(server)
  BY DEF ServerInv, ServedNow, TableOK
<1>2. fd \in read_fds /\ fd \in server.active_fds
  BY <1>1, LeastFd DEF ServedNow, ServerInv
<1>3. CellOf(server, fd) = fd
  BY <1>1, CellIsFd DEF TableOK
<1>4. ClientOf(fd).fd = fd
  BY <1>1, <1>2, <1>3 DEF TableOK, IsClient, ClientOf
<1>5. conn[fd].state \in {"up", "hungup"}
  BY <1>2 DEF ServerInv, IsSocket, OpenAreWatched, Open
<1> QED BY <1>2, <1>3, <1>4, <1>5

(* What a step leaves when the sockets keep their states and the answer,   *)
(* if there is one, goes to the sender.                                    *)
LEMMA SameSockets ==
  ASSUME ServerInv, Kept(server, server'),
         DOMAIN conn' = Fds, \A fd \in Fds : IsSocket(conn'[fd]),
         \A fd \in Fds : (conn'[fd].state = "closed") <=> (conn[fd].state = "closed"),
         read_fds' \subseteq read_fds \/ read_fds' \subseteq server.active_fds,
         pc' = "serve" => read_fds' # {},
         RepliesReachTheSender'
  PROVE  ServerInv'
BY DEF ServerInv, Kept, OpenAreWatched, Open

LEMMA TakenOk ==
  ASSUME ServerInv, NEW fd \in Fds, NEW n
  PROVE  /\ DOMAIN Taken(fd, n) = Fds
         /\ \A other \in Fds : /\ IsSocket(Taken(fd, n)[other])
                               /\ Taken(fd, n)[other].state = conn[other].state
BY DEF ServerInv, Taken, IsSocket

LEMMA FlushedOk ==
  ASSUME ServerInv, SendsSucceed, NEW fd \in Fds, ServedNow(fd), NEW s, NEW text
  PROVE  Flushed(s, ClientOf(fd).fd, text) = s
BY ServedFd DEF Flushed, Sent, Sendable, SendsSucceed

LEMMA ProceedOk ==
  ASSUME NEW fd, Proceed(fd)
  PROVE  read_fds' = read_fds \ {fd} /\ (pc' = "serve" => read_fds' # {})
BY DEF Proceed

LEMMA RefuseOk ==
  ASSUME ServerInv, SendsSucceed, NEW fd \in Fds, NEW n, Refuse(fd, n) \/ NoCommand(fd, n)
  PROVE  ServerInv'
<1>1. /\ ServedNow(fd) /\ conn' = Taken(fd, n) /\ Proceed(fd)
  BY DEF Refuse, NoCommand, Received
<1>2. PICK words, text : /\ Commit(Flushed(Parsed(server, CellOf(server, fd), words), ClientOf(fd).fd, text))
                        /\ Answered(fd, <<>>, text)
  BY DEF Refuse, NoCommand
<1> DEFINE s == Parsed(server, CellOf(server, fd), words)
<1>3. Kept(server, s) /\ TableOK(s)
  BY ParsedKept DEF Kept, ServerInv
<1> HIDE DEF s
<1>4. Commit(s)
  BY <1>1, <1>2, FlushedOk DEF s
<1>5. Kept(server, server')
  BY <1>3, <1>4, CommitKept DEF Kept
<1>6. RepliesReachTheSender'
  BY <1>1, <1>2, ServedFd DEF Answered, RepliesReachTheSender
<1>7. read_fds' \subseteq read_fds /\ (pc' = "serve" => read_fds' # {})
  BY <1>1, ProceedOk
<1> QED BY <1>1, <1>5, <1>6, <1>7, TakenOk, SameSockets

LEMMA CommandOk ==
  ASSUME ServerInv, SendsSucceed, NEW fd \in Fds, NEW n, Command(fd, n)
  PROVE  ServerInv'
<1> DEFINE i == CellOf(server, fd)
           words == WordsIn(fd, n)
           parsed == Parsed(server, i, words)
           outcome == Executed(parsed, i, words)
<1>1. /\ ServedNow(fd) /\ conn' = Taken(fd, n) /\ Proceed(fd)
      /\ WellFormed(words) /\ words[1] # "exit"
      /\ Commit(ArgsFreed(Flushed(outcome.server, ClientOf(fd).fd, outcome.text), i))
      /\ Answered(fd, words, outcome.text)
  BY DEF Command, Received
<1>2. Kept(server, parsed) /\ TableOK(parsed)
  BY ParsedKept DEF Kept, ServerInv
<1>3. Kept(parsed, outcome.server) /\ TableOK(outcome.server)
  BY <1>1, <1>2, ExecutedKept DEF Kept
<1>4. Flushed(outcome.server, ClientOf(fd).fd, outcome.text) = outcome.server
  BY <1>1, FlushedOk
<1> HIDE DEF outcome, parsed, words
<1>5. Kept(outcome.server, ArgsFreed(outcome.server, i)) /\ TableOK(ArgsFreed(outcome.server, i))
  BY <1>3, ArgsFreedKept DEF Kept
<1>6. Kept(server, server')
  BY <1>1, <1>2, <1>3, <1>4, <1>5, CommitKept DEF Kept
<1>7. RepliesReachTheSender'
  BY <1>1, ServedFd DEF Answered, RepliesReachTheSender
<1>8. read_fds' \subseteq read_fds /\ (pc' = "serve" => read_fds' # {})
  BY <1>1, ProceedOk
<1> QED BY <1>1, <1>6, <1>7, <1>8, TakenOk, SameSockets

(* The descriptor of a client that leaves is closed and no longer watched. *)
LEMMA LeavesOk ==
  ASSUME ServerInv, NEW fd \in Fds, NEW s, TableOK(s), s.active_fds = server.active_fds \ {fd},
         Kept(s, server'),
         DOMAIN conn' = Fds, conn'[fd] = Closed,
         \A other \in Fds \ {fd} : IsSocket(conn'[other]) /\ conn'[other].state = conn[other].state,
         reply' = NULL, Proceed(fd)
  PROVE  ServerInv'
<1>1. server'.active_fds = server.active_fds \ {fd} /\ TableOK(server')
  BY DEF Kept
<1>2. IsSocket(Closed) /\ Closed.state = "closed"
  BY DEF IsSocket, Closed
<1>3. OpenAreWatched'
  BY <1>1, <1>2 DEF ServerInv, OpenAreWatched, Open
<1>4. \A other \in Fds : IsSocket(conn'[other])
  BY <1>2
<1>5. read_fds' \subseteq server'.active_fds /\ (pc' = "serve" => read_fds' # {})
  BY <1>1, ProceedOk DEF ServerInv
<1> QED BY <1>1, <1>3, <1>4, <1>5 DEF ServerInv, RepliesReachTheSender

LEMMA RecvNoneOk ==
  ASSUME ServerInv, NEW fd \in Fds, RecvNone(fd)
  PROVE  ServerInv'
<1>1. TableOK(server') /\ server'.active_fds = server.active_fds \ {fd}
  BY UnwatchedOk DEF ServerInv, RecvNone
<1>2. DOMAIN conn' = Fds /\ conn'[fd] = Closed
      /\ \A other \in Fds \ {fd} : IsSocket(conn'[other]) /\ conn'[other].state = conn[other].state
  BY DEF RecvNone, ServerInv
<1>3. Kept(server', server')
  BY <1>1 DEF Kept
<1> QED BY <1>1, <1>2, <1>3, LeavesOk DEF RecvNone

LEMMA ExitOk ==
  ASSUME ServerInv, NEW fd \in Fds, NEW n, Exit(fd, n)
  PROVE  ServerInv'
<1> DEFINE i == CellOf(server, fd)
           parsed == Parsed(server, i, <<"exit">>)
           s == Unwatched(parsed, fd)
<1>1. /\ ServedNow(fd) /\ Proceed(fd) /\ reply' = NULL
      /\ Commit(ArgsFreed(Unwatched(parsed, ClientOf(fd).fd), i))
      /\ conn' = [Taken(fd, n) EXCEPT ![ClientOf(fd).fd] = Closed]
  BY DEF Exit, Received
<1>2. ClientOf(fd).fd = fd
  BY <1>1, ServedFd
<1>3. Kept(server, parsed) /\ TableOK(parsed)
  BY ParsedKept DEF Kept, ServerInv
<1>4. TableOK(s) /\ s.active_fds = server.active_fds \ {fd}
  BY <1>3, UnwatchedOk DEF Kept
<1> HIDE DEF s, parsed
<1>5. Kept(s, ArgsFreed(s, i)) /\ TableOK(ArgsFreed(s, i))
  BY <1>4, ArgsFreedKept DEF Kept
<1>6. Kept(s, server')
  BY <1>1, <1>2, <1>5, CommitKept DEF Kept, s
<1>7. /\ DOMAIN conn' = Fds /\ conn'[fd] = Closed
      /\ \A other \in Fds \ {fd} : IsSocket(conn'[other]) /\ conn'[other].state = conn[other].state
  BY <1>1, <1>2, TakenOk
<1> QED BY <1>1, <1>4, <1>6, <1>7, LeavesOk

LEMMA DieOk ==
  ASSUME ServerInv, NEW fd \in Fds, NEW n, Die(fd, n)
  PROVE  ServerInv'
BY DEF Die, ServerInv, OpenAreWatched, Open, RepliesReachTheSender

LEMMA SelectOk ==
  ASSUME ServerInv, Select
  PROVE  ServerInv'
<1>1. /\ read_fds' = Readable /\ (pc' = "serve" => read_fds' # {})
      /\ reply' = NULL /\ UNCHANGED <<server, conn>>
  BY DEF Select
<1>2. Readable \subseteq server.active_fds
  BY DEF Readable
<1> QED BY <1>1, <1>2 DEF ServerInv, OpenAreWatched, Open, RepliesReachTheSender

LEMMA AcceptOk ==
  ASSUME ServerInv, Accept
  PROVE  ServerInv'
<1> DEFINE fd == Min(FreeFds)
           s == Registered(server, fd)
           t == [s EXCEPT !.active_fds = @ \cup {fd}]
<1>1. /\ conn' = [conn EXCEPT ![fd] = Established] /\ Commit(t)
      /\ (pc' = "serve" => read_fds # {}) /\ UNCHANGED <<read_fds, reply>>
  BY DEF Accept
<1>2. fd \in FreeFds
  BY LeastFd DEF Accept, FreeFds
<1>3. fd \in Fds /\ fd \notin server.active_fds
  BY <1>2 DEF FreeFds, ServerInv, OpenAreWatched
<1> HIDE DEF fd
<1>4. CellOf(server, fd) = fd /\ fd \in Cells
  BY <1>3, CellIsFd, FdsInCells DEF ServerInv, TableOK
<1>5. TableOK(t) /\ t.active_fds = server.active_fds \cup {fd}
  <2>1. /\ IsServer(t) /\ t.base = 0 /\ t.active_fds = server.active_fds \cup {fd}
        /\ t.clients = [server.clients EXCEPT ![fd] = NewClient(fd)]
    BY <1>4 DEF ServerInv, TableOK, IsServer, Registered
  <2>2. IsClient(NewClient(fd), fd)
    BY DEF IsClient, NewClient
  <2> HIDE DEF t
  <2>3. DOMAIN t.clients = Cells /\ t.active_fds \subseteq Fds
    BY <1>3, <2>1 DEF ServerInv, TableOK
  <2>4. ASSUME NEW other \in t.active_fds PROVE IsClient(t.clients[other], other)
    <3>1. other \in DOMAIN server.clients
      BY <2>3, FdsInCells DEF ServerInv, TableOK
    <3>2. CASE other = fd
      BY <2>1, <2>2, <3>1, <3>2
    <3>3. CASE other # fd
      BY <2>1, <3>1, <3>3 DEF ServerInv, TableOK
    <3> QED BY <3>2, <3>3
  <2> QED BY <2>1, <2>3, <2>4 DEF TableOK
<1> HIDE DEF t
<1>6. TableOK(server') /\ server'.active_fds = server.active_fds \cup {fd}
  BY <1>1, <1>5, CommitKept DEF Kept
<1>7. IsSocket(Established) /\ Established.state # "closed"
  BY DEF IsSocket, Established
<1>8. DOMAIN conn' = Fds /\ conn'[fd] = Established /\ \A other \in Fds \ {fd} : conn'[other] = conn[other]
  BY <1>1, <1>3 DEF ServerInv
<1>9. OpenAreWatched' /\ \A other \in Fds : IsSocket(conn'[other])
  BY <1>6, <1>7, <1>8 DEF ServerInv, OpenAreWatched, Open
<1>10. read_fds' \subseteq server'.active_fds /\ (pc' = "serve" => read_fds' # {})
  BY <1>1, <1>6 DEF ServerInv
<1>11. RepliesReachTheSender'
  BY <1>1 DEF ServerInv, RepliesReachTheSender
<1> QED BY <1>6, <1>8, <1>9, <1>10, <1>11 DEF ServerInv

LEMMA AcceptFailsOk ==
  ASSUME ServerInv, AcceptFails \/ StdinExit \/ Connect
  PROVE  ServerInv'
BY DEF AcceptFails, StdinExit, Connect, ServerInv, OpenAreWatched, Open, RepliesReachTheSender

LEMMA PeerOk ==
  ASSUME ServerInv, SendsSucceed, NEW fd \in Fds,
         HangUp(fd) \/ Reset(fd) \/ \E line \in Lines : Send(fd, line)
  PROVE  ServerInv'
<1>1. ~Reset(fd)
  BY DEF Reset, SendsSucceed
<1>2. /\ conn[fd].state = "up" /\ UNCHANGED <<server, pc, read_fds, reply>>
      /\ \E socket : conn' = [conn EXCEPT ![fd] = socket] /\ IsSocket(socket) /\ socket.state # "closed"
  BY <1>1 DEF HangUp, Send, Peer, ServerInv, IsSocket
<1>3. Kept(server, server')
  BY <1>2 DEF Kept, ServerInv
<1> QED BY <1>2, <1>3, SameSockets DEF ServerInv, RepliesReachTheSender

LEMMA ServerInitOk == Init => ServerInv
<1> SUFFICES ASSUME Init PROVE ServerInv
  OBVIOUS
<1>1. TableOK(server) /\ server.active_fds = {}
  BY DEF Init, TableOK, IsServer
<1>2. DOMAIN conn = Fds /\ \A fd \in Fds : IsSocket(conn[fd]) /\ conn[fd].state = "closed"
  BY DEF Init, Closed, IsSocket
<1> QED BY <1>1, <1>2 DEF Init, ServerInv, OpenAreWatched, Open, RepliesReachTheSender

LEMMA ServerNextOk ==
  ASSUME ServerInv, SendsSucceed, [Next]_vars
  PROVE  ServerInv'
<1>1. CASE Loop
  <2>1. CASE Select \/ Accept \/ AcceptFails
    BY <2>1, SelectOk, AcceptOk, AcceptFailsOk
  <2>2. ASSUME NEW fd \in Fds, Serve(fd)
        PROVE  ServerInv'
    BY <2>2, RecvNoneOk, RefuseOk, CommandOk, ExitOk, DieOk DEF Serve
  <2> QED BY <1>1, <2>1, <2>2 DEF Loop
<1>2. CASE StdinExit \/ Connect
  BY <1>2, AcceptFailsOk
<1>3. CASE \E fd \in Fds : HangUp(fd) \/ Reset(fd) \/ \E line \in Lines : Send(fd, line)
  BY <1>3, PeerOk
<1>4. CASE UNCHANGED vars
  BY <1>4 DEF vars, ServerInv, OpenAreWatched, Open, RepliesReachTheSender
<1> QED BY <1>1, <1>2, <1>3, <1>4 DEF Next, Peers

-----------------------------------------------------------------------------
(* The inductive invariant: the table of clients stays where it is, with   *)
(* each client in the cell of its descriptor (client.c:8-61).              *)
THEOREM ServerInvariant == ASSUME SendsSucceed PROVE Spec => []ServerInv
<1>1. Init => ServerInv
  BY ServerInitOk
<1>2. ServerInv /\ [Next]_vars => ServerInv'
  BY ServerNextOk
<1> QED BY <1>1, <1>2, PTL DEF Spec

(* As long as sends succeed the descriptors select() watches are those of  *)
(* the connections that are open (net.c:112-116, 162-203).                 *)
THEOREM WatchedAreOpen == ASSUME SendsSucceed PROVE Spec => []OpenAreWatched
<1>1. ServerInv => OpenAreWatched
  BY DEF ServerInv
<1> QED BY <1>1, ServerInvariant, PTL

(* As long as sends succeed every answer goes to the peer that asked       *)
(* (client.c:23-40).                                                       *)
THEOREM AnswersReachTheSender == ASSUME SendsSucceed PROVE Spec => []RepliesReachTheSender
<1>1. ServerInv => RepliesReachTheSender
  BY DEF ServerInv
<1> QED BY <1>1, ServerInvariant, PTL

-----------------------------------------------------------------------------
(* The memory: what malloc returns, and what the parser reads.             *)

(* A finite set of numbers has an element of every rank.                   *)
LEMMA RankExists ==
  ASSUME NEW S, S \subseteq Nat, IsFiniteSet(S), NEW j \in 1..Cardinality(S)
  PROVE  \E e \in S : Cardinality({f \in S : f < e}) = j - 1
<1> DEFINE Below(e) == {f \in S : f < e}
           Missing == {r \in 1..Cardinality(S) : \A e \in S : Cardinality(Below(e)) # r - 1}
<1> SUFFICES Missing = {}
  OBVIOUS
<1> SUFFICES ASSUME Missing # {} PROVE FALSE
  OBVIOUS
<1>1. Cardinality(S) \in Nat
  BY FS_CardinalityType
<1>2. PICK r \in Missing : \A q \in Missing : r <= q
  <2>1. Missing \subseteq Nat
    BY <1>1
  <2> HIDE DEF Missing
  <2> QED BY <2>1, LeastOf
<1>3. r \in 1..Cardinality(S) /\ \A e \in S : Cardinality(Below(e)) # r - 1
  BY <1>2
<1>4. \A e \in S : IsFiniteSet(Below(e))
  BY FS_Subset
<1>5. CASE r = 1
  <2>1. S # {}
    BY <1>3, <1>5, FS_EmptySet
  <2>2. PICK e \in S : \A m \in S : e <= m
    BY <2>1, LeastOf
  <2>3. Below(e) = {}
    <3>1. \A f \in S : ~(f < e)
      BY <2>2
    <3> QED BY <3>1
  <2> QED BY <1>3, <1>5, <2>3, FS_EmptySet
<1>6. CASE r # 1
  <2>1. r - 1 \in 1..Cardinality(S) /\ r - 1 \notin Missing
    BY <1>1, <1>2, <1>3, <1>6
  <2>2. PICK e \in S : Cardinality(Below(e)) = (r - 1) - 1
    BY <2>1
  <2> DEFINE low == Below(e) \cup {e}
             Above == S \ low
  <2>3. IsFiniteSet(low) /\ Cardinality(low) = r - 1
    <3>1. e \notin Below(e)
      BY DEF Below
    <3>2. IsFiniteSet(low) /\ Cardinality(low) = Cardinality(Below(e)) + 1
      <4> HIDE DEF Below
      <4> QED BY <1>4, <3>1, FS_AddElement
    <3> QED BY <1>1, <1>3, <2>2, <3>2
  <2>4. low \subseteq S /\ low # S
    BY <1>1, <1>3, <2>3
  <2>5. PICK f \in Above : \A m \in Above : f <= m
    <3>1. Above # {} /\ Above \subseteq Nat
      BY <2>4
    <3> HIDE DEF Above
    <3> QED BY <3>1, LeastOf
  <2>6. Below(f) = low
    <3>1. f > e
      BY <2>5
    <3>2. \A g \in low : g < f
      BY <3>1
    <3>3. \A g \in S : g < f => g \in low
      BY <2>5
    <3> QED BY <2>4, <3>2, <3>3
  <2>7. f \in S /\ Cardinality(Below(f)) = r - 1
    BY <2>3, <2>5, <2>6
  <2> QED BY <1>3, <2>7
<1> QED BY <1>5, <1>6

(* Nth is one to one.                                                      *)
LEMMA NthOk ==
  ASSUME NEW S, S \subseteq Nat, IsFiniteSet(S)
  PROVE  /\ \A j \in 1..Cardinality(S) :
              Nth(S, j) \in S /\ Cardinality({f \in S : f < Nth(S, j)}) = j - 1
         /\ \A j, k \in 1..Cardinality(S) : Nth(S, j) = Nth(S, k) => j = k
<1>1. ASSUME NEW j \in 1..Cardinality(S)
      PROVE  Nth(S, j) \in S /\ Cardinality({f \in S : f < Nth(S, j)}) = j - 1
  <2> DEFINE P(e) == Cardinality({f \in S : f < e}) = j - 1
  <2>1. \E e \in S : P(e)
    BY RankExists
  <2>2. Nth(S, j) = CHOOSE e \in S : P(e)
    BY DEF Nth
  <2> HIDE DEF P
  <2>3. Nth(S, j) \in S /\ P(Nth(S, j))
    BY <2>1, <2>2
  <2> QED BY <2>3 DEF P
<1>2. ASSUME NEW j \in 1..Cardinality(S), NEW k \in 1..Cardinality(S), Nth(S, j) = Nth(S, k)
      PROVE  j = k
  <2>1. j - 1 = k - 1
    BY <1>1, <1>2
  <2>2. Cardinality(S) \in Nat
    BY FS_CardinalityType
  <2> QED BY <2>1, <2>2
<1> QED BY <1>1, <1>2

(* malloc returns strings that are free, and no string twice.              *)
LEMMA AllocatedOk ==
  ASSUME NEW s, NEW n \in Nat, n <= Cardinality(FreeIds(s))
  PROVE  /\ Allocated(s, n) \in [1..n -> FreeIds(s)]
         /\ \A j, k \in 1..n : Allocated(s, n)[j] = Allocated(s, n)[k] => j = k
<1> DEFINE S == FreeIds(s)
<1>1. S \subseteq Nat /\ S \subseteq Ids
  BY BoundsAssumption DEF FreeIds, Ids
<1>2. IsFiniteSet(S)
  <2>1. IsFiniteSet(Ids)
    BY BoundsAssumption, FS_Interval DEF Ids
  <2> QED BY <1>1, <2>1, FS_Subset
<1>3. Cardinality(S) \in Nat
  BY <1>2, FS_CardinalityType
<1>4. Allocated(s, n) = [j \in 1..n |-> Nth(S, j)]
  BY DEF Allocated
<1>5. n <= Cardinality(S)
  OBVIOUS
<1> HIDE DEF S
<1>6. \A j \in 1..n : j \in 1..Cardinality(S)
  BY <1>3, <1>5
<1>7. \A j \in 1..n : Nth(S, j) \in S
  BY <1>1, <1>2, <1>6, NthOk
<1>8. \A j, k \in 1..n : Nth(S, j) = Nth(S, k) => j = k
  BY <1>1, <1>2, <1>6, NthOk
<1> QED BY <1>4, <1>7, <1>8 DEF S

(* Nth goes through a set in order.                                        *)
LEMMA NextRank ==
  ASSUME NEW S, S \subseteq Nat, IsFiniteSet(S),
         NEW j \in Nat \ {0}, j + 1 <= Cardinality(S)
  PROVE  /\ Nth(S, j) < Nth(S, j + 1)
         /\ Nth(S, j) + 1 \in S => Nth(S, j + 1) = Nth(S, j) + 1
<1> DEFINE Below(e) == {f \in S : f < e}
           x == Nth(S, j)
           y == Nth(S, j + 1)
<1>1. Cardinality(S) \in Nat
  BY FS_CardinalityType
<1>2. j \in 1..Cardinality(S) /\ j + 1 \in 1..Cardinality(S)
  BY <1>1
<1>3. x \in S /\ Cardinality(Below(x)) = j - 1
  BY <1>2, NthOk
<1>4. y \in S /\ Cardinality(Below(y)) = j
  <2>1. y \in S /\ Cardinality(Below(y)) = (j + 1) - 1
    BY <1>2, NthOk
  <2> QED BY <2>1
<1> HIDE DEF x, y
<1>5. \A e : IsFiniteSet(Below(e))
  BY FS_Subset
<1> DEFINE z == x + 1
<1>0. \A f : f \in S => f \in Nat
  OBVIOUS
<1>6. \A e, f : Below(e) \subseteq Below(f) => Cardinality(Below(e)) <= Cardinality(Below(f))
  <2> SUFFICES ASSUME NEW e, NEW f, Below(e) \subseteq Below(f)
               PROVE  Cardinality(Below(e)) <= Cardinality(Below(f))
    OBVIOUS
  <2> HIDE DEF Below
  <2> QED BY <1>5, FS_Subset
<1>7. x < y
  <2> SUFFICES ASSUME y <= x PROVE FALSE
    BY <1>3, <1>4
  <2>1. Below(y) \subseteq Below(x)
    <3>1. \A f \in S : f < y => f < x
      BY <1>0, <1>3, <1>4
    <3> QED BY <3>1
  <2>2. j <= j - 1
    BY <1>3, <1>4, <1>6, <2>1
  <2> QED BY <2>2
<1>8. ASSUME x + 1 \in S PROVE y = x + 1
  <2>1. Cardinality(Below(z)) = j
    <3>0. \A f \in S : (f < z <=> f < x \/ f = x) /\ ~(x < x)
      BY <1>0, <1>3
    <3>1. Below(z) = Below(x) \cup {x} /\ x \notin Below(x)
      BY <1>3, <3>0
    <3>2. Cardinality(Below(x) \cup {x}) = Cardinality(Below(x)) + 1
      <4> HIDE DEF Below
      <4> QED BY <1>5, <3>1, FS_AddElement
    <3> QED BY <1>3, <3>1, <3>2
  <2>2. Cardinality(Below(z) \cup {z}) = j + 1
    <3>1. z \notin Below(z)
      BY <1>3
    <3> HIDE DEF Below, z
    <3> QED BY <1>5, <2>1, <3>1, FS_AddElement
  <2> SUFFICES ASSUME z < y PROVE FALSE
    BY <1>3, <1>4, <1>7
  <2>3. Below(z) \cup {z} \subseteq Below(y)
    <3>1. \A f \in S : f < z \/ f = z => f < y
      BY <1>0, <1>3, <1>4
    <3> QED BY <1>8, <3>1
  <2>4. Cardinality(Below(z) \cup {z}) <= Cardinality(Below(y))
    <3> HIDE DEF Below
    <3> QED BY <1>5, <2>3, FS_Subset
  <2> QED BY <1>4, <2>2, <2>4
<1> QED BY <1>7, <1>8 DEF x, y

(* What one recv() brings: of the words of a well-formed request, the key  *)
(* is a key and the value is a value.                                      *)
LEMMA WordsOk ==
  ASSUME NEW fd, NEW n, conn[fd].inbox \in Seq(Words), Complete(conn[fd].inbox),
         n \in DOMAIN conn[fd].inbox
  PROVE  /\ WordsIn(fd, n) \in Seq(Words)
         /\ WellFormed(WordsIn(fd, n)) /\ WordsIn(fd, n)[1] \in {"get", "set", "del", "exist"} =>
              WordsIn(fd, n)[2] \in Keys
         /\ WellFormed(WordsIn(fd, n)) /\ WordsIn(fd, n)[1] = "set" => WordsIn(fd, n)[3] \in Vals
<1> DEFINE inbox == conn[fd].inbox
           at == {p \in 1..n : inbox[p] # Blank}
           words == WordsIn(fd, n)
           size == Cardinality(at)
<1>1. n \in Nat /\ 1..n \subseteq DOMAIN inbox
  BY DEF Complete
<1>2. IsFiniteSet(at) /\ at \subseteq Nat
  <2>1. IsFiniteSet(1..n)
    BY <1>1, FS_Interval
  <2> QED BY <1>1, <2>1, FS_Subset
<1>3. size \in Nat
  BY <1>2, FS_CardinalityType
<1>4. words = [j \in 1..size |-> inbox[Nth(at, j)]]
  BY DEF WordsIn
<1> DEFINE p1 == Nth(at, 1)
           p2 == Nth(at, 2)
           p3 == Nth(at, 3)
<1>0. /\ \A p \in at : p \in Nat /\ p <= n /\ p \in DOMAIN inbox /\ inbox[p] \in Words
      /\ \A p \in Nat : 1 <= p /\ p <= n /\ inbox[p] # Blank => p \in at
  BY <1>1
<1>5. \A j \in 1..size : Nth(at, j) \in at
  <2> HIDE DEF at
  <2> QED BY <1>2, NthOk
<1> HIDE DEF at, inbox, words, size
<1>6. words \in Seq(Words)
  <2>1. \A j \in 1..size : inbox[Nth(at, j)] \in Words
    BY <1>0, <1>5
  <2> QED BY <1>3, <1>4, <2>1
<1>7. ASSUME 2 <= size PROVE p1 < p2 /\ (p1 + 1 \in at => p2 = p1 + 1)
  <2>1. 1 \in Nat \ {0} /\ 1 + 1 <= Cardinality(at) /\ 1 + 1 = 2
    BY <1>7 DEF size
  <2> QED BY <1>2, <2>1, NextRank
<1>8. ASSUME 3 <= size PROVE p2 < p3 /\ (p2 + 1 \in at => p3 = p2 + 1)
  <2>1. 2 \in Nat \ {0} /\ 2 + 1 <= Cardinality(at) /\ 2 + 1 = 3
    BY <1>8 DEF size
  <2> QED BY <1>2, <2>1, NextRank
<1>01. /\ 2 <= size => 1 \in 1..size /\ 2 \in 1..size
       /\ 3 <= size => 2 <= size /\ 3 \in 1..size
  BY <1>3
<1>02. (2 <= size => p1 \in at /\ p2 \in at) /\ (3 <= size => p3 \in at)
  BY <1>01, <1>5
<1> HIDE DEF p1, p2, p3
<1>03. Complete(inbox)
  BY DEF inbox
<1>9. ASSUME 2 <= size, inbox[p1] \in {"get", "set", "del", "exist"}
      PROVE  p2 = p1 + 1 /\ inbox[p2] \in Keys
  <2>1. p1 \in at /\ p2 \in at /\ p1 < p2
    BY <1>02, <1>7, <1>9
  <2>2. p1 \in DOMAIN inbox /\ inbox[p1 + 1] \in Keys
    BY <1>0, <1>03, <1>9, <2>1 DEF Complete
  <2>3. p1 + 1 \in Nat /\ 1 <= p1 + 1 /\ p1 + 1 <= n
    BY <1>0, <1>1, <2>1
  <2>4. p1 + 1 \in at
    BY <1>0, <2>2, <2>3, WordAssumption
  <2> QED BY <1>7, <1>9, <2>2, <2>4
<1>10. ASSUME 3 <= size, inbox[p1] = "set" PROVE inbox[p3] \in Vals
  <2>1. p1 \in at /\ p2 \in at /\ p2 = p1 + 1 /\ p3 \in at /\ p2 < p3
    BY <1>01, <1>02, <1>8, <1>9, <1>10
  <2>2. inbox[p1 + 2] \in Vals /\ p1 + 2 = p2 + 1
    <3>1. p1 \in Nat /\ p1 \in DOMAIN inbox
      BY <1>0, <2>1
    <3>2. inbox[p1 + 2] \in Vals
      BY <1>03, <1>10, <3>1 DEF Complete
    <3> QED BY <2>1, <3>1, <3>2
  <2>3. p2 + 1 \in Nat /\ 1 <= p2 + 1 /\ p2 + 1 <= n
    BY <1>0, <1>1, <2>1
  <2>4. p2 + 1 \in at
    BY <1>0, <2>2, <2>3, WordAssumption
  <2> QED BY <1>8, <1>10, <2>2, <2>4
<1>11. ASSUME WellFormed(words), words[1] \in {"get", "set", "del", "exist"} PROVE words[2] \in Keys
  <2>1. 2 <= size /\ size = Len(words)
    BY <1>3, <1>4, <1>11 DEF WellFormed, Arity
  <2>2. words[1] = inbox[p1] /\ words[2] = inbox[p2]
    BY <1>01, <1>4, <2>1 DEF p1, p2
  <2> QED BY <1>9, <1>11, <2>1, <2>2
<1>12. ASSUME WellFormed(words), words[1] = "set" PROVE words[3] \in Vals
  <2>1. 3 <= size /\ size = Len(words)
    BY <1>3, <1>4, <1>12 DEF WellFormed, Arity
  <2>2. words[1] = inbox[p1] /\ words[3] = inbox[p3]
    BY <1>01, <1>4, <2>1 DEF p1, p3
  <2> QED BY <1>10, <1>12, <2>1, <2>2
<1> QED BY <1>6, <1>11, <1>12 DEF words

(* What recv() leaves of a complete sequence of words is complete.         *)
LEMMA TakenComplete ==
  ASSUME NEW words \in Seq(Words), Complete(words), NEW n \in DOMAIN words,
         NEW rest, rest = SubSeq(words, n + 1, Len(words))
  PROVE  rest \in Seq(Words) /\ Complete(rest)
<1>0. n \in Nat /\ Len(words) \in Nat /\ n <= Len(words) /\ DOMAIN words = 1..Len(words)
  OBVIOUS
<1>1. /\ rest \in Seq(Words) /\ DOMAIN rest = 1..(Len(words) - n)
      /\ \A p \in DOMAIN rest : rest[p] = words[p + n]
  BY <1>0
<1>2. ASSUME NEW p \in DOMAIN rest
      PROVE  /\ p + n \in DOMAIN words /\ rest[p] = words[p + n]
             /\ \A m \in {1, 2} : p + n + m \in DOMAIN words =>
                  p + m \in DOMAIN rest /\ rest[p + m] = words[p + n + m]
  <2>1. p \in Nat /\ 1 <= p /\ p <= Len(words) - n
    BY <1>0, <1>1
  <2>2. p + n \in DOMAIN words
    BY <1>0, <2>1
  <2>3. ASSUME NEW m \in {1, 2}, p + n + m \in DOMAIN words
        PROVE  p + m \in DOMAIN rest /\ p + m + n = p + n + m
    <3>1. m \in Nat /\ p + n + m <= Len(words) /\ 1 <= p + m
      BY <1>0, <2>1, <2>3
    <3>2. p + m <= Len(words) - n /\ p + m + n = p + n + m
      BY <1>0, <2>1, <3>1
    <3> QED BY <1>0, <1>1, <2>1, <3>1, <3>2
  <2> QED BY <1>1, <2>2, <2>3
<1>3. ASSUME NEW p \in DOMAIN rest
      PROVE  /\ rest[p] \in {"get", "set", "del", "exist"} =>
                  p + 1 \in DOMAIN rest /\ rest[p + 1] \in Keys
             /\ rest[p] = "set" => p + 2 \in DOMAIN rest /\ rest[p + 2] \in Vals
  <2> DEFINE q == p + n
  <2>1. /\ words[q] \in {"get", "set", "del", "exist"} =>
             q + 1 \in DOMAIN words /\ words[q + 1] \in Keys
        /\ words[q] = "set" => q + 2 \in DOMAIN words /\ words[q + 2] \in Vals
    BY <1>2 DEF Complete
  <2>2. rest[p] = words[q]
    BY <1>2
  <2>3. /\ q + 1 \in DOMAIN words => p + 1 \in DOMAIN rest /\ rest[p + 1] = words[q + 1]
        /\ q + 2 \in DOMAIN words => p + 2 \in DOMAIN rest /\ rest[p + 2] = words[q + 2]
    <3>1. \A m \in {1, 2} : q + m \in DOMAIN words => p + m \in DOMAIN rest /\ rest[p + m] = words[q + m]
      BY <1>2
    <3> HIDE DEF q
    <3> QED BY <3>1
  <2> HIDE DEF q
  <2> QED BY <2>1, <2>2, <2>3
<1> QED BY <1>1, <1>3 DEF Complete

(* ... and so is what a peer adds a line to.                               *)
LEMMA SentComplete ==
  ASSUME NEW words \in Seq(Words), Complete(words), NEW line \in Seq(Words), Complete(line),
         NEW all, all = words \o line
  PROVE  all \in Seq(Words) /\ Complete(all)
<1>1. /\ all \in Seq(Words) /\ DOMAIN all = 1..(Len(words) + Len(line))
      /\ \A p \in DOMAIN words : p \in DOMAIN all /\ all[p] = words[p]
      /\ \A p \in DOMAIN line : p + Len(words) \in DOMAIN all /\ all[p + Len(words)] = line[p]
  OBVIOUS
<1>2. ASSUME NEW p \in DOMAIN all
      PROVE  /\ all[p] \in {"get", "set", "del", "exist"} =>
                  p + 1 \in DOMAIN all /\ all[p + 1] \in Keys
             /\ all[p] = "set" => p + 2 \in DOMAIN all /\ all[p + 2] \in Vals
  <2>1. CASE p \in DOMAIN words
    BY <1>1, <2>1 DEF Complete
  <2>2. CASE p \notin DOMAIN words
    <3> DEFINE q == p - Len(words)
    <3>1. q \in DOMAIN line /\ p = q + Len(words) /\ Len(words) \in Nat
      BY <1>1, <2>2
    <3> HIDE DEF q
    <3>2. all[p] = line[q]
      BY <1>1, <3>1
    <3>3. \A m \in 1..2 : q + m \in DOMAIN line => p + m \in DOMAIN all /\ all[p + m] = line[q + m]
      <4>1. DOMAIN line \subseteq Nat
        OBVIOUS
      <4>2. \A m \in 1..2 : q + m + Len(words) = p + m
        BY <3>1, <4>1
      <4> QED BY <1>1, <4>2
    <3> QED BY <3>1, <3>2, <3>3 DEF Complete
  <2> QED BY <2>1, <2>2
<1> QED BY <1>1, <1>2 DEF Complete

-----------------------------------------------------------------------------
(* The memory: who owns which string.                                      *)

(* What every step of the program leaves a server in.                      *)
Shape(s) == /\ IsServer(s)
            /\ s.clients \in [Cells -> Client \cup {NULL}]
            /\ s.base \in Nat
            /\ s.active_fds \subseteq Fds
            /\ s.db \in [Keys -> (Ids \X Ids) \cup {NULL}]
            /\ DOMAIN s.heap = Ids

Bound(s, key) == s.db[key] # NULL

(* The strings of an entry read as its key and a value.                    *)
EntriesOK(s) == \A key \in Keys : Bound(s, key) => /\ s.heap[s.db[key][1]] = key
                                                   /\ s.heap[s.db[key][2]] \in Vals

(* No string belongs to two entries, or to one twice.                      *)
Separate(s) == \A key, other \in Keys, m, n \in {1, 2} :
  Bound(s, key) /\ Bound(s, other) /\ s.db[key][m] = s.db[other][n] => key = other /\ m = n

(* What a GET would answer.                                                *)
TableAt(s, key) == IF Bound(s, key) THEN s.heap[s.db[key][2]] ELSE NULL

SameTable(s, t) == \A key \in Keys : TableAt(t, key) = TableAt(s, key)

(* A string that is allocated and does not belong to the database.         *)
Lent(s, id) == /\ s.heap[id] # NULL
               /\ \A key \in Keys, m \in {1, 2} : Bound(s, key) => s.db[key][m] # id

ArgvOK(s, c) == \A p \in DOMAIN c.argv : c.argv[p] # NULL => Lent(s, c.argv[p])

(* Every client is in its cell and holds no string of the database.        *)
ClientsOK(s) == \A j \in Cells : s.clients[j] # NULL => s.clients[j].fd = j /\ ArgvOK(s, s.clients[j])

HeapOK(s) == s.base = 0 /\ s.up /\ EntriesOK(s) /\ Separate(s) /\ ClientsOK(s)

(* The arguments of client i are its own.                                  *)
OwnArgs(s, i) ==
  /\ i \in Cells /\ s.clients[i] \in Client
  /\ \A p, q \in DOMAIN s.clients[i].argv :
       s.clients[i].argv[p] # NULL /\ s.clients[i].argv[p] = s.clients[i].argv[q] => p = q
  /\ \A j \in Cells \ {i} : s.clients[j] # NULL =>
       \A p \in DOMAIN s.clients[j].argv, q \in DOMAIN s.clients[i].argv :
         s.clients[i].argv[q] # NULL => s.clients[j].argv[p] # s.clients[i].argv[q]

(* From s to t the client of cell i gets argv, and no other field of the   *)
(* table or the database changes.                                          *)
ArgsSet(s, t, i, argv) ==
  /\ Shape(t)
  /\ t.clients[i] \in Client /\ t.clients[i].argv = argv /\ t.clients[i].fd = s.clients[i].fd
  /\ \A j \in Cells \ {i} : t.clients[j] = s.clients[j]
  /\ t.base = s.base /\ t.active_fds = s.active_fds /\ t.db = s.db

(* From s to t no client is touched.                                       *)
SameClients(s, t) == t.clients = s.clients /\ t.base = s.base /\ t.active_fds = s.active_fds

LEMMA PairOk ==
  ASSUME NEW pair \in Ids \X Ids
  PROVE  DOMAIN pair = {1, 2} /\ pair[1] \in Ids /\ pair[2] \in Ids /\ ToSet(pair) = {pair[1], pair[2]}
<1>1. PICK a \in Ids, b \in Ids : pair = <<a, b>>
  OBVIOUS
<1>2. DOMAIN pair = {1, 2} /\ pair[1] = a /\ pair[2] = b
  BY <1>1
<1> QED BY <1>2 DEF ToSet

LEMMA EntryOk ==
  ASSUME NEW s, Shape(s), NEW key \in Keys, Bound(s, key)
  PROVE  /\ s.db[key] \in Ids \X Ids
         /\ s.db[key][1] \in Ids /\ s.db[key][2] \in Ids
         /\ ToSet(s.db[key]) = {s.db[key][1], s.db[key][2]}
BY PairOk DEF Shape, Bound

LEMMA ClientOk ==
  ASSUME NEW c \in Client
  PROVE  c # NULL /\ c.argv \in Seq(Ids \cup {NULL}) /\ c.fd \in Fds
BY NullAssumption DEF Client

LEMMA FreeFields ==
  ASSUME NEW s, IsServer(s), NEW strings, NEW t, t = Free(s, strings)
  PROVE  /\ IsServer(t)
         /\ t.clients = s.clients /\ t.base = s.base /\ t.active_fds = s.active_fds /\ t.db = s.db
         /\ t.up <=> s.up /\ (ToSet(strings) \ {NULL}) \cap FreeIds(s) = {}
         /\ t.heap = [id \in Ids |-> IF id \in ToSet(strings) \ {NULL} THEN NULL ELSE s.heap[id]]
<1>1. PICK up, heap : /\ up = (s.up /\ (ToSet(strings) \ {NULL}) \cap FreeIds(s) = {})
                      /\ heap = [id \in Ids |-> IF id \in ToSet(strings) \ {NULL} THEN NULL ELSE s.heap[id]]
  OBVIOUS
<1>2. t = [s EXCEPT !.up = up, !.heap = heap]
  BY <1>1 DEF Free
<1>3. /\ IsServer(t) /\ t.up = up /\ t.heap = heap
      /\ t.clients = s.clients /\ t.base = s.base /\ t.active_fds = s.active_fds /\ t.db = s.db
  BY <1>2 DEF IsServer
<1> QED BY <1>1, <1>3

LEMMA FreeShape ==
  ASSUME NEW s, Shape(s), NEW strings
  PROVE  Shape(Free(s, strings)) /\ SameClients(s, Free(s, strings)) /\ Free(s, strings).db = s.db
<1> DEFINE t == Free(s, strings)
<1>1. IsServer(s)
  BY DEF Shape
<1>2. /\ IsServer(t)
      /\ t.clients = s.clients /\ t.base = s.base /\ t.active_fds = s.active_fds /\ t.db = s.db
      /\ t.heap = [id \in Ids |-> IF id \in ToSet(strings) \ {NULL} THEN NULL ELSE s.heap[id]]
  <2>1. t = Free(s, strings)
    OBVIOUS
  <2> HIDE DEF t
  <2> QED BY <1>1, <2>1, FreeFields
<1> HIDE DEF t
<1> QED BY <1>2 DEF Shape, SameClients, t

LEMMA ArgvSet ==
  ASSUME NEW s, Shape(s), NEW i \in Cells, s.clients[i] \in Client,
         NEW argv \in Seq(Ids \cup {NULL}), NEW first \in {"unset", "kept", "freed"},
         NEW t, t = [s EXCEPT !.clients[i].argv = argv, !.clients[i].first = first]
  PROVE  ArgsSet(s, t, i, argv) /\ t.heap = s.heap /\ (t.up <=> s.up)
<1> DEFINE c == [s.clients[i] EXCEPT !.argv = argv, !.first = first]
<1>1. /\ IsServer(t) /\ t.up = s.up /\ t.heap = s.heap
      /\ t.clients = [s.clients EXCEPT ![i].argv = argv, ![i].first = first]
      /\ t.base = s.base /\ t.active_fds = s.active_fds /\ t.db = s.db
  BY DEF Shape, IsServer
<1>2. c \in Client /\ c.argv = argv /\ c.fd = s.clients[i].fd
  BY DEF Client
<1>3. t.clients = [s.clients EXCEPT ![i] = c]
  BY <1>1 DEF Shape
<1> HIDE DEF c
<1> QED BY <1>1, <1>2, <1>3 DEF ArgsSet, Shape

(* Parsing puts every word into a string of its own that was free.         *)
LEMMA ParsedSets ==
  ASSUME NEW s, Shape(s), NEW i \in Cells, s.clients[i] \in Client,
         NEW words \in Seq(Words), Len(words) <= Cardinality(FreeIds(s)),
         NEW t, t = Parsed(s, i, words),
         NEW ids, ids = Allocated(s, Len(words))
  PROVE  /\ ArgsSet(s, t, i, ids) /\ (t.up <=> s.up)
         /\ ids \in Seq(Ids) /\ DOMAIN ids = DOMAIN words
         /\ \A p \in DOMAIN ids : s.heap[ids[p]] = NULL /\ t.heap[ids[p]] = words[p]
         /\ \A p, q \in DOMAIN ids : ids[p] = ids[q] => p = q
         /\ \A id \in Ids : s.heap[id] # NULL => t.heap[id] = s.heap[id]
         /\ \A id \in Ids : t.heap[id] = s.heap[id] \/ \E p \in DOMAIN ids : ids[p] = id
<1> DEFINE heap == [id \in Ids |-> IF id \in ToSet(ids)
                                   THEN words[CHOOSE n \in DOMAIN ids : ids[n] = id]
                                   ELSE s.heap[id]]
           mark == IF words = <<>> THEN s.clients[i].first ELSE "kept"
           c == [s.clients[i] EXCEPT !.argv = ids, !.first = mark]
<1>1. ids \in [1..Len(words) -> FreeIds(s)] /\ \A j, k \in 1..Len(words) : ids[j] = ids[k] => j = k
  BY AllocatedOk
<1>2. /\ DOMAIN ids = DOMAIN words
      /\ \A p \in DOMAIN ids : ids[p] \in Ids /\ s.heap[ids[p]] = NULL
      /\ \A p, q \in DOMAIN ids : ids[p] = ids[q] => p = q
  BY <1>1 DEF FreeIds
<1>3. ids \in Seq(Ids) /\ ids \in Seq(Ids \cup {NULL})
  BY <1>1 DEF FreeIds
<1>4. mark \in {"unset", "kept", "freed"}
  BY DEF Client
<1>5. /\ IsServer(t) /\ t.up = s.up /\ t.heap = heap
      /\ t.clients = [s.clients EXCEPT ![i].argv = ids, ![i].first = mark]
      /\ t.base = s.base /\ t.active_fds = s.active_fds /\ t.db = s.db
  BY DEF Parsed, Shape, IsServer
<1> HIDE DEF mark
<1>6. c \in Client /\ c.argv = ids /\ c.fd = s.clients[i].fd
  BY <1>3, <1>4 DEF Client
<1>7. t.clients = [s.clients EXCEPT ![i] = c]
  BY <1>5 DEF Shape
<1> HIDE DEF c
<1>8. ArgsSet(s, t, i, ids)
  BY <1>5, <1>6, <1>7 DEF ArgsSet, Shape
<1>9. \A p \in DOMAIN ids : heap[ids[p]] = words[p]
  <2> SUFFICES ASSUME NEW p \in DOMAIN ids PROVE heap[ids[p]] = words[p]
    OBVIOUS
  <2>1. ids[p] \in ToSet(ids)
    BY DEF ToSet
  <2>2. (CHOOSE n \in DOMAIN ids : ids[n] = ids[p]) = p
    BY <1>2
  <2> QED BY <1>2, <2>1, <2>2
<1>10. \A id \in Ids : s.heap[id] # NULL => heap[id] = s.heap[id]
  <2>1. \A id \in ToSet(ids) : s.heap[id] = NULL
    BY <1>2 DEF ToSet
  <2> QED BY <2>1
<1>11. t.heap = heap /\ (t.up <=> s.up)
  BY <1>5
<1>12. \A id \in Ids : heap[id] = s.heap[id] \/ \E p \in DOMAIN ids : ids[p] = id
  BY DEF ToSet
<1> HIDE DEF heap
<1> QED BY <1>2, <1>3, <1>8, <1>9, <1>10, <1>11, <1>12

LEMMA ParsedHeap ==
  ASSUME NEW s, Shape(s), HeapOK(s), NEW i \in Cells, s.clients[i] \in Client,
         NEW words \in Seq(Words), Len(words) <= Cardinality(FreeIds(s)),
         NEW t, t = Parsed(s, i, words)
  PROVE  HeapOK(t) /\ OwnArgs(t, i) /\ SameTable(s, t)
<1> DEFINE ids == Allocated(s, Len(words))
<1>1. /\ ArgsSet(s, t, i, ids) /\ (t.up <=> s.up)
      /\ ids \in Seq(Ids) /\ DOMAIN ids = DOMAIN words
      /\ \A p \in DOMAIN ids : s.heap[ids[p]] = NULL /\ t.heap[ids[p]] = words[p]
      /\ \A p, q \in DOMAIN ids : ids[p] = ids[q] => p = q
      /\ \A id \in Ids : s.heap[id] # NULL => t.heap[id] = s.heap[id]
  <2>1. ids = Allocated(s, Len(words))
    OBVIOUS
  <2> HIDE DEF ids
  <2> QED BY <2>1, ParsedSets
<1> HIDE DEF ids
<1>2. s.clients[i].fd = i /\ s.clients[i] # NULL /\ t.clients[i] # NULL
  BY <1>1, ClientOk DEF HeapOK, ClientsOK, ArgsSet
<1>3. t.db = s.db /\ t.base = 0 /\ t.up /\ Separate(t)
  BY <1>1 DEF HeapOK, ArgsSet, Separate, Bound
<1>4. \A key \in Keys, m \in {1, 2} : Bound(s, key) =>
        s.db[key][m] \in Ids /\ s.heap[s.db[key][m]] # NULL
  BY EntryOk, NullAssumption DEF HeapOK, EntriesOK, Words
<1>5. EntriesOK(t)
  <2> SUFFICES ASSUME NEW key \in Keys, Bound(s, key)
               PROVE  t.heap[s.db[key][1]] = key /\ t.heap[s.db[key][2]] \in Vals
    BY <1>3 DEF EntriesOK, Bound
  <2>1. \A m \in {1, 2} : t.heap[s.db[key][m]] = s.heap[s.db[key][m]]
    BY <1>1, <1>4
  <2> QED BY <2>1 DEF HeapOK, EntriesOK
<1>6. \A id \in Ids : Lent(s, id) => Lent(t, id)
  BY <1>1, <1>3 DEF Lent, Bound
<1>7. \A p \in DOMAIN ids : ids[p] \in Ids /\ Lent(t, ids[p])
  <2> SUFFICES ASSUME NEW p \in DOMAIN ids PROVE ids[p] \in Ids /\ Lent(t, ids[p])
    OBVIOUS
  <2>1. ids[p] \in Ids /\ words[p] # NULL
    BY <1>1, NullAssumption
  <2>2. \A key \in Keys, m \in {1, 2} : Bound(t, key) => t.db[key][m] # ids[p]
    BY <1>1, <1>3, <1>4 DEF Bound
  <2> QED BY <1>1, <2>1, <2>2 DEF Lent
<1>8. ASSUME NEW j \in Cells \ {i}, s.clients[j] # NULL, NEW p \in DOMAIN s.clients[j].argv,
             s.clients[j].argv[p] # NULL
      PROVE  Lent(s, s.clients[j].argv[p]) /\ s.clients[j].argv[p] \in Ids
  <2>1. s.clients[j].argv \in Seq(Ids \cup {NULL})
    BY <1>8, ClientOk DEF Shape
  <2> QED BY <1>8, <2>1 DEF HeapOK, ClientsOK, ArgvOK
<1>9. ClientsOK(t)
  <2>1. t.clients[i].fd = i /\ ArgvOK(t, t.clients[i])
    BY <1>1, <1>2, <1>7 DEF ArgsSet, ArgvOK
  <2>2. ASSUME NEW j \in Cells \ {i}, t.clients[j] # NULL
        PROVE  t.clients[j].fd = j /\ ArgvOK(t, t.clients[j])
    <3>1. t.clients[j] = s.clients[j]
      BY <1>1 DEF ArgsSet
    <3>2. s.clients[j].fd = j
      BY <2>2, <3>1 DEF HeapOK, ClientsOK
    <3> QED BY <1>6, <1>8, <2>2, <3>1, <3>2 DEF ArgvOK
  <2> QED BY <2>1, <2>2 DEF ClientsOK
<1>10. OwnArgs(t, i)
  <2>1. t.clients[i] \in Client /\ t.clients[i].argv = ids
    BY <1>1 DEF ArgsSet
  <2>2. ASSUME NEW j \in Cells \ {i}, t.clients[j] # NULL,
               NEW p \in DOMAIN t.clients[j].argv, NEW q \in DOMAIN ids
        PROVE  t.clients[j].argv[p] # ids[q]
    <3>1. t.clients[j] = s.clients[j]
      BY <1>1 DEF ArgsSet
    <3>2. s.heap[ids[q]] = NULL /\ ids[q] \in Ids /\ ids[q] # NULL
      BY <1>1, <1>7, NullAssumption
    <3> QED BY <1>8, <2>2, <3>1, <3>2 DEF Lent
  <2> QED BY <1>1, <2>1, <2>2 DEF OwnArgs
<1>11. SameTable(s, t)
  BY <1>1, <1>3, <1>4 DEF SameTable, TableAt, Bound
<1> QED BY <1>3, <1>5, <1>9, <1>10, <1>11 DEF HeapOK

(* ... and no string is touched.                                           *)
OnlyArgsSet(s, t, i, argv) == ArgsSet(s, t, i, argv) /\ t.heap = s.heap /\ (t.up <=> s.up)

LEMMA ArgvOnlySet ==
  ASSUME NEW s, Shape(s), NEW i \in Cells, s.clients[i] \in Client,
         NEW argv \in Seq(Ids \cup {NULL}),
         NEW t, t = [s EXCEPT !.clients[i].argv = argv]
  PROVE  OnlyArgsSet(s, t, i, argv)
<1> DEFINE c == [s.clients[i] EXCEPT !.argv = argv]
<1>1. /\ IsServer(t) /\ t.clients = [s.clients EXCEPT ![i].argv = argv] /\ t.up = s.up /\ t.heap = s.heap
      /\ t.base = s.base /\ t.active_fds = s.active_fds /\ t.db = s.db
  BY DEF Shape, IsServer
<1>2. c \in Client /\ c.argv = argv /\ c.fd = s.clients[i].fd
  BY DEF Client
<1>3. t.clients = [s.clients EXCEPT ![i] = c]
  BY <1>1 DEF Shape
<1> HIDE DEF c
<1> QED BY <1>1, <1>2, <1>3 DEF OnlyArgsSet, ArgsSet, Shape

(* From s to t the entry of key is set, and nothing else.                  *)
EntrySet(s, t, key, entry) ==
  /\ Shape(t)
  /\ t.clients = s.clients /\ t.base = s.base /\ t.active_fds = s.active_fds
  /\ t.heap = s.heap /\ (t.up <=> s.up)
  /\ \A other \in Keys \ {key} : t.db[other] = s.db[other]
  /\ key \in Keys => t.db[key] = entry

LEMMA DbSet ==
  ASSUME NEW s, Shape(s), NEW key, NEW entry \in (Ids \X Ids) \cup {NULL},
         NEW t, t = [s EXCEPT !.db[key] = entry]
  PROVE  EntrySet(s, t, key, entry)
<1>1. /\ IsServer(t) /\ t.clients = s.clients /\ t.up = s.up /\ t.heap = s.heap
      /\ t.base = s.base /\ t.active_fds = s.active_fds /\ t.db = [s.db EXCEPT ![key] = entry]
  BY DEF Shape, IsServer
<1>2. s.db \in [Keys -> (Ids \X Ids) \cup {NULL}]
  BY DEF Shape
<1>3. t.db \in [Keys -> (Ids \X Ids) \cup {NULL}]
      /\ (\A other \in Keys \ {key} : t.db[other] = s.db[other])
      /\ (key \in Keys => t.db[key] = entry)
  <2> DEFINE D == (Ids \X Ids) \cup {NULL}
  <2>1. s.db \in [Keys -> D] /\ entry \in D
    BY <1>2
  <2>2. t.db = [s.db EXCEPT ![key] = entry]
    BY <1>1
  <2> HIDE DEF D
  <2>3. t.db \in [Keys -> D]
    BY ONLY <2>1, <2>2
  <2>4. (\A other \in Keys \ {key} : t.db[other] = s.db[other]) /\ (key \in Keys => t.db[key] = entry)
    BY ONLY <2>1, <2>2
  <2> QED BY <2>3, <2>4 DEF D
<1>4. Shape(t)
  BY <1>1, <1>3 DEF Shape
<1> QED BY <1>1, <1>3, <1>4 DEF EntrySet

(* SET: the second and the third argument become the entry, unless there   *)
(* is one, and argv is left with the first.                                *)
HandedOver(s, t, i, argv, key) ==
  /\ Shape(t)
  /\ t.clients[i] \in Client /\ t.clients[i].fd = s.clients[i].fd
  /\ t.clients[i].argv = <<argv[1], NULL, NULL>>
  /\ \A j \in Cells \ {i} : t.clients[j] = s.clients[j]
  /\ t.base = s.base /\ t.active_fds = s.active_fds /\ t.heap = s.heap /\ (t.up <=> s.up)
  /\ \A other \in Keys \ {key} : t.db[other] = s.db[other]
  /\ key \in Keys => IF s.db[key] = NULL THEN t.db[key] = <<argv[2], argv[3]>>
                                         ELSE t.db[key] = s.db[key]

LEMMA CmdSetSets ==
  ASSUME NEW s, Shape(s), NEW i \in Cells, s.clients[i] \in Client,
         NEW argv \in Seq(Ids), argv = s.clients[i].argv, Len(argv) = 3,
         NEW key, NEW t, t = CmdSet(s, i, key).server
  PROVE  HandedOver(s, t, i, argv, key)
<1> DEFINE rest == <<argv[1], NULL, NULL>>
           entry == <<argv[2], argv[3]>>
           given == [s EXCEPT !.clients[i].argv = rest]
           bound == [given EXCEPT !.db[key] = entry]
<1>1. rest \in Seq(Ids \cup {NULL}) /\ entry \in Ids \X Ids
  OBVIOUS
<1>2. t = IF s.db[key] # NULL THEN given ELSE bound
  BY DEF CmdSet, Outcome
<1> HIDE DEF rest, entry
<1>3. OnlyArgsSet(s, given, i, rest)
  <2>1. given = [s EXCEPT !.clients[i].argv = rest]
    OBVIOUS
  <2> HIDE DEF given
  <2> QED BY ONLY Shape(s), s.clients[i] \in Client, <1>1, <2>1, ArgvOnlySet
<1>20. bound = [given EXCEPT !.db[key] = entry]
  OBVIOUS
<1> HIDE DEF given, bound
<1>4. Shape(given) /\ given.db = s.db
  BY <1>3 DEF OnlyArgsSet, ArgsSet
<1>5. EntrySet(given, bound, key, entry)
  BY ONLY <1>20, <1>1, <1>4, DbSet
<1>6. CASE s.db[key] # NULL
  <2>1. t = given
    BY <1>2, <1>6
  <2> QED BY <1>3, <1>6, <2>1 DEF HandedOver, OnlyArgsSet, ArgsSet, EntrySet, rest
<1>7. CASE s.db[key] = NULL
  <2>1. t = bound
    BY <1>2, <1>7
  <2> QED BY <1>3, <1>5, <1>7, <2>1 DEF HandedOver, OnlyArgsSet, ArgsSet, EntrySet, rest, entry
<1> QED BY <1>6, <1>7

(* SET keeps the strings apart: those it hands over leave argv.            *)
LEMMA CmdSetHeap ==
  ASSUME NEW s, Shape(s), HeapOK(s), NEW i, OwnArgs(s, i),
         NEW argv \in Seq(Ids), argv = s.clients[i].argv, Len(argv) = 3,
         NEW key \in Keys, s.heap[argv[2]] = key, s.heap[argv[3]] \in Vals,
         NEW t, t = CmdSet(s, i, key).server
  PROVE  HeapOK(t) /\ OwnArgs(t, i)
<1>0. i \in Cells /\ s.clients[i] \in Client /\ DOMAIN argv = {1, 2, 3}
      /\ argv[1] \in Ids /\ argv[2] \in Ids /\ argv[3] \in Ids
  BY DEF OwnArgs
<1>1. /\ Shape(t)
      /\ t.clients[i] \in Client /\ t.clients[i].fd = s.clients[i].fd
      /\ t.clients[i].argv = <<argv[1], NULL, NULL>>
      /\ \A j \in Cells \ {i} : t.clients[j] = s.clients[j]
      /\ t.base = s.base /\ t.active_fds = s.active_fds /\ t.heap = s.heap /\ (t.up <=> s.up)
      /\ \A other \in Keys \ {key} : t.db[other] = s.db[other]
      /\ IF s.db[key] = NULL THEN t.db[key] = <<argv[2], argv[3]>> ELSE t.db[key] = s.db[key]
  <2>1. HandedOver(s, t, i, argv, key)
    BY <1>0, CmdSetSets
  <2> QED BY ONLY <2>1, key \in Keys DEF HandedOver
<1>2. argv[1] # NULL /\ argv[2] # NULL /\ argv[3] # NULL
  BY <1>0, NullAssumption
<1>3. argv[1] # argv[2] /\ argv[1] # argv[3] /\ argv[2] # argv[3]
  BY <1>0, <1>2 DEF OwnArgs
<1>4. s.clients[i] # NULL
  BY <1>0, ClientOk
<1>5. \A p \in {1, 2, 3} : Lent(s, argv[p])
  BY <1>0, <1>2, <1>4 DEF HeapOK, ClientsOK, ArgvOK
<1>6. \A other \in Keys \ {key} : t.db[other] = s.db[other]
  BY <1>1
<1>7. EntriesOK(t) /\ Separate(t)
      /\ \A id : Lent(s, id) /\ (s.db[key] = NULL => id # argv[2] /\ id # argv[3]) => Lent(t, id)
  <2>1. CASE s.db[key] # NULL
    <3>1. \A other \in Keys : t.db[other] = s.db[other]
      BY <1>1, <2>1
    <3>2. t.heap = s.heap /\ EntriesOK(s) /\ Separate(s)
      BY <1>1 DEF HeapOK
    <3>3. EntriesOK(t)
      BY ONLY <3>1, <3>2 DEF EntriesOK, Bound
    <3>4. Separate(t)
      BY ONLY <3>1, <3>2 DEF Separate, Bound
    <3>5. \A id : Lent(s, id) => Lent(t, id)
      BY ONLY <3>1, <3>2 DEF Lent, Bound
    <3> QED BY <3>3, <3>4, <3>5
  <2>2. CASE s.db[key] = NULL
    <3>1. Bound(t, key) /\ t.db[key][1] = argv[2] /\ t.db[key][2] = argv[3]
      <4>1. t.db[key] = <<argv[2], argv[3]>>
        BY <1>1, <2>2
      <4>2. <<argv[2], argv[3]>> \in Ids \X Ids
        BY <1>0
      <4> QED BY <4>1, <4>2, NullAssumption DEF Bound
    <3>2. t.heap = s.heap /\ EntriesOK(s) /\ Separate(s)
      BY <1>1 DEF HeapOK
    <3>3. EntriesOK(t)
      BY <1>6, <3>1, <3>2 DEF EntriesOK, Bound
    <3>4. ASSUME NEW other \in Keys \ {key}, Bound(t, other), NEW m \in {1, 2}, NEW n \in {1, 2}
          PROVE  t.db[key][m] # t.db[other][n]
      <4>1. Bound(s, other) /\ t.db[other] = s.db[other]
        BY <1>6, <3>4 DEF Bound
      <4>2. t.db[key][m] = argv[m + 1] /\ m + 1 \in {1, 2, 3}
        BY <3>1
      <4> QED BY <1>5, <4>1, <4>2 DEF Lent
    <3>5. \A one, other \in Keys \ {key}, m, n \in {1, 2} :
            Bound(t, one) /\ Bound(t, other) /\ t.db[one][m] = t.db[other][n] => one = other /\ m = n
      BY <1>6, <3>2 DEF Separate, Bound
    <3>6. \A m, n \in {1, 2} : t.db[key][m] = t.db[key][n] => m = n
      BY <1>3, <3>1
    <3>7. Separate(t)
      <4> SUFFICES ASSUME NEW one \in Keys, NEW other \in Keys, NEW m \in {1, 2}, NEW n \in {1, 2},
                          Bound(t, one), Bound(t, other), t.db[one][m] = t.db[other][n]
                   PROVE  one = other /\ m = n
        BY DEF Separate
      <4>1. CASE one = key /\ other = key
        BY <3>6, <4>1
      <4>2. CASE one = key /\ other # key
        BY <3>4, <4>2
      <4>3. CASE one # key /\ other = key
        BY <3>4, <4>3
      <4>4. CASE one # key /\ other # key
        BY <3>5, <4>4
      <4> QED BY <4>1, <4>2, <4>3, <4>4
    <3>8. \A id : Lent(s, id) /\ id # argv[2] /\ id # argv[3] => Lent(t, id)
      <4> SUFFICES ASSUME NEW id, Lent(s, id), id # argv[2], id # argv[3] PROVE Lent(t, id)
        OBVIOUS
      <4>1. \A m \in {1, 2} : t.db[key][m] # id
        BY <3>1
      <4>2. \A other \in Keys \ {key}, m \in {1, 2} : Bound(t, other) => t.db[other][m] # id
        BY <1>6 DEF Lent, Bound
      <4> QED BY <1>1, <4>1, <4>2 DEF Lent
    <3> QED BY <2>2, <3>3, <3>7, <3>8
  <2> QED BY <2>1, <2>2
<1>8. /\ t.clients[i].argv \in Seq(Ids \cup {NULL}) /\ DOMAIN t.clients[i].argv = {1, 2, 3}
      /\ t.clients[i].argv[1] = argv[1] /\ t.clients[i].argv[2] = NULL /\ t.clients[i].argv[3] = NULL
  <2> DEFINE rest == <<argv[1], NULL, NULL>>
  <2>1. /\ rest \in Seq(Ids \cup {NULL}) /\ DOMAIN rest = {1, 2, 3}
        /\ rest[1] = argv[1] /\ rest[2] = NULL /\ rest[3] = NULL
    BY <1>0
  <2>2. t.clients[i].argv = rest
    BY <1>1
  <2> HIDE DEF rest
  <2> QED BY <2>1, <2>2
<1>9. ASSUME NEW j \in Cells \ {i}, s.clients[j] # NULL, NEW p \in DOMAIN s.clients[j].argv,
             s.clients[j].argv[p] # NULL
      PROVE  Lent(t, s.clients[j].argv[p]) /\ s.clients[j].argv[p] # argv[1]
  <2>1. Lent(s, s.clients[j].argv[p])
    BY <1>9 DEF HeapOK, ClientsOK, ArgvOK
  <2>2. s.clients[j].argv[p] # argv[1] /\ s.clients[j].argv[p] # argv[2] /\ s.clients[j].argv[p] # argv[3]
    BY <1>0, <1>2, <1>9 DEF OwnArgs
  <2> QED BY <1>7, <2>1, <2>2
<1>10. ClientsOK(t)
  <2>1. t.clients[i].fd = i /\ ArgvOK(t, t.clients[i])
    <3>1. Lent(t, argv[1])
      BY <1>3, <1>5, <1>7
    <3> QED BY <1>0, <1>1, <1>4, <1>8, <3>1 DEF ArgvOK, HeapOK, ClientsOK
  <2>2. \A j \in Cells \ {i} : t.clients[j] # NULL => t.clients[j].fd = j /\ ArgvOK(t, t.clients[j])
    BY <1>1, <1>9 DEF ArgvOK, HeapOK, ClientsOK
  <2> QED BY <2>1, <2>2 DEF ClientsOK
<1>11. OwnArgs(t, i)
  <2>1. \A p, q \in DOMAIN t.clients[i].argv :
          t.clients[i].argv[p] # NULL /\ t.clients[i].argv[p] = t.clients[i].argv[q] => p = q
    BY <1>2, <1>8
  <2>2. ASSUME NEW j \in Cells \ {i}, t.clients[j] # NULL,
               NEW p \in DOMAIN t.clients[j].argv, NEW q \in DOMAIN t.clients[i].argv,
               t.clients[i].argv[q] # NULL
        PROVE  t.clients[j].argv[p] # t.clients[i].argv[q]
    <3>1. t.clients[j] = s.clients[j] /\ t.clients[i].argv[q] = argv[1]
      BY <1>1, <1>8, <2>2
    <3> QED BY <1>2, <1>9, <2>2, <3>1
  <2> QED BY <1>0, <1>1, <2>1, <2>2 DEF OwnArgs
<1> QED BY <1>1, <1>7, <1>10, <1>11 DEF HeapOK

LEMMA CmdDelShape ==
  ASSUME NEW s, Shape(s), NEW key, NEW t, t = CmdDel(s, key).server
  PROVE  Shape(t) /\ SameClients(s, t)
<1> DEFINE freed == Free(s, s.db[key])
           unbound == [freed EXCEPT !.db[key] = NULL]
<1>1. t = IF s.db[key] = NULL THEN s ELSE unbound
  BY DEF CmdDel, Outcome
<1>2. Shape(freed) /\ SameClients(s, freed)
  BY FreeShape
<1>3. unbound = [freed EXCEPT !.db[key] = NULL]
  OBVIOUS
<1> HIDE DEF freed, unbound
<1>4. EntrySet(freed, unbound, key, NULL)
  BY ONLY <1>2, <1>3, DbSet
<1> QED BY <1>1, <1>2, <1>4 DEF EntrySet, SameClients

(* DEL frees the strings of one entry, and they are nobody else's.         *)
LEMMA CmdDelHeap ==
  ASSUME NEW s, Shape(s), HeapOK(s), NEW key \in Keys, NEW t, t = CmdDel(s, key).server
  PROVE  /\ HeapOK(t)
         /\ TableAt(t, key) = NULL /\ \A other \in Keys \ {key} : TableAt(t, other) = TableAt(s, other)
<1>1. CASE s.db[key] = NULL
  <2>1. t = s
    BY <1>1 DEF CmdDel, Outcome
  <2> QED BY <1>1, <2>1 DEF TableAt, Bound
<1>2. CASE s.db[key] # NULL
  <2> DEFINE a == s.db[key][1]
             b == s.db[key][2]
             freed == Free(s, s.db[key])
             unbound == [freed EXCEPT !.db[key] = NULL]
  <2>1. t = unbound
    BY <1>2 DEF CmdDel, Outcome
  <2>2. a \in Ids /\ b \in Ids /\ ToSet(s.db[key]) = {a, b} /\ a # NULL /\ b # NULL
    BY <1>2, EntryOk, NullAssumption DEF Bound
  <2>3. a \notin FreeIds(s) /\ b \notin FreeIds(s)
    <3>1. s.heap[a] = key /\ s.heap[b] \in Vals
      BY <1>2 DEF HeapOK, EntriesOK, Bound
    <3> QED BY <3>1, NullAssumption DEF FreeIds, Words
  <2>4. /\ freed.db = s.db /\ SameClients(s, freed) /\ freed.up
        /\ \A id \in Ids : freed.heap[id] = IF id \in {a, b} THEN NULL ELSE s.heap[id]
    <3> HIDE DEF a, b
    <3>1. freed = Free(s, s.db[key])
      OBVIOUS
    <3> HIDE DEF freed
    <3>2. /\ freed.db = s.db /\ SameClients(s, freed)
          /\ freed.up <=> s.up /\ (ToSet(s.db[key]) \ {NULL}) \cap FreeIds(s) = {}
          /\ freed.heap = [id \in Ids |-> IF id \in ToSet(s.db[key]) \ {NULL} THEN NULL ELSE s.heap[id]]
      BY <3>1, FreeFields DEF Shape, SameClients
    <3> QED BY <2>2, <2>3, <3>2 DEF HeapOK
  <2>5. unbound = [freed EXCEPT !.db[key] = NULL] /\ Shape(freed)
    BY FreeShape
  <2> HIDE DEF freed, unbound
  <2>6. EntrySet(freed, unbound, key, NULL)
    BY ONLY <2>5, DbSet
  <2> HIDE DEF a, b
  <2>7. /\ t.clients = s.clients /\ t.base = 0 /\ t.up
        /\ \A id \in Ids : id # a /\ id # b => t.heap[id] = s.heap[id]
        /\ ~Bound(t, key) /\ \A other \in Keys \ {key} : t.db[other] = s.db[other]
    BY <2>1, <2>4, <2>6 DEF EntrySet, SameClients, HeapOK, Bound
  <2>8. ASSUME NEW other \in Keys, Bound(t, other)
        PROVE  /\ other # key /\ Bound(s, other) /\ t.db[other] = s.db[other]
               /\ \A m \in {1, 2} : t.heap[t.db[other][m]] = s.heap[s.db[other][m]]
    <3>1. other # key /\ Bound(s, other) /\ t.db[other] = s.db[other]
      BY <2>7, <2>8 DEF Bound
    <3>2. \A m \in {1, 2} : s.db[other][m] \in Ids /\ s.db[other][m] # a /\ s.db[other][m] # b
      BY <1>2, <3>1, EntryOk DEF HeapOK, Separate, Bound, a, b
    <3> QED BY <2>7, <3>1, <3>2
  <2>9. EntriesOK(t)
    BY <2>8 DEF HeapOK, EntriesOK
  <2>10. Separate(t)
    BY <2>8 DEF HeapOK, Separate
  <2>11. \A id \in Ids : Lent(s, id) => Lent(t, id)
    <3> SUFFICES ASSUME NEW id \in Ids, Lent(s, id) PROVE Lent(t, id)
      OBVIOUS
    <3>1. id # a /\ id # b
      BY <1>2 DEF Lent, Bound, a, b
    <3> QED BY <2>7, <2>8, <3>1 DEF Lent
  <2>12. ClientsOK(t)
    <3> SUFFICES ASSUME NEW j \in Cells, s.clients[j] # NULL
                 PROVE  s.clients[j].fd = j /\ ArgvOK(t, s.clients[j])
      BY <2>7 DEF ClientsOK
    <3>1. s.clients[j].argv \in Seq(Ids \cup {NULL})
      BY ClientOk DEF Shape
    <3>2. s.clients[j].fd = j /\ ArgvOK(s, s.clients[j])
      BY DEF HeapOK, ClientsOK
    <3> QED BY <2>11, <3>1, <3>2 DEF ArgvOK
  <2>13. TableAt(t, key) = NULL
    BY <2>7 DEF TableAt
  <2>14. ASSUME NEW other \in Keys \ {key} PROVE TableAt(t, other) = TableAt(s, other)
    BY <2>7, <2>8 DEF TableAt, Bound
  <2> QED BY <2>7, <2>9, <2>10, <2>12, <2>13, <2>14 DEF HeapOK
<1> QED BY <1>1, <1>2

LEMMA ArgsFreedShape ==
  ASSUME NEW s, Shape(s), NEW i \in Cells, s.clients[i] \in Client, NEW t, t = ArgsFreed(s, i)
  PROVE  ArgsSet(s, t, i, <<>>)
<1> DEFINE freed == Free(s, s.clients[i].argv)
           none == <<>>
<1>1. Shape(freed) /\ SameClients(s, freed) /\ freed.db = s.db
  BY FreeShape
<1>2. t = [freed EXCEPT !.clients[i].argv = <<>>, !.clients[i].first = "freed"]
  BY DEF ArgsFreed
<1> HIDE DEF freed
<1>3. freed.clients[i] \in Client
  BY <1>1 DEF SameClients
<1>4. <<>> \in Seq(Ids \cup {NULL}) /\ "freed" \in {"unset", "kept", "freed"}
  OBVIOUS
<1>5. ArgsSet(freed, t, i, <<>>)
  BY ONLY i \in Cells, <1>1, <1>2, <1>3, <1>4, ArgvSet
<1> QED BY <1>1, <1>5 DEF ArgsSet, SameClients

(* The clean-up frees what is left in argv, and that is nobody else's.     *)
LEMMA ArgsFreedHeap ==
  ASSUME NEW s, Shape(s), HeapOK(s), NEW i, OwnArgs(s, i), NEW t, t = ArgsFreed(s, i)
  PROVE  HeapOK(t) /\ SameTable(s, t)
<1> DEFINE argv == s.clients[i].argv
           freed == Free(s, argv)
           ids == ToSet(argv) \ {NULL}
<1>1. i \in Cells /\ s.clients[i] \in Client /\ s.clients[i] # NULL /\ argv \in Seq(Ids \cup {NULL})
  BY ClientOk DEF OwnArgs
<1>2. ArgsSet(s, t, i, <<>>)
  BY <1>1, ArgsFreedShape
<1>3. \A id \in ids : id \in Ids /\ Lent(s, id) /\ \E p \in DOMAIN argv : argv[p] = id
  BY <1>1 DEF HeapOK, ClientsOK, ArgvOK, ToSet
<1>4. /\ t.heap = freed.heap /\ (t.up <=> freed.up) /\ Shape(freed)
  <2>1. Shape(freed) /\ freed.clients = s.clients
    BY FreeShape DEF SameClients
  <2>2. t = [freed EXCEPT !.clients[i].argv = <<>>, !.clients[i].first = "freed"]
    BY DEF ArgsFreed
  <2> HIDE DEF freed
  <2> QED BY <2>1, <2>2 DEF Shape, IsServer
<1>5. /\ freed.up /\ \A id \in Ids : freed.heap[id] = IF id \in ids THEN NULL ELSE s.heap[id]
  <2>1. ids \cap FreeIds(s) = {}
    BY <1>3 DEF Lent, FreeIds
  <2>2. freed = Free(s, argv)
    OBVIOUS
  <2> HIDE DEF freed, argv
  <2>3. /\ freed.up <=> s.up /\ ids \cap FreeIds(s) = {}
        /\ freed.heap = [id \in Ids |-> IF id \in ids THEN NULL ELSE s.heap[id]]
    BY <2>2, FreeFields DEF Shape
  <2> HIDE DEF ids
  <2> QED BY <2>1, <2>3 DEF HeapOK
<1> HIDE DEF freed
<1>6. t.base = 0 /\ t.up /\ t.db = s.db
  BY <1>2, <1>4, <1>5 DEF ArgsSet, HeapOK
<1>7. \A key \in Keys, m \in {1, 2} : Bound(s, key) => t.heap[s.db[key][m]] = s.heap[s.db[key][m]]
  <2> SUFFICES ASSUME NEW key \in Keys, NEW m \in {1, 2}, Bound(s, key)
               PROVE  t.heap[s.db[key][m]] = s.heap[s.db[key][m]]
    OBVIOUS
  <2>1. s.db[key][m] \in Ids
    BY EntryOk
  <2>2. s.db[key][m] \notin ids
    BY <1>3 DEF Lent
  <2> HIDE DEF ids
  <2> QED BY <1>4, <1>5, <2>1, <2>2
<1>8. EntriesOK(t) /\ Separate(t) /\ SameTable(s, t)
  BY <1>6, <1>7 DEF HeapOK, EntriesOK, Separate, SameTable, TableAt, Bound
<1>9. \A id \in Ids : Lent(s, id) /\ id \notin ids => Lent(t, id)
  <2> HIDE DEF ids
  <2> QED BY <1>4, <1>5, <1>6 DEF Lent, Bound
<1>10. ClientsOK(t)
  <2>1. t.clients[i].fd = i /\ t.clients[i].argv = <<>>
    BY <1>1, <1>2 DEF ArgsSet, HeapOK, ClientsOK
  <2>2. ArgvOK(t, t.clients[i])
    BY <2>1 DEF ArgvOK
  <2>3. ASSUME NEW j \in Cells \ {i}, t.clients[j] # NULL
        PROVE  t.clients[j].fd = j /\ ArgvOK(t, t.clients[j])
    <3>1. t.clients[j] = s.clients[j]
      BY <1>2 DEF ArgsSet
    <3>2. s.clients[j].argv \in Seq(Ids \cup {NULL})
      BY <2>3, <3>1, ClientOk DEF Shape
    <3>3. s.clients[j].fd = j /\ ArgvOK(s, s.clients[j])
      BY <2>3, <3>1 DEF HeapOK, ClientsOK
    <3>4. ASSUME NEW p \in DOMAIN s.clients[j].argv, s.clients[j].argv[p] # NULL
          PROVE  Lent(t, s.clients[j].argv[p])
      <4> DEFINE id == s.clients[j].argv[p]
      <4>1. id \in Ids /\ Lent(s, id)
        BY <3>2, <3>3, <3>4 DEF ArgvOK
      <4>2. id \notin ids
        BY <1>3, <2>3, <3>1, <3>4 DEF OwnArgs
      <4> HIDE DEF ids
      <4> QED BY <1>9, <4>1, <4>2
    <3> QED BY <3>1, <3>3, <3>4 DEF ArgvOK
  <2> QED BY <2>1, <2>2, <2>3 DEF ClientsOK
<1> QED BY <1>6, <1>8, <1>10 DEF HeapOK

(* A send() that fails moves the table.                                    *)
LEMMA FlushedMoves ==
  ASSUME NEW s, Shape(s), NEW fd \in Fds, NEW text, NEW t, t = Flushed(s, fd, text)
  PROVE  /\ Shape(t) /\ t.clients = s.clients
         /\ \/ t = s /\ Sent(fd, text)
            \/ t.base = s.base + 1
            \/ t.base = s.base /\ s.clients[CellOf(s, fd)] = NULL
<1> DEFINE c == s.clients[CellOf(s, fd)]
           freed == Free(s, c.argv)
           u == Unregistered(s, fd)
<1>1. CASE Sent(fd, text)
  BY <1>1 DEF Flushed
<1>2. CASE ~Sent(fd, text)
  <2>1. t = [u EXCEPT !.active_fds = @ \ {fd}]
    BY <1>2 DEF Flushed
  <2>2. Shape(u) /\ u.clients = s.clients /\ (u.base = s.base + 1 \/ (u.base = s.base /\ c = NULL))
    <3>1. CASE c = NULL
      <4>1. u = [s EXCEPT !.up = FALSE]
        BY <3>1 DEF Unregistered
      <4> HIDE DEF c, u
      <4> QED BY <3>1, <4>1 DEF Shape, IsServer
    <3>2. CASE c # NULL
      <4>1. u = [freed EXCEPT !.base = @ + 1]
        BY <3>2 DEF Unregistered
      <4>2. Shape(freed) /\ SameClients(s, freed)
        BY FreeShape
      <4> HIDE DEF freed, u
      <4> QED BY <4>1, <4>2 DEF Shape, IsServer, SameClients
    <3> QED BY <3>1, <3>2
  <2> HIDE DEF u
  <2> QED BY <2>1, <2>2 DEF Shape, IsServer
<1> QED BY <1>1, <1>2

LEMMA CommitShape ==
  ASSUME NEW s, Shape(s), Commit(s)
  PROVE  /\ Shape(server') /\ SameClients(s, server') /\ server'.db = s.db /\ (server'.up <=> s.up)
         /\ \A id \in Owned(s) \cap Ids : server'.heap[id] = s.heap[id]
         /\ \A id \in Held(s) \cap Ids : s.heap[id] # NULL => server'.heap[id] # NULL
<1> DEFINE lost == Ids \ (FreeIds(s) \cup Owned(s) \cup Held(s))
           unread == Held(s) \ (FreeIds(s) \cup Owned(s))
           heap == [id \in Ids |-> CASE id \in lost -> NULL
                                     [] id \in unread -> Unread
                                     [] OTHER -> s.heap[id]]
<1>1. server' = [s EXCEPT !.heap = heap]
  BY DEF Commit
<1>2. DOMAIN heap = Ids
  OBVIOUS
<1>3. ASSUME NEW id \in Owned(s) \cap Ids PROVE heap[id] = s.heap[id]
  BY <1>3
<1>4. ASSUME NEW id \in Held(s) \cap Ids, s.heap[id] # NULL PROVE heap[id] # NULL
  BY <1>4, NullAssumption
<1> HIDE DEF heap
<1>5. /\ Shape(server') /\ server'.heap = heap /\ (server'.up <=> s.up)
      /\ server'.clients = s.clients /\ server'.base = s.base
      /\ server'.active_fds = s.active_fds /\ server'.db = s.db
  BY <1>1, <1>2 DEF Shape, IsServer
<1> QED BY <1>3, <1>4, <1>5 DEF SameClients

LEMMA CommitHeap ==
  ASSUME NEW s, Shape(s), HeapOK(s), Commit(s)
  PROVE  HeapOK(server') /\ SameTable(s, server')
<1> DEFINE t == server'
<1>1. /\ Shape(t) /\ t.clients = s.clients /\ t.base = 0 /\ t.db = s.db /\ t.up
      /\ \A id \in Owned(s) \cap Ids : t.heap[id] = s.heap[id]
      /\ \A id \in Held(s) \cap Ids : s.heap[id] # NULL => t.heap[id] # NULL
  BY CommitShape DEF SameClients, HeapOK
<1> HIDE DEF t
<1>2. ASSUME NEW key \in Keys, NEW m \in {1, 2}, Bound(s, key)
      PROVE  t.heap[s.db[key][m]] = s.heap[s.db[key][m]]
  <2>1. s.db[key][m] \in Ids /\ s.db[key][m] \in ToSet(s.db[key])
    BY <1>2, EntryOk
  <2>2. s.db[key][m] \in Owned(s)
    BY <1>2, <2>1 DEF Owned, Bound
  <2> QED BY <1>1, <2>1, <2>2
<1>3. EntriesOK(t) /\ Separate(t) /\ SameTable(s, t)
  BY <1>1, <1>2 DEF HeapOK, EntriesOK, Separate, SameTable, TableAt, Bound
<1>4. ASSUME NEW j \in Cells, s.clients[j] # NULL, NEW p \in DOMAIN s.clients[j].argv,
             s.clients[j].argv[p] # NULL
      PROVE  Lent(t, s.clients[j].argv[p])
  <2> DEFINE id == s.clients[j].argv[p]
  <2>1. s.clients[j].argv \in Seq(Ids \cup {NULL})
    BY <1>4, ClientOk DEF Shape
  <2>2. id \in Ids /\ Lent(s, id)
    BY <1>4, <2>1 DEF HeapOK, ClientsOK, ArgvOK
  <2>3. id \in Held(s)
    <3>1. id \in ToSet(s.clients[j].argv)
      BY <1>4 DEF ToSet
    <3>2. j \in DOMAIN s.clients
      BY DEF Shape
    <3> QED BY <1>4, <3>1, <3>2 DEF Held
  <2> HIDE DEF id
  <2>4. Lent(t, id)
    BY <1>1, <2>2, <2>3 DEF Lent, Bound
  <2> QED BY <2>4 DEF id
<1>5. ClientsOK(t)
  BY <1>1, <1>4 DEF HeapOK, ClientsOK, ArgvOK
<1> QED BY <1>1, <1>3, <1>5 DEF HeapOK, t

LEMMA ExecutedShape ==
  ASSUME NEW s, Shape(s), NEW i \in Cells, s.clients[i] \in Client,
         NEW words, WellFormed(words), words[1] # "exit",
         NEW argv \in Seq(Ids), argv = s.clients[i].argv, Len(argv) = Len(words),
         NEW t, t = Executed(s, i, words).server
  PROVE  /\ Shape(t) /\ t.base = s.base
         /\ t.clients[i] \in Client /\ t.clients[i].fd = s.clients[i].fd
<1>1. words[1] \in {"get", "set", "del", "exist", "time"}
  BY DEF WellFormed, Arity
<1>2. CASE words[1] \in {"get", "exist", "time"}
  <2>1. t = s
    BY <1>2 DEF Executed, CmdGet, CmdExist, Outcome
  <2> QED BY <2>1
<1>3. CASE words[1] = "set"
  <2>1. t = CmdSet(s, i, words[2]).server
    BY <1>3 DEF Executed
  <2>2. Len(argv) = 3
    BY <1>3 DEF WellFormed, Arity
  <2>3. HandedOver(s, t, i, argv, words[2])
    BY <2>1, <2>2, CmdSetSets
  <2> QED BY <2>3 DEF HandedOver
<1>4. CASE words[1] = "del"
  <2>1. t = CmdDel(s, words[2]).server
    BY <1>4 DEF Executed
  <2>2. Shape(t) /\ SameClients(s, t)
    BY <2>1, CmdDelShape
  <2> QED BY <2>2 DEF SameClients
<1> QED BY <1>1, <1>2, <1>3, <1>4

LEMMA ExecutedHeap ==
  ASSUME NEW s, Shape(s), HeapOK(s), NEW i, OwnArgs(s, i),
         NEW words, WellFormed(words), words[1] # "exit",
         words[1] \in {"get", "set", "del", "exist"} => words[2] \in Keys,
         words[1] = "set" => words[3] \in Vals,
         NEW argv \in Seq(Ids), argv = s.clients[i].argv, Len(argv) = Len(words),
         \A p \in DOMAIN argv : s.heap[argv[p]] = words[p],
         NEW t, t = Executed(s, i, words).server
  PROVE  HeapOK(t) /\ OwnArgs(t, i)
<1>0. i \in Cells /\ s.clients[i] \in Client
  BY DEF OwnArgs
<1>1. words[1] \in {"get", "set", "del", "exist", "time"}
  BY DEF WellFormed, Arity
<1>2. CASE words[1] \in {"get", "exist", "time"}
  <2>1. t = s
    BY <1>2 DEF Executed, CmdGet, CmdExist, Outcome
  <2> QED BY <2>1
<1>3. CASE words[1] = "set"
  <2>1. t = CmdSet(s, i, words[2]).server
    BY <1>3 DEF Executed
  <2>2. Len(argv) = 3
    BY <1>3 DEF WellFormed, Arity
  <2>3. words[2] \in Keys /\ s.heap[argv[2]] = words[2] /\ s.heap[argv[3]] \in Vals
    BY <1>3, <2>2
  <2> QED BY <2>1, <2>2, <2>3, CmdSetHeap
<1>4. CASE words[1] = "del"
  <2>1. t = CmdDel(s, words[2]).server
    BY <1>4 DEF Executed
  <2>2. HeapOK(t)
    BY <1>4, <2>1, CmdDelHeap
  <2>3. Shape(t) /\ t.clients = s.clients
    BY <2>1, CmdDelShape DEF SameClients
  <2>4. OwnArgs(t, i)
    BY <2>3 DEF OwnArgs
  <2> QED BY <2>2, <2>4
<1> QED BY <1>1, <1>2, <1>3, <1>4

-----------------------------------------------------------------------------
(* The invariant, and the steps of the loop and of the peers.              *)

Socket == [state : {"closed", "up", "hungup", "reset"}, inbox : Seq(Words)]

SocketsOK == conn \in [Fds -> Socket] /\ \A fd \in Fds : Complete(conn[fd].inbox)

(* The inductive invariant: a string has one owner at most, as long as     *)
(* client_unregister has not moved the table.                              *)
HeapInv == /\ Shape(server) /\ server.base <= MaxBase
           /\ server.base = 0 => HeapOK(server)
           /\ SocketsOK
           /\ read_fds \subseteq Fds
           /\ pc \in {"select", "accept", "serve", "exited", "aborted"}
           /\ backlog \in Nat /\ backlog <= MaxPeers /\ (pc = "accept" => backlog > 0)

(* What a served request leaves behind.                                    *)
After(t) == /\ Shape(t)
            /\ t.base = 0 => HeapOK(t)

LEMMA CellOk ==
  ASSUME NEW s, s.base \in Nat, s.base <= MaxBase, NEW fd \in Fds
  PROVE  CellOf(s, fd) \in Cells
<1>1. fd \in Nat /\ fd >= 4 /\ fd \in Cells
  BY FdsInCells, DescriptorAssumption, FS_CardinalityType
<1>2. fd - s.base \in 0..fd
  BY <1>1, BoundsAssumption
<1>3. 0..fd \subseteq Cells
  BY FdsInCells
<1> QED BY <1>2, <1>3 DEF CellOf

LEMMA CommitAfter ==
  ASSUME NEW s, After(s), Commit(s)
  PROVE  After(server') /\ server'.base <= MaxBase
<1>1. Shape(server') /\ server'.base = s.base /\ s.base <= MaxBase
  BY CommitShape DEF After, SameClients, Commit
<1>2. s.base = 0 => HeapOK(server')
  BY CommitHeap DEF After
<1> QED BY <1>1, <1>2 DEF After

LEMMA UnwatchedShape ==
  ASSUME NEW s, Shape(s), NEW fd, NEW t, t = Unwatched(s, fd)
  PROVE  /\ Shape(t) /\ t.clients = s.clients /\ t.base = s.base /\ t.db = s.db /\ t.heap = s.heap
         /\ (t.up <=> s.up)
         /\ HeapOK(s) => HeapOK(t)
<1>1. /\ Shape(t) /\ t.clients = s.clients /\ t.base = s.base /\ t.db = s.db /\ t.heap = s.heap
      /\ (t.up <=> s.up)
  BY DEF Unwatched, Shape, IsServer
<1>2. HeapOK(s) => HeapOK(t)
  BY <1>1 DEF HeapOK, EntriesOK, Separate, ClientsOK, ArgvOK, Lent, Bound
<1> QED BY <1>1, <1>2

(* A request that has been received and put into argv.                     *)
LEMMA ReceivedParsed ==
  ASSUME HeapInv, NEW fd \in Fds, NEW n, Received(fd, n), Room(WordsIn(fd, n)),
         NEW words, words = WordsIn(fd, n),
         NEW i, i = CellOf(server, fd), NEW s, s = Parsed(server, i, words)
  PROVE  /\ i \in Cells /\ ClientOf(fd) \in Client /\ ClientOf(fd).fd \in Fds
         /\ Shape(s) /\ s.base = server.base
         /\ s.clients[i] \in Client /\ s.clients[i].fd = ClientOf(fd).fd
         /\ \E argv \in Seq(Ids) : /\ argv = s.clients[i].argv /\ Len(argv) = Len(words)
                                   /\ \A p \in DOMAIN argv : s.heap[argv[p]] = words[p]
         /\ server.base = 0 => /\ HeapOK(s) /\ OwnArgs(s, i) /\ SameTable(server, s)
                               /\ ClientOf(fd).fd = fd /\ i = fd
         /\ words \in Seq(Words) /\ Len(words) <= Cardinality(FreeIds(server))
         /\ s.db = server.db
<1>1. i \in Cells
  BY CellOk DEF HeapInv, Shape
<1>2. ClientOf(fd) = server.clients[i] /\ ClientOf(fd) \in Client /\ ClientOf(fd).fd \in Fds
  BY <1>1, ClientOk DEF ClientOf, Received, HeapInv, Shape
<1>3. words \in Seq(Words)
  <2>1. conn[fd].inbox \in Seq(Words) /\ Complete(conn[fd].inbox) /\ n \in DOMAIN conn[fd].inbox
    BY DEF HeapInv, SocketsOK, Socket, Received
  <2> QED BY <2>1, WordsOk
<1>4. Len(words) <= Cardinality(FreeIds(server))
  <2>1. Cardinality(FreeIds(server)) \in Nat
    <3>1. IsFiniteSet(Ids)
      BY BoundsAssumption, FS_Interval DEF Ids
    <3> QED BY <3>1, FS_Subset, FS_CardinalityType DEF FreeIds
  <2> QED BY <1>3, <2>1, BoundsAssumption DEF Room, HeapInv, Shape
<1> DEFINE ids == Allocated(server, Len(words))
<1>5. /\ ArgsSet(server, s, i, ids)
      /\ ids \in Seq(Ids) /\ DOMAIN ids = DOMAIN words
      /\ \A p \in DOMAIN ids : server.heap[ids[p]] = NULL /\ s.heap[ids[p]] = words[p]
  <2>1. ids = Allocated(server, Len(words)) /\ Shape(server) /\ server.clients[i] \in Client
    BY <1>2 DEF HeapInv
  <2> HIDE DEF ids
  <2> QED BY <1>1, <1>3, <1>4, <2>1, ParsedSets
<1> HIDE DEF ids
<1>6. Len(ids) = Len(words)
  BY <1>3, <1>5
<1>7. server.base = 0 => HeapOK(s) /\ OwnArgs(s, i) /\ SameTable(server, s)
  BY <1>1, <1>2, <1>3, <1>4, ParsedHeap DEF HeapInv
<1>8. server.base = 0 => i = fd /\ ClientOf(fd).fd = fd
  <2> SUFFICES ASSUME server.base = 0 PROVE i = fd /\ ClientOf(fd).fd = fd
    OBVIOUS
  <2>1. i = fd
    BY CellIsFd
  <2>2. server.clients[i] # NULL
    BY <1>2, ClientOk
  <2> QED BY <1>1, <1>2, <2>1, <2>2 DEF HeapInv, HeapOK, ClientsOK
<1> QED BY <1>1, <1>2, <1>3, <1>4, <1>5, <1>6, <1>7, <1>8 DEF ArgsSet

(* As long as the table is not moved the answer has been sent.             *)
LEMMA FlushedStays ==
  ASSUME NEW s, Shape(s), NEW i, s.clients[i] \in Client, NEW fd \in Fds, s.base = 0 => i = fd,
         NEW text, NEW t, t = Flushed(s, fd, text), t.base = 0
  PROVE  t = s /\ Sent(fd, text)
<1> SUFFICES ASSUME ~(t = s /\ Sent(fd, text)) PROVE FALSE
  OBVIOUS
<1>1. t.base = s.base + 1 \/ (t.base = s.base /\ s.clients[CellOf(s, fd)] = NULL)
  BY FlushedMoves
<1>2. s.base = 0 /\ s.clients[CellOf(s, fd)] = NULL
  BY <1>1 DEF Shape
<1>3. CellOf(s, fd) = i
  BY <1>2, CellIsFd
<1> QED BY <1>2, <1>3, ClientOk

(* What is left when the answer has been sent, or has not.                 *)
LEMMA FlushedAfter ==
  ASSUME NEW s, Shape(s), NEW i \in Cells, s.clients[i] \in Client,
         NEW fd \in Fds, s.base = 0 => HeapOK(s) /\ OwnArgs(s, i) /\ i = fd,
         NEW text, NEW t, t = Flushed(s, fd, text)
  PROVE  /\ After(t) /\ t.clients[i] \in Client
         /\ t.base = 0 => OwnArgs(t, i)
<1>1. /\ Shape(t) /\ t.clients = s.clients
      /\ t = s \/ t.base = s.base + 1 \/ t.base = s.base
  BY FlushedMoves
<1>2. t.base = 0 => t = s
  BY FlushedStays
<1> QED BY <1>1, <1>2 DEF After, OwnArgs

LEMMA ArgsFreedAfter ==
  ASSUME NEW s, After(s), NEW i \in Cells, s.clients[i] \in Client,
         s.base = 0 => OwnArgs(s, i), NEW t, t = ArgsFreed(s, i)
  PROVE  After(t)
<1>1. ArgsSet(s, t, i, <<>>)
  BY ArgsFreedShape DEF After
<1>2. s.base = 0 => HeapOK(t)
  BY ArgsFreedHeap DEF After
<1> QED BY <1>1, <1>2 DEF After, ArgsSet

LEMMA ReceivedSockets ==
  ASSUME HeapInv, NEW fd \in Fds, NEW n, Received(fd, n)
  PROVE  Taken(fd, n) \in [Fds -> Socket] /\ \A other \in Fds : Complete(Taken(fd, n)[other].inbox)
<1> DEFINE inbox == conn[fd].inbox
           rest == SubSeq(inbox, n + 1, Len(inbox))
           socket == [conn[fd] EXCEPT !.inbox = rest]
<1>1. inbox \in Seq(Words) /\ Complete(inbox) /\ n \in DOMAIN inbox
  BY DEF HeapInv, SocketsOK, Socket, Received
<1>2. rest \in Seq(Words) /\ Complete(rest)
  <2>1. rest = SubSeq(inbox, n + 1, Len(inbox))
    OBVIOUS
  <2> HIDE DEF rest, inbox
  <2> QED BY <1>1, <2>1, TakenComplete
<1>3. Taken(fd, n) = [conn EXCEPT ![fd] = socket]
  BY DEF Taken, HeapInv, SocketsOK
<1> HIDE DEF rest
<1>4. socket \in Socket /\ socket.inbox = rest
  BY <1>2 DEF HeapInv, SocketsOK, Socket
<1> HIDE DEF socket
<1> QED BY <1>2, <1>3, <1>4 DEF HeapInv, SocketsOK

LEMMA ProceedTypes ==
  ASSUME HeapInv, NEW fd, Proceed(fd), After(server') /\ server'.base <= MaxBase, SocketsOK'
  PROVE  HeapInv'
BY DEF Proceed, HeapInv, After

LEMMA TakenSockets ==
  ASSUME HeapInv, NEW fd \in Fds, NEW n, Received(fd, n), conn' = Taken(fd, n)
  PROVE  SocketsOK'
BY ReceivedSockets DEF SocketsOK

LEMMA ClosedSockets ==
  ASSUME NEW table \in [Fds -> Socket], \A other \in Fds : Complete(table[other].inbox),
         NEW fd \in Fds, conn' = [table EXCEPT ![fd] = Closed]
  PROVE  SocketsOK'
<1>1. Closed \in Socket /\ Complete(Closed.inbox)
  BY DEF Closed, Socket, Complete
<1> QED BY <1>1 DEF SocketsOK

LEMMA RefuseHeap ==
  ASSUME HeapInv, NEW fd \in Fds, NEW n, Refuse(fd, n) \/ NoCommand(fd, n)
  PROVE  HeapInv'
<1> DEFINE i == CellOf(server, fd)
           words == WordsIn(fd, n)
           s == Parsed(server, i, words)
<1>1. Received(fd, n) /\ Room(words) /\ conn' = Taken(fd, n) /\ Proceed(fd)
  BY DEF Refuse, NoCommand
<1>2. PICK text : Commit(Flushed(s, ClientOf(fd).fd, text))
  BY DEF Refuse, NoCommand
<1>3. /\ i \in Cells /\ ClientOf(fd) \in Client /\ ClientOf(fd).fd \in Fds
      /\ Shape(s) /\ s.base = server.base
      /\ s.clients[i] \in Client /\ s.clients[i].fd = ClientOf(fd).fd
      /\ server.base = 0 => HeapOK(s) /\ OwnArgs(s, i) /\ ClientOf(fd).fd = fd /\ i = fd
  <2>1. words = WordsIn(fd, n) /\ i = CellOf(server, fd) /\ s = Parsed(server, i, words)
    OBVIOUS
  <2> HIDE DEF words, i, s
  <2> QED BY <1>1, <2>1, ReceivedParsed
<1> DEFINE t == Flushed(s, ClientOf(fd).fd, text)
<1>4. After(t)
  <2>1. t = Flushed(s, ClientOf(fd).fd, text)
    OBVIOUS
  <2> HIDE DEF i, s, t
  <2> QED BY <1>3, <2>1, FlushedAfter
<1> HIDE DEF i, s
<1>5. After(server') /\ server'.base <= MaxBase
  BY <1>2, <1>4, CommitAfter
<1> QED BY <1>1, <1>5, TakenSockets, ProceedTypes

LEMMA CommandHeap ==
  ASSUME HeapInv, NEW fd \in Fds, NEW n, Command(fd, n)
  PROVE  HeapInv'
<1> DEFINE i == CellOf(server, fd)
           words == WordsIn(fd, n)
           s == Parsed(server, i, words)
           outcome == Executed(s, i, words)
           o == outcome.server
           t == Flushed(o, ClientOf(fd).fd, outcome.text)
           u == ArgsFreed(t, i)
<1>1. /\ Received(fd, n) /\ Room(words) /\ conn' = Taken(fd, n) /\ Proceed(fd)
      /\ WellFormed(words) /\ words[1] # "exit"
      /\ Commit(u)
  BY DEF Command
<1>2. /\ i \in Cells /\ ClientOf(fd) \in Client /\ ClientOf(fd).fd \in Fds
      /\ Shape(s) /\ s.base = server.base
      /\ s.clients[i] \in Client /\ s.clients[i].fd = ClientOf(fd).fd
      /\ \E argv \in Seq(Ids) : /\ argv = s.clients[i].argv /\ Len(argv) = Len(words)
                                /\ \A p \in DOMAIN argv : s.heap[argv[p]] = words[p]
      /\ server.base = 0 => HeapOK(s) /\ OwnArgs(s, i) /\ ClientOf(fd).fd = fd /\ i = fd
  <2>1. words = WordsIn(fd, n) /\ i = CellOf(server, fd) /\ s = Parsed(server, i, words)
    OBVIOUS
  <2> HIDE DEF words, i, s
  <2> QED BY <1>1, <2>1, ReceivedParsed
<1>3. /\ words[1] \in {"get", "set", "del", "exist"} => words[2] \in Keys
      /\ words[1] = "set" => words[3] \in Vals
  <2>1. conn[fd].inbox \in Seq(Words) /\ Complete(conn[fd].inbox) /\ n \in DOMAIN conn[fd].inbox
    BY <1>1 DEF HeapInv, SocketsOK, Socket, Received
  <2> QED BY <1>1, <2>1, WordsOk
<1>4. PICK argv \in Seq(Ids) : /\ argv = s.clients[i].argv /\ Len(argv) = Len(words)
                               /\ \A p \in DOMAIN argv : s.heap[argv[p]] = words[p]
  BY <1>2
<1>10. o = Executed(s, i, words).server
  OBVIOUS
<1>11. t = Flushed(o, ClientOf(fd).fd, outcome.text) /\ u = ArgsFreed(t, i)
  OBVIOUS
<1> HIDE DEF i, words, s, outcome, o, t, u
<1>5. /\ Shape(o) /\ o.base = s.base
      /\ o.clients[i] \in Client /\ o.clients[i].fd = s.clients[i].fd
  BY <1>10, <1>1, <1>2, <1>4, ExecutedShape
<1>6. server.base = 0 => HeapOK(o) /\ OwnArgs(o, i)
  <2> SUFFICES ASSUME server.base = 0 PROVE HeapOK(o) /\ OwnArgs(o, i)
    OBVIOUS
  <2>1. HeapOK(s) /\ OwnArgs(s, i)
    BY <1>2
  <2> QED BY <1>10, <1>1, <1>2, <1>3, <1>4, <2>1, ExecutedHeap
<1>7. After(t) /\ t.clients[i] \in Client /\ (t.base = 0 => OwnArgs(t, i))
  <2>1. o.base = 0 => HeapOK(o) /\ OwnArgs(o, i) /\ i = ClientOf(fd).fd
    BY <1>2, <1>5, <1>6
  <2> QED BY <1>11, <1>2, <1>5, <2>1, FlushedAfter
<1>8. After(u)
  BY <1>11, <1>2, <1>7, ArgsFreedAfter
<1>9. After(server') /\ server'.base <= MaxBase
  BY <1>1, <1>8, CommitAfter
<1> QED BY <1>1, <1>9, TakenSockets, ProceedTypes

LEMMA ExitHeap ==
  ASSUME HeapInv, NEW fd \in Fds, NEW n, Exit(fd, n)
  PROVE  HeapInv'
<1> DEFINE i == CellOf(server, fd)
           words == WordsIn(fd, n)
           s == Parsed(server, i, words)
           t == Unwatched(s, ClientOf(fd).fd)
           u == ArgsFreed(t, i)
<1>1. /\ Received(fd, n) /\ words = <<"exit">> /\ Room(words) /\ Proceed(fd)
      /\ conn' = [Taken(fd, n) EXCEPT ![ClientOf(fd).fd] = Closed]
  BY DEF Exit
<1>2. Commit(u)
  BY DEF Exit
<1>3. /\ i \in Cells /\ ClientOf(fd) \in Client /\ ClientOf(fd).fd \in Fds
      /\ Shape(s) /\ s.base = server.base
      /\ s.clients[i] \in Client
      /\ server.base = 0 => HeapOK(s) /\ OwnArgs(s, i)
  <2>1. words = WordsIn(fd, n) /\ i = CellOf(server, fd) /\ s = Parsed(server, i, words)
    OBVIOUS
  <2> HIDE DEF words, i, s
  <2> QED BY <1>1, <2>1, ReceivedParsed
<1>4. t = Unwatched(s, ClientOf(fd).fd) /\ u = ArgsFreed(t, i)
  OBVIOUS
<1> HIDE DEF i, words, s, t, u
<1>5. /\ Shape(t) /\ t.clients = s.clients /\ t.base = s.base
      /\ HeapOK(s) => HeapOK(t)
  BY <1>3, <1>4, UnwatchedShape
<1>6. After(t) /\ (t.base = 0 => OwnArgs(t, i))
  BY <1>3, <1>5, BoundsAssumption DEF After, OwnArgs, Shape
<1>7. After(u)
  BY <1>3, <1>4, <1>5, <1>6, ArgsFreedAfter
<1>8. After(server') /\ server'.base <= MaxBase
  BY <1>2, <1>7, CommitAfter
<1>9. SocketsOK'
  BY <1>1, <1>3, ReceivedSockets, ClosedSockets
<1> QED BY <1>1, <1>8, <1>9, ProceedTypes

LEMMA RecvNoneHeap ==
  ASSUME HeapInv, NEW fd \in Fds, RecvNone(fd)
  PROVE  HeapInv'
<1>1. server' = Unwatched(server, fd) /\ Proceed(fd) /\ conn' = [conn EXCEPT ![fd] = Closed]
  BY DEF RecvNone
<1>2. After(server') /\ server'.base <= MaxBase
  BY <1>1, UnwatchedShape DEF HeapInv, After
<1>3. SocketsOK'
  BY <1>1, ClosedSockets DEF HeapInv, SocketsOK
<1> QED BY <1>1, <1>2, <1>3, ProceedTypes

(* A client that is registered holds no string yet.                        *)
LEMMA RegisteredAfter ==
  ASSUME HeapInv, NEW fd \in Fds,
         NEW t, t = [Registered(server, fd) EXCEPT !.active_fds = @ \cup {fd}]
  PROVE  After(t) /\ SameTable(server, t)
<1> DEFINE i == CellOf(server, fd)
           c == NewClient(fd)
<1>1. i \in Cells
  BY CellOk DEF HeapInv, Shape
<1>2. c \in Client /\ c.fd = fd /\ c.argv = <<>>
  BY DEF NewClient, Client
<1>3. /\ IsServer(t) /\ t.clients = [server.clients EXCEPT ![i] = c] /\ t.base = server.base
      /\ t.active_fds = server.active_fds \cup {fd} /\ t.db = server.db /\ t.heap = server.heap
      /\ (t.up <=> server.up)
  BY DEF Registered, HeapInv, Shape, IsServer
<1> HIDE DEF c, i
<1>4. Shape(t) /\ t.clients[i] = c /\ \A j \in Cells \ {i} : t.clients[j] = server.clients[j]
  <2>1. t.clients \in [Cells -> Client \cup {NULL}]
    BY <1>1, <1>2, <1>3 DEF HeapInv, Shape
  <2>2. t.clients[i] = c /\ \A j \in Cells \ {i} : t.clients[j] = server.clients[j]
    BY <1>1, <1>3 DEF HeapInv, Shape
  <2> QED BY <1>3, <2>1, <2>2 DEF HeapInv, Shape
<1>5. ASSUME server.base = 0 PROVE HeapOK(t)
  <2>1. i = fd
    BY <1>5, CellIsFd DEF i
  <2>2. HeapOK(server)
    BY <1>5 DEF HeapInv
  <2>3. EntriesOK(t) /\ Separate(t) /\ t.base = 0 /\ t.up
    BY <1>3, <2>2 DEF HeapOK, EntriesOK, Separate, Bound
  <2>4. \A id : Lent(server, id) => Lent(t, id)
    BY <1>3 DEF Lent, Bound
  <2>5. t.clients[i].fd = i /\ ArgvOK(t, t.clients[i])
    BY <1>2, <1>4, <2>1 DEF ArgvOK
  <2>6. \A j \in Cells \ {i} : t.clients[j] # NULL => t.clients[j].fd = j /\ ArgvOK(t, t.clients[j])
    BY ONLY <1>4, <2>2, <2>4 DEF HeapOK, ClientsOK, ArgvOK
  <2> QED BY <2>3, <2>5, <2>6 DEF HeapOK, ClientsOK
<1>6. SameTable(server, t)
  BY <1>3 DEF SameTable, TableAt, Bound
<1> QED BY <1>3, <1>4, <1>5, <1>6 DEF After, HeapInv

LEMMA AcceptHeap ==
  ASSUME HeapInv, Accept
  PROVE  HeapInv'
<1> DEFINE fd == Min(FreeFds)
           t == [Registered(server, fd) EXCEPT !.active_fds = @ \cup {fd}]
<1>1. /\ conn' = [conn EXCEPT ![fd] = Established] /\ Commit(t)
      /\ backlog' = backlog - 1 /\ pc = "accept"
      /\ pc' = IF read_fds = {} THEN "select" ELSE "serve"
      /\ UNCHANGED read_fds
  BY DEF Accept
<1>2. fd \in Fds
  <2>1. FreeFds \subseteq Fds /\ FreeFds # {}
    BY DEF Accept, FreeFds
  <2> QED BY <2>1, LeastFd
<1>3. t = [Registered(server, fd) EXCEPT !.active_fds = @ \cup {fd}]
  OBVIOUS
<1> HIDE DEF t, fd
<1>4. After(server') /\ server'.base <= MaxBase
  <2>1. After(t)
    BY <1>2, <1>3, RegisteredAfter
  <2> QED BY <1>1, <2>1, CommitAfter
<1>5. SocketsOK'
  <2>1. Established \in Socket /\ Complete(Established.inbox)
    BY DEF Established, Socket, Complete
  <2> QED BY <1>1, <1>2, <2>1 DEF HeapInv, SocketsOK
<1>6. backlog' \in Nat /\ backlog' <= MaxPeers
  BY <1>1, BoundsAssumption DEF HeapInv
<1>7. read_fds' \subseteq Fds /\ pc' \in {"select", "serve"}
  BY <1>1 DEF HeapInv
<1> QED BY <1>4, <1>5, <1>6, <1>7 DEF HeapInv, After

LEMMA QuietHeap ==
  ASSUME HeapInv, Select \/ AcceptFails \/ StdinExit \/ Connect \/ (\E fd, n : Die(fd, n)) \/ UNCHANGED vars
  PROVE  HeapInv'
<1>1. UNCHANGED <<server, conn>>
  BY DEF Select, AcceptFails, StdinExit, Connect, Die, vars
<1>2. After(server') /\ server'.base <= MaxBase /\ SocketsOK'
  BY <1>1 DEF HeapInv, After, SocketsOK
<1>3. CASE Select
  <2>1. Readable \subseteq Fds
    BY DEF Readable, HeapInv, Shape
  <2> QED BY <1>2, <1>3, <2>1 DEF Select, HeapInv, After
<1>4. CASE AcceptFails \/ StdinExit \/ UNCHANGED vars \/ \E fd, n : Die(fd, n)
  BY <1>2, <1>4 DEF AcceptFails, StdinExit, Die, vars, HeapInv, After
<1>5. CASE Connect
  <2>1. Cardinality(Fds \ FreeFds) \in Nat
    BY DescriptorAssumption, FS_Subset, FS_CardinalityType DEF FreeFds
  <2>2. backlog' = backlog + 1 /\ backlog + 1 <= MaxPeers
    BY <1>5, <2>1, BoundsAssumption DEF Connect, HeapInv
  <2> QED BY <1>2, <1>5, <2>2 DEF Connect, HeapInv, After
<1> QED BY <1>3, <1>4, <1>5

LEMMA PeerHeap ==
  ASSUME HeapInv, NEW fd \in Fds,
         HangUp(fd) \/ Reset(fd) \/ \E line \in Lines : Send(fd, line)
  PROVE  HeapInv'
<1>1. UNCHANGED <<server, pc, read_fds, backlog>>
  BY DEF HangUp, Reset, Send, Peer
<1>2. PICK socket : /\ conn' = [conn EXCEPT ![fd] = socket]
                    /\ socket \in Socket /\ Complete(socket.inbox)
  <2>1. conn[fd] \in Socket /\ Complete(conn[fd].inbox) /\ conn[fd].inbox \in Seq(Words)
    BY DEF HeapInv, SocketsOK, Socket
  <2>2. ASSUME NEW state \in {"hungup", "reset"},
               conn' = [conn EXCEPT ![fd] = [conn[fd] EXCEPT !.state = state]]
        PROVE  \E socket : /\ conn' = [conn EXCEPT ![fd] = socket]
                           /\ socket \in Socket /\ Complete(socket.inbox)
    <3> DEFINE socket == [conn[fd] EXCEPT !.state = state]
    <3>1. socket \in Socket /\ socket.inbox = conn[fd].inbox
      BY <2>1 DEF Socket
    <3>2. conn' = [conn EXCEPT ![fd] = socket]
      BY <2>2
    <3> HIDE DEF socket
    <3> QED BY <2>1, <3>1, <3>2
  <2>3. HangUp(fd) \/ Reset(fd) =>
          \E state \in {"hungup", "reset"} :
             conn' = [conn EXCEPT ![fd] = [conn[fd] EXCEPT !.state = state]]
    BY DEF HangUp, Reset, Peer
  <2>4. ASSUME NEW line \in Lines, Send(fd, line)
        PROVE  \E socket : /\ conn' = [conn EXCEPT ![fd] = socket]
                           /\ socket \in Socket /\ Complete(socket.inbox)
    <3> DEFINE all == conn[fd].inbox \o line
               socket == [conn[fd] EXCEPT !.inbox = all]
    <3>1. all \in Seq(Words) /\ Complete(all)
      BY <2>1, LinesAssumption, SentComplete
    <3>2. conn' = [conn EXCEPT ![fd] = socket]
      BY <2>4 DEF Send, Peer
    <3> HIDE DEF all
    <3>3. socket \in Socket /\ socket.inbox = all
      BY <2>1, <3>1 DEF Socket
    <3> QED BY <3>1, <3>2, <3>3
  <2> QED BY <2>2, <2>3, <2>4
<1>3. SocketsOK'
  BY <1>2 DEF HeapInv, SocketsOK
<1> QED BY <1>1, <1>3 DEF HeapInv

LEMMA HeapInitOk == Init => HeapInv
<1> SUFFICES ASSUME Init PROVE HeapInv
  OBVIOUS
<1>1. Shape(server) /\ server.base = 0 /\ server.up
      /\ (\A i \in Cells : server.clients[i] = NULL) /\ \A key \in Keys : server.db[key] = NULL
  BY DEF Init, Shape, IsServer
<1>2. HeapOK(server)
  BY <1>1 DEF HeapOK, EntriesOK, Separate, ClientsOK, Bound
<1>3. SocketsOK
  BY DEF Init, Closed, SocketsOK, Socket, Complete
<1> QED BY <1>1, <1>2, <1>3, BoundsAssumption DEF Init, HeapInv

LEMMA HeapNextOk ==
  ASSUME HeapInv, [Next]_vars
  PROVE  HeapInv'
<1>1. CASE Loop
  <2>1. CASE Select \/ Accept \/ AcceptFails
    BY <2>1, QuietHeap, AcceptHeap
  <2>2. ASSUME NEW fd \in Fds, Serve(fd)
        PROVE  HeapInv'
    BY <2>2, RecvNoneHeap, RefuseHeap, CommandHeap, ExitHeap, QuietHeap DEF Serve
  <2> QED BY <1>1, <2>1, <2>2 DEF Loop
<1>2. CASE StdinExit \/ Connect \/ UNCHANGED vars
  BY <1>2, QuietHeap
<1>3. CASE \E fd \in Fds : HangUp(fd) \/ Reset(fd) \/ \E line \in Lines : Send(fd, line)
  BY <1>3, PeerHeap
<1> QED BY <1>1, <1>2, <1>3 DEF Next, Peers

-----------------------------------------------------------------------------
(* The inductive invariant: every string has one owner at most - an entry  *)
(* of the database or an argv - as long as client_unregister has not moved *)
(* the table (command.c:30-74, 122-128, 182-222; client.c:42-61).          *)
THEOREM HeapInvariant == Spec => []HeapInv
<1> QED BY HeapInitOk, HeapNextOk, PTL DEF Spec

(* Every variable has its type, whatever the peers do.                     *)
THEOREM TypesHold == Spec => []ServerTypeOK
<1>1. HeapInv => ServerTypeOK
  <2> SUFFICES ASSUME HeapInv PROVE ServerTypeOK
    OBVIOUS
  <2>1. server.base \in 0..MaxBase /\ backlog \in 0..MaxPeers
    BY BoundsAssumption DEF HeapInv, Shape
  <2>2. \A fd \in Fds : conn[fd].state \in {"closed", "up", "hungup", "reset"}
    BY DEF HeapInv, SocketsOK, Socket
  <2> QED BY <2>1, <2>2 DEF HeapInv, Shape, ServerTypeOK
<1> QED BY <1>1, HeapInvariant, PTL

(* No string is freed twice, neither by DEL (command.c:204-222) nor by the *)
(* clean-up after a command (command.c:122-128), until a send() has failed *)
(* and client_unregister has been called (client.c:42-50).                 *)
THEOREM NothingFreedTwice == Spec => []FreedOnce
<1>1. HeapInv => FreedOnce
  BY DEF HeapInv, HeapOK, FreedOnce
<1> QED BY <1>1, HeapInvariant, PTL

(* The strings of the database are its own: none is free or held by an     *)
(* argv, no two entries share one, and those of an entry are its key and a *)
(* value, although SET takes them from an argv that the clean-up frees     *)
(* right after it (command.c:122-128, 182-201).                            *)
THEOREM StringsAreOwned == Spec => []DatabaseOwnsItsStrings
<1>1. HeapInv => DatabaseOwnsItsStrings
  <2> SUFFICES ASSUME HeapInv, server.base = 0 PROVE DatabaseOwnsItsStrings
    BY DEF DatabaseOwnsItsStrings
  <2>1. Shape(server) /\ HeapOK(server)
    BY DEF HeapInv
  <2>2. ASSUME NEW id \in Owned(server) PROVE id \notin FreeIds(server) /\ id \notin Held(server)
    <3>1. PICK key \in Keys : Bound(server, key) /\ id \in ToSet(server.db[key])
      BY DEF Owned, Bound
    <3>2. PICK m \in {1, 2} : id = server.db[key][m]
      BY <2>1, <3>1, EntryOk
    <3>3. id \in Ids /\ id # NULL /\ server.heap[id] # NULL
      BY <2>1, <3>1, <3>2, EntryOk, NullAssumption DEF HeapOK, EntriesOK, Words
    <3>4. ~Lent(server, id)
      BY <3>1, <3>2 DEF Lent
    <3>5. id \notin Held(server)
      <4> SUFFICES ASSUME id \in Held(server) PROVE FALSE
        OBVIOUS
      <4>1. PICK j \in DOMAIN server.clients : server.clients[j] # NULL /\ id \in ToSet(server.clients[j].argv)
        BY DEF Held
      <4>2. j \in Cells /\ \E p \in DOMAIN server.clients[j].argv : server.clients[j].argv[p] = id
        BY <2>1, <4>1 DEF Shape, ToSet
      <4> QED BY <2>1, <3>3, <3>4, <4>1, <4>2 DEF HeapOK, ClientsOK, ArgvOK
    <3> QED BY <3>3, <3>5 DEF FreeIds
  <2>3. \A key, other \in {k \in Keys : server.db[k] # NULL}, m, n \in 1..2 :
          server.db[key][m] = server.db[other][n] => key = other /\ m = n
    BY <2>1 DEF HeapOK, Separate, Bound
  <2>4. \A key \in {k \in Keys : server.db[k] # NULL} :
          server.heap[server.db[key][1]] = key /\ server.heap[server.db[key][2]] \in Vals
    BY <2>1 DEF HeapOK, EntriesOK, Bound
  <2> QED BY <2>2, <2>3, <2>4 DEF DatabaseOwnsItsStrings
<1> QED BY <1>1, HeapInvariant, PTL

-----------------------------------------------------------------------------
(* The service: what the commands do to the table.                         *)

(* What the database means to its clients.                                 *)
Table(s) == [key \in Keys |-> TableAt(s, key)]

(* What a command does to the table, and what it answers.                  *)
Effect(s, t, words, text) ==
  \/ \E key \in Keys : /\ words = <<"get", key>> /\ Table(t) = Table(s)
                       /\ text = IF Table(s)[key] = NULL THEN "missing" ELSE Table(s)[key]
  \/ \E key \in Keys, val \in Vals :
       /\ words = <<"set", key, val>>
       /\ IF Table(s)[key] = NULL
          THEN Table(t) = [Table(s) EXCEPT ![key] = val] /\ text = "ok"
          ELSE Table(t) = Table(s) /\ text = "present"
  \/ \E key \in Keys : /\ words = <<"del", key>> /\ Table(t) = [Table(s) EXCEPT ![key] = NULL]
                       /\ text = IF Table(s)[key] = NULL THEN "missing" ELSE "ok"
  \/ \E key \in Keys : /\ words = <<"exist", key>> /\ Table(t) = Table(s)
                       /\ text = IF Table(s)[key] = NULL THEN "no" ELSE "yes"
  \/ words = <<"time">> /\ Table(t) = Table(s) /\ text = "time"

LEMMA TablesEqual ==
  ASSUME NEW s, NEW t, SameTable(s, t)
  PROVE  Table(t) = Table(s)
BY DEF SameTable, Table

LEMMA BoundRead ==
  ASSUME NEW s, Shape(s), HeapOK(s), NEW key \in Keys
  PROVE  /\ Table(s)[key] = TableAt(s, key)
         /\ TableAt(s, key) = NULL <=> s.db[key] = NULL
         /\ s.db[key] # NULL => TableAt(s, key) = ValueAt(s, key) /\ ValueAt(s, key) \in Vals
<1>1. s.db[key] # NULL => ValueAt(s, key) \in Vals
  BY DEF HeapOK, EntriesOK, ValueAt, Bound
<1>2. \A val \in Vals : val # NULL
  BY NullAssumption DEF Words
<1> QED BY <1>1, <1>2 DEF Table, TableAt, ValueAt, Bound

LEMMA CmdSetTable ==
  ASSUME NEW s, Shape(s), HeapOK(s), NEW i \in Cells, s.clients[i] \in Client,
         NEW argv \in Seq(Ids), argv = s.clients[i].argv, Len(argv) = 3,
         NEW key \in Keys, NEW val \in Vals, s.heap[argv[3]] = val,
         NEW t, t = CmdSet(s, i, key).server
  PROVE  Table(t) = IF s.db[key] = NULL THEN [Table(s) EXCEPT ![key] = val] ELSE Table(s)
<1>1. /\ t.heap = s.heap
      /\ \A other \in Keys \ {key} : t.db[other] = s.db[other]
      /\ IF s.db[key] = NULL THEN t.db[key] = <<argv[2], argv[3]>> ELSE t.db[key] = s.db[key]
  <2>1. HandedOver(s, t, i, argv, key)
    BY CmdSetSets
  <2> QED BY ONLY <2>1, key \in Keys DEF HandedOver
<1>2. \A other \in Keys \ {key} : TableAt(t, other) = TableAt(s, other)
  BY <1>1 DEF TableAt, Bound
<1>3. CASE s.db[key] = NULL
  <2>1. argv[2] \in Ids /\ argv[3] \in Ids
    OBVIOUS
  <2>2. Bound(t, key) /\ t.db[key][2] = argv[3]
    <3>1. t.db[key] = <<argv[2], argv[3]>>
      BY <1>1, <1>3
    <3>2. <<argv[2], argv[3]>> \in Ids \X Ids
      BY <2>1
    <3> QED BY ONLY <3>1, <3>2, NullAssumption DEF Bound
  <2>3. TableAt(t, key) = val
    BY <1>1, <2>2 DEF TableAt
  <2> QED BY ONLY key \in Keys, <1>2, <1>3, <2>3 DEF Table
<1>4. CASE s.db[key] # NULL
  <2>1. TableAt(t, key) = TableAt(s, key)
    BY <1>1, <1>4 DEF TableAt, Bound
  <2> QED BY ONLY key \in Keys, <1>2, <1>4, <2>1 DEF Table
<1> QED BY <1>3, <1>4

LEMMA CmdDelTable ==
  ASSUME NEW s, Shape(s), HeapOK(s), NEW key \in Keys, NEW t, t = CmdDel(s, key).server
  PROVE  Table(t) = [Table(s) EXCEPT ![key] = NULL]
<1>1. TableAt(t, key) = NULL /\ \A other \in Keys \ {key} : TableAt(t, other) = TableAt(s, other)
  BY CmdDelHeap
<1> QED BY ONLY key \in Keys, <1>1 DEF Table

LEMMA ExecutedEffect ==
  ASSUME NEW s, Shape(s), HeapOK(s), NEW i, OwnArgs(s, i),
         NEW words \in Seq(Words), WellFormed(words), words[1] # "exit",
         words[1] \in {"get", "set", "del", "exist"} => words[2] \in Keys,
         words[1] = "set" => words[3] \in Vals,
         NEW argv \in Seq(Ids), argv = s.clients[i].argv, Len(argv) = Len(words),
         \A p \in DOMAIN argv : s.heap[argv[p]] = words[p],
         NEW o, o = Executed(s, i, words)
  PROVE  Effect(s, o.server, words, o.text)
<1> DEFINE key == words[2]
<1>0. i \in Cells /\ s.clients[i] \in Client
  BY DEF OwnArgs
<1>1. words[1] \in {"get", "set", "del", "exist", "time"} /\ Len(words) = Arity[words[1]]
  BY DEF WellFormed, Arity
<1>2. CASE words[1] = "get"
  <2>1. words = <<"get", key>> /\ key \in Keys
    BY <1>1, <1>2 DEF Arity
  <2>2. o = Outcome(s, IF s.db[key] = NULL THEN "missing" ELSE ValueAt(s, key))
    BY <1>2 DEF Executed, CmdGet
  <2> HIDE DEF key
  <2>3. o.server = s /\ o.text = IF Table(s)[key] = NULL THEN "missing" ELSE Table(s)[key]
    BY <2>1, <2>2, BoundRead DEF Outcome
  <2> QED BY <2>1, <2>3 DEF Effect
<1>3. CASE words[1] = "exist"
  <2>1. words = <<"exist", key>> /\ key \in Keys
    BY <1>1, <1>3 DEF Arity
  <2>2. o = Outcome(s, IF s.db[key] = NULL THEN "no" ELSE "yes")
    BY <1>3 DEF Executed, CmdExist
  <2> HIDE DEF key
  <2>3. o.server = s /\ o.text = IF Table(s)[key] = NULL THEN "no" ELSE "yes"
    BY <2>1, <2>2, BoundRead DEF Outcome
  <2> QED BY <2>1, <2>3 DEF Effect
<1>4. CASE words[1] = "time"
  <2>1. words = <<"time">> /\ o = Outcome(s, "time")
    BY <1>1, <1>4 DEF Arity, Executed
  <2> QED BY <2>1 DEF Effect, Outcome
<1>5. CASE words[1] = "del"
  <2>1. words = <<"del", key>> /\ key \in Keys
    BY <1>1, <1>5 DEF Arity
  <2>2. o = CmdDel(s, key)
    BY <1>5 DEF Executed
  <2> HIDE DEF key
  <2>3. Table(o.server) = [Table(s) EXCEPT ![key] = NULL]
    BY <2>1, <2>2, CmdDelTable
  <2>4. o.text = IF Table(s)[key] = NULL THEN "missing" ELSE "ok"
    BY <2>1, <2>2, BoundRead DEF CmdDel, Outcome
  <2> QED BY <2>1, <2>3, <2>4 DEF Effect
<1>6. CASE words[1] = "set"
  <2> DEFINE val == words[3]
  <2>1. words = <<"set", key, val>> /\ key \in Keys /\ val \in Vals /\ Len(argv) = 3
    BY <1>1, <1>6 DEF Arity
  <2>2. o = CmdSet(s, i, key)
    BY <1>6 DEF Executed
  <2>3. s.heap[argv[3]] = val
    BY <2>1
  <2> HIDE DEF key, val
  <2>4. Table(o.server) = IF s.db[key] = NULL THEN [Table(s) EXCEPT ![key] = val] ELSE Table(s)
    BY ONLY Shape(s), HeapOK(s), argv = s.clients[i].argv, <1>0, <2>1, <2>2, <2>3, CmdSetTable
  <2>5. o.text = IF s.db[key] = NULL THEN "ok" ELSE "present"
    BY <2>2 DEF CmdSet, Outcome
  <2>6. Table(s)[key] = NULL <=> s.db[key] = NULL
    BY <2>1, BoundRead
  <2> QED BY <2>1, <2>4, <2>5, <2>6 DEF Effect
<1> QED BY <1>1, <1>2, <1>3, <1>4, <1>5, <1>6

-----------------------------------------------------------------------------
(* What a step answers and what it does to the table.                      *)
Stutters == Table(server') = Table(server) /\ reply' \in {NULL, reply}

Refuses == /\ Table(server') = Table(server)
           /\ \E fd \in Fds, text \in {"error", "none"} :
                reply' = [from |-> fd, to |-> fd, words |-> <<>>, text |-> text, sent |-> TRUE]

Commands == \E fd \in Fds, words \in Seq(Words), text \in Texts \ Hollow :
              /\ Effect(server, server', words, text)
              /\ reply' = [from |-> fd, to |-> fd, words |-> words, text |-> text, sent |-> TRUE]

(* The table of clients is where it was, and what is done is done to a     *)
(* memory in order.                                                        *)
Sound == server.base = 0 /\ (Stutters \/ Refuses \/ Commands)

LEMMA RefuseStep ==
  ASSUME HeapInv, server'.base = 0, NEW fd \in Fds, NEW n, Refuse(fd, n) \/ NoCommand(fd, n)
  PROVE  server.base = 0 /\ Refuses
<1> DEFINE i == CellOf(server, fd)
           words == WordsIn(fd, n)
           s == Parsed(server, i, words)
<1>1. Received(fd, n) /\ Room(words)
  BY DEF Refuse, NoCommand
<1>2. PICK text \in {"error", "none"} :
        Commit(Flushed(s, ClientOf(fd).fd, text)) /\ Answered(fd, <<>>, text)
  BY DEF Refuse, NoCommand
<1> DEFINE t == Flushed(s, ClientOf(fd).fd, text)
<1>3. /\ i \in Cells /\ ClientOf(fd).fd \in Fds
      /\ Shape(s) /\ s.base = server.base /\ s.clients[i] \in Client
      /\ server.base = 0 => /\ HeapOK(s) /\ OwnArgs(s, i) /\ SameTable(server, s)
                            /\ ClientOf(fd).fd = fd /\ i = fd
  <2>1. words = WordsIn(fd, n) /\ i = CellOf(server, fd) /\ s = Parsed(server, i, words)
    OBVIOUS
  <2> HIDE DEF words, i, s
  <2> QED BY <1>1, <2>1, ReceivedParsed
<1>4. t = Flushed(s, ClientOf(fd).fd, text) /\ Commit(t)
  BY <1>2
<1> HIDE DEF t, s, i, words
<1>5. Shape(t)
  BY <1>3, <1>4, FlushedMoves
<1>6. t.base = 0
  BY <1>4, <1>5, CommitShape DEF SameClients
<1>7. t = s /\ Sent(ClientOf(fd).fd, text)
  BY <1>3, <1>4, <1>6, FlushedStays
<1>8. SameTable(s, server')
  BY <1>3, <1>4, <1>6, <1>7, CommitHeap
<1>9. Table(server') = Table(server)
  BY <1>3, <1>6, <1>7, <1>8, TablesEqual
<1>10. reply' = [from |-> fd, to |-> fd, words |-> <<>>, text |-> text, sent |-> TRUE]
  BY <1>2, <1>3, <1>6, <1>7 DEF Answered
<1> QED BY <1>3, <1>6, <1>7, <1>9, <1>10 DEF Refuses

LEMMA CommandStep ==
  ASSUME HeapInv, server'.base = 0, NEW fd \in Fds, NEW n, Command(fd, n)
  PROVE  server.base = 0 /\ Commands
<1> DEFINE i == CellOf(server, fd)
           words == WordsIn(fd, n)
           s == Parsed(server, i, words)
           outcome == Executed(s, i, words)
           o == outcome.server
           text == outcome.text
           t == Flushed(o, ClientOf(fd).fd, text)
           u == ArgsFreed(t, i)
<1>1. /\ Received(fd, n) /\ Room(words)
      /\ WellFormed(words) /\ words[1] # "exit"
      /\ Commit(u)
      /\ Answered(fd, words, text)
  BY DEF Command
<1>2. /\ i \in Cells /\ ClientOf(fd).fd \in Fds
      /\ Shape(s) /\ s.base = server.base /\ s.clients[i] \in Client
      /\ \E argv \in Seq(Ids) : /\ argv = s.clients[i].argv /\ Len(argv) = Len(words)
                                /\ \A p \in DOMAIN argv : s.heap[argv[p]] = words[p]
      /\ server.base = 0 => /\ HeapOK(s) /\ OwnArgs(s, i) /\ SameTable(server, s)
                            /\ ClientOf(fd).fd = fd /\ i = fd
  <2>1. words = WordsIn(fd, n) /\ i = CellOf(server, fd) /\ s = Parsed(server, i, words)
    OBVIOUS
  <2> HIDE DEF words, i, s
  <2> QED BY <1>1, <2>1, ReceivedParsed
<1>3. /\ words \in Seq(Words)
      /\ words[1] \in {"get", "set", "del", "exist"} => words[2] \in Keys
      /\ words[1] = "set" => words[3] \in Vals
  <2>1. conn[fd].inbox \in Seq(Words) /\ Complete(conn[fd].inbox) /\ n \in DOMAIN conn[fd].inbox
    BY <1>1 DEF HeapInv, SocketsOK, Socket, Received
  <2> QED BY <1>1, <2>1, WordsOk
<1>4. PICK argv \in Seq(Ids) : /\ argv = s.clients[i].argv /\ Len(argv) = Len(words)
                               /\ \A p \in DOMAIN argv : s.heap[argv[p]] = words[p]
  BY <1>2
<1>5. outcome = Executed(s, i, words) /\ o = Executed(s, i, words).server
      /\ o = outcome.server /\ text = outcome.text
      /\ t = Flushed(o, ClientOf(fd).fd, text) /\ u = ArgsFreed(t, i)
  OBVIOUS
<1> HIDE DEF i, words, s, outcome, o, text, t, u
<1>6. Shape(o) /\ o.base = s.base /\ o.clients[i] \in Client
  BY <1>1, <1>2, <1>4, <1>5, ExecutedShape
<1>7. Shape(t) /\ t.clients = o.clients
  BY <1>2, <1>5, <1>6, FlushedMoves
<1>8. Shape(u) /\ u.base = t.base
  BY <1>2, <1>5, <1>6, <1>7, ArgsFreedShape DEF ArgsSet
<1>9. t.base = 0
  BY <1>1, <1>8, CommitShape DEF SameClients
<1>10. t = o /\ Sent(ClientOf(fd).fd, text)
  <2>1. o.base = 0 => i = ClientOf(fd).fd
    BY <1>2, <1>6
  <2> QED BY <1>2, <1>5, <1>6, <1>9, <2>1, FlushedStays
<1>11. /\ server.base = 0 /\ HeapOK(s) /\ OwnArgs(s, i) /\ SameTable(server, s)
       /\ ClientOf(fd).fd = fd
  BY <1>2, <1>6, <1>9, <1>10
<1>12. Effect(s, o, words, text)
  <2>1. Effect(s, outcome.server, words, outcome.text)
    BY ONLY <1>1, <1>2, <1>3, <1>4, <1>5, <1>11, ExecutedEffect
  <2> QED BY <1>5, <2>1
<1>13. HeapOK(o) /\ OwnArgs(o, i)
  BY ONLY <1>1, <1>2, <1>3, <1>4, <1>5, <1>11, ExecutedHeap
<1>14. HeapOK(u) /\ SameTable(o, u)
  BY ONLY <1>5, <1>6, <1>10, <1>13, ArgsFreedHeap
<1>15. SameTable(u, server')
  BY <1>1, <1>8, <1>14, CommitHeap
<1>16. Table(s) = Table(server) /\ Table(server') = Table(o)
  BY <1>11, <1>14, <1>15, TablesEqual
<1>17. Effect(server, server', words, text)
  BY <1>12, <1>16 DEF Effect
<1>18. text \in Texts \ Hollow
  <2>1. \A key \in Keys : Table(s)[key] \in Vals \cup {NULL}
    BY <1>2, <1>11, BoundRead
  <2>2. text \in Texts
    BY <1>12, <2>1 DEF Effect, Texts
  <2> QED BY <1>10, <2>2 DEF Sent
<1>19. Sent(fd, text)
  BY <1>10, <1>11
<1>20. reply' = [from |-> fd, to |-> fd, words |-> words, text |-> text, sent |-> TRUE]
  BY <1>1, <1>11, <1>19 DEF Answered
<1> QED BY <1>3, <1>11, <1>17, <1>18, <1>20 DEF Commands

LEMMA ExitStep ==
  ASSUME HeapInv, server'.base = 0, NEW fd \in Fds, NEW n, Exit(fd, n)
  PROVE  server.base = 0 /\ Stutters
<1> DEFINE i == CellOf(server, fd)
           words == WordsIn(fd, n)
           s == Parsed(server, i, words)
           t == Unwatched(s, ClientOf(fd).fd)
           u == ArgsFreed(t, i)
<1>1. Received(fd, n) /\ words = <<"exit">> /\ Room(words) /\ reply' = NULL
  BY DEF Exit
<1>2. Commit(u)
  BY DEF Exit
<1>3. /\ i \in Cells /\ Shape(s) /\ s.base = server.base /\ s.clients[i] \in Client
      /\ server.base = 0 => HeapOK(s) /\ OwnArgs(s, i) /\ SameTable(server, s)
  <2>1. words = WordsIn(fd, n) /\ i = CellOf(server, fd) /\ s = Parsed(server, i, words)
    OBVIOUS
  <2> HIDE DEF words, i, s
  <2> QED BY <1>1, <2>1, ReceivedParsed
<1>4. t = Unwatched(s, ClientOf(fd).fd) /\ u = ArgsFreed(t, i)
  OBVIOUS
<1> HIDE DEF i, words, s, t, u
<1>5. /\ Shape(t) /\ t.clients = s.clients /\ t.base = s.base /\ t.db = s.db /\ t.heap = s.heap
      /\ HeapOK(s) => HeapOK(t)
  BY <1>3, <1>4, UnwatchedShape
<1>6. Shape(u) /\ u.base = t.base
  BY <1>3, <1>4, <1>5, ArgsFreedShape DEF ArgsSet
<1>7. u.base = 0
  BY <1>2, <1>6, CommitShape DEF SameClients
<1>8. server.base = 0 /\ HeapOK(t) /\ OwnArgs(t, i) /\ SameTable(server, s) /\ SameTable(s, t)
  BY <1>3, <1>5, <1>6, <1>7 DEF OwnArgs, SameTable, TableAt, Bound
<1>9. HeapOK(u) /\ SameTable(t, u)
  BY ONLY <1>4, <1>5, <1>8, ArgsFreedHeap
<1>10. SameTable(u, server')
  BY <1>2, <1>6, <1>9, CommitHeap
<1> QED BY <1>1, <1>8, <1>9, <1>10, TablesEqual DEF Stutters

LEMMA AcceptStep ==
  ASSUME HeapInv, server'.base = 0, Accept
  PROVE  server.base = 0 /\ Stutters
<1> DEFINE fd == Min(FreeFds)
           t == [Registered(server, fd) EXCEPT !.active_fds = @ \cup {fd}]
<1>1. Commit(t) /\ reply' = reply
  BY DEF Accept
<1>2. fd \in Fds
  <2>1. FreeFds \subseteq Fds /\ FreeFds # {}
    BY DEF Accept, FreeFds
  <2> QED BY <2>1, LeastFd
<1>3. t = [Registered(server, fd) EXCEPT !.active_fds = @ \cup {fd}]
  OBVIOUS
<1> HIDE DEF t, fd
<1>4. After(t) /\ SameTable(server, t)
  BY <1>2, <1>3, RegisteredAfter
<1>5. t.base = server.base
  BY <1>3 DEF Registered, HeapInv, Shape, IsServer
<1>6. t.base = 0 /\ Shape(t) /\ HeapOK(t)
  BY <1>1, <1>4, CommitShape DEF After, SameClients
<1>7. SameTable(t, server')
  BY <1>1, <1>6, CommitHeap
<1> QED BY <1>1, <1>4, <1>5, <1>6, <1>7, TablesEqual DEF Stutters

LEMMA QuietStep ==
  ASSUME HeapInv, server'.base = 0,
         \/ Select \/ AcceptFails \/ StdinExit \/ Connect \/ UNCHANGED vars
         \/ \E fd \in Fds : \/ RecvNone(fd) \/ (\E n : Die(fd, n)) \/ HangUp(fd) \/ Reset(fd)
                            \/ \E line \in Lines : Send(fd, line)
  PROVE  server.base = 0 /\ Stutters
<1>1. CASE \E fd \in Fds : RecvNone(fd)
  <2>1. PICK fd \in Fds : server' = Unwatched(server, fd) /\ reply' = NULL
    BY <1>1 DEF RecvNone
  <2>2. server'.db = server.db /\ server'.heap = server.heap /\ server'.base = server.base
    BY <2>1, UnwatchedShape DEF HeapInv
  <2> QED BY <2>1, <2>2 DEF Stutters, Table, TableAt, Bound
<1>2. CASE ~ \E fd \in Fds : RecvNone(fd)
  <2>1. server' = server /\ reply' \in {NULL, reply}
    BY <1>2 DEF Select, AcceptFails, StdinExit, Connect, Die, HangUp, Reset, Send, Peer, vars
  <2> QED BY <2>1 DEF Stutters
<1> QED BY <1>1, <1>2

LEMMA StepKinds ==
  ASSUME HeapInv, server'.base = 0, [Next]_vars
  PROVE  Sound
<1>1. CASE Loop
  <2>1. CASE Select \/ Accept \/ AcceptFails
    BY <2>1, QuietStep, AcceptStep DEF Sound
  <2>2. ASSUME NEW fd \in Fds, Serve(fd)
        PROVE  Sound
    BY <2>2, RefuseStep, CommandStep, ExitStep, QuietStep DEF Serve, Sound
  <2> QED BY <1>1, <2>1, <2>2 DEF Loop
<1>2. CASE StdinExit \/ Peers \/ UNCHANGED vars
  BY <1>2, QuietStep DEF Peers, Sound
<1> QED BY <1>1, <1>2 DEF Next

LEMMA SoundServes ==
  ASSUME Sound
  PROVE  [Service!Next]_(Service!vars)
<1> DEFINE T == [key \in Keys |-> IF server.db[key] = NULL THEN NULL ELSE ValueAt(server, key)]
           U == [key \in Keys |-> IF server'.db[key] = NULL THEN NULL ELSE ValueAt(server', key)]
<1>1. T = Table(server) /\ U = Table(server')
  BY DEF Table, TableAt, Bound, ValueAt
<1>2. CASE Stutters
  <2>1. CASE reply' = NULL
    <3>1. Service!Quiet
      BY <1>1, <1>2, <2>1 DEF Stutters, Service!Quiet
    <3> QED BY <3>1 DEF Service!Next
  <2>2. CASE reply' = reply
    BY <1>1, <1>2, <2>2 DEF Stutters, Service!vars
  <2> QED BY <1>2, <2>1, <2>2 DEF Stutters
<1>3. CASE Refuses
  <2>1. PICK fd \in Fds, text \in {"error", "none"} :
          reply' = [from |-> fd, to |-> fd, words |-> <<>>, text |-> text, sent |-> TRUE]
    BY <1>3 DEF Refuses
  <2>2. reply' # NULL /\ [words |-> <<>>, text |-> text] # NULL
    <3>1. text \in Texts /\ <<>> \in Seq(Words)
      BY DEF Texts
    <3>2. reply' \in Answer /\ [words |-> <<>>, text |-> text] \in [words : Seq(Words), text : Texts]
      BY ONLY <2>1, <3>1, fd \in Fds DEF Answer
    <3> QED BY ONLY <3>2, NullAssumption
  <2>3. Service!Refuse
    BY <1>1, <1>3, <2>1, <2>2 DEF Refuses, Service!Refuse
  <2> QED BY <2>3 DEF Service!Next
<1>4. CASE Commands
  <2>1. PICK fd \in Fds, words \in Seq(Words), text \in Texts \ Hollow :
          /\ Effect(server, server', words, text)
          /\ reply' = [from |-> fd, to |-> fd, words |-> words, text |-> text, sent |-> TRUE]
    BY <1>4 DEF Commands
  <2>2. reply' # NULL /\ reply'.words = words /\ reply'.text = text /\ reply'.sent
    <3>1. reply' \in Answer
      BY ONLY fd \in Fds, <2>1 DEF Answer
    <3>2. reply' # NULL
      BY ONLY <3>1, NullAssumption
    <3> QED BY ONLY <2>1, <3>2
  <2> HIDE DEF T, U
  <2>3. Service!Reply(words, text)
    BY <2>1, <2>2 DEF Service!Reply
  <2> QED BY <1>1, <2>1, <2>3 DEF Effect, Service!Next, Service!Get, Service!Set, Service!Del,
                                  Service!Exist, Service!Time, T, U
<1> QED BY <1>2, <1>3, <1>4 DEF Sound

LEMMA SoundAnswers ==
  ASSUME Sound, server.base = 0 => RepliesReachTheSender
  PROVE  RepliesReachTheSender'
BY DEF Sound, Stutters, Refuses, Commands, RepliesReachTheSender

-----------------------------------------------------------------------------
(* Until a send() fails, the server takes the steps of the table of        *)
(* KvService: whatever peers come, go and reset their connections, however *)
(* recv() cuts and joins what they send, and whatever memory is used       *)
(* again, each answer is the one the commands served so far lead to, and   *)
(* only a command changes the table (command.c:131-280, net.c:184-213).    *)
THEOREM ServesUntilSendFails ==
  Spec => Service!Init /\ [][server'.base = 0 => [Service!Next]_(Service!vars)]_vars
<1>1. Init => Service!Init
  BY DEF Init, Service!Init
<1>2. HeapInv /\ [Next]_vars => (server'.base = 0 => [Service!Next]_(Service!vars))
  BY StepKinds, SoundServes
<1> QED BY <1>1, <1>2, HeapInvariant, PTL DEF Spec

(* ... and the answers go to those who asked, with resets and all: it is   *)
(* the failed send() that makes them go astray (client.c:23-50).           *)
THEOREM AstrayOnlyAfterFailure == Spec => [](server.base = 0 => RepliesReachTheSender)
<1>1. Init => RepliesReachTheSender
  BY DEF Init, RepliesReachTheSender
<1>2. HeapInv /\ (server.base = 0 => RepliesReachTheSender) /\ [Next]_vars
        => (server.base = 0 => RepliesReachTheSender)'
  BY StepKinds, SoundAnswers
<1> QED BY <1>1, <1>2, HeapInvariant, PTL DEF Spec

(* As long as every send() succeeds the server implements the table of     *)
(* KvService: a request cut or joined by recv(), served from whichever     *)
(* descriptor, out of memory used again, is one command on it or none      *)
(* (command.c:131-280, net.c:184-213).                                     *)
THEOREM ServerIsAService == ASSUME SendsSucceed PROVE Spec => ImplementsService
<1>1. ServerInv => server.base = 0
  BY DEF ServerInv, TableOK
<1>2. ServerInv' => server'.base = 0
  BY DEF ServerInv, TableOK
<1>3. HeapInv /\ ServerInv' /\ [Next]_vars => [Service!Next]_(Service!vars)
  BY <1>2, StepKinds, SoundServes
<1>4. Init => Service!Init
  BY DEF Init, Service!Init
<1> QED BY <1>3, <1>4, HeapInvariant, ServerInvariant, PTL DEF Spec, ImplementsService, Service!Spec

-----------------------------------------------------------------------------
(* Leaks: what becomes unreachable, and when.                              *)

(* A string somebody will free or hand out: malloc has it, the database,   *)
(* or an argv.                                                             *)
Reachable(s, id) ==
  \/ s.heap[id] = NULL
  \/ \E key \in Keys, m \in {1, 2} : Bound(s, key) /\ s.db[key][m] = id
  \/ \E j \in Cells : /\ s.clients[j] # NULL
                      /\ \E p \in DOMAIN s.clients[j].argv : s.clients[j].argv[p] = id

NothingLost(s) == \A id \in Ids : Reachable(s, id)

(* A client with strings in its argv: those of a request that was refused. *)
Holding(c) == c # NULL /\ \E p \in DOMAIN c.argv : c.argv[p] # NULL

(* The next request of such a client, or the next client in its cell, is   *)
(* written over them.                                                      *)
ArgvOverwritten(fd) ==
  /\ Holding(ClientOf(fd))
  /\ \/ Serve(fd)
     \/ Accept /\ fd = Min(FreeFds)

SetOfABoundKey(fd, n) ==
  Command(fd, n) /\ WordsIn(fd, n)[1] = "set" /\ Bound(server, WordsIn(fd, n)[2])

(* Only these two leak, until a send() fails: neither does a request that  *)
(* is served, however it was cut and joined, nor a connection that ends,   *)
(* nor a DEL (command.c:122-128, 131-160, 182-222; client.c:32-40).        *)
LeaksHaveTwoCauses ==
  [][server'.base = 0 /\ ~leaked /\ leaked' =>
       \E fd \in Fds : ArgvOverwritten(fd) \/ \E n \in 1..MaxPending : SetOfABoundKey(fd, n)]_vars

LEMMA ReachableOk ==
  ASSUME NEW s, Shape(s), NEW id \in Ids
  PROVE  Reachable(s, id) <=> id \in FreeIds(s) \cup Owned(s) \cup Held(s)
<1>1. s.heap[id] = NULL <=> id \in FreeIds(s)
  BY DEF FreeIds
<1>2. id \in Owned(s) <=> \E key \in Keys, m \in {1, 2} : Bound(s, key) /\ s.db[key][m] = id
  <2>1. id \in Owned(s) <=> \E key \in Keys : Bound(s, key) /\ id \in ToSet(s.db[key])
    BY DEF Owned, Bound
  <2>2. \A key \in Keys : Bound(s, key) => (id \in ToSet(s.db[key]) <=> \E m \in {1, 2} : s.db[key][m] = id)
    BY EntryOk
  <2> QED BY <2>1, <2>2
<1>3. id \in Held(s) <=>
        \E j \in Cells : /\ s.clients[j] # NULL
                         /\ \E p \in DOMAIN s.clients[j].argv : s.clients[j].argv[p] = id
  <2>1. DOMAIN s.clients = Cells
    BY DEF Shape
  <2> QED BY <2>1 DEF Held, ToSet
<1> QED BY <1>1, <1>2, <1>3 DEF Reachable

LEMMA CommitLoses ==
  ASSUME NEW s, Shape(s), Commit(s)
  PROVE  /\ NothingLost(server')
         /\ NothingLost(s) /\ leaked' => leaked
<1> DEFINE lost == Ids \ (FreeIds(s) \cup Owned(s) \cup Held(s))
           unread == Held(s) \ (FreeIds(s) \cup Owned(s))
           heap == [id \in Ids |-> CASE id \in lost -> NULL
                                     [] id \in unread -> Unread
                                     [] OTHER -> s.heap[id]]
<1>1. server' = [s EXCEPT !.heap = heap] /\ leaked' = (leaked \/ lost # {})
  BY DEF Commit
<1>2. ASSUME NEW id \in Ids, id \in lost \/ id \in FreeIds(s) PROVE heap[id] = NULL
  BY <1>2 DEF FreeIds
<1>3. NothingLost(s) => lost = {}
  BY ReachableOk DEF NothingLost
<1> HIDE DEF heap
<1>4. server'.heap = heap /\ server'.clients = s.clients /\ server'.db = s.db
  BY <1>1 DEF Shape, IsServer
<1>5. ASSUME NEW id \in Ids PROVE Reachable(server', id)
  <2>1. CASE id \in lost \/ id \in FreeIds(s)
    BY <1>2, <1>4, <2>1 DEF Reachable
  <2>2. CASE id \notin lost /\ id \notin FreeIds(s)
    <3>1. Reachable(s, id) /\ s.heap[id] # NULL
      BY <2>2, ReachableOk DEF FreeIds
    <3> QED BY <1>4, <3>1 DEF Reachable, Bound
  <2> QED BY <2>1, <2>2
<1> QED BY <1>1, <1>3, <1>5 DEF NothingLost

(* What a client does not hold cannot be overwritten. *)
LEMMA ArgsSetLoses ==
  ASSUME NEW s, Shape(s), NEW i \in Cells, ~Holding(s.clients[i]), NEW argv,
         NEW t, ArgsSet(s, t, i, argv),
         \A id \in Ids : s.heap[id] = NULL => t.heap[id] = NULL \/ \E p \in DOMAIN argv : argv[p] = id,
         NothingLost(s)
  PROVE  NothingLost(t)
<1> SUFFICES ASSUME NEW id \in Ids PROVE Reachable(t, id)
  BY DEF NothingLost
<1>1. Reachable(s, id) /\ id # NULL
  BY NullAssumption DEF NothingLost
<1>2. t.clients[i] # NULL /\ t.clients[i].argv = argv
  BY ClientOk DEF ArgsSet
<1>3. CASE s.heap[id] = NULL
  BY <1>2, <1>3 DEF Reachable
<1>4. CASE \E key \in Keys, m \in {1, 2} : Bound(s, key) /\ s.db[key][m] = id
  BY <1>4 DEF Reachable, Bound, ArgsSet
<1>5. ASSUME NEW j \in Cells, s.clients[j] # NULL,
             NEW p \in DOMAIN s.clients[j].argv, s.clients[j].argv[p] = id
      PROVE  Reachable(t, id)
  <2>1. j # i
    BY <1>1, <1>5 DEF Holding
  <2>2. t.clients[j] = s.clients[j]
    BY <2>1 DEF ArgsSet
  <2> QED BY <1>5, <2>2 DEF Reachable
<1> QED BY <1>1, <1>3, <1>4, <1>5 DEF Reachable

LEMMA ReceivedLoses ==
  ASSUME HeapInv, NEW fd \in Fds, NEW n, Received(fd, n), Room(WordsIn(fd, n)),
         NEW words, words = WordsIn(fd, n),
         NEW i, i = CellOf(server, fd), NEW s, s = Parsed(server, i, words),
         ~Holding(ClientOf(fd)), NothingLost(server)
  PROVE  NothingLost(s)
<1>1. /\ i \in Cells /\ ClientOf(fd) \in Client /\ ClientOf(fd) = server.clients[i]
      /\ words \in Seq(Words) /\ Len(words) <= Cardinality(FreeIds(server))
      /\ Shape(server)
  BY ReceivedParsed DEF ClientOf, HeapInv
<1> DEFINE ids == Allocated(server, Len(words))
<1>2. ids = Allocated(server, Len(words))
  OBVIOUS
<1> HIDE DEF ids
<1>3. /\ ArgsSet(server, s, i, ids)
      /\ \A id \in Ids : s.heap[id] = server.heap[id] \/ \E p \in DOMAIN ids : ids[p] = id
  BY <1>1, <1>2, ParsedSets
<1> QED BY <1>1, <1>3, ArgsSetLoses

(* The clean-up frees what it takes out of argv.                           *)
LEMMA ArgsFreedLoses ==
  ASSUME NEW s, Shape(s), NEW i \in Cells, s.clients[i] \in Client, NothingLost(s),
         NEW t, t = ArgsFreed(s, i)
  PROVE  NothingLost(t)
<1> DEFINE argv == s.clients[i].argv
           freed == Free(s, argv)
<1>1. /\ freed.clients = s.clients /\ freed.db = s.db /\ Shape(freed)
      /\ freed.heap = [id \in Ids |-> IF id \in ToSet(argv) \ {NULL} THEN NULL ELSE s.heap[id]]
  BY FreeFields, FreeShape DEF Shape
<1>2. t = [freed EXCEPT !.clients[i].argv = <<>>, !.clients[i].first = "freed"]
  BY DEF ArgsFreed
<1> HIDE DEF freed
<1>3. ArgsSet(s, t, i, <<>>)
  BY ArgsFreedShape
<1>4. t.heap = freed.heap
  BY <1>1, <1>2 DEF Shape, IsServer
<1> SUFFICES ASSUME NEW id \in Ids PROVE Reachable(t, id)
  BY DEF NothingLost
<1>5. Reachable(s, id) /\ id # NULL
  BY NullAssumption DEF NothingLost
<1>6. CASE id \in ToSet(argv) \/ s.heap[id] = NULL
  BY <1>1, <1>3, <1>4, <1>5, <1>6 DEF Reachable, ArgsSet
<1>7. CASE id \notin ToSet(argv) /\ s.heap[id] # NULL
  <2>1. CASE \E key \in Keys, m \in {1, 2} : Bound(s, key) /\ s.db[key][m] = id
    BY <1>1, <1>3, <1>4, <2>1 DEF Reachable, Bound, ArgsSet
  <2>2. ASSUME NEW j \in Cells, s.clients[j] # NULL,
               NEW p \in DOMAIN s.clients[j].argv, s.clients[j].argv[p] = id
        PROVE  Reachable(t, id)
    <3>1. j # i
      BY <1>7, <2>2 DEF ToSet
    <3>2. t.clients[j] = s.clients[j]
      BY <1>3, <3>1 DEF ArgsSet
    <3> QED BY <2>2, <3>2 DEF Reachable
  <2> QED BY <1>5, <1>7, <2>1, <2>2 DEF Reachable
<1> QED BY <1>6, <1>7

(* A SET that adds its key gives the strings it takes to the database.     *)
LEMMA CmdSetLoses ==
  ASSUME NEW s, Shape(s), NEW i \in Cells, NothingLost(s),
         NEW argv \in Seq(Ids), argv = s.clients[i].argv, Len(argv) = 3,
         NEW key \in Keys, ~Bound(s, key), NEW t, HandedOver(s, t, i, argv, key)
  PROVE  NothingLost(t)
<1> SUFFICES ASSUME NEW id \in Ids PROVE Reachable(t, id)
  BY DEF NothingLost
<1>1. Reachable(s, id)
  BY DEF NothingLost
<1>2. /\ t.heap = s.heap
      /\ t.clients[i] # NULL /\ t.clients[i].argv = <<argv[1], NULL, NULL>>
      /\ \A j \in Cells \ {i} : t.clients[j] = s.clients[j]
      /\ \A other \in Keys \ {key} : t.db[other] = s.db[other]
      /\ t.db[key] = <<argv[2], argv[3]>>
  BY ClientOk DEF HandedOver, Bound
<1>3. Bound(t, key)
  <2>1. t.db[key] \in Ids \X Ids
    BY <1>2
  <2> QED BY <2>1, NullAssumption DEF Bound
<1>4. CASE s.heap[id] = NULL
  BY <1>2, <1>4 DEF Reachable
<1>5. ASSUME NEW other \in Keys, NEW m \in {1, 2}, Bound(s, other), s.db[other][m] = id
      PROVE  Reachable(t, id)
  <2>1. other # key
    BY <1>5
  <2>2. t.db[other] = s.db[other]
    BY <1>2, <2>1
  <2> QED BY <1>5, <2>2 DEF Reachable, Bound
<1>6. ASSUME NEW j \in Cells, s.clients[j] # NULL,
             NEW p \in DOMAIN s.clients[j].argv, s.clients[j].argv[p] = id
      PROVE  Reachable(t, id)
  <2>1. CASE j # i
    BY <1>2, <1>6, <2>1 DEF Reachable
  <2>2. CASE j = i
    <3>1. p \in {1, 2, 3} /\ argv[p] = id
      BY <1>6, <2>2
    <3>2. CASE p = 1
      <4>1. 1 \in DOMAIN t.clients[i].argv /\ t.clients[i].argv[1] = id
        BY <1>2, <3>1, <3>2
      <4> QED BY <1>2, <4>1 DEF Reachable
    <3>3. CASE p \in {2, 3}
      <4>1. t.db[key][1] = argv[2] /\ t.db[key][2] = argv[3]
        BY <1>2
      <4> QED BY <1>3, <3>1, <3>3, <4>1 DEF Reachable
    <3> QED BY <3>1, <3>2, <3>3
  <2> QED BY <2>1, <2>2
<1> QED BY <1>1, <1>4, <1>5, <1>6 DEF Reachable

LEMMA CmdDelLoses ==
  ASSUME NEW s, Shape(s), NothingLost(s), NEW key \in Keys, NEW t, t = CmdDel(s, key).server
  PROVE  NothingLost(t)
<1> DEFINE freed == Free(s, s.db[key])
           unbound == [freed EXCEPT !.db[key] = NULL]
<1>1. t = IF s.db[key] = NULL THEN s ELSE unbound
  BY DEF CmdDel, Outcome
<1>2. CASE s.db[key] = NULL
  BY <1>1, <1>2
<1>3. CASE s.db[key] # NULL
  <2>1. /\ freed.clients = s.clients /\ freed.db = s.db /\ Shape(freed)
        /\ freed.heap = [id \in Ids |-> IF id \in ToSet(s.db[key]) \ {NULL} THEN NULL ELSE s.heap[id]]
    BY FreeFields, FreeShape DEF Shape
  <2>2. unbound = [freed EXCEPT !.db[key] = NULL]
    OBVIOUS
  <2> HIDE DEF freed, unbound
  <2>3. EntrySet(freed, unbound, key, NULL)
    BY ONLY <2>1, <2>2, DbSet
  <2>4. /\ t.heap = freed.heap /\ t.clients = s.clients
        /\ \A other \in Keys \ {key} : t.db[other] = s.db[other]
    BY <1>1, <1>3, <2>1, <2>3 DEF EntrySet
  <2> SUFFICES ASSUME NEW id \in Ids PROVE Reachable(t, id)
    BY DEF NothingLost
  <2>5. Reachable(s, id) /\ id # NULL
    BY NullAssumption DEF NothingLost
  <2>6. CASE id \in ToSet(s.db[key]) \/ s.heap[id] = NULL
    BY <2>1, <2>4, <2>5, <2>6 DEF Reachable
  <2>7. CASE id \notin ToSet(s.db[key]) /\ s.heap[id] # NULL
    <3>1. ASSUME NEW other \in Keys, NEW m \in {1, 2}, Bound(s, other), s.db[other][m] = id
          PROVE  Reachable(t, id)
      <4>1. other # key
        BY <2>7, <3>1, EntryOk
      <4>2. t.db[other] = s.db[other]
        BY <2>4, <4>1
      <4> QED BY <3>1, <4>2 DEF Reachable, Bound
    <3> QED BY <2>4, <2>5, <2>7, <3>1 DEF Reachable
  <2> QED BY <2>6, <2>7
<1> QED BY <1>2, <1>3

LEMMA ExecutedLoses ==
  ASSUME NEW s, Shape(s), NEW i \in Cells, s.clients[i] \in Client, NothingLost(s),
         NEW words, WellFormed(words), words[1] # "exit",
         words[1] \in {"set", "del"} => words[2] \in Keys,
         NEW argv \in Seq(Ids), argv = s.clients[i].argv, Len(argv) = Len(words),
         words[1] = "set" => ~Bound(s, words[2]),
         NEW t, t = Executed(s, i, words).server
  PROVE  NothingLost(t)
<1>1. words[1] \in {"get", "set", "del", "exist", "time"}
  BY DEF WellFormed, Arity
<1>2. CASE words[1] \in {"get", "exist", "time"}
  <2>1. t = s
    BY <1>2 DEF Executed, CmdGet, CmdExist, Outcome
  <2> QED BY <2>1
<1>3. CASE words[1] = "set"
  <2>1. t = CmdSet(s, i, words[2]).server
    BY <1>3 DEF Executed
  <2>2. Len(argv) = 3
    BY <1>3 DEF WellFormed, Arity
  <2>3. HandedOver(s, t, i, argv, words[2])
    BY <2>1, <2>2, CmdSetSets
  <2> QED BY <1>3, <2>2, <2>3, CmdSetLoses
<1>4. CASE words[1] = "del"
  <2>1. t = CmdDel(s, words[2]).server
    BY <1>4 DEF Executed
  <2> QED BY <1>4, <2>1, CmdDelLoses
<1> QED BY <1>1, <1>2, <1>3, <1>4

-----------------------------------------------------------------------------
LEMMA RefuseLoses ==
  ASSUME HeapInv, NothingLost(server), NEW fd \in Fds, NEW n, Refuse(fd, n) \/ NoCommand(fd, n)
  PROVE  /\ NothingLost(server')
         /\ server'.base = 0 /\ ~Holding(ClientOf(fd)) /\ leaked' => leaked
<1> DEFINE i == CellOf(server, fd)
           words == WordsIn(fd, n)
           s == Parsed(server, i, words)
<1>1. Received(fd, n) /\ Room(words)
  BY DEF Refuse, NoCommand
<1>2. PICK text : Commit(Flushed(s, ClientOf(fd).fd, text))
  BY DEF Refuse, NoCommand
<1> DEFINE t == Flushed(s, ClientOf(fd).fd, text)
<1>3. words = WordsIn(fd, n) /\ i = CellOf(server, fd) /\ s = Parsed(server, i, words)
      /\ t = Flushed(s, ClientOf(fd).fd, text)
  OBVIOUS
<1> HIDE DEF words, i, s, t
<1>4. /\ ClientOf(fd).fd \in Fds /\ Shape(s) /\ s.base = server.base
      /\ s.clients[i] \in Client
      /\ server.base = 0 => ClientOf(fd).fd = i
  BY <1>1, <1>3, ReceivedParsed
<1>5. Shape(t)
  BY <1>3, <1>4, FlushedMoves
<1>6. Commit(t)
  BY <1>2 DEF t
<1>7. NothingLost(server') /\ (NothingLost(t) /\ leaked' => leaked) /\ server'.base = t.base
  BY <1>5, <1>6, CommitLoses, CommitShape DEF SameClients
<1>8. ASSUME server'.base = 0, ~Holding(ClientOf(fd)) PROVE NothingLost(t)
  <2>1. NothingLost(s)
    BY <1>1, <1>3, <1>8, ReceivedLoses
  <2>2. t.base = 0 /\ (s.base = 0 => i = ClientOf(fd).fd)
    BY <1>4, <1>7, <1>8
  <2>3. t = s
    BY <1>3, <1>4, <2>2, FlushedStays
  <2> QED BY <2>1, <2>3
<1> QED BY <1>7, <1>8

LEMMA CommandLoses ==
  ASSUME HeapInv, NothingLost(server), NEW fd \in Fds, NEW n, Command(fd, n)
  PROVE  /\ NothingLost(server')
         /\ server'.base = 0 /\ ~Holding(ClientOf(fd)) /\ ~SetOfABoundKey(fd, n) /\ leaked' => leaked
<1> DEFINE i == CellOf(server, fd)
           words == WordsIn(fd, n)
           s == Parsed(server, i, words)
           outcome == Executed(s, i, words)
           o == outcome.server
           t == Flushed(o, ClientOf(fd).fd, outcome.text)
           u == ArgsFreed(t, i)
<1>1. /\ Received(fd, n) /\ Room(words)
      /\ WellFormed(words) /\ words[1] # "exit"
      /\ Commit(u)
  BY DEF Command
<1>2. words[1] \in {"get", "set", "del", "exist"} => words[2] \in Keys
  <2>1. conn[fd].inbox \in Seq(Words) /\ Complete(conn[fd].inbox) /\ n \in DOMAIN conn[fd].inbox
    BY <1>1 DEF HeapInv, SocketsOK, Socket, Received
  <2> QED BY <1>1, <2>1, WordsOk
<1>3. words = WordsIn(fd, n) /\ i = CellOf(server, fd) /\ s = Parsed(server, i, words)
      /\ o = Executed(s, i, words).server /\ t = Flushed(o, ClientOf(fd).fd, outcome.text)
      /\ u = ArgsFreed(t, i)
  OBVIOUS
<1> HIDE DEF i, words, s, outcome, o, t, u
<1>4. /\ i \in Cells /\ ClientOf(fd).fd \in Fds
      /\ Shape(s) /\ s.base = server.base /\ s.clients[i] \in Client
      /\ \E argv \in Seq(Ids) : argv = s.clients[i].argv /\ Len(argv) = Len(words)
      /\ server.base = 0 => ClientOf(fd).fd = i
      /\ s.db = server.db
  BY <1>1, <1>3, ReceivedParsed
<1>5. PICK argv \in Seq(Ids) : argv = s.clients[i].argv /\ Len(argv) = Len(words)
  BY <1>4
<1>6. Shape(o) /\ o.base = s.base /\ o.clients[i] \in Client
  BY <1>1, <1>3, <1>4, <1>5, ExecutedShape
<1>7. Shape(t) /\ t.clients = o.clients
  BY <1>3, <1>4, <1>6, FlushedMoves
<1>8. ArgsSet(t, u, i, <<>>)
  BY <1>3, <1>4, <1>6, <1>7, ArgsFreedShape
<1>9. NothingLost(server') /\ (NothingLost(u) /\ leaked' => leaked) /\ server'.base = t.base
  BY <1>1, <1>8, CommitLoses, CommitShape DEF SameClients, ArgsSet
<1>10. ASSUME server'.base = 0, ~Holding(ClientOf(fd)), ~SetOfABoundKey(fd, n) PROVE NothingLost(u)
  <2>1. NothingLost(s)
    BY <1>1, <1>3, <1>10, ReceivedLoses
  <2>2. words[1] = "set" => ~Bound(s, words[2])
    BY <1>3, <1>4, <1>10 DEF SetOfABoundKey, Bound
  <2>3. NothingLost(o)
    BY <1>1, <1>2, <1>3, <1>4, <1>5, <2>1, <2>2, ExecutedLoses
  <2>4. t.base = 0 /\ (o.base = 0 => i = ClientOf(fd).fd)
    BY <1>4, <1>6, <1>9, <1>10
  <2>5. t = o
    BY <1>3, <1>4, <1>6, <2>4, FlushedStays
  <2> QED BY <1>3, <1>4, <1>6, <1>7, <2>3, <2>5, ArgsFreedLoses
<1> QED BY <1>9, <1>10

LEMMA ExitLoses ==
  ASSUME HeapInv, NothingLost(server), NEW fd \in Fds, NEW n, Exit(fd, n)
  PROVE  /\ NothingLost(server')
         /\ ~Holding(ClientOf(fd)) /\ leaked' => leaked
<1> DEFINE i == CellOf(server, fd)
           words == WordsIn(fd, n)
           s == Parsed(server, i, words)
           t == Unwatched(s, ClientOf(fd).fd)
           u == ArgsFreed(t, i)
<1>1. Received(fd, n) /\ words = <<"exit">> /\ Room(words) /\ Commit(u)
  BY DEF Exit
<1>2. words = WordsIn(fd, n) /\ i = CellOf(server, fd) /\ s = Parsed(server, i, words)
      /\ t = Unwatched(s, ClientOf(fd).fd) /\ u = ArgsFreed(t, i)
  OBVIOUS
<1> HIDE DEF i, words, s, t, u
<1>3. i \in Cells /\ Shape(s) /\ s.clients[i] \in Client
  BY <1>1, <1>2, ReceivedParsed
<1>4. /\ Shape(t) /\ t.clients = s.clients /\ t.db = s.db /\ t.heap = s.heap
  BY <1>2, <1>3, UnwatchedShape
<1>5. Shape(u)
  BY <1>2, <1>3, <1>4, ArgsFreedShape DEF ArgsSet
<1>6. NothingLost(server') /\ (NothingLost(u) /\ leaked' => leaked)
  BY <1>1, <1>5, CommitLoses
<1>7. ASSUME ~Holding(ClientOf(fd)) PROVE NothingLost(u)
  <2>1. NothingLost(s)
    BY <1>1, <1>2, <1>7, ReceivedLoses
  <2>2. NothingLost(t)
    BY <1>4, <2>1 DEF NothingLost, Reachable, Bound
  <2> QED BY <1>2, <1>3, <1>4, <2>2, ArgsFreedLoses
<1> QED BY <1>6, <1>7

LEMMA AcceptLoses ==
  ASSUME HeapInv, NothingLost(server), Accept
  PROVE  /\ NothingLost(server')
         /\ leaked' => leaked \/ \E fd \in Fds : ArgvOverwritten(fd)
<1> DEFINE fd == Min(FreeFds)
           i == CellOf(server, fd)
           c == NewClient(fd)
           t == [Registered(server, fd) EXCEPT !.active_fds = @ \cup {fd}]
<1>1. Commit(t)
  BY DEF Accept
<1>2. fd \in Fds
  <2>1. FreeFds \subseteq Fds /\ FreeFds # {}
    BY DEF Accept, FreeFds
  <2> QED BY <2>1, LeastFd
<1>3. t = [Registered(server, fd) EXCEPT !.active_fds = @ \cup {fd}] /\ fd = Min(FreeFds)
  OBVIOUS
<1>4. i \in Cells /\ server.clients[i] = ClientOf(fd)
  BY <1>2, CellOk DEF HeapInv, Shape, ClientOf
<1>5. t.clients = [server.clients EXCEPT ![i] = c] /\ t.db = server.db /\ t.heap = server.heap
  BY DEF Registered, HeapInv, Shape, IsServer
<1> HIDE DEF fd, i, c, t
<1>6. Shape(t)
  BY <1>2, <1>3, RegisteredAfter DEF After
<1>7. NothingLost(server') /\ (NothingLost(t) /\ leaked' => leaked)
  BY <1>1, <1>6, CommitLoses
<1>8. ASSUME ~Holding(ClientOf(fd)) PROVE NothingLost(t)
  <2> SUFFICES ASSUME NEW id \in Ids PROVE Reachable(t, id)
    BY DEF NothingLost
  <2>1. Reachable(server, id) /\ id # NULL
    BY NullAssumption DEF NothingLost
  <2>2. \A j \in Cells \ {i} : t.clients[j] = server.clients[j]
    BY <1>5 DEF HeapInv, Shape
  <2>3. ASSUME NEW j \in Cells, server.clients[j] # NULL,
               NEW p \in DOMAIN server.clients[j].argv, server.clients[j].argv[p] = id
        PROVE  Reachable(t, id)
    <3>1. j # i
      BY <1>4, <1>8, <2>1, <2>3 DEF Holding
    <3> QED BY <2>2, <2>3, <3>1 DEF Reachable
  <2> QED BY <1>5, <2>1, <2>3 DEF Reachable, Bound
<1>9. Holding(ClientOf(fd)) => \E f \in Fds : ArgvOverwritten(f)
  BY <1>2, <1>3 DEF ArgvOverwritten
<1> QED BY <1>7, <1>8, <1>9

LEMMA OthersLose ==
  ASSUME NothingLost(server),
         \/ Select \/ AcceptFails \/ StdinExit \/ Peers \/ UNCHANGED vars
         \/ \E fd \in Fds : RecvNone(fd) \/ \E n \in 1..MaxPending : Die(fd, n)
  PROVE  NothingLost(server') /\ leaked' = leaked
<1>1. CASE UNCHANGED <<server, leaked>>
  BY <1>1 DEF NothingLost, Reachable, Bound
<1>2. CASE \E fd \in Fds : RecvNone(fd)
  <2>1. PICK fd \in Fds : server' = Unwatched(server, fd) /\ leaked' = leaked
    BY <1>2 DEF RecvNone
  <2>2. server'.heap = server.heap /\ server'.db = server.db /\ server'.clients = server.clients
    BY <2>1 DEF Unwatched
  <2> QED BY <2>1, <2>2 DEF NothingLost, Reachable, Bound
<1> QED BY <1>1, <1>2 DEF Select, AcceptFails, StdinExit, Peers, Connect, Send, HangUp, Reset, Peer, Die, vars

(* As long as sends succeed a string is leaked by a SET of a key that is   *)
(* bound or over the arguments of a request that was refused, and by       *)
(* nothing else (command.c:122-128, 131-160, 182-222; client.c:32-40).     *)
THEOREM TwoThingsLeak == Spec => LeaksHaveTwoCauses
<1>1. Init => NothingLost(server)
  BY DEF Init, NothingLost, Reachable
<1>2. HeapInv /\ NothingLost(server) /\ [Next]_vars =>
        /\ NothingLost(server')
        /\ server'.base = 0 /\ ~leaked /\ leaked' =>
             \E fd \in Fds : ArgvOverwritten(fd) \/ \E n \in 1..MaxPending : SetOfABoundKey(fd, n)
  <2> SUFFICES ASSUME HeapInv, NothingLost(server), [Next]_vars
               PROVE  /\ NothingLost(server')
                      /\ server'.base = 0 /\ ~leaked /\ leaked' =>
                           \E fd \in Fds : \/ ArgvOverwritten(fd)
                                           \/ \E n \in 1..MaxPending : SetOfABoundKey(fd, n)
    OBVIOUS
  <2>1. CASE \/ Select \/ AcceptFails \/ StdinExit \/ Peers \/ UNCHANGED vars
             \/ \E fd \in Fds : RecvNone(fd) \/ \E n \in 1..MaxPending : Die(fd, n)
    BY <2>1, OthersLose
  <2>2. CASE Accept
    BY <2>2, AcceptLoses
  <2>3. ASSUME NEW fd \in Fds, NEW n \in 1..MaxPending,
               Refuse(fd, n) \/ NoCommand(fd, n) \/ Command(fd, n) \/ Exit(fd, n)
        PROVE  /\ NothingLost(server')
               /\ server'.base = 0 /\ ~leaked /\ leaked' => ArgvOverwritten(fd) \/ SetOfABoundKey(fd, n)
    <3>1. Serve(fd)
      BY <2>3 DEF Serve
    <3> QED BY <2>3, <3>1, RefuseLoses, CommandLoses, ExitLoses DEF ArgvOverwritten
  <2> QED BY <2>1, <2>2, <2>3 DEF Next, Loop, Serve
<1>3. HeapInv /\ NothingLost(server) /\ [Next]_vars =>
        [server'.base = 0 /\ ~leaked /\ leaked' =>
           \E fd \in Fds : ArgvOverwritten(fd) \/ \E n \in 1..MaxPending : SetOfABoundKey(fd, n)]_vars
  BY <1>2
<1>4. Spec => []NothingLost(server)
  <2>1. HeapInv /\ NothingLost(server) /\ [Next]_vars => NothingLost(server)'
    BY <1>2
  <2> QED BY <1>1, <2>1, HeapInvariant, PTL DEF Spec
<1> QED BY <1>3, <1>4, HeapInvariant, PTL DEF Spec, LeaksHaveTwoCauses
=============================================================================
