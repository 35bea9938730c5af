------------------------------ MODULE Console ------------------------------
(***************************************************************************)
(* The console client and the server it was written for, both in           *)
(* src/experiment.c.  Each is a process with a select() loop: the client   *)
(* between its terminal and its connection, the server between its own     *)
(* terminal, its listening socket and the connections.                     *)
(*                                                                         *)
(* A line is sent without its newline, and nothing else marks its end:     *)
(* lines that are under way together may be received as one.  Users may    *)
(* type while the client waits; it reads and sends what they type.         *)
(*                                                                         *)
(* Abstracted: a line fits the buffers; the terminals are not closed;      *)
(* descriptors do not run out, and the order in which the server serves    *)
(* those that are ready is any order (module Server has both).             *)
(***************************************************************************)
EXTENDS Integers, Sequences

CONSTANTS
  Clients,    \* the terminals at which clients are started
  NULL,
  Backlog,    \* how many connections listen() lets wait
  MaxAhead    \* bound on the lines sent and not answered when a user types another

(* What users type: "exit", nothing, and all else, which the server        *)
(* answers, be it with the time or with that the command is unknown.       *)
Lines == {"exit", "other", "empty"}

ASSUME LinesAssumption == NULL \notin Lines /\ Backlog \in Nat /\ MaxAhead \in Nat

VARIABLES
  client,    \* client[c]: where its loop is, wait_result, what select() reported
  typed,     \* typed[c]: the line at the terminal of c that is not read yet
  conn,      \* conn[c]: the connection of c as the server's kernel has it
  queue,     \* the connections that wait for accept(), the first one first
  up,        \* up[c]: the lines under way to the server
  down,      \* down[c]: how many lines have their answer under way to the client
  server,    \* where the server's loop is, and what select() reported
  owed,      \* history: how many lines of c have been sent and not answered
  slips      \* history: what the user did to the prompt since nothing was owed

vars == <<client, typed, conn, queue, up, down, server, owed, slips>>

-----------------------------------------------------------------------------
(* The client. *)

Off == [pc |-> "off", wait_result |-> FALSE, ready |-> {}]

Loop(wait_result) == [pc |-> "select", wait_result |-> wait_result, ready |-> {}]

Set(var, c, val) == [var EXCEPT ![c] = val]

(* connect(): refused when nobody listens; it waits while the queue of     *)
(* listen() is full.                                                       *)
Connect(c) ==
  /\ client[c].pc = "off" /\ conn[c] = "none"
  /\ server.pc # "exited"
  /\ Len(queue) < Backlog
  /\ client' = Set(client, c, Loop(FALSE))
  /\ conn' = Set(conn, c, "queued")
  /\ queue' = Append(queue, c)
  /\ UNCHANGED <<typed, up, down, server, owed, slips>>

(* The client ends, and its socket is closed with it; what is left at the  *)
(* terminal is not for the next one.                                       *)
Ended(c) == /\ client' = Set(client, c, Off)
            /\ conn' = Set(conn, c, IF conn[c] = "closed" THEN "none" ELSE conn[c])
            /\ typed' = Set(typed, c, NULL)
            /\ down' = Set(down, c, 0)
            /\ owed' = Set(owed, c, 0)
            /\ slips' = Set(slips, c, {})

Ready(c) == (IF down[c] > 0 \/ conn[c] = "closed" THEN {"socket"} ELSE {})
              \cup (IF typed[c] # NULL THEN {"stdin"} ELSE {})

ClientSelect(c) ==
  /\ client[c].pc = "select"
  /\ Ready(c) # {}
  /\ client' = Set(client, c, [pc |-> IF "socket" \in Ready(c) THEN "recv" ELSE "read",
                               wait_result |-> client[c].wait_result,
                               ready |-> Ready(c)])
  /\ UNCHANGED <<typed, conn, queue, up, down, server, owed, slips>>

(* Where the loop goes when recv() is done.                                *)
Received(c, wait_result) ==
  IF "stdin" \in client[c].ready
  THEN [client[c] EXCEPT !.pc = "read", !.wait_result = wait_result]
  ELSE Loop(wait_result)

(* The answers to n lines are read.                                        *)
Take(c, n) == /\ owed' = Set(owed, c, owed[c] - n)
              /\ down' = Set(down, c, down[c] - n)
              /\ slips' = Set(slips, c, IF owed[c] = n THEN {} ELSE slips[c])

(* Mutant: the client goes on waiting.                                     *)
ClientRecvWaitsOn(c) ==
  /\ client[c].pc = "recv"
  /\ \/ /\ \E n \in 1..down[c] : Take(c, n)
        /\ client' = Set(client, c, Received(c, client[c].wait_result))
        /\ UNCHANGED <<typed, conn>>
     \/ down[c] = 0 /\ Ended(c)
  /\ UNCHANGED <<queue, up, server>>

(* Mutant: a connection that has ended is taken for an empty answer.       *)
ClientRecvGoesOn(c) ==
  /\ client[c].pc = "recv"
  /\ Take(c, down[c])
  /\ client' = Set(client, c, Received(c, FALSE))
  /\ UNCHANGED <<typed, conn, queue, up, server>>

(* recv(): as many answers as have come, or the end of the connection.     *)
ClientRecv(c) ==
  /\ client[c].pc = "recv"
  /\ \/ /\ \E n \in 1..down[c] : Take(c, n)
        /\ client' = Set(client, c, Received(c, FALSE))
        /\ UNCHANGED <<typed, conn>>
     \/ down[c] = 0 /\ Ended(c)
  /\ UNCHANGED <<queue, up, server>>

(* send().  To a server that has closed the connection it gets lost.       *)
Sent(c, line) == IF conn[c] = "closed" THEN up ELSE Set(up, c, Append(up[c], line))

(* A line is sent.                                                         *)
Send(c) == /\ typed[c] # "empty"
           /\ up' = Sent(c, typed[c])
           /\ owed' = Set(owed, c, owed[c] + 1)
           /\ slips' = Set(slips, c, slips[c] \cup (IF owed[c] > 0 THEN {"ahead"} ELSE {}))

(* Nothing is sent for an empty line.                                      *)
SendNothing(c) == /\ typed[c] = "empty"
                  /\ slips' = Set(slips, c, slips[c] \cup {"empty"})
                  /\ UNCHANGED <<up, owed>>

(* send() fails once the other side has refused what came.                 *)
SendFails(c) == /\ conn[c] = "closed"
                /\ client' = Set(client, c, Loop(client[c].wait_result))
                /\ UNCHANGED <<up, owed, slips>>

(* "exit" is sent, or gets lost, and ends the client in either case.       *)
SendExit(c) == /\ typed[c] = "exit"
               /\ up' = Sent(c, "exit")
               /\ Ended(c)

(* Mutant: the client does not wait.                                       *)
ClientReadNoWait(c) ==
  /\ client[c].pc = "read"
  /\ \/ SendExit(c)
     \/ /\ typed[c] # "exit"
        /\ \/ (Send(c) \/ SendNothing(c)) /\ client' = Set(client, c, Loop(FALSE))
           \/ SendFails(c)
        /\ typed' = Set(typed, c, NULL)
        /\ UNCHANGED <<conn, down>>
  /\ UNCHANGED <<queue, server>>

(* What has been sent is waited for, nothing included.                     *)
ClientRead(c) ==
  /\ client[c].pc = "read"
  /\ \/ SendExit(c)
     \/ /\ typed[c] # "exit"
        /\ \/ (Send(c) \/ SendNothing(c)) /\ client' = Set(client, c, Loop(TRUE))
           \/ SendFails(c)
        /\ typed' = Set(typed, c, NULL)
        /\ UNCHANGED <<conn, down>>
  /\ UNCHANGED <<queue, server>>

ClientLoop(c) == ClientSelect(c) \/ ClientRecv(c) \/ ClientRead(c)

(* The user types a line, whether there is a prompt or not.                *)
Type(c, line) == /\ client[c].pc # "off"
                 /\ typed[c] = NULL
                 /\ owed[c] <= MaxAhead
                 /\ typed' = Set(typed, c, line)
                 /\ UNCHANGED <<client, conn, queue, up, down, server, owed, slips>>

(* The user interrupts the program, or SIGPIPE does, which neither of the  *)
(* two ignores.                                                            *)
Interrupt(c) == /\ client[c].pc # "off"
                /\ Ended(c)
                /\ UNCHANGED <<queue, up, server>>

-----------------------------------------------------------------------------
(* The server. *)

At(pc, read_fds) == [pc |-> pc, read_fds |-> read_fds]

Watched(c) == conn[c] \in {"open", "reset"}

Readable == {c \in Clients : Watched(c) /\ (up[c] # <<>> \/ client[c].pc = "off")}

ServerSelect ==
  /\ server.pc = "select"
  /\ Readable # {} \/ queue # <<>>
  /\ server' = At(IF queue # <<>> THEN "accept" ELSE "serve", Readable)
  /\ UNCHANGED <<client, typed, conn, queue, up, down, owed, slips>>

Accept ==
  /\ server.pc = "accept"
  /\ conn' = Set(conn, Head(queue), "open")
  /\ queue' = Tail(queue)
  /\ server' = At(IF server.read_fds = {} THEN "select" ELSE "serve", server.read_fds)
  /\ UNCHANGED <<client, typed, up, down, owed, slips>>

(* close() and FD_CLR; lines that have not been read are lost.             *)
Close(c) == /\ conn' = Set(conn, c, IF client[c].pc = "off" THEN "none" ELSE "closed")
            /\ up' = Set(up, c, <<>>)
            /\ UNCHANGED down

(* Mutant: an answer is followed by that for an unknown command.           *)
AnsweredTwice(c, n) == Set(down, c, down[c] + n + 1)

Answered(c, n) == Set(down, c, down[c] + n)

(* The first n lines are answered, with one answer.  What is sent to a     *)
(* client that has gone gets lost and resets the connection.               *)
AnswerLines(c, n) ==
  /\ up' = Set(up, c, SubSeq(up[c], n + 1, Len(up[c])))
  /\ IF client[c].pc = "off" THEN conn' = Set(conn, c, "reset") /\ UNCHANGED down
                             ELSE down' = Answered(c, n) /\ UNCHANGED conn

(* What n lines received together may say.  A line is what it is; several, *)
(* without anything between them, are an unknown command, unless they are  *)
(* pieces of one.                                                          *)
ReadAsExit(lines) == \/ lines = <<"exit">>
                     \/ Len(lines) > 1 /\ \A i \in DOMAIN lines : lines[i] = "other"

ReadAsCommand(lines) == lines # <<"exit">>

(* What recv() returns is processed; send() to a client that has gone may  *)
(* fail at once.                                                           *)
Process(c, n) ==
  LET lines == SubSeq(up[c], 1, n)
  IN  \/ ReadAsExit(lines) /\ Close(c)
      \/ ReadAsCommand(lines) /\ AnswerLines(c, n)
      \/ ReadAsCommand(lines) /\ client[c].pc = "off" /\ Close(c)

Serving(c) == server.pc = "serve" /\ c \in server.read_fds

Served(c) ==
  /\ server' = LET rest == server.read_fds \ {c}
               IN  At(IF rest = {} THEN "select" ELSE "serve", rest)
  /\ UNCHANGED <<client, typed, queue, owed, slips>>

(* Mutant: only "exit" closes a connection.                                *)
ServeNoClose(c) ==
  /\ Serving(c) /\ Served(c)
  /\ \/ up[c] = <<>> /\ UNCHANGED <<conn, up, down>>
     \/ \E n \in 1..Len(up[c]) : Process(c, n)

(* recv() returns what has come or, when the client has gone, nothing.     *)
Serve(c) ==
  /\ Serving(c) /\ Served(c)
  /\ \/ up[c] = <<>> /\ Close(c)
     \/ \E n \in 1..Len(up[c]) : Process(c, n)

(* The process ends; the kernel closes what is open.                       *)
ServerEnds ==
  /\ server' = At("exited", {})
  /\ conn' = [c \in Clients |-> IF client[c].pc = "off" THEN "none" ELSE "closed"]
  /\ queue' = <<>>
  /\ up' = [c \in Clients |-> <<>>]
  /\ UNCHANGED <<client, typed, down, owed, slips>>

(* "exit" typed at the server's terminal.                                  *)
ServerExit == server.pc = "select" /\ ServerEnds

(* SIGPIPE: the server answers another line on a connection that is reset. *)
ServerKilled(c) == Serving(c) /\ conn[c] = "reset" /\ up[c] # <<>> /\ ServerEnds

ServerLoop == ServerSelect \/ Accept \/ \E c \in Clients : Serve(c)

-----------------------------------------------------------------------------
Init == /\ client = [c \in Clients |-> Off]
        /\ typed = [c \in Clients |-> NULL]
        /\ conn = [c \in Clients |-> "none"]
        /\ queue = <<>>
        /\ up = [c \in Clients |-> <<>>]
        /\ down = [c \in Clients |-> 0]
        /\ server = At("select", {})
        /\ owed = [c \in Clients |-> 0]
        /\ slips = [c \in Clients |-> {}]

Next == \/ ServerLoop \/ ServerExit
        \/ \E c \in Clients : \/ ServerKilled(c)
                             \/ Connect(c) \/ ClientLoop(c) \/ Interrupt(c)
                             \/ \E line \in Lines : Type(c, line)

(* Both programs run: a loop goes on whenever select() has something to    *)
(* report.  Users need not start a client, type, or end a program.         *)
Spec == /\ Init /\ [][Next]_vars
        /\ WF_vars(ServerLoop)
        /\ \A c \in Clients : WF_vars(ClientLoop(c))

-----------------------------------------------------------------------------
(* Properties. *)

(* Every variable has its type.                                            *)
ConsoleTypeOK ==
  /\ client \in [Clients -> [pc : {"off", "select", "recv", "read"}, wait_result : BOOLEAN,
                             ready : SUBSET {"socket", "stdin"}]]
  /\ typed \in [Clients -> Lines \cup {NULL}] /\ up \in [Clients -> Seq(Lines \ {"empty"})]
  /\ conn \in [Clients -> {"none", "queued", "open", "reset", "closed"}]
  /\ queue \in Seq(Clients) /\ down \in [Clients -> Nat] /\ owed \in [Clients -> Nat]
  /\ server.pc \in {"select", "accept", "serve", "exited"} /\ server.read_fds \subseteq Clients
  /\ slips \in [Clients -> SUBSET {"ahead", "empty"}]

(* As long as the user waits for the prompt and types no empty line, the   *)
(* prompt shows exactly when everything has been answered: only a line     *)
(* typed while another waits for its answer can make it show too early,    *)
(* and only an empty line can keep it away with nothing to come            *)
(* (experiment.c:286-288, 300, 320-341).                                   *)
PromptMeansAnswered ==
  \A c \in Clients : client[c].pc = "select" =>
    IF client[c].wait_result THEN owed[c] > 0 \/ "empty" \in slips[c]
                             ELSE owed[c] = 0 \/ "ahead" \in slips[c]

(* The client does not wait forever for what it has sent, nor does an      *)
(* answer stay away because lines were received together or typed ahead:   *)
(* the wait is over some time, and while lines are owed an answer, answers *)
(* keep coming (experiment.c:298-318, 320-341; 177-230).                   *)
PromptReturns ==
  \A c \in Clients : /\ owed[c] > 0 ~> ~client[c].wait_result
                     /\ []<>(owed[c] = 0) \/ []<><<owed'[c] < owed[c]>>_vars

(* No client outlives the server: it is told by its connection, whether it *)
(* waits for an answer or for its user (experiment.c:303-311, 128-142).    *)
NobodyOutlivesTheServer ==
  \A c \in Clients : server.pc = "exited" ~> client[c].pc = "off"

(* No connection is lost while the server processes others, as             *)
(* experiment.c:111 asks: who has connected is accepted, and when the      *)
(* client has gone the connection is released, so that its terminal can    *)
(* start another (experiment.c:151-169, 179-195, 215-219).                 *)
ConnectionsAreHandled ==
  \A c \in Clients : /\ conn[c] = "queued" ~> conn[c] # "queued"
                     /\ client[c].pc = "off" ~> conn[c] = "none" \/ client[c].pc # "off"
=============================================================================
