---------------------------- MODULE ConsoleProofs ----------------------------
(***************************************************************************)
(* Proof that the prompt of a console client means what it says, for any   *)
(* number of clients, any number of lines typed ahead, and whatever the    *)
(* server and the users do.                                                *)
(*                                                                         *)
(* Lines are conserved: while a connection is up, what its client is owed  *)
(* is what is under way to the server and what is under way back.  So an   *)
(* answer leaves something owed only if lines were sent ahead of it.  The  *)
(* lines a client leaves behind when it ends are not answered to the next  *)
(* client at that terminal: the connection is not released before they     *)
(* have been read, or lost.                                                *)
(*                                                                         *)
(* Nor does anyone wait for nothing: the line, its answer or the end of    *)
(* the connection is always on its way, and no connection is forgotten.    *)
(***************************************************************************)
EXTENDS Console, SequenceTheorems, TLAPS

Conserved(c) ==
  /\ down[c] <= owed[c]
  /\ client[c].pc = "off" => owed[c] = 0 /\ ~client[c].wait_result /\ slips[c] = {}
  /\ client[c].pc # "off" /\ conn[c] # "closed" => owed[c] = Len(up[c]) + down[c]

Excused(c) ==
  /\ client[c].wait_result => owed[c] > 0 \/ "empty" \in slips[c]
  /\ ~client[c].wait_result => owed[c] = 0 \/ "ahead" \in slips[c]
  /\ "ahead" \notin slips[c] => owed[c] <= 1

TypedOnceRead(c) ==
  /\ client[c].pc = "read" => typed[c] # NULL
  /\ client[c].pc = "recv" /\ "stdin" \in client[c].ready => typed[c] # NULL

Released(c) ==
  /\ conn[c] \in {"none", "reset"} => client[c].pc = "off"
  /\ conn[c] \in {"none", "closed"} => up[c] = <<>>

ClientOK(c) == Conserved(c) /\ Excused(c) /\ TypedOnceRead(c) /\ Released(c)

ConsoleInv == /\ ConsoleTypeOK
              /\ server.pc = "accept" => queue # <<>>
              /\ \A c \in Clients : ClientOK(c)

-----------------------------------------------------------------------------
(* A step of one client leaves the others alone.                           *)
LEMMA OthersKept ==
  ASSUME \A c \in Clients : ClientOK(c), NEW c \in Clients, ClientOK(c)',
         \A other \in Clients \ {c} :
           /\ client'[other] = client[other] /\ typed'[other] = typed[other]
           /\ conn'[other] = conn[other] /\ up'[other] = up[other]
           /\ down'[other] = down[other] /\ owed'[other] = owed[other]
           /\ slips'[other] = slips[other]
  PROVE  (\A k \in Clients : ClientOK(k))'
BY DEF ClientOK, Conserved, Excused, TypedOnceRead, Released

LEMMA ClientTypes ==
  ASSUME ConsoleTypeOK, NEW c \in Clients
  PROVE  /\ client[c].pc \in {"off", "select", "recv", "read"}
         /\ client[c].wait_result \in BOOLEAN
         /\ client[c].ready \in SUBSET {"socket", "stdin"}
         /\ typed[c] \in Lines \cup {NULL}
         /\ up[c] \in Seq(Lines \ {"empty"}) /\ Len(up[c]) \in Nat
         /\ up[c] = <<>> <=> Len(up[c]) = 0
         /\ conn[c] \in {"none", "queued", "open", "reset", "closed"}
         /\ down[c] \in Nat /\ owed[c] \in Nat
         /\ slips[c] \in SUBSET {"ahead", "empty"}
<1>1. up[c] \in Seq(Lines \ {"empty"})
  BY DEF ConsoleTypeOK
<1>2. Len(up[c]) \in Nat /\ (up[c] = <<>> <=> Len(up[c]) = 0)
  BY <1>1, EmptySeq, LenProperties
<1> QED BY <1>1, <1>2 DEF ConsoleTypeOK

(* What recv() leaves of the lines under way, and what it returns.         *)
LEMMA PartsOf ==
  ASSUME NEW S, NEW s \in Seq(S), NEW n \in 1..Len(s)
  PROVE  /\ SubSeq(s, n + 1, Len(s)) \in Seq(S)
         /\ Len(SubSeq(s, n + 1, Len(s))) = Len(s) - n
         /\ Len(SubSeq(s, 1, n)) = n /\ \A i \in 1..n : SubSeq(s, 1, n)[i] = s[i]
         /\ \A i \in 1..(Len(s) - n) : SubSeq(s, n + 1, Len(s))[i] = s[n + i]
<1>1. Len(s) \in Nat /\ \A i \in 1..Len(s) : s[i] \in S
  BY LenProperties, ElementOfSeq
<1>2. n \in Nat /\ 1 <= n /\ n <= Len(s)
  BY <1>1
<1>3. /\ SubSeq(s, n + 1, Len(s)) \in Seq(S)
      /\ Len(SubSeq(s, n + 1, Len(s))) = IF n + 1 <= Len(s) THEN Len(s) - (n + 1) + 1 ELSE 0
      /\ \A i \in 1..(Len(s) - (n + 1) + 1) :
           SubSeq(s, n + 1, Len(s))[i] = s[(n + 1) + i - 1]
  <2>1. \A i \in (n + 1)..Len(s) : s[i] \in S
    BY <1>1, <1>2
  <2> QED BY <1>1, <1>2, <2>1, SubSeqProperties
<1>4. /\ Len(SubSeq(s, 1, n)) = IF 1 <= n THEN n - 1 + 1 ELSE 0
      /\ \A i \in 1..(n - 1 + 1) : SubSeq(s, 1, n)[i] = s[1 + i - 1]
  <2>1. \A i \in 1..n : s[i] \in S
    BY <1>1, <1>2
  <2> QED BY <1>1, <1>2, <2>1, SubSeqProperties
<1>5. Len(SubSeq(s, 1, n)) = n /\ \A i \in 1..n : SubSeq(s, 1, n)[i] = s[i]
  BY <1>2, <1>4
<1>6. /\ Len(SubSeq(s, n + 1, Len(s))) = Len(s) - n
      /\ \A i \in 1..(Len(s) - n) : SubSeq(s, n + 1, Len(s))[i] = s[n + i]
  BY <1>1, <1>2, <1>3
<1> QED BY <1>3, <1>5, <1>6

LEMMA ConnectOk ==
  ASSUME ConsoleInv, NEW c \in Clients, Connect(c)
  PROVE  ConsoleInv'
<1>1. ConsoleTypeOK /\ ClientOK(c) /\ \A k \in Clients : ClientOK(k)
  BY DEF ConsoleInv
<1>2. ConsoleTypeOK'
  BY <1>1 DEF ConsoleTypeOK, Connect, Set, Loop
<1>3. ClientOK(c)'
  <2>1. /\ client'[c].pc = "select" /\ client'[c].wait_result = FALSE
        /\ conn'[c] = "queued" /\ UNCHANGED <<typed, up, down, owed, slips>>
    BY <1>1 DEF Connect, Set, Loop, ConsoleTypeOK
  <2>2. up[c] = <<>> /\ owed[c] = 0 /\ down[c] = 0 /\ Len(up[c]) = 0 /\ slips[c] = {}
    <3>1. up[c] = <<>> /\ down[c] <= owed[c] /\ owed[c] = 0 /\ slips[c] = {}
      BY <1>1 DEF ClientOK, Conserved, Released, Connect
    <3>2. down[c] \in Nat /\ Len(up[c]) = 0
      BY <1>1, <3>1, ClientTypes
    <3> QED BY <3>1, <3>2
  <2>3. Conserved(c)' /\ Excused(c)'
    BY <2>1, <2>2 DEF Conserved, Excused
  <2>4. TypedOnceRead(c)' /\ Released(c)'
    BY <2>1, <2>2 DEF TypedOnceRead, Released
  <2> QED BY <2>3, <2>4 DEF ClientOK
<1>4. (\A k \in Clients : ClientOK(k))'
  BY <1>1, <1>3, OthersKept DEF Connect, Set, ConsoleTypeOK
<1>5. queue' # <<>>
  BY <1>1, AppendProperties DEF ConsoleTypeOK, Connect
<1> QED BY <1>2, <1>4, <1>5 DEF ConsoleInv

LEMMA ClientSelectOk ==
  ASSUME ConsoleInv, NEW c \in Clients, ClientSelect(c)
  PROVE  ConsoleInv'
<1>1. ConsoleTypeOK /\ ClientOK(c) /\ \A k \in Clients : ClientOK(k)
  BY DEF ConsoleInv
<1>2. ConsoleTypeOK'
  BY <1>1, ClientTypes DEF ConsoleTypeOK, ClientSelect, Set, Ready
<1>3. ClientOK(c)'
  <2>1. /\ client'[c].wait_result = client[c].wait_result
        /\ client'[c].pc = IF "socket" \in Ready(c) THEN "recv" ELSE "read"
        /\ client'[c].ready = Ready(c)
        /\ client[c].pc = "select" /\ Ready(c) # {}
        /\ UNCHANGED <<typed, conn, up, down, owed, slips>>
    BY <1>1 DEF ClientSelect, Set, ConsoleTypeOK
  <2>2. "stdin" \in Ready(c) => typed[c] # NULL
    BY DEF Ready
  <2>3. "socket" \notin Ready(c) => "stdin" \in Ready(c)
    BY <2>1 DEF Ready
  <2>4. Conserved(c)' /\ Excused(c)'
    BY <1>1, <2>1 DEF ClientOK, Conserved, Excused
  <2>5. TypedOnceRead(c)'
    BY <1>1, <2>1, <2>2, <2>3 DEF ClientOK, TypedOnceRead
  <2>6. Released(c)'
    BY <1>1, <2>1 DEF ClientOK, Released
  <2> QED BY <2>4, <2>5, <2>6 DEF ClientOK
<1>4. (\A k \in Clients : ClientOK(k))'
  BY <1>1, <1>3, OthersKept DEF ClientSelect, Set, ConsoleTypeOK
<1> QED BY <1>2, <1>4 DEF ConsoleInv, ClientSelect

(* What is sent reaches the queue of lines, or is lost.                    *)
LEMMA SentOk ==
  ASSUME ConsoleTypeOK, NEW c \in Clients, NEW line \in Lines \ {"empty"}, up' = Sent(c, line)
  PROVE  /\ up' \in [Clients -> Seq(Lines \ {"empty"})]
         /\ \A other \in Clients \ {c} : up'[other] = up[other]
         /\ conn[c] = "closed" => up'[c] = up[c]
         /\ conn[c] # "closed" => /\ up'[c] = Append(up[c], line) /\ up'[c] # <<>>
                                  /\ Len(up'[c]) = Len(up[c]) + 1
<1>1. up[c] \in Seq(Lines \ {"empty"}) /\ up \in [Clients -> Seq(Lines \ {"empty"})]
  BY DEF ConsoleTypeOK
<1> DEFINE longer == Append(up[c], line)
<1>2. longer \in Seq(Lines \ {"empty"}) /\ longer # <<>> /\ Len(longer) = Len(up[c]) + 1
  BY <1>1, AppendProperties
<1>3. up' = IF conn[c] = "closed" THEN up ELSE [up EXCEPT ![c] = longer]
  BY DEF Sent, Set
<1> HIDE DEF longer
<1>4. /\ up' \in [Clients -> Seq(Lines \ {"empty"})]
      /\ \A other \in Clients \ {c} : up'[other] = up[other]
      /\ conn[c] = "closed" => up'[c] = up[c]
      /\ conn[c] # "closed" => up'[c] = longer
  BY <1>1, <1>2, <1>3
<1> QED BY <1>2, <1>4 DEF longer

(* The end of a client, whatever ends it.                                  *)
LEMMA EndedOk ==
  ASSUME ConsoleInv, NEW c \in Clients, client[c].pc # "off", Ended(c),
         \A other \in Clients \ {c} : up'[other] = up[other],
         up' \in [Clients -> Seq(Lines \ {"empty"})],
         conn[c] = "closed" => up'[c] = up[c],
         UNCHANGED <<queue, server>>
  PROVE  ConsoleInv'
<1>1. ConsoleTypeOK /\ ClientOK(c) /\ \A k \in Clients : ClientOK(k)
  BY DEF ConsoleInv
<1>2. ConsoleTypeOK'
  BY <1>1 DEF ConsoleTypeOK, Ended, Set, Off
<1>3. ClientOK(c)'
  <2>1. /\ client'[c] = Off /\ down'[c] = 0 /\ owed'[c] = 0 /\ slips'[c] = {}
        /\ conn'[c] = IF conn[c] = "closed" THEN "none" ELSE conn[c]
    BY <1>1 DEF Ended, Set, ConsoleTypeOK
  <2>2. Off.pc = "off" /\ Off.wait_result = FALSE
    BY DEF Off
  <2>3. Conserved(c)' /\ Excused(c)' /\ TypedOnceRead(c)'
    BY <2>1, <2>2 DEF Conserved, Excused, TypedOnceRead
  <2>4. conn[c] # "none" /\ (conn[c] = "closed" => up[c] = <<>>)
    BY <1>1 DEF ClientOK, Released
  <2>5. Released(c)'
    BY <2>1, <2>2, <2>4 DEF Released
  <2> QED BY <2>3, <2>5 DEF ClientOK
<1>4. (\A k \in Clients : ClientOK(k))'
  BY <1>1, <1>3, OthersKept DEF Ended, Set, ConsoleTypeOK
<1> QED BY <1>2, <1>4 DEF ConsoleInv

LEMMA ReceivedFields ==
  ASSUME ConsoleTypeOK, NEW c \in Clients, NEW wait \in BOOLEAN
  PROVE  LET new == Received(c, wait)
         IN  /\ new \in [pc : {"off", "select", "recv", "read"}, wait_result : BOOLEAN,
                         ready : SUBSET {"socket", "stdin"}]
             /\ new.wait_result = wait
             /\ new.pc = IF "stdin" \in client[c].ready THEN "read" ELSE "select"
<1>1. CASE "stdin" \in client[c].ready
  <2>1. client[c] \in [pc : {"off", "select", "recv", "read"}, wait_result : BOOLEAN,
                       ready : SUBSET {"socket", "stdin"}]
    BY DEF ConsoleTypeOK
  <2>2. Received(c, wait) = [client[c] EXCEPT !.pc = "read", !.wait_result = wait]
    BY <1>1 DEF Received
  <2> QED BY <1>1, <2>1, <2>2
<1>2. CASE "stdin" \notin client[c].ready
  BY <1>2 DEF Received, Loop
<1> QED BY <1>1, <1>2

(* Of what is owed, the lines answered are taken off.                      *)
LEMMA TakeOk ==
  ASSUME ConsoleInv, NEW c \in Clients, NEW n \in 1..down[c], Take(c, n)
  PROVE  /\ n \in Nat \ {0} /\ n <= down[c] /\ down[c] <= owed[c]
         /\ owed' \in [Clients -> Nat] /\ down' \in [Clients -> Nat]
         /\ slips' \in [Clients -> SUBSET {"ahead", "empty"}]
         /\ owed'[c] = owed[c] - n /\ down'[c] = down[c] - n
         /\ slips'[c] = IF owed[c] = n THEN {} ELSE slips[c]
         /\ \A other \in Clients \ {c} : /\ owed'[other] = owed[other]
                                         /\ down'[other] = down[other]
                                         /\ slips'[other] = slips[other]
<1>1. ConsoleTypeOK /\ down[c] \in Nat /\ owed[c] \in Nat /\ down[c] <= owed[c]
      /\ slips[c] \in SUBSET {"ahead", "empty"}
  BY ClientTypes DEF ConsoleInv, ClientOK, Conserved
<1>2. n \in Nat \ {0} /\ n <= down[c] /\ owed[c] - n \in Nat /\ down[c] - n \in Nat
  BY <1>1
<1>3. /\ owed' = [owed EXCEPT ![c] = owed[c] - n] /\ down' = [down EXCEPT ![c] = down[c] - n]
      /\ slips' = [slips EXCEPT ![c] = IF owed[c] = n THEN {} ELSE slips[c]]
  BY DEF Take, Set
<1> QED BY <1>1, <1>2, <1>3 DEF ConsoleTypeOK

LEMMA ClientRecvOk ==
  ASSUME ConsoleInv, NEW c \in Clients, ClientRecv(c)
  PROVE  ConsoleInv'
<1>1. ConsoleTypeOK /\ ClientOK(c) /\ \A k \in Clients : ClientOK(k)
  BY DEF ConsoleInv
<1>2. CASE Ended(c)
  <2>1. client[c].pc = "recv" /\ UNCHANGED <<queue, up, server>>
    BY DEF ClientRecv
  <2> QED BY <1>1, <1>2, <2>1, EndedOk DEF ConsoleTypeOK
<1>3. CASE ~Ended(c)
  <2>1. PICK n \in 1..down[c] : Take(c, n)
    BY <1>3 DEF ClientRecv
  <2>2. /\ client[c].pc = "recv" /\ client' = Set(client, c, Received(c, FALSE))
        /\ UNCHANGED <<typed, conn, queue, up, server>>
    BY <1>3 DEF ClientRecv
  <2>3. /\ client'[c] = Received(c, FALSE)
        /\ \A other \in Clients \ {c} : client'[other] = client[other]
    BY <1>1, <2>2 DEF Set, ConsoleTypeOK
  <2>4. /\ ~client'[c].wait_result
        /\ client'[c].pc = IF "stdin" \in client[c].ready THEN "read" ELSE "select"
    BY <1>1, <2>3, ReceivedFields
  <2>5. ConsoleTypeOK'
    <3> DEFINE new == Received(c, FALSE)
    <3>1. /\ new \in [pc : {"off", "select", "recv", "read"}, wait_result : BOOLEAN,
                      ready : SUBSET {"socket", "stdin"}]
          /\ client' = [client EXCEPT ![c] = new]
      BY <1>1, <2>2, ReceivedFields DEF Set
    <3> HIDE DEF new
    <3>2. /\ owed' \in [Clients -> Nat] /\ down' \in [Clients -> Nat]
          /\ slips' \in [Clients -> SUBSET {"ahead", "empty"}]
      BY <2>1, TakeOk
    <3>3. client' \in [Clients -> [pc : {"off", "select", "recv", "read"},
                                   wait_result : BOOLEAN, ready : SUBSET {"socket", "stdin"}]]
      BY <1>1, <3>1 DEF ConsoleTypeOK
    <3> QED BY <1>1, <2>2, <3>2, <3>3 DEF ConsoleTypeOK
  <2>6. Conserved(c)' /\ Excused(c)'
    <3>1. /\ n \in Nat \ {0} /\ n <= down[c] /\ down[c] <= owed[c]
          /\ owed'[c] = owed[c] - n /\ down'[c] = down[c] - n
          /\ slips'[c] = IF owed[c] = n THEN {} ELSE slips[c]
      BY <2>1, TakeOk
    <3>2. owed[c] \in Nat /\ down[c] \in Nat /\ Len(up[c]) \in Nat
      BY <1>1, ClientTypes
    <3>3. conn[c] # "closed" => owed[c] = Len(up[c]) + down[c]
      BY <1>1, <2>2 DEF ClientOK, Conserved
    <3>4. /\ down'[c] <= owed'[c]
          /\ conn[c] # "closed" => owed'[c] = Len(up[c]) + down'[c]
      BY <3>1, <3>2, <3>3
    <3>5. client'[c].pc # "off" /\ UNCHANGED <<conn, up>>
      BY <2>2, <2>4
    <3>6. Conserved(c)'
      BY <3>4, <3>5 DEF Conserved
    <3>7. Excused(c)'
      BY <1>1, <2>4, <3>1, <3>2 DEF ClientOK, Excused
    <3> QED BY <3>6, <3>7
  <2>7. TypedOnceRead(c)' /\ Released(c)'
    BY <1>1, <2>2, <2>4 DEF ClientOK, TypedOnceRead, Released
  <2>8. (\A k \in Clients : ClientOK(k))'
    BY <1>1, <2>1, <2>2, <2>3, <2>6, <2>7, TakeOk, OthersKept DEF ClientOK
  <2> QED BY <2>2, <2>5, <2>8 DEF ConsoleInv
<1> QED BY <1>2, <1>3

LEMMA ClientReadOk ==
  ASSUME ConsoleInv, NEW c \in Clients, ClientRead(c)
  PROVE  ConsoleInv'
<1>1. ConsoleTypeOK /\ ClientOK(c) /\ \A k \in Clients : ClientOK(k)
  BY DEF ConsoleInv
<1>2. client[c].pc = "read" /\ UNCHANGED <<queue, server>>
  BY DEF ClientRead
<1>3. typed[c] \in Lines /\ owed[c] \in Nat /\ down[c] \in Nat /\ Len(up[c]) \in Nat
      /\ client[c].wait_result \in BOOLEAN /\ slips[c] \in SUBSET {"ahead", "empty"}
  BY <1>1, <1>2, ClientTypes DEF ClientOK, TypedOnceRead
<1>4. CASE SendExit(c)
  <2>1. up' = Sent(c, "exit") /\ Ended(c) /\ "exit" \in Lines \ {"empty"}
    BY <1>4 DEF SendExit, Lines
  <2> QED BY <1>1, <1>2, <2>1, EndedOk, SentOk
<1>5. ASSUME NEW wait \in BOOLEAN, client' = Set(client, c, Loop(wait)),
             typed' = Set(typed, c, NULL), UNCHANGED <<conn, down>>,
             up' \in [Clients -> Seq(Lines \ {"empty"})],
             owed' \in [Clients -> Nat], slips' \in [Clients -> SUBSET {"ahead", "empty"}],
             \A other \in Clients \ {c} : /\ up'[other] = up[other]
                                          /\ owed'[other] = owed[other]
                                          /\ slips'[other] = slips[other],
             conn[c] = "closed" => up'[c] = up[c],
             owed'[c] \in {owed[c], owed[c] + 1},
             conn[c] # "closed" => Len(up'[c]) - Len(up[c]) = owed'[c] - owed[c],
             wait => owed'[c] > 0 \/ "empty" \in slips'[c],
             ~wait => owed'[c] = 0 \/ "ahead" \in slips'[c],
             "ahead" \notin slips'[c] => owed'[c] <= 1
      PROVE  ConsoleInv'
  <2>1. client'[c].pc = "select" /\ client'[c].wait_result = wait /\ typed'[c] = NULL
        /\ \A other \in Clients \ {c} :
             client'[other] = client[other] /\ typed'[other] = typed[other]
    BY <1>1, <1>5 DEF Set, Loop, ConsoleTypeOK
  <2>2. ConsoleTypeOK'
    BY <1>1, <1>2, <1>5 DEF ConsoleTypeOK, Set, Loop
  <2>3. Len(up'[c]) \in Nat
    BY <1>5, LenProperties
  <2>4. Conserved(c)'
    <3>1. /\ down[c] <= owed[c]
          /\ conn[c] # "closed" => owed[c] = Len(up[c]) + down[c]
      BY <1>1, <1>2 DEF ClientOK, Conserved
    <3>2. down[c] <= owed'[c]
      BY <1>3, <1>5, <3>1
    <3>3. ASSUME conn[c] # "closed" PROVE owed'[c] = Len(up'[c]) + down[c]
      <4> DEFINE lines == Len(up[c])
                 after == Len(up'[c])
      <4>1. lines \in Nat /\ after \in Nat /\ owed'[c] \in Nat
        BY <1>3, <1>5, <2>3
      <4>2. after - lines = owed'[c] - owed[c]
        BY <1>5, <3>3
      <4>3. owed[c] = lines + down[c]
        BY <3>1, <3>3
      <4> HIDE DEF lines, after
      <4>4. owed'[c] = after + down[c]
        BY <1>3, <4>1, <4>2, <4>3
      <4> QED BY <4>4 DEF after
    <3>4. UNCHANGED <<conn, down>> /\ client'[c].pc # "off"
      BY <1>5, <2>1
    <3> QED BY <3>2, <3>3, <3>4 DEF Conserved
  <2>5. Excused(c)'
    BY <1>5, <2>1 DEF Excused
  <2>6. TypedOnceRead(c)' /\ Released(c)'
    BY <1>1, <1>2, <1>5, <2>1 DEF ClientOK, TypedOnceRead, Released
  <2>7. (\A k \in Clients : ClientOK(k))'
    BY <1>1, <1>5, <2>1, <2>4, <2>5, <2>6, OthersKept DEF ClientOK
  <2> QED BY <1>2, <2>2, <2>7 DEF ConsoleInv
<1>6. CASE ~SendExit(c) /\ Send(c)
  <2>1. /\ up' = Sent(c, typed[c]) /\ typed[c] \in Lines \ {"empty"}
        /\ owed' = [owed EXCEPT ![c] = owed[c] + 1]
        /\ slips' = [slips EXCEPT ![c] =
                       slips[c] \cup (IF owed[c] > 0 THEN {"ahead"} ELSE {})]
    BY <1>3, <1>6 DEF Send, Set
  <2>2. /\ owed'[c] = owed[c] + 1 /\ owed' \in [Clients -> Nat]
        /\ slips'[c] = slips[c] \cup (IF owed[c] > 0 THEN {"ahead"} ELSE {})
        /\ slips' \in [Clients -> SUBSET {"ahead", "empty"}]
        /\ \A other \in Clients \ {c} :
             owed'[other] = owed[other] /\ slips'[other] = slips[other]
    BY <1>1, <1>3, <2>1 DEF ConsoleTypeOK
  <2>3. "ahead" \notin slips'[c] => owed'[c] <= 1
    BY <1>3, <2>2
  <2>4. /\ up' \in [Clients -> Seq(Lines \ {"empty"})]
        /\ \A other \in Clients \ {c} : up'[other] = up[other]
        /\ conn[c] = "closed" => up'[c] = up[c]
        /\ conn[c] # "closed" => Len(up'[c]) = Len(up[c]) + 1
    BY <1>1, <2>1, SentOk
  <2>5. PICK wait \in BOOLEAN :
          /\ client' = Set(client, c, Loop(wait)) /\ typed' = Set(typed, c, NULL)
          /\ UNCHANGED <<conn, down>> /\ (wait \/ owed' = owed)
    BY <1>3, <1>6 DEF ClientRead, SendFails
  <2>6. wait
    BY <1>3, <2>2, <2>5
  <2>7. owed'[c] > 0
    BY <1>3, <2>2
  <2>8. conn[c] # "closed" => Len(up'[c]) - Len(up[c]) = owed'[c] - owed[c]
    BY <1>3, <2>2, <2>4
  <2> QED BY <1>5, <2>2, <2>3, <2>4, <2>5, <2>6, <2>7, <2>8
<1>7. CASE ~SendExit(c) /\ ~Send(c)
  <2>1. typed' = Set(typed, c, NULL) /\ UNCHANGED <<conn, down, up, owed>>
    BY <1>7 DEF ClientRead, SendNothing, SendFails
  <2>2. up \in [Clients -> Seq(Lines \ {"empty"})] /\ owed \in [Clients -> Nat]
        /\ slips \in [Clients -> SUBSET {"ahead", "empty"}]
        /\ Len(up[c]) - Len(up[c]) = owed[c] - owed[c]
    BY <1>1, <1>3 DEF ConsoleTypeOK
  <2>3. CASE SendNothing(c) /\ client' = Set(client, c, Loop(TRUE))
    <3>1. slips' = [slips EXCEPT ![c] = slips[c] \cup {"empty"}]
      BY <2>3 DEF SendNothing, Set
    <3>2. /\ slips'[c] = slips[c] \cup {"empty"}
          /\ slips' \in [Clients -> SUBSET {"ahead", "empty"}]
          /\ \A other \in Clients \ {c} : slips'[other] = slips[other]
      BY <1>3, <2>2, <3>1
    <3>3. "ahead" \notin slips'[c] => owed[c] <= 1
      BY <1>1, <3>2 DEF ClientOK, Excused
    <3> QED BY <1>5, <2>1, <2>2, <2>3, <3>2, <3>3
  <2>4. CASE SendFails(c)
    <3>1. client' = Set(client, c, Loop(client[c].wait_result)) /\ slips' = slips
      BY <2>4 DEF SendFails
    <3>2. /\ client[c].wait_result => owed[c] > 0 \/ "empty" \in slips[c]
          /\ ~client[c].wait_result => owed[c] = 0 \/ "ahead" \in slips[c]
          /\ "ahead" \notin slips[c] => owed[c] <= 1
      BY <1>1 DEF ClientOK, Excused
    <3> QED BY <1>3, <1>5, <2>1, <2>2, <3>1, <3>2
  <2> QED BY <1>7, <2>3, <2>4 DEF ClientRead
<1> QED BY <1>4, <1>6, <1>7

LEMMA UserOk ==
  ASSUME ConsoleInv, NEW c \in Clients, NEW line \in Lines, Type(c, line) \/ Interrupt(c)
  PROVE  ConsoleInv'
<1>1. ConsoleTypeOK /\ ClientOK(c) /\ \A k \in Clients : ClientOK(k)
  BY DEF ConsoleInv
<1>2. CASE Type(c, line)
  <2>1. typed'[c] = line /\ UNCHANGED <<client, conn, queue, up, down, server, owed, slips>>
    BY <1>1, <1>2 DEF Type, Set, ConsoleTypeOK
  <2>2. ConsoleTypeOK'
    BY <1>1, <1>2 DEF ConsoleTypeOK, Type, Set
  <2>3. ClientOK(c)'
    <3>1. TypedOnceRead(c)'
      BY <2>1, LinesAssumption DEF TypedOnceRead
    <3> QED BY <1>1, <2>1, <3>1 DEF ClientOK, Conserved, Excused, Released
  <2>4. (\A k \in Clients : ClientOK(k))'
    BY <1>1, <1>2, <2>3, OthersKept DEF Type, Set, ConsoleTypeOK
  <2> QED BY <2>1, <2>2, <2>4 DEF ConsoleInv
<1>3. CASE Interrupt(c)
  BY <1>1, <1>3, EndedOk DEF ConsoleTypeOK, Interrupt
<1> QED BY <1>2, <1>3

-----------------------------------------------------------------------------
(* The server.                                                             *)

LEMMA ServerSelectOk ==
  ASSUME ConsoleInv, ServerSelect
  PROVE  ConsoleInv'
<1>1. ConsoleTypeOK /\ \A k \in Clients : ClientOK(k)
  BY DEF ConsoleInv
<1>2. Readable \subseteq Clients
  BY DEF Readable
<1>3. ConsoleTypeOK'
  BY <1>1, <1>2 DEF ConsoleTypeOK, ServerSelect, At
<1>4. server'.pc = "accept" => queue' # <<>>
  BY DEF ServerSelect, At
<1>5. (\A k \in Clients : ClientOK(k))'
  BY <1>1 DEF ServerSelect, ClientOK, Conserved, Excused, TypedOnceRead, Released
<1> QED BY <1>3, <1>4, <1>5 DEF ConsoleInv

LEMMA AcceptOk ==
  ASSUME ConsoleInv, Accept, conn[Head(queue)] = "queued"
  PROVE  ConsoleInv'
<1>1. ConsoleTypeOK /\ queue # <<>> /\ \A k \in Clients : ClientOK(k)
  BY DEF ConsoleInv, Accept
<1>2. Head(queue) \in Clients /\ Tail(queue) \in Seq(Clients)
  BY <1>1 DEF ConsoleTypeOK
<1>3. ConsoleTypeOK'
  BY <1>1, <1>2 DEF ConsoleTypeOK, Accept, At, Set
<1>4. server'.pc # "accept"
  BY DEF Accept, At
<1>5. ASSUME NEW k \in Clients PROVE ClientOK(k)'
  <2>1. /\ UNCHANGED <<client, typed, up, down, owed, slips>>
        /\ (conn'[k] = conn[k] \/ (conn[k] = "queued" /\ conn'[k] = "open"))
    BY <1>1 DEF Accept, Set, ConsoleTypeOK
  <2> QED BY <1>1, <2>1 DEF ClientOK, Conserved, Excused, TypedOnceRead, Released
<1> QED BY <1>3, <1>4, <1>5 DEF ConsoleInv

(* What processing a connection may do to it: nothing is left of the       *)
(* lines, or some of them are answered.                                    *)
LEMMA ServeCases ==
  ASSUME ConsoleTypeOK, NEW c \in Clients, Serve(c)
  PROVE  \/ Close(c) /\ (up[c] = <<>> \/ client[c].pc = "off"
                           \/ \E n \in 1..Len(up[c]) : ReadAsExit(SubSeq(up[c], 1, n)))
         \/ \E n \in 1..Len(up[c]) : ReadAsCommand(SubSeq(up[c], 1, n)) /\ AnswerLines(c, n)
BY DEF Serve, Process

LEMMA AnswerLinesOk ==
  ASSUME ConsoleTypeOK, NEW c \in Clients, NEW n \in 1..Len(up[c]), AnswerLines(c, n)
  PROVE  /\ up' \in [Clients -> Seq(Lines \ {"empty"})] /\ down' \in [Clients -> Nat]
         /\ conn' \in [Clients -> {"none", "queued", "open", "reset", "closed"}]
         /\ up'[c] = SubSeq(up[c], n + 1, Len(up[c]))
         /\ Len(up'[c]) = Len(up[c]) - n /\ n \in Nat \ {0}
         /\ client[c].pc = "off" => conn'[c] = "reset" /\ down'[c] = down[c]
         /\ client[c].pc # "off" => conn'[c] = conn[c] /\ down'[c] = down[c] + n
         /\ \A other \in Clients \ {c} : /\ up'[other] = up[other]
                                         /\ down'[other] = down[other]
                                         /\ conn'[other] = conn[other]
<1> DEFINE rest == SubSeq(up[c], n + 1, Len(up[c]))
<1>1. /\ rest \in Seq(Lines \ {"empty"}) /\ Len(rest) = Len(up[c]) - n
      /\ n \in Nat \ {0} /\ down[c] + n \in Nat
  <2>1. up[c] \in Seq(Lines \ {"empty"}) /\ Len(up[c]) \in Nat /\ down[c] \in Nat
    BY ClientTypes
  <2>2. rest \in Seq(Lines \ {"empty"}) /\ Len(rest) = Len(up[c]) - n
    BY <2>1, PartsOf
  <2> QED BY <2>1, <2>2
<1>2. up' = [up EXCEPT ![c] = rest]
  BY DEF AnswerLines, Set
<1> HIDE DEF rest
<1>3. /\ up' \in [Clients -> Seq(Lines \ {"empty"})] /\ up'[c] = rest
      /\ \A other \in Clients \ {c} : up'[other] = up[other]
  BY <1>1, <1>2 DEF ConsoleTypeOK
<1>4. CASE client[c].pc = "off"
  <2>1. conn' = [conn EXCEPT ![c] = "reset"] /\ down' = down
    BY <1>4 DEF AnswerLines, Set
  <2> QED BY <1>1, <1>3, <1>4, <2>1 DEF ConsoleTypeOK, rest
<1>5. CASE client[c].pc # "off"
  <2>1. down' = [down EXCEPT ![c] = down[c] + n] /\ conn' = conn
    BY <1>5 DEF AnswerLines, Answered, Set
  <2> QED BY <1>1, <1>3, <1>5, <2>1 DEF ConsoleTypeOK, rest
<1> QED BY <1>4, <1>5

LEMMA CloseOk ==
  ASSUME ConsoleTypeOK, NEW c \in Clients, Close(c)
  PROVE  /\ up' \in [Clients -> Seq(Lines \ {"empty"})] /\ UNCHANGED down
         /\ conn' \in [Clients -> {"none", "queued", "open", "reset", "closed"}]
         /\ up'[c] = <<>>
         /\ conn'[c] = IF client[c].pc = "off" THEN "none" ELSE "closed"
         /\ \A other \in Clients \ {c} : up'[other] = up[other] /\ conn'[other] = conn[other]
<1>1. <<>> \in Seq(Lines \ {"empty"})
  BY EmptySeq
<1>2. /\ up' = [up EXCEPT ![c] = <<>>] /\ UNCHANGED down
      /\ conn' = [conn EXCEPT ![c] = IF client[c].pc = "off" THEN "none" ELSE "closed"]
  BY DEF Close, Set
<1> QED BY <1>1, <1>2 DEF ConsoleTypeOK

LEMMA ServeOk ==
  ASSUME ConsoleInv, NEW c \in Clients, Serve(c)
  PROVE  ConsoleInv'
<1>1. ConsoleTypeOK /\ ClientOK(c) /\ \A k \in Clients : ClientOK(k)
  BY DEF ConsoleInv
<1>2. /\ server' = LET rest == server.read_fds \ {c}
                   IN  At(IF rest = {} THEN "select" ELSE "serve", rest)
      /\ UNCHANGED <<client, typed, queue, owed, slips>>
  BY DEF Serve, Served
<1>3. server'.pc \in {"select", "serve"} /\ server'.read_fds \subseteq Clients
  BY <1>1, <1>2 DEF At, ConsoleTypeOK
<1>4. owed[c] \in Nat /\ down[c] \in Nat /\ Len(up[c]) \in Nat
  BY <1>1, ClientTypes
<1>5. CASE Close(c)
  <2>1. ConsoleTypeOK'
    BY <1>1, <1>2, <1>3, <1>5, CloseOk DEF ConsoleTypeOK
  <2>2. ClientOK(c)'
    BY <1>1, <1>2, <1>5, CloseOk
       DEF ClientOK, Conserved, Excused, TypedOnceRead, Released
  <2>3. (\A k \in Clients : ClientOK(k))'
    BY <1>1, <1>2, <1>5, <2>2, CloseOk, OthersKept
  <2> QED BY <1>3, <2>1, <2>3 DEF ConsoleInv
<1>6. ASSUME NEW n \in 1..Len(up[c]), AnswerLines(c, n) PROVE ConsoleInv'
  <2>1. ConsoleTypeOK'
    BY <1>1, <1>2, <1>3, <1>6, AnswerLinesOk DEF ConsoleTypeOK
  <2>2. Conserved(c)'
    <3>1. /\ Len(up'[c]) = Len(up[c]) - n /\ n \in Nat \ {0} /\ n <= Len(up[c])
          /\ client[c].pc = "off" => conn'[c] = "reset" /\ down'[c] = down[c]
          /\ client[c].pc # "off" => conn'[c] = conn[c] /\ down'[c] = down[c] + n
      BY <1>1, <1>4, <1>6, AnswerLinesOk
    <3>2. conn[c] # "closed"
      BY <1>1, <1>4, <3>1, ClientTypes DEF ClientOK, Released
    <3> QED BY <1>1, <1>2, <1>4, <3>1, <3>2 DEF ClientOK, Conserved
  <2>3. Excused(c)' /\ TypedOnceRead(c)'
    BY <1>1, <1>2 DEF ClientOK, Excused, TypedOnceRead
  <2>4. Released(c)'
    <3>1. up[c] # <<>>
      BY <1>1, <1>4, <1>6, ClientTypes
    <3> QED BY <1>1, <1>2, <1>6, <3>1, AnswerLinesOk DEF ClientOK, Released
  <2>5. (\A k \in Clients : ClientOK(k))'
    BY <1>1, <1>2, <1>6, <2>2, <2>3, <2>4, AnswerLinesOk, OthersKept DEF ClientOK
  <2> QED BY <1>3, <2>1, <2>5 DEF ConsoleInv
<1> QED BY <1>1, <1>5, <1>6, ServeCases

LEMMA ServerEndsOk ==
  ASSUME ConsoleInv, ServerEnds
  PROVE  ConsoleInv'
<1>1. ConsoleTypeOK /\ \A k \in Clients : ClientOK(k)
  BY DEF ConsoleInv
<1>2. ConsoleTypeOK' /\ server'.pc = "exited"
  <2>1. <<>> \in Seq(Lines \ {"empty"}) /\ <<>> \in Seq(Clients)
    BY EmptySeq
  <2> QED BY <1>1, <2>1 DEF ConsoleTypeOK, ServerEnds, At
<1>3. ASSUME NEW k \in Clients PROVE ClientOK(k)'
  <2>1. /\ UNCHANGED <<client, typed, down, owed, slips>> /\ up'[k] = <<>>
        /\ conn'[k] = IF client[k].pc = "off" THEN "none" ELSE "closed"
    BY DEF ServerEnds
  <2> QED BY <1>1, <2>1 DEF ClientOK, Conserved, Excused, TypedOnceRead, Released
<1> QED BY <1>2, <1>3 DEF ConsoleInv

LEMMA ConsoleInitOk == Init => ConsoleInv
<1> SUFFICES ASSUME Init PROVE ConsoleInv
  OBVIOUS
<1>1. ConsoleTypeOK /\ server.pc = "select"
  <2>1. <<>> \in Seq(Lines \ {"empty"}) /\ <<>> \in Seq(Clients)
    BY EmptySeq
  <2> QED BY <2>1 DEF Init, ConsoleTypeOK, Off, At
<1>2. ASSUME NEW c \in Clients PROVE ClientOK(c)
  <2>1. client[c].pc = "off" /\ client[c].wait_result = FALSE
    BY DEF Init, Off
  <2> QED BY <2>1 DEF Init, ClientOK, Conserved, Excused, TypedOnceRead, Released
<1> QED BY <1>1, <1>2 DEF ConsoleInv

-----------------------------------------------------------------------------
(* What the liveness properties rest on: whoever waits, waits for a step   *)
(* that the select() of one of the two loops is going to report.           *)

Members(q) == {q[i] : i \in DOMAIN q}

Distinct(q) == \A i, j \in DOMAIN q : q[i] = q[j] => i = j

(* What the server's select() reports keeps until the server gets to it,   *)
(* and it closes the connection of nobody who is there, unless it ends or  *)
(* has taken several lines for one.                                        *)
Tracked(c) ==
  /\ conn[c] = "queued" <=> c \in Members(queue)
  /\ c \in server.read_fds => Watched(c) /\ (up[c] # <<>> \/ client[c].pc = "off")
  /\ \A i \in 1..Len(up[c]) : up[c][i] = "exit" => client[c].pc = "off"
  /\ conn[c] = "closed" => /\ client[c].pc # "off"
                           /\ \/ server.pc = "exited"
                              \/ "ahead" \in slips[c] /\ owed[c] > down[c]
  /\ server.pc = "exited" => conn[c] \in {"none", "closed"}

TrackInv == /\ ConsoleInv
            /\ Distinct(queue)
            /\ server.pc \in {"select", "exited"} => server.read_fds = {}
            /\ \A c \in Clients : Tracked(c)

(* While its connection is up, a client is owed the lines that are under   *)
(* way to the server and those whose answer is under way back: no line is  *)
(* lost or answered twice, whether recv() joins lines or not               *)
(* (experiment.c:177-230, 298-341).                                        *)
LinesAreConserved ==
  \A c \in Clients : client[c].pc # "off" /\ conn[c] # "closed" =>
    owed[c] = Len(up[c]) + down[c]

(* A client that waits for an answer waits for something its own select()  *)
(* reports, or for a line that the server's select() reports as soon as    *)
(* the connection is accepted, while the server is there to read it        *)
(* (experiment.c:109-199, 285-318).                                        *)
NobodyWaitsInVain ==
  \A c \in Clients : owed[c] > 0 =>
    \/ "socket" \in Ready(c)
    \/ server.pc # "exited" /\ up[c] # <<>> /\ (conn[c] = "open" \/ c \in Members(queue))

(* The end of the server hangs up on every client that is there.  Before,  *)
(* it hangs up on none, except on one that has sent a line ahead of an     *)
(* answer: several lines received as one may read "exit"                   *)
(* (experiment.c:128-142, 179-219).                                        *)
HangsUpAtTheEnd ==
  \A c \in Clients :
    /\ server.pc = "exited" /\ client[c].pc # "off" => conn[c] = "closed"
    /\ conn[c] = "closed" => client[c].pc # "off" /\ (server.pc = "exited" \/ "ahead" \in slips[c])

(* A connection that is neither released nor closed waits for accept() or  *)
(* is one the server's select() watches (experiment.c:109-121, 151-169).   *)
NobodyIsLost ==
  \A c \in Clients : conn[c] \in {"queued", "open", "reset"} =>
    server.pc # "exited" /\ (c \in Members(queue) <=> ~Watched(c))

LEMMA Appended ==
  ASSUME NEW q \in Seq(Clients), NEW c \in Clients
  PROVE  /\ Members(Append(q, c)) = Members(q) \cup {c}
         /\ Distinct(q) /\ c \notin Members(q) => Distinct(Append(q, c))
<1> DEFINE r == Append(q, c)
<1>1. /\ Len(q) \in Nat /\ DOMAIN q = 1..Len(q) /\ DOMAIN r = 1..(Len(q) + 1)
      /\ \A i \in 1..Len(q) : r[i] = q[i]
      /\ r[Len(q) + 1] = c
  OBVIOUS
<1> HIDE DEF r
<1>2. DOMAIN r = DOMAIN q \cup {Len(q) + 1} /\ Len(q) + 1 \notin DOMAIN q
  BY <1>1
<1>3. Members(r) = Members(q) \cup {c}
  BY <1>1, <1>2 DEF Members
<1>4. ASSUME Distinct(q), c \notin Members(q) PROVE Distinct(r)
  BY <1>1, <1>2, <1>4 DEF Members, Distinct
<1> QED BY <1>3, <1>4 DEF r

LEMMA Tailed ==
  ASSUME NEW q \in Seq(Clients), q # <<>>, Distinct(q)
  PROVE  Members(Tail(q)) = Members(q) \ {Head(q)} /\ Distinct(Tail(q))
<1> DEFINE r == Tail(q)
<1>1. /\ Len(q) \in Nat \ {0} /\ DOMAIN q = 1..Len(q) /\ DOMAIN r = 1..(Len(q) - 1)
      /\ \A i \in 1..(Len(q) - 1) : r[i] = q[i + 1]
      /\ Head(q) = q[1]
  OBVIOUS
<1> HIDE DEF r
<1>2. Distinct(r)
  BY <1>1 DEF Distinct
<1>3. ASSUME NEW i \in DOMAIN r PROVE r[i] \in Members(q) \ {q[1]}
  BY <1>1 DEF Members, Distinct
<1>4. ASSUME NEW i \in DOMAIN q, q[i] # q[1] PROVE q[i] \in Members(r)
  <2>1. i - 1 \in DOMAIN r /\ r[i - 1] = q[i]
    BY <1>1, <1>4
  <2> QED BY <2>1 DEF Members
<1>5. Members(r) = Members(q) \ {q[1]}
  BY <1>3, <1>4 DEF Members
<1> QED BY <1>1, <1>2, <1>5 DEF r

LEMMA ConsoleNextOk ==
  ASSUME TrackInv, [Next]_vars
  PROVE  ConsoleInv'
<1>1. ConsoleInv
  BY DEF TrackInv
<1>2. ASSUME Accept PROVE conn[Head(queue)] = "queued"
  <2>1. queue \in Seq(Clients) /\ queue # <<>>
    BY <1>1, <1>2 DEF ConsoleInv, ConsoleTypeOK, Accept
  <2>2. Head(queue) \in Members(queue) /\ Head(queue) \in Clients
    BY <2>1 DEF Members
  <2> QED BY <2>2 DEF TrackInv, Tracked
<1>3. CASE ServerLoop \/ ServerExit
  BY <1>1, <1>2, <1>3, ServerSelectOk, AcceptOk, ServeOk, ServerEndsOk DEF ServerLoop, ServerExit
<1>4. ASSUME NEW c \in Clients, \/ ServerKilled(c) \/ Connect(c) \/ ClientLoop(c) \/ Interrupt(c)
                                \/ \E line \in Lines : Type(c, line)
      PROVE  ConsoleInv'
  <2>1. "exit" \in Lines
    BY DEF Lines
  <2> QED BY <1>1, <1>4, <2>1, ConnectOk, ClientSelectOk, ClientRecvOk, ClientReadOk, UserOk,
             ServerEndsOk DEF ClientLoop, ServerKilled
<1>5. CASE UNCHANGED vars
  BY <1>1, <1>5
     DEF ConsoleInv, ConsoleTypeOK, vars, ClientOK, Conserved, Excused, TypedOnceRead, Released
<1> QED BY <1>3, <1>4, <1>5 DEF Next

(* A step of one client leaves what is known of the others alone.          *)
LEMMA OthersTracked ==
  ASSUME \A c \in Clients : Tracked(c), NEW c \in Clients, Tracked(c)',
         server'.pc = "exited" <=> server.pc = "exited",
         server'.read_fds \subseteq server.read_fds,
         \A other \in Clients \ {c} :
           /\ client'[other] = client[other] /\ conn'[other] = conn[other]
           /\ up'[other] = up[other] /\ down'[other] = down[other] /\ owed'[other] = owed[other]
           /\ slips'[other] = slips[other]
           /\ other \in Members(queue') <=> other \in Members(queue)
  PROVE  (\A k \in Clients : Tracked(k))'
BY DEF Tracked, Watched

LEMMA ConnectTracked ==
  ASSUME TrackInv, NEW c \in Clients, Connect(c)
  PROVE  (Distinct(queue) /\ \A k \in Clients : Tracked(k))'
<1>1. /\ ConsoleTypeOK /\ ClientOK(c) /\ Tracked(c) /\ Distinct(queue)
      /\ \A k \in Clients : Tracked(k)
  BY DEF TrackInv, ConsoleInv
<1>2. queue \in Seq(Clients) /\ c \notin Members(queue)
  BY <1>1 DEF ConsoleTypeOK, Tracked, Connect
<1>3. Members(queue') = Members(queue) \cup {c} /\ Distinct(queue')
  BY <1>1, <1>2, Appended DEF Connect
<1>4. /\ client'[c].pc = "select" /\ conn'[c] = "queued"
      /\ UNCHANGED <<up, down, server, owed, slips>>
      /\ server.pc # "exited" /\ conn[c] = "none"
  BY <1>1 DEF Connect, Set, Loop, ConsoleTypeOK
<1>5. up[c] = <<>> /\ Len(up[c]) = 0
  BY <1>1, <1>4, ClientTypes DEF ClientOK, Released
<1>6. Tracked(c)'
  BY <1>1, <1>3, <1>4, <1>5 DEF Tracked, Watched
<1>7. \A other \in Clients \ {c} :
        client'[other] = client[other] /\ conn'[other] = conn[other]
  BY <1>1 DEF Connect, Set, ConsoleTypeOK
<1>8. (\A k \in Clients : Tracked(k))'
  BY <1>1, <1>3, <1>4, <1>6, <1>7, OthersTracked
<1> QED BY <1>3, <1>8

LEMMA EndedTracked ==
  ASSUME TrackInv, NEW c \in Clients, client[c].pc # "off", Ended(c),
         UNCHANGED <<queue, server>>,
         \A other \in Clients \ {c} : up'[other] = up[other]
  PROVE  (Distinct(queue) /\ \A k \in Clients : Tracked(k))'
<1>1. ConsoleTypeOK /\ Distinct(queue) /\ ClientOK(c) /\ \A k \in Clients : Tracked(k)
  BY DEF TrackInv, ConsoleInv
<1>2. /\ client'[c].pc = "off"
      /\ conn'[c] = IF conn[c] = "closed" THEN "none" ELSE conn[c]
  BY <1>1 DEF Ended, Set, Off, ConsoleTypeOK
<1>3. Tracked(c)'
  BY <1>1, <1>2 DEF Tracked, Watched
<1>4. \A other \in Clients \ {c} :
        /\ client'[other] = client[other] /\ conn'[other] = conn[other]
        /\ down'[other] = down[other] /\ owed'[other] = owed[other]
        /\ slips'[other] = slips[other]
  BY <1>1 DEF Ended, Set, ConsoleTypeOK
<1>5. (\A k \in Clients : Tracked(k))'
  BY <1>1, <1>3, <1>4, OthersTracked
<1> QED BY <1>1, <1>5

LEMMA ClientTracked ==
  ASSUME TrackInv, NEW c \in Clients,
         ClientLoop(c) \/ Interrupt(c) \/ \E line \in Lines : Type(c, line)
  PROVE  (Distinct(queue) /\ \A k \in Clients : Tracked(k))'
<1>1. /\ ConsoleTypeOK /\ ClientOK(c) /\ Tracked(c) /\ Distinct(queue) /\ ConsoleInv
      /\ \A k \in Clients : Tracked(k)
      /\ down[c] \in Nat /\ owed[c] \in Nat
  BY ClientTypes DEF TrackInv, ConsoleInv
<1>2. CASE Interrupt(c)
  BY <1>2, EndedTracked DEF Interrupt
<1>3. CASE \E line \in Lines : Type(c, line)
  BY <1>1, <1>3 DEF Type, Tracked, Watched
<1>4. CASE ClientSelect(c)
  <2>1. client'[c].pc # "off" /\ client[c].pc # "off"
    BY <1>1, <1>4 DEF ClientSelect, Set, ConsoleTypeOK
  <2>2. Tracked(c)'
    BY <1>1, <1>4, <2>1 DEF ClientSelect, Tracked, Watched
  <2>3. /\ UNCHANGED <<typed, conn, queue, up, down, server, owed, slips>>
        /\ \A other \in Clients \ {c} : client'[other] = client[other]
    BY <1>1, <1>4 DEF ClientSelect, Set, ConsoleTypeOK
  <2>4. (\A k \in Clients : Tracked(k))'
    BY <1>1, <2>2, <2>3, OthersTracked
  <2> QED BY <1>1, <2>3, <2>4
<1>5. CASE ClientRecv(c) /\ Ended(c)
  BY <1>1, <1>5, EndedTracked DEF ClientRecv
<1>6. CASE ClientRecv(c) /\ ~Ended(c)
  <2>1. /\ client[c].pc = "recv" /\ UNCHANGED <<conn, typed, queue, up, server>>
        /\ client' = Set(client, c, Received(c, FALSE))
    BY <1>6 DEF ClientRecv
  <2>2. PICK n \in 1..down[c] : Take(c, n)
    BY <1>6 DEF ClientRecv
  <2>3. /\ n \in Nat \ {0} /\ n <= down[c] /\ owed'[c] = owed[c] - n /\ down'[c] = down[c] - n
        /\ slips'[c] = IF owed[c] = n THEN {} ELSE slips[c]
    BY <1>1, <2>2, TakeOk
  <2>4. client'[c].pc # "off"
    <3>1. client'[c] = Received(c, FALSE)
      BY <1>1, <2>1 DEF Set, ConsoleTypeOK
    <3> QED BY <1>1, <3>1, ReceivedFields
  <2>5. Tracked(c)'
    <3>1. owed[c] > down[c] => owed[c] # n /\ owed'[c] > down'[c]
      BY <1>1, <2>3
    <3>2. owed[c] > down[c] /\ "ahead" \in slips[c] => "ahead" \in slips'[c]
      BY <2>3, <3>1
    <3>3. \A i \in 1..Len(up'[c]) : up'[c][i] # "exit"
      BY <1>1, <2>1 DEF Tracked
    <3> QED BY <1>1, <2>1, <2>4, <3>1, <3>2, <3>3 DEF Tracked, Watched
  <2>6. \A other \in Clients \ {c} :
          /\ client'[other] = client[other] /\ slips'[other] = slips[other]
          /\ down'[other] = down[other] /\ owed'[other] = owed[other]
    BY <1>1, <2>1, <2>2, TakeOk DEF Set, ConsoleTypeOK
  <2>7. (\A k \in Clients : Tracked(k))'
    BY <1>1, <2>1, <2>5, <2>6, OthersTracked
  <2> QED BY <1>1, <2>1, <2>7
<1>7. CASE ClientRead(c) /\ SendExit(c)
  <2>1. /\ Ended(c) /\ up' = Sent(c, "exit") /\ "exit" \in Lines \ {"empty"}
        /\ client[c].pc = "read" /\ UNCHANGED <<queue, server>>
    BY <1>7 DEF ClientRead, SendExit, Lines
  <2> QED BY <1>1, <2>1, SentOk, EndedTracked
<1>8. CASE ClientRead(c) /\ ~SendExit(c)
  <2>1. /\ client[c].pc = "read" /\ UNCHANGED <<queue, server, conn, down>>
        /\ typed[c] # "exit" /\ typed[c] \in Lines
    BY <1>1, <1>8, ClientTypes DEF ClientRead, SendExit, ClientOK, TypedOnceRead
  <2>2. PICK wait : client' = Set(client, c, Loop(wait))
    BY <1>8 DEF ClientRead, SendFails
  <2>3. client'[c].pc # "off" /\ \A other \in Clients \ {c} : client'[other] = client[other]
    BY <1>1, <2>2 DEF Set, Loop, ConsoleTypeOK
  <2>4. CASE Send(c)
    <3>1. /\ up' = Sent(c, typed[c]) /\ typed[c] \in Lines \ {"empty"}
          /\ owed' = [owed EXCEPT ![c] = owed[c] + 1]
          /\ slips' = [slips EXCEPT ![c] =
                         slips[c] \cup (IF owed[c] > 0 THEN {"ahead"} ELSE {})]
      BY <2>1, <2>4 DEF Send, Set
    <3>2. /\ owed'[c] = owed[c] + 1 /\ slips[c] \subseteq slips'[c]
          /\ \A other \in Clients \ {c} :
               owed'[other] = owed[other] /\ slips'[other] = slips[other]
      BY <1>1, <3>1 DEF ConsoleTypeOK
    <3>3. /\ \A other \in Clients \ {c} : up'[other] = up[other]
          /\ c \in server.read_fds => up'[c] # <<>>
      BY <1>1, <2>1, <3>1, SentOk DEF Tracked
    <3>4. \A i \in 1..Len(up'[c]) : up'[c][i] # "exit"
      <4>1. up[c] \in Seq(Lines \ {"empty"}) /\ \A i \in 1..Len(up[c]) : up[c][i] # "exit"
        BY <1>1, <2>1, ClientTypes DEF Tracked
      <4>2. CASE conn[c] = "closed"
        BY <1>1, <3>1, <4>1, <4>2, SentOk
      <4>3. CASE conn[c] # "closed"
        <5>1. up'[c] = Append(up[c], typed[c])
          BY <1>1, <3>1, <4>3, SentOk
        <5>2. /\ Len(up[c]) \in Nat /\ Len(up'[c]) = Len(up[c]) + 1
              /\ \A i \in 1..Len(up[c]) : up'[c][i] = up[c][i]
              /\ up'[c][Len(up[c]) + 1] = typed[c]
          BY <3>1, <4>1, <5>1, AppendProperties, LenProperties
        <5> QED BY <2>1, <4>1, <5>2
      <4> QED BY <4>2, <4>3
    <3>5. Tracked(c)'
      BY <1>1, <2>1, <2>3, <3>2, <3>3, <3>4 DEF Tracked, Watched
    <3>6. (\A k \in Clients : Tracked(k))'
      BY <1>1, <2>1, <2>3, <3>2, <3>3, <3>5, OthersTracked
    <3> QED BY <1>1, <2>1, <3>6
  <2>5. CASE ~Send(c)
    <3>1. UNCHANGED <<up, owed>>
          /\ slips' \in {slips, [slips EXCEPT ![c] = slips[c] \cup {"empty"}]}
      BY <1>8, <2>5 DEF ClientRead, SendNothing, SendFails, Set
    <3>2. slips[c] \subseteq slips'[c] /\ \A other \in Clients \ {c} : slips'[other] = slips[other]
      BY <1>1, <3>1 DEF ConsoleTypeOK
    <3>3. Tracked(c)'
      BY <1>1, <2>1, <2>3, <3>1, <3>2 DEF Tracked, Watched
    <3>4. (\A k \in Clients : Tracked(k))'
      BY <1>1, <2>1, <2>3, <3>1, <3>2, <3>3, OthersTracked
    <3> QED BY <1>1, <2>1, <3>4
  <2> QED BY <2>4, <2>5
<1> QED BY <1>2, <1>3, <1>4, <1>5, <1>6, <1>7, <1>8 DEF ClientLoop

(* A client that is there is hung up on only when its lines were joined.   *)
LEMMA JoinedLines ==
  ASSUME ConsoleInv, NEW c \in Clients, Tracked(c), conn[c] = "open", client[c].pc # "off",
         NEW n \in 1..Len(up[c]), ReadAsExit(SubSeq(up[c], 1, n))
  PROVE  "ahead" \in slips[c] /\ owed[c] > down[c]
<1>1. /\ ConsoleTypeOK /\ ClientOK(c) /\ up[c] \in Seq(Lines \ {"empty"})
      /\ Len(up[c]) \in Nat /\ owed[c] \in Nat /\ down[c] \in Nat
  BY ClientTypes DEF ConsoleInv
<1> DEFINE lines == SubSeq(up[c], 1, n)
<1>2. Len(lines) = n /\ \A i \in 1..n : lines[i] = up[c][i]
  BY <1>1, PartsOf
<1> HIDE DEF lines
<1>3. lines # <<"exit">>
  <2>1. up[c][1] # "exit" /\ 1 \in 1..n
    BY <1>1 DEF Tracked
  <2> QED BY <1>2, <2>1
<1>4. n > 1
  BY <1>2, <1>3 DEF ReadAsExit, lines
<1>5. owed[c] = Len(up[c]) + down[c]
  BY <1>1 DEF ClientOK, Conserved
<1>6. owed[c] > 1 /\ owed[c] > down[c]
  BY <1>1, <1>4, <1>5
<1> QED BY <1>1, <1>6 DEF ClientOK, Excused

LEMMA ServeTracked ==
  ASSUME TrackInv, NEW c \in Clients, Serve(c)
  PROVE  (/\ Distinct(queue) /\ (server.pc \in {"select", "exited"} => server.read_fds = {})
          /\ \A k \in Clients : Tracked(k))'
<1>1. /\ ConsoleInv /\ ConsoleTypeOK /\ Distinct(queue) /\ ClientOK(c) /\ Tracked(c)
      /\ \A k \in Clients : Tracked(k)
  BY DEF TrackInv, ConsoleInv
<1>2. /\ server.pc = "serve" /\ c \in server.read_fds
      /\ server'.read_fds = server.read_fds \ {c}
      /\ server'.pc = IF server.read_fds \ {c} = {} THEN "select" ELSE "serve"
      /\ UNCHANGED <<client, typed, queue, owed, slips>>
  BY DEF Serve, Serving, Served, At
<1>3. /\ Watched(c) /\ (up[c] # <<>> \/ client[c].pc = "off")
      /\ client[c].pc # "off" => conn[c] = "open"
      /\ conn[c] # "queued" /\ c \notin Members(queue)
  BY <1>1, <1>2 DEF Tracked, Watched, ClientOK, Released
<1>4. CASE Close(c) /\ (up[c] = <<>> \/ client[c].pc = "off"
                          \/ \E n \in 1..Len(up[c]) : ReadAsExit(SubSeq(up[c], 1, n)))
  <2>1. /\ up'[c] = <<>> /\ UNCHANGED down
        /\ conn'[c] = IF client[c].pc = "off" THEN "none" ELSE "closed"
        /\ \A other \in Clients \ {c} : up'[other] = up[other] /\ conn'[other] = conn[other]
    BY <1>1, <1>4, CloseOk
  <2>2. client[c].pc # "off" => "ahead" \in slips[c] /\ owed[c] > down[c]
    BY <1>1, <1>3, <1>4, JoinedLines
  <2>3. Len(up'[c]) = 0
    BY <2>1, EmptySeq
  <2>4. Tracked(c)'
    BY <1>2, <1>3, <2>1, <2>2, <2>3 DEF Tracked, Watched
  <2>5. (\A k \in Clients : Tracked(k))'
    BY <1>1, <1>2, <2>1, <2>4, OthersTracked
  <2> QED BY <1>1, <1>2, <2>5
<1>5. ASSUME NEW n \in 1..Len(up[c]), AnswerLines(c, n)
      PROVE  (/\ Distinct(queue) /\ (server.pc \in {"select", "exited"} => server.read_fds = {})
              /\ \A k \in Clients : Tracked(k))'
  <2>1. /\ up[c] \in Seq(Lines \ {"empty"}) /\ Len(up[c]) \in Nat
        /\ up'[c] = SubSeq(up[c], n + 1, Len(up[c])) /\ Len(up'[c]) = Len(up[c]) - n
        /\ \A i \in 1..(Len(up[c]) - n) : up'[c][i] = up[c][n + i]
    <3>1. /\ up[c] \in Seq(Lines \ {"empty"}) /\ Len(up[c]) \in Nat
          /\ up'[c] = SubSeq(up[c], n + 1, Len(up[c])) /\ Len(up'[c]) = Len(up[c]) - n
      BY <1>1, <1>5, AnswerLinesOk, ClientTypes
    <3>2. \A i \in 1..(Len(up[c]) - n) : SubSeq(up[c], n + 1, Len(up[c]))[i] = up[c][n + i]
      BY <3>1, PartsOf
    <3> QED BY <3>1, <3>2
  <2>2. \A i \in 1..Len(up'[c]) : up'[c][i] = "exit" => client[c].pc = "off"
    <3>1. \A i \in 1..(Len(up[c]) - n) : n + i \in 1..Len(up[c])
      BY <2>1
    <3> QED BY <1>1, <2>1, <3>1 DEF Tracked
  <2>3. /\ client[c].pc = "off" => conn'[c] = "reset"
        /\ client[c].pc # "off" => conn'[c] = "open"
        /\ \A other \in Clients \ {c} : /\ up'[other] = up[other]
                                        /\ down'[other] = down[other]
                                        /\ conn'[other] = conn[other]
    BY <1>1, <1>3, <1>5, AnswerLinesOk
  <2>4. Tracked(c)'
    BY <1>2, <1>3, <2>2, <2>3 DEF Tracked, Watched
  <2>5. (\A k \in Clients : Tracked(k))'
    BY <1>1, <1>2, <2>3, <2>4, OthersTracked
  <2> QED BY <1>1, <1>2, <2>5
<1> QED BY <1>1, <1>4, <1>5, ServeCases

LEMMA EndsTracked ==
  ASSUME TrackInv, ServerEnds
  PROVE  (/\ Distinct(queue) /\ (server.pc \in {"select", "exited"} => server.read_fds = {})
          /\ \A k \in Clients : Tracked(k))'
<1>1. /\ server'.pc = "exited" /\ server'.read_fds = {} /\ queue' = <<>>
      /\ UNCHANGED <<client, typed, down, owed, slips>>
  BY DEF ServerEnds, At
<1>2. Members(queue') = {} /\ Distinct(queue')
  BY <1>1 DEF Members, Distinct
<1>3. ASSUME NEW k \in Clients PROVE Tracked(k)'
  <2>1. up'[k] = <<>> /\ conn'[k] = IF client[k].pc = "off" THEN "none" ELSE "closed"
    BY DEF ServerEnds
  <2>2. Len(up'[k]) = 0
    BY <2>1, EmptySeq
  <2> QED BY <1>1, <1>2, <2>1, <2>2 DEF Tracked
<1> QED BY <1>1, <1>2, <1>3

LEMMA ServerTracked ==
  ASSUME TrackInv, ServerLoop \/ ServerExit
  PROVE  (/\ Distinct(queue) /\ (server.pc \in {"select", "exited"} => server.read_fds = {})
          /\ \A k \in Clients : Tracked(k))'
<1>1. /\ ConsoleTypeOK /\ Distinct(queue)
      /\ server.pc \in {"select", "exited"} => server.read_fds = {}
      /\ \A k \in Clients : Tracked(k) /\ ClientOK(k)
  BY DEF TrackInv, ConsoleInv
<1>2. CASE ServerSelect
  <2>1. /\ server'.pc \notin {"select", "exited"} /\ server.pc # "exited"
        /\ server'.read_fds = Readable
        /\ UNCHANGED <<client, typed, conn, queue, up, down, owed, slips>>
    BY <1>2 DEF ServerSelect, At
  <2>2. ASSUME NEW k \in Clients PROVE Tracked(k)'
    BY <1>1, <2>1 DEF Tracked, Readable, Watched
  <2> QED BY <1>1, <2>1, <2>2
<1>3. CASE Accept
  <2>1. queue # <<>> /\ queue \in Seq(Clients)
    BY <1>3 DEF TrackInv, ConsoleInv, ConsoleTypeOK, Accept
  <2> PICK c \in Clients : c = Head(queue)
    BY <2>1
  <2>2. c \in Members(queue)
    BY <2>1 DEF Members
  <2>3. Members(queue') = Members(queue) \ {c} /\ Distinct(queue')
    BY <1>1, <1>3, <2>1, Tailed DEF Accept
  <2>4. /\ conn' = Set(conn, c, "open") /\ server.pc = "accept"
        /\ server'.read_fds = server.read_fds
        /\ server'.pc = IF server.read_fds = {} THEN "select" ELSE "serve"
        /\ UNCHANGED <<client, typed, up, down, owed, slips>>
    BY <1>3 DEF Accept, At
  <2>5. conn'[c] = "open" /\ \A k \in Clients \ {c} : conn'[k] = conn[k]
    BY <1>1, <2>2, <2>4 DEF Set, ConsoleTypeOK
  <2>6. Tracked(c) /\ conn[c] = "queued" /\ c \notin server.read_fds
    BY <1>1, <2>2 DEF Tracked, Watched
  <2>7. Tracked(c)'
    <3>1. c \notin Members(queue') /\ c \notin server'.read_fds /\ server'.pc # "exited"
      BY <2>3, <2>4, <2>6
    <3> QED BY <2>4, <2>5, <2>6, <3>1 DEF Tracked
  <2>8. (\A k \in Clients : Tracked(k))'
    <3>1. server.pc # "exited" /\ server'.pc # "exited"
      BY <2>4
    <3> QED BY <1>1, <2>2, <2>3, <2>4, <2>5, <2>7, <3>1, OthersTracked
  <2> QED BY <2>3, <2>4, <2>8
<1> QED BY <1>2, <1>3, ServeTracked, EndsTracked DEF ServerLoop, ServerExit

LEMMA TrackNextOk ==
  ASSUME TrackInv, [Next]_vars
  PROVE  TrackInv'
<1>1. ConsoleInv'
  BY ConsoleNextOk
<1>2. CASE ServerLoop \/ ServerExit
  BY <1>1, <1>2, ServerTracked DEF TrackInv
<1>3. ASSUME NEW c \in Clients, ServerKilled(c)
      PROVE  TrackInv'
  BY <1>1, <1>3, EndsTracked DEF TrackInv, ServerKilled
<1>4. ASSUME NEW c \in Clients, \/ Connect(c) \/ ClientLoop(c) \/ Interrupt(c)
                                \/ \E line \in Lines : Type(c, line)
      PROVE  TrackInv'
  <2>1. UNCHANGED server
    BY <1>4 DEF Connect, ClientLoop, ClientSelect, ClientRecv, ClientRead, Interrupt, Type
  <2> QED BY <1>1, <1>4, <2>1, ConnectTracked, ClientTracked DEF TrackInv
<1>5. CASE UNCHANGED vars
  BY <1>1, <1>5 DEF TrackInv, Tracked, Watched, vars
<1> QED BY <1>2, <1>3, <1>4, <1>5 DEF Next

(* The inductive invariant of both programs: what is reported to the       *)
(* server keeps until it is served, and no line is forgotten               *)
(* (experiment.c:109-219).                                                 *)
THEOREM EveryoneIsTracked == Spec => []TrackInv
<1>1. Init => TrackInv
  <2> SUFFICES ASSUME Init PROVE TrackInv
    OBVIOUS
  <2>1. ConsoleInv
    BY ConsoleInitOk
  <2>2. Members(queue) = {} /\ Distinct(queue)
    BY DEF Init, Members, Distinct
  <2>3. server.pc = "select" /\ server.read_fds = {}
    BY DEF Init, At
  <2>4. ASSUME NEW c \in Clients PROVE Tracked(c)
    <3>1. up[c] = <<>> /\ conn[c] = "none" /\ Len(up[c]) = 0
      BY EmptySeq DEF Init
    <3> QED BY <2>2, <2>3, <3>1 DEF Tracked
  <2> QED BY <2>1, <2>2, <2>3, <2>4 DEF TrackInv
<1>2. TrackInv /\ [Next]_vars => TrackInv'
  BY TrackNextOk
<1> QED BY <1>1, <1>2, PTL DEF Spec

(* Every variable of the two programs has its type.                        *)
THEOREM ConsoleTypes == Spec => []ConsoleTypeOK
<1>1. TrackInv => ConsoleTypeOK
  BY DEF TrackInv, ConsoleInv
<1> QED BY <1>1, EveryoneIsTracked, PTL

(* A client shows its prompt while something is owed only when its user    *)
(* has typed ahead, and waits with nothing owed only after an empty line,  *)
(* for any number of clients and of lines typed ahead                      *)
(* (experiment.c:286-288, 300, 320-341).                                   *)
THEOREM PromptIsTrue == Spec => []PromptMeansAnswered
<1>1. TrackInv => PromptMeansAnswered
  BY DEF TrackInv, ConsoleInv, ClientOK, Excused, PromptMeansAnswered
<1> QED BY <1>1, EveryoneIsTracked, PTL

(* No line of a connection that is up is lost, and none is answered twice  *)
(* (experiment.c:177-230, 298-341).                                        *)
THEOREM NoLineIsLost == Spec => []LinesAreConserved
<1>1. TrackInv => LinesAreConserved
  BY DEF TrackInv, ConsoleInv, ClientOK, Conserved, LinesAreConserved
<1> QED BY <1>1, EveryoneIsTracked, PTL

(* No console waits for an answer that nobody is going to give             *)
(* (experiment.c:109-199, 285-318).                                        *)
THEOREM AnswersAreOnTheirWay == Spec => []NobodyWaitsInVain
<1>1. TrackInv => NobodyWaitsInVain
  <2> SUFFICES ASSUME TrackInv, NEW c \in Clients, owed[c] > 0
               PROVE  \/ "socket" \in Ready(c)
                      \/ /\ server.pc # "exited" /\ up[c] # <<>>
                         /\ conn[c] = "open" \/ c \in Members(queue)
    BY DEF NobodyWaitsInVain
  <2>1. Tracked(c) /\ ClientOK(c) /\ ConsoleTypeOK
    BY DEF TrackInv, ConsoleInv
  <2>2. /\ owed[c] \in Nat /\ down[c] \in Nat /\ Len(up[c]) \in Nat
        /\ up[c] = <<>> <=> Len(up[c]) = 0
        /\ conn[c] \in {"none", "queued", "open", "reset", "closed"}
    BY <2>1, ClientTypes
  <2>3. CASE down[c] > 0 \/ conn[c] = "closed"
    BY <2>3 DEF Ready
  <2>4. CASE ~(down[c] > 0) /\ conn[c] # "closed"
    <3>1. client[c].pc # "off"
      BY <2>1, <2>2 DEF ClientOK, Conserved
    <3>2. owed[c] = Len(up[c]) + down[c]
      BY <2>1, <2>4, <3>1 DEF ClientOK, Conserved
    <3>3. up[c] # <<>>
      BY <2>2, <2>4, <3>2
    <3>4. conn[c] \in {"queued", "open"}
      BY <2>1, <2>2, <2>4, <3>1 DEF ClientOK, Released
    <3> QED BY <2>1, <3>3, <3>4 DEF Tracked
  <2> QED BY <2>3, <2>4
<1> QED BY <1>1, EveryoneIsTracked, PTL

(* A live client's connection is closed by the end of the server, or after *)
(* a line sent ahead of an answer, and by nothing else                     *)
(* (experiment.c:128-142, 179-219).                                        *)
THEOREM OnlyTheEndHangsUp == Spec => []HangsUpAtTheEnd
<1>1. TrackInv => HangsUpAtTheEnd
  BY DEF TrackInv, ConsoleInv, Tracked, ClientOK, Released, HangsUpAtTheEnd
<1> QED BY <1>1, EveryoneIsTracked, PTL

(* The server has every connection there is in one of two places, waiting  *)
(* or watched, and never in both (experiment.c:109-121, 151-169).          *)
THEOREM EveryConnectionIsKnown == Spec => []NobodyIsLost
<1>1. TrackInv => NobodyIsLost
  BY DEF TrackInv, Tracked, Watched, NobodyIsLost
<1> QED BY <1>1, EveryoneIsTracked, PTL
=============================================================================
