---------------------------- MODULE ServerProofs ----------------------------
(***************************************************************************)
(* Proofs about Server, for any number of connections: what is shown of    *)
(* the databases holds in the whole, and the whole implements Service.     *)
(***************************************************************************)
EXTENDS Server, DatabaseProofs

-----------------------------------------------------------------------------
(* The invariant: whose request exec_json works on.                        *)

Replies == {Nothing} \cup
  [error : {-2, -1, 0, 1, 3, 4, 6, 7}, value : Values \cup {Nothing}]

ConnTypes ==
  /\ conn \in [Conns -> {"closed", "open"}]
  /\ inbox \in [Conns -> Requests \cup {Nothing}]
  /\ outbox \in [Conns -> Replies]
  /\ serving \in Conns \cup {Nothing}

\* exec_json runs for one connection, which has no reply to send meanwhile.
ServingTies ==
  /\ serving = Nothing <=> pc = "idle"
  /\ serving \in Conns => outbox[serving] = Nothing

SInv == IInv /\ ConnTypes /\ ServingTies

ExecStep ==
  Find \/ open \/ Bootstrap \/ CreateFamily \/ CloseBootstrap \/ OpenAll \/ exec_op

\* Each step of the whole is one of the databases, or leaves them as they are.
LEMMA DatabaseStep ==
  ASSUME ConnTypes, ServerNext
  PROVE  [Next]_vars
<1>1. CASE Work
  BY <1>1 DEF Work, Next
<1>2. CASE EndOfProcess \/ StartAgain
  BY <1>2 DEF EndOfProcess, StartAgain, Next
<1>3. ASSUME NEW c \in Conns, Execute(c)
      PROVE  Next
  <2>1. inbox[c] \in Requests
    BY <1>3 DEF Execute, ConnTypes
  <2> QED
    BY <1>3, <2>1 DEF Execute, Next
<1>4. ASSUME NEW c \in Conns, Connect(c) \/ Send(c) \/ Answer(c) \/ Drop(c)
      PROVE  UNCHANGED vars
  BY <1>4 DEF Connect, Send, Answer, Drop
<1> QED
  BY <1>1, <1>2, <1>3, <1>4 DEF ServerNext

\* All of it is reset with the process.
LEMMA DisconnectedTies ==
  ASSUME Disconnected, pc' = "idle"
  PROVE  ConnTypes' /\ ServingTies'
BY ServerAssumption DEF Disconnected, NoMail, ConnTypes, ServingTies, Replies

\* Nothing is served once the program has ended.
LEMMA EndIsIdle ==
  ASSUME SignalHandler \/ Crash \/ Die
  PROVE  pc' = "idle"
BY DEF SignalHandler, Crash, Die

\* Every step keeps the connections and what is served together.
LEMMA ServerTies ==
  ASSUME SInv, IInv', ServerNext
  PROVE  ConnTypes' /\ ServingTies'
<1>1. ASSUME NEW c \in Conns, Connect(c) \/ Send(c) \/ Answer(c) \/ Drop(c)
      PROVE  ConnTypes' /\ ServingTies'
  <2>1. pc' = pc /\ serving' = serving
    BY <1>1 DEF Connect, Send, Answer, Drop, vars, callVars
  <2>2. ConnTypes'
    BY <1>1, ServerAssumption
       DEF SInv, ConnTypes, Connect, Send, Answer, Drop, Replies
  <2>3. serving \in Conns => outbox'[serving] = Nothing
    BY <1>1 DEF SInv, ConnTypes, ServingTies, Connect, Send, Answer, Drop
  <2> QED
    BY <2>1, <2>2, <2>3 DEF SInv, ServingTies
<1>2. ASSUME NEW c \in Conns, Execute(c)
      PROVE  ConnTypes' /\ ServingTies'
  BY <1>2, ServerAssumption DEF SInv, ConnTypes, ServingTies, Execute, Receive
<1>3. CASE Work
  <2>1. CASE proc' = "crashed" /\ Disconnected
    <3>1. pc' = "idle"
      BY <2>1 DEF IInv, EndedClean, Running
    <3> QED
      BY <2>1, <3>1, DisconnectedTies
  <2>2. CASE req' # Nothing /\ UNCHANGED connVars
    <3>1. pc # "idle"
      BY <1>3 DEF Work, Find, open, Bootstrap, CreateFamily, CloseBootstrap, OpenAll, exec_op
    <3>2. pc' # "idle"
      BY <2>2 DEF IInv, TypeOK
    <3> QED
      BY <2>2, <3>1, <3>2 DEF SInv, ConnTypes, ServingTies, connVars
  <2>3. CASE req' = Nothing /\ Reply(serving)
    <3>1. pc # "idle"
      BY <1>3 DEF Work, Find, open, Bootstrap, CreateFamily, CloseBootstrap, OpenAll, exec_op
    <3>2. serving \in Conns
      BY <3>1 DEF SInv, ConnTypes, ServingTies
    <3>3. pc' = "idle" /\ reply' \in Replies
      BY <2>3 DEF IInv, TypeOK, Replies
    <3>4. ConnTypes'
      BY <2>3, <3>2, <3>3 DEF Reply, SInv, ConnTypes
    <3> QED
      BY <2>3, <3>3, <3>4, ServerAssumption DEF Reply, ServingTies
  <2> QED
    BY <1>3, <2>1, <2>2, <2>3 DEF Work
<1>4. CASE EndOfProcess
  BY <1>4, EndIsIdle, DisconnectedTies DEF EndOfProcess
<1>5. CASE StartAgain
  BY <1>5 DEF StartAgain, Restart, SInv, ConnTypes, ServingTies, connVars
<1> QED
  BY <1>1, <1>2, <1>3, <1>4, <1>5 DEF ServerNext

\* SInv holds in every state that is reached.
LEMMA ServerInvariant == ServerSpec => []SInv
<1>1. ServerInit => SInv
  <2> SUFFICES ASSUME ServerInit
               PROVE  SInv
    OBVIOUS
  <2>1. IInv
    BY InitIInv DEF ServerInit
  <2> QED
    BY <2>1, ServerAssumption DEF ServerInit, Init, SInv, ConnTypes, ServingTies, NoMail, Replies
<1>2. ASSUME SInv, [ServerNext]_serverVars
      PROVE  SInv'
  <2>1. CASE UNCHANGED serverVars
    <3>1. IInv'
      BY <1>2, <2>1, NextIInv DEF serverVars, SInv
    <3>2. ConnTypes' /\ ServingTies'
      BY <1>2, <2>1 DEF serverVars, connVars, vars, callVars, SInv, ConnTypes, ServingTies
    <3> QED
      BY <3>1, <3>2 DEF SInv
  <2>2. CASE ServerNext
    <3>1. IInv'
      BY <1>2, <2>2, DatabaseStep, NextIInv DEF SInv
    <3> QED
      BY <1>2, <2>2, <3>1, ServerTies DEF SInv
  <2> QED
    BY <1>2, <2>1, <2>2
<1> QED
  BY <1>1, <1>2, PTL DEF ServerSpec

\* The databases of the whole behave as Database allows, so that every theorem
\* about Spec is one about the whole.
LEMMA WholeIsDatabase == ServerSpec => Spec
<1>1. ServerInit => Init
  BY DEF ServerInit
<1>2. SInv /\ [ServerNext]_serverVars => [Next]_vars
  BY DatabaseStep DEF SInv, serverVars
<1> QED
  BY <1>1, <1>2, ServerInvariant, PTL DEF ServerSpec, Spec

\* However many connections there are: open() does not fail and the assertion
\* after CreateColumnFamily does not, where the config file is KeptConfig
\* (server.cc:54-107).
THEOREM WholeOpens ==
  ASSUME KeptConfig
  PROVE  ServerSpec => []OpensUnlessKilled /\ AssertionHolds
<1>1. NamedOnce
  BY DEF KeptConfig
<1>2. Spec => []OpensUnlessKilled
  BY OpensTheorem
<1>3. Spec => AssertionHolds
  BY <1>1, NeverAsserts
<1> QED
  BY <1>2, <1>3, WholeIsDatabase

-----------------------------------------------------------------------------
(* Server implements Service: the requests that are read or being served   *)
(* are asked, the replies that async_write has are owed.                   *)

Backlog == [c \in Conns |-> Unserved(c)]
Gone == {c \in Conns : conn[c] = "closed" /\ Unserved(c) # << >>}

\* Sequences of one or two.
LEMMA OneOrTwo ==
  ASSUME NEW S, NEW x \in S, NEW y \in S
  PROVE  /\ << >> \in Seq(S) /\ <<x>> \in Seq(S) /\ <<x, y>> \in Seq(S)
         /\ << >> \o << >> = << >>
         /\ << >> \o <<y>> = <<y>>
         /\ <<x>> \o << >> = <<x>>
         /\ <<x>> \o <<y>> = <<x, y>>
         /\ Append(<<x>>, y) = <<x, y>>
         /\ SubSeq(<<x, y>>, 1, 1) = <<x>>
<1>1. << >> \in Seq(S) /\ <<x>> \in Seq(S) /\ <<x, y>> \in Seq(S)
  OBVIOUS
<1>2. /\ << >> \o << >> = << >>
      /\ << >> \o <<y>> = <<y>>
      /\ <<x>> \o << >> = <<x>>
  BY <1>1, ConcatEmptySeq
<1>3. \A t \in Seq(S) : Len(t) = 2 /\ t[1] = x /\ t[2] = y => t = <<x, y>>
  <2>1. SUFFICES ASSUME NEW t \in Seq(S), Len(t) = 2, t[1] = x, t[2] = y
                 PROVE  t = <<x, y>>
    OBVIOUS
  <2>2. Len(<<x, y>>) = 2 /\ <<x, y>>[1] = x /\ <<x, y>>[2] = y
    OBVIOUS
  <2>3. \A i \in 1..2 : t[i] = <<x, y>>[i]
    BY <2>1, <2>2
  <2> QED
    BY <1>1, <2>1, <2>2, <2>3, SeqEqual
<1>4. Len(<<x>>) = 1 /\ <<x>>[1] = x /\ Len(<<y>>) = 1 /\ <<y>>[1] = y
  OBVIOUS
<1>5. <<x>> \o <<y>> = <<x, y>>
  <2>1. /\ <<x>> \o <<y>> \in Seq(S)
        /\ Len(<<x>> \o <<y>>) = 2
        /\ (<<x>> \o <<y>>)[1] = x
        /\ (<<x>> \o <<y>>)[2] = y
    BY <1>1, <1>4, ConcatProperties
  <2> QED
    BY <1>3, <2>1
<1>6. Append(<<x>>, y) = <<x, y>>
  <2>1. /\ Append(<<x>>, y) \in Seq(S)
        /\ Len(Append(<<x>>, y)) = 2
        /\ Append(<<x>>, y)[1] = x
        /\ Append(<<x>>, y)[2] = y
    BY <1>1, <1>4, AppendProperties
  <2> QED
    BY <1>3, <2>1
<1>7. SubSeq(<<x, y>>, 1, 1) = <<x>>
  <2>1. /\ SubSeq(<<x, y>>, 1, 1) \in Seq(S)
        /\ Len(SubSeq(<<x, y>>, 1, 1)) = 1
        /\ SubSeq(<<x, y>>, 1, 1)[1] = x
    BY <1>1, SubSeqProperties
  <2>2. \A i \in 1..1 : SubSeq(<<x, y>>, 1, 1)[i] = <<x>>[i]
    BY <1>4, <2>1
  <2> QED
    BY <1>1, <1>4, <2>1, <2>2, SeqEqual
<1> QED
  BY <1>1, <1>2, <1>5, <1>6, <1>7

\* One request may be at exec_json, and one behind it.
LEMMA UnservedIs ==
  ASSUME SInv, NEW c \in Conns
  PROVE  /\ serving # c => Unserved(c) = IF inbox[c] = Nothing THEN << >> ELSE <<inbox[c]>>
         /\ serving = c => /\ req \in Requests
                           /\ Unserved(c) = IF inbox[c] = Nothing THEN <<req>>
                                            ELSE <<req, inbox[c]>>
         /\ Unserved(c) \in Seq(Requests)
<1>1. inbox[c] \in Requests \cup {Nothing} /\ c # Nothing
  BY ServerAssumption DEF SInv, ConnTypes
<1>2. serving = c => req \in Requests
  BY <1>1 DEF SInv, ServingTies, IInv, TypeOK
<1>3. serving # c => Unserved(c) = IF inbox[c] = Nothing THEN << >> ELSE <<inbox[c]>>
  BY <1>1, OneOrTwo DEF Unserved
<1>4. serving = c => Unserved(c) = IF inbox[c] = Nothing THEN <<req>> ELSE <<req, inbox[c]>>
  BY <1>1, <1>2, OneOrTwo DEF Unserved
<1>5. << >> \in Seq(Requests)
  OBVIOUS
<1> QED
  BY <1>1, <1>2, <1>3, <1>4, <1>5, OneOrTwo

\* What a step leaves of a connection, it leaves of its requests.
LEMMA UnservedStays ==
  ASSUME NEW c \in Conns, inbox'[c] = inbox[c],
         \/ serving # c /\ serving' # c
         \/ serving = c /\ serving' = c /\ req' = req
  PROVE  Unserved(c)' = Unserved(c)
BY DEF Unserved

\* A step that Service does not see.
LEMMA UnseenWhole ==
  ASSUME \A c \in Conns : Unserved(c)' = Unserved(c),
         UNCHANGED <<data, outbox>>, Gone' = Gone
  PROVE  UNCHANGED Whole!serviceVars
<1>1. Backlog' = Backlog
  BY DEF Backlog
<1> QED
  BY <1>1 DEF Whole!serviceVars, Backlog, Gone

\* The same requests are gone if the same are unserved.
LEMMA GoneStays ==
  ASSUME \A c \in Conns : Unserved(c)' = Unserved(c), conn' = conn
  PROVE  Gone' = Gone
BY DEF Gone

\* A connection that comes in is no step of the service.
LEMMA ConnectStep ==
  ASSUME SInv, NEW c \in Conns, Connect(c)
  PROVE  UNCHANGED Whole!serviceVars
<1>1. \A d \in Conns : Unserved(d)' = Unserved(d)
  BY UnservedStays DEF Connect, vars, callVars
<1>2. Unserved(c) = << >>
  BY UnservedIs DEF Connect
<1>3. \A d \in Conns \ {c} : conn'[d] = conn[d]
  BY DEF Connect, SInv, ConnTypes
<1>4. Gone' = Gone
  BY <1>1, <1>2, <1>3 DEF Gone
<1> QED
  BY <1>1, <1>4, UnseenWhole DEF Connect, vars, diskVars

\* A request that is sent is one of the service.
LEMMA SendStep ==
  ASSUME SInv, SInv', NEW c \in Conns, Send(c)
  PROVE  Whole!ServiceNext
<1>1. PICK r \in RequestsOf[c] : inbox' = [inbox EXCEPT ![c] = r]
  BY DEF Send
<1>2. /\ r \in Requests /\ r # Nothing
      /\ conn[c] = "open" /\ inbox[c] = Nothing /\ inbox'[c] = r
      /\ UNCHANGED <<conn, outbox, serving, req, data>>
  BY <1>1, ServerAssumption, DatabaseAssumption, ZenonT(40) DEF Send, vars, callVars,
       diskVars, SInv, ConnTypes
<1>3. \A d \in Conns \ {c} : Unserved(d)' = Unserved(d)
  BY <1>1, <1>2, UnservedStays DEF SInv, ConnTypes
<1>4. Unserved(c)' = Append(Unserved(c), r)
  <2>1. CASE serving = c
    <3>1. req \in Requests /\ Unserved(c) = <<req>>
      BY <1>2, <2>1, UnservedIs
    <3>2. Unserved(c)' = <<req, r>>
      BY <1>2, <2>1, <3>1, OneOrTwo DEF Unserved
    <3> QED
      BY <1>2, <3>1, <3>2, OneOrTwo
  <2>2. CASE serving # c
    <3>1. Unserved(c) = << >>
      BY <1>2, <2>2, UnservedIs
    <3>2. Unserved(c)' = <<r>>
      BY <1>2, <2>2 DEF Unserved
    <3> QED
      BY <3>1, <3>2
  <2> QED
    BY <2>1, <2>2
<1>5. Backlog' = [Backlog EXCEPT ![c] = Append(@, r)]
  BY <1>3, <1>4 DEF Backlog
<1>6. Gone' = Gone
  BY <1>2, <1>3 DEF Gone
<1>7. Whole!Ask(c)
  BY <1>2, <1>5, <1>6 DEF Whole!Ask, Backlog, Gone
<1> QED
  BY <1>7 DEF Whole!ServiceNext

\* The service cannot tell when the program takes up a request.
LEMMA ExecuteStep ==
  ASSUME SInv, NEW c \in Conns, Execute(c)
  PROVE  UNCHANGED Whole!serviceVars
<1>1. /\ serving = Nothing /\ serving' = c /\ c # Nothing
      /\ inbox[c] \in Requests /\ inbox[c] # Nothing
      /\ inbox' = [inbox EXCEPT ![c] = Nothing]
      /\ req' = inbox[c] /\ UNCHANGED <<conn, outbox, data>>
  BY ServerAssumption DEF Execute, Receive, SInv, ConnTypes, ServingTies, diskVars
<1>2. \A d \in Conns \ {c} : Unserved(d)' = Unserved(d)
  BY <1>1, UnservedStays, ServerAssumption DEF SInv, ConnTypes
<1>3. Unserved(c)' = Unserved(c)
  <2>1. inbox'[c] = Nothing
    BY <1>1 DEF SInv, ConnTypes
  <2>2. Unserved(c) = << >> \o <<inbox[c]>>
    BY <1>1 DEF Unserved
  <2>3. Unserved(c)' = <<inbox[c]>> \o << >>
    BY <1>1, <2>1 DEF Unserved
  <2> QED
    BY <1>1, <2>2, <2>3
<1>4. \A d \in Conns : Unserved(d)' = Unserved(d)
  BY <1>2, <1>3
<1>5. Gone' = Gone
  BY <1>1, <1>4, GoneStays
<1> QED
  BY <1>1, <1>4, <1>5, UnseenWhole

\* An answer that arrives is one of the service.
LEMMA AnswerStep ==
  ASSUME SInv, NEW c \in Conns, Answer(c)
  PROVE  Whole!ServiceNext
<1>1. /\ outbox[c] # Nothing
      /\ outbox' = [outbox EXCEPT ![c] = Nothing]
      /\ UNCHANGED <<conn, inbox, serving, req, data>>
  BY DEF Answer, vars, callVars, diskVars
<1>2. \A d \in Conns : Unserved(d)' = Unserved(d)
  BY <1>1, UnservedStays
<1>3. Backlog' = Backlog /\ Gone' = Gone
  BY <1>1, <1>2, GoneStays DEF Backlog
<1>4. Whole!Answered(c)
  BY <1>1, <1>3 DEF Whole!Answered, Backlog, Gone
<1> QED
  BY <1>4 DEF Whole!ServiceNext

\* A connection that is dropped loses what was on it, as in the service.
LEMMA DropStep ==
  ASSUME SInv, NEW c \in Conns, Drop(c)
  PROVE  Whole!ServiceNext
<1>1. /\ conn[c] = "open" /\ conn' = [conn EXCEPT ![c] = "closed"]
      /\ inbox' \in {inbox, [inbox EXCEPT ![c] = Nothing]}
      /\ outbox' = [outbox EXCEPT ![c] = Nothing]
      /\ UNCHANGED <<serving, req, data>>
      /\ conn'[c] = "closed" /\ inbox'[c] \in {inbox[c], Nothing}
      /\ \A d \in Conns \ {c} : conn'[d] = conn[d] /\ inbox'[d] = inbox[d]
  BY DEF Drop, vars, callVars, diskVars, SInv, ConnTypes
<1>2. \A d \in Conns \ {c} : Unserved(d)' = Unserved(d)
  BY <1>1, UnservedStays
<1>3. \E n \in 0..Len(Unserved(c)) :
        /\ Unserved(c)' = SubSeq(Unserved(c), 1, n)
        /\ (n = 0) <=> (Unserved(c)' = << >>)
  <2>1. Unserved(c) \in Seq(Requests)
    BY UnservedIs
  <2>2. CASE inbox'[c] = inbox[c]
    <3>1. Unserved(c)' = Unserved(c)
      BY <1>1, <2>2, UnservedStays
    <3>2. Unserved(c) = SubSeq(Unserved(c), 1, Len(Unserved(c)))
      BY <2>1
    <3>3. (Len(Unserved(c)) = 0) <=> (Unserved(c) = << >>)
      BY <2>1
    <3>4. Len(Unserved(c)) \in 0..Len(Unserved(c))
      BY <2>1
    <3> DEFINE n == Len(Unserved(c))
    <3>5. /\ Unserved(c)' = SubSeq(Unserved(c), 1, n)
          /\ (n = 0) <=> (Unserved(c)' = << >>)
      BY <3>1, <3>2, <3>3
    <3> HIDE DEF n
    <3> QED
      BY <3>4, <3>5 DEF n
  <2>3. CASE inbox'[c] = Nothing /\ inbox[c] # Nothing /\ serving = c
    <3>1. /\ req \in Requests /\ inbox[c] \in Requests
          /\ Unserved(c) = <<req, inbox[c]>>
      BY <2>3, UnservedIs DEF SInv, ConnTypes
    <3>2. Unserved(c)' = <<req>>
      BY <1>1, <2>3, <3>1 DEF Unserved
    <3>3. /\ SubSeq(<<req, inbox[c]>>, 1, 1) = <<req>>
          /\ 1 \in 0..Len(<<req, inbox[c]>>)
      <4>1. SubSeq(<<req, inbox[c]>>, 1, 1) = <<req>>
        BY <3>1, OneOrTwo
      <4>2. 1 \in 0..Len(<<req, inbox[c]>>)
        OBVIOUS
      <4> QED
        BY <4>1, <4>2
    <3>4. <<req>> # << >>
      OBVIOUS
    <3> QED
      BY <3>1, <3>2, <3>3, <3>4
  <2>4. CASE inbox'[c] = Nothing /\ serving # c
    <3>1. Unserved(c)' = << >>
      BY <1>1, <2>4 DEF Unserved
    <3>2. SubSeq(Unserved(c), 1, 0) = << >> /\ 0 \in 0..Len(Unserved(c))
      BY <2>1
    <3> QED
      BY <3>1, <3>2
  <2> QED
    BY <1>1, <2>2, <2>3, <2>4
<1>4. PICK n \in 0..Len(Unserved(c)) :
        /\ Unserved(c)' = SubSeq(Unserved(c), 1, n)
        /\ (n = 0) <=> (Unserved(c)' = << >>)
  BY <1>3
<1>5. Backlog' = [Backlog EXCEPT ![c] = SubSeq(@, 1, n)]
  BY <1>2, <1>4 DEF Backlog
<1>6. Gone' = IF n = 0 THEN Gone ELSE Gone \cup {c}
  BY <1>1, <1>2, <1>4 DEF Gone
<1>7. n \in 0..Len(Backlog[c])
  BY DEF Backlog
<1>8. Whole!Close(c)
  BY <1>1, <1>5, <1>6, <1>7 DEF Whole!Close, Backlog, Gone
<1> QED
  BY <1>8 DEF Whole!ServiceNext

\* With the process, all connections end.
LEMMA EndStep ==
  ASSUME Disconnected, data' = data
  PROVE  Whole!ServiceNext
<1>1. \A c \in Conns : serving' # c /\ inbox'[c] = Nothing
  BY ServerAssumption DEF Disconnected, NoMail
<1>2. \A c \in Conns : Unserved(c)' = << >>
  BY <1>1 DEF Unserved
<1>3. Backlog' = [c \in Conns |-> << >>] /\ Gone' = {}
  BY <1>2 DEF Backlog, Gone
<1>4. Whole!End
  BY <1>3 DEF Whole!End, Disconnected, NoMail, Backlog, Gone
<1> QED
  BY <1>4 DEF Whole!ServiceNext

\* What is left of the requests of a connection when the first is served.
LEMMA ServedLeaves ==
  ASSUME SInv, NEW c \in Conns, serving = c, Reply(c)
  PROVE  /\ Unserved(c) # << >> /\ Head(Unserved(c)) = req
         /\ \A d \in Conns \ {c} : Unserved(d)' = Unserved(d)
         /\ Unserved(c)' = Tail(Unserved(c))
              \/ (conn[c] = "closed" /\ Unserved(c)' = << >>)
<1>1. /\ serving' = Nothing /\ c # Nothing
      /\ inbox[c] \in Requests \cup {Nothing}
      /\ inbox' \in {inbox, [inbox EXCEPT ![c] = Nothing]}
      /\ inbox' = inbox \/ conn[c] = "closed"
  BY ServerAssumption DEF Reply, SInv, ConnTypes
<1>2. \A d \in Conns \ {c} : Unserved(d)' = Unserved(d)
  BY <1>1, UnservedStays, ServerAssumption DEF SInv, ConnTypes
<1>3. /\ req \in Requests
      /\ Unserved(c) = IF inbox[c] = Nothing THEN <<req>> ELSE <<req, inbox[c]>>
  BY UnservedIs
<1>4. Unserved(c)' = IF inbox'[c] = Nothing THEN << >> ELSE <<inbox'[c]>>
  <2>1. inbox'[c] \in Requests \cup {Nothing}
    BY <1>1 DEF SInv, ConnTypes
  <2>2. Unserved(c)' = << >> \o (IF inbox'[c] = Nothing THEN << >> ELSE <<inbox'[c]>>)
    BY <1>1 DEF Unserved
  <2> QED
    BY <1>3, <2>1, <2>2, OneOrTwo
<1>5. Unserved(c) # << >> /\ Head(Unserved(c)) = req
  BY <1>1, <1>3
<1>6. Tail(Unserved(c)) = IF inbox[c] = Nothing THEN << >> ELSE <<inbox[c]>>
  <2>1. CASE inbox[c] = Nothing
    BY <1>3, <2>1
  <2>2. CASE inbox[c] # Nothing
    <3> DEFINE y == inbox[c]
    <3>1. y \in Requests /\ Unserved(c) = <<req, y>>
      BY <1>1, <1>3, <2>2
    <3> HIDE DEF y
    <3>2. Tail(<<req, y>>) = <<y>>
      OBVIOUS
    <3> QED
      BY <2>2, <3>1, <3>2 DEF y
  <2> QED
    BY <2>1, <2>2
<1>7. CASE inbox' = inbox
  BY <1>2, <1>4, <1>5, <1>6, <1>7
<1>8. CASE inbox' = [inbox EXCEPT ![c] = Nothing] /\ conn[c] = "closed"
  <2>1. inbox'[c] = Nothing
    BY <1>8 DEF SInv, ConnTypes
  <2> QED
    BY <1>2, <1>4, <1>5, <1>8, <2>1
<1> QED
  BY <1>1, <1>7, <1>8

\* exec_json answers, and do_write has the reply.
LEMMA ReplyStep ==
  ASSUME SInv, NEW c \in Conns, serving = c, Reply(c),
         Abstract!Write \/ Abstract!Read \/ Abstract!Refuse
  PROVE  Whole!ServiceNext
<1> DEFINE Owes(a) == outbox' = [outbox EXCEPT ![c] = IF c \in Gone THEN Nothing ELSE a]
<1>1. /\ Unserved(c) # << >> /\ Head(Unserved(c)) = req
      /\ \A d \in Conns \ {c} : Unserved(d)' = Unserved(d)
      /\ Unserved(c)' = Tail(Unserved(c))
           \/ (conn[c] = "closed" /\ Unserved(c)' = << >>)
  BY ServedLeaves
<1>2. outbox[c] = Nothing /\ conn[c] \in {"closed", "open"} /\ conn' = conn
  BY DEF SInv, ConnTypes, ServingTies, Reply
<1>3. c \in Gone <=> conn[c] = "closed"
  BY <1>1 DEF Gone
<1>4. Owes(reply')
  <2>1. CASE conn[c] = "open"
    BY <1>3, <2>1 DEF Reply
  <2>2. CASE conn[c] = "closed"
    <3>1. outbox' = outbox /\ outbox = [outbox EXCEPT ![c] = Nothing]
      BY <1>2, <2>2 DEF Reply, SInv, ConnTypes
    <3> QED
      BY <1>3, <2>2, <3>1
  <2> QED
    BY <1>2, <2>1, <2>2
<1>5. \/ Backlog' = [Backlog EXCEPT ![c] = Tail(@)]
      \/ c \in Gone /\ Backlog' = [Backlog EXCEPT ![c] = << >>]
  BY <1>1, <1>3 DEF Backlog
<1>6. Gone' = IF Backlog'[c] = << >> THEN Gone \ {c} ELSE Gone
  <2>1. Backlog'[c] = Unserved(c)'
    BY DEF Backlog
  <2> QED
    BY <1>1, <1>2, <2>1 DEF Gone
<1>7. Backlog[c] # << >> /\ Head(Backlog[c]) = req
  BY <1>1 DEF Backlog
<1>8. \/ /\ req \in DOMAIN KvWrites
         /\ data' = Whole!Written(req)
         /\ Owes(Whole!Plain(0))
      \/ req \in KvReads /\ Owes(Whole!Found(req)) /\ UNCHANGED data
      \/ \E a \in Whole!Refusals(req) : Owes(a) /\ UNCHANGED data
  <2>1. CASE Abstract!Write
    BY <1>4, <2>1
       DEF Abstract!Write, Abstract!Writers, Abstract!Plain, Whole!Written, Whole!Plain
  <2>2. CASE Abstract!Read
    BY <1>4, <2>2 DEF Abstract!Read, Abstract!Plain, Whole!Found, Whole!Plain
  <2>3. CASE Abstract!Refuse
    <3>1. reply' \in Whole!Refusals(req) /\ UNCHANGED data
      BY <2>3 DEF Abstract!Refuse, Abstract!Refusals, Abstract!Writers, Abstract!Plain,
                  Whole!Refusals, Whole!Plain
    <3> QED
      BY <1>4, <3>1
  <2> QED
    BY <2>1, <2>2, <2>3
<1>9. Whole!Serve(c)
  BY <1>2, <1>5, <1>6, <1>7, <1>8 DEF Whole!Serve, Backlog, Gone
<1> QED
  BY <1>9 DEF Whole!ServiceNext

\* Work on a request is a step of the service, or of no account to it.
LEMMA WorkStep ==
  ASSUME SInv, Work
  PROVE  [Whole!ServiceNext]_(Whole!serviceVars)
<1>1. ExecStep /\ pc # "idle" /\ Running
  BY DEF Work, ExecStep, Find, open, Bootstrap, CreateFamily, CloseBootstrap,
         OpenAll, exec_op
<1>2. req \in Requests /\ req # Nothing /\ serving \in Conns
  BY <1>1, DatabaseAssumption DEF SInv, IInv, TypeOK, ConnTypes, ServingTies
<1>3. \/ Die /\ data' = data
      \/ UNCHANGED <<data, req, reply, proc>>
      \/ /\ UNCHANGED proc
         /\ Abstract!Write \/ Abstract!Read \/ Abstract!Refuse
  BY <1>1, ExecOutcome DEF ExecStep, SInv
<1>4. CASE Die /\ data' = data
  <2>1. proc' = "crashed"
    BY <1>4 DEF Die
  <2> QED
    BY <1>4, <2>1, EndStep DEF Work
<1>5. CASE UNCHANGED <<data, req, reply, proc>>
  <2>1. UNCHANGED connVars
    BY <1>1, <1>2, <1>5 DEF Work, Running
  <2>2. \A c \in Conns : Unserved(c)' = Unserved(c)
    BY <1>5, <2>1, UnservedStays DEF connVars
  <2>3. Gone' = Gone
    BY <2>1, <2>2, GoneStays DEF connVars
  <2> QED
    BY <1>5, <2>1, <2>2, <2>3, UnseenWhole DEF connVars
<1>6. CASE UNCHANGED proc /\ (Abstract!Write \/ Abstract!Read \/ Abstract!Refuse)
  <2>1. req' = Nothing
    BY <1>6 DEF Abstract!Write, Abstract!Read, Abstract!Refuse
  <2>2. Reply(serving)
    BY <1>1, <1>6, <2>1 DEF Work, Running
  <2> QED
    BY <1>2, <1>6, <2>2, ReplyStep
<1> QED
  BY <1>3, <1>4, <1>5, <1>6

\* The whole is what its clients are promised: on each connection one request
\* after the other is done as a whole or not at all, on one store, at one moment
\* between its sending and its answer, and what was answered stays, whatever
\* ends (networkinterface.cc:49-69, server.cc:306-366).
THEOREM ServiceImplemented == ServerSpec => ImplementsService
<1>1. ServerInit => Whole!ServiceInit
  <2> SUFFICES ASSUME ServerInit
               PROVE  Whole!ServiceInit
    OBVIOUS
  <2>1. \A c \in Conns : serving # c /\ inbox[c] = Nothing
    BY ServerAssumption DEF ServerInit, NoMail
  <2>2. \A c \in Conns : Unserved(c) = << >>
    BY <2>1 DEF Unserved
  <2>3. Backlog = [c \in Conns |-> << >>] /\ Gone = {}
    BY <2>2 DEF Backlog, Gone
  <2> QED
    BY <2>3 DEF ServerInit, Init, NoMail, Whole!ServiceInit, Backlog, Gone
<1>2. ASSUME SInv, SInv', [ServerNext]_serverVars
      PROVE  [Whole!ServiceNext]_(Whole!serviceVars)
  <2>1. CASE UNCHANGED serverVars
    <3>1. UNCHANGED <<conn, inbox, outbox, serving, req, data>>
      BY <2>1 DEF serverVars, connVars, vars, callVars, diskVars
    <3>2. \A c \in Conns : Unserved(c)' = Unserved(c)
      BY <3>1, UnservedStays
    <3> QED
      BY <3>1, <3>2, GoneStays, UnseenWhole
  <2>2. ASSUME NEW c \in Conns, Connect(c) \/ Send(c) \/ Execute(c) \/ Answer(c) \/ Drop(c)
        PROVE  [Whole!ServiceNext]_(Whole!serviceVars)
    BY <1>2, <2>2, ConnectStep, SendStep, ExecuteStep, AnswerStep, DropStep
  <2>3. CASE Work
    BY <1>2, <2>3, WorkStep
  <2>4. CASE EndOfProcess
    BY <2>4, EndStep DEF EndOfProcess, SignalHandler, Crash, diskVars
  <2>5. CASE StartAgain
    <3>1. UNCHANGED <<conn, inbox, outbox, serving, req, data>>
      BY <2>5 DEF StartAgain, Restart, connVars, diskVars
    <3>2. \A c \in Conns : Unserved(c)' = Unserved(c)
      BY <3>1, UnservedStays
    <3> QED
      BY <3>1, <3>2, GoneStays, UnseenWhole
  <2> QED
    BY <1>2, <2>1, <2>2, <2>3, <2>4, <2>5 DEF ServerNext
<1> QED
  BY <1>1, <1>2, ServerInvariant, PTL DEF ServerSpec, ImplementsService, Whole!ServiceSpec

=============================================================================
