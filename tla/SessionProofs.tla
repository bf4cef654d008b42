--------------------------- MODULE SessionProofs ---------------------------
(***************************************************************************)
(* Theorems about module Session, for all values of its constants.         *)
(***************************************************************************)
EXTENDS Session, SequenceTheorems, TLAPS

\* A byte of a request has the type that TypeOK gives it.
LEMMA UnitType ==
  ASSUME NEW k \in Nat, NEW i \in Nat, NEW n \in Nat
  PROVE  Unit(k, i, n) \in Units
BY DEF Unit, Units

\* The empty sequence is a sequence of anything.
LEMMA EmptySeqType == ASSUME NEW S PROVE << >> \in Seq(S)
OBVIOUS

\* A request of a sequence of requests has a place and a length.
LEMMA SentField ==
  ASSUME NEW s \in Seq(SentRequest), NEW k \in 1..Len(s)
  PROVE  s[k].at \in Nat /\ s[k].len \in Nat
<1>1. s[k] \in SentRequest
  OBVIOUS
<1> QED
  BY <1>1, SessionAssumption DEF SentRequest

\* The end of a request is a place in the stream.
LEMMA EndType ==
  ASSUME NEW s \in Seq(SentRequest), NEW k \in 0..Len(s)
  PROVE  End(s, k) \in Nat
<1>1. CASE k = 0
  BY <1>1 DEF End
<1>2. CASE k # 0
  BY <1>2, SentField DEF End
<1> QED
  BY <1>1, <1>2

\* The requests sent before a request keep their number and their end.
LEMMA EarlierRequests ==
  ASSUME NEW s \in Seq(SentRequest), NEW r \in SentRequest
  PROVE  /\ Len(Append(s, r)) = Len(s) + 1
         /\ \A j \in 1..Len(s) : Append(s, r)[j] = s[j]
         /\ \A j \in 0..Len(s) : End(Append(s, r), j) = End(s, j)
<1>1. /\ Len(Append(s, r)) = Len(s) + 1
      /\ \A j \in 1..Len(s) : Append(s, r)[j] = s[j]
  BY AppendProperties
<1> QED
  BY <1>1 DEF End

\* Sending a request adds it at the end and leaves the earlier ones in place.
LEMMA LayoutAppend ==
  ASSUME NEW s \in Seq(SentRequest), NEW t \in Seq(Units), Layout(s, t),
         Len(t) = End(s, Len(s)), NEW n \in Lengths,
         NEW u \in Seq(Units), Len(u) = n + 1,
         \A j \in 0..n : u[j + 1] = Unit(Len(s) + 1, j, n)
  PROVE  LET r == [len |-> n, at |-> Len(t) + 1] IN
         /\ Layout(Append(s, r), t \o u)
         /\ Len(t \o u) = End(Append(s, r), Len(s) + 1)
<1> DEFINE r == [len |-> n, at |-> Len(t) + 1]
           s2 == Append(s, r)
           t2 == t \o u
           k == Len(s) + 1
<1>1. n \in Nat /\ Len(t) \in Nat /\ Len(s) \in Nat
  BY SessionAssumption
<1>2. r \in SentRequest
  BY <1>1 DEF SentRequest
<1>3. /\ Len(s2) = k /\ s2[k] = r
      /\ \A j \in 1..Len(s) : s2[j] = s[j]
  BY <1>1, <1>2, AppendProperties
<1>4. /\ Len(t2) = Len(t) + n + 1
      /\ \A i \in 1..Len(t) : t2[i] = t[i]
      /\ \A j \in 0..n : t2[Len(t) + 1 + j] = u[j + 1]
  <2>1. /\ Len(t2) = Len(t) + Len(u)
        /\ \A i \in 1..Len(t) + Len(u) :
             t2[i] = IF i <= Len(t) THEN t[i] ELSE u[i - Len(t)]
    BY ConcatProperties
  <2>2. ASSUME NEW j \in 0..n PROVE t2[Len(t) + 1 + j] = u[j + 1]
    <3>1. /\ Len(t) + 1 + j \in 1..Len(t) + Len(u)
          /\ ~(Len(t) + 1 + j <= Len(t))
          /\ (Len(t) + 1 + j) - Len(t) = j + 1
      BY <1>1
    <3> QED
      BY <2>1, <3>1
  <2> QED
    BY <2>1, <2>2, <1>1, SMTT(40)
<1>5. r.len = n /\ r.at = Len(t) + 1
  OBVIOUS
<1> HIDE DEF r, s2, t2
<1>6. \A j \in 0..Len(s) : End(s2, j) = End(s, j)
  BY <1>1, <1>3 DEF End
<1>7. End(s2, k) = Len(t2)
  BY <1>1, <1>3, <1>4, <1>5 DEF End
<1>8. ASSUME NEW j \in 1..Len(s)
      PROVE  /\ s2[j].at = End(s2, j - 1) + 1
             /\ End(s2, j) <= End(s2, k)
             /\ \A i \in 0..s2[j].len :
                  t2[s2[j].at + i] = Unit(j, i, s2[j].len)
  <2>1. s[j].at \in Nat /\ s[j].len \in Nat
    BY SentField
  <2>2. /\ s[j].at = End(s, j - 1) + 1
        /\ End(s, j) <= Len(t)
        /\ \A i \in 0..s[j].len :
             s[j].at + i <= Len(t) => t[s[j].at + i] = Unit(j, i, s[j].len)
    BY DEF Layout
  <2>3. End(s, j) = s[j].at + s[j].len /\ End(s, j - 1) \in Nat
    <3>1. j # 0 /\ j - 1 \in 0..Len(s)
      BY <1>1
    <3> QED
      BY <3>1, EndType DEF End
  <2>4. \A i \in 0..s[j].len : s[j].at + i \in 1..Len(t)
    BY <2>1, <2>2, <2>3, <1>1, SMTT(40)
  <2>5. s2[j] = s[j] /\ End(s2, j) = End(s, j) /\ End(s2, j - 1) = End(s, j - 1)
    BY <1>3, <1>6
  <2>6. End(s2, j) <= End(s2, k)
    BY <2>1, <2>2, <2>3, <2>5, <1>1, <1>4, <1>7, SMTT(40)
  <2>7. \A i \in 0..s[j].len : t2[s[j].at + i] = Unit(j, i, s[j].len)
    BY <2>2, <2>4, <1>4
  <2> QED
    BY <2>2, <2>5, <2>6, <2>7
<1>9. /\ s2[k].at = End(s2, k - 1) + 1
      /\ \A i \in 0..s2[k].len : t2[s2[k].at + i] = Unit(k, i, s2[k].len)
  BY <1>1, <1>3, <1>4, <1>5, <1>6
<1>10. Layout(s2, t2)
  <2> SUFFICES ASSUME NEW j \in 1..Len(s2)
               PROVE  /\ s2[j].at = End(s2, j - 1) + 1
                      /\ End(s2, j) <= End(s2, Len(s2))
                      /\ \A i \in 0..s2[j].len :
                           s2[j].at + i <= Len(t2) =>
                             t2[s2[j].at + i] = Unit(j, i, s2[j].len)
    BY DEF Layout
  <2>1. CASE j = k
    BY <2>1, <1>1, <1>3, <1>4, <1>7, <1>9
  <2>2. CASE j # k
    <3>1. j \in 1..Len(s)
      BY <2>2, <1>1, <1>3
    <3> QED
      BY <3>1, <1>3, <1>8
  <2> QED
    BY <2>1, <2>2
<1> QED
  BY <1>7, <1>10 DEF s2, t2, r

\* A reset keeps what is left of the stream in place.
LEMMA LayoutCut ==
  ASSUME NEW s \in Seq(SentRequest), NEW t \in Seq(Units), Layout(s, t),
         NEW m \in 0..Len(t)
  PROVE  /\ SubSeq(t, 1, m) \in Seq(Units)
         /\ Len(SubSeq(t, 1, m)) = m
         /\ Layout(s, SubSeq(t, 1, m))
<1>1. /\ SubSeq(t, 1, m) \in Seq(Units)
      /\ Len(SubSeq(t, 1, m)) = m
      /\ \A i \in 1..m : SubSeq(t, 1, m)[i] = t[i]
  OBVIOUS
<1>2. ASSUME NEW k \in 1..Len(s), NEW j \in 0..s[k].len, s[k].at + j <= m
      PROVE  SubSeq(t, 1, m)[s[k].at + j] = Unit(k, j, s[k].len)
  <2>1. s[k].at \in Nat /\ s[k].len \in Nat
    BY SentField
  <2>2. s[k].at = End(s, k - 1) + 1 /\ End(s, k - 1) \in Nat
    BY EndType DEF Layout
  <2>3. s[k].at + j \in 1..m
    BY <2>1, <2>2, <1>2
  <2>4. t[s[k].at + j] = Unit(k, j, s[k].len)
    BY <2>1, <2>3 DEF Layout
  <2> QED
    BY <1>1, <2>3, <2>4
<1> QED
  BY <1>1, <1>2 DEF Layout

-----------------------------------------------------------------------------
(* The inductive invariant.  TypeOK alone is not inductive: that a prefix  *)
(* can be read off the stream, and that exec_json is handed a full buffer, *)
(* needs Framing.                                                          *)

ConnInv(c) ==
  StreamLayout(c) /\ LogsAgree(c) /\ (Running => AtPosition(c)) /\ BuffersOf(c)

IInv == TypeOK /\ \A c \in Conns : ConnInv(c)

\* The connections that a step does not touch.
Same(d) ==
  /\ client'[d] = client[d] /\ sent'[d] = sent[d] /\ stream'[d] = stream[d]
  /\ arrived'[d] = arrived[d] /\ consumed'[d] = consumed[d]
  /\ phase'[d] = phase[d] /\ length'[d] = length[d] /\ pos'[d] = pos[d]
  /\ rem'[d] = rem[d] /\ buf'[d] = buf[d] /\ inp'[d] = inp[d]
  /\ outb'[d] = outb[d] /\ execLog'[d] = execLog[d]
  /\ replies'[d] = replies[d]

\* A step keeps the invariant of every connection it does not touch.
LEMMA Untouched ==
  ASSUME NEW d \in Conns, Same(d), ConnInv(d), Running' => Running
  PROVE  ConnInv(d)'
<1> USE DEF Same
<1>1. StreamLayout(d)'
  BY DEF ConnInv, StreamLayout, Layout, End
<1>2. LogsAgree(d)'
  BY DEF ConnInv, LogsAgree
<1>3. Running' => AtPosition(d)'
  BY DEF ConnInv, AtPosition, End
<1>4. BuffersOf(d)'
  BY DEF ConnInv, BuffersOf
<1> QED
  BY <1>1, <1>2, <1>3, <1>4 DEF ConnInv

\* The initial states satisfy the invariant.
LEMMA InvInit == Init => IInv
<1> SUFFICES ASSUME Init PROVE IInv
  OBVIOUS
<1> USE SessionAssumption, EmptySeqType DEF Init
<1>1. TypeOK
  <2>1. sent \in [Conns -> Seq(SentRequest)]
    OBVIOUS
  <2>2. stream \in [Conns -> Seq(Units)] /\ buf \in [Conns -> Seq(Units)]
    OBVIOUS
  <2>3. /\ execLog \in [Conns -> Seq(Seq(Units))]
        /\ replies \in [Conns -> Seq(Seq(Units))]
    OBVIOUS
  <2>4. phase \in [Conns -> Phases]
    BY DEF Phases
  <2>5. signals \in 0..MaxSignals
    OBVIOUS
  <2> QED
    BY <2>1, <2>2, <2>3, <2>4, <2>5 DEF TypeOK
<1>2. ASSUME NEW c \in Conns PROVE ConnInv(c)
  BY DEF ConnInv, StreamLayout, Layout, LogsAgree, AtPosition, BuffersOf, End
<1> QED
  BY <1>1, <1>2 DEF IInv

-----------------------------------------------------------------------------
(* The clients and the network.                                            *)

\* A client that connects.
LEMMA InvConnect ==
  ASSUME IInv, NEW c \in Conns, Connect(c) PROVE IInv'
<1> USE DEF Connect, readVars, heapVars, logVars, procVars
<1>1. TypeOK'
  BY DEF IInv, TypeOK, Phases
<1>2. ASSUME NEW d \in Conns, d # c PROVE ConnInv(d)'
  BY <1>2, Untouched DEF IInv, TypeOK, Same, Running
<1>3. ConnInv(c)'
  <2>1. phase'[c] = "backlog" /\ client'[c] = "up"
    BY DEF IInv, TypeOK
  <2>2. StreamLayout(c)'
    BY <2>1 DEF IInv, ConnInv, StreamLayout
  <2>3. phase[c] = "none"
    BY DEF IInv, ConnInv, AtPosition
  <2>4. LogsAgree(c)'
    BY <2>1, <2>3 DEF IInv, ConnInv, LogsAgree
  <2>5. AtPosition(c)' /\ BuffersOf(c)'
    BY <2>1, <2>3 DEF IInv, ConnInv, AtPosition, BuffersOf, Running
  <2> QED
    BY <2>2, <2>4, <2>5 DEF ConnInv
<1> QED
  BY <1>1, <1>2, <1>3 DEF IInv

\* A client that sends a request: the requests sent before stay where they
\* are in the stream.
LEMMA InvClientSend ==
  ASSUME IInv, NEW c \in Conns, NEW n \in Lengths, ClientSend(c, n)
  PROVE  IInv'
<1> DEFINE k == Len(sent[c]) + 1
<1>0. /\ n \in Nat /\ sent[c] \in Seq(SentRequest) /\ stream[c] \in Seq(Units)
      /\ k \in Nat /\ Len(stream[c]) \in Nat
  BY SessionAssumption DEF IInv, TypeOK
<1>1. PICK u \in Seq(Units) :
        /\ Len(u) = n + 1
        /\ \A j \in 0..n : u[j + 1] = Unit(k, j, n)
        /\ stream' = [stream EXCEPT ![c] = @ \o u]
  <2> DEFINE w == [i \in 1..(n + 1) |-> Unit(k, i - 1, n)]
  <2>1. ASSUME NEW i \in 1..(n + 1) PROVE w[i] \in Units
    BY <1>0, UnitType
  <2>2. w \in Seq(Units) /\ Len(w) = n + 1
    BY <2>1, <1>0
  <2>3. ASSUME NEW j \in 0..n PROVE w[j + 1] = Unit(k, j, n)
    <3>1. j + 1 \in 1..(n + 1) /\ (j + 1) - 1 = j
      BY <1>0
    <3> QED
      BY <3>1
  <2>4. stream' = [stream EXCEPT ![c] = @ \o w]
    BY DEF ClientSend
  <2> HIDE DEF w
  <2> QED
    BY <2>2, <2>3, <2>4
<1>2. PICK r \in SentRequest :
        /\ r = [len |-> n, at |-> Len(stream[c]) + 1]
        /\ sent' = [sent EXCEPT ![c] = Append(@, r)]
  <2>1. [len |-> n, at |-> Len(stream[c]) + 1] \in SentRequest
    BY <1>0 DEF SentRequest
  <2>2. sent' = [sent EXCEPT ![c] =
                   Append(@, [len |-> n, at |-> Len(stream[c]) + 1])]
    BY DEF ClientSend
  <2> QED
    BY <2>1, <2>2
<1>3. /\ UNCHANGED <<client, arrived, phase, consumed, length, pos, rem, buf,
                     inp, outb, overrun, execLog, replies, armed, sig, signals,
                     proc>>
      /\ client[c] = "up"
  BY DEF ClientSend, readVars, heapVars, logVars, procVars
<1>4. TypeOK'
  <2>1. sent' \in [Conns -> Seq(SentRequest)]
    BY <1>2 DEF IInv, TypeOK
  <2>2. stream' \in [Conns -> Seq(Units)]
    BY <1>1 DEF IInv, TypeOK
  <2> QED
    BY <1>3, <2>1, <2>2 DEF IInv, TypeOK
<1>5. ASSUME NEW d \in Conns, d # c PROVE ConnInv(d)'
  BY <1>1, <1>2, <1>3, <1>5, Untouched DEF IInv, TypeOK, Same, Running
<1>6. ConnInv(c)'
  <2>1. PICK s \in Seq(SentRequest), t \in Seq(Units), e \in Seq(Seq(Units)),
             ar \in Nat, co \in Nat :
          s = sent[c] /\ t = stream[c] /\ e = execLog[c] /\ ar = arrived[c]
          /\ co = consumed[c]
    BY DEF IInv, TypeOK
  <2> DEFINE s2 == Append(s, r)
             t2 == t \o u
  <2>2. /\ sent'[c] = s2 /\ stream'[c] = t2 /\ execLog'[c] = e
        /\ arrived'[c] = ar /\ consumed'[c] = co
    BY <1>1, <1>2, <1>3, <2>1 DEF IInv, TypeOK
  <2>3. /\ Len(s2) = Len(s) + 1
        /\ \A j \in 1..Len(s) : s2[j] = s[j]
        /\ \A j \in 0..Len(s) : End(s2, j) = End(s, j)
    BY EarlierRequests
  <2>4. Layout(s, t) /\ Len(t) = End(s, Len(s)) /\ co <= ar /\ ar <= Len(t)
    BY <1>3, <2>1 DEF IInv, ConnInv, StreamLayout
  <2>5. Layout(s2, t2) /\ Len(t2) = End(s2, Len(s) + 1)
    BY <2>1, <2>4, <1>1, <1>2, LayoutAppend
  <2>6. Len(t2) = Len(t) + (n + 1)
    <3>1. Len(t2) = Len(t) + Len(u) /\ Len(u) = n + 1
      BY <1>1, ConcatProperties
    <3> QED
      BY <3>1
  <2> HIDE DEF s2, t2
  <2>7. StreamLayout(c)'
    <3>1. /\ Len(t2) <= End(s2, Len(s2)) /\ Len(t2) = End(s2, Len(s2))
          /\ co <= ar /\ ar <= Len(t2)
      BY <2>3, <2>4, <2>5, <2>6, <1>0, SMTT(40)
    <3> QED
      BY <3>1, <2>2, <2>5 DEF StreamLayout
  <2>8. LogsAgree(c)'
    <3>1. /\ Len(e) <= Len(s)
          /\ \A j \in 1..Len(e) : e[j] = Payload(j, s[j].len)
      <4>1. LogsAgree(c)
        BY DEF IInv, ConnInv
      <4> QED
        BY <2>1, <4>1 DEF LogsAgree
    <3>2. /\ Len(e) <= Len(s2)
          /\ \A j \in 1..Len(e) : e[j] = Payload(j, s2[j].len)
      <4>1. Len(e) \in Nat /\ Len(s) \in Nat /\ Len(s2) = Len(s) + 1
        BY <2>3
      <4>2. ASSUME NEW j \in 1..Len(e) PROVE s2[j] = s[j]
        <5>1. j \in 1..Len(s)
          BY <4>1, <3>1
        <5> QED
          BY <5>1, <2>3
      <4>3. \A j \in 1..Len(e) : e[j] = Payload(j, s2[j].len)
        BY <4>2, <3>1
      <4> QED
        BY <4>1, <4>3, <3>1
    <3>3. replies'[c] = replies[c] /\ phase'[c] = phase[c]
      BY <1>3
    <3> QED
      BY <3>2, <3>3, <2>1, <2>2 DEF IInv, ConnInv, LogsAgree
  <2>9. Running' => AtPosition(c)'
    <3> SUFFICES ASSUME Running' PROVE AtPosition(c)'
      OBVIOUS
    <3>1. Len(e) \in 0..Len(s)
      BY <2>1 DEF IInv, ConnInv, LogsAgree
    <3>2. AtPosition(c)
      BY <1>3 DEF IInv, ConnInv, Running
    <3>3. End(s2, Len(e)) = End(s, Len(e))
      BY <3>1, <2>3
    <3>4. Len(e) + 1 <= Len(s) =>
            Len(e) + 1 <= Len(s2) /\ s2[Len(e) + 1] = s[Len(e) + 1]
      BY <3>1, <2>3
    <3> QED
      BY <3>2, <3>3, <3>4, <2>1, <2>2, <1>3 DEF AtPosition
  <2>10. BuffersOf(c)'
    BY <1>3 DEF IInv, ConnInv, BuffersOf, Running
  <2> QED
    BY <2>7, <2>8, <2>9, <2>10 DEF ConnInv
<1> QED
  BY <1>4, <1>5, <1>6 DEF IInv

\* A unit that arrives.
LEMMA InvDeliver ==
  ASSUME IInv, NEW c \in Conns, Deliver(c) PROVE IInv'
<1> USE DEF Deliver, readVars, heapVars, logVars, procVars
<1>1. TypeOK'
  <2>1. TypeOK
    BY DEF IInv
  <2>2. arrived' \in [Conns -> Nat]
    BY <2>1 DEF TypeOK
  <2> QED
    BY <2>1, <2>2 DEF TypeOK
<1>2. ASSUME NEW d \in Conns, d # c PROVE ConnInv(d)'
  <2>1. Same(d) /\ ConnInv(d) /\ (Running' => Running)
    BY <1>2 DEF IInv, TypeOK, Same, Running
  <2> QED
    BY <2>1, Untouched
<1>3. ConnInv(c)'
  <2>1. /\ arrived'[c] = arrived[c] + 1 /\ arrived[c] < Len(stream[c])
        /\ arrived[c] \in Nat /\ consumed[c] \in Nat
    BY DEF IInv, TypeOK
  <2>2. PICK l \in Nat : l = Len(stream[c])
    BY DEF IInv, TypeOK
  <2>3. StreamLayout(c)'
    <3>1. consumed[c] <= arrived'[c] /\ arrived'[c] <= l
      BY <2>1, <2>2 DEF IInv, ConnInv, StreamLayout
    <3> QED
      BY <2>2, <3>1 DEF IInv, ConnInv, StreamLayout
  <2>4. LogsAgree(c)' /\ BuffersOf(c)' /\ (Running' => AtPosition(c)')
    BY DEF IInv, ConnInv, LogsAgree, BuffersOf, AtPosition, Running
  <2> QED
    BY <2>3, <2>4 DEF ConnInv
<1> QED
  BY <1>1, <1>2, <1>3 DEF IInv

\* A client that closes: what has arrived can still be read.
LEMMA InvClientClose ==
  ASSUME IInv, NEW c \in Conns, ClientClose(c) PROVE IInv'
<1>1. PICK m \in arrived[c]..Len(stream[c]) :
         stream' = [stream EXCEPT ![c] = SubSeq(@, 1, m)]
  BY DEF ClientClose
<1>2. /\ UNCHANGED <<sent, arrived, phase, consumed, length, pos, rem, buf, inp,
                     outb, overrun, execLog, replies, armed, sig, signals, proc>>
      /\ client' = [client EXCEPT ![c] = "closed"] /\ client[c] = "up"
  BY DEF ClientClose, readVars, heapVars, logVars, procVars
<1>3. PICK s \in Seq(SentRequest), t \in Seq(Units), ar \in Nat, co \in Nat :
        s = sent[c] /\ t = stream[c] /\ ar = arrived[c] /\ co = consumed[c]
  BY DEF IInv, TypeOK
<1>4. m \in 0..Len(t) /\ ar <= m
  BY <1>1, <1>3
<1>5. Layout(s, t) /\ Len(t) <= End(s, Len(s)) /\ co <= ar
  BY <1>3 DEF IInv, ConnInv, StreamLayout
<1>6. /\ SubSeq(t, 1, m) \in Seq(Units) /\ Len(SubSeq(t, 1, m)) = m
      /\ Layout(s, SubSeq(t, 1, m))
  BY <1>4, <1>5, LayoutCut
<1>7. TypeOK'
  BY <1>1, <1>2, <1>3, <1>6 DEF IInv, TypeOK
<1>8. ASSUME NEW d \in Conns, d # c PROVE ConnInv(d)'
  BY <1>1, <1>2, <1>8, Untouched DEF IInv, TypeOK, Same, Running
<1>9. ConnInv(c)'
  <2>1. /\ stream'[c] = SubSeq(t, 1, m) /\ sent'[c] = s /\ arrived'[c] = ar
        /\ consumed'[c] = co /\ client'[c] = "closed"
    BY <1>1, <1>2, <1>3 DEF IInv, TypeOK
  <2>2. End(s, Len(s)) \in Nat
    BY EndType
  <2>3. StreamLayout(c)'
    BY <2>1, <2>2, <1>4, <1>5, <1>6 DEF StreamLayout
  <2>4. LogsAgree(c)' /\ BuffersOf(c)' /\ (Running' => AtPosition(c)')
    BY <1>2, <2>1 DEF IInv, ConnInv, LogsAgree, BuffersOf, AtPosition, Running
  <2> QED
    BY <2>3, <2>4 DEF ConnInv
<1> QED
  BY <1>7, <1>8, <1>9 DEF IInv

-----------------------------------------------------------------------------
(* The handlers of the server.                                             *)

\* The accept handler, up to the blocking read.
LEMMA InvAcceptHandler ==
  ASSUME IInv, NEW c \in Conns, AcceptHandler(c) PROVE IInv'
<1> USE DEF AcceptHandler, StartRead, netVars, readVars, heapVars, logVars
<1>1. TypeOK'
  BY DEF IInv, TypeOK, Phases
<1>2. ASSUME NEW d \in Conns, d # c PROVE ConnInv(d)'
  BY <1>2, Untouched DEF IInv, TypeOK, Same, Running
<1>3. ConnInv(c)'
  <2>1. phase'[c] = "header" /\ phase[c] = "backlog" /\ Running
    BY DEF IInv, TypeOK
  <2>2. StreamLayout(c)' /\ LogsAgree(c)' /\ BuffersOf(c)'
    BY <2>1 DEF IInv, ConnInv, StreamLayout, LogsAgree, BuffersOf, Running
  <2>3. AtPosition(c)'
    BY <2>1 DEF IInv, ConnInv, AtPosition, End
  <2> QED
    BY <2>2, <2>3 DEF ConnInv
<1> QED
  BY <1>1, <1>2, <1>3 DEF IInv

\* The end of the stream, in any of the places where the session can meet it.
LEMMA InvReadErrors ==
  ASSUME IInv, NEW c \in Conns,
         PrefixError(c) \/ FirstReadError(c) \/ RestReadError(c)
  PROVE  IInv'
<1> USE DEF PrefixError, FirstReadError, RestReadError, netVars, readVars,
            heapVars, logVars, procVars
<1>1. TypeOK'
  BY ZenonT(40) DEF IInv, TypeOK, Phases
<1>2. ASSUME NEW d \in Conns, d # c PROVE ConnInv(d)'
  BY <1>2, Untouched, ZenonT(40) DEF IInv, TypeOK, Same, Running
<1>3. ConnInv(c)'
  <2>1. /\ phase'[c] = "done" /\ phase[c] \in {"header", "first", "rest"}
        /\ Running /\ outb'[c] = outb[c]
        /\ inp'[c] = "live" =>
             /\ inp[c] = "live"
             /\ phase[c] = "header" \/ (phase[c] = "first" /\ rem[c] > 0)
    BY DEF IInv, TypeOK
  <2>2. AtPosition(c) /\ BuffersOf(c)
    BY <2>1 DEF IInv, ConnInv
  <2>3. /\ pos[c] \in Nat /\ rem[c] \in Nat /\ length[c] \in Nat
        /\ UNCHANGED <<pos, rem, length, proc>>
    BY DEF IInv, TypeOK
  <2>4. BuffersOf(c)'
    BY <2>1, <2>2, <2>3 DEF BuffersOf, AtPosition, Running
  <2>5. StreamLayout(c)' /\ LogsAgree(c)'
    BY <2>1 DEF IInv, ConnInv, StreamLayout, LogsAgree
  <2>6. AtPosition(c)'
    BY <2>1, <2>2 DEF AtPosition, IInv, TypeOK
  <2> QED
    BY <2>4, <2>5, <2>6 DEF ConnInv
<1> QED
  BY <1>1, <1>2, <1>3 DEF IInv

\* The rest of do_read: the prefix that is read is that of the next request.
LEMMA InvReadPrefix ==
  ASSUME IInv, NEW c \in Conns, ReadPrefix(c) PROVE IInv'
<1>1. PICK s \in Seq(SentRequest), t \in Seq(Units), K \in Nat, ar \in Nat,
           co \in Nat :
        /\ s = sent[c] /\ t = stream[c] /\ K = Len(execLog[c])
        /\ ar = arrived[c] /\ co = consumed[c]
  BY DEF IInv, TypeOK
<1>2. /\ Running /\ phase[c] = "header" /\ TypeOK
      /\ ConnInv(c) /\ StreamLayout(c) /\ LogsAgree(c) /\ AtPosition(c)
      /\ BuffersOf(c)
  BY DEF ReadPrefix, IInv, ConnInv
<1>3. ar - co >= 1
  BY <1>1 DEF ReadPrefix, Readable
<1>4. /\ Layout(s, t) /\ Len(t) <= End(s, Len(s)) /\ ar <= Len(t) /\ K <= Len(s)
      /\ co = End(s, K)
  BY <1>1, <1>2 DEF StreamLayout, LogsAgree, AtPosition
<1>5. K + 1 <= Len(s)
  <2>1. CASE K = Len(s)
    <3>1. End(s, K) \in Nat /\ Len(t) \in Nat
      BY EndType, <1>4
    <3> QED
      BY <3>1, <2>1, <1>3, <1>4
  <2> QED
    BY <2>1, <1>4
<1>6. PICK n \in Nat :
        /\ n = s[K + 1].len
        /\ s[K + 1].at = co + 1
        /\ t[co + 1] = Unit(K + 1, 0, n)
  <2>1. K + 1 \in 1..Len(s)
    BY <1>5
  <2>2. s[K + 1].at \in Nat /\ s[K + 1].len \in Nat
    BY <2>1, SentField
  <2>3. s[K + 1].at = End(s, K) + 1
    <3>1. s[K + 1].at = End(s, (K + 1) - 1) + 1
      BY <2>1, <1>4 DEF Layout
    <3>2. (K + 1) - 1 = K
      OBVIOUS
    <3> QED
      BY <3>1, <3>2
  <2>4. s[K + 1].at = co + 1
    BY <2>3, <1>4
  <2>5. 0 \in 0..s[K + 1].len /\ s[K + 1].at + 0 = co + 1 /\ co + 1 <= Len(t)
    BY <2>2, <2>4, <1>3, <1>4
  <2>6. t[s[K + 1].at + 0] = Unit(K + 1, 0, s[K + 1].len)
    BY <2>1, <2>5, <1>4 DEF Layout
  <2> QED
    BY <2>2, <2>4, <2>5, <2>6
<1>7. stream[c][consumed[c] + 1][3] = n
  BY <1>1, <1>6 DEF Unit
<1>8. PICK b \in Seq(Units) : b = [i \in 1..n |-> NoUnit] /\ Len(b) = n
  <2> DEFINE z == [i \in 1..n |-> NoUnit]
  <2>1. NoUnit \in Units
    BY DEF NoUnit, Units
  <2>2. z \in Seq(Units) /\ Len(z) = n
    BY <2>1
  <2> QED
    BY <2>2
<1>9. /\ consumed' = [consumed EXCEPT ![c] = @ + 1]
      /\ length' = [length EXCEPT ![c] = n]
      /\ armed' = TRUE
      /\ UNCHANGED <<client, sent, stream, arrived, outb, overrun, execLog,
                     replies, sig, signals, proc>>
  BY <1>7 DEF ReadPrefix, netVars, logVars
<1>10. \/ /\ n > MaxLength
          /\ phase' = [phase EXCEPT ![c] = "done"]
          /\ UNCHANGED <<pos, rem, buf, inp>>
       \/ /\ n <= MaxLength
          /\ phase' = [phase EXCEPT ![c] = "first"]
          /\ inp' = [inp EXCEPT ![c] = "live"]
          /\ buf' = [buf EXCEPT ![c] = b]
          /\ pos' = [pos EXCEPT ![c] = 0]
          /\ rem' = [rem EXCEPT ![c] = n]
  BY <1>7, <1>8 DEF ReadPrefix
<1>11. TypeOK'
  <2>1. /\ consumed' \in [Conns -> Nat] /\ length' \in [Conns -> Nat]
    BY <1>2, <1>9, SMTT(40) DEF TypeOK
  <2>2. /\ buf' \in [Conns -> Seq(Units)]
        /\ pos' \in [Conns -> Nat] /\ rem' \in [Conns -> Nat]
    <3>1. CASE UNCHANGED <<pos, rem, buf, inp>>
      BY <3>1, <1>2 DEF TypeOK
    <3>2. CASE /\ buf' = [buf EXCEPT ![c] = b]
               /\ pos' = [pos EXCEPT ![c] = 0]
               /\ rem' = [rem EXCEPT ![c] = n]
      BY <3>2, <1>2 DEF TypeOK
    <3> QED
      BY <3>1, <3>2, <1>10
  <2>3. /\ phase' \in [Conns -> Phases]
        /\ inp' \in [Conns -> {"null", "live", "freed"}]
    BY <1>2, <1>10 DEF TypeOK, Phases
  <2> QED
    BY <2>1, <2>2, <2>3, <1>2, <1>9 DEF TypeOK
<1>12. ASSUME NEW d \in Conns, d # c PROVE ConnInv(d)'
  <2>1. Same(d) /\ ConnInv(d) /\ (Running' => Running)
    BY <1>2, <1>9, <1>10, <1>12, ZenonT(40) DEF IInv, TypeOK, Same, Running
  <2> QED
    BY <2>1, Untouched
<1>13. ConnInv(c)'
  <2>1. /\ sent'[c] = s /\ stream'[c] = t /\ arrived'[c] = ar
        /\ consumed'[c] = co + 1 /\ length'[c] = n /\ client'[c] = client[c]
        /\ execLog'[c] = execLog[c] /\ Len(execLog'[c]) = K
        /\ outb'[c] = outb[c]
    BY <1>1, <1>2, <1>9 DEF TypeOK
  <2>2. \/ phase'[c] = "done" /\ inp'[c] = inp[c]
        \/ /\ n <= MaxLength
           /\ phase'[c] = "first" /\ inp'[c] = "live" /\ buf'[c] = b
           /\ pos'[c] = 0 /\ rem'[c] = n
    BY <1>2, <1>10 DEF TypeOK
  <2>3. StreamLayout(c)'
    <3>1. co + 1 <= ar
      BY <1>3
    <3> QED
      BY <3>1, <2>1, <1>1, <1>2 DEF StreamLayout
  <2>4. LogsAgree(c)'
    BY <2>1, <2>2, <1>1, <1>2, <1>9 DEF LogsAgree
  <2>5. BuffersOf(c)'
    BY <2>1, <2>2, <1>2 DEF BuffersOf, Running
  <2>6. AtPosition(c)'
    <3>1. CASE phase'[c] = "done"
      BY <3>1, <2>1, <1>2 DEF AtPosition
    <3>2. CASE phase'[c] = "first"
      <4>1. /\ n <= MaxLength /\ buf'[c] = b /\ pos'[c] = 0 /\ rem'[c] = n
            /\ co + 1 = s[K + 1].at + 0 /\ 0 + n = n /\ 1..0 = {}
        BY <3>2, <2>2, <1>6
      <4>2. client'[c] # "idle"
        BY <2>1, <1>2 DEF AtPosition
      <4> QED
        BY <3>2, <4>1, <4>2, <2>1, <1>5, <1>6, <1>8 DEF AtPosition
    <3> QED
      BY <3>1, <3>2, <2>2
  <2> QED
    BY <2>3, <2>4, <2>5, <2>6 DEF ConnInv
<1> QED
  BY <1>11, <1>12, <1>13 DEF IInv

\* inp_data_ after a read of m units: the request up to there, in order.
LEMMA FilledBuffer ==
  ASSUME IInv, NEW c \in Conns, Running, phase[c] \in {"first", "rest"},
         NEW m \in Nat, m <= rem[c], m <= Readable(c)
  PROVE  LET K == Len(execLog[c]) IN
         /\ Filled(c, m) \in Seq(Units)
         /\ Len(Filled(c, m)) = length[c]
         /\ \A i \in 1..(pos[c] + m) : Filled(c, m)[i] = Unit(K + 1, i, length[c])
<1>1. PICK s \in Seq(SentRequest), t \in Seq(Units), b \in Seq(Units), K \in Nat,
           ar \in Nat, co \in Nat, l \in Nat, p \in Nat, r \in Nat :
        /\ s = sent[c] /\ t = stream[c] /\ b = buf[c] /\ K = Len(execLog[c])
        /\ ar = arrived[c] /\ co = consumed[c] /\ l = length[c] /\ p = pos[c]
        /\ r = rem[c]
  <2>1. /\ sent[c] \in Seq(SentRequest) /\ stream[c] \in Seq(Units)
        /\ buf[c] \in Seq(Units) /\ Len(execLog[c]) \in Nat
        /\ arrived[c] \in Nat /\ consumed[c] \in Nat /\ length[c] \in Nat
        /\ pos[c] \in Nat /\ rem[c] \in Nat
    BY DEF IInv, TypeOK
  <2> QED
    BY <2>1, Zenon
<1>2. StreamLayout(c) /\ AtPosition(c)
  BY DEF IInv, ConnInv
<1>3. /\ m <= r /\ m <= ar - co /\ ar <= Len(t) /\ Layout(s, t)
      /\ K + 1 <= Len(s) /\ co = s[K + 1].at + p /\ l = s[K + 1].len
      /\ p + r = l /\ Len(b) = l
      /\ \A i \in 1..p : b[i] = Unit(K + 1, i, l)
  <2>1. m <= r /\ m <= ar - co /\ ar <= Len(t) /\ Layout(s, t)
    BY <1>1, <1>2 DEF StreamLayout, Readable
  <2>2. /\ K + 1 <= Len(s) /\ co = s[K + 1].at + p /\ l = s[K + 1].len
        /\ p + r = l /\ Len(b) = l
        /\ \A i \in 1..p : b[i] = Unit(K + 1, i, l)
    BY <1>1, <1>2 DEF AtPosition
  <2> QED
    BY <2>1, <2>2
<1>4. PICK a \in Nat : a = s[K + 1].at
  <2>1. K + 1 \in 1..Len(s)
    BY <1>3
  <2> QED
    BY <2>1, SentField
<1>5. ASSUME NEW i \in (p + 1)..(p + m)
      PROVE  t[co + (i - p)] = Unit(K + 1, i, l)
  <2>1. /\ co = a + p /\ s[K + 1].len = l /\ s[K + 1].at = a
        /\ K + 1 \in 1..Len(s) /\ Len(t) \in Nat
    BY <1>3, <1>4
  <2>2. /\ i \in 0..l /\ a + i = co + (i - p) /\ a + i <= Len(t)
    BY <1>3, <2>1
  <2>3. t[a + i] = Unit(K + 1, i, l)
    BY <2>1, <2>2, <1>3 DEF Layout
  <2> QED
    BY <2>2, <2>3
<1>6. Filled(c, m) = [i \in 1..l |-> IF i \in (p + 1)..(p + m)
                                    THEN t[co + (i - p)] ELSE b[i]]
  <2>1. Filled(c, m) = [i \in 1..length[c] |->
                          IF i \in (pos[c] + 1)..(pos[c] + m)
                          THEN stream[c][consumed[c] + (i - pos[c])]
                          ELSE buf[c][i]]
    BY DEF Filled
  <2> QED
    BY <1>1, <2>1, Zenon
<1>7. ASSUME NEW i \in 1..l
      PROVE  (IF i \in (p + 1)..(p + m) THEN t[co + (i - p)] ELSE b[i]) \in Units
  <2>1. CASE i \in (p + 1)..(p + m)
    <3>1. K + 1 \in Nat /\ i \in Nat
      OBVIOUS
    <3>2. Unit(K + 1, i, l) \in Units
      BY <3>1, UnitType
    <3> QED
      BY <2>1, <3>2, <1>5
  <2>2. CASE i \notin (p + 1)..(p + m)
    BY <2>2, <1>3
  <2> QED
    BY <2>1, <2>2
<1>8. PICK f : f = Filled(c, m)
  OBVIOUS
<1>9. f \in Seq(Units) /\ Len(f) = l
  BY <1>6, <1>7, <1>8
<1>10. ASSUME NEW i \in 1..(p + m) PROVE f[i] = Unit(K + 1, i, l)
  <2>1. i \in 1..l
    BY <1>3
  <2>2. f[i] = IF i \in (p + 1)..(p + m) THEN t[co + (i - p)] ELSE b[i]
    BY <2>1, <1>6, <1>8
  <2>3. CASE i \in (p + 1)..(p + m)
    BY <2>2, <2>3, <1>5
  <2>4. CASE i \notin (p + 1)..(p + m)
    <3>1. i \in 1..p
      BY <2>4
    <3> QED
      BY <2>2, <2>4, <3>1, <1>3
  <2> QED
    BY <2>3, <2>4
<1> QED
  BY <1>1, <1>8, <1>9, <1>10

\* A full buffer holds the payload of the request.
LEMMA FullBuffer ==
  ASSUME NEW f \in Seq(Units), NEW l \in Nat, NEW k, Len(f) = l,
         \A i \in 1..l : f[i] = Unit(k, i, l)
  PROVE  SubSeq(f, 1, l) = Payload(k, l) /\ Payload(k, l) \in Seq(Units)
<1>1. SubSeq(f, 1, l) = f
  BY SubSeqFull
<1>2. f = [i \in 1..l |-> f[i]]
  BY LenProperties
<1>3. Payload(k, l) = f
  BY <1>2 DEF Payload
<1> QED
  BY <1>1, <1>3

\* The completion of a read: either there is more to come, and the read pointer
\* moves on, or the request is complete and is executed.
LEMMA InvReadHandler ==
  ASSUME IInv, NEW c \in Conns, NEW n \in 0..MaxLength,
         FirstReadHandler(c, n) \/ RestReadHandler(c, n)
  PROVE  IInv'
<1>1. /\ Running /\ TypeOK /\ phase[c] \in {"first", "rest"} /\ Received(c, n)
      /\ ConnInv(c) /\ StreamLayout(c) /\ LogsAgree(c) /\ AtPosition(c)
      /\ BuffersOf(c)
  BY DEF FirstReadHandler, RestReadHandler, IInv, ConnInv
<1>2. PICK s \in Seq(SentRequest), t \in Seq(Units), e \in Seq(Seq(Units)),
           ar \in Nat, co \in Nat, l \in Nat, p \in Nat, r \in Nat :
        /\ s = sent[c] /\ t = stream[c] /\ e = execLog[c] /\ ar = arrived[c]
        /\ co = consumed[c] /\ l = length[c] /\ p = pos[c] /\ r = rem[c]
  <2>1. /\ sent[c] \in Seq(SentRequest) /\ stream[c] \in Seq(Units)
        /\ execLog[c] \in Seq(Seq(Units)) /\ arrived[c] \in Nat
        /\ consumed[c] \in Nat /\ length[c] \in Nat /\ pos[c] \in Nat
        /\ rem[c] \in Nat
    BY <1>1 DEF TypeOK
  <2> QED
    BY <2>1, Zenon
<1>3. PICK K \in Nat : K = Len(e)
  OBVIOUS
<1>4. /\ co <= ar /\ ar <= Len(t) /\ Layout(s, t) /\ K <= Len(s)
      /\ K + 1 <= Len(s) /\ co = s[K + 1].at + p /\ l = s[K + 1].len
      /\ p + r = l /\ l <= MaxLength
      /\ phase[c] = "first" => p = 0 /\ r = l
  <2>1. co <= ar /\ ar <= Len(t) /\ Layout(s, t)
    BY <1>1, <1>2 DEF StreamLayout
  <2>2. /\ K + 1 <= Len(s) /\ co = s[K + 1].at + p /\ l = s[K + 1].len
        /\ p + r = l /\ l <= MaxLength
        /\ phase[c] = "first" => p = 0
    BY <1>1, <1>2, <1>3 DEF AtPosition
  <2> QED
    BY <2>1, <2>2
<1>5. n \in Nat /\ n <= r /\ n <= ar - co
  <2>1. IF r = 0 THEN n = 0 ELSE n \in 1..r /\ n <= ar - co
    BY <1>1, <1>2 DEF Received, Readable
  <2> QED
    BY <2>1, <1>4
<1>6. PICK f \in Seq(Units) :
        /\ f = Filled(c, n) /\ Len(f) = l
        /\ \A i \in 1..(p + n) : f[i] = Unit(K + 1, i, l)
  <2>1. n <= rem[c] /\ n <= Readable(c)
    BY <1>2, <1>5 DEF Readable
  <2> QED
    BY <2>1, <1>1, <1>2, <1>3, <1>5, FilledBuffer
<1>7. /\ consumed' = [consumed EXCEPT ![c] = @ + n]
      /\ buf' = [buf EXCEPT ![c] = f]
      /\ UNCHANGED <<client, sent, stream, arrived, length, inp, replies, armed,
                     sig, signals>>
  BY <1>1, <1>6 DEF Received, FirstReadHandler, RestReadHandler, netVars
<1>8. \/ n < r /\ ReadRest(c, n)
      \/ n = r /\ DoWrite(c, f, l) /\ UNCHANGED <<pos, rem>>
  <2>1. \/ n < r /\ ReadRest(c, n)
        \/ n >= r /\ DoWrite(c, f, l) /\ UNCHANGED <<pos, rem>>
    <3>1. CASE FirstReadHandler(c, n)
      BY <3>1, <1>2, <1>4, <1>6 DEF FirstReadHandler
    <3>2. CASE RestReadHandler(c, n)
      BY <3>2, <1>2, <1>6 DEF RestReadHandler
    <3> QED
      BY <3>1, <3>2
  <2> QED
    BY <2>1, <1>5
<1>9. consumed' \in [Conns -> Nat] /\ buf' \in [Conns -> Seq(Units)]
  BY <1>1, <1>5, <1>7, SMTT(40) DEF TypeOK
<1>10. /\ sent'[c] = s /\ stream'[c] = t /\ arrived'[c] = ar
       /\ consumed'[c] = co + n /\ length'[c] = l /\ buf'[c] = f
       /\ client'[c] = client[c] /\ inp'[c] = inp[c] /\ replies'[c] = replies[c]
  BY <1>1, <1>2, <1>7 DEF TypeOK
<1>11. StreamLayout(c)'
  <2>1. co + n <= ar
    BY <1>4, <1>5, SMTT(40)
  <2> QED
    BY <2>1, <1>1, <1>2, <1>10 DEF StreamLayout
<1>12. CASE n < r /\ ReadRest(c, n)
  <2>1. /\ phase' = [phase EXCEPT ![c] = "rest"]
        /\ pos' = [pos EXCEPT ![c] = p + n]
        /\ rem' = [rem EXCEPT ![c] = r - n]
        /\ UNCHANGED <<outb, overrun, execLog, proc>>
    BY <1>2, <1>12 DEF ReadRest
  <2>2. TypeOK'
    <3>1. r - n \in Nat /\ p + n \in Nat
      BY <1>5
    <3>2. pos' \in [Conns -> Nat] /\ rem' \in [Conns -> Nat]
      BY <3>1, <2>1, <1>1 DEF TypeOK
    <3>3. phase' \in [Conns -> Phases]
      BY <2>1, <1>1 DEF TypeOK, Phases
    <3> QED
      BY <3>2, <3>3, <2>1, <1>1, <1>7, <1>9 DEF TypeOK
  <2>3. ASSUME NEW d \in Conns, d # c PROVE ConnInv(d)'
    <3>1. Same(d) /\ ConnInv(d) /\ (Running' => Running)
      BY <2>1, <2>3, <1>1, <1>7 DEF IInv, TypeOK, Same, Running
    <3> QED
      BY <3>1, Untouched
  <2>4. /\ phase'[c] = "rest" /\ pos'[c] = p + n /\ rem'[c] = r - n
        /\ execLog'[c] = e /\ outb'[c] = outb[c]
    BY <2>1, <1>1, <1>2 DEF TypeOK
  <2>5. LogsAgree(c)' /\ BuffersOf(c)'
    BY <2>4, <2>1, <1>1, <1>2, <1>10 DEF LogsAgree, BuffersOf, Running
  <2>6. AtPosition(c)'
    <3>1. /\ co + n = s[K + 1].at + (p + n) /\ (p + n) + (r - n) = l
          /\ r - n > 0
      <4>1. K + 1 \in 1..Len(s)
        BY <1>4
      <4>2. PICK a \in Nat : a = s[K + 1].at
        BY <4>1, SentField
      <4>3. co = a + p
        BY <4>2, <1>4
      <4>4. co + n = a + (p + n) /\ (p + n) + (r - n) = l /\ r - n > 0
        BY <4>3, <1>4, <1>5, <1>12
      <4> QED
        BY <4>2, <4>4
    <3>2. client'[c] # "idle"
      BY <1>1, <1>10 DEF AtPosition
    <3> QED
      BY <3>1, <3>2, <2>4, <1>3, <1>4, <1>6, <1>10 DEF AtPosition
  <2> QED
    BY <2>2, <2>3, <2>5, <2>6, <1>11 DEF IInv, ConnInv
<1>13. CASE n = r /\ DoWrite(c, f, l) /\ UNCHANGED <<pos, rem>>
  <2>1. p + n = l
    BY <1>4, <1>13
  <2>2. SubSeq(f, 1, l) = Payload(K + 1, l) /\ Payload(K + 1, l) \in Seq(Units)
    BY <2>1, <1>6, FullBuffer
  <2>3. PICK w \in Seq(Units) : w = Payload(K + 1, l) /\ w = SubSeq(f, 1, l)
    BY <2>2
  <2>4. /\ outb' = [outb EXCEPT ![c] = "live"] /\ UNCHANGED <<pos, rem>>
        /\ \/ /\ execLog' = [execLog EXCEPT ![c] = Append(e, w)]
              /\ overrun' \in BOOLEAN
              /\ phase' = [phase EXCEPT ![c] = "write"]
              /\ proc' = proc
           \/ proc' = "crashed" /\ UNCHANGED <<execLog, overrun, phase>>
    <3>1. CASE \E out_len \in ReplyLens :
                 /\ execLog' = [execLog EXCEPT
                                 ![c] = Append(@, SubSeq(f, 1, l))]
                 /\ overrun' = (overrun \/ size32 + out_len > l + size32)
                 /\ phase' = [phase EXCEPT ![c] = "write"]
                 /\ UNCHANGED proc
      <4>1. overrun' \in BOOLEAN
        BY <3>1, Zenon
      <4> QED
        BY <3>1, <4>1, <2>3, <1>2, <1>13 DEF DoWrite
    <3>2. CASE proc' = "crashed" /\ UNCHANGED <<execLog, overrun, phase>>
      BY <3>2, <1>13 DEF DoWrite
    <3> QED
      BY <3>1, <3>2, <1>13 DEF DoWrite
  <2>5. TypeOK'
    <3>1. outb' \in [Conns -> {"null", "live", "freed"}]
      BY <2>4, <1>1 DEF TypeOK
    <3>2. CASE proc' = "crashed" /\ UNCHANGED <<execLog, overrun, phase>>
      BY <3>1, <3>2, <2>4, <1>1, <1>7, <1>9 DEF TypeOK
    <3>3. CASE /\ execLog' = [execLog EXCEPT ![c] = Append(e, w)]
               /\ overrun' \in BOOLEAN
               /\ phase' = [phase EXCEPT ![c] = "write"]
               /\ proc' = proc
      <4>1. execLog' \in [Conns -> Seq(Seq(Units))]
        BY <3>3, <1>1 DEF TypeOK
      <4>2. phase' \in [Conns -> Phases]
        BY <3>3, <1>1 DEF TypeOK, Phases
      <4> QED
        BY <3>1, <3>3, <4>1, <4>2, <2>4, <1>1, <1>7, <1>9 DEF TypeOK
    <3> QED
      BY <3>2, <3>3, <2>4
  <2>6. ASSUME NEW d \in Conns, d # c PROVE ConnInv(d)'
    <3>1. Same(d) /\ ConnInv(d) /\ (Running' => Running)
      BY <2>4, <2>6, <1>1, <1>7 DEF IInv, TypeOK, Same, Running
    <3> QED
      BY <3>1, Untouched
  <2>7. ConnInv(c)'
    <3>1. CASE proc' = "crashed" /\ UNCHANGED <<execLog, overrun, phase>>
      <4>1. LogsAgree(c)'
        BY <3>1, <1>1, <1>2, <1>10 DEF LogsAgree
      <4>2. phase'[c] = phase[c] /\ ~Running'
        BY <3>1 DEF Running
      <4>3. BuffersOf(c)'
        BY <4>2, <1>1, <1>10 DEF BuffersOf
      <4> QED
        BY <3>1, <4>1, <4>3, <1>11 DEF ConnInv, Running
    <3>2. CASE /\ execLog' = [execLog EXCEPT ![c] = Append(e, w)]
               /\ phase' = [phase EXCEPT ![c] = "write"]
      <4>1. /\ execLog'[c] = Append(e, w) /\ phase'[c] = "write"
            /\ outb'[c] = "live" /\ inp'[c] = "live"
        BY <3>2, <2>4, <1>1, <1>10 DEF TypeOK, BuffersOf
      <4>2. /\ Len(Append(e, w)) = K + 1 /\ Append(e, w)[K + 1] = w
            /\ \A j \in 1..K : Append(e, w)[j] = e[j]
        BY <1>3, AppendProperties
      <4>3. PICK rep \in Seq(Seq(Units)) : rep = replies[c] /\ rep = replies'[c]
        BY <1>1, <1>10 DEF TypeOK
      <4>4. /\ Len(rep) = K /\ \A j \in 1..K : rep[j] = e[j]
            /\ \A j \in 1..K : e[j] = Payload(j, s[j].len)
        BY <4>3, <1>1, <1>2, <1>3 DEF LogsAgree
      <4>5. LogsAgree(c)'
        <5>1. \A j \in 1..(K + 1) : Append(e, w)[j] = Payload(j, s[j].len)
          <6> SUFFICES ASSUME NEW j \in 1..(K + 1)
                       PROVE  Append(e, w)[j] = Payload(j, s[j].len)
            OBVIOUS
          <6>1. CASE j = K + 1
            BY <6>1, <4>2, <2>3, <1>4
          <6>2. CASE j \in 1..K
            <7>1. e[j] = Payload(j, s[j].len)
              BY <6>2, <4>4
            <7> QED
              BY <7>1, <6>2, <4>2
          <6>3. j = K + 1 \/ j \in 1..K
            OBVIOUS
          <6> QED
            BY <6>1, <6>2, <6>3
        <5>2. \A j \in 1..K : rep[j] = Append(e, w)[j]
          BY <4>2, <4>4
        <5>3. K <= K + 1
          OBVIOUS
        <5> QED
          BY <5>1, <5>2, <5>3, <4>1, <4>2, <4>3, <4>4, <1>4, <1>10, ZenonT(40)
             DEF LogsAgree
      <4>6. AtPosition(c)'
        <5>1. co + n = End(s, K + 1)
          <6>1. K + 1 \in 1..Len(s) /\ K + 1 # 0
            BY <1>4
          <6>2. PICK a \in Nat : a = s[K + 1].at
            BY <6>1, SentField
          <6>3. co = a + p
            BY <6>2, <1>4
          <6>4. co + n = a + l
            BY <6>3, <2>1
          <6> QED
            BY <6>1, <6>2, <6>4, <1>4 DEF End
        <5>2. client'[c] # "idle"
          BY <1>1, <1>10 DEF AtPosition
        <5> QED
          BY <5>1, <5>2, <4>1, <4>2, <1>10 DEF AtPosition
      <4>7. BuffersOf(c)'
        BY <4>1 DEF BuffersOf
      <4> QED
        BY <4>5, <4>6, <4>7, <1>11 DEF ConnInv
    <3> QED
      BY <3>1, <3>2, <2>4
  <2> QED
    BY <2>5, <2>6, <2>7 DEF IInv
<1> QED
  BY <1>8, <1>12, <1>13

\* The kernel takes the reply.
LEMMA InvWriteAll ==
  ASSUME IInv, NEW c \in Conns, WriteAll(c) PROVE IInv'
<1>1. PICK e \in Seq(Seq(Units)), rep \in Seq(Seq(Units)) :
        e = execLog[c] /\ rep = replies[c]
  BY DEF IInv, TypeOK
<1>2. /\ Running /\ TypeOK /\ phase[c] = "write" /\ StreamLayout(c)
      /\ LogsAgree(c) /\ AtPosition(c) /\ BuffersOf(c)
  BY DEF WriteAll, IInv, ConnInv
<1>3. PICK K \in Nat : K = Len(rep)
  OBVIOUS
<1>4. /\ Len(e) = K + 1
      /\ \A k \in 1..K : rep[k] = e[k]
  BY <1>1, <1>2, <1>3 DEF LogsAgree
<1>5. PICK w \in Seq(Units) : w = e[K + 1]
  BY <1>4
<1>6. /\ phase' = [phase EXCEPT ![c] = "wrote"]
      /\ replies' = [replies EXCEPT ![c] = Append(rep, w)]
      /\ UNCHANGED <<client, sent, stream, arrived, consumed, length, pos, rem,
                     buf, inp, outb, overrun, execLog, armed, sig, signals, proc>>
  BY <1>1, <1>4, <1>5 DEF WriteAll, netVars, readVars, heapVars, procVars
<1>7. TypeOK'
  <2>1. phase' \in [Conns -> Phases]
    BY <1>2, <1>6 DEF TypeOK, Phases
  <2>2. replies' \in [Conns -> Seq(Seq(Units))]
    BY <1>2, <1>6 DEF TypeOK
  <2> QED
    BY <2>1, <2>2, <1>2, <1>6 DEF TypeOK
<1>8. ASSUME NEW d \in Conns, d # c PROVE ConnInv(d)'
  <2>1. Same(d) /\ ConnInv(d) /\ (Running' => Running)
    BY <1>2, <1>6, <1>8 DEF IInv, TypeOK, Same, Running
  <2> QED
    BY <2>1, Untouched
<1>9. ConnInv(c)'
  <2>1. phase'[c] = "wrote" /\ replies'[c] = Append(rep, w)
    BY <1>2, <1>6 DEF TypeOK
  <2>2. /\ Len(Append(rep, w)) = K + 1 /\ Append(rep, w)[K + 1] = w
        /\ \A k \in 1..K : Append(rep, w)[k] = rep[k]
    BY <1>3, AppendProperties
  <2>3. ASSUME NEW k \in 1..(K + 1) PROVE Append(rep, w)[k] = e[k]
    <3>1. k = K + 1 \/ k \in 1..K
      OBVIOUS
    <3>2. CASE k = K + 1
      BY <3>2, <2>2, <1>5
    <3>3. CASE k \in 1..K
      <4>1. Append(rep, w)[k] = rep[k] /\ rep[k] = e[k]
        BY <3>3, <2>2, <1>4
      <4> QED
        BY <4>1
    <3> QED
      BY <3>1, <3>2, <3>3
  <2>4. LogsAgree(c)'
    BY <2>1, <2>2, <2>3, <1>1, <1>2, <1>4, <1>6 DEF LogsAgree
  <2>5. StreamLayout(c)' /\ AtPosition(c)' /\ BuffersOf(c)'
    BY <2>1, <1>2, <1>6 DEF StreamLayout, AtPosition, BuffersOf
  <2> QED
    BY <2>4, <2>5 DEF ConnInv
<1> QED
  BY <1>7, <1>8, <1>9 DEF IInv

\* The completion of the write: both buffers go.
LEMMA InvWriteHandler ==
  ASSUME IInv, NEW c \in Conns, WriteHandler(c) PROVE IInv'
<1>1. /\ Running /\ TypeOK /\ phase[c] \in {"write", "wrote"} /\ StreamLayout(c)
      /\ LogsAgree(c) /\ AtPosition(c)
  BY DEF WriteHandler, IInv, ConnInv
<1>2. /\ \/ phase[c] = "wrote" /\ phase' = [phase EXCEPT ![c] = "header"]
         \/ phase' = [phase EXCEPT ![c] = "done"]
      /\ inp' = [inp EXCEPT ![c] = "freed"]
      /\ outb' = [outb EXCEPT ![c] = "freed"]
      /\ UNCHANGED <<client, sent, stream, arrived, consumed, length, pos, rem,
                     buf, overrun, execLog, replies, armed, sig, signals, proc>>
  BY DEF WriteHandler, StartRead, netVars, readVars, logVars, procVars
<1>3. TypeOK'
  <2>1. phase' \in [Conns -> Phases]
    BY <1>1, <1>2, ZenonT(40) DEF TypeOK, Phases
  <2>2. /\ inp' \in [Conns -> {"null", "live", "freed"}]
        /\ outb' \in [Conns -> {"null", "live", "freed"}]
    BY <1>1, <1>2 DEF TypeOK
  <2> QED
    BY <2>1, <2>2, <1>1, <1>2 DEF TypeOK
<1>4. ASSUME NEW d \in Conns, d # c PROVE ConnInv(d)'
  <2>1. Same(d) /\ ConnInv(d) /\ (Running' => Running)
    BY <1>1, <1>2, <1>4 DEF IInv, TypeOK, Same, Running
  <2> QED
    BY <2>1, Untouched
<1>5. ConnInv(c)'
  <2>1. /\ phase'[c] = "done" \/ (phase[c] = "wrote" /\ phase'[c] = "header")
        /\ inp'[c] = "freed" /\ outb'[c] = "freed"
    BY <1>1, <1>2 DEF TypeOK
  <2>2. StreamLayout(c)' /\ LogsAgree(c)' /\ AtPosition(c)' /\ BuffersOf(c)'
    BY <2>1, <1>1, <1>2 DEF StreamLayout, LogsAgree, AtPosition, BuffersOf
  <2> QED
    BY <2>2 DEF ConnInv
<1> QED
  BY <1>3, <1>4, <1>5 DEF IInv

-----------------------------------------------------------------------------
(* Signals and the end of the process.                                     *)

\* A signal, whether or not it breaks off the blocking read.
LEMMA InvSignal ==
  ASSUME IInv, Signal PROVE IInv'
<1>1. TypeOK /\ Running
  BY DEF IInv, Signal
<1>2. /\ signals' = signals + 1 /\ signals < MaxSignals /\ sig' = TRUE
      /\ UNCHANGED <<client, sent, stream, arrived, consumed, length, pos, rem,
                     buf, inp, outb, overrun, execLog, replies, proc>>
  BY DEF Signal, netVars, readVars, heapVars, logVars
<1>3. \/ UNCHANGED <<phase, armed>>
      \/ \E c \in Conns : /\ phase[c] = "header" /\ armed' = TRUE
                         /\ phase' = [phase EXCEPT ![c] = "done"]
  BY DEF Signal
<1>4. TypeOK'
  <2>1. signals' \in 0..MaxSignals
    BY <1>1, <1>2, SessionAssumption DEF TypeOK
  <2>2. armed' \in BOOLEAN /\ phase' \in [Conns -> Phases]
    BY <1>1, <1>3 DEF TypeOK, Phases
  <2> QED
    BY <2>1, <2>2, <1>1, <1>2 DEF TypeOK
<1>5. ASSUME NEW d \in Conns PROVE ConnInv(d)'
  <2>1. CASE phase'[d] = phase[d]
    <3>1. Same(d) /\ ConnInv(d) /\ (Running' => Running)
      BY <2>1, <1>1, <1>2 DEF IInv, TypeOK, Same, Running
    <3> QED
      BY <3>1, Untouched
  <2>2. CASE phase[d] = "header" /\ phase'[d] = "done"
    <3>1. StreamLayout(d) /\ LogsAgree(d) /\ AtPosition(d) /\ BuffersOf(d)
      BY <1>1 DEF IInv, ConnInv
    <3>2. StreamLayout(d)' /\ LogsAgree(d)' /\ AtPosition(d)' /\ BuffersOf(d)'
      BY <3>1, <2>2, <1>1, <1>2
         DEF StreamLayout, LogsAgree, AtPosition, BuffersOf, Running
    <3> QED
      BY <3>2 DEF ConnInv
  <2>3. phase'[d] = phase[d] \/ (phase[d] = "header" /\ phase'[d] = "done")
    BY <1>1, <1>3 DEF TypeOK
  <2> QED
    BY <2>1, <2>2, <2>3
<1> QED
  BY <1>4, <1>5 DEF IInv

\* The signal handler, the abort of a broken heap, and steps that change
\* nothing.
LEMMA InvEnd ==
  ASSUME IInv, SignalHandler \/ HeapAbort \/ UNCHANGED vars PROVE IInv'
<1>1. TypeOK
  BY DEF IInv
<1>2. /\ UNCHANGED <<client, sent, stream, arrived, consumed, length, pos, rem,
                     buf, inp, outb, overrun, execLog, replies, phase, armed,
                     signals>>
      /\ sig' \in {sig, FALSE} /\ proc' \in {proc, "stopped", "crashed"}
  BY DEF SignalHandler, HeapAbort, vars, netVars, readVars, heapVars, logVars,
         procVars
<1>3. TypeOK'
  BY <1>1, <1>2 DEF TypeOK
<1>4. ASSUME NEW d \in Conns PROVE ConnInv(d)'
  <2>1. Same(d) /\ ConnInv(d) /\ (Running' => Running)
    BY <1>2 DEF IInv, TypeOK, Same, Running
  <2> QED
    BY <2>1, Untouched
<1> QED
  BY <1>3, <1>4 DEF IInv

-----------------------------------------------------------------------------
(* The theorems.                                                           *)

\* Every step keeps the invariant.
LEMMA InvNext == IInv /\ [Next]_vars => IInv'
<1> SUFFICES ASSUME IInv, [Next]_vars PROVE IInv'
  OBVIOUS
<1>1. ASSUME NEW c \in Conns, ClientStep(c) PROVE IInv'
  BY <1>1, InvConnect, InvClientSend, InvClientClose DEF ClientStep
<1>2. ASSUME NEW c \in Conns, Handlers(c) PROVE IInv'
  BY <1>2, InvAcceptHandler, InvReadPrefix, InvReadErrors, InvReadHandler,
     InvWriteHandler DEF Handlers
<1> QED
  BY <1>1, <1>2, InvDeliver, InvWriteAll, InvSignal, InvEnd DEF Next

\* The invariant holds throughout.
THEOREM Invariance == Spec => []IInv
BY InvInit, InvNext, PTL DEF Spec

\* What the network layer stores in its fields is of the type declared for
\* them (networkinterface.hpp:24-28); in particular the byte counts that
\* read_rest is called with never go below zero.
THEOREM TypeCorrect == Spec => []TypeOK
<1>1. IInv => TypeOK
  BY DEF IInv
<1> QED
  BY <1>1, Invariance, PTL

\* For any number of connections and any lengths, the session keeps its place
\* in the stream and exec_json is called with what was sent
\* (networkinterface.cc:7-55).
THEOREM FramingHolds == Spec => []Framing
<1>1. IInv => Framing
  BY DEF IInv, ConnInv, Framing
<1> QED
  BY <1>1, Invariance, PTL

\* The buffers of a session are there whenever an operation uses them, and are
\* not kept from one request to the next (networkinterface.cc:18,35,52,63-64).
THEOREM BuffersHold == Spec => []BufferDiscipline
<1>1. IInv => BufferDiscipline
  BY DEF IInv, ConnInv, BufferDiscipline
<1> QED
  BY <1>1, Invariance, PTL

-----------------------------------------------------------------------------
(* Session implements Rpc: each step of a session is a step of the protocol *)
(* or leaves it as it is.                                                   *)


\* The payload of a request is a string of bytes.
LEMMA PayloadType ==
  ASSUME NEW k \in Nat, NEW n \in Nat PROVE Payload(k, n) \in Seq(Units)
<1>1. ASSUME NEW i \in 1..n PROVE Unit(k, i, n) \in Units
  BY UnitType
<1> QED
  BY <1>1 DEF Payload

\* One more request sent is one more request meant.
LEMMA MeantAppend ==
  ASSUME NEW s \in Seq(SentRequest), NEW r \in SentRequest
  PROVE  Meant(Append(s, r)) = Append(Meant(s), Payload(Len(s) + 1, r.len))
<1> DEFINE q == Append(s, r)
           w == Payload(Len(s) + 1, r.len)
<1>1. /\ q \in Seq(SentRequest) /\ Len(q) = Len(s) + 1 /\ q[Len(s) + 1] = r
      /\ \A j \in 1..Len(s) : q[j] = s[j]
  BY AppendProperties
<1>2. ASSUME NEW z \in Seq(SentRequest)
      PROVE  Meant(z) \in Seq(Seq(Units)) /\ Len(Meant(z)) = Len(z)
  <2>1. ASSUME NEW k \in 1..Len(z) PROVE Payload(k, z[k].len) \in Seq(Units)
    <3>1. k \in Nat /\ z[k].len \in Nat
      BY SentField
    <3> QED
      BY <3>1, PayloadType
  <2> QED
    BY <2>1 DEF Meant
<1>3. w \in Seq(Units)
  <2>0. Len(s) + 1 \in Nat
    OBVIOUS
  <2>1. r.len \in Nat
    BY SessionAssumption DEF SentRequest
  <2> QED
    BY <2>0, <2>1, PayloadType
<1> HIDE DEF q, w
<1>4. /\ Append(Meant(s), w) \in Seq(Seq(Units))
      /\ Len(Append(Meant(s), w)) = Len(s) + 1
      /\ Append(Meant(s), w)[Len(s) + 1] = w
      /\ \A j \in 1..Len(s) : Append(Meant(s), w)[j] = Meant(s)[j]
  BY <1>2, <1>3, AppendProperties
<1>5. ASSUME NEW j \in 1..(Len(s) + 1)
      PROVE  Meant(q)[j] = Append(Meant(s), w)[j]
  <2>0. j = Len(s) + 1 \/ j \in 1..Len(s)
    OBVIOUS
  <2>1. Meant(q)[j] = Payload(j, q[j].len)
    BY <1>1 DEF Meant
  <2>2. CASE j = Len(s) + 1
    BY <2>1, <2>2, <1>1, <1>4 DEF w
  <2>3. CASE j \in 1..Len(s)
    <3>1. Meant(s)[j] = Payload(j, s[j].len)
      BY <2>3 DEF Meant
    <3>2. q[j] = s[j] /\ Append(Meant(s), w)[j] = Meant(s)[j]
      BY <2>3, <1>1, <1>4
    <3> QED
      BY <2>1, <3>1, <3>2
  <2> QED
    BY <2>0, <2>2, <2>3
<1>6. Meant(q) = Append(Meant(s), w)
  <2>1. Meant(q) \in Seq(Seq(Units)) /\ Len(Meant(q)) = Len(s) + 1
    BY <1>1, <1>2
  <2> QED
    BY <2>1, <1>4, <1>5, SeqEqual
<1> QED
  BY <1>6 DEF q, w

\* A step that sends, executes and answers nothing, and revives nothing, is a
\* step of Rpc that drops what it ends.
LEMMA SilentStep ==
  ASSUME UNCHANGED <<sent, execLog, replies>>,
         DroppedConns \subseteq DroppedConns'
  PROVE  Abstract!RpcNext
<1>1. RequestsOf' = RequestsOf
  BY DEF RequestsOf
<1>2. /\ DroppedConns' \in SUBSET Conns
      /\ DroppedConns' = DroppedConns \cup DroppedConns'
  BY DEF DroppedConns
<1> QED
  BY <1>1, <1>2 DEF Abstract!RpcNext, Abstract!Drop, RequestsOf, DroppedConns

\* ClientSend is Send.
LEMMA SendStep ==
  ASSUME IInv, NEW c \in Conns, NEW n \in Lengths, ClientSend(c, n)
  PROVE  Abstract!RpcNext
<1>1. TypeOK
  BY DEF IInv
<1>2. PICK s \in Seq(SentRequest), r \in SentRequest :
        /\ s = sent[c] /\ r.len = n
        /\ sent' = [sent EXCEPT ![c] = Append(s, r)]
  <2>1. [len |-> n, at |-> Len(stream[c]) + 1] \in SentRequest
    BY <1>1 DEF SentRequest, TypeOK
  <2>2. sent[c] \in Seq(SentRequest)
    BY <1>1 DEF TypeOK
  <2> QED
    BY <2>1, <2>2 DEF ClientSend
<1>3. Len(s) + 1 \in 1..(MaxReqs + 1)
  <2>1. Len(s) + 1 <= 1 \/ Len(s) + 1 <= MaxReqs
    BY <1>2 DEF ClientSend
  <2> QED
    BY <2>1, SessionAssumption
<1>4. /\ sent'[c] = Append(s, r)
      /\ \A d \in Conns \ {c} : sent'[d] = sent[d]
  BY <1>1, <1>2 DEF TypeOK
<1>5. PICK w \in AllPayloads : w = Payload(Len(s) + 1, n)
  BY <1>3 DEF AllPayloads
<1>6. RequestsOf' = [RequestsOf EXCEPT ![c] = Append(@, w)]
  <2>1. Meant(sent'[c]) = Append(Meant(sent[c]), w)
    BY <1>2, <1>4, <1>5, MeantAppend
  <2> QED
    BY <1>4, <2>1 DEF RequestsOf
<1>7. UNCHANGED <<execLog, replies, DroppedConns>>
  BY DEF ClientSend, logVars, procVars, DroppedConns
<1>8. Abstract!Send(c)
  BY <1>6, <1>7 DEF Abstract!Send
<1> QED
  BY <1>8 DEF Abstract!RpcNext

\* The completion of the last read of a request is Execute (or the end of the
\* process), that of any other read is nothing.
LEMMA ReadStep ==
  ASSUME IInv, IInv', NEW c \in Conns, NEW n \in 0..MaxLength,
         FirstReadHandler(c, n) \/ RestReadHandler(c, n)
  PROVE  Abstract!RpcNext
<1>1. /\ TypeOK /\ Running /\ phase[c] \in {"first", "rest"} /\ LogsAgree(c)
      /\ LogsAgree(c)'
      /\ UNCHANGED <<sent, replies>>
  BY DEF FirstReadHandler, RestReadHandler, IInv, ConnInv, netVars
<1>2. \/ ReadRest(c, n)
      \/ DoWrite(c, Filled(c, n), length[c])
  BY DEF FirstReadHandler, RestReadHandler
<1>3. RequestsOf' = RequestsOf
  BY <1>1 DEF RequestsOf
<1>4. CASE ReadRest(c, n)
  <2>1. DroppedConns \subseteq DroppedConns' /\ UNCHANGED execLog
    BY <1>4, <1>1 DEF ReadRest, DroppedConns, TypeOK
  <2> QED
    BY <2>1, <1>1, SilentStep
<1>5. CASE proc' = "crashed" /\ UNCHANGED <<execLog, phase>>
  <2>1. DroppedConns \subseteq DroppedConns'
    BY <1>5 DEF DroppedConns
  <2> QED
    BY <2>1, <1>1, <1>5, SilentStep
<1>6. CASE /\ execLog' = [execLog EXCEPT ![c] =
                            Append(@, SubSeq(Filled(c, n), 1, length[c]))]
           /\ phase' = [phase EXCEPT ![c] = "write"] /\ proc' = proc
  <2> DEFINE w == SubSeq(Filled(c, n), 1, length[c])
  <2>1. PICK e \in Seq(Seq(Units)), s \in Seq(SentRequest) :
           e = execLog[c] /\ s = sent[c]
    BY <1>1 DEF TypeOK
  <2>2. execLog' = [execLog EXCEPT ![c] = Append(e, w)]
    BY <2>1, <1>6
  <2> HIDE DEF w
  <2>3. PICK K \in Nat : K = Len(e)
    BY <2>1
  <2>4. execLog'[c] = Append(e, w)
    BY <2>2, <1>1 DEF TypeOK
  <2>5. Len(Append(e, w)) = K + 1 /\ Append(e, w)[K + 1] = w
    BY <2>3
  <2>6. K + 1 <= Len(s) /\ w = Payload(K + 1, s[K + 1].len)
    <3>1. sent'[c] = s
      BY <1>1, <2>1
    <3>2. /\ Len(Append(e, w)) <= Len(s)
          /\ \A k \in 1..Len(Append(e, w)) :
               Append(e, w)[k] = Payload(k, s[k].len)
      BY <3>1, <2>4, <1>1 DEF LogsAgree
    <3> QED
      BY <3>2, <2>5, SMTT(40)
  <2>7. Len(Meant(s)) = Len(s) /\ Meant(s)[K + 1] = w
    BY <2>6 DEF Meant
  <2>8. RequestsOf[c] = Meant(s)
    BY <2>1 DEF RequestsOf
  <2>9. Len(replies[c]) = Len(execLog[c]) /\ c \notin DroppedConns
    BY <1>1 DEF LogsAgree, DroppedConns, Running
  <2>10. DroppedConns' = DroppedConns
    BY <1>1, <1>6 DEF DroppedConns, TypeOK
  <2>11. Len(execLog[c]) + 1 <= Len(RequestsOf[c])
         /\ execLog' = [execLog EXCEPT ![c] =
                         Append(@, RequestsOf[c][Len(execLog[c]) + 1])]
    BY <2>1, <2>2, <2>3, <2>6, <2>7, <2>8
  <2>12. Abstract!Execute(c)
    BY <2>9, <2>10, <2>11, <1>1, <1>3 DEF Abstract!Execute
  <2> QED
    BY <2>12 DEF Abstract!RpcNext
<1>7. \/ ReadRest(c, n)
      \/ proc' = "crashed" /\ UNCHANGED <<execLog, phase>>
      \/ /\ execLog' = [execLog EXCEPT ![c] =
                         Append(@, SubSeq(Filled(c, n), 1, length[c]))]
         /\ phase' = [phase EXCEPT ![c] = "write"] /\ proc' = proc
  BY <1>2 DEF DoWrite
<1> QED
  BY <1>4, <1>5, <1>6, <1>7

\* WriteAll is Answer.
LEMMA AnswerStep ==
  ASSUME IInv, NEW c \in Conns, WriteAll(c)
  PROVE  Abstract!RpcNext
<1>1. /\ TypeOK /\ Running /\ phase[c] = "write" /\ LogsAgree(c)
      /\ UNCHANGED <<sent, execLog, proc>>
      /\ phase' = [phase EXCEPT ![c] = "wrote"]
      /\ replies' = [replies EXCEPT ![c] =
                       Append(@, execLog[c][Len(execLog[c])])]
  BY DEF WriteAll, IInv, ConnInv, netVars, procVars
<1>2. RequestsOf' = RequestsOf /\ DroppedConns' = DroppedConns
  BY <1>1 DEF RequestsOf, DroppedConns, TypeOK
<1>3. Len(replies[c]) + 1 = Len(execLog[c]) /\ c \notin DroppedConns
  BY <1>1 DEF LogsAgree, DroppedConns, Running
<1>4. Len(replies[c]) + 1 <= Len(execLog[c])
  BY <1>1, <1>3 DEF TypeOK
<1>5. Abstract!Answer(c)
  BY <1>1, <1>2, <1>3, <1>4 DEF Abstract!Answer
<1> QED
  BY <1>5 DEF Abstract!RpcNext

\* All other steps are silent.
LEMMA OtherSteps ==
  ASSUME IInv,
         \/ \E c \in Conns : \/ Connect(c) \/ ClientClose(c) \/ Deliver(c)
                            \/ AcceptHandler(c) \/ ReadPrefix(c)
                            \/ PrefixError(c) \/ FirstReadError(c)
                            \/ RestReadError(c) \/ WriteHandler(c)
         \/ Signal \/ SignalHandler \/ HeapAbort
  PROVE  Abstract!RpcNext
<1>1. UNCHANGED <<sent, execLog, replies>>
  BY DEF Connect, ClientClose, Deliver, AcceptHandler, ReadPrefix, PrefixError,
         FirstReadError, RestReadError, WriteHandler, Signal, SignalHandler,
         HeapAbort, netVars, logVars
<1>2. DroppedConns \subseteq DroppedConns'
  <2>1. ASSUME NEW d \in Conns, phase[d] = "done" PROVE phase'[d] = "done"
    <3>1. CASE \E c \in Conns : ClientClose(c) \/ Deliver(c)
      BY <2>1, <3>1 DEF ClientClose, Deliver
    <3>2. CASE SignalHandler \/ HeapAbort
      BY <2>1, <3>2 DEF SignalHandler, HeapAbort
    <3>3. CASE Signal
      BY <2>1, <3>3 DEF Signal, IInv, TypeOK
    <3>4. ASSUME NEW c \in Conns, Connect(c) PROVE phase'[d] = "done"
      <4>1. phase[c] = "none"
        BY <3>4 DEF Connect, IInv, ConnInv, AtPosition
      <4> QED
        BY <2>1, <3>4, <4>1 DEF Connect, IInv, TypeOK
    <3>5. ASSUME NEW c \in Conns, AcceptHandler(c) \/ ReadPrefix(c)
                                 \/ PrefixError(c)
          PROVE  phase'[d] = "done"
      BY <2>1, <3>5 DEF AcceptHandler, StartRead, ReadPrefix, PrefixError, IInv,
                        TypeOK
    <3>6. ASSUME NEW c \in Conns, FirstReadError(c) \/ RestReadError(c)
                                 \/ WriteHandler(c)
          PROVE  phase'[d] = "done"
      BY <2>1, <3>6 DEF FirstReadError, RestReadError, WriteHandler, StartRead,
                        IInv, TypeOK
    <3> QED
      BY <3>1, <3>2, <3>3, <3>4, <3>5, <3>6
  <2>2. proc # "running" => proc' # "running"
    BY DEF Connect, ClientClose, Deliver, AcceptHandler, ReadPrefix,
           PrefixError, FirstReadError, RestReadError, WriteHandler, Signal,
           SignalHandler, HeapAbort, procVars, Running
  <2> QED
    BY <2>1, <2>2 DEF DroppedConns
<1> QED
  BY <1>1, <1>2, SilentStep

\* On each connection, exec_json is called with exactly the requests that were
\* sent, in order, once each, and every call is answered before the next
\* (networkinterface.cc:7-70).
THEOREM SessionImplementsRpc == Spec => ImplementsRpc
<1>1. Init => Abstract!RpcInit
  BY DEF Init, Abstract!RpcInit, RequestsOf, DroppedConns, Meant
<1>2. IInv /\ IInv' /\ [Next]_vars => [Abstract!RpcNext]_(Abstract!rpcVars)
  <2> SUFFICES ASSUME IInv, IInv', [Next]_vars
               PROVE  Abstract!RpcNext \/ UNCHANGED Abstract!rpcVars
    OBVIOUS
  <2>1. CASE UNCHANGED vars
    BY <2>1 DEF vars, netVars, logVars, procVars, Abstract!rpcVars, RequestsOf,
                DroppedConns
  <2>2. ASSUME NEW c \in Conns, ClientStep(c) PROVE Abstract!RpcNext
    BY <2>2, SendStep, OtherSteps DEF ClientStep
  <2>3. ASSUME NEW c \in Conns, Handlers(c) PROVE Abstract!RpcNext
    BY <2>3, ReadStep, OtherSteps DEF Handlers
  <2> QED
    BY <2>1, <2>2, <2>3, AnswerStep, OtherSteps DEF Next
<1> QED
  BY <1>1, <1>2, Invariance, PTL DEF Spec, ImplementsRpc, Abstract!RpcSpec

=============================================================================
