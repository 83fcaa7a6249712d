--------------------------- MODULE LocalSocketProofs ---------------------------
(***************************************************************************)
(* Theorems about LocalSocket: a message that was sent is kept by its      *)
(* server, and processes that open the rendezvous one after the other find *)
(* one server.                                                             *)
(***************************************************************************)
EXTENDS MCLocalSocket, SequenceTheorems, TLAPS

LEMMA ConnectionIs ==
    ASSUME NEW p, NEW d
    PROVE  Connection(p, d).from = p /\ Connection(p, d).data = d
BY DEF Connection

LEMMA Queued ==
    ASSUME NEW s \in Seq(Connections), NEW c \in Connections
    PROVE  /\ Append(s, c) \in Seq(Connections)
           /\ DOMAIN Append(s, c) = 1 .. Len(s) + 1
           /\ \A i \in DOMAIN s : Append(s, c)[i] = s[i] /\ i \in DOMAIN Append(s, c)
           /\ Append(s, c)[Len(s) + 1] = c /\ Len(s) + 1 \in DOMAIN Append(s, c)
OBVIOUS

LEMMA Dequeued ==
    ASSUME NEW s \in Seq(Connections), s # <<>>
    PROVE  /\ Tail(s) \in Seq(Connections) /\ Head(s) \in Connections
           /\ \A i \in DOMAIN s : s[i] = Head(s) \/ \E j \in DOMAIN Tail(s) : Tail(s)[j] = s[i]
<1>1. /\ Len(s) \in Nat \ {0} /\ DOMAIN s = 1 .. Len(s)
      /\ Head(s) = s[1] /\ Head(s) \in Connections
      /\ Tail(s) \in Seq(Connections) /\ Len(Tail(s)) = Len(s) - 1
      /\ \A j \in 1 .. Len(Tail(s)) : Tail(s)[j] = s[j + 1]
      /\ DOMAIN Tail(s) = 1 .. Len(Tail(s))
  BY EmptySeq
<1>2. ASSUME NEW i \in DOMAIN s, i # 1
      PROVE  \E j \in DOMAIN Tail(s) : Tail(s)[j] = s[i]
  <2>1. i - 1 \in DOMAIN Tail(s) /\ (i - 1) + 1 = i
    BY <1>1, <1>2
  <2> QED BY <2>1, <1>1
<1> QED BY <1>1, <1>2

\* The end of a connection of p: those of other processes stay, and those that
\* have ended stay as they are.
LEMMA Ended ==
    ASSUME NEW s \in Seq(Connections), NEW p \in Procs, NEW d \in {"sent", "aborted"}
    PROVE  /\ EndIn(s, p, d) \in Seq(Connections)
           /\ DOMAIN EndIn(s, p, d) = DOMAIN s
           /\ \A i \in DOMAIN s : EndIn(s, p, d)[i] = Ending(s[i], p, d)
<1>1. \A c \in Connections : Ending(c, p, d) \in Connections
  BY DEF Ending, Connection, Connections
<1>2. DOMAIN s = 1 .. Len(s) /\ Len(s) \in Nat
  OBVIOUS
<1>3. EndIn(s, p, d) = [i \in 1 .. Len(s) |-> Ending(s[i], p, d)]
  BY <1>2 DEF EndIn
<1>4. EndIn(s, p, d) \in [1 .. Len(s) -> Connections]
  BY <1>1, <1>3
<1> QED BY <1>2, <1>3, <1>4, IsASeq

LEMMA EndingKeeps ==
    ASSUME NEW p, NEW d, NEW e
    PROVE  /\ Ending(Connection(p, "none"), p, d) = Connection(p, d)
           /\ \A q : q # p \/ e # "none" => Ending(Connection(q, e), p, d) = Connection(q, e)
<1>1. \A q : q # p \/ e # "none" => Connection(q, e) # Connection(p, "none")
  BY ConnectionIs
<1> QED BY <1>1 DEF Ending

--------------------------------------------------------------------------------
(***************************************************************************)
(* ServerIsFound and OpenRecovers.                                         *)
(***************************************************************************)
LEMMA OneOpensInit == HInit => OneOpens
BY DEF HInit, Init, OneOpens, Opening, IsServer

LEMMA OneOpensNext == TypeOK /\ OneOpens /\ [HNext]_hvars => OneOpens'
<1> SUFFICES ASSUME TypeOK, OneOpens, [HNext]_hvars, ~overlapped' PROVE OneOpens'
  BY DEF OneOpens
<1>1. CASE UNCHANGED hvars
  BY <1>1 DEF hvars, vars, OneOpens, Opening, IsServer
<1>2. CASE HNext
  <2>1. ~overlapped /\ \A p, q \in Procs : Opening(p)' /\ Opening(q)' => p = q
    BY <1>2 DEF HNext
  <2>2. /\ \A p, q \in Procs : Opening(p) /\ Opening(q) => p = q
        /\ \A p \in Procs :
              /\ IsServer(p) => name = p
              /\ pc[p] # "failed"
              /\ pc[p] \in {"removing", "listening"} => \A q \in Procs : ~IsServer(q)
              /\ pc[p] = "listening" => name = NoProc
    BY <2>1 DEF OneOpens
  <2> SUFFICES ASSUME NEW p \in Procs, Open(p) \/ Connect(p) \/ Close(p) \/ Crash(p)
                                       \/ Runs(p) \/ GiveUp(p)
               PROVE  OneOpens'
    BY <1>2 DEF HNext, Steps
  <2> DEFINE Others == \A q \in Procs \ {p} : pc'[q] = pc[q]
  <2>3. CASE Open(p) \/ ProbeFindsServer(p) \/ Connect(p) \/ Write(p) \/ TakeConnection(p)
             \/ Notify(p) \/ GiveUp(p)
    <3>1. /\ Others /\ name' = name /\ (IsServer(p)' <=> IsServer(p))
          /\ pc'[p] \in {"probing", "client", "connected", "server", "reading"}
      BY <2>3 DEF Open, ProbeFindsServer, Connect, Write, TakeConnection, Notify, GiveUp,
                  Become, TypeOK, IsServer
    <3> QED BY <3>1, <2>1, <2>2 DEF OneOpens, IsServer
  <2>4. CASE ProbeFails(p)
    <3>1. /\ Others /\ name' = name /\ pc'[p] = "removing" /\ ~IsServer(p) /\ ~Reachable
          /\ pc[p] = "probing"
      BY <2>4 DEF ProbeFails, AfterProbe, Become, TypeOK, IsServer
    <3>2. \A q \in Procs : ~IsServer(q)
      BY <3>1, <2>2, SocketAssumption DEF Reachable
    <3> QED BY <3>1, <3>2, <2>1, <2>2 DEF OneOpens, IsServer
  <2>5. CASE RemoveServer(p)
    <3>1. Others /\ name' = NoProc /\ pc'[p] = "listening" /\ pc[p] = "removing"
      BY <2>5 DEF RemoveServer, Become, TypeOK
    <3> QED BY <3>1, <2>1, <2>2 DEF OneOpens, IsServer
  <2>6. CASE ListenWorks(p)
    <3>1. Others /\ name' = p /\ pc'[p] = "server" /\ pc[p] = "listening"
      BY <2>6 DEF ListenWorks, Become, TypeOK
    <3>2. \A q \in Procs \ {p} : pc[q] \notin {"removing", "listening"} /\ ~IsServer(q)
      BY <3>1, <2>2 DEF Opening
    <3> QED BY <3>1, <3>2, <2>1, <2>2 DEF OneOpens, IsServer
  <2>7. CASE ListenFails(p)
    BY <2>7, <2>2 DEF ListenFails
  <2>8. CASE Close(p) \/ Crash(p)
    <3>1. /\ Others /\ pc'[p] = "closed"
          /\ name' = name \/ (pc[p] = "server" /\ name' = NoProc)
      BY <2>8 DEF Close, Crash, Gone, NameAfter, Become, TypeOK
    <3> QED BY <3>1, <2>1, <2>2 DEF OneOpens, IsServer
  <2> QED BY <2>3, <2>4, <2>5, <2>6, <2>7, <2>8 DEF Runs
<1> QED BY <1>1, <1>2

--------------------------------------------------------------------------------
(***************************************************************************)
(* MessageIsKept.                                                          *)
(***************************************************************************)
LEMMA KeptInit == HInit => ConnectionIsKept
BY DEF HInit, Init, ConnectionIsKept, TypeOK, NoConnection, Connection, Connections

\* What is owed and open is at its server after a step in which connections
\* stay where they are.
Owing(q) == owed[q] # NoProc /\ q \notin abandoned

Connected(q) == pc[q] = "connected" /\ peer[q] # NoProc /\ q \notin abandoned

Stays(s, c) == AtServer(s, c) => AtServer(s, c)'

LEMMA KeptMeans ==
    ConnectionIsKept <=>
        /\ TypeOK
        /\ \A p \in Procs : pc[p] # "reading" => taken[p] = NoConnection
        /\ \A q \in Procs : Connected(q) => AtServer(peer[q], Connection(q, "none"))
        /\ \A q \in Procs : Owing(q) => AtServer(owed[q], Connection(q, "sent"))
BY DEF ConnectionIsKept, Connected, Owing

LEMMA StillKept ==
    ASSUME TypeOK', \A p \in Procs : pc'[p] # "reading" => taken'[p] = NoConnection,
           \A q \in Procs : Connected(q)' => AtServer(peer[q], Connection(q, "none"))',
           \A q \in Procs : Owing(q)' => AtServer(owed[q], Connection(q, "sent"))'
    PROVE  ConnectionIsKept'
BY DEF ConnectionIsKept, Connected, Owing, Connection, NoConnection

\* Where a connection comes from and what it carries tell it from the others.
LEMMA Distinct ==
    ASSUME NEW p, NEW q, NEW d, NEW e, Connection(p, d) = Connection(q, e)
    PROVE  p = q /\ d = e
BY ConnectionIs

\* abandoned loses nobody who is connected, or has sent a message.
LEMMA AbandonedStays ==
    ASSUME NEW q \in Procs, q \in abandoned, Engaged(q)',
           abandoned' = {r \in abandoned : Engaged(r)'}
    PROVE  q \in abandoned'
BY DEF Engaged

\* A step in which connections stay where they are, with what is open and owed.
LEMMA KeptWhereTheyAre ==
    ASSUME ConnectionIsKept, TypeOK', \A p \in Procs : pc'[p] # "reading" => taken'[p] = NoConnection,
           \A q \in Procs : Connected(q)' =>
              /\ Connected(q) /\ peer'[q] = peer[q]
              /\ Stays(peer[q], Connection(q, "none")),
           \A q \in Procs : Owing(q)' =>
              /\ Owing(q) /\ owed'[q] = owed[q]
              /\ Stays(owed[q], Connection(q, "sent"))
    PROVE  ConnectionIsKept'
<1>1. ASSUME NEW q \in Procs, Connected(q)' PROVE AtServer(peer[q], Connection(q, "none"))'
  <2>1. Connected(q)
    BY <1>1
  <2>2. AtServer(peer[q], Connection(q, "none"))
    BY <2>1, KeptMeans
  <2> QED BY <1>1, <2>2 DEF Connected, Stays, AtServer, Connection
<1>2. ASSUME NEW q \in Procs, Owing(q)' PROVE AtServer(owed[q], Connection(q, "sent"))'
  <2>1. Owing(q)
    BY <1>2
  <2>2. AtServer(owed[q], Connection(q, "sent"))
    BY <2>1, KeptMeans
  <2> QED BY <1>2, <2>2 DEF Owing, Stays, AtServer, Connection
<1> QED BY <1>1, <1>2, StillKept

LEMMA TypeNext == TypeOK /\ [HNext]_hvars => TypeOK'
<1> SUFFICES ASSUME TypeOK, [HNext]_hvars PROVE TypeOK' OBVIOUS
<1>1. CASE UNCHANGED hvars
  BY <1>1 DEF hvars, vars, TypeOK
<1>2. \A p \in Procs \cup {NoProc}, d \in {"none", "sent", "aborted"} : Connection(p, d) \in Connections
  BY DEF Connection, Connections
<1>3. ASSUME NEW p \in Procs, Open(p) \/ ProbeFails(p) \/ RemoveServer(p) \/ ListenWorks(p) \/ ListenFails(p)
      PROVE  TypeOK'
  <2>1. CASE Open(p) BY <2>1 DEF Open, Become, TypeOK
  <2>2. CASE ProbeFails(p) BY <2>2 DEF ProbeFails, AfterProbe, Become, TypeOK
  <2>3. CASE RemoveServer(p) BY <2>3 DEF RemoveServer, Become, TypeOK
  <2>4. CASE ListenWorks(p) BY <2>4 DEF ListenWorks, Become, TypeOK
  <2>5. CASE ListenFails(p)
    <3>1. attempt' \in [Procs -> 1 .. 2]
      <4>1. CASE attempt[p] < 2
        <5>0. attempt[p] \in 1 .. 2
          BY DEF TypeOK
        <5>1. attempt[p] + 1 \in 1 .. 2
          BY <4>1, <5>0
        <5> QED BY <2>5, <4>1, <5>1 DEF ListenFails, TypeOK
      <4>2. CASE ~(attempt[p] < 2)
        BY <2>5, <4>2 DEF ListenFails, TypeOK
      <4> QED BY <4>1, <4>2
    <3>2. pc' \in [Procs -> {"closed", "probing", "removing", "listening", "failed",
                             "server", "reading", "client", "calling", "connected"}]
      BY <2>5 DEF ListenFails, Become, TypeOK
    <3> QED BY <2>5, <3>1, <3>2 DEF ListenFails, TypeOK
  <2> QED BY <1>3, <2>1, <2>2, <2>3, <2>4, <2>5
<1>4. ASSUME NEW p \in Procs, ProbeFindsServer(p) \/ Connect(p) PROVE TypeOK'
  <2>1. /\ name \in Procs /\ pending[name] \in Seq(Connections)
        /\ \A d \in {"none", "aborted"} :
              Append(pending[name], Connection(p, d)) \in Seq(Connections)
    BY <1>2, <1>4, Queued DEF ProbeFindsServer, Connect, Reachable, TypeOK
  <2>2. pending' \in [Procs -> Seq(Connections)]
    BY <1>4, <2>1 DEF ProbeFindsServer, Connect, TypeOK
  <2>3. CASE ProbeFindsServer(p) BY <2>2, <2>3 DEF ProbeFindsServer, Become, TypeOK
  <2>4. CASE Connect(p) BY <2>1, <2>2, <2>4 DEF Connect, Become, TypeOK
  <2> QED BY <1>4, <2>3, <2>4
<1>5. ASSUME NEW p \in Procs, Write(p) PROVE TypeOK'
  <2>1. \A s \in Procs : /\ EndIn(pending[s], p, Flushed) \in Seq(Connections)
                         /\ Ending(taken[s], p, Flushed) \in Connections
    BY <1>2, Ended DEF Flushed, TypeOK, Ending
  <2> QED BY <1>5, <2>1 DEF Write, Become, TypeOK
<1>6. ASSUME NEW p \in Procs, TakeConnection(p) PROVE TypeOK'
  <2>1. /\ pending[p] \in Seq(Connections) /\ pending[p] # <<>>
        /\ Tail(pending[p]) \in Seq(Connections) /\ Head(pending[p]) \in Connections
    BY <1>6, Dequeued DEF TakeConnection, TypeOK
  <2> QED BY <1>6, <2>1 DEF TakeConnection, Become, TypeOK
<1>7. ASSUME NEW p \in Procs, Notify(p) \/ GiveUp(p) PROVE TypeOK'
  <2>1. NoConnection \in Connections
    BY <1>2 DEF NoConnection
  <2>2. CASE Notify(p) BY <2>1, <2>2 DEF Notify, Become, TypeOK
  <2>3. CASE GiveUp(p) BY <2>1, <2>3 DEF GiveUp, Become, TypeOK
  <2> QED BY <1>7, <2>2, <2>3
<1>8. ASSUME NEW p \in Procs, Close(p) \/ Crash(p) PROVE TypeOK'
  <2>1. \A s \in Procs : /\ EndIn(pending[s], p, "aborted") \in Seq(Connections)
                         /\ Ending(taken[s], p, "aborted") \in Connections
    BY <1>2, Ended DEF TypeOK, Ending
  <2>2. NoConnection \in Connections /\ <<>> \in Seq(Connections)
    BY <1>2 DEF NoConnection
  <2>3. name' \in Procs \cup {NoProc}
    BY <1>8 DEF Close, Crash, NameAfter, TypeOK
  <2>4. Gone(p)
    BY <1>8 DEF Close, Crash
  <2>5. pending' \in [Procs -> Seq(Connections)] /\ taken' \in [Procs -> Connections]
    BY <2>1, <2>2, <2>4 DEF Gone
  <2> QED BY <2>3, <2>4, <2>5 DEF Gone, Without, Become, TypeOK
<1> QED BY <1>1, <1>3, <1>4, <1>5, <1>6, <1>7, <1>8 DEF HNext, Steps, Runs

\* Connections stay where they are when one more is queued.
LEMMA AppendedStays ==
    ASSUME TypeOK, NEW t \in Procs, NEW c \in Connections, NEW s \in Procs, NEW x,
           pending' = [pending EXCEPT ![t] = Append(@, c)], taken' = taken
    PROVE  Stays(s, x) /\ (s = t => AtServer(s, c)')
<1>1. pending[s] \in Seq(Connections) /\ pending'[s] = IF s = t THEN Append(pending[s], c) ELSE pending[s]
  BY DEF TypeOK
<1>2. \A i \in DOMAIN pending[s] : i \in DOMAIN pending'[s] /\ pending'[s][i] = pending[s][i]
  BY <1>1, Queued
<1>3. s = t => \E i \in DOMAIN pending'[s] : pending'[s][i] = c
  BY <1>1, Queued
<1> QED BY <1>2, <1>3 DEF Stays, AtServer

\* They stay when one is taken from the queue.
LEMMA TakenStays ==
    ASSUME TypeOK, NEW p \in Procs, NEW s \in Procs, NEW x, x # taken[p],
           pending[p] # <<>>,
           taken' = [taken EXCEPT ![p] = Head(pending[p])],
           pending' = [pending EXCEPT ![p] = Tail(@)]
    PROVE  Stays(s, x)
<1>1. CASE s = p
  <2>1. pending[p] \in Seq(Connections) /\ pending'[p] = Tail(pending[p]) /\ taken'[p] = Head(pending[p])
    BY DEF TypeOK
  <2>2. \A i \in DOMAIN pending[p] :
           pending[p][i] = taken'[p] \/ \E j \in DOMAIN pending'[p] : pending'[p][j] = pending[p][i]
    BY <2>1, Dequeued
  <2> QED BY <1>1, <2>2 DEF Stays, AtServer
<1>2. CASE s # p
  BY <1>2 DEF TypeOK, Stays, AtServer
<1> QED BY <1>1, <1>2

\* When connections of p end, those of the others stay, and those that have
\* ended; those that had not carry d from then on.
LEMMA EndedStays ==
    ASSUME TypeOK, NEW p \in Procs, NEW d \in {"sent", "aborted"}, NEW s \in Procs,
           NEW q \in Procs, NEW e \in {"none", "sent", "aborted"},
           pending'[s] = EndIn(pending[s], p, d), taken'[s] = Ending(taken[s], p, d)
    PROVE  /\ q # p \/ e # "none" => Stays(s, Connection(q, e))
           /\ AtServer(s, Connection(p, "none")) => AtServer(s, Connection(p, d))'
<1> DEFINE c == Connection(q, e)
           o == Connection(p, "none")
<1>0. pending[s] \in Seq(Connections)
  BY DEF TypeOK
<1>1. /\ DOMAIN pending'[s] = DOMAIN pending[s]
      /\ \A i \in DOMAIN pending[s] : pending'[s][i] = Ending(pending[s][i], p, d)
  <2>1. /\ DOMAIN EndIn(pending[s], p, d) = DOMAIN pending[s]
        /\ \A i \in DOMAIN pending[s] : EndIn(pending[s], p, d)[i] = Ending(pending[s][i], p, d)
    BY <1>0, Ended, Zenon
  <2> QED BY <2>1, Zenon
<1>2. Ending(o, p, d) = Connection(p, d) /\ (q # p \/ e # "none" => Ending(c, p, d) = c)
  BY EndingKeeps
<1>3. ASSUME q # p \/ e # "none" PROVE Stays(s, c)
  <2>1. Ending(c, p, d) = c
    BY <1>2, <1>3
  <2> HIDE DEF c
  <2>2. AtServer(s, c) => taken'[s] = c \/ \E i \in DOMAIN pending'[s] : pending'[s][i] = c
    BY <1>1, <2>1 DEF AtServer
  <2> QED BY <2>2 DEF Stays, AtServer
<1>4. AtServer(s, o) => AtServer(s, Connection(p, d))'
  <2> DEFINE n == Connection(p, d)
  <2>1. Ending(o, p, d) = n
    BY <1>2
  <2> HIDE DEF o, n
  <2>2. AtServer(s, o) => taken'[s] = n \/ \E i \in DOMAIN pending'[s] : pending'[s][i] = n
    BY <1>1, <2>1 DEF AtServer
  <2> QED BY <2>2 DEF AtServer, n, Connection
<1> QED BY <1>3, <1>4

\* Nobody who is connected, or has sent a message, is taken off the list of those
\* whose connection was given up.
LEMMA AbandonedGoOn ==
    ASSUME HNext
    PROVE  \A q \in Procs : q \in abandoned /\ Engaged(q)' => q \in abandoned'
BY DEF HNext

LEMMA ReadingOnly ==
    ConnectionIsKept /\ [HNext]_hvars => \A p \in Procs : pc'[p] # "reading" => taken'[p] = NoConnection
<1> SUFFICES ASSUME ConnectionIsKept, [HNext]_hvars, NEW q \in Procs, pc'[q] # "reading"
             PROVE  taken'[q] = NoConnection
  OBVIOUS
<1>1. TypeOK /\ \A p \in Procs : pc[p] # "reading" => taken[p] = NoConnection
  BY KeptMeans
<1>2. CASE UNCHANGED hvars
  BY <1>1, <1>2 DEF hvars, vars
<1> SUFFICES ASSUME NEW p \in Procs, Open(p) \/ Connect(p) \/ Close(p) \/ Crash(p)
                                     \/ Runs(p) \/ GiveUp(p)
             PROVE  taken'[q] = NoConnection
  BY <1>2 DEF HNext, Steps
<1>3. CASE Open(p) \/ ProbeFails(p) \/ RemoveServer(p) \/ ListenWorks(p) \/ ListenFails(p)
           \/ ProbeFindsServer(p) \/ Connect(p)
  BY <1>1, <1>3 DEF Open, ProbeFails, RemoveServer, ListenWorks, ListenFails, ProbeFindsServer,
                    Connect, Become, TypeOK
<1>4. ASSUME NEW d \in {"sent", "aborted"} PROVE Ending(NoConnection, p, d) = NoConnection
  BY SocketAssumption DEF Ending, NoConnection, Connection
<1>5. CASE Write(p)
  BY <1>1, <1>4, <1>5 DEF Write, Become, Flushed, TypeOK
<1>6. CASE TakeConnection(p) \/ Notify(p) \/ GiveUp(p)
  BY <1>1, <1>6 DEF TakeConnection, Notify, GiveUp, Become, TypeOK
<1>7. CASE Close(p) \/ Crash(p)
  <2>1. Gone(p)
    BY <1>7 DEF Close, Crash
  <2> QED BY <1>1, <1>4, <2>1 DEF Gone, Become, TypeOK
<1> QED BY <1>3, <1>5, <1>6, <1>7 DEF Runs

LEMMA KeptNext == ConnectionIsKept /\ [HNext]_hvars => ConnectionIsKept'
<1> SUFFICES ASSUME ConnectionIsKept, [HNext]_hvars PROVE ConnectionIsKept'
  OBVIOUS
<1>1. /\ TypeOK /\ TypeOK'
      /\ \A p \in Procs : pc[p] # "reading" => taken[p] = NoConnection
      /\ \A p \in Procs : pc'[p] # "reading" => taken'[p] = NoConnection
  BY KeptMeans, TypeNext, ReadingOnly
<1>2. CASE UNCHANGED hvars
  <2>1. \A s \in Procs : \A c : Stays(s, c)
    BY <1>2 DEF Stays, AtServer, hvars, vars
  <2> QED BY <1>1, <1>2, <2>1, KeptWhereTheyAre DEF hvars, vars, Connected, Owing, TypeOK
<1>3. CASE HNext
  <2> SUFFICES ASSUME NEW p \in Procs,
                      \/ Open(p) \/ Connect(p) \/ Close(p) \/ Crash(p) \/ Runs(p)
                      \/ GiveUp(p) /\ abandoned' = abandoned \cup {taken[p].from}
               PROVE  ConnectionIsKept'
    BY <1>3 DEF HNext, Steps
  <2>1. \A q \in Procs : q \in abandoned /\ Engaged(q)' => q \in abandoned'
    BY <1>3, AbandonedGoOn
  <2>2. \A q \in Procs : /\ peer[q] # NoProc => peer[q] \in Procs
                         /\ owed[q] # NoProc => owed[q] \in Procs
    BY <1>1 DEF TypeOK
  <2>3. CASE Open(p) \/ ProbeFails(p) \/ RemoveServer(p) \/ ListenWorks(p) \/ ListenFails(p)
    <3>1. \A s \in Procs : \A c : Stays(s, c)
      BY <2>3 DEF Open, ProbeFails, RemoveServer, ListenWorks, ListenFails, Stays, AtServer
    <3>2. /\ peer' = peer /\ owed' = owed
          /\ \A q \in Procs : pc'[q] = "connected" => pc[q] = "connected"
      BY <1>1, <2>3 DEF Open, ProbeFails, RemoveServer, ListenWorks, ListenFails, Become, AfterProbe, TypeOK
    <3> QED BY <1>1, <2>1, <2>2, <3>1, <3>2, KeptWhereTheyAre DEF Connected, Owing, Engaged
  <2>4. CASE ProbeFindsServer(p)
    <3>1. /\ name \in Procs /\ Connection(p, "aborted") \in Connections
          /\ pending' = [pending EXCEPT ![name] = Append(@, Connection(p, "aborted"))]
          /\ taken' = taken /\ peer' = peer /\ owed' = owed
          /\ \A q \in Procs : pc'[q] = "connected" => pc[q] = "connected"
      BY <1>1, <2>4, SocketAssumption
      DEF ProbeFindsServer, Reachable, Become, Connection, Connections, TypeOK
    <3>2. \A s \in Procs : \A c : Stays(s, c)
      BY <1>1, <3>1, AppendedStays
    <3> QED BY <1>1, <2>1, <2>2, <3>1, <3>2, KeptWhereTheyAre DEF Connected, Owing, Engaged
  <2>5. CASE Connect(p)
    <3>1. /\ name \in Procs /\ Connection(p, "none") \in Connections
          /\ pending' = [pending EXCEPT ![name] = Append(@, Connection(p, "none"))]
          /\ taken' = taken /\ peer'[p] = name /\ owed' = owed
          /\ \A q \in Procs : q # p => pc'[q] = pc[q] /\ peer'[q] = peer[q]
      BY <1>1, <2>5, SocketAssumption
      DEF Connect, Reachable, Become, Connection, Connections, TypeOK
    <3>2. \A s \in Procs : \A c : Stays(s, c)
      BY <1>1, <3>1, AppendedStays
    <3>3. AtServer(name, Connection(p, "none"))'
      <4>1. \A s \in Procs : s = name => AtServer(s, Connection(p, "none"))'
        BY <1>1, <3>1, AppendedStays
      <4>2. \E s \in Procs : s = name /\ s = name'
        BY <2>5, <3>1 DEF Connect
      <4> QED BY <4>1, <4>2 DEF AtServer
    <3>4. ASSUME NEW q \in Procs, Connected(q)' PROVE AtServer(peer[q], Connection(q, "none"))'
      <4>1. CASE q = p
        BY <2>5, <3>1, <3>3, <4>1 DEF Connect, AtServer, Connection
      <4>2. CASE q # p
        <5>1. Connected(q) /\ peer'[q] = peer[q] /\ peer[q] \in Procs
          BY <2>1, <2>2, <3>1, <3>4, <4>2 DEF Connected, Engaged
        <5>2. AtServer(peer[q], Connection(q, "none")) /\ Stays(peer[q], Connection(q, "none"))
          BY <3>2, <5>1, KeptMeans
        <5> QED BY <5>1, <5>2 DEF Stays, AtServer, Connection
      <4> QED BY <4>1, <4>2
    <3>5. ASSUME NEW q \in Procs, Owing(q)' PROVE AtServer(owed[q], Connection(q, "sent"))'
      <4>1. Owing(q) /\ owed' = owed /\ owed[q] \in Procs
        BY <2>1, <2>2, <3>1, <3>5 DEF Owing, Engaged
      <4>2. AtServer(owed[q], Connection(q, "sent")) /\ Stays(owed[q], Connection(q, "sent"))
        BY <3>2, <4>1, KeptMeans
      <4> QED BY <4>1, <4>2 DEF Stays, AtServer, Connection
    <3> QED BY <1>1, <3>4, <3>5, StillKept
  <2>6. CASE Write(p)
    <3>1. /\ \A s \in Procs : /\ pending'[s] = EndIn(pending[s], p, "sent")
                              /\ taken'[s] = Ending(taken[s], p, "sent")
          /\ pc[p] = "connected" /\ pc'[p] = "client" /\ owed'[p] = peer[p]
          /\ \A q \in Procs : q # p => pc'[q] = pc[q] /\ peer'[q] = peer[q] /\ owed'[q] = owed[q]
      BY <1>1, <2>6 DEF Write, Become, Flushed, TypeOK
    <3>2. ASSUME NEW s \in Procs, NEW q \in Procs, NEW e \in {"none", "sent", "aborted"}
          PROVE  /\ q # p \/ e # "none" => Stays(s, Connection(q, e))
                 /\ AtServer(s, Connection(p, "none")) => AtServer(s, Connection(p, "sent"))'
      <4>1. pending'[s] = EndIn(pending[s], p, "sent") /\ taken'[s] = Ending(taken[s], p, "sent")
        BY <3>1
      <4> QED BY <1>1, <4>1, EndedStays
    <3>3. ASSUME NEW q \in Procs, Connected(q)' PROVE AtServer(peer[q], Connection(q, "none"))'
      <4>1. q # p /\ Connected(q) /\ peer'[q] = peer[q] /\ peer[q] \in Procs
        BY <2>1, <2>2, <3>1, <3>3 DEF Connected, Engaged
      <4>2. AtServer(peer[q], Connection(q, "none")) /\ Stays(peer[q], Connection(q, "none"))
        BY <3>2, <4>1, KeptMeans
      <4> QED BY <4>1, <4>2 DEF Stays, AtServer, Connection
    <3>4. ASSUME NEW q \in Procs, Owing(q)' PROVE AtServer(owed[q], Connection(q, "sent"))'
      <4>1. CASE q = p
        <5>1. Connected(p) /\ owed'[p] = peer[p] /\ peer[p] \in Procs
          BY <2>1, <2>2, <3>1, <3>4, <4>1 DEF Connected, Owing, Engaged
        <5>2. AtServer(peer[p], Connection(p, "none"))
          BY <5>1, KeptMeans
        <5>3. AtServer(peer[p], Connection(p, "none")) =>
                 \/ taken'[peer[p]] = Connection(p, "sent")
                 \/ \E i \in DOMAIN pending'[peer[p]] : pending'[peer[p]][i] = Connection(p, "sent")
          BY <3>2, <5>1 DEF AtServer, Connection
        <5> QED BY <4>1, <5>1, <5>2, <5>3 DEF AtServer, Connection
      <4>2. CASE q # p
        <5>1. Owing(q) /\ owed'[q] = owed[q] /\ owed[q] \in Procs
          BY <2>1, <2>2, <3>1, <3>4, <4>2 DEF Owing, Engaged
        <5>2. AtServer(owed[q], Connection(q, "sent")) /\ Stays(owed[q], Connection(q, "sent"))
          BY <3>2, <4>2, <5>1, KeptMeans
        <5> QED BY <5>1, <5>2 DEF Stays, AtServer, Connection
      <4> QED BY <4>1, <4>2
    <3> QED BY <1>1, <3>3, <3>4, StillKept
  <2>7. CASE TakeConnection(p)
    <3>1. /\ pending[p] # <<>> /\ taken[p] = NoConnection
          /\ taken' = [taken EXCEPT ![p] = Head(pending[p])]
          /\ pending' = [pending EXCEPT ![p] = Tail(@)]
          /\ peer' = peer /\ owed' = owed
          /\ \A q \in Procs : pc'[q] = "connected" => pc[q] = "connected"
      BY <1>1, <2>7 DEF TakeConnection, Become, TypeOK
    <3>2. \A q \in Procs : \A e : Connection(q, e) # taken[p]
      BY <3>1, SocketAssumption, Distinct DEF NoConnection
    <3>3. \A s \in Procs : \A q \in Procs : \A e : Stays(s, Connection(q, e))
      BY <1>1, <3>1, <3>2, TakenStays
    <3> QED BY <1>1, <2>1, <2>2, <3>1, <3>3, KeptWhereTheyAre DEF Connected, Owing, Engaged
  <2>8. CASE Notify(p)
    <3>1. /\ taken[p].data # "none" /\ taken' = [taken EXCEPT ![p] = NoConnection]
          /\ owed' = IF taken[p].data = "sent" THEN [owed EXCEPT ![taken[p].from] = NoProc] ELSE owed
          /\ pending' = pending /\ peer' = peer
          /\ \A q \in Procs : pc'[q] = "connected" => pc[q] = "connected"
      BY <1>1, <2>8 DEF Notify, WaitIsOver, Become, TypeOK
    <3>2. \A s \in Procs : \A c : c # taken[p] => Stays(s, c)
      BY <1>1, <3>1 DEF Stays, AtServer, TypeOK
    <3>3. \A q \in Procs : Connection(q, "none") # taken[p]
      BY <3>1, ConnectionIs
    <3>4. ASSUME NEW q \in Procs, owed'[q] # NoProc
          PROVE  owed'[q] = owed[q] /\ Connection(q, "sent") # taken[p]
      <4>1. Connection(q, "sent") # taken[p]
        <5> SUFFICES ASSUME Connection(q, "sent") = taken[p] PROVE FALSE OBVIOUS
        <5>1. taken[p].data = "sent" /\ taken[p].from = q
          BY ConnectionIs
        <5> QED BY <1>1, <3>1, <3>4, <5>1 DEF TypeOK
      <4>2. owed'[q] = owed[q]
        BY <1>1, <3>1, <3>4 DEF TypeOK
      <4> QED BY <4>1, <4>2
    <3> QED BY <1>1, <2>1, <2>2, <3>1, <3>2, <3>3, <3>4, KeptWhereTheyAre DEF Connected, Owing, Engaged
  <2>9. CASE GiveUp(p) /\ abandoned' = abandoned \cup {taken[p].from}
    <3>1. /\ taken' = [taken EXCEPT ![p] = NoConnection]
          /\ pending' = pending /\ peer' = peer /\ owed' = owed
          /\ \A q \in Procs : pc'[q] = "connected" => pc[q] = "connected"
      BY <1>1, <2>9 DEF GiveUp, Become, TypeOK
    <3>2. \A s \in Procs : \A c : c # taken[p] => Stays(s, c)
      BY <1>1, <3>1 DEF Stays, AtServer, TypeOK
    <3>3. \A q \in Procs : \A e : q \notin abandoned' => Connection(q, e) # taken[p]
      BY <2>9, ConnectionIs
    <3> QED BY <1>1, <2>2, <2>9, <3>1, <3>2, <3>3, KeptWhereTheyAre DEF Connected, Owing
  <2>10. CASE Close(p) \/ Crash(p)
    <3>1. Gone(p)
      BY <2>10 DEF Close, Crash
    <3>2. /\ \A s \in Procs : s # p => /\ pending'[s] = EndIn(pending[s], p, "aborted")
                                       /\ taken'[s] = Ending(taken[s], p, "aborted")
          /\ pc'[p] = "closed" /\ \A q \in Procs : q # p => pc'[q] = pc[q]
          /\ \A q \in Procs : peer'[q] # NoProc => peer'[q] = peer[q] /\ peer[q] # p
          /\ \A q \in Procs : owed'[q] # NoProc => owed'[q] = owed[q] /\ owed[q] # p
      BY <1>1, <3>1 DEF Gone, Without, Become, TypeOK
    <3>3. ASSUME NEW s \in Procs, s # p, NEW q \in Procs, NEW e \in {"none", "sent", "aborted"},
                 q # p \/ e # "none"
          PROVE  Stays(s, Connection(q, e))
      <4>1. pending'[s] = EndIn(pending[s], p, "aborted") /\ taken'[s] = Ending(taken[s], p, "aborted")
        BY <3>2, <3>3
      <4> QED BY <1>1, <3>3, <4>1, EndedStays
    <3> QED BY <1>1, <2>1, <2>2, <3>2, <3>3, KeptWhereTheyAre DEF Connected, Owing, Engaged
  <2> QED BY <2>3, <2>4, <2>5, <2>6, <2>7, <2>8, <2>9, <2>10 DEF Runs
<1> QED BY <1>2, <1>3

--------------------------------------------------------------------------------
(***************************************************************************)
(* The theorems.                                                           *)
(***************************************************************************)
\* A message that a client has sent with success is at the server it was sent
\* to, with its data, until the observer there is given it, unless the server
\* gave the connection up: whatever other processes remove, close or crash
\* (RLocalSocket::write(), Connected() and close()).
THEOREM SentIsKept == HSpec => []MessageIsKept
<1>1. ConnectionIsKept => MessageIsKept
  BY DEF ConnectionIsKept, MessageIsKept, AtServer
<1>2. HSpec => []ConnectionIsKept
  BY KeptInit, KeptNext, PTL DEF HSpec
<1> QED BY <1>1, <1>2, PTL

LEMMA OneOpensInvariance == HSpec => [](TypeOK /\ OneOpens)
<1>1. HInit => TypeOK /\ OneOpens
  BY OneOpensInit, KeptInit DEF ConnectionIsKept
<1>2. TypeOK /\ OneOpens /\ [HNext]_hvars => (TypeOK /\ OneOpens)'
  BY OneOpensNext, TypeNext
<1> QED BY <1>1, <1>2, PTL DEF HSpec

\* Processes that open the rendezvous one after the other leave one server,
\* which is found by its name (RLocalSocket::open()).
THEOREM OneServerIsFound == HSpec => []ServerIsFound
<1>1. OneOpens => ServerIsFound
  BY DEF OneOpens, ServerIsFound
<1> QED BY <1>1, OneOpensInvariance, PTL

\* Such an open() does not fail for the file a crashed server has left
\* (RLocalSocket::open()).
THEOREM OpenWorksAfterCrash == HSpec => []OpenRecovers
<1>1. OneOpens => OpenRecovers
  BY DEF OneOpens, OpenRecovers
<1> QED BY <1>1, OneOpensInvariance, PTL
================================================================================
