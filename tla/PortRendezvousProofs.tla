-------------------------- MODULE PortRendezvousProofs --------------------------
(***************************************************************************)
(* Theorems about PortRendezvous, for any number of processes, opens and   *)
(* closes that overlap with sends, and bursts of messages.                 *)
(***************************************************************************)
EXTENDS PortRendezvous, SequenceTheorems, TLAPS

\* Waiting() after a step, of a process named before it.
StillWaiting(q) == pc'[q] = "sending" /\ ~replied'[q]

LEMMA Dequeued ==
    ASSUME NEW S, NEW q \in Seq(S), q # <<>>
    PROVE  /\ Head(q) = q[1] /\ q[1] \in S /\ Len(q) \in Nat \ {0}
           /\ Tail(q) \in Seq(S) /\ Len(Tail(q)) = Len(q) - 1
           /\ \A i \in 1 .. Len(Tail(q)) : Tail(q)[i] = q[i + 1]
           /\ Tail(q) = <<>> <=> Len(q) = 1
<1>1. Len(q) \in Nat /\ Len(q) # 0
  BY EmptySeq
<1>2. 1 \in 1 .. Len(q)
  BY <1>1
<1>3. q[1] \in S /\ Head(q) = q[1]
  BY <1>2, ElementOfSeq
<1>4. /\ Tail(q) \in Seq(S) /\ Len(Tail(q)) = Len(q) - 1
      /\ \A i \in 1 .. Len(Tail(q)) : Tail(q)[i] = q[i + 1]
  BY HeadTailProperties
<1>5. Tail(q) = <<>> <=> Len(Tail(q)) = 0
  BY <1>4, EmptySeq
<1> QED BY <1>1, <1>3, <1>4, <1>5

LEMMA Enqueued ==
    ASSUME NEW S, NEW q \in Seq(S), NEW e \in S
    PROVE  /\ Append(q, e) \in Seq(S) /\ Len(Append(q, e)) = Len(q) + 1
           /\ Append(q, e) # <<>>
           /\ \A i \in 1 .. Len(Append(q, e)) :
                 \/ i \in 1 .. Len(q) /\ Append(q, e)[i] = q[i]
                 \/ i = Len(q) + 1 /\ Append(q, e)[i] = e
           /\ q # <<>> => Len(q) >= 1
<1>1. /\ Append(q, e) \in Seq(S) /\ Len(Append(q, e)) = Len(q) + 1 /\ Len(q) \in Nat
      /\ \A i \in 1 .. Len(q) : Append(q, e)[i] = q[i]
      /\ Append(q, e)[Len(q) + 1] = e
  BY AppendProperties
<1>2. \A i \in 1 .. Len(q) + 1 : i \in 1 .. Len(q) \/ i = Len(q) + 1
  BY <1>1
<1>3. q # <<>> => Len(q) # 0
  BY EmptySeq
<1>4. Append(q, e) # <<>>
  BY <1>1, EmptySeq
<1> QED BY <1>1, <1>2, <1>3, <1>4

LEMMA InitInv == Init => IInv
BY EmptySeq DEF Init, IInv, TypeOK, MessageForWake, MessageAlive, SignalsCounted

\* MessageAlive, one part at a time.
LEMMA AliveParts ==
    ASSUME TypeOK, MessageAlive
    PROVE  /\ \A p \in Procs : message[p] # NoProc =>
                  message[p] \in Procs /\ Waiting(message[p])
           /\ \A p \in Procs : \A i \in 1 .. Len(queue[p]) :
                  queue[p][i] \in Procs /\ Waiting(queue[p][i])
           /\ \A p, q \in Procs : \A i \in 1 .. Len(queue[p]) : message[q] # queue[p][i]
           /\ \A p, q \in Procs : \A i \in 1 .. Len(queue[p]), j \in 1 .. Len(queue[q]) :
                  queue[p][i] = queue[q][j] => p = q /\ i = j
           /\ \A p, q \in Procs : message[p] = message[q] /\ p # q => message[p] = NoProc
<1>1. \A p \in Procs : \A i \in 1 .. Len(queue[p]) : queue[p][i] \in Procs
  BY ElementOfSeq DEF TypeOK
<1>2. \A p \in Procs : message[p] # NoProc => message[p] \in Procs
  BY DEF TypeOK
<1> QED BY <1>1, <1>2 DEF MessageAlive

LEMMA OpenInv ==
    ASSUME IInv, NEW p \in Procs, FindPort(p) \/ AddPortFails(p)
    PROVE  IInv'
<1>1. /\ pc[p] \in {"closed", "opening"}
      /\ pc' \in [Procs -> {"closed", "opening", "server", "woken", "serving",
                           "client", "sending"}]
      /\ pc'[p] \in {"closed", "opening", "client"}
      /\ \A q \in Procs \ {p} : pc'[q] = pc[q]
      /\ UNCHANGED <<ports, queue, signal, message, replied>>
  BY DEF FindPort, AddPortFails, Become, IInv, TypeOK
<1>2. \A q \in Procs : Waiting(q) => StillWaiting(q)
  BY <1>1 DEF Waiting, StillWaiting
<1>3. TypeOK' /\ MessageForWake'
  BY <1>1 DEF IInv, TypeOK, MessageForWake
<1>4. MessageAlive'
  BY <1>1, <1>2, AliveParts DEF IInv, MessageAlive, Waiting, StillWaiting
<1>5. SignalsCounted'
  BY <1>1 DEF IInv, TypeOK, SignalsCounted
<1> QED BY <1>3, <1>4, <1>5 DEF IInv

\* A port that comes or goes starts without messages and without signal.
LEMMA PortInv ==
    ASSUME IInv, NEW p \in Procs,
           pc[p] \in {"opening", "server", "woken", "client"},
           pc' = [pc EXCEPT ![p] = IF pc[p] = "opening" THEN "server" ELSE "closed"],
           queue' = [queue EXCEPT ![p] = <<>>],
           signal' = [signal EXCEPT ![p] = FALSE],
           ports' \in Seq(Procs),
           UNCHANGED <<message, replied>>
    PROVE  IInv'
<1>1. \A q \in Procs : Waiting(q) => StillWaiting(q)
  BY DEF Waiting, StillWaiting, IInv, TypeOK
<1>2. /\ queue' \in [Procs -> Seq(Procs)] /\ queue'[p] = <<>>
      /\ \A q \in Procs \ {p} : queue'[q] = queue[q]
  BY EmptySeq DEF IInv, TypeOK
<1>3. TypeOK'
  BY <1>2 DEF IInv, TypeOK
<1>4. MessageForWake' /\ SignalsCounted'
  BY <1>2 DEF IInv, TypeOK, MessageForWake, SignalsCounted
<1>5. MessageAlive'
  <2>1. \A q \in Procs : message[q] # NoProc => StillWaiting(message[q])
    BY <1>1, AliveParts DEF IInv
  <2>2. ASSUME NEW q \in Procs, NEW i \in 1 .. Len(queue'[q])
        PROVE  q # p /\ queue'[q] = queue[q] /\ i \in 1 .. Len(queue[q])
    <3>1. q # p
      BY <1>2, <2>2, EmptySeq
    <3> QED BY <3>1, <1>2, <2>2
  <2>3. \A q \in Procs : \A i \in 1 .. Len(queue'[q]) : StillWaiting(queue'[q][i])
    <3> TAKE q \in Procs
    <3> TAKE i \in 1 .. Len(queue'[q])
    <3>1. queue'[q] = queue[q] /\ i \in 1 .. Len(queue[q])
      BY <2>2
    <3>2. Waiting(queue[q][i]) /\ queue[q][i] \in Procs
      BY <3>1, AliveParts DEF IInv
    <3> QED BY <3>1, <3>2, <1>1
  <2>4. \A q, t \in Procs : \A i \in 1 .. Len(queue'[q]) : message[t] # queue'[q][i]
    BY <2>2, AliveParts DEF IInv
  <2>5. \A q, t \in Procs : \A i \in 1 .. Len(queue'[q]), j \in 1 .. Len(queue'[t]) :
           queue'[q][i] = queue'[t][j] => q = t /\ i = j
    BY <2>2, AliveParts DEF IInv
  <2>6. \A q, t \in Procs : message[q] = message[t] /\ q # t => message[q] = NoProc
    BY AliveParts DEF IInv
  <2> QED BY <2>1, <2>3, <2>4, <2>5, <2>6 DEF MessageAlive, Waiting, StillWaiting
<1> QED BY <1>3, <1>4, <1>5 DEF IInv

LEMMA Removed ==
    ASSUME NEW S, NEW s \in Seq(S), NEW i \in 1 .. Len(s)
    PROVE  SubSeq(s, 1, i - 1) \o SubSeq(s, i + 1, Len(s)) \in Seq(S)
<1>1. SubSeq(s, 1, i - 1) \in Seq(S)
  BY SubSeqProperties
<1>2. SubSeq(s, i + 1, Len(s)) \in Seq(S)
  BY SubSeqProperties
<1> QED BY <1>1, <1>2, ConcatProperties

LEMMA SendInv == ASSUME IInv, NEW p \in Procs, Send(p) PROVE IInv'
<1> DEFINE s == Head(ports)
           q == queue[s]
<1>1. /\ pc[p] = "client" /\ ports \in Seq(Procs) /\ ports # <<>>
      /\ queue' = [queue EXCEPT ![s] = Append(@, p)]
      /\ signal' = [signal EXCEPT ![s] = TRUE]
      /\ pc' = [pc EXCEPT ![p] = "sending"]
      /\ UNCHANGED <<ports, message, replied>>
  BY DEF Send, Become, IInv, TypeOK
<1>2. s \in Procs
  BY <1>1, Dequeued
<1> HIDE DEF s
<1>3. q \in Seq(Procs)
  BY <1>2 DEF IInv, TypeOK
<1>4. /\ Append(q, p) \in Seq(Procs) /\ Len(Append(q, p)) = Len(q) + 1
      /\ Append(q, p) # <<>>
      /\ \A i \in 1 .. Len(Append(q, p)) :
            \/ i \in 1 .. Len(q) /\ Append(q, p)[i] = q[i]
            \/ i = Len(q) + 1 /\ Append(q, p)[i] = p
      /\ q # <<>> => Len(q) >= 1
  BY <1>3, Enqueued
<1>5. /\ queue' \in [Procs -> Seq(Procs)] /\ queue'[s] = Append(q, p)
      /\ \A t \in Procs \ {s} : queue'[t] = queue[t]
  BY <1>1, <1>2, <1>4 DEF IInv, TypeOK
<1>6. TypeOK'
  BY <1>1, <1>5 DEF IInv, TypeOK
<1>7. \A t \in Procs : Waiting(t) => t # p /\ StillWaiting(t)
  BY <1>1 DEF Waiting, StillWaiting, IInv, TypeOK
<1>8. StillWaiting(p)
  BY <1>1 DEF Waiting, StillWaiting, IInv, TypeOK, SignalsCounted
<1>9. MessageForWake'
  BY <1>1, <1>2, <1>4, <1>5 DEF IInv, TypeOK, MessageForWake
<1>10. SignalsCounted'
  <2>1. pc[s] = "woken" => Len(queue'[s]) >= 2
    <3>1. pc[s] = "woken" => q # <<>>
      BY <1>2 DEF IInv, MessageForWake
    <3>2. Len(q) \in Nat
      BY <1>3
    <3> HIDE DEF q
    <3> QED BY <3>1, <3>2, <1>4, <1>5
  <2> HIDE DEF q
  <2> QED BY <2>1, <1>1, <1>2, <1>4, <1>5 DEF IInv, TypeOK, SignalsCounted
<1>11. MessageAlive'
  <2>1. \A t \in Procs : message[t] # NoProc => StillWaiting(message[t]) /\ message[t] # p
    BY <1>7, AliveParts DEF IInv
  <2>2. \A t \in Procs : \A i \in 1 .. Len(queue[t]) :
           StillWaiting(queue[t][i]) /\ queue[t][i] # p
    BY <1>7, AliveParts DEF IInv
  <2>3. \A t \in Procs : \A i \in 1 .. Len(queue'[t]) :
           \/ i \in 1 .. Len(queue[t]) /\ queue'[t][i] = queue[t][i]
           \/ t = s /\ i = Len(queue[t]) + 1 /\ queue'[t][i] = p
    <3> TAKE t \in Procs
    <3> TAKE i \in 1 .. Len(queue'[t])
    <3>1. CASE t = s
      BY <3>1, <1>4, <1>5
    <3>2. CASE t # s
      BY <3>2, <1>5
    <3> QED BY <3>1, <3>2
  <2>4. \A t \in Procs : \A i \in 1 .. Len(queue'[t]) : StillWaiting(queue'[t][i])
    BY <2>2, <2>3, <1>8
  <2>5. \A t \in Procs : message[t] # p
    BY <2>1, PortAssumption
  <2>6. \A t, u \in Procs : \A i \in 1 .. Len(queue'[t]) : message[u] # queue'[t][i]
    <3> TAKE t, u \in Procs
    <3> TAKE i \in 1 .. Len(queue'[t])
    <3>1. CASE i \in 1 .. Len(queue[t]) /\ queue'[t][i] = queue[t][i]
      BY <3>1, AliveParts DEF IInv
    <3>2. CASE queue'[t][i] = p
      BY <3>2, <2>5
    <3> QED BY <3>1, <3>2, <2>3
  <2>7. \A t, u \in Procs : \A i \in 1 .. Len(queue'[t]), j \in 1 .. Len(queue'[u]) :
           queue'[t][i] = queue'[u][j] => t = u /\ i = j
    <3> TAKE t, u \in Procs
    <3> TAKE i \in 1 .. Len(queue'[t]), j \in 1 .. Len(queue'[u])
    <3> HAVE queue'[t][i] = queue'[u][j]
    <3>1. CASE queue'[t][i] = p
      <4>1. t = s /\ i = Len(queue[t]) + 1
        BY <3>1, <2>2, <2>3
      <4>2. u = s /\ j = Len(queue[u]) + 1
        BY <3>1, <2>2, <2>3
      <4> QED BY <4>1, <4>2
    <3>2. CASE queue'[t][i] # p
      <4>1. i \in 1 .. Len(queue[t]) /\ queue'[t][i] = queue[t][i]
        BY <3>2, <2>3
      <4>2. j \in 1 .. Len(queue[u]) /\ queue'[u][j] = queue[u][j]
        BY <3>2, <2>3
      <4>3. queue[t][i] = queue[u][j]
        BY <4>1, <4>2
      <4>4. \A k \in 1 .. Len(queue[t]), l \in 1 .. Len(queue[u]) :
               queue[t][k] = queue[u][l] => t = u /\ k = l
        BY AliveParts DEF IInv
      <4> QED BY <4>1, <4>2, <4>3, <4>4
    <3> QED BY <3>1, <3>2
  <2>8. \A t, u \in Procs : message[t] = message[u] /\ t # u => message[t] = NoProc
    BY AliveParts DEF IInv
  <2>9. \A t \in Procs : message[t] # NoProc => StillWaiting(message[t])
    BY <2>1
  <2> HIDE DEF q
  <2> QED BY <2>4, <2>6, <2>7, <2>8, <2>9, <1>1 DEF MessageAlive, Waiting, StillWaiting
<1> QED BY <1>6, <1>9, <1>10, <1>11 DEF IInv

LEMMA WakeInv == ASSUME IInv, NEW p \in Procs, Wake(p) PROVE IInv'
<1>1. /\ pc[p] = "server" /\ signal[p]
      /\ signal' = [signal EXCEPT ![p] = FALSE] /\ pc' = [pc EXCEPT ![p] = "woken"]
      /\ UNCHANGED <<ports, queue, message, replied>>
  BY DEF Wake, SignalCleared, Become
<1>2. \A q \in Procs : Waiting(q) => StillWaiting(q)
  BY <1>1 DEF Waiting, StillWaiting, IInv, TypeOK
<1>3. TypeOK'
  BY <1>1 DEF IInv, TypeOK
<1>4. MessageForWake' /\ SignalsCounted'
  BY <1>1 DEF IInv, TypeOK, MessageForWake, SignalsCounted
<1>5. MessageAlive'
  BY <1>1, <1>2, AliveParts DEF IInv, MessageAlive, Waiting, StillWaiting
<1> QED BY <1>3, <1>4, <1>5 DEF IInv

LEMMA ReturnInv == ASSUME IInv, NEW p \in Procs, Return(p) PROVE IInv'
<1>1. /\ pc[p] = "sending" /\ replied[p]
      /\ pc' = [pc EXCEPT ![p] = "client"] /\ replied' = [replied EXCEPT ![p] = FALSE]
      /\ UNCHANGED <<ports, queue, signal, message>>
  BY DEF Return, Answered, Become
<1>2. \A q \in Procs : Waiting(q) => StillWaiting(q)
  BY <1>1 DEF Waiting, StillWaiting, IInv, TypeOK
<1>3. TypeOK'
  BY <1>1 DEF IInv, TypeOK
<1>4. MessageForWake' /\ SignalsCounted'
  BY <1>1 DEF IInv, TypeOK, MessageForWake, SignalsCounted
<1>5. MessageAlive'
  BY <1>1, <1>2, AliveParts DEF IInv, MessageAlive, Waiting, StillWaiting
<1> QED BY <1>3, <1>4, <1>5 DEF IInv

LEMMA GetMsgInv == ASSUME IInv, NEW p \in Procs, GetMsg(p) PROVE IInv'
<1> DEFINE q == queue[p]
<1>1. /\ pc[p] = "woken" /\ q # <<>> /\ q \in Seq(Procs)
      /\ message' = [message EXCEPT ![p] = Head(q)]
      /\ queue' = [queue EXCEPT ![p] = Tail(q)]
      /\ pc' = [pc EXCEPT ![p] = "serving"]
      /\ UNCHANGED <<ports, signal, replied>>
  BY DEF GetMsg, Become, IInv, TypeOK
<1>2. /\ Head(q) = q[1] /\ q[1] \in Procs /\ 1 \in 1 .. Len(q) /\ Len(q) \in Nat
      /\ Tail(q) \in Seq(Procs) /\ Len(Tail(q)) = Len(q) - 1
      /\ \A i \in 1 .. Len(Tail(q)) : Tail(q)[i] = q[i + 1]
      /\ Tail(q) = <<>> <=> Len(q) = 1
  BY <1>1, Dequeued
<1>3. \A i \in 1 .. Len(Tail(q)) : i + 1 \in 1 .. Len(q) /\ i + 1 # 1
  BY <1>2
<1>4. /\ queue' \in [Procs -> Seq(Procs)] /\ queue'[p] = Tail(q)
      /\ \A t \in Procs \ {p} : queue'[t] = queue[t]
      /\ message' \in [Procs -> Procs \cup {NoProc}] /\ message'[p] = q[1]
      /\ \A t \in Procs \ {p} : message'[t] = message[t]
  BY <1>1, <1>2 DEF IInv, TypeOK
<1>5. TypeOK'
  BY <1>1, <1>4 DEF IInv, TypeOK
<1>6. \A t \in Procs : Waiting(t) => StillWaiting(t)
  BY <1>1 DEF Waiting, StillWaiting, IInv, TypeOK
<1>7. signal[p] => Tail(q) # <<>>
  <2>1. signal[p] => Len(q) >= 2
    BY <1>1 DEF IInv, SignalsCounted
  <2> HIDE DEF q
  <2> QED BY <2>1, <1>2
<1>8. q[1] # NoProc
  BY <1>2, PortAssumption
<1> HIDE DEF q
<1>9. MessageForWake' /\ SignalsCounted'
  BY <1>1, <1>4, <1>7, <1>8 DEF IInv, TypeOK, MessageForWake, SignalsCounted
<1>10. MessageAlive'
  <2> DEFINE at(t, i) == IF t = p THEN i + 1 ELSE i
  <2>1. \A t \in Procs : \A i \in 1 .. Len(queue'[t]) :
           /\ at(t, i) \in 1 .. Len(queue[t]) /\ queue'[t][i] = queue[t][at(t, i)]
           /\ t = p => at(t, i) # 1
    BY <1>2, <1>3, <1>4 DEF q
  <2>2. \A t \in Procs : \A i, j \in 1 .. Len(queue'[t]) : at(t, i) = at(t, j) => i = j
    <3> TAKE t \in Procs
    <3>1. Len(queue'[t]) \in Nat
      BY <1>4
    <3> QED BY <3>1
  <2> HIDE DEF at
  <2>3. p \in Procs /\ 1 \in 1 .. Len(queue[p]) /\ message'[p] = queue[p][1]
    BY <1>2, <1>4 DEF q
  <2>4. \A t \in Procs : message'[t] # NoProc => StillWaiting(message'[t])
    <3> TAKE t \in Procs
    <3>1. CASE t = p
      BY <3>1, <2>3, <1>6, AliveParts DEF IInv
    <3>2. CASE t # p
      BY <3>2, <1>4, <1>6, AliveParts DEF IInv
    <3> QED BY <3>1, <3>2
  <2>5. \A t \in Procs : \A i \in 1 .. Len(queue'[t]) : StillWaiting(queue'[t][i])
    BY <2>1, <1>6, AliveParts DEF IInv
  <2>6. \A t, u \in Procs : \A i \in 1 .. Len(queue'[t]) : message'[u] # queue'[t][i]
    <3> TAKE t, u \in Procs
    <3> TAKE i \in 1 .. Len(queue'[t])
    <3>1. CASE u = p
      BY <3>1, <2>1, <2>3, AliveParts DEF IInv
    <3>2. CASE u # p
      <4>1. message'[u] = message[u] /\ queue'[t][i] = queue[t][at(t, i)]
        BY <3>2, <2>1, <1>4
      <4>2. message[u] # queue[t][at(t, i)]
        BY <2>1, AliveParts DEF IInv
      <4> QED BY <4>1, <4>2
    <3> QED BY <3>1, <3>2
  <2>7. \A t, u \in Procs : \A i \in 1 .. Len(queue'[t]), j \in 1 .. Len(queue'[u]) :
           queue'[t][i] = queue'[u][j] => t = u /\ i = j
    <3> TAKE t, u \in Procs
    <3> TAKE i \in 1 .. Len(queue'[t]), j \in 1 .. Len(queue'[u])
    <3> HAVE queue'[t][i] = queue'[u][j]
    <3>1. queue[t][at(t, i)] = queue[u][at(u, j)]
      BY <2>1
    <3>2. t = u /\ at(t, i) = at(u, j)
      BY <3>1, <2>1, AliveParts DEF IInv
    <3> QED BY <3>2, <2>2
  <2>8. \A t, u \in Procs : message'[t] = message'[u] /\ t # u => message'[t] = NoProc
    <3> TAKE t, u \in Procs
    <3> HAVE message'[t] = message'[u] /\ t # u
    <3>1. CASE t # p /\ u # p
      <4>1. message'[t] = message[t] /\ message'[u] = message[u]
        BY <3>1, <1>4
      <4>2. \A v, w \in Procs : message[v] = message[w] /\ v # w => message[v] = NoProc
        BY AliveParts DEF IInv
      <4> QED BY <4>1, <4>2
    <3>2. \A v \in Procs : message[v] # queue[p][1]
      BY <2>3, AliveParts DEF IInv
    <3>3. CASE t = p \/ u = p
      BY <3>2, <3>3, <2>3, <1>4
    <3> QED BY <3>1, <3>3
  <2> QED BY <2>4, <2>5, <2>6, <2>7, <2>8 DEF MessageAlive, Waiting, StillWaiting
<1> QED BY <1>5, <1>9, <1>10 DEF IInv

LEMMA ReplyMsgInv == ASSUME IInv, NEW p \in Procs, ReplyMsg(p) PROVE IInv'
<1> DEFINE m == message[p]
<1>1. /\ pc[p] = "serving" /\ m \in Procs /\ m # NoProc
      /\ replied' = [replied EXCEPT ![m] = TRUE]
      /\ message' = [message EXCEPT ![p] = NoProc]
      /\ pc' = [pc EXCEPT ![p] = "server"]
      /\ UNCHANGED <<ports, queue, signal>>
  BY DEF ReplyMsg, Replies, Become, IInv, TypeOK, SignalsCounted
<1>2. Waiting(m)
  BY <1>1, AliveParts DEF IInv
<1> HIDE DEF m
<1>3. TypeOK'
  BY <1>1 DEF IInv, TypeOK
<1>4. MessageForWake' /\ SignalsCounted'
  BY <1>1, <1>2 DEF IInv, TypeOK, MessageForWake, SignalsCounted, Waiting
<1>5. \A t \in Procs : t # m /\ Waiting(t) => StillWaiting(t)
  BY <1>1 DEF Waiting, StillWaiting, IInv, TypeOK
<1>6. \A t \in Procs : message'[t] = IF t = p THEN NoProc ELSE message[t]
  BY <1>1 DEF IInv, TypeOK
<1>7. \A t \in Procs : message'[t] # NoProc => StillWaiting(message'[t])
  <2> TAKE t \in Procs
  <2> HAVE message'[t] # NoProc
  <2>1. t # p /\ message'[t] = message[t]
    BY <1>6
  <2>2. message[t] # m /\ message[t] \in Procs /\ Waiting(message[t])
    BY <2>1, <1>1, AliveParts DEF IInv, m
  <2> QED BY <2>1, <2>2, <1>5
<1>8. \A t \in Procs : \A i \in 1 .. Len(queue[t]) : StillWaiting(queue[t][i])
  BY <1>5, AliveParts DEF IInv, m
<1>9. \A t, u \in Procs : \A i \in 1 .. Len(queue[t]) : message'[u] # queue[t][i]
  BY <1>6, AliveParts, PortAssumption DEF IInv
<1>10. \A t, u \in Procs : message'[t] = message'[u] /\ t # u => message'[t] = NoProc
  BY <1>6, AliveParts DEF IInv
<1>11. \A t, u \in Procs : \A i \in 1 .. Len(queue[t]), j \in 1 .. Len(queue[u]) :
           queue[t][i] = queue[u][j] => t = u /\ i = j
  BY AliveParts DEF IInv
<1>12. MessageAlive'
  BY <1>1, <1>7, <1>8, <1>9, <1>10, <1>11 DEF MessageAlive, Waiting, StillWaiting
<1> QED BY <1>3, <1>4, <1>12 DEF IInv

LEMMA NextInv == IInv /\ [Next]_vars => IInv'
<1> SUFFICES ASSUME IInv, [Next]_vars PROVE IInv' OBVIOUS
<1>1. ASSUME NEW p \in Procs, FindPort(p) \/ AddPortFails(p) PROVE IInv'
  BY <1>1, OpenInv
<1>2. ASSUME NEW p \in Procs, AddPort(p) PROVE IInv'
  <2>1. ports' \in Seq(Procs)
    BY <1>2, Enqueued DEF AddPort, IInv, TypeOK
  <2> QED BY <1>2, <2>1, PortInv DEF AddPort, Become
<1>3. ASSUME NEW p \in Procs, Close(p) PROVE IInv'
  <2>1. ports' \in Seq(Procs)
    BY <1>3, Removed DEF Close, RemPort, IInv, TypeOK
  <2> QED BY <1>3, <2>1, PortInv DEF Close, Become
<1>4. ASSUME NEW p \in Procs, Send(p) PROVE IInv'
  BY <1>4, SendInv
<1>5. ASSUME NEW p \in Procs, Return(p) PROVE IInv'
  BY <1>5, ReturnInv
<1>6. ASSUME NEW p \in Procs, Wake(p) PROVE IInv'
  BY <1>6, WakeInv
<1>7. ASSUME NEW p \in Procs, GetMsg(p) PROVE IInv'
  BY <1>7, GetMsgInv
<1>8. ASSUME NEW p \in Procs, ReplyMsg(p) PROVE IInv'
  BY <1>8, ReplyMsgInv
<1>9. CASE UNCHANGED vars
  BY <1>9 DEF vars, IInv, TypeOK, MessageForWake, MessageAlive, SignalsCounted, Waiting
<1> QED BY <1>1, <1>2, <1>3, <1>4, <1>5, <1>6, <1>7, <1>8, <1>9 DEF Next, Runs

--------------------------------------------------------------------------------
(***************************************************************************)
(* The theorems.                                                           *)
(***************************************************************************)

\* However opens, closes, sends and wakes of any number of processes come
\* together, signals and messages stay in step as IInv says.
THEOREM Invariance == Spec => []IInv
BY InitInv, NextInv, PTL DEF Spec

\* RApplication::Main() never passes on a null message: a wake by the signal of
\* the port always finds a message, although GetMsg() is called once per wake.
THEOREM WakesHaveMessages == Spec => []MessageForWake
<1>1. IInv => MessageForWake
  BY DEF IInv
<1> QED BY <1>1, Invariance, PTL

\* The message the server works on is never freed under it, and no message is
\* replied to twice, even if servers close with messages on their ports.
THEOREM MessagesStayAlive == Spec => []MessageAlive
<1>1. IInv => MessageAlive
  BY DEF IInv
<1> QED BY <1>1, Invariance, PTL

--------------------------------------------------------------------------------
(***************************************************************************)
(* How many servers there are, with the record of whether two processes    *)
(* have been in open() at the same time.                                   *)
(***************************************************************************)
LEMMA HStep == [HNext]_<<vars, usage>> => [Next]_vars
BY DEF HNext, vars

LEMMA HInvariance == HSpec => []IInv
<1>1. HInit => IInv
  BY InitInv DEF HInit
<1>2. IInv /\ [HNext]_<<vars, usage>> => IInv'
  BY HStep, NextInv
<1> QED BY <1>1, <1>2, PTL DEF HSpec

LEMMA HostInit == HInit => HostAlone
BY DEF HInit, Init, HostAlone, Serves

LEMMA SinglePort ==
    ASSUME NEW p \in Procs, NEW q \in Procs, ports = <<q>>, RemPort(p)
    PROVE  ports' = IF p = q THEN <<>> ELSE <<q>>
<1>1. Len(ports) = 1 /\ ports[1] = q
  OBVIOUS
<1>2. CASE \A i \in 1 .. Len(ports) : ports[i] # p
  <2>1. p # q
    BY <1>1, <1>2
  <2>2. ~ \E i \in 1 .. Len(ports) : ports[i] = p
    BY <1>2
  <2> QED BY <2>1, <2>2 DEF RemPort
<1>3. CASE \E i \in 1 .. Len(ports) : ports[i] = p
  <2>1. PICK i \in 1 .. Len(ports) :
           /\ ports[i] = p
           /\ ports' = SubSeq(ports, 1, i - 1) \o SubSeq(ports, i + 1, Len(ports))
    BY <1>3 DEF RemPort
  <2>2. i = 1 /\ p = q
    BY <1>1, <2>1
  <2>3. SubSeq(ports, 1, 0) = <<>> /\ SubSeq(ports, 2, 1) = <<>>
    OBVIOUS
  <2> QED BY <1>1, <2>1, <2>2, <2>3
<1> QED BY <1>2, <1>3

\* A process that only moves between the states of one role changes nothing.
LEMMA SameHost ==
    ASSUME HostAlone, "overlap" \notin usage, UNCHANGED ports,
           \A p \in Procs : (pc'[p] = "opening" => pc[p] = "opening")
                            /\ (pc'[p] \in {"server", "woken", "serving"} <=> Serves(p))
    PROVE  HostAlone'
BY DEF HostAlone, Serves

LEMMA HostNext == IInv /\ HostAlone /\ [HNext]_<<vars, usage>> => HostAlone'
<1> SUFFICES ASSUME IInv, HostAlone, [HNext]_<<vars, usage>>, "overlap" \notin usage'
             PROVE  HostAlone'
  BY DEF HostAlone
<1>1. CASE UNCHANGED <<vars, usage>>
  BY <1>1 DEF vars, HostAlone, Serves
<1> SUFFICES ASSUME HNext PROVE HostAlone'
  BY <1>1
<1>2. "overlap" \notin usage /\ ~Overlap
  BY DEF HNext
<1>3. /\ \A p, q \in Procs :
           (Serves(p) \/ pc[p] = "opening") /\ (Serves(q) \/ pc[q] = "opening") => p = q
      /\ ports = <<>> \/ \E p \in Procs : ports = <<p>> /\ Serves(p)
      /\ \A p \in Procs : Serves(p) => ports = <<p>>
      /\ TypeOK
  BY <1>2 DEF HostAlone, IInv
<1>4. ASSUME NEW p \in Procs, FindPort(p) PROVE HostAlone'
  <2>1. \A q \in Procs : pc[q] # "opening"
    BY <1>2, <1>4 DEF Overlap
  <2>2. \A q \in Procs \ {p} : pc'[q] = pc[q]
    BY <1>4 DEF FindPort, Become, IInv, TypeOK
  <2>3. /\ pc[p] = "closed" /\ ports' = ports
        /\ pc'[p] = IF ports = <<>> THEN "opening" ELSE "client"
    BY <1>4 DEF FindPort, FindsNone, Become, IInv, TypeOK
  <2>4. CASE ports = <<>>
    <3>1. \A q \in Procs : ~Serves(q)
      BY <2>4, <1>3
    <3> QED BY <3>1, <2>1, <2>2, <2>3, <2>4 DEF HostAlone, Serves
  <2>5. CASE ports # <<>>
    BY <2>1, <2>2, <2>3, <2>5, <1>2, SameHost DEF Serves
  <2> QED BY <2>4, <2>5
<1>5. ASSUME NEW p \in Procs, AddPort(p) PROVE HostAlone'
  <2>1. \A q \in Procs : ~Serves(q) /\ (q # p => pc[q] # "opening")
    BY <1>3, <1>5 DEF AddPort, Serves
  <2>2. ports = <<>>
    BY <2>1, <1>3
  <2>3. ports' = <<p>>
    BY <1>5, <2>2 DEF AddPort
  <2>4. pc'[p] = "server" /\ \A q \in Procs \ {p} : pc'[q] = pc[q]
    BY <1>5 DEF AddPort, Become, IInv, TypeOK
  <2> QED BY <2>1, <2>3, <2>4 DEF HostAlone, Serves
<1>6. ASSUME NEW p \in Procs, AddPortFails(p) PROVE HostAlone'
  <2>1. /\ pc[p] = "opening" /\ pc'[p] = "closed" /\ ports' = ports
        /\ \A q \in Procs \ {p} : pc'[q] = pc[q]
    BY <1>6 DEF AddPortFails, Become, IInv, TypeOK
  <2> QED BY <2>1, <1>2, SameHost DEF Serves
<1>7. ASSUME NEW p \in Procs, Close(p) PROVE HostAlone'
  <2>1. /\ pc[p] \in {"server", "woken", "client"} /\ pc'[p] = "closed" /\ RemPort(p)
        /\ \A q \in Procs \ {p} : pc'[q] = pc[q]
    BY <1>7 DEF Close, Become, IInv, TypeOK
  <2>2. CASE ports = <<>>
    <3>1. ports' = <<>>
      BY <2>1, <2>2 DEF RemPort
    <3> QED BY <3>1, <2>1, <2>2, <1>3 DEF HostAlone, Serves
  <2>3. ASSUME NEW s \in Procs, ports = <<s>>, Serves(s) PROVE HostAlone'
    <3>1. ports' = IF p = s THEN <<>> ELSE <<s>>
      BY <2>1, <2>3, SinglePort
    <3>2. \A q \in Procs : Serves(q) \/ pc[q] = "opening" => q = s
      BY <2>3, <1>3
    <3> QED BY <3>1, <3>2, <2>1, <2>3 DEF HostAlone, Serves
  <2> QED BY <2>2, <2>3, <1>3
<1>8. ASSUME NEW p \in Procs, Send(p) \/ Return(p) \/ Wake(p) \/ GetMsg(p) \/ ReplyMsg(p)
      PROVE  HostAlone'
  <2>1. ports' = ports
    BY <1>8 DEF Send, Return, Wake, GetMsg, ReplyMsg
  <2>2. CASE Send(p) \/ Return(p)
    <3>1. /\ pc[p] \in {"client", "sending"} /\ pc'[p] \in {"client", "sending"}
          /\ \A q \in Procs \ {p} : pc'[q] = pc[q]
      BY <2>2 DEF Send, Return, Become, IInv, TypeOK
    <3> QED BY <3>1, <2>1, <1>2, SameHost DEF Serves
  <2>3. CASE Wake(p) \/ GetMsg(p) \/ ReplyMsg(p)
    <3>1. /\ Serves(p) /\ pc'[p] \in {"server", "woken", "serving"}
          /\ \A q \in Procs \ {p} : pc'[q] = pc[q]
      BY <2>3 DEF Wake, GetMsg, ReplyMsg, Become, Serves, IInv, TypeOK
    <3> QED BY <3>1, <2>1, <1>2, SameHost DEF Serves
  <2> QED BY <1>8, <2>2, <2>3
<1> QED BY <1>4, <1>5, <1>6, <1>7, <1>8 DEF HNext, Next, Runs

\* As long as no two processes have been in RRendezvous::open() at the same time,
\* there is one port of the name at most, and one server, for any number of
\* processes, however servers and clients come and go.
THEOREM OneServer == HSpec => []OneServerApart
<1>1. HostAlone => OneServerApart
  <2> SUFFICES ASSUME HostAlone, "overlap" \notin usage PROVE Len(ports) <= 1
    BY DEF OneServerApart
  <2>1. CASE ports = <<>>
    BY <2>1
  <2>2. ASSUME NEW p \in Procs, ports = <<p>> PROVE Len(ports) <= 1
    BY <2>2
  <2> QED BY <2>1, <2>2 DEF HostAlone
<1> QED BY <1>1, HInvariance, HostInit, HostNext, PTL DEF HSpec
================================================================================
