----------------------------- MODULE RemoteProofs ------------------------------
(***************************************************************************)
(* Theorems about RemoteSession (the inductive invariant IInv, and what    *)
(* follows from it) and about RemoteFile: the offset stays in the buffer,  *)
(* and RRemoteFile implements FileHandle on the server's own files; and,   *)
(* last, about the bytes of one FileTransfer.                              *)
(***************************************************************************)
EXTENDS RemoteFile, FileTransfer, SequenceTheorems, TLAPS

LEMMA SendableRequests ==
    ASSUME NEW r \in ClientRequests \cup {Hello}
    PROVE  /\ r \in Requests
           /\ r \in ClientRequests <=> r.cmd # "version"
           /\ r = Hello <=> r.cmd = "version"
           /\ r.cmd # "version" => r.name \in Names
           /\ r.cmd = "rename" => r.to \in Names
BY ConstantsAssumption DEF ClientRequests, Hello, Request, Requests, Commands

LEMMA InitInv == Init => IInv
<1> SUFFICES ASSUME Init PROVE IInv OBVIOUS
<1>1. TypeOK
  BY ConstantsAssumption DEF Init, TypeOK, LinkStates, Hello, Request, Requests, Commands, Results
<1>2. LinksInOrder
  BY ConstantsAssumption DEF Init, LinksInOrder, NoLeakedLink, Held
<1>3. OneReplyDue /\ RestOfReply /\ WaitsForRequest
  BY DEF Init, OneReplyDue, RestOfReply, WaitsForRequest
<1> QED BY <1>1, <1>2, <1>3 DEF IInv

LEMMA CloseInv == ASSUME IInv, Close PROVE IInv'
<1>1. TypeOK'
  BY ConstantsAssumption DEF IInv, Close, Closed, TypeOK, LinkStates, server
<1>2. LinksInOrder'
  BY ConstantsAssumption DEF IInv, Close, Closed, TypeOK, LinkStates, server, LinksInOrder, NoLeakedLink, Held
<1>3. OneReplyDue' /\ RestOfReply' /\ WaitsForRequest'
  BY ConstantsAssumption DEF IInv, Close, Closed, TypeOK, LinkStates, server, OneReplyDue, RestOfReply, WaitsForRequest
<1> QED BY <1>1, <1>2, <1>3 DEF IInv

LEMMA Appended ==
    ASSUME NEW S, NEW s \in Seq(S), NEW t \in Seq(S)
    PROVE  /\ s \o t \in Seq(S)
           /\ Len(s \o t) = Len(s) + Len(t)
           /\ \A i \in 1 .. Len(s) : (s \o t)[i] = s[i]
           /\ \A i \in Len(s) + 1 .. Len(s \o t) :
                 (s \o t)[i] = t[i - Len(s)] /\ i - Len(s) \in 1 .. Len(t)
OBVIOUS

LEMMA WireUnits ==
    ASSUME NEW r \in ClientRequests
    PROVE  /\ Wire(r) \in Seq(ToServer)
           /\ \A i \in 1 .. Len(Wire(r)) :
                 Wire(r)[i].req = r /\ Wire(r)[i].kind # "signature"
           /\ Len(Wire(r)) = IF r.cmd = "send" THEN 3 ELSE 1
<1>1. \A k \in {"command", "size", "data"} : Unit(k, r) \in ToServer
  BY DEF Unit, ToServer
<1>2. \A k : Unit(k, r).req = r /\ Unit(k, r).kind = k
  BY DEF Unit
<1>3. CASE r.cmd = "send"
  <2>1. Wire(r) = <<Unit("command", r), Unit("size", r), Unit("data", r)>>
    BY <1>3 DEF Wire
  <2>2. Wire(r) \in Seq(ToServer) /\ Len(Wire(r)) = 3
    BY <2>1, <1>1
  <2>3. \A i \in 1 .. 3 : Wire(r)[i] = Unit("command", r)
           \/ Wire(r)[i] = Unit("size", r) \/ Wire(r)[i] = Unit("data", r)
    BY <2>1
  <2> QED BY <2>2, <2>3, <1>2, <1>3
<1>4. CASE r.cmd # "send"
  <2>1. Wire(r) = <<Unit("command", r)>>
    BY <1>4 DEF Wire
  <2>2. Wire(r) \in Seq(ToServer) /\ Len(Wire(r)) = 1 /\ Wire(r)[1] = Unit("command", r)
    BY <2>1, <1>1
  <2> QED BY <2>2, <1>2, <1>4
<1> QED BY <1>3, <1>4

LEMMA WriteGoesInv ==
    ASSUME IInv, NEW r \in ClientRequests, pc = "idle", WriteGoes(r)
    PROVE  IInv'
<1> DEFINE q == c2s[cur]
           w == Wire(r)
<1>1. /\ cur \in Conns /\ cur # NoConn /\ link[cur] = "up"
      /\ q \in Seq(ToServer)
      /\ c2s' = [c2s EXCEPT ![cur] = q \o w]
      /\ c2s'[cur] = q \o w
      /\ \A c \in Conns \ {cur} : c2s'[c] = c2s[c]
      /\ UNCHANGED <<cur, link, s2c, got, server>>
      /\ req' = r
      /\ pc' = IF r.cmd = "send" THEN "idle" ELSE "response"
      /\ out' \in Results
  BY DEF IInv, TypeOK, LinkStates, WriteGoes, AfterWrite, Unanswered, Results
<1>2. /\ w \in Seq(ToServer)
      /\ \A i \in 1 .. Len(w) : w[i].req = r /\ w[i].kind # "signature"
      /\ Len(w) = IF r.cmd = "send" THEN 3 ELSE 1
  BY WireUnits
<1> HIDE DEF w
<1>3. /\ q \o w \in Seq(ToServer)
      /\ Len(q \o w) = Len(q) + Len(w)
      /\ \A i \in 1 .. Len(q) : (q \o w)[i] = q[i]
      /\ \A i \in Len(q) + 1 .. Len(q \o w) :
            (q \o w)[i] = w[i - Len(q)] /\ i - Len(q) \in 1 .. Len(w)
  BY <1>1, <1>2, Appended
<1>4. TypeOK'
  BY <1>1, <1>3, SendableRequests DEF IInv, TypeOK, LinkStates, server
<1>5. LinksInOrder'
  <2>1. \A c \in Conns : \A i \in 1 .. Len(c2s'[c]) :
           c2s'[c][i].kind = "signature" => i = 1 /\ (c = serving => srvPc = "signature")
    BY <1>1, <1>2, <1>3 DEF IInv, LinksInOrder, TypeOK, LinkStates
  <2> QED BY <2>1, <1>1 DEF IInv, LinksInOrder, NoLeakedLink, Held, server
<1>6. OneReplyDue'
  <2>1. \A i \in 1 .. Len(q) : ~Provokes(q[i])
    BY <1>1 DEF IInv, OneReplyDue, TypeOK, LinkStates
  <2>2. \A i \in 1 .. Len(w) : Provokes(w[i]) => i = Len(w) /\ w[i].req = r /\ r.cmd # "send"
    BY <1>2 DEF Provokes
  <2>3. s2c[cur] = <<>>
    BY <1>1 DEF IInv, RestOfReply, TypeOK, LinkStates
  <2>4. ASSUME NEW i \in 1 .. Len(q \o w), Provokes((q \o w)[i])
        PROVE  i = Len(q \o w) /\ (q \o w)[i].req = r /\ r.cmd # "send"
    <3>1. i \in Len(q) + 1 .. Len(q \o w)
      <4>1. i \notin 1 .. Len(q)
        <5>1. i \in 1 .. Len(q) => (q \o w)[i] = q[i]
          BY <1>3
        <5> QED BY <2>1, <2>4, <5>1
      <4> HIDE DEF q
      <4> QED BY <4>1, <1>1, <1>2, <1>3
    <3>2. (q \o w)[i] = w[i - Len(q)] /\ i - Len(q) \in 1 .. Len(w)
      BY <3>1, <1>3
    <3>3. i - Len(q) = Len(w) /\ (q \o w)[i].req = r /\ r.cmd # "send"
      BY <3>2, <2>2, <2>4
    <3> QED BY <3>3, <1>1, <1>2, <1>3
  <2>5. s2c'[cur'] = <<>> /\ c2s'[cur'] = q \o w /\ req' = r
    BY <1>1, <2>3
  <2>6. r.cmd # "send" => pc' = "response" /\ Awaited' = r
    BY <1>1 DEF Awaited
  <2> HIDE DEF q
  <2> QED BY <2>4, <2>5, <2>6 DEF OneReplyDue
<1>7. RestOfReply' /\ WaitsForRequest'
  BY <1>1 DEF IInv, RestOfReply, WaitsForRequest, TypeOK, LinkStates
<1> QED BY <1>4, <1>5, <1>6, <1>7 DEF IInv

LEMMA OpenInv ==
    ASSUME IInv, pc = "idle", NEW l,
           l \in [Conns -> LinkStates],
           \A c \in Conns : l[c] \in {"free", "closed", "left", "spent"},
           \A c \in Conns : l[c] = "free" => ~Held(c),
           OpenFails(l) \/ OpenConnects(l)
    PROVE  IInv'
<1>1. CASE OpenFails(l)
  <2>1. TypeOK'
    BY <1>1, ConstantsAssumption DEF IInv, OpenFails, TypeOK, LinkStates, server, Results
  <2>2. LinksInOrder'
    BY <1>1, ConstantsAssumption DEF IInv, OpenFails, TypeOK, LinkStates, server, LinksInOrder, NoLeakedLink, Held
  <2>3. OneReplyDue' /\ RestOfReply' /\ WaitsForRequest'
    BY <1>1 DEF OpenFails, OneReplyDue, RestOfReply, WaitsForRequest
  <2> QED BY <2>1, <2>2, <2>3 DEF IInv
<1>2. CASE OpenConnects(l)
  <2>1. PICK c \in Conns :
           /\ l[c] = "free"
           /\ link' = [l EXCEPT ![c] = "up"]
           /\ cur' = c /\ pc' = "version"
           /\ c2s' = [c2s EXCEPT ![c] = Handshake]
           /\ s2c' = [s2c EXCEPT ![c] = <<>>]
           /\ backlog' = Append(backlog, c)
           /\ UNCHANGED <<req, got, out, serving, srvPc, srvReq, srvVersion, disk>>
    BY <1>2 DEF OpenConnects
  <2>2. /\ Handshake \in Seq(ToServer) /\ Len(Handshake) = 2
        /\ Handshake[1].kind = "signature"
        /\ Handshake[2].kind = "command" /\ Handshake[2].req = Hello
    <3>1. Unit("signature", Hello) \in ToServer /\ Unit("command", Hello) \in ToServer
      BY DEF Unit, ToServer
    <3>2. /\ Handshake \in Seq(ToServer) /\ Len(Handshake) = 2
          /\ Handshake[1] = Unit("signature", Hello)
          /\ Handshake[2] = Unit("command", Hello)
      BY <3>1 DEF Handshake
    <3> QED BY <3>2 DEF Unit
  <2>10. \A i \in 1 .. Len(Handshake) : i = 1 \/ i = 2
    <3>1. \A i \in 1 .. 2 : i = 1 \/ i = 2
      OBVIOUS
    <3> QED BY <3>1, <2>2
  <2>3. /\ c2s'[c] = Handshake /\ s2c'[c] = <<>> /\ c # NoConn
        /\ \A d \in Conns \ {c} : c2s'[d] = c2s[d] /\ link'[d] = l[d]
        /\ link'[c] = "up"
    BY <2>1, ConstantsAssumption DEF IInv, TypeOK, LinkStates
  <2>4. ~Held(c)
    BY <2>1
  <2>5. /\ backlog' \in Seq(Conns) /\ Len(backlog') = Len(backlog) + 1
        /\ backlog'[Len(backlog')] = c
        /\ \A i \in 1 .. Len(backlog) : backlog'[i] = backlog[i]
    BY <2>1 DEF IInv, TypeOK, LinkStates
  <2>6. TypeOK'
    BY <2>1, <2>2, <2>5 DEF IInv, TypeOK, LinkStates
  <2>7. LinksInOrder'
    <3>1. NoLeakedLink' /\ (cur' # NoConn => link'[cur'] \in {"up", "fin", "rst", "dead"})
      BY <2>1, <2>3 DEF NoLeakedLink
    <3>2. \A d \in Conns : link'[d] = "free" => ~Held(d)'
      <4> TAKE d \in Conns
      <4> HAVE link'[d] = "free"
      <4>1. d # c /\ ~Held(d)
        BY <2>3
      <4>2. d # serving' /\ \A i \in 1 .. Len(backlog) : backlog[i] # d
        BY <4>1, <2>1 DEF Held
      <4>3. \A i \in 1 .. Len(backlog') : i \in 1 .. Len(backlog) \/ i = Len(backlog')
        <5>1. Len(backlog) \in Nat
          BY DEF IInv, TypeOK, LinkStates
        <5> QED BY <5>1, <2>5
      <4>4. \A i \in 1 .. Len(backlog') : backlog'[i] # d
        BY <4>1, <4>2, <4>3, <2>5
      <4> QED BY <4>2, <4>4 DEF Held
    <3>3. /\ (serving = NoConn <=> srvPc = "idle")'
          /\ \A i \in 1 .. Len(backlog') : backlog'[i] # serving'
          /\ \A i, j \in 1 .. Len(backlog') : backlog'[i] = backlog'[j] => i = j
      BY <2>1, <2>4, <2>5 DEF IInv, LinksInOrder, Held, TypeOK, LinkStates
    <3>4. \A d \in Conns : \A i \in 1 .. Len(c2s'[d]) :
             c2s'[d][i].kind = "signature"
                 => i = 1 /\ (d = serving' => srvPc' = "signature")
      <4>1. ~(c = serving)
        BY <2>4 DEF Held
      <4>2. \A i \in 1 .. Len(c2s'[c]) : c2s'[c][i].kind = "signature" => i = 1
        BY <2>2, <2>3, <2>10
      <4>3. \A d \in Conns \ {c} : c2s'[d] = c2s[d]
        BY <2>3
      <4> QED BY <4>1, <4>2, <4>3, <2>1 DEF IInv, LinksInOrder
    <3> QED BY <3>1, <3>2, <3>3, <3>4 DEF LinksInOrder
  <2>8. OneReplyDue'
    <3>1. Awaited' = Hello
      BY <2>1 DEF Awaited
    <3>2. \A i \in 1 .. Len(c2s'[c]) : Provokes(c2s'[c][i]) => i = 2
      BY <2>2, <2>3, <2>10 DEF Provokes
    <3> QED BY <3>1, <3>2, <2>1, <2>2, <2>3 DEF OneReplyDue
  <2>9. RestOfReply' /\ WaitsForRequest'
    BY <2>1, <2>3 DEF RestOfReply, WaitsForRequest
  <2> QED BY <2>6, <2>7, <2>8, <2>9 DEF IInv
<1> QED BY <1>1, <1>2

LEMMA CloseLinks ==
    ASSUME IInv, cur # NoConn
    PROVE  /\ Closed(cur, link) \in
                 [Conns -> LinkStates]
           /\ \A c \in Conns : Closed(cur, link)[c] \in {"free", "closed", "left", "spent"}
           /\ \A c \in Conns : Closed(cur, link)[c] = "free" => ~Held(c)
BY DEF IInv, TypeOK, LinkStates, LinksInOrder, NoLeakedLink, Closed

LEMMA OverwrittenLinks ==
    ASSUME IInv
    PROVE  /\ Overwritten \in [Conns -> LinkStates]
           /\ \A c \in Conns : Overwritten[c] \in {"free", "closed", "left", "spent"}
           /\ \A c \in Conns : Overwritten[c] = "free" => link[c] = "free" /\ ~Held(c)
<1>1. CASE cur = NoConn
  BY <1>1, ConstantsAssumption
     DEF IInv, TypeOK, LinkStates, LinksInOrder, NoLeakedLink, Overwritten
<1>2. CASE cur # NoConn
  <2>1. /\ cur \in Conns /\ link \in [Conns -> LinkStates]
        /\ Overwritten = [link EXCEPT ![cur] = IF @ = "up" THEN "left" ELSE "spent"]
    BY <1>2 DEF IInv, TypeOK, Overwritten
  <2> QED BY <2>1 DEF IInv, LinkStates, LinksInOrder, NoLeakedLink
<1> QED BY <1>1, <1>2

LEMMA OpenRemoteInv == ASSUME IInv, OpenRemote PROVE IInv'
<1>1. CASE OpenRefused
  <2>1. TypeOK'
    BY <1>1 DEF OpenRefused, IInv, TypeOK, LinkStates, Results, wire, server
  <2>2. LinksInOrder'
    BY <1>1 DEF OpenRefused, IInv, LinksInOrder, NoLeakedLink, Held, wire, server
  <2>3. OneReplyDue' /\ RestOfReply' /\ WaitsForRequest'
    BY <1>1 DEF OpenRefused, IInv, OneReplyDue, RestOfReply, WaitsForRequest, Awaited, wire
  <2> QED BY <2>1, <2>2, <2>3 DEF IInv
<1>2. CASE OpenFails(Overwritten) \/ OpenConnects(Overwritten)
  BY <1>2, OverwrittenLinks, OpenInv DEF OpenRemote
<1> QED BY <1>1, <1>2 DEF OpenRemote

LEMMA CheckConnectionInv == ASSUME IInv, CheckConnection PROVE IInv'
<1>1. CASE ProbeKeeps
  <2>1. /\ pc = "idle" /\ cur \in Conns /\ cur # NoConn /\ s2c[cur] = <<>>
        /\ link[cur] \in {"up", "rst"}
        /\ link' = [link EXCEPT ![cur] = ErrorSeen(@)]
        /\ UNCHANGED <<client, c2s, s2c, server>>
    BY <1>1 DEF ProbeKeeps, HasEnded, IInv, RestOfReply, LinksInOrder, TypeOK, LinkStates
  <2>2. ErrorSeen(link[cur]) \in {"up", "rst", "dead"} /\ (ErrorSeen(link[cur]) = "up" <=> link[cur] = "up")
    BY <2>1 DEF ErrorSeen
  <2>3. TypeOK'
    BY <2>1, <2>2 DEF IInv, TypeOK, LinkStates, client, server
  <2>4. LinksInOrder'
    BY <2>1, <2>2 DEF IInv, LinksInOrder, NoLeakedLink, Held, TypeOK, LinkStates, client, server
  <2>5. OneReplyDue' /\ RestOfReply' /\ WaitsForRequest'
    BY <2>1, <2>2 DEF IInv, OneReplyDue, RestOfReply, WaitsForRequest, Awaited, TypeOK, LinkStates, client, server
  <2> QED BY <2>3, <2>4, <2>5 DEF IInv
<1>2. CASE ProbeReopens
  BY <1>2, CloseLinks, OpenInv DEF ProbeReopens
<1> QED BY <1>1, <1>2, OpenRemoteInv DEF CheckConnection

LEMMA CutShort ==
    ASSUME NEW S, NEW s \in Seq(S), NEW p \in Prefixes(s)
    PROVE  /\ p \in Seq(S) /\ Len(p) \in 0 .. Len(s)
           /\ \A i \in 1 .. Len(p) : p[i] = s[i] /\ i \in 1 .. Len(s)
           /\ s = <<>> => p = <<>>
<1>1. PICK n \in 0 .. Len(s) : p = SubSeq(s, 1, n)
  BY DEF Prefixes
<1>2. /\ p \in Seq(S) /\ Len(p) = n
      /\ \A i \in 1 .. n : p[i] = s[i]
  BY <1>1
<1>3. Len(s) \in Nat
  OBVIOUS
<1>4. s = <<>> => p = <<>>
  BY <1>1, <1>2, EmptySeq
<1> QED BY <1>1, <1>2, <1>3, <1>4

\* What a write that broke off may have left on its way.
LEMMA WriteCutStream ==
    ASSUME IInv, NEW r \in ClientRequests, WriteCut(r)
    PROVE  /\ cur \in Conns /\ cur # NoConn /\ link[cur] = "up"
           /\ link' = [link EXCEPT ![cur] = ErrorSeen("rst")]
           /\ link'[cur] \in {"rst", "dead"}
           /\ \E p \in Prefixes(c2s[cur] \o Wire(r)) :
                 p \in Seq(ToServer) /\ c2s' = [c2s EXCEPT ![cur] = p]
           /\ out' = "KErrNotFound"
           /\ UNCHANGED <<cur, pc, req, got, s2c, server>>
<1>1. cur \in Conns /\ c2s[cur] \in Seq(ToServer) /\ Wire(r) \in Seq(ToServer)
  BY WireUnits DEF WriteCut, IInv, TypeOK
<1>2. c2s[cur] \o Wire(r) \in Seq(ToServer)
  BY <1>1
<1>3. PICK p \in Prefixes(c2s[cur] \o Wire(r)) : c2s' = [c2s EXCEPT ![cur] = p]
  BY DEF WriteCut
<1>4. p \in Seq(ToServer)
  BY <1>2, CutShort
<1>5. link'[cur] \in {"rst", "dead"}
  BY <1>1 DEF WriteCut, ErrorSeen, IInv, TypeOK
<1> QED BY <1>1, <1>3, <1>4, <1>5 DEF WriteCut

LEMMA WriteCutInv ==
    ASSUME IInv, NEW r \in ClientRequests, pc = "idle", WriteCut(r)
    PROVE  IInv'
<1> DEFINE w == c2s[cur] \o Wire(r)
<1>1. PICK p \in Prefixes(w) : p \in Seq(ToServer) /\ c2s' = [c2s EXCEPT ![cur] = p]
  BY WriteCutStream
<1>2. /\ c2s[cur] \in Seq(ToServer) /\ Wire(r) \in Seq(ToServer) /\ w \in Seq(ToServer)
      /\ \A i \in 1 .. Len(Wire(r)) : Wire(r)[i].kind # "signature"
  BY WriteCutStream, WireUnits DEF IInv, TypeOK
<1>3. \A i \in 1 .. Len(p) : p[i] = w[i] /\ i \in 1 .. Len(w)
  BY <1>2, CutShort
<1>4. \A i \in 1 .. Len(w) : \/ i \in 1 .. Len(c2s[cur]) /\ w[i] = c2s[cur][i]
                           \/ w[i].kind # "signature"
  <2>1. Len(w) = Len(c2s[cur]) + Len(Wire(r)) /\ Len(c2s[cur]) \in Nat
    BY <1>2
  <2> TAKE i \in 1 .. Len(w)
  <2>2. CASE i \in 1 .. Len(c2s[cur])
    BY <2>2, <1>2, Appended
  <2>3. CASE i \in Len(c2s[cur]) + 1 .. Len(w)
    BY <2>3, <1>2, Appended
  <2> QED BY <2>1, <2>2, <2>3
<1>5. TypeOK'
  BY <1>1, WriteCutStream DEF IInv, TypeOK, LinkStates, Results, server
<1>6. LinksInOrder'
  <2>1. \A c \in Conns : \A i \in 1 .. Len(c2s'[c]) :
           c2s'[c][i].kind = "signature" => i = 1 /\ (c = serving => srvPc = "signature")
    <3> TAKE c \in Conns
    <3>1. CASE c = cur
      <4>1. c2s'[c] = p
        BY <3>1, <1>1, WriteCutStream DEF IInv, TypeOK
      <4>2. \A i \in 1 .. Len(c2s[cur]) : c2s[cur][i].kind = "signature"
               => i = 1 /\ (cur = serving => srvPc = "signature")
        BY WriteCutStream DEF IInv, LinksInOrder
      <4> HIDE DEF w
      <4> QED BY <3>1, <4>1, <4>2, <1>3, <1>4
    <3>2. CASE c # cur
      BY <3>2, <1>1 DEF IInv, LinksInOrder, TypeOK
    <3> QED BY <3>1, <3>2
  <2> HIDE DEF w
  <2> QED BY <2>1, WriteCutStream DEF IInv, LinksInOrder, NoLeakedLink, Held, TypeOK, server
<1> HIDE DEF w
<1>7. OneReplyDue'
  BY WriteCutStream DEF OneReplyDue
<1>8. RestOfReply' /\ WaitsForRequest'
  BY WriteCutStream DEF IInv, RestOfReply, WaitsForRequest, Awaited
<1> QED BY <1>5, <1>6, <1>7, <1>8 DEF IInv

LEMMA SendRequestInv ==
    ASSUME IInv, NEW r \in ClientRequests, SendRequest(r)
    PROVE  IInv'
<1>1. CASE Refuse(r)
  <2>1. TypeOK'
    BY <1>1 DEF Refuse, IInv, TypeOK, LinkStates, Results, wire, server
  <2>2. LinksInOrder'
    BY <1>1 DEF Refuse, IInv, LinksInOrder, NoLeakedLink, Held, wire, server
  <2>3. OneReplyDue' /\ RestOfReply' /\ WaitsForRequest'
    BY <1>1 DEF Refuse, IInv, OneReplyDue, RestOfReply, WaitsForRequest
  <2> QED BY <2>1, <2>2, <2>3 DEF IInv
<1>2. CASE WriteFails(r)
  <2>1. /\ cur \in Conns /\ link[cur] \in {"fin", "rst", "dead"}
        /\ link' = [link EXCEPT ![cur] = ErrorSeen(@)]
        /\ ErrorSeen(link[cur]) \in {"fin", "rst", "dead"}
        /\ out' = "KErrNotFound"
        /\ UNCHANGED <<cur, pc, req, got, c2s, s2c, server>>
    BY <1>2 DEF WriteFails, Broken, ErrorSeen, IInv, TypeOK, LinkStates
  <2>2. TypeOK'
    BY <2>1 DEF IInv, TypeOK, LinkStates, Results, server
  <2>3. LinksInOrder'
    BY <2>1 DEF IInv, LinksInOrder, NoLeakedLink, Held, TypeOK, LinkStates, server
  <2>4. OneReplyDue' /\ RestOfReply' /\ WaitsForRequest'
    BY <2>1 DEF IInv, OneReplyDue, RestOfReply, WaitsForRequest, Awaited, TypeOK, LinkStates
  <2> QED BY <2>2, <2>3, <2>4 DEF IInv
<1>3. CASE WriteGoes(r)
  BY <1>3, WriteGoesInv DEF SendRequest
<1>4. CASE WriteIsLost(r)
  <2>1. /\ pc = "idle" /\ cur \in Conns /\ link[cur] = "fin"
        /\ link' = [link EXCEPT ![cur] = "rst"]
        /\ req' = r /\ pc' \in {"idle", "response"} /\ out' \in Results
        /\ s2c[cur] = <<>>
        /\ UNCHANGED <<cur, got, c2s, s2c, server>>
    BY <1>4 DEF SendRequest, WriteIsLost, AfterWrite, IInv, TypeOK, LinkStates, RestOfReply, Results
  <2>2. TypeOK'
    BY <2>1, SendableRequests DEF IInv, TypeOK, LinkStates, server
  <2>3. LinksInOrder'
    BY <2>1 DEF IInv, LinksInOrder, NoLeakedLink, Held, TypeOK, LinkStates, server
  <2>4. OneReplyDue' /\ RestOfReply' /\ WaitsForRequest'
    BY <2>1, ConstantsAssumption DEF IInv, OneReplyDue, RestOfReply, WaitsForRequest, TypeOK, LinkStates
  <2> QED BY <2>2, <2>3, <2>4 DEF IInv
<1>5. CASE WriteCut(r)
  BY <1>5, WriteCutInv DEF SendRequest
<1> QED BY <1>1, <1>2, <1>3, <1>4, <1>5 DEF SendRequest

LEMMA Shifted ==
    ASSUME NEW S, NEW q \in Seq(S), q # <<>>
    PROVE  /\ Head(q) = q[1] /\ q[1] \in S /\ Len(q) \in Nat \ {0}
           /\ Tail(q) \in Seq(S) /\ Len(Tail(q)) = Len(q) - 1
           /\ \A i \in 1 .. Len(Tail(q)) : Tail(q)[i] = q[i + 1]
           /\ Tail(q) = <<>> <=> Len(q) = 1
<1>1. Len(q) \in Nat /\ Len(q) # 0
  BY EmptySeq
<1>2. 1 \in 1 .. Len(q)
  BY <1>1
<1>3. q[1] \in S /\ Head(q) = q[1]
  BY <1>2, ElementOfSeq
<1>4. /\ Tail(q) \in Seq(S) /\ Len(Tail(q)) = Len(q) - 1
      /\ \A i \in 1 .. Len(Tail(q)) : Tail(q)[i] = q[i + 1]
  BY HeadTailProperties
<1>5. Tail(q) = <<>> <=> Len(Tail(q)) = 0
  BY <1>4, EmptySeq
<1> QED BY <1>1, <1>3, <1>4, <1>5

\* What every read of a unit has in common.
LEMMA TakeInv ==
    ASSUME IInv, pc # "idle", s2c[cur] # <<>>, Take,
           UNCHANGED <<req, c2s, server>>
    PROVE  /\ cur \in Conns /\ cur # NoConn
           /\ Incoming \in ToClient /\ Incoming.kind = pc /\ Incoming.req = Awaited
           /\ Incoming.kind # "version" => Incoming.val \in Results
           /\ s2c' \in [Conns -> Seq(ToClient)]
           /\ EndsReply(Incoming) => s2c'[cur] = <<>>
           /\ s2c'[cur] # <<>> => s2c'[cur][1].kind =
                  IF Incoming.kind = "response" THEN "size" ELSE "data"
           /\ \A i \in 1 .. Len(s2c'[cur]) :
                  /\ s2c'[cur][i].req = Awaited
                  /\ s2c'[cur][i].kind # "version" => s2c'[cur][i].val \in Results
                  /\ EndsReply(s2c'[cur][i]) => i = Len(s2c'[cur])
                  /\ i < Len(s2c'[cur]) => s2c'[cur][i + 1].kind =
                        IF s2c'[cur][i].kind = "response" THEN "size" ELSE "data"
           /\ link[cur] = "up" => \A i \in 1 .. Len(c2s[cur]) : ~Provokes(c2s[cur][i])
<1> DEFINE q == s2c[cur]
<1>1. cur \in Conns /\ cur # NoConn /\ q \in Seq(ToClient) /\ q # <<>>
  BY DEF IInv, WaitsForRequest, TypeOK, LinkStates
<1>2. s2c'[cur] = Tail(q) /\ \A c \in Conns \ {cur} : s2c'[c] = s2c[c]
  BY <1>1 DEF Take, IInv, TypeOK, LinkStates
<1>3. /\ Incoming = q[1] /\ q[1] \in ToClient /\ Len(q) \in Nat \ {0}
      /\ Tail(q) \in Seq(ToClient) /\ Len(Tail(q)) = Len(q) - 1
      /\ \A i \in 1 .. Len(Tail(q)) : Tail(q)[i] = q[i + 1]
      /\ Tail(q) = <<>> <=> Len(q) = 1
  BY <1>1, Shifted DEF Incoming
<1>4. /\ q[1].kind = pc
      /\ \A i \in 1 .. Len(q) :
              /\ q[i].req = Awaited
              /\ q[i].kind # "version" => q[i].val \in Results
              /\ EndsReply(q[i]) => i = Len(q)
              /\ i < Len(q) => q[i + 1].kind =
                    IF q[i].kind = "response" THEN "size" ELSE "data"
  BY <1>1 DEF IInv, RestOfReply
<1>5. s2c' \in [Conns -> Seq(ToClient)]
  BY <1>1, <1>3 DEF Take, IInv, TypeOK, LinkStates
<1>6. link[cur] = "up" => \A i \in 1 .. Len(c2s[cur]) : ~Provokes(c2s[cur][i])
  BY <1>1 DEF IInv, OneReplyDue
<1> HIDE DEF q
<1> DEFINE after(u) == IF u.kind = "response" THEN "size" ELSE "data"
<1>7. \A i \in 1 .. Len(q) :
           /\ q[i].req = Awaited
           /\ q[i].kind # "version" => q[i].val \in Results
           /\ EndsReply(q[i]) => i = Len(q)
           /\ i < Len(q) => q[i + 1].kind = after(q[i])
  BY <1>4
<1> HIDE DEF after
<1>8. Tail(q) # <<>> => Tail(q)[1].kind = after(q[1])
  <2> HAVE Tail(q) # <<>>
  <2>1. 1 \in 1 .. Len(Tail(q)) /\ 1 \in 1 .. Len(q) /\ 1 < Len(q)
    BY <1>3
  <2>2. Tail(q)[1] = q[1 + 1]
    BY <2>1, <1>3
  <2>3. q[1 + 1].kind = after(q[1])
    BY <2>1, <1>7
  <2> QED BY <2>2, <2>3
<1>9. \A i \in 1 .. Len(Tail(q)) :
         /\ Tail(q)[i].req = Awaited
         /\ Tail(q)[i].kind # "version" => Tail(q)[i].val \in Results
         /\ EndsReply(Tail(q)[i]) => i = Len(Tail(q))
         /\ i < Len(Tail(q)) => Tail(q)[i + 1].kind = after(Tail(q)[i])
  <2> TAKE i \in 1 .. Len(Tail(q))
  <2>1. i + 1 \in 1 .. Len(q) /\ Tail(q)[i] = q[i + 1]
    BY <1>3
  <2>2. i + 1 = Len(q) => i = Len(Tail(q))
    <3>1. i \in Nat /\ Len(q) \in Nat /\ Len(Tail(q)) = Len(q) - 1
      BY <1>3
    <3> QED BY <3>1
  <2>3. i < Len(Tail(q)) => i + 1 < Len(q) /\ i + 1 \in 1 .. Len(Tail(q))
    BY <1>3
  <2>4. i < Len(Tail(q)) => Tail(q)[i + 1] = q[(i + 1) + 1]
    BY <2>3, <1>3
  <2>5. /\ q[i + 1].req = Awaited
        /\ q[i + 1].kind # "version" => q[i + 1].val \in Results
        /\ EndsReply(q[i + 1]) => i + 1 = Len(q)
        /\ i + 1 < Len(q) => q[(i + 1) + 1].kind = after(q[i + 1])
    BY <2>1, <1>7
  <2>6. Tail(q)[i].req = Awaited
    BY <2>1, <2>5
  <2>7. Tail(q)[i].kind # "version" => Tail(q)[i].val \in Results
    BY <2>1, <2>5
  <2>8. EndsReply(Tail(q)[i]) => i = Len(Tail(q))
    BY <2>1, <2>2, <2>5
  <2>9. i < Len(Tail(q)) => Tail(q)[i + 1].kind = after(Tail(q)[i])
    BY <2>1, <2>3, <2>4, <2>5
  <2> QED BY <2>6, <2>7, <2>8, <2>9
<1>10. \A u : after(u) = IF u.kind = "response" THEN "size" ELSE "data"
  BY DEF after
<1>11. EndsReply(Incoming) => Tail(q) = <<>>
  <2>1. 1 \in 1 .. Len(q)
    BY <1>3
  <2>2. EndsReply(q[1]) => 1 = Len(q)
    BY <2>1, <1>7
  <2> QED BY <2>2, <1>3
<1>12. \A i \in 1 .. Len(s2c'[cur]) :
                  /\ s2c'[cur][i].req = Awaited
                  /\ s2c'[cur][i].kind # "version" => s2c'[cur][i].val \in Results
                  /\ EndsReply(s2c'[cur][i]) => i = Len(s2c'[cur])
                  /\ i < Len(s2c'[cur]) => s2c'[cur][i + 1].kind =
                        IF s2c'[cur][i].kind = "response" THEN "size" ELSE "data"
  BY <1>2, <1>9, <1>10
<1>13. /\ Incoming.req = Awaited
       /\ Incoming.kind # "version" => Incoming.val \in Results
  <2>1. 1 \in 1 .. Len(q)
    BY <1>3
  <2> QED BY <2>1, <1>3, <1>7
<1>14. s2c'[cur] # <<>> => s2c'[cur][1].kind =
                  IF Incoming.kind = "response" THEN "size" ELSE "data"
  BY <1>2, <1>3, <1>8, <1>10
<1> QED BY <1>1, <1>2, <1>3, <1>4, <1>5, <1>6, <1>11, <1>12, <1>13, <1>14

LEMMA ReadInv ==
    ASSUME IInv, pc # "idle", s2c[cur] # <<>>, Take,
           UNCHANGED <<cur, req, link, c2s, server>>,
           got' \in Bodies, out' \in Results, pc' \in {"idle", "size", "data"},
           pc' = "idle" \/ (pc' = "data" /\ got' = <<>>) => EndsReply(Incoming),
           pc' # "idle" => /\ pc # "version"
                           /\ pc' = IF Incoming.kind = "response" THEN "size" ELSE "data"
    PROVE  IInv'
<1>1. TypeOK'
  BY TakeInv DEF IInv, TypeOK, LinkStates, server
<1>2. LinksInOrder'
  BY DEF IInv, LinksInOrder, NoLeakedLink, Held, server
<1>3. OneReplyDue'
  BY TakeInv DEF IInv, OneReplyDue
<1>4. RestOfReply'
  <2>1. CASE pc' = "idle"
    <3>1. s2c'[cur] = <<>>
      BY <2>1, TakeInv
    <3> QED BY <3>1, <2>1 DEF RestOfReply
  <2>2. CASE pc' # "idle"
    <3>1. Awaited' = Awaited
      BY <2>2 DEF Awaited
    <3>2. pc' = "data" /\ got' = <<>> => s2c'[cur] = <<>>
      BY TakeInv
    <3>3. s2c'[cur] # <<>> => s2c'[cur][1].kind = pc'
      BY TakeInv, <2>2
    <3>4. \A i \in 1 .. Len(s2c'[cur]) :
             /\ s2c'[cur][i].req = Awaited
             /\ s2c'[cur][i].kind # "version" => s2c'[cur][i].val \in Results
             /\ EndsReply(s2c'[cur][i]) => i = Len(s2c'[cur])
             /\ i < Len(s2c'[cur]) => s2c'[cur][i + 1].kind =
                   IF s2c'[cur][i].kind = "response" THEN "size" ELSE "data"
      BY TakeInv
    <3> QED BY <3>1, <3>2, <3>3, <3>4, <2>2 DEF RestOfReply, EndsReply
  <2> QED BY <2>1, <2>2
<1>5. WaitsForRequest'
  BY DEF IInv, WaitsForRequest
<1> QED BY <1>1, <1>2, <1>3, <1>4, <1>5 DEF IInv

LEMMA ClientReadInv == ASSUME IInv, ClientRead PROVE IInv'
<1>1. CASE ReadVersion
  <2>1. /\ pc = "version" /\ s2c[cur] # <<>> /\ Take /\ pc' = "idle"
        /\ out' \in Results /\ UNCHANGED <<req, got, c2s, server>>
    BY <1>1 DEF ReadVersion, Return, Verdict, Results
  <2>2. Incoming.kind = "version" /\ s2c' \in [Conns -> Seq(ToClient)]
    BY <2>1, TakeInv
  <2>3. CASE Incoming.val = ClientVersion
    <3>1. UNCHANGED <<cur, link>>
      BY <1>1, <2>3 DEF ReadVersion, ClosedOnMismatch
    <3> QED BY <3>1, <2>1, <2>2, ReadInv DEF EndsReply, IInv, TypeOK, LinkStates
  <2>4. CASE Incoming.val # ClientVersion
    <3>1. cur' = NoConn /\ link' = Closed(cur, link) /\ cur \in Conns /\ cur # NoConn
      BY <1>1, <2>1, <2>4, TakeInv DEF ReadVersion, ClosedOnMismatch
    <3>2. TypeOK'
      BY <3>1, <2>1, <2>2, CloseLinks DEF IInv, TypeOK, LinkStates, server
    <3>3. LinksInOrder'
      BY <3>1, <2>1, CloseLinks DEF IInv, LinksInOrder, NoLeakedLink, Held, server
    <3>4. OneReplyDue' /\ RestOfReply' /\ WaitsForRequest'
      BY <3>1, <2>1 DEF OneReplyDue, RestOfReply, WaitsForRequest
    <3> QED BY <3>2, <3>3, <3>4 DEF IInv
  <2> QED BY <2>3, <2>4
<1>2. CASE ReadResponse
  <2>1. /\ pc = "response" /\ s2c[cur] # <<>> /\ Take
        /\ UNCHANGED <<cur, req, got, link, c2s, server>>
    BY <1>2 DEF ReadResponse
  <2>2. /\ Incoming.kind = "response" /\ Incoming.req = req /\ Incoming.val \in Results
    BY <2>1, TakeInv DEF Awaited
  <2>3. CASE FileFollows
    <3>1. pc' = "size" /\ out' = out
      BY <1>2, <2>3 DEF ReadResponse
    <3> QED BY <3>1, <2>1, <2>2, ReadInv DEF IInv, TypeOK, LinkStates
  <2>4. CASE ~FileFollows
    <3>1. pc' = "idle" /\ out' \in Results
      BY <1>2, <2>2, <2>4 DEF ReadResponse, Return
    <3>2. EndsReply(Incoming)
      BY <2>2, <2>4 DEF EndsReply, FileFollows
    <3> QED BY <3>1, <3>2, <2>1, <2>2, ReadInv DEF IInv, TypeOK, LinkStates
  <2> QED BY <2>3, <2>4
<1>3. CASE ReadSize
  <2>1. /\ pc = "size" /\ s2c[cur] # <<>> /\ Take /\ pc' = "data"
        /\ got' = Incoming.body
        /\ UNCHANGED <<cur, req, out, link, c2s, server>>
    BY <1>3 DEF ReadSize
  <2>2. Incoming.kind = "size" /\ Incoming.body \in Bodies
    BY <2>1, TakeInv DEF ToClient
  <2> QED BY <2>1, <2>2, ReadInv DEF EndsReply, IInv, TypeOK, LinkStates
<1>4. CASE ReadData
  <2>1. /\ pc = "data" /\ s2c[cur] # <<>> /\ Take /\ pc' = "idle"
        /\ out' \in Results
        /\ UNCHANGED <<cur, req, got, link, c2s, server>>
    BY <1>4 DEF ReadData, Return, Results
  <2>2. Incoming.kind = "data"
    BY <2>1, TakeInv
  <2> QED BY <2>1, <2>2, ReadInv DEF EndsReply, IInv, TypeOK, LinkStates
<1>5. CASE ReadNothing
  <2>1. /\ pc = "data" /\ got = <<>> /\ pc' = "idle" /\ out' \in Results
        /\ UNCHANGED <<cur, req, got, wire, server>>
    BY <1>5 DEF ReadNothing, Return, Results
  <2>2. TypeOK' /\ LinksInOrder'
    BY <2>1 DEF IInv, TypeOK, LinkStates, LinksInOrder, NoLeakedLink, Held, wire, server
  <2>3. s2c[cur] = <<>>
    BY <2>1 DEF IInv, RestOfReply, WaitsForRequest
  <2>4. OneReplyDue'
    <3>1. link[cur] = "up" => \A i \in 1 .. Len(c2s[cur]) : ~Provokes(c2s[cur][i])
      BY <2>1 DEF IInv, OneReplyDue, WaitsForRequest
    <3> QED BY <3>1, <2>1 DEF OneReplyDue, wire
  <2>5. RestOfReply' /\ WaitsForRequest'
    BY <2>1, <2>3 DEF RestOfReply, WaitsForRequest, wire
  <2> QED BY <2>2, <2>4, <2>5 DEF IInv
<1>6. CASE ReadFails
  <2>1. /\ pc # "idle" /\ s2c[cur] = <<>> /\ link[cur] \in {"fin", "rst", "dead"}
        /\ pc' = "idle" /\ out' \in Results /\ cur \in Conns /\ cur # NoConn
        /\ UNCHANGED <<req, got, c2s, s2c, server>>
    BY <1>6 DEF ReadFails, Broken, Return, Results, IInv, WaitsForRequest, TypeOK, LinkStates
  <2>2. CASE pc = "version"
    <3>1. cur' = NoConn /\ link' = Closed(cur, link)
      BY <1>6, <2>2 DEF ReadFails
    <3>2. TypeOK'
      BY <3>1, <2>1, CloseLinks DEF IInv, TypeOK, LinkStates, server
    <3>3. LinksInOrder'
      BY <3>1, <2>1, CloseLinks DEF IInv, LinksInOrder, NoLeakedLink, Held, server
    <3>4. OneReplyDue' /\ RestOfReply' /\ WaitsForRequest'
      BY <3>1, <2>1 DEF OneReplyDue, RestOfReply, WaitsForRequest
    <3> QED BY <3>2, <3>3, <3>4 DEF IInv
  <2>3. CASE pc # "version"
    <3>1. /\ cur' = cur /\ link' = [link EXCEPT ![cur] = ErrorSeen(@)]
          /\ ErrorSeen(link[cur]) \in {"fin", "rst", "dead"}
      BY <1>6, <2>1, <2>3 DEF ReadFails, ErrorSeen
    <3>2. TypeOK'
      BY <3>1, <2>1 DEF IInv, TypeOK, LinkStates, server
    <3>3. LinksInOrder'
      BY <3>1, <2>1 DEF IInv, LinksInOrder, NoLeakedLink, Held, TypeOK, LinkStates, server
    <3>4. OneReplyDue' /\ RestOfReply' /\ WaitsForRequest'
      BY <3>1, <2>1 DEF IInv, TypeOK, LinkStates, OneReplyDue, RestOfReply, WaitsForRequest
    <3> QED BY <3>2, <3>3, <3>4 DEF IInv
  <2> QED BY <2>2, <2>3
<1> QED BY <1>1, <1>2, <1>3, <1>4, <1>5, <1>6 DEF ClientRead, Receives

LEMMA AcceptInv == ASSUME IInv, Accept PROVE IInv'
<1>1. /\ serving = NoConn /\ backlog \in Seq(Conns) /\ backlog # <<>>
      /\ serving' = Head(backlog) /\ backlog' = Tail(backlog) /\ srvPc' = "signature"
      /\ UNCHANGED <<client, wire, srvReq, srvVersion, disk>>
  BY DEF Accept, IInv, TypeOK, LinkStates
<1>2. /\ serving' = backlog[1] /\ serving' \in Conns /\ Len(backlog) \in Nat \ {0}
      /\ backlog' \in Seq(Conns) /\ Len(backlog') = Len(backlog) - 1
      /\ \A i \in 1 .. Len(backlog') : backlog'[i] = backlog[i + 1]
  BY <1>1, Shifted
<1>3. \A c \in Conns : Held(c)' => Held(c)
  BY <1>1, <1>2 DEF Held
<1>4. TypeOK'
  BY <1>1, <1>2 DEF IInv, TypeOK, LinkStates, client, wire
<1>5. LinksInOrder'
  <2>1. NoLeakedLink' /\ (cur' # NoConn => link'[cur'] \in {"up", "fin", "rst", "dead"})
    BY <1>1 DEF IInv, LinksInOrder, NoLeakedLink, client, wire
  <2>2. \A c \in Conns : link'[c] = "free" => ~Held(c)'
    BY <1>1, <1>3 DEF IInv, LinksInOrder, wire
  <2>3. serving' # NoConn /\ srvPc' # "idle"
    BY <1>1, <1>2, ConstantsAssumption
  <2>4. \A i \in 1 .. Len(backlog') : i + 1 \in 1 .. Len(backlog) /\ i + 1 # 1
    BY <1>2
  <2>5. \A i \in 1 .. Len(backlog') : backlog'[i] # serving'
    BY <1>2, <2>4 DEF IInv, LinksInOrder
  <2>6. \A i, j \in 1 .. Len(backlog') : backlog'[i] = backlog'[j] => i = j
    BY <1>2, <2>4 DEF IInv, LinksInOrder
  <2>7. \A c \in Conns : \A i \in 1 .. Len(c2s'[c]) :
          c2s'[c][i].kind = "signature"
              => i = 1 /\ (c = serving' => srvPc' = "signature")
    BY <1>1 DEF IInv, LinksInOrder, wire
  <2> QED BY <2>1, <2>2, <2>3, <2>5, <2>6, <2>7 DEF LinksInOrder
<1>6. OneReplyDue' /\ RestOfReply' /\ WaitsForRequest'
  BY <1>1 DEF IInv, OneReplyDue, RestOfReply, WaitsForRequest, Awaited, client, wire
<1> QED BY <1>4, <1>5, <1>6 DEF IInv

\* What every read of the server has in common.
LEMMA DropInv ==
    ASSUME IInv, srvPc # "idle", Arriving # <<>>, Drop
    PROVE  /\ serving \in Conns /\ serving # NoConn
           /\ Head(Arriving) \in ToServer
           /\ Head(Arriving).kind = "signature" => srvPc = "signature"
           /\ c2s' \in [Conns -> Seq(ToServer)]
           /\ \A c \in Conns : \A i \in 1 .. Len(c2s'[c]) :
                  c2s'[c][i].kind = "signature" => i = 1 /\ c # serving
           /\ cur # NoConn /\ link[cur] = "up" =>
                 \A i \in 1 .. Len(c2s'[cur]) : Provokes(c2s'[cur][i]) =>
                     /\ i = Len(c2s'[cur]) /\ c2s'[cur][i].req = Awaited
                     /\ s2c[cur] = <<>> /\ pc \in {"version", "response"}
                     /\ cur = serving => ~Provokes(Head(Arriving))
           /\ cur = serving /\ link[cur] = "up" /\ Provokes(Head(Arriving)) =>
                 /\ Head(Arriving).req = Awaited
                 /\ s2c[cur] = <<>> /\ pc \in {"version", "response"}
<1> DEFINE q == c2s[serving]
<1>1. serving \in Conns /\ serving # NoConn /\ q \in Seq(ToServer) /\ q # <<>>
  BY DEF IInv, LinksInOrder, TypeOK, LinkStates, Arriving
<1>2. c2s'[serving] = Tail(q) /\ \A c \in Conns \ {serving} : c2s'[c] = c2s[c]
  BY <1>1 DEF Drop, Arriving, IInv, TypeOK, LinkStates
<1>3. /\ Head(Arriving) = q[1] /\ q[1] \in ToServer /\ Len(q) \in Nat \ {0}
      /\ Tail(q) \in Seq(ToServer) /\ Len(Tail(q)) = Len(q) - 1
      /\ \A i \in 1 .. Len(Tail(q)) : Tail(q)[i] = q[i + 1]
      /\ Tail(q) = <<>> <=> Len(q) = 1
  BY <1>1, Shifted DEF Arriving
<1>4. c2s' \in [Conns -> Seq(ToServer)]
  BY <1>1, <1>3 DEF Drop, Arriving, IInv, TypeOK, LinkStates
<1>5. \A i \in 1 .. Len(q) :
         q[i].kind = "signature" => i = 1 /\ srvPc = "signature"
  BY <1>1 DEF IInv, LinksInOrder
<1>6. cur = serving /\ link[cur] = "up" =>
         \A i \in 1 .. Len(q) : Provokes(q[i]) =>
            /\ i = Len(q) /\ q[i].req = Awaited
            /\ s2c[cur] = <<>> /\ pc \in {"version", "response"}
  BY <1>1 DEF IInv, OneReplyDue
<1> HIDE DEF q
<1>7. \A i \in 1 .. Len(Tail(q)) : i + 1 \in 1 .. Len(q) /\ i + 1 # 1 /\ 1 # Len(q)
                                 /\ (i + 1 = Len(q) => i = Len(Tail(q)))
  <2> SUFFICES ASSUME NEW i \in 1 .. Len(Tail(q))
               PROVE  i + 1 \in 1 .. Len(q) /\ i + 1 # 1 /\ 1 # Len(q)
                      /\ (i + 1 = Len(q) => i = Len(Tail(q)))
    OBVIOUS
  <2> DEFINE m == Len(q)
             t == Len(Tail(q))
  <2>1. m \in Nat /\ t = m - 1 /\ i \in 1 .. t
    BY <1>3
  <2> HIDE DEF m, t
  <2>2. i + 1 \in 1 .. m /\ i + 1 # 1 /\ 1 # m /\ (i + 1 = m => i = t)
    BY <2>1
  <2> QED BY <2>2 DEF m, t
<1>8. 1 \in 1 .. Len(q)
  BY <1>3
<1>9. \A c \in Conns : \A i \in 1 .. Len(c2s'[c]) :
         c2s'[c][i].kind = "signature" => i = 1 /\ c # serving
  <2>1. \A i \in 1 .. Len(Tail(q)) : Tail(q)[i].kind # "signature"
    BY <1>3, <1>5, <1>7
  <2>2. \A c \in Conns \ {serving} : \A i \in 1 .. Len(c2s'[c]) :
           c2s'[c][i].kind = "signature" => i = 1
    BY <1>2 DEF IInv, LinksInOrder
  <2> QED BY <1>2, <2>1, <2>2
<1>10. cur # NoConn /\ link[cur] = "up" =>
         \A i \in 1 .. Len(c2s'[cur]) : Provokes(c2s'[cur][i]) =>
             /\ i = Len(c2s'[cur]) /\ c2s'[cur][i].req = Awaited
             /\ s2c[cur] = <<>> /\ pc \in {"version", "response"}
             /\ cur = serving => ~Provokes(Head(Arriving))
  <2>1. CASE cur = serving
    <3> SUFFICES ASSUME link[cur] = "up", NEW i \in 1 .. Len(Tail(q)), Provokes(Tail(q)[i])
                 PROVE  /\ i = Len(Tail(q)) /\ Tail(q)[i].req = Awaited
                        /\ s2c[cur] = <<>> /\ pc \in {"version", "response"}
                        /\ ~Provokes(q[1])
      BY <2>1, <1>2, <1>3
    <3>1. i + 1 \in 1 .. Len(q) /\ Tail(q)[i] = q[i + 1]
      BY <1>3, <1>7
    <3>2. /\ i + 1 = Len(q) /\ q[i + 1].req = Awaited
          /\ s2c[cur] = <<>> /\ pc \in {"version", "response"}
      BY <3>1, <2>1, <1>6
    <3>3. i = Len(Tail(q)) /\ 1 # Len(q)
      BY <3>2, <1>7
    <3>4. ~Provokes(q[1])
      BY <3>3, <2>1, <1>6, <1>8
    <3> QED BY <3>1, <3>2, <3>3, <3>4
  <2>2. CASE cur # serving
    <3>1. cur # NoConn => c2s'[cur] = c2s[cur]
      BY <2>2, <1>2 DEF IInv, TypeOK, LinkStates
    <3> QED BY <3>1, <2>2 DEF IInv, OneReplyDue
  <2> QED BY <2>1, <2>2
<1>11. cur = serving /\ link[cur] = "up" /\ Provokes(Head(Arriving)) =>
          /\ Head(Arriving).req = Awaited
          /\ s2c[cur] = <<>> /\ pc \in {"version", "response"}
  BY <1>3, <1>6, <1>8
<1>12. Head(Arriving).kind = "signature" => srvPc = "signature"
  BY <1>3, <1>5, <1>8
<1> QED BY <1>1, <1>3, <1>4, <1>9, <1>10, <1>11, <1>12

LEMMA ReceiveInv ==
    ASSUME IInv, srvPc # "idle", Arriving # <<>>, Drop,
           UNCHANGED <<client, link, s2c, backlog, serving, srvVersion>>,
           srvPc' \in {"command", "size", "data"}, srvReq' \in Requests,
           disk' \in [Names -> Bodies \cup {NoFile}]
    PROVE  IInv'
<1>1. TypeOK'
  BY DropInv DEF IInv, TypeOK, LinkStates, client
<1>2. LinksInOrder'
  BY DropInv DEF IInv, LinksInOrder, NoLeakedLink, Held, client
<1>3. OneReplyDue'
  BY DropInv DEF OneReplyDue, Awaited, client
<1>4. RestOfReply' /\ WaitsForRequest'
  BY DEF IInv, RestOfReply, WaitsForRequest, Awaited, client
<1> QED BY <1>1, <1>2, <1>3, <1>4 DEF IInv

\* Whatever is asked for, an answer has the shape the client reads it in.
LEMMA AnswerUnits ==
    ASSUME IInv, NEW r \in ClientRequests \cup {Hello}
    PROVE  /\ AnswerTo(r) \in Seq(ToClient) /\ AnswerTo(r) # <<>>
           /\ AnswerTo(r)[1].kind = IF r.cmd = "version" THEN "version" ELSE "response"
           /\ \A i \in 1 .. Len(AnswerTo(r)) :
                  /\ AnswerTo(r)[i].req = r
                  /\ AnswerTo(r)[i].kind # "version" => AnswerTo(r)[i].val \in Results
                  /\ EndsReply(AnswerTo(r)[i]) => i = Len(AnswerTo(r))
                  /\ i < Len(AnswerTo(r)) => AnswerTo(r)[i + 1].kind =
                        IF AnswerTo(r)[i].kind = "response" THEN "size" ELSE "data"
<1>1. r \in Requests /\ srvVersion \in Versions /\ Result(r) \in Results /\ <<>> \in Bodies
  BY SendableRequests, ConstantsAssumption DEF IInv, TypeOK, LinkStates, Result, Results
<1>2. \A k, v, b : /\ Reply(k, r, v, b).kind = k /\ Reply(k, r, v, b).req = r
                   /\ Reply(k, r, v, b).val = v /\ Reply(k, r, v, b).body = b
  BY DEF Reply
<1>3. \A k \in {"version", "response", "size", "data"}, v \in Versions \cup Results, b \in Bodies :
         Reply(k, r, v, b) \in ToClient
  BY <1>1 DEF Reply, ToClient
<1>4. CASE r.cmd = "version"
  <2> DEFINE u == Reply("version", r, srvVersion, <<>>)
  <2>1. AnswerTo(r) = <<u>>
    BY <1>4 DEF AnswerTo
  <2>2. u \in ToClient /\ u.kind = "version" /\ u.req = r
    BY <1>1, <1>2, <1>3
  <2> HIDE DEF u
  <2>3. /\ AnswerTo(r) \in Seq(ToClient) /\ AnswerTo(r) # <<>>
        /\ Len(AnswerTo(r)) = 1 /\ AnswerTo(r)[1] = u
    BY <2>1, <2>2
  <2> QED BY <2>2, <2>3, <1>4
<1>5. CASE r.cmd # "version" /\ ~(r.cmd = "get" /\ Exists(r.name))
  <2> DEFINE u == Reply("response", r, Result(r), <<>>)
  <2>1. AnswerTo(r) = <<u>>
    <3>1. ~(r.cmd = "get" /\ Exists(r.name)) /\ r.cmd # "version"
      BY <1>5
    <3> QED BY <3>1 DEF AnswerTo
  <2>2. u \in ToClient /\ u.kind = "response" /\ u.req = r /\ u.val \in Results
    BY <1>1, <1>2, <1>3
  <2> HIDE DEF u
  <2>3. /\ AnswerTo(r) \in Seq(ToClient) /\ AnswerTo(r) # <<>>
        /\ Len(AnswerTo(r)) = 1 /\ AnswerTo(r)[1] = u
    BY <2>1, <2>2
  <2> QED BY <2>2, <2>3, <1>5
<1>6. CASE r.cmd # "version" /\ r.cmd = "get" /\ Exists(r.name)
  <2> DEFINE b == disk[r.name]
             u == Reply("response", r, "KErrNone", <<>>)
             z == Reply("size", r, "KErrNone", b)
             d == Reply("data", r, "KErrNone", b)
  <2>1. b \in Bodies
    BY <1>6, SendableRequests DEF Exists, IInv, TypeOK, LinkStates
  <2>3. "KErrNone" \in Results
    BY DEF Results
  <2>4. /\ u \in ToClient /\ u.kind = "response" /\ u.req = r /\ u.val = "KErrNone"
        /\ z \in ToClient /\ z.kind = "size" /\ z.req = r /\ z.val = "KErrNone" /\ z.body = b
        /\ d \in ToClient /\ d.kind = "data" /\ d.req = r /\ d.val = "KErrNone"
    BY <1>1, <1>2, <1>3, <2>1, <2>3
  <2>5. ~EndsReply(u) /\ (EndsReply(z) <=> b = <<>>)
    BY <2>4, <1>6 DEF EndsReply
  <2>6. CASE b = <<>>
    <3>1. AnswerTo(r) = <<u>> \o <<z>>
      BY <2>6, <1>6 DEF AnswerTo, SentFile
    <3> HIDE DEF u, z, d, b
    <3>2. /\ <<u>> \in Seq(ToClient) /\ Len(<<u>>) = 1 /\ <<u>>[1] = u
          /\ <<z>> \in Seq(ToClient) /\ Len(<<z>>) = 1 /\ <<z>>[1] = z
      BY <2>4
    <3>3. /\ AnswerTo(r) \in Seq(ToClient) /\ Len(AnswerTo(r)) = 2
          /\ AnswerTo(r)[1] = u /\ AnswerTo(r)[2] = z
      BY <3>1, <3>2, <2>4
    <3>4. AnswerTo(r) # <<>>
      BY <3>3, EmptySeq
    <3>5. \A i \in 1 .. 2 : i = 1 \/ i = 2
      OBVIOUS
    <3>6. /\ AnswerTo(r)[1 + 1] = z
          /\ \A i \in 1 .. Len(AnswerTo(r)) : i < Len(AnswerTo(r)) => i = 1
      BY <3>3
    <3>7. \A i \in 1 .. Len(AnswerTo(r)) :
             \/ AnswerTo(r)[i] = u /\ i = 1
             \/ AnswerTo(r)[i] = z /\ i = 2
      BY <3>3, <3>5
    <3> QED BY <3>3, <3>4, <3>6, <3>7, <2>3, <2>4, <2>5, <1>6
  <2>7. CASE b # <<>>
    <3>1. AnswerTo(r) = <<u>> \o <<z, d>>
      BY <2>7, <1>6 DEF AnswerTo, SentFile
    <3> HIDE DEF u, z, d, b
    <3>2. /\ <<u>> \in Seq(ToClient) /\ Len(<<u>>) = 1 /\ <<u>>[1] = u
          /\ <<z, d>> \in Seq(ToClient) /\ Len(<<z, d>>) = 2
          /\ <<z, d>>[1] = z /\ <<z, d>>[2] = d
      BY <2>4
    <3>3. /\ AnswerTo(r) \in Seq(ToClient) /\ Len(AnswerTo(r)) = 3
          /\ AnswerTo(r)[1] = u /\ AnswerTo(r)[2] = z /\ AnswerTo(r)[3] = d
      BY <3>1, <3>2, <2>4
    <3>4. AnswerTo(r) # <<>>
      BY <3>3, EmptySeq
    <3>5. \A i \in 1 .. 3 : i = 1 \/ i = 2 \/ i = 3
      OBVIOUS
    <3>6. /\ AnswerTo(r)[1 + 1] = z /\ AnswerTo(r)[2 + 1] = d
          /\ \A i \in 1 .. Len(AnswerTo(r)) : i < Len(AnswerTo(r)) => i = 1 \/ i = 2
      BY <3>3, <3>5
    <3>7. \A i \in 1 .. Len(AnswerTo(r)) :
             \/ AnswerTo(r)[i] = u /\ i = 1
             \/ AnswerTo(r)[i] = z /\ i = 2
             \/ AnswerTo(r)[i] = d /\ i = 3
      BY <3>3, <3>5
    <3> QED BY <3>3, <3>4, <3>6, <3>7, <2>3, <2>4, <2>5, <2>7, <1>6
  <2> QED BY <2>6, <2>7
<1> QED BY <1>4, <1>5, <1>6

LEMMA ExecuteInv == ASSUME IInv, Execute PROVE IInv'
<1> DEFINE r == Head(Arriving).req
<1>1. /\ srvPc = "command" /\ Arriving # <<>> /\ Drop
      /\ UNCHANGED <<client, link, backlog, serving, srvVersion>>
  BY DEF Execute
<1>2. /\ Head(Arriving) \in ToServer /\ Head(Arriving).kind # "signature"
      /\ serving \in Conns /\ serving # NoConn
  BY <1>1, DropInv
<1>3. r \in ClientRequests \cup {Hello}
  BY <1>2 DEF ToServer
<1>4. CASE r.cmd = "send"
  <2>1. srvPc' = "size" /\ srvReq' = r /\ UNCHANGED <<s2c, disk>>
    BY <1>4 DEF Execute
  <2> QED BY <2>1, <1>1, <1>3, ReceiveInv, SendableRequests DEF IInv, TypeOK, LinkStates
<1>5. CASE r.cmd # "send"
  <2> DEFINE a == AnswerTo(r)
  <2>1. Answer(a) /\ disk' = DiskAfter(r) /\ UNCHANGED <<srvPc, srvReq>>
    BY <1>5 DEF Execute
  <2>2. Provokes(Head(Arriving))
    BY <1>2, <1>5 DEF Provokes
  <2>3. disk' \in [Names -> Bodies \cup {NoFile}]
    <3>1. r.cmd # "version" => r.name \in Names
      BY <1>3, SendableRequests
    <3>2. r.cmd = "rename" => r.to \in Names
      BY <1>3, SendableRequests
    <3> HIDE DEF r
    <3> QED BY <2>1, <3>1, <3>2 DEF DiskAfter, IInv, TypeOK, LinkStates
  <2>4. /\ a \in Seq(ToClient) /\ a # <<>>
        /\ a[1].kind = IF r.cmd = "version" THEN "version" ELSE "response"
        /\ \A i \in 1 .. Len(a) :
                  /\ a[i].req = r
                  /\ a[i].kind # "version" => a[i].val \in Results
                  /\ EndsReply(a[i]) => i = Len(a)
                  /\ i < Len(a) => a[i + 1].kind =
                        IF a[i].kind = "response" THEN "size" ELSE "data"
    BY <1>3, AnswerUnits
  <2> HIDE DEF a
  <2>5. s2c' = IF link[serving] = "up" THEN [s2c EXCEPT ![serving] = @ \o a] ELSE s2c
    BY <2>1 DEF Answer
  <2>6. link[serving] = "up" =>
           /\ cur = serving /\ s2c[cur] = <<>> /\ r = Awaited /\ pc \in {"version", "response"}
    BY <1>1, <1>2, <2>2, DropInv DEF IInv, LinksInOrder, NoLeakedLink
  <2>7. link[serving] = "up" => s2c' = [s2c EXCEPT ![serving] = a]
    <3>1. <<>> \o a = a
      BY <2>4
    <3> QED BY <2>5, <2>6, <3>1
  <2>8. s2c' \in [Conns -> Seq(ToClient)]
    BY <2>4, <2>5, <2>7 DEF IInv, TypeOK, LinkStates
  <2>9. TypeOK'
    BY <1>1, <2>1, <2>3, <2>8, DropInv DEF IInv, TypeOK, LinkStates, client
  <2>10. LinksInOrder'
    BY <1>1, <2>1, DropInv DEF IInv, LinksInOrder, NoLeakedLink, Held, client
  <2>11. OneReplyDue'
    <3>1. CASE cur = serving
      BY <3>1, <1>1, <2>2, DropInv DEF OneReplyDue, Awaited, client
    <3>2. CASE cur # serving
      <4>1. cur # NoConn => s2c'[cur] = s2c[cur]
        BY <3>2, <2>5 DEF IInv, TypeOK, LinkStates
      <4> QED BY <4>1, <1>1, DropInv DEF OneReplyDue, Awaited, client
    <3> QED BY <3>1, <3>2
  <2>12. RestOfReply'
    <3>1. CASE link[serving] = "up"
      <4>1. s2c'[cur] = a
        BY <2>6, <2>7, <3>1, <1>2 DEF IInv, TypeOK, LinkStates
      <4>2. a[1].kind = pc
        <5>1. pc = "version" => r = Hello
          BY <2>6, <3>1 DEF Awaited
        <5>2. pc = "response" => r \in ClientRequests
          BY <2>6, <3>1 DEF Awaited, IInv, WaitsForRequest
        <5> HIDE DEF r
        <5> QED BY <5>1, <5>2, <2>4, <2>6, <3>1, <1>3, SendableRequests
      <4> QED BY <4>1, <4>2, <2>4, <2>6, <3>1, <1>1 DEF RestOfReply, Awaited, client
    <3>2. CASE link[serving] # "up"
      BY <3>2, <2>5, <1>1 DEF IInv, RestOfReply, Awaited, client
    <3> QED BY <3>1, <3>2
  <2>13. WaitsForRequest'
    BY <1>1 DEF IInv, WaitsForRequest, client
  <2> QED BY <2>9, <2>10, <2>11, <2>12, <2>13 DEF IInv
<1> QED BY <1>4, <1>5

\* A file that stops coming leaves a file behind.
LEMMA CutFileIs ==
    ASSUME IInv, CutFile
    PROVE  /\ disk' \in [Names -> Bodies \cup {NoFile}]
           /\ srvPc # "data" => disk' = disk
<1>1. CASE srvPc = "data"
  <2>1. PICK p \in Prefixes(srvReq.body) : disk' = [disk EXCEPT ![srvReq.name] = p]
    BY <1>1 DEF CutFile
  <2>2. srvReq.body \in Bodies
    BY DEF IInv, TypeOK, Requests
  <2>3. p \in Bodies
    BY <2>2, CutAssumption DEF Prefixes
  <2> QED BY <1>1, <2>1, <2>3 DEF IInv, TypeOK
<1>2. CASE srvPc # "data"
  BY <1>2 DEF CutFile, IInv, TypeOK
<1> QED BY <1>1, <1>2

LEMMA ServerActInv == ASSUME IInv, ServerAct PROVE IInv'
<1>1. CASE Accept
  BY <1>1, AcceptInv
<1>2. CASE ReadSignature
  BY <1>2, ReceiveInv DEF ReadSignature, IInv, TypeOK, LinkStates
<1>3. CASE Execute
  BY <1>3, ExecuteInv
<1>4. CASE ReceiveSize
  <2>1. disk' \in [Names -> Bodies \cup {NoFile}]
    BY <1>4, ConstantsAssumption DEF ReceiveSize, IInv, TypeOK, LinkStates
  <2>2. srvPc' \in {"data", "command"} /\ srvReq' \in Requests
    BY <1>4, SendableRequests DEF ReceiveSize, IInv, TypeOK
  <2> QED BY <1>4, <2>1, <2>2, ReceiveInv DEF ReceiveSize
<1>5. CASE ReceiveData
  <2>1. Head(Arriving) \in ToServer
    BY <1>5, DropInv DEF ReceiveData
  <2>2. Head(Arriving).req.body \in Bodies
    BY <2>1, SendableRequests DEF ToServer, Requests
  <2>3. disk' \in [Names -> Bodies \cup {NoFile}]
    BY <1>5, <2>2 DEF ReceiveData, IInv, TypeOK, LinkStates
  <2> QED BY <1>5, <2>3, ReceiveInv, SendableRequests DEF ReceiveData
<1>6. CASE ServerReadFails
  <2>1. /\ serving \in Conns /\ link[serving] # "up"
        /\ link' = [link EXCEPT ![serving] = IF @ = "closed" THEN "free" ELSE @]
        /\ serving' = NoConn /\ srvPc' = "idle" /\ srvReq' \in Requests
        /\ disk' \in [Names -> Bodies \cup {NoFile}]
        /\ UNCHANGED <<client, c2s, s2c, backlog, srvVersion>>
    BY <1>6, CutFileIs, SendableRequests DEF ServerReadFails, Released, IInv, TypeOK, LinkStates
  <2>2. TypeOK'
    BY <2>1 DEF IInv, TypeOK, LinkStates, client
  <2>3. LinksInOrder'
    <3>1. /\ NoLeakedLink'
          /\ (cur' # NoConn => link'[cur'] \in {"up", "fin", "rst", "dead"})
      BY <2>1 DEF IInv, LinksInOrder, NoLeakedLink, TypeOK, LinkStates, client
    <3>2. \A i \in 1 .. Len(backlog) : backlog[i] # serving /\ backlog[i] # NoConn
      <4>1. \A i \in 1 .. Len(backlog) : backlog[i] # serving
        BY DEF IInv, LinksInOrder
      <4>2. \A i \in 1 .. Len(backlog) : backlog[i] \in Conns
        BY ElementOfSeq DEF IInv, TypeOK, LinkStates
      <4> QED BY <4>1, <4>2, ConstantsAssumption
    <3>3. \A c \in Conns : link'[c] = "free" => ~Held(c)'
      <4> TAKE c \in Conns
      <4> HAVE link'[c] = "free"
      <4>1. c # serving' /\ backlog' = backlog
        BY <2>1, ConstantsAssumption
      <4>2. CASE c = serving
        BY <4>1, <4>2, <3>2 DEF Held
      <4>3. CASE c # serving
        <5>1. link[c] = "free"
          BY <4>3, <2>1 DEF IInv, TypeOK, LinkStates
        <5>2. ~Held(c)
          BY <5>1 DEF IInv, LinksInOrder
        <5> QED BY <5>2, <4>1 DEF Held
      <4> QED BY <4>2, <4>3
    <3> QED BY <3>1, <3>2, <3>3, <2>1, ConstantsAssumption DEF IInv, LinksInOrder
  <2>4. OneReplyDue' /\ RestOfReply' /\ WaitsForRequest'
    BY <2>1 DEF IInv, OneReplyDue, RestOfReply, WaitsForRequest, Awaited, TypeOK, LinkStates, client
  <2> QED BY <2>2, <2>3, <2>4 DEF IInv
<1> QED BY <1>1, <1>2, <1>3, <1>4, <1>5, <1>6 DEF ServerAct

\* A cut stream still ends in what is left of one reply.
LEMMA CutReply ==
    ASSUME IInv, cur # NoConn, NEW t \in Prefixes(s2c[cur]), s2c'[cur] = t,
           UNCHANGED client
    PROVE  RestOfReply'
<1> DEFINE q == s2c[cur]
           follows(u) == IF u.kind = "response" THEN "size" ELSE "data"
<1>1. q \in Seq(ToClient)
  BY DEF IInv, TypeOK, LinkStates
<1>2. /\ pc = "idle" \/ (pc = "data" /\ got = <<>>) => q = <<>>
      /\ q # <<>> => q[1].kind = pc
      /\ \A i \in 1 .. Len(q) :
            /\ q[i].req = Awaited
            /\ q[i].kind # "version" => q[i].val \in Results
            /\ EndsReply(q[i]) => i = Len(q)
            /\ i < Len(q) => q[i + 1].kind = follows(q[i])
  BY DEF IInv, RestOfReply
<1>3. /\ Len(t) \in 0 .. Len(q) /\ t \in Seq(ToClient)
      /\ \A i \in 1 .. Len(t) : t[i] = q[i] /\ i \in 1 .. Len(q)
      /\ q = <<>> => t = <<>>
  BY <1>1, CutShort
<1>4. Awaited' = Awaited /\ pc' = pc /\ got' = got /\ cur' = cur
  BY DEF Awaited, client
<1> HIDE DEF q, follows
<1>5. Len(q) \in Nat /\ Len(t) \in Nat /\ Len(t) <= Len(q)
  BY <1>1, <1>3
<1>6. t # <<>> => q # <<>> /\ t[1] = q[1]
  <2>1. t # <<>> => 1 \in 1 .. Len(t)
    BY <1>3, <1>5, EmptySeq
  <2> QED BY <2>1, <1>3
<1>7. \A i \in 1 .. Len(t) : i = Len(q) => i = Len(t)
  BY <1>5
<1>8. \A i \in 1 .. Len(t) : i < Len(t) => i < Len(q) /\ i + 1 \in 1 .. Len(t)
  BY <1>5
<1>9. \A i \in 1 .. Len(t) : i < Len(t) => t[i + 1] = q[i + 1]
  BY <1>3, <1>8
<1>10. \A i \in 1 .. Len(t) :
            /\ t[i].req = Awaited
            /\ t[i].kind # "version" => t[i].val \in Results
            /\ EndsReply(t[i]) => i = Len(t)
            /\ i < Len(t) => t[i + 1].kind = follows(t[i])
  BY <1>2, <1>3, <1>7, <1>8, <1>9
<1>11. \A u : follows(u) = IF u.kind = "response" THEN "size" ELSE "data"
  BY DEF follows
<1> QED BY <1>2, <1>3, <1>4, <1>6, <1>10, <1>11 DEF RestOfReply

LEMMA EnvironmentInv == ASSUME IInv, Environment PROVE IInv'
<1>1. ASSUME NEW c \in Conns, ConnectionLost(c) PROVE IInv'
  <2>1. PICK p \in Prefixes(c2s[c]) : c2s' = [c2s EXCEPT ![c] = p]
    BY <1>1 DEF ConnectionLost
  <2>2. PICK t \in Prefixes(s2c[c]) : s2c' = [s2c EXCEPT ![c] = t]
    BY <1>1 DEF ConnectionLost
  <2>3. /\ link[c] \in {"up", "closed", "left"}
        /\ link' = [link EXCEPT ![c] = IF @ = "up" THEN "rst"
                                       ELSE IF @ = "left" THEN "spent" ELSE @]
        /\ UNCHANGED <<client, server>>
    BY <1>1 DEF ConnectionLost
  <2>4. /\ p \in Seq(ToServer)
        /\ \A i \in 1 .. Len(p) : p[i] = c2s[c][i] /\ i \in 1 .. Len(c2s[c])
    BY CutShort DEF IInv, TypeOK, LinkStates
  <2>5. /\ t \in Seq(ToClient) /\ Len(t) \in 0 .. Len(s2c[c])
        /\ \A i \in 1 .. Len(t) : t[i] = s2c[c][i] /\ i \in 1 .. Len(s2c[c])
        /\ s2c[c] = <<>> => t = <<>>
    BY CutShort DEF IInv, TypeOK, LinkStates
  <2>6. TypeOK'
    BY <2>1, <2>2, <2>3, <2>4, <2>5 DEF IInv, TypeOK, LinkStates, client, server
  <2>7. LinksInOrder'
    <3>1. /\ NoLeakedLink'
          /\ (cur' # NoConn => link'[cur'] \in {"up", "fin", "rst", "dead"})
          /\ \A d \in Conns : link'[d] = "free" => ~Held(d)'
      BY <2>3 DEF IInv, LinksInOrder, NoLeakedLink, Held, TypeOK, LinkStates, client, server
    <3>2. \A d \in Conns : \A i \in 1 .. Len(c2s'[d]) :
             c2s'[d][i].kind = "signature"
                 => i = 1 /\ (d = serving => srvPc = "signature")
      BY <2>1, <2>4 DEF IInv, LinksInOrder, TypeOK, LinkStates
    <3> QED BY <3>1, <3>2, <2>3 DEF IInv, LinksInOrder, server
  <2>8. OneReplyDue'
    <3>1. CASE c = cur
      BY <3>1, <2>3 DEF OneReplyDue, IInv, TypeOK, LinkStates, client
    <3>2. CASE c # cur
      BY <3>2, <2>1, <2>2, <2>3 DEF OneReplyDue, Awaited, IInv, TypeOK, LinkStates, client
    <3> QED BY <3>1, <3>2
  <2>9. RestOfReply'
    <3>1. CASE c = cur
      <4>1. s2c'[cur] = t /\ t \in Prefixes(s2c[cur])
        BY <3>1, <2>2, <2>3 DEF IInv, TypeOK, LinkStates, client
      <4> QED BY <4>1, <2>2, <2>3, <3>1, CutReply DEF RestOfReply, client
    <3>2. CASE c # cur
      <4>1. s2c'[cur] = s2c[cur] /\ Awaited' = Awaited
        BY <3>2, <2>2, <2>3 DEF IInv, TypeOK, LinkStates, Awaited, client
      <4> QED BY <4>1, <2>3 DEF IInv, RestOfReply, client
    <3> QED BY <3>1, <3>2
  <2>10. WaitsForRequest'
    BY <2>3 DEF IInv, WaitsForRequest, client
  <2> QED BY <2>6, <2>7, <2>8, <2>9, <2>10 DEF IInv
<1>2. CASE ServerRestarts
  <2> DEFINE kept == IF cur = NoConn THEN {<<>>} ELSE Prefixes(s2c[cur])
  <2>1. PICK how \in {"fin", "rst"} :
           link' = [c \in Conns |-> IF ~Held(c) THEN link[c]
                                    ELSE CASE link[c] = "up" -> how
                                           [] link[c] = "closed" -> "free"
                                           [] link[c] = "left" -> "spent"
                                           [] OTHER -> link[c]]
    BY <1>2 DEF ServerRestarts
  <2>2. PICK t \in kept : s2c' = [c \in Conns |-> IF c = cur THEN t ELSE <<>>]
    BY <1>2 DEF ServerRestarts
  <2>3. /\ c2s' = [c \in Conns |-> <<>>]
        /\ backlog' = <<>> /\ serving' = NoConn /\ srvPc' = "idle"
        /\ srvVersion' \in Versions /\ srvReq' \in Requests
        /\ disk' \in [Names -> Bodies \cup {NoFile}]
        /\ UNCHANGED client
    BY <1>2, CutFileIs, SendableRequests DEF ServerRestarts
  <2>4. \A c \in Conns : link'[c] \in LinkStates
    BY <2>1 DEF IInv, TypeOK, LinkStates
  <2>5. \A c \in Conns : /\ link'[c] \in {"up", "fin", "rst", "dead"}
                               => link[c] \in {"up", "fin", "rst", "dead"}
                         /\ link[c] \in {"up", "fin", "rst", "dead"}
                               => link'[c] \in {"up", "fin", "rst", "dead"}
    BY <2>1 DEF IInv, TypeOK, LinkStates
  <2>6. t \in Seq(ToClient)
    <3>1. CASE cur = NoConn
      <4>1. t = <<>>
        BY <3>1
      <4> QED BY <4>1
    <3>2. CASE cur # NoConn
      <4>1. t \in Prefixes(s2c[cur]) /\ s2c[cur] \in Seq(ToClient)
        BY <3>2 DEF IInv, TypeOK, LinkStates
      <4> QED BY <4>1, CutShort
    <3> QED BY <3>1, <3>2
  <2>7. TypeOK'
    <3>1. c2s' \in [Conns -> Seq(ToServer)] /\ s2c' \in [Conns -> Seq(ToClient)]
      BY <2>2, <2>3, <2>6
    <3>2. link' \in [Conns -> LinkStates]
      BY <2>1, <2>4
    <3> QED BY <3>1, <3>2, <2>3 DEF IInv, TypeOK, LinkStates, client
  <2>8. LinksInOrder'
    <3>1. /\ NoLeakedLink'
          /\ (cur' # NoConn => link'[cur'] \in {"up", "fin", "rst", "dead"})
      BY <2>3, <2>5 DEF IInv, LinksInOrder, NoLeakedLink, TypeOK, LinkStates, client
    <3>2. \A c \in Conns : ~Held(c)'
      BY <2>3, ConstantsAssumption DEF Held
    <3> QED BY <3>1, <3>2, <2>3 DEF LinksInOrder
  <2>9. OneReplyDue'
    BY <2>3 DEF OneReplyDue, IInv, TypeOK, LinkStates, client
  <2>10. RestOfReply'
    <3> SUFFICES ASSUME cur # NoConn PROVE RestOfReply'
      BY <2>3 DEF RestOfReply, client
    <3>1. s2c'[cur] = t /\ kept = Prefixes(s2c[cur])
      BY <2>2 DEF IInv, TypeOK, LinkStates
    <3> QED BY <3>1, <2>3, CutReply
  <2>11. WaitsForRequest'
    BY <2>3 DEF IInv, WaitsForRequest, client
  <2> QED BY <2>7, <2>8, <2>9, <2>10, <2>11 DEF IInv
<1> QED BY <1>1, <1>2 DEF Environment

LEMMA NextInv == IInv /\ [Next]_vars => IInv'
<1> SUFFICES ASSUME IInv, [Next]_vars PROVE IInv' OBVIOUS
<1>1. CASE Close
  BY <1>1, CloseInv
<1>8. CASE OpenRemote
  BY <1>8, OpenRemoteInv
<1>2. CASE CheckConnection
  BY <1>2, CheckConnectionInv
<1>3. CASE Ask
  BY <1>3, SendRequestInv DEF Ask
<1>4. CASE ClientRead
  BY <1>4, ClientReadInv
<1>5. CASE ServerAct
  BY <1>5, ServerActInv
<1>6. CASE Environment
  BY <1>6, EnvironmentInv
<1>7. CASE UNCHANGED vars
  BY <1>7 DEF vars, client, wire, server, IInv, TypeOK, LinkStates, LinksInOrder, NoLeakedLink,
              Held, OneReplyDue, RestOfReply, WaitsForRequest, Awaited
<1> QED BY <1>1, <1>2, <1>3, <1>4, <1>5, <1>6, <1>7, <1>8 DEF Next

--------------------------------------------------------------------------------
(***************************************************************************)
(* The theorems.                                                           *)
(***************************************************************************)

\* However calls, replies, lost connections and restarts of the server come
\* together, the client and the wire stay in the states IInv describes.
THEOREM Invariance == Spec => []IInv
BY InitInv, NextInv, PTL DEF Spec

\* Every variable of the session keeps its type.
THEOREM TypeCorrectness == Spec => []TypeOK
<1>1. IInv => TypeOK
  BY DEF IInv
<1> QED BY <1>1, Invariance, PTL

\* Between two calls no byte is on its way to the client, so that the probe of
\* RRemoteFactory::checkConnection() cannot swallow one.
THEOREM InSync == Spec => []StreamInSync
<1>1. IInv => StreamInSync
  BY DEF IInv, RestOfReply, StreamInSync
<1> QED BY <1>1, Invariance, PTL

\* What a CHandler reads next is the part it waits for of the reply to its own
\* request, although nothing in the stream says so.
THEOREM RepliesMatch == Spec => []ReplyAnswersRequest
<1>1. IInv => ReplyAnswersRequest
  <2> SUFFICES ASSUME IInv, pc # "idle", s2c[cur] # <<>>
               PROVE  Incoming.kind = pc /\ Incoming.req = Awaited
    BY DEF ReplyAnswersRequest
  <2> DEFINE q == s2c[cur]
  <2>1. cur # NoConn /\ q \in Seq(ToClient)
    BY DEF IInv, WaitsForRequest, TypeOK, LinkStates
  <2>2. Incoming = q[1] /\ 1 \in 1 .. Len(q)
    BY <2>1, Shifted DEF Incoming
  <2> QED BY <2>1, <2>2 DEF IInv, RestOfReply
<1> QED BY <1>1, Invariance, PTL

\* Only openRemote() over an open connection leaves a connection behind: probes,
\* handshakes, failed opens and reopenings all close the one they replace, so
\* that no connection in use is other than the factory's own.
THEOREM NoLinkLeaks == Spec => []NoLeakedLink
<1>1. IInv => NoLeakedLink
  BY DEF IInv, LinksInOrder
<1> QED BY <1>1, Invariance, PTL

\* checkConnection() loses no byte: when it keeps the connection, its probe has
\* found nothing to take off the stream.
THEOREM ProbeTakesNothing == Spec => [][ProbeKeeps => s2c' = s2c]_vars
<1>1. IInv /\ [Next]_vars => [ProbeKeeps => s2c' = s2c]_vars
  BY DEF IInv, RestOfReply, ProbeKeeps
<1> QED BY <1>1, Invariance, PTL DEF Spec

--------------------------------------------------------------------------------
(***************************************************************************)
(* What a step can do, seen from the server: nothing, open a connection,   *)
(* send a request, or be a step of the server or the environment.          *)
(***************************************************************************)
Reads ==
    /\ pc # "idle" /\ s2c[cur] # <<>> /\ Take /\ UNCHANGED <<req, link>>
    /\ cur' = cur
    /\ \/ pc = "version" /\ pc' = "idle" /\ Incoming.val = ClientVersion
       \/ /\ pc = "response" /\ pc' \in {"idle", "size"} /\ UNCHANGED got
          /\ pc' = "size" => req.cmd = "get"
       \/ pc = "size" /\ pc' = "data" /\ got' = Incoming.body
       \/ pc = "data" /\ pc' = "idle"

StaysOrReads ==
    \/ cur' = NoConn
    \/ cur' = cur /\ UNCHANGED s2c /\ (pc = "version" <=> pc' = "version")
       /\ (pc' \in {"size", "data"} => UNCHANGED <<pc, req, got>>)
       /\ (pc' = "response" => s2c[cur] = <<>> \/ UNCHANGED <<pc, req>>)
    \/ Reads

\* The client has sent nothing, and has brought no connection up.
ClientQuiet ==
    /\ UNCHANGED <<c2s, server>>
    /\ \A c \in Conns : link'[c] = "up" => link[c] = "up"
    /\ StaysOrReads

\* It has opened connection c, after it has closed the old one.
ConnectsOn(c) ==
    /\ c \in Conns /\ ~Held(c) /\ cur' = c /\ pc' = "version"
    /\ c2s' = [c2s EXCEPT ![c] = Handshake]
    /\ s2c' = [s2c EXCEPT ![c] = <<>>]
    /\ backlog' = Append(backlog, c)
    /\ \A d \in Conns : link'[d] = "up" <=> d = c
    /\ UNCHANGED <<serving, srvPc, srvReq, srvVersion, disk>>

LEMMA Reopens ==
    ASSUME NEW l \in [Conns -> LinkStates],
           \A c \in Conns : l[c] \in {"free", "closed", "left", "spent"},
           \A c \in Conns : l[c] = "free" => ~Held(c),
           OpenFails(l) \/ OpenConnects(l)
    PROVE  ClientQuiet \/ \E c \in Conns : ConnectsOn(c)
<1>1. CASE OpenFails(l)
  BY <1>1 DEF OpenFails, ClientQuiet, StaysOrReads
<1>2. CASE OpenConnects(l)
  <2>1. PICK c \in Conns :
           /\ l[c] = "free"
           /\ link' = [l EXCEPT ![c] = "up"]
           /\ cur' = c /\ pc' = "version"
           /\ c2s' = [c2s EXCEPT ![c] = Handshake]
           /\ s2c' = [s2c EXCEPT ![c] = <<>>]
           /\ backlog' = Append(backlog, c)
           /\ UNCHANGED <<serving, srvPc, srvReq, srvVersion, disk>>
    BY <1>2 DEF OpenConnects
  <2>2. \A d \in Conns : link'[d] = "up" <=> d = c
    BY <2>1
  <2> QED BY <2>1, <2>2 DEF ConnectsOn
<1> QED BY <1>1, <1>2

LEMMA OpenRemoteKinds ==
    ASSUME IInv, OpenRemote
    PROVE  ClientQuiet \/ \E c \in Conns : ConnectsOn(c)
<1>1. CASE OpenRefused
  BY <1>1 DEF OpenRefused, ClientQuiet, StaysOrReads, wire, server
<1>2. CASE OpenFails(Overwritten) \/ OpenConnects(Overwritten)
  BY <1>2, OverwrittenLinks, Reopens
<1> QED BY <1>1, <1>2 DEF OpenRemote

LEMMA CheckConnectionKinds ==
    ASSUME IInv, CheckConnection
    PROVE  ClientQuiet \/ \E c \in Conns : ConnectsOn(c)
<1>1. CASE ProbeKeeps
  <2>1. /\ cur \in Conns /\ s2c[cur] = <<>> /\ cur # NoConn
        /\ link' = [link EXCEPT ![cur] = ErrorSeen(@)]
        /\ UNCHANGED <<client, c2s, s2c, server>>
    BY <1>1 DEF ProbeKeeps, IInv, RestOfReply, TypeOK, LinkStates
  <2>2. \A c \in Conns : link'[c] = "up" => link[c] = "up"
    BY <2>1 DEF ErrorSeen, IInv, TypeOK, LinkStates
  <2> QED BY <2>1, <2>2 DEF ClientQuiet, StaysOrReads, client
<1>2. CASE ProbeReopens
  BY <1>2, CloseLinks, Reopens DEF ProbeReopens
<1> QED BY <1>1, <1>2, OpenRemoteKinds DEF CheckConnection

LEMMA SendRequestKinds ==
    ASSUME IInv, NEW r, SendRequest(r)
    PROVE  ClientQuiet \/ (pc = "idle" /\ WriteGoes(r)) \/ (pc = "idle" /\ WriteCut(r))
<1>1. pc = "idle" /\ (cur # NoConn => s2c[cur] = <<>>)
  BY DEF SendRequest, IInv, RestOfReply
<1>2. CASE Refuse(r)
  BY <1>2 DEF Refuse, ClientQuiet, StaysOrReads, wire, server
<1>3. CASE WriteFails(r) \/ WriteIsLost(r)
  <2>1. /\ cur # NoConn /\ cur' = cur /\ pc' \in {"idle", "response"}
        /\ UNCHANGED <<c2s, s2c, server>>
        /\ \/ link' = [link EXCEPT ![cur] = ErrorSeen(@)] /\ link[cur] # "up"
           \/ link' = [link EXCEPT ![cur] = "rst"]
    BY <1>1, <1>3 DEF WriteFails, Broken, WriteIsLost, AfterWrite
  <2>2. \A c \in Conns : link'[c] = "up" => link[c] = "up"
    BY <2>1 DEF ErrorSeen, IInv, TypeOK, LinkStates
  <2> QED BY <1>1, <2>1, <2>2 DEF ClientQuiet, StaysOrReads
<1> QED BY <1>1, <1>2, <1>3 DEF SendRequest

LEMMA ClientReadKinds == ASSUME IInv, ClientRead PROVE ClientQuiet
<1>1. CASE ReadVersion
  <2>1. CASE Incoming.val = ClientVersion
    BY <1>1, <2>1 DEF ReadVersion, ClosedOnMismatch, Return, ClientQuiet, StaysOrReads, Reads
  <2>2. CASE Incoming.val # ClientVersion
    <3>1. cur # NoConn
      BY <1>1 DEF ReadVersion, IInv, WaitsForRequest
    <3>2. \A c \in Conns : link'[c] = "up" => link[c] = "up"
      BY <1>1, <2>2, <3>1, CloseLinks DEF ReadVersion, ClosedOnMismatch
    <3> QED BY <1>1, <2>2, <3>2 DEF ReadVersion, ClosedOnMismatch, ClientQuiet, StaysOrReads
  <2> QED BY <2>1, <2>2
<1>2. CASE ReadResponse \/ ReadSize \/ ReadData
  BY <1>2 DEF ReadResponse, FileFollows, ReadSize, ReadData, Return,
               ClientQuiet, StaysOrReads, Reads
<1>3. CASE ReadNothing
  BY <1>3 DEF ReadNothing, Return, ClientQuiet, StaysOrReads, wire, server
<1>4. CASE ReadFails
  <2>1. cur \in Conns /\ cur # NoConn /\ link[cur] # "up"
    BY <1>4 DEF ReadFails, Broken, IInv, WaitsForRequest, TypeOK, LinkStates
  <2>2. CASE pc = "version"
    BY <1>4, <2>1, <2>2, CloseLinks DEF ReadFails, ClientQuiet, StaysOrReads
  <2>3. CASE pc # "version"
    <3>1. link' = [link EXCEPT ![cur] = ErrorSeen(@)]
      BY <1>4, <2>3 DEF ReadFails
    <3>2. \A c \in Conns : link'[c] = "up" => link[c] = "up"
      BY <2>1, <3>1 DEF ErrorSeen, IInv, TypeOK, LinkStates
    <3> QED BY <1>4, <2>3, <3>2 DEF ReadFails, Return, ClientQuiet, StaysOrReads
  <2> QED BY <2>2, <2>3
<1> QED BY <1>1, <1>2, <1>3, <1>4 DEF ClientRead, Receives

LEMMA StepKinds ==
    ASSUME IInv, [Next]_vars
    PROVE  \/ ClientQuiet
           \/ \E c \in Conns : ConnectsOn(c)
           \/ \E r \in ClientRequests : pc = "idle" /\ WriteGoes(r)
           \/ \E r \in ClientRequests : pc = "idle" /\ WriteCut(r)
           \/ ServerAct \/ Environment
<1>1. CASE Close
  BY <1>1, CloseLinks DEF Close, ClientQuiet, StaysOrReads
<1>2. CASE CheckConnection
  BY <1>2, CheckConnectionKinds
<1>3. CASE Ask
  BY <1>3, SendRequestKinds DEF Ask
<1>4. CASE ClientRead
  BY <1>4, ClientReadKinds
<1>5. CASE UNCHANGED vars
  BY <1>5 DEF vars, client, wire, ClientQuiet, StaysOrReads
<1>6. CASE OpenRemote
  BY <1>6, OpenRemoteKinds
<1> QED BY <1>1, <1>2, <1>3, <1>4, <1>5, <1>6 DEF Next

--------------------------------------------------------------------------------
(***************************************************************************)
(* NewestLast.                                                             *)
(***************************************************************************)
LEMMA NewestInit == Init => NewestLast
BY DEF Init, NewestLast

\* Where a connection is in the server's hands.
LEMMA HeldWhere ==
    ASSUME NEW c
    PROVE  Held(c) <=> c = serving \/ \E i \in 1 .. Len(backlog) : backlog[i] = c
BY DEF Held

LEMMA NewestQuiet ==
    ASSUME NewestLast, UNCHANGED <<backlog, serving>>, cur' \in {cur, NoConn},
           \A c \in Conns : link'[c] = "up" => link[c] = "up"
    PROVE  NewestLast'
BY DEF NewestLast, Held

LEMMA NewestConnects ==
    ASSUME IInv, NewestLast, NEW c \in Conns, ConnectsOn(c)
    PROVE  NewestLast'
<1>1. /\ backlog' = Append(backlog, c) /\ cur' = c /\ serving' = serving /\ ~Held(c)
      /\ backlog \in Seq(Conns)
      /\ \A d \in Conns : link'[d] = "up" <=> d = c
  BY DEF ConnectsOn, IInv, TypeOK, LinkStates
<1>2. /\ Len(backlog') = Len(backlog) + 1 /\ Len(backlog') \in Nat
      /\ backlog'[Len(backlog')] = c /\ backlog' # <<>>
  BY <1>1
<1>3. Len(backlog') \in 1 .. Len(backlog')
  BY <1>1, <1>2
<1>4. Held(c)'
  BY <1>2, <1>3 DEF Held
<1>5. c # serving
  BY <1>1 DEF Held
<1> QED BY <1>1, <1>2, <1>4, <1>5 DEF NewestLast

LEMMA NewestAccept == ASSUME IInv, NewestLast, Accept PROVE NewestLast'
<1>1. /\ serving = NoConn /\ backlog \in Seq(Conns) /\ backlog # <<>>
      /\ serving' = Head(backlog) /\ backlog' = Tail(backlog)
      /\ UNCHANGED <<cur, link>>
  BY DEF Accept, IInv, TypeOK, LinkStates, client, wire
<1>2. /\ serving' = backlog[1] /\ Len(backlog) \in Nat \ {0}
      /\ backlog' \in Seq(Conns) /\ Len(backlog') = Len(backlog) - 1
      /\ \A i \in 1 .. Len(backlog') : backlog'[i] = backlog[i + 1]
      /\ backlog' = <<>> <=> Len(backlog) = 1
  BY <1>1, Shifted
<1>3. \A c \in Conns : Held(c) => Held(c)'
  <2> SUFFICES ASSUME NEW c \in Conns, Held(c) PROVE Held(c)'
    OBVIOUS
  <2>1. PICK i \in 1 .. Len(backlog) : backlog[i] = c
    BY <1>1, ConstantsAssumption DEF Held
  <2>2. CASE i = 1
    BY <2>1, <2>2, <1>2 DEF Held
  <2>3. CASE i # 1
    <3>1. i - 1 \in 1 .. Len(backlog') /\ (i - 1) + 1 = i
      BY <2>3, <1>2
    <3>2. backlog'[i - 1] = c
      BY <3>1, <2>1, <1>2
    <3> QED BY <3>1, <3>2 DEF Held
  <2> QED BY <2>2, <2>3
<1>4. \A c \in Conns : Held(c)' => Held(c)
  BY <1>1, <1>2 DEF Held
<1>5. ASSUME cur # NoConn, Held(cur)'
      PROVE  IF serving' = cur THEN backlog' = <<>>
             ELSE backlog' # <<>> /\ backlog'[Len(backlog')] = cur
  <2>1. cur \in Conns
    BY <1>5 DEF IInv, TypeOK, LinkStates
  <2>2. backlog[Len(backlog)] = cur
    BY <2>1, <1>1, <1>4, <1>5 DEF NewestLast
  <2>3. CASE serving' = cur
    <3>1. 1 \in 1 .. Len(backlog) /\ Len(backlog) \in 1 .. Len(backlog)
      BY <1>2
    <3>2. Len(backlog) = 1
      BY <3>1, <2>2, <2>3, <1>2 DEF IInv, LinksInOrder
    <3> QED BY <3>2, <1>2, <2>3
  <2>4. CASE serving' # cur
    <3>1. Len(backlog) # 1
      BY <2>2, <2>4, <1>2
    <3>2. Len(backlog') \in 1 .. Len(backlog') /\ Len(backlog') + 1 = Len(backlog)
      BY <3>1, <1>2
    <3>3. backlog'[Len(backlog')] = cur
      BY <3>2, <2>2, <1>2
    <3> QED BY <2>4, <3>1, <3>3, <1>2
  <2> QED BY <2>3, <2>4
<1> QED BY <1>1, <1>3, <1>5 DEF NewestLast

LEMMA NewestNext == IInv /\ NewestLast /\ [Next]_vars => NewestLast'
<1> SUFFICES ASSUME IInv, NewestLast, [Next]_vars PROVE NewestLast' OBVIOUS
<1>1. CASE ClientQuiet
  BY <1>1, NewestQuiet DEF ClientQuiet, StaysOrReads, Reads, server
<1>2. ASSUME NEW c \in Conns, ConnectsOn(c) PROVE NewestLast'
  BY <1>2, NewestConnects
<1>3. ASSUME NEW r \in ClientRequests, WriteGoes(r) PROVE NewestLast'
  BY <1>3, NewestQuiet DEF WriteGoes, AfterWrite, server
<1>9. ASSUME NEW r \in ClientRequests, WriteCut(r) PROVE NewestLast'
  <2>1. \A c \in Conns : link'[c] = "up" => link[c] = "up"
    BY <1>9, WriteCutStream DEF IInv, TypeOK
  <2> QED BY <1>9, <2>1, WriteCutStream, NewestQuiet DEF server
<1>4. CASE Accept
  BY <1>4, NewestAccept
<1>5. CASE ReadSignature \/ Execute \/ ReceiveSize \/ ReceiveData
  BY <1>5, NewestQuiet DEF ReadSignature, Execute, ReceiveSize, ReceiveData, client
<1>6. CASE ServerReadFails
  <2>1. /\ serving \in Conns /\ link[serving] # "up" /\ UNCHANGED <<client, backlog>>
        /\ link' = [link EXCEPT ![serving] = IF @ = "closed" THEN "free" ELSE @]
        /\ serving' = NoConn
    BY <1>6 DEF ServerReadFails, Released, IInv, TypeOK, LinkStates
  <2>2. \A c \in Conns : link'[c] = "up" => link[c] = "up" /\ c # serving
    BY <2>1 DEF IInv, TypeOK, LinkStates
  <2>3. \A c \in Conns : c # serving => (Held(c)' <=> Held(c))
    BY <2>1, ConstantsAssumption DEF Held
  <2>4. ASSUME cur # NoConn, Held(cur)'
        PROVE  serving' # cur /\ serving # cur /\ Held(cur)
    <3>1. \A i \in 1 .. Len(backlog) : backlog[i] # serving
      BY DEF IInv, LinksInOrder
    <3> QED BY <2>1, <2>4, <3>1 DEF Held, client
  <2> QED BY <2>1, <2>2, <2>3, <2>4 DEF NewestLast, client
<1>7. ASSUME NEW c \in Conns, ConnectionLost(c) PROVE NewestLast'
  <2>1. \A d \in Conns : link'[d] = "up" => link[d] = "up"
    BY <1>7 DEF ConnectionLost, IInv, TypeOK, LinkStates
  <2> QED BY <1>7, <2>1, NewestQuiet DEF ConnectionLost, client, server
<1>8. CASE ServerRestarts
  <2>1. \A d \in Conns : link'[d] # "up"
    <3>1. PICK how \in {"fin", "rst"} :
             link' = [c \in Conns |-> IF ~Held(c) THEN link[c]
                                      ELSE CASE link[c] = "up" -> how
                                             [] link[c] = "closed" -> "free"
                                             [] link[c] = "left" -> "spent"
                                             [] OTHER -> link[c]]
      BY <1>8 DEF ServerRestarts
    <3>2. \A c \in Conns : link[c] = "up" => Held(c)
      BY DEF NewestLast
    <3> QED BY <3>1, <3>2 DEF IInv, TypeOK, LinkStates
  <2>2. backlog' = <<>> /\ serving' = NoConn /\ cur' = cur
    BY <1>8 DEF ServerRestarts, client
  <2> QED BY <2>1, <2>2 DEF NewestLast, Held
<1> QED BY <1>1, <1>2, <1>3, <1>4, <1>5, <1>6, <1>7, <1>8, <1>9, StepKinds
        DEF ServerAct, Environment

--------------------------------------------------------------------------------
(***************************************************************************)
(* StreamsInOrder, on a server where create() works.                       *)
(***************************************************************************)
LEMMA StreamsInit == Init => StreamsInOrder
BY ConstantsAssumption DEF Init, StreamsInOrder, Held

\* One stream at a time: s is read from where the server expects k.
InOrder(s, k, up) ==
    /\ s # <<>> => s[1].kind = k
    /\ \A i \in 1 .. Len(s) : i < Len(s) => s[i + 1].kind = Follows(s[i])
    /\ up => IF s = <<>> THEN k = "command" ELSE Follows(s[Len(s)]) = "command"

LEMMA StreamsAre ==
    StreamsInOrder <=>
        /\ srvPc \in {"size", "data"} => srvReq.name \in Names
        /\ \A c \in Conns : Held(c) => InOrder(c2s[c], Expected(c), link[c] = "up")
BY DEF StreamsInOrder, InOrder

LEMMA LastOne ==
    ASSUME NEW s \in Seq(ToServer)
    PROVE  s # <<>> => Len(s) \in 1 .. Len(s)
BY EmptySeq

\* A stream that is cut, or read from, is in order again.
LEMMA CutInOrder ==
    ASSUME NEW s \in Seq(ToServer), NEW p \in Prefixes(s), NEW k, NEW up, InOrder(s, k, up)
    PROVE  InOrder(p, k, FALSE)
<1>1. /\ p \in Seq(ToServer) /\ Len(p) \in 0 .. Len(s) /\ Len(s) \in Nat
      /\ \A i \in 1 .. Len(p) : p[i] = s[i] /\ i \in 1 .. Len(s)
      /\ s = <<>> => p = <<>>
  BY CutShort
<1>2. p # <<>> => 1 \in 1 .. Len(p)
  BY <1>1, EmptySeq
<1>3. p # <<>> => p[1].kind = k
  BY <1>1, <1>2 DEF InOrder
<1>4. \A i \in 1 .. Len(p) : i < Len(p) => i + 1 \in 1 .. Len(p) /\ i < Len(s)
  BY <1>1
<1>5. \A i \in 1 .. Len(p) : i < Len(p) => p[i + 1].kind = Follows(p[i])
  BY <1>1, <1>4 DEF InOrder
<1> QED BY <1>3, <1>5 DEF InOrder

LEMMA TailInOrder ==
    ASSUME NEW s \in Seq(ToServer), s # <<>>, NEW k, NEW up, InOrder(s, k, up)
    PROVE  InOrder(Tail(s), Follows(s[1]), up)
<1>1. /\ s[1] \in ToServer /\ Len(s) \in Nat \ {0}
      /\ Tail(s) \in Seq(ToServer) /\ Len(Tail(s)) = Len(s) - 1
      /\ \A i \in 1 .. Len(Tail(s)) : Tail(s)[i] = s[i + 1]
      /\ Tail(s) = <<>> <=> Len(s) = 1
  BY Shifted
<1>2. \A i \in 1 .. Len(s) : i < Len(s) => s[i + 1].kind = Follows(s[i])
  BY DEF InOrder
<1>3. Tail(s) # <<>> => Tail(s)[1].kind = Follows(s[1])
  <2>1. Tail(s) # <<>> => 1 \in 1 .. Len(s) /\ 1 < Len(s) /\ 1 \in 1 .. Len(Tail(s))
    BY <1>1
  <2> QED BY <2>1, <1>1, <1>2
<1>4. \A i \in 1 .. Len(Tail(s)) : i < Len(Tail(s)) => Tail(s)[i + 1].kind = Follows(Tail(s)[i])
  <2>1. \A i \in 1 .. Len(Tail(s)) : i < Len(Tail(s)) =>
           /\ i + 1 \in 1 .. Len(Tail(s)) /\ i + 1 \in 1 .. Len(s) /\ i + 1 < Len(s)
    BY <1>1
  <2> QED BY <2>1, <1>1, <1>2
<1>5. ASSUME up PROVE IF Tail(s) = <<>> THEN Follows(s[1]) = "command"
                      ELSE Follows(Tail(s)[Len(Tail(s))]) = "command"
  <2>1. Follows(s[Len(s)]) = "command"
    BY <1>5 DEF InOrder
  <2>2. Tail(s) # <<>> => Tail(s)[Len(Tail(s))] = s[Len(s)]
    <3> HAVE Tail(s) # <<>>
    <3>1. Len(Tail(s)) \in 1 .. Len(Tail(s)) /\ Len(Tail(s)) + 1 = Len(s)
      BY <1>1
    <3> QED BY <3>1, <1>1
  <2> QED BY <2>1, <2>2, <1>1
<1> QED BY <1>3, <1>4, <1>5 DEF InOrder

\* A request that is sent follows what was sent before it.
LEMMA WireInOrder ==
    ASSUME NEW r \in ClientRequests
    PROVE  InOrder(Wire(r), "command", TRUE) /\ Wire(r) # <<>>
<1>1. \A k : Unit(k, r).req = r /\ Unit(k, r).kind = k
  BY DEF Unit
<1>2. CASE r.cmd = "send"
  <2> DEFINE u == Unit("command", r)
             z == Unit("size", r)
             d == Unit("data", r)
  <2>1. Wire(r) = <<u, z, d>>
    BY <1>2 DEF Wire
  <2>2. /\ u.kind = "command" /\ z.kind = "size" /\ d.kind = "data"
        /\ Follows(u) = "size" /\ Follows(z) = "data" /\ Follows(d) = "command"
    BY <1>1, <1>2 DEF Follows
  <2> HIDE DEF u, z, d
  <2>3. /\ Len(Wire(r)) = 3 /\ Wire(r)[1] = u /\ Wire(r)[2] = z /\ Wire(r)[3] = d
        /\ Wire(r) # <<>>
    BY <2>1
  <2>4. \A i \in 1 .. 3 : i < 3 => i = 1 \/ i = 2
    OBVIOUS
  <2>5. Wire(r)[1 + 1] = z /\ Wire(r)[2 + 1] = d
    BY <2>3
  <2> QED BY <2>2, <2>3, <2>4, <2>5 DEF InOrder
<1>3. CASE r.cmd # "send"
  <2> DEFINE u == Unit("command", r)
  <2>1. Wire(r) = <<u>>
    BY <1>3 DEF Wire
  <2>2. u.kind = "command" /\ Follows(u) = "command"
    BY <1>1, <1>3 DEF Follows
  <2> HIDE DEF u
  <2>3. Len(Wire(r)) = 1 /\ Wire(r)[1] = u /\ Wire(r) # <<>>
    BY <2>1
  <2>4. \A i \in 1 .. 1 : ~(i < 1)
    OBVIOUS
  <2> QED BY <2>2, <2>3, <2>4 DEF InOrder
<1> QED BY <1>2, <1>3

LEMMA JoinInOrder ==
    ASSUME NEW s \in Seq(ToServer), NEW t \in Seq(ToServer), NEW k,
           InOrder(s, k, TRUE), InOrder(t, "command", TRUE), t # <<>>
    PROVE  InOrder(s \o t, k, TRUE)
<1>1. /\ s \o t \in Seq(ToServer) /\ Len(s \o t) = Len(s) + Len(t)
      /\ \A i \in 1 .. Len(s) : (s \o t)[i] = s[i]
      /\ \A i \in Len(s) + 1 .. Len(s \o t) :
            (s \o t)[i] = t[i - Len(s)] /\ i - Len(s) \in 1 .. Len(t)
  BY Appended
<1>2. Len(s) \in Nat /\ Len(t) \in Nat \ {0} /\ (s = <<>> <=> Len(s) = 0)
  BY EmptySeq
<1>3. (s \o t)[Len(s) + 1] = t[1]
  <2>1. Len(s) + 1 \in Len(s) + 1 .. Len(s \o t) /\ (Len(s) + 1) - Len(s) = 1
    BY <1>1, <1>2
  <2> QED BY <2>1, <1>1
<1>4. s \o t # <<>>
  BY <1>1, <1>2, EmptySeq
<1>5. (s \o t)[1].kind = k
  <2>1. CASE s = <<>>
    BY <2>1, <1>2, <1>3 DEF InOrder
  <2>2. CASE s # <<>>
    <3>1. 1 \in 1 .. Len(s)
      BY <2>2, <1>2
    <3> QED BY <3>1, <2>2, <1>1 DEF InOrder
  <2> QED BY <2>1, <2>2
<1>6. ASSUME NEW i \in 1 .. Len(s \o t), i < Len(s \o t)
      PROVE  (s \o t)[i + 1].kind = Follows((s \o t)[i])
  <2>1. CASE i < Len(s)
    <3>1. i \in 1 .. Len(s) /\ i + 1 \in 1 .. Len(s)
      BY <2>1, <1>1, <1>2
    <3> QED BY <3>1, <2>1, <1>1 DEF InOrder
  <2>2. CASE i = Len(s)
    <3>1. i \in 1 .. Len(s) /\ s # <<>>
      BY <2>2, <1>1, <1>2
    <3> QED BY <3>1, <2>2, <1>1, <1>3 DEF InOrder
  <2>3. CASE i > Len(s)
    <3> DEFINE j == i - Len(s)
    <3>1. /\ j \in 1 .. Len(t) /\ j < Len(t) /\ j + 1 = (i + 1) - Len(s)
          /\ i \in Len(s) + 1 .. Len(s \o t) /\ i + 1 \in Len(s) + 1 .. Len(s \o t)
      BY <2>3, <1>1, <1>2, <1>6
    <3>2. (s \o t)[i] = t[j] /\ (s \o t)[i + 1] = t[j + 1]
      BY <3>1, <1>1
    <3> HIDE DEF j
    <3>3. t[j + 1].kind = Follows(t[j])
      BY <3>1 DEF InOrder
    <3> QED BY <3>2, <3>3
  <2>4. i \in Nat /\ Len(s) \in Nat
    BY <1>1, <1>2
  <2>5. i < Len(s) \/ i = Len(s) \/ i > Len(s)
    BY <2>4
  <2> QED BY <2>1, <2>2, <2>3, <2>5
<1>7. Follows((s \o t)[Len(s \o t)]) = "command"
  <2>1. Len(s \o t) \in Len(s) + 1 .. Len(s \o t) /\ Len(s \o t) - Len(s) = Len(t)
    BY <1>1, <1>2
  <2>2. (s \o t)[Len(s \o t)] = t[Len(t)]
    BY <2>1, <1>1
  <2> QED BY <2>2 DEF InOrder
<1> QED BY <1>4, <1>5, <1>6, <1>7 DEF InOrder

LEMMA StreamsQuiet ==
    ASSUME StreamsInOrder, UNCHANGED <<c2s, backlog, serving, srvPc, srvReq>>,
           \A c \in Conns : link'[c] = "up" => link[c] = "up"
    PROVE  StreamsInOrder'
BY DEF StreamsInOrder, Expected, Held

LEMMA StreamsConnects ==
    ASSUME IInv, StreamsInOrder, NEW c \in Conns, ConnectsOn(c)
    PROVE  StreamsInOrder'
<1>1. /\ backlog' = Append(backlog, c) /\ backlog \in Seq(Conns) /\ ~Held(c)
      /\ c2s' = [c2s EXCEPT ![c] = Handshake]
      /\ \A d \in Conns : link'[d] = "up" <=> d = c
      /\ UNCHANGED <<serving, srvPc, srvReq>>
  BY DEF ConnectsOn, IInv, TypeOK, LinkStates
<1>2. /\ Len(backlog') = Len(backlog) + 1
      /\ \A i \in 1 .. Len(backlog) : backlog'[i] = backlog[i]
      /\ backlog'[Len(backlog')] = c
  BY <1>1
<1>3. \A d \in Conns \ {c} : Held(d)' => Held(d)
  BY <1>1, <1>2 DEF Held
<1>4. InOrder(Handshake, "signature", TRUE)
  <2> DEFINE u == Unit("signature", Hello)
             v == Unit("command", Hello)
  <2>1. u.kind = "signature" /\ v.kind = "command" /\ v.req.cmd = "version"
    BY DEF Unit, Hello, Request
  <2>2. Handshake = <<u, v>>
    BY DEF Handshake
  <2> HIDE DEF u, v
  <2>3. /\ Len(Handshake) = 2 /\ Handshake[1] = u /\ Handshake[2] = v
        /\ Handshake # <<>> /\ Handshake[1 + 1] = v
    BY <2>2
  <2>4. \A i \in 1 .. 2 : i < 2 => i = 1
    OBVIOUS
  <2>5. Follows(u) = "command" /\ Follows(v) = "command"
    BY <2>1 DEF Follows
  <2> QED BY <2>1, <2>3, <2>4, <2>5 DEF InOrder
<1>5. c2s'[c] = Handshake /\ \A d \in Conns \ {c} : c2s'[d] = c2s[d]
  BY <1>1 DEF IInv, TypeOK, LinkStates
<1>6. c # serving
  BY <1>1 DEF Held
<1>7. Expected(c)' = "signature" /\ \A d \in Conns : Expected(d)' = Expected(d)
  BY <1>1, <1>6 DEF Expected
<1>8. \A d \in Conns : Held(d)' => InOrder(c2s'[d], Expected(d)', link'[d] = "up")
  <2> SUFFICES ASSUME NEW d \in Conns, Held(d)'
               PROVE  InOrder(c2s'[d], Expected(d)', link'[d] = "up")
    OBVIOUS
  <2>1. CASE d = c
    BY <2>1, <1>1, <1>4, <1>5, <1>7 DEF InOrder
  <2>2. CASE d # c
    <3>1. Held(d) /\ link'[d] # "up" /\ c2s'[d] = c2s[d]
      BY <2>2, <1>1, <1>3, <1>5
    <3>2. InOrder(c2s[d], Expected(d), link[d] = "up")
      BY <3>1, StreamsAre
    <3> QED BY <3>1, <3>2, <1>7 DEF InOrder
  <2> QED BY <2>1, <2>2
<1>9. srvPc \in {"size", "data"} => srvReq.name \in Names
  BY DEF StreamsInOrder
<1> QED BY <1>1, <1>8, <1>9 DEF StreamsInOrder, InOrder

LEMMA StreamsWrite ==
    ASSUME IInv, StreamsInOrder, NEW r \in ClientRequests, WriteGoes(r)
    PROVE  StreamsInOrder'
<1> DEFINE s == c2s[cur]
<1>1. /\ cur \in Conns /\ link[cur] = "up" /\ s \in Seq(ToServer)
      /\ c2s' = [c2s EXCEPT ![cur] = s \o Wire(r)]
      /\ UNCHANGED <<cur, link, server>>
  BY DEF WriteGoes, AfterWrite, IInv, TypeOK, LinkStates
<1>2. c2s'[cur] = s \o Wire(r) /\ \A d \in Conns \ {cur} : c2s'[d] = c2s[d]
  BY <1>1 DEF IInv, TypeOK, LinkStates
<1>3. \A d \in Conns : (Held(d)' <=> Held(d)) /\ Expected(d)' = Expected(d)
  BY <1>1 DEF Held, Expected, server
<1>4. ASSUME NEW d \in Conns, Held(d)
      PROVE  InOrder(c2s'[d], Expected(d), link[d] = "up")
  <2>1. InOrder(c2s[d], Expected(d), link[d] = "up")
    BY <1>4, StreamsAre
  <2>2. CASE d = cur
    <3>1. InOrder(s, Expected(d), TRUE)
      BY <2>1, <2>2, <1>1 DEF InOrder
    <3>2. Wire(r) \in Seq(ToServer)
      BY WireUnits
    <3>3. InOrder(s \o Wire(r), Expected(d), TRUE)
      BY <3>1, <3>2, <1>1, WireInOrder, JoinInOrder
    <3> HIDE DEF s
    <3> QED BY <3>3, <2>2, <1>1, <1>2 DEF InOrder
  <2>3. CASE d # cur
    BY <2>1, <2>3, <1>2
  <2> QED BY <2>2, <2>3
<1>5. srvPc \in {"size", "data"} => srvReq.name \in Names
  BY DEF StreamsInOrder
<1> QED BY <1>1, <1>3, <1>4, <1>5 DEF StreamsInOrder, InOrder, server

LEMMA StreamsWriteCut ==
    ASSUME IInv, StreamsInOrder, NEW r \in ClientRequests, WriteCut(r)
    PROVE  StreamsInOrder'
<1> DEFINE s == c2s[cur]
<1>1. /\ cur \in Conns /\ link[cur] = "up" /\ s \in Seq(ToServer)
      /\ link'[cur] # "up" /\ \A d \in Conns : link'[d] = "up" => link[d] = "up"
      /\ UNCHANGED <<cur, server>>
  BY WriteCutStream DEF IInv, TypeOK
<1>2. PICK p \in Prefixes(s \o Wire(r)) : c2s' = [c2s EXCEPT ![cur] = p]
  BY WriteCutStream
<1>3. c2s'[cur] = p /\ \A d \in Conns \ {cur} : c2s'[d] = c2s[d]
  BY <1>1, <1>2 DEF IInv, TypeOK
<1>4. \A d \in Conns : (Held(d)' <=> Held(d)) /\ Expected(d)' = Expected(d)
  BY <1>1 DEF Held, Expected, server
<1>5. Wire(r) \in Seq(ToServer) /\ s \o Wire(r) \in Seq(ToServer)
  BY <1>1, WireUnits
<1>6. ASSUME NEW d \in Conns, Held(d)
      PROVE  InOrder(c2s'[d], Expected(d), link'[d] = "up")
  <2>1. InOrder(c2s[d], Expected(d), link[d] = "up")
    BY <1>6, StreamsAre
  <2>2. CASE d = cur
    <3>1. InOrder(s, Expected(d), TRUE)
      BY <2>1, <2>2, <1>1 DEF InOrder
    <3>2. InOrder(s \o Wire(r), Expected(d), TRUE)
      BY <3>1, <1>1, <1>5, WireInOrder, JoinInOrder
    <3> HIDE DEF s
    <3>3. InOrder(p, Expected(d), FALSE)
      BY <3>2, <1>2, <1>5, CutInOrder
    <3> QED BY <3>3, <2>2, <1>1, <1>3 DEF InOrder
  <2>3. CASE d # cur
    BY <2>1, <2>3, <1>1, <1>3 DEF InOrder
  <2> QED BY <2>2, <2>3
<1> HIDE DEF s
<1>7. srvPc \in {"size", "data"} => srvReq.name \in Names
  BY DEF StreamsInOrder
<1> QED BY <1>1, <1>4, <1>6, <1>7 DEF StreamsInOrder, InOrder, server

\* The server reads a unit and goes on to what follows it.
LEMMA StreamsDrop ==
    ASSUME IInv, StreamsInOrder, srvPc # "idle", Arriving # <<>>, Drop,
           UNCHANGED <<link, backlog, serving>>,
           srvPc' = Follows(Head(Arriving)),
           srvPc' \in {"size", "data"} => srvReq'.name \in Names
    PROVE  StreamsInOrder' /\ Head(Arriving).kind = srvPc
<1> DEFINE s == c2s[serving]
<1>1. serving \in Conns /\ s \in Seq(ToServer) /\ s # <<>> /\ Held(serving)
  BY DropInv DEF IInv, TypeOK, LinkStates, Arriving, Held
<1>2. Head(Arriving) = s[1]
  BY <1>1, Shifted DEF Arriving
<1>3. c2s'[serving] = Tail(s) /\ \A d \in Conns \ {serving} : c2s'[d] = c2s[d]
  BY <1>1 DEF Drop, Arriving, IInv, TypeOK, LinkStates
<1>4. InOrder(s, srvPc, link[serving] = "up")
  BY <1>1, StreamsAre DEF Expected
<1>5. InOrder(Tail(s), Follows(s[1]), link[serving] = "up")
  BY <1>1, <1>4, TailInOrder
<1> HIDE DEF s
<1>6. \A d \in Conns : Held(d)' <=> Held(d)
  BY DEF Held
<1>7. Expected(serving)' = srvPc' /\ \A d \in Conns \ {serving} : Expected(d)' = Expected(d)
  BY DEF Expected
<1>8. ASSUME NEW d \in Conns, Held(d)
      PROVE  InOrder(c2s'[d], Expected(d)', link'[d] = "up")
  <2>1. CASE d = serving
    BY <2>1, <1>2, <1>3, <1>5, <1>7
  <2>2. CASE d # serving
    BY <2>2, <1>3, <1>7, <1>8, StreamsAre
  <2> QED BY <2>1, <2>2
<1>9. StreamsInOrder'
  BY <1>6, <1>8 DEF StreamsInOrder, InOrder
<1>10. Head(Arriving).kind = srvPc
  BY <1>1, <1>2, <1>4 DEF InOrder
<1> QED BY <1>9, <1>10

LEMMA KindRead ==
    ASSUME IInv, StreamsInOrder, srvPc # "idle", Arriving # <<>>
    PROVE  Head(Arriving).kind = srvPc
<1>1. serving \in Conns /\ c2s[serving] \in Seq(ToServer) /\ Held(serving)
  BY DEF IInv, TypeOK, LinkStates, LinksInOrder, Held
<1>2. Head(Arriving) = c2s[serving][1]
  BY <1>1, Shifted DEF Arriving
<1>3. InOrder(c2s[serving], srvPc, link[serving] = "up")
  BY <1>1, StreamsAre DEF Expected
<1> QED BY <1>2, <1>3 DEF InOrder, Arriving

LEMMA StreamsNext ==
    ASSUME ~CreateMayFail
    PROVE  IInv /\ StreamsInOrder /\ [Next]_vars => StreamsInOrder'
<1> SUFFICES ASSUME IInv, StreamsInOrder, [Next]_vars PROVE StreamsInOrder' OBVIOUS
<1>1. CASE ClientQuiet
  BY <1>1, StreamsQuiet DEF ClientQuiet, server
<1>2. ASSUME NEW c \in Conns, ConnectsOn(c) PROVE StreamsInOrder'
  BY <1>2, StreamsConnects
<1>3. ASSUME NEW r \in ClientRequests, WriteGoes(r) PROVE StreamsInOrder'
  BY <1>3, StreamsWrite
<1>4. CASE Accept
  <2>1. /\ serving = NoConn /\ serving' = backlog[1] /\ 1 \in 1 .. Len(backlog)
        /\ srvPc' = "signature" /\ UNCHANGED <<client, wire, srvReq>>
    BY <1>4, Shifted DEF Accept, IInv, TypeOK, LinkStates
  <2>2. \A c \in Conns : Held(c)' => Held(c)
    <3>1. /\ backlog' = Tail(backlog) /\ Len(backlog') = Len(backlog) - 1
          /\ \A i \in 1 .. Len(backlog') : backlog'[i] = backlog[i + 1]
          /\ Len(backlog) \in Nat
      BY <1>4, Shifted DEF Accept, IInv, TypeOK, LinkStates
    <3> QED BY <2>1, <3>1 DEF Held
  <2>3. \A c \in Conns : Expected(c) = "signature" /\ Expected(c)' = "signature"
    BY <2>1, ConstantsAssumption DEF Expected
  <2> QED BY <2>1, <2>2, <2>3 DEF StreamsInOrder, client, wire
<1>5. CASE ReadSignature
  <2>1. srvPc = "signature" /\ Arriving # <<>>
    BY <1>5 DEF ReadSignature
  <2>2. Head(Arriving).kind = "signature"
    BY <2>1, KindRead
  <2> QED BY <1>5, <2>2, StreamsDrop DEF ReadSignature, Follows
<1>6. CASE Execute
  <2>1. srvPc = "command" /\ Arriving # <<>> /\ Drop /\ UNCHANGED <<link, backlog, serving>>
    BY <1>6 DEF Execute
  <2>2. /\ Head(Arriving).kind = "command"
        /\ Head(Arriving).req \in ClientRequests \cup {Hello}
    BY <2>1, KindRead, DropInv DEF ToServer
  <2>3. CASE Head(Arriving).req.cmd = "send"
    <3>1. srvPc' = "size" /\ srvReq'.name \in Names
      BY <1>6, <2>2, <2>3, SendableRequests DEF Execute
    <3>2. Follows(Head(Arriving)) = "size"
      BY <2>2, <2>3 DEF Follows
    <3> QED BY <2>1, <3>1, <3>2, StreamsDrop
  <2>4. CASE Head(Arriving).req.cmd # "send"
    <3>1. srvPc' = "command"
      BY <1>6, <2>1, <2>4 DEF Execute
    <3>2. Follows(Head(Arriving)) = "command"
      BY <2>2, <2>4 DEF Follows
    <3> QED BY <2>1, <3>1, <3>2, StreamsDrop
  <2> QED BY <2>3, <2>4
<1>7. CASE ReceiveSize
  <2>1. srvPc = "size" /\ Arriving # <<>> /\ srvReq.name \in Names
    BY <1>7 DEF ReceiveSize, StreamsInOrder
  <2>2. Head(Arriving).kind = "size"
    BY <2>1, KindRead
  <2>3. srvPc' = "data"
    BY <1>7, <2>1, ConstantsAssumption DEF ReceiveSize, Creates
  <2>4. Follows(Head(Arriving)) = "data"
    BY <2>2 DEF Follows
  <2> QED BY <1>7, <2>1, <2>3, <2>4, StreamsDrop DEF ReceiveSize
<1>8. CASE ReceiveData
  <2>1. srvPc = "data" /\ Arriving # <<>>
    BY <1>8 DEF ReceiveData
  <2>2. Head(Arriving).kind = "data"
    BY <2>1, KindRead
  <2> QED BY <1>8, <2>2, StreamsDrop DEF ReceiveData, Follows
<1>9. CASE ServerReadFails
  <2>1. /\ serving \in Conns /\ UNCHANGED <<c2s, backlog>>
        /\ link' = [link EXCEPT ![serving] = IF @ = "closed" THEN "free" ELSE @]
        /\ serving' = NoConn /\ srvPc' = "idle"
    BY <1>9 DEF ServerReadFails, Released, IInv, TypeOK, LinkStates
  <2>2. \A c \in Conns : link'[c] = "up" => link[c] = "up"
    BY <2>1 DEF IInv, TypeOK, LinkStates
  <2>3. \A c \in Conns : Held(c)' => Held(c) /\ c # serving
    BY <2>1, ConstantsAssumption DEF Held, IInv, LinksInOrder
  <2>4. \A c \in Conns : c # serving => Expected(c)' = Expected(c)
    BY <2>1, ConstantsAssumption DEF Expected
  <2> QED BY <2>1, <2>2, <2>3, <2>4 DEF StreamsInOrder
<1>10. ASSUME NEW c \in Conns, ConnectionLost(c) PROVE StreamsInOrder'
  <2>1. PICK p \in Prefixes(c2s[c]) : c2s' = [c2s EXCEPT ![c] = p]
    BY <1>10 DEF ConnectionLost
  <2>2. /\ link' = [link EXCEPT ![c] = IF @ = "up" THEN "rst"
                                       ELSE IF @ = "left" THEN "spent" ELSE @]
        /\ UNCHANGED server
    BY <1>10 DEF ConnectionLost
  <2>3. /\ link'[c] # "up" /\ \A d \in Conns : link'[d] = "up" => link[d] = "up"
        /\ c2s'[c] = p /\ \A d \in Conns \ {c} : c2s'[d] = c2s[d]
    BY <2>1, <2>2 DEF IInv, TypeOK, LinkStates
  <2>4. \A d \in Conns : (Held(d)' <=> Held(d)) /\ Expected(d)' = Expected(d)
    BY <2>2 DEF Held, Expected, server
  <2>5. c2s[c] \in Seq(ToServer)
    BY DEF IInv, TypeOK, LinkStates
  <2>6. ASSUME NEW d \in Conns, Held(d)
        PROVE  InOrder(c2s'[d], Expected(d), link'[d] = "up")
    <3>1. InOrder(c2s[d], Expected(d), link[d] = "up")
      BY <2>6, StreamsAre
    <3>2. CASE d = c
      <4>1. InOrder(p, Expected(d), FALSE)
        BY <3>1, <3>2, <2>5, CutInOrder
      <4> QED BY <4>1, <3>2, <2>3 DEF InOrder
    <3>3. CASE d # c
      BY <3>1, <3>3, <2>3 DEF InOrder
    <3> QED BY <3>2, <3>3
  <2>7. srvPc \in {"size", "data"} => srvReq.name \in Names
    BY DEF StreamsInOrder
  <2> QED BY <2>2, <2>4, <2>6, <2>7 DEF StreamsInOrder, InOrder, server
<1>11. CASE ServerRestarts
  BY <1>11, ConstantsAssumption DEF ServerRestarts, StreamsInOrder, Held
<1>12. ASSUME NEW r \in ClientRequests, WriteCut(r) PROVE StreamsInOrder'
  BY <1>12, StreamsWriteCut
<1> QED BY <1>1, <1>2, <1>3, <1>4, <1>5, <1>6, <1>7, <1>8, <1>9, <1>10, <1>11, <1>12, StepKinds
        DEF ServerAct, Environment

--------------------------------------------------------------------------------
(***************************************************************************)
(* OnlyCompatibleCommands and VersionKnown.                                *)
(***************************************************************************)

\* What the units of an answer say about the server and its files.
LEMMA AnswerSays ==
    ASSUME IInv, NEW r \in ClientRequests \cup {Hello}, NEW i \in 1 .. Len(AnswerTo(r))
    PROVE  LET u == AnswerTo(r)[i] IN
           /\ u.kind = "version" => u.val = srvVersion /\ r.cmd = "version"
           /\ u.kind = "response" /\ u.val = "KErrNone" /\ r.cmd # "dir"
                 => r.name \in Names /\ disk[r.name] # NoFile
           /\ u.kind \in {"size", "data"} => r.cmd = "get" /\ u.body = disk[r.name]
<1> DEFINE b == disk[r.name]
           v == Reply("version", r, srvVersion, <<>>)
           a == Reply("response", r, "KErrNone", <<>>)
           z == Reply("size", r, "KErrNone", b)
           d == Reply("data", r, "KErrNone", b)
           f == Reply("response", r, Result(r), <<>>)
<1>1. /\ v.kind = "version" /\ v.val = srvVersion
      /\ a.kind = "response" /\ z.kind = "size" /\ d.kind = "data" /\ f.kind = "response"
      /\ z.body = b /\ d.body = b /\ f.val = Result(r)
  BY DEF Reply
<1>2. r.cmd # "version" => r.name \in Names
  BY SendableRequests
<1>3. CASE r.cmd = "version"
  <2>1. AnswerTo(r) = <<v>>
    BY <1>3 DEF AnswerTo
  <2> HIDE DEF v
  <2>2. AnswerTo(r)[i] = v
    BY <2>1
  <2> QED BY <2>2, <1>1, <1>3
<1>4. CASE r.cmd = "get" /\ Exists(r.name)
  <2>1. AnswerTo(r) = <<a>> \o (IF b = <<>> THEN <<z>> ELSE <<z, d>>)
    BY <1>4 DEF AnswerTo, SentFile
  <2> HIDE DEF v, a, z, d, f, b
  <2>2. AnswerTo(r) \in Seq({a, z, d})
    <3>1. <<a>> \in Seq({a, z, d}) /\ <<z>> \in Seq({a, z, d}) /\ <<z, d>> \in Seq({a, z, d})
      OBVIOUS
    <3> QED BY <2>1, <3>1, Appended
  <2>3. AnswerTo(r)[i] \in {a, z, d}
    BY <2>2
  <2>4. disk[r.name] = b /\ disk[r.name] # NoFile
    BY <1>4 DEF Exists, b
  <2>5. AnswerTo(r)[i].kind # "version"
    BY <2>3, <1>1
  <2>6. AnswerTo(r)[i].kind \in {"size", "data"} => AnswerTo(r)[i].body = b
    BY <2>3, <1>1
  <2> QED BY <2>4, <2>5, <2>6, <1>2, <1>4
<1>5. CASE r.cmd # "version" /\ ~(r.cmd = "get" /\ Exists(r.name))
  <2>1. AnswerTo(r) = <<f>>
    BY <1>5 DEF AnswerTo
  <2> HIDE DEF v, a, z, d, f, b
  <2>2. AnswerTo(r)[i] = f
    BY <2>1
  <2>3. Result(r) = "KErrNone" => r.cmd = "dir" \/ disk[r.name] # NoFile
    BY DEF Result, Exists
  <2>4. AnswerTo(r)[i].kind = "response" /\ AnswerTo(r)[i].val = Result(r)
    BY <2>2, <1>1
  <2> QED BY <2>3, <2>4, <1>2, <1>5
<1> QED BY <1>3, <1>4, <1>5

VersionInv == OnlyCompatibleCommands /\ VersionKnown

LEMMA VersionQuiet == ASSUME IInv, VersionInv, ClientQuiet PROVE VersionInv'
<1>1. UNCHANGED <<c2s, server>> /\ \A c \in Conns : Held(c)' <=> Held(c)
  BY DEF ClientQuiet, Held, server
<1>2. OnlyCompatibleCommands'
  BY <1>1 DEF VersionInv, OnlyCompatibleCommands, server
<1>3. ASSUME cur' # NoConn, link'[cur'] = "up" PROVE VersionKnown'
  <2>1. cur' = cur /\ cur # NoConn /\ cur \in Conns
    BY <1>3 DEF ClientQuiet, StaysOrReads, Reads, IInv, TypeOK, LinkStates
  <2>2. link[cur] = "up"
    BY <2>1, <1>3 DEF ClientQuiet
  <2>3. /\ pc # "version" => srvVersion = ClientVersion
        /\ \A i \in 1 .. Len(s2c[cur]) :
              s2c[cur][i].kind = "version" => s2c[cur][i].val = srvVersion
    BY <2>1, <2>2 DEF VersionInv, VersionKnown
  <2>4. CASE UNCHANGED s2c /\ (pc = "version" <=> pc' = "version")
    BY <2>1, <2>3, <2>4, <1>1 DEF VersionKnown, server
  <2>5. CASE Reads
    <3>1. /\ s2c[cur] \in Seq(ToClient) /\ s2c[cur] # <<>>
          /\ s2c'[cur] = Tail(s2c[cur]) /\ pc' # "version"
      BY <2>1, <2>5 DEF Reads, Take, IInv, TypeOK, LinkStates
    <3>2. /\ Incoming = s2c[cur][1] /\ 1 \in 1 .. Len(s2c[cur])
          /\ \A i \in 1 .. Len(s2c'[cur]) :
                s2c'[cur][i] = s2c[cur][i + 1] /\ i + 1 \in 1 .. Len(s2c[cur])
      BY <3>1, Shifted DEF Incoming
    <3>3. srvVersion = ClientVersion
      BY <2>1, <2>3, <2>5, <3>2 DEF Reads, IInv, RestOfReply
    <3>4. \A i \in 1 .. Len(s2c'[cur]) :
             s2c'[cur][i].kind = "version" => s2c'[cur][i].val = srvVersion
      BY <2>3, <3>2
    <3> QED BY <2>1, <3>3, <3>4, <1>1 DEF VersionKnown, server
  <2> QED BY <2>1, <2>4, <2>5, <1>3, ConstantsAssumption DEF ClientQuiet, StaysOrReads
<1> QED BY <1>2, <1>3 DEF VersionInv, VersionKnown

LEMMA VersionConnects ==
    ASSUME IInv, VersionInv, NEW c \in Conns, ConnectsOn(c)
    PROVE  VersionInv'
<1>1. /\ backlog' = Append(backlog, c) /\ backlog \in Seq(Conns)
      /\ c2s'[c] = Handshake /\ \A d \in Conns \ {c} : c2s'[d] = c2s[d]
      /\ s2c'[c] = <<>> /\ cur' = c /\ pc' = "version"
      /\ UNCHANGED <<serving, srvVersion>>
  BY DEF ConnectsOn, IInv, TypeOK, LinkStates
<1>2. \A d \in Conns \ {c} : Held(d)' => Held(d)
  BY <1>1 DEF Held
<1>3. \A i \in 1 .. Len(Handshake) : Handshake[i].req.cmd = "version"
  <2>1. \A k : Unit(k, Hello).req.cmd = "version"
    BY DEF Unit, Hello, Request
  <2>2. \A i \in 1 .. 2 : i = 1 \/ i = 2
    OBVIOUS
  <2> QED BY <2>1, <2>2 DEF Handshake
<1>4. OnlyCompatibleCommands'
  BY <1>1, <1>2, <1>3 DEF VersionInv, OnlyCompatibleCommands
<1>5. VersionKnown'
  BY <1>1 DEF VersionKnown
<1> QED BY <1>4, <1>5 DEF VersionInv

\* The server takes a unit off its stream, and may answer it.
LEMMA VersionDrop ==
    ASSUME IInv, VersionInv, srvPc # "idle", Arriving # <<>>, Drop,
           UNCHANGED <<client, link, backlog, serving, srvVersion>>,
           \A i \in 1 .. Len(s2c'[cur]) :
              cur # NoConn /\ link[cur] = "up" /\ s2c'[cur][i].kind = "version"
                  => s2c'[cur][i].val = srvVersion
    PROVE  VersionInv'
<1>1. /\ serving \in Conns /\ c2s[serving] \in Seq(ToServer) /\ c2s[serving] # <<>>
      /\ c2s'[serving] = Tail(c2s[serving])
      /\ \A d \in Conns \ {serving} : c2s'[d] = c2s[d]
  BY DropInv DEF Drop, Arriving, IInv, TypeOK, LinkStates
<1>2. \A i \in 1 .. Len(c2s'[serving]) :
         c2s'[serving][i] = c2s[serving][i + 1] /\ i + 1 \in 1 .. Len(c2s[serving])
  BY <1>1, Shifted
<1>3. \A d \in Conns : Held(d)' <=> Held(d)
  BY DEF Held
<1>4. ASSUME NEW d \in Conns, Held(d), NEW i \in 1 .. Len(c2s'[d])
      PROVE  c2s'[d][i].req.cmd = "version" \/ srvVersion = ClientVersion
  <2>1. \A j \in 1 .. Len(c2s[d]) :
           c2s[d][j].req.cmd = "version" \/ srvVersion = ClientVersion
    BY <1>4 DEF VersionInv, OnlyCompatibleCommands
  <2>2. CASE d = serving
    BY <2>1, <2>2, <1>2, <1>4
  <2>3. CASE d # serving
    BY <2>1, <2>3, <1>1, <1>4
  <2> QED BY <2>2, <2>3
<1>5. OnlyCompatibleCommands'
  BY <1>3, <1>4 DEF OnlyCompatibleCommands
<1>6. VersionKnown'
  BY DEF VersionInv, VersionKnown, client
<1> QED BY <1>5, <1>6 DEF VersionInv

LEMMA VersionNext == IInv /\ NewestLast /\ VersionInv /\ [Next]_vars => VersionInv'
<1> SUFFICES ASSUME IInv, NewestLast, VersionInv, [Next]_vars PROVE VersionInv' OBVIOUS
<1>1. CASE ClientQuiet
  BY <1>1, VersionQuiet
<1>2. ASSUME NEW c \in Conns, ConnectsOn(c) PROVE VersionInv'
  BY <1>2, VersionConnects
<1>3. ASSUME NEW r \in ClientRequests, pc = "idle", WriteGoes(r) PROVE VersionInv'
  <2>1. /\ cur \in Conns /\ cur # NoConn /\ link[cur] = "up" /\ pc' # "version"
        /\ UNCHANGED <<cur, link, s2c, server>>
    BY <1>3 DEF WriteGoes, AfterWrite, IInv, TypeOK, LinkStates
  <2>2. srvVersion = ClientVersion
    BY <2>1, <1>3 DEF VersionInv, VersionKnown
  <2> QED BY <2>1, <2>2 DEF VersionInv, VersionKnown, OnlyCompatibleCommands, server
<1>4. CASE Accept
  <2>1. /\ serving = NoConn /\ serving' = backlog[1] /\ 1 \in 1 .. Len(backlog)
        /\ backlog' = Tail(backlog) /\ UNCHANGED <<client, wire, srvVersion>>
        /\ Len(backlog') = Len(backlog) - 1 /\ Len(backlog) \in Nat
        /\ \A i \in 1 .. Len(backlog') : backlog'[i] = backlog[i + 1]
    BY <1>4, Shifted DEF Accept, IInv, TypeOK, LinkStates
  <2>2. \A c \in Conns : Held(c)' => Held(c)
    BY <2>1 DEF Held
  <2> QED BY <2>1, <2>2 DEF VersionInv, VersionKnown, OnlyCompatibleCommands, client, wire
<1>5. CASE ReadSignature \/ ReceiveSize \/ ReceiveData
  <2>1. /\ srvPc # "idle" /\ Arriving # <<>> /\ Drop
        /\ UNCHANGED <<client, link, s2c, backlog, serving, srvVersion>>
    BY <1>5 DEF ReadSignature, ReceiveSize, ReceiveData
  <2> QED BY <2>1, VersionDrop DEF VersionInv, VersionKnown
<1>6. CASE Execute
  <2> DEFINE r == Head(Arriving).req
  <2>1. /\ srvPc = "command" /\ Arriving # <<>> /\ Drop
        /\ UNCHANGED <<client, link, backlog, serving, srvVersion>>
        /\ UNCHANGED s2c \/ Answer(AnswerTo(r))
    BY <1>6 DEF Execute
  <2>2. r \in ClientRequests \cup {Hello}
    BY <2>1, DropInv DEF ToServer
  <2>3. AnswerTo(r) \in Seq(ToClient)
    BY <2>2, AnswerUnits
  <2> HIDE DEF r
  <2>4. ASSUME cur # NoConn, link[cur] = "up", NEW i \in 1 .. Len(s2c'[cur]),
               s2c'[cur][i].kind = "version"
        PROVE  s2c'[cur][i].val = srvVersion
    <3>1. /\ cur \in Conns /\ s2c[cur] \in Seq(ToClient)
          /\ \A j \in 1 .. Len(s2c[cur]) :
                s2c[cur][j].kind = "version" => s2c[cur][j].val = srvVersion
      BY <2>4 DEF VersionInv, VersionKnown, IInv, TypeOK, LinkStates
    <3>2. CASE s2c'[cur] = s2c[cur]
      BY <2>4, <3>1, <3>2
    <3>3. CASE s2c'[cur] = s2c[cur] \o AnswerTo(r)
      <4>1. \/ i \in 1 .. Len(s2c[cur]) /\ s2c'[cur][i] = s2c[cur][i]
            \/ \E j \in 1 .. Len(AnswerTo(r)) : s2c'[cur][i] = AnswerTo(r)[j]
        <5>1. /\ \A k \in 1 .. Len(s2c[cur]) : s2c'[cur][k] = s2c[cur][k]
              /\ \A k \in Len(s2c[cur]) + 1 .. Len(s2c'[cur]) :
                    /\ s2c'[cur][k] = AnswerTo(r)[k - Len(s2c[cur])]
                    /\ k - Len(s2c[cur]) \in 1 .. Len(AnswerTo(r))
          BY <3>1, <3>3, <2>3, Appended
        <5>2. Len(s2c[cur]) \in Nat /\ Len(s2c'[cur]) \in Nat
          BY <3>1, <3>3, <2>3
        <5>3. i \in 1 .. Len(s2c[cur]) \/ i \in Len(s2c[cur]) + 1 .. Len(s2c'[cur])
          BY <5>2, <2>4
        <5> QED BY <5>1, <5>3
      <4> QED BY <4>1, <3>1, <2>2, <2>4, AnswerSays
    <3> QED BY <3>1, <3>2, <3>3, <2>1 DEF Answer, IInv, TypeOK, LinkStates
  <2>5. \A i \in 1 .. Len(s2c'[cur]) :
           cur # NoConn /\ link[cur] = "up" /\ s2c'[cur][i].kind = "version"
               => s2c'[cur][i].val = srvVersion
    BY <2>4
  <2> QED BY <2>1, <2>5, VersionDrop
<1>7. CASE ServerReadFails
  <2>1. /\ serving \in Conns /\ UNCHANGED <<client, c2s, s2c, backlog, srvVersion>>
        /\ link' = [link EXCEPT ![serving] = IF @ = "closed" THEN "free" ELSE @]
        /\ serving' = NoConn
    BY <1>7 DEF ServerReadFails, Released, IInv, TypeOK, LinkStates
  <2>2. \A c \in Conns : link'[c] = "up" => link[c] = "up"
    BY <2>1 DEF IInv, TypeOK, LinkStates
  <2>3. \A c \in Conns : Held(c)' => Held(c)
    BY <2>1, ConstantsAssumption DEF Held
  <2> QED BY <2>1, <2>2, <2>3
        DEF VersionInv, VersionKnown, OnlyCompatibleCommands, client, IInv, TypeOK, LinkStates
<1>8. ASSUME NEW c \in Conns, ConnectionLost(c) PROVE VersionInv'
  <2>1. PICK p \in Prefixes(c2s[c]) : c2s' = [c2s EXCEPT ![c] = p]
    BY <1>8 DEF ConnectionLost
  <2>2. PICK t \in Prefixes(s2c[c]) : s2c' = [s2c EXCEPT ![c] = t]
    BY <1>8 DEF ConnectionLost
  <2>3. /\ link' = [link EXCEPT ![c] = IF @ = "up" THEN "rst"
                                       ELSE IF @ = "left" THEN "spent" ELSE @]
        /\ UNCHANGED <<client, server>>
    BY <1>8 DEF ConnectionLost
  <2>4. /\ link'[c] # "up" /\ \A d \in Conns : link'[d] = "up" => link[d] = "up"
        /\ c2s'[c] = p /\ \A d \in Conns \ {c} : c2s'[d] = c2s[d] /\ s2c'[d] = s2c[d]
        /\ c2s[c] \in Seq(ToServer)
    BY <2>1, <2>2, <2>3 DEF IInv, TypeOK, LinkStates
  <2>5. \A i \in 1 .. Len(p) : p[i] = c2s[c][i] /\ i \in 1 .. Len(c2s[c])
    BY <2>4, CutShort
  <2>6. \A d \in Conns : Held(d)' <=> Held(d)
    BY <2>3 DEF Held, server
  <2>7. OnlyCompatibleCommands'
    BY <2>3, <2>4, <2>5, <2>6 DEF VersionInv, OnlyCompatibleCommands, server
  <2>8. VersionKnown'
    BY <2>3, <2>4 DEF VersionInv, VersionKnown, server, client, IInv, TypeOK, LinkStates
  <2> QED BY <2>7, <2>8 DEF VersionInv
<1>9. CASE ServerRestarts
  <2>1. backlog' = <<>> /\ serving' = NoConn /\ UNCHANGED client
    BY <1>9 DEF ServerRestarts
  <2>2. \A c \in Conns : ~Held(c)'
    BY <2>1, ConstantsAssumption DEF Held
  <2>3. \A c \in Conns : link'[c] # "up"
    <3>1. PICK how \in {"fin", "rst"} :
             link' = [c \in Conns |-> IF ~Held(c) THEN link[c]
                                      ELSE CASE link[c] = "up" -> how
                                             [] link[c] = "closed" -> "free"
                                             [] link[c] = "left" -> "spent"
                                             [] OTHER -> link[c]]
      BY <1>9 DEF ServerRestarts
    <3>2. \A c \in Conns : link[c] = "up" => Held(c)
      BY DEF NewestLast
    <3> QED BY <3>1, <3>2 DEF IInv, TypeOK, LinkStates
  <2> QED BY <2>1, <2>2, <2>3
        DEF VersionInv, VersionKnown, OnlyCompatibleCommands, client, IInv, TypeOK, LinkStates
<1>10. ASSUME NEW r \in ClientRequests, pc = "idle", WriteCut(r) PROVE VersionInv'
  <2>1. /\ cur \in Conns /\ cur # NoConn /\ link[cur] = "up" /\ link'[cur] # "up"
        /\ UNCHANGED <<cur, server>>
    BY <1>10, WriteCutStream
  <2>2. srvVersion = ClientVersion
    BY <2>1, <1>10 DEF VersionInv, VersionKnown
  <2> QED BY <2>1, <2>2 DEF VersionInv, VersionKnown, OnlyCompatibleCommands, server
<1> QED BY <1>1, <1>2, <1>3, <1>4, <1>5, <1>6, <1>7, <1>8, <1>9, <1>10, StepKinds
        DEF ServerAct, Environment

--------------------------------------------------------------------------------
(***************************************************************************)
(* ReplyIsCurrent.                                                         *)
(***************************************************************************)

LEMMA WholePrefix == ASSUME NEW S, NEW s \in Seq(S) PROVE s \in Prefixes(s)
<1>1. Len(s) \in 0 .. Len(s) /\ SubSeq(s, 1, Len(s)) = s
  OBVIOUS
<1> QED BY <1>1 DEF Prefixes

\* What a unit must say of the files d, on its way to a client that asked q.
TellsTruth(u, q, d) ==
    /\ u.kind = "response" /\ u.val = "KErrNone" =>
          /\ q.cmd = "delete" => d[q.name] = NoFile
          /\ q.cmd = "rename" => d[q.to] # NoFile
          /\ q.cmd = "fileinfo" => d[q.name] # NoFile
    /\ u.kind \in {"size", "data"} => u.body = d[q.name]

ReplyComes == cur # NoConn /\ pc # "version" /\ (s2c[cur] # <<>> \/ pc \in {"size", "data"})

LEMMA CurrentMeans ==
    ASSUME ReplyIsCurrent, ReplyComes
    PROVE  /\ backlog = <<>> /\ serving \in {cur, NoConn}
           /\ serving = cur => c2s[cur] = <<>> /\ srvPc = "command"
           /\ pc = "data" => got = disk[req.name]
           /\ \A i \in 1 .. Len(s2c[cur]) : TellsTruth(s2c[cur][i], req, disk)
BY DEF ReplyIsCurrent, ReplyComes, TellsTruth, Agrees

LEMMA StaysCurrent ==
    ASSUME ReplyComes' =>
              /\ backlog' = <<>> /\ serving' \in {cur', NoConn}
              /\ serving' = cur' => c2s'[cur'] = <<>> /\ srvPc' = "command"
              /\ pc' = "data" => got' = disk'[req'.name]
              /\ \A i \in 1 .. Len(s2c'[cur']) : TellsTruth(s2c'[cur'][i], req', disk')
    PROVE  ReplyIsCurrent'
BY DEF ReplyIsCurrent, ReplyComes, TellsTruth, Agrees

\* Nothing that leaves the server alone, and takes nothing but the end of a
\* stream away, makes a reply untrue.
LEMMA CurrentCut ==
    ASSUME IInv, ReplyIsCurrent, UNCHANGED <<cur, pc, req, got>>,
           disk' = disk \/ (serving # NoConn /\ srvPc = "data"),
           backlog' = backlog \/ backlog' = <<>>,
           UNCHANGED <<serving, srvPc>> \/ serving' = NoConn,
           cur # NoConn /\ c2s[cur] = <<>> => c2s'[cur] = <<>>,
           cur # NoConn => s2c'[cur] \in Prefixes(s2c[cur])
    PROVE  ReplyIsCurrent'
<1> SUFFICES ASSUME ReplyComes' PROVE ReplyIsCurrent'
  BY DEF ReplyIsCurrent, ReplyComes
<1>1. /\ cur \in Conns /\ cur # NoConn /\ s2c[cur] \in Seq(ToClient)
      /\ s2c'[cur] \in Prefixes(s2c[cur])
  BY DEF ReplyComes, IInv, TypeOK, LinkStates
<1>2. /\ \A i \in 1 .. Len(s2c'[cur]) : s2c'[cur][i] = s2c[cur][i] /\ i \in 1 .. Len(s2c[cur])
      /\ s2c[cur] = <<>> => s2c'[cur] = <<>>
  BY <1>1, CutShort
<1>3. ReplyComes
  BY <1>2 DEF ReplyComes
<1>4. /\ backlog = <<>> /\ serving \in {cur, NoConn}
      /\ serving = cur => c2s[cur] = <<>> /\ srvPc = "command"
      /\ pc = "data" => got = disk[req.name]
      /\ \A i \in 1 .. Len(s2c[cur]) : TellsTruth(s2c[cur][i], req, disk)
  BY <1>3, CurrentMeans
<1>7. disk' = disk
  BY <1>4
<1>5. \A i \in 1 .. Len(s2c'[cur]) : TellsTruth(s2c'[cur][i], req, disk)
  BY <1>2, <1>4
<1>6. /\ backlog' = <<>> /\ serving' \in {cur, NoConn}
      /\ serving' = cur => c2s'[cur] = <<>> /\ srvPc' = "command"
      /\ pc = "data" => got = disk'[req.name]
  BY <1>1, <1>4, <1>7
<1> QED BY <1>5, <1>6, <1>7, StaysCurrent

LEMMA CurrentQuiet == ASSUME IInv, IInv', ReplyIsCurrent, ClientQuiet PROVE ReplyIsCurrent'
<1> SUFFICES ASSUME ReplyComes' PROVE ReplyIsCurrent'
  BY DEF ReplyIsCurrent, ReplyComes
<1>1. /\ cur' = cur /\ cur \in Conns /\ cur # NoConn /\ s2c[cur] \in Seq(ToClient)
      /\ UNCHANGED <<c2s, server>> /\ pc' # "version" /\ pc' # "idle"
  BY DEF ReplyComes, ClientQuiet, StaysOrReads, Reads, IInv, TypeOK, LinkStates, RestOfReply
<1>2. ASSUME ReplyComes, req' = req,
             pc' = "data" => got' = disk[req.name],
             \A i \in 1 .. Len(s2c'[cur]) :
                \E j \in 1 .. Len(s2c[cur]) : s2c'[cur][i] = s2c[cur][j]
      PROVE  ReplyIsCurrent'
  <2>1. /\ backlog = <<>> /\ serving \in {cur, NoConn}
        /\ serving = cur => c2s[cur] = <<>> /\ srvPc = "command"
        /\ \A i \in 1 .. Len(s2c[cur]) : TellsTruth(s2c[cur][i], req, disk)
    BY <1>2, CurrentMeans
  <2>2. disk' = disk
    BY <1>1 DEF server
  <2>4. \A i \in 1 .. Len(s2c'[cur]) : TellsTruth(s2c'[cur][i], req, disk)
    BY <1>2, <2>1
  <2>5. /\ backlog' = <<>> /\ serving' \in {cur, NoConn}
        /\ serving' = cur => c2s'[cur] = <<>> /\ srvPc' = "command"
    BY <1>1, <2>1 DEF server
  <2>6. pc' = "data" => got' = disk'[req'.name]
    BY <1>2, <2>2
  <2> QED BY <1>1, <1>2, <2>2, <2>4, <2>5, <2>6, StaysCurrent
<1>3. CASE /\ UNCHANGED s2c /\ (pc = "version" <=> pc' = "version")
           /\ (pc' \in {"size", "data"} => UNCHANGED <<pc, req, got>>)
           /\ (pc' = "response" => s2c[cur] = <<>> \/ UNCHANGED <<pc, req>>)
  <2>1. pc' \in {"response", "size", "data"}
    BY <1>1 DEF IInv, TypeOK, LinkStates
  <2>2. ReplyComes /\ req' = req /\ (pc' = "data" => pc = "data" /\ got' = got)
    BY <1>1, <1>3, <2>1 DEF ReplyComes
  <2>3. pc' = "data" => got' = disk[req.name]
    BY <2>2, CurrentMeans
  <2> QED BY <1>2, <1>3, <2>2, <2>3
<1>4. CASE Reads
  <2>1. /\ pc \in {"response", "size"} /\ s2c[cur] # <<>> /\ req' = req
        /\ s2c'[cur] = Tail(s2c[cur])
        /\ pc' = "data" => pc = "size" /\ got' = Incoming.body
    BY <1>1, <1>4 DEF Reads, Take, IInv, TypeOK, LinkStates
  <2>2. ReplyComes
    BY <1>1, <2>1 DEF ReplyComes
  <2>3. /\ Incoming = s2c[cur][1] /\ 1 \in 1 .. Len(s2c[cur])
        /\ \A i \in 1 .. Len(s2c'[cur]) :
              s2c'[cur][i] = s2c[cur][i + 1] /\ i + 1 \in 1 .. Len(s2c[cur])
    BY <1>1, <2>1, Shifted DEF Incoming
  <2>4. pc' = "data" => got' = disk[req.name]
    <3> HAVE pc' = "data"
    <3>1. Incoming.kind = "size"
      BY <1>1, <2>1, <2>3 DEF IInv, RestOfReply
    <3>2. TellsTruth(Incoming, req, disk)
      BY <2>2, <2>3, CurrentMeans
    <3> QED BY <2>1, <3>1, <3>2 DEF TellsTruth
  <2> QED BY <1>2, <2>1, <2>2, <2>3, <2>4
<1> QED BY <1>1, <1>3, <1>4 DEF ClientQuiet, StaysOrReads

\* While a reply is on its way the server has nothing to read.
LEMMA ServerWaits ==
    ASSUME IInv, ReplyIsCurrent, srvPc # "idle", Arriving # <<>>
    PROVE  ~ReplyComes
BY CurrentMeans DEF IInv, LinksInOrder, Arriving, ReplyComes

LEMMA CurrentExecute ==
    ASSUME IInv, IInv', NewestLast, ReplyIsCurrent, Execute
    PROVE  ReplyIsCurrent'
<1> SUFFICES ASSUME ReplyComes' PROVE ReplyIsCurrent'
  BY DEF ReplyIsCurrent, ReplyComes
<1> DEFINE r == Head(Arriving).req
<1>1. /\ srvPc = "command" /\ Arriving # <<>> /\ Drop
      /\ UNCHANGED <<cur, pc, req, got, link, backlog, serving>>
  BY DEF Execute, client
<1>2. ~ReplyComes /\ r \in ClientRequests \cup {Hello} /\ serving \in Conns
      /\ Head(Arriving).kind # "signature"
  BY <1>1, ServerWaits, DropInv DEF ToServer
<1>3. /\ cur \in Conns /\ cur # NoConn /\ pc = "response" /\ req \in ClientRequests
      /\ s2c[cur] = <<>> /\ s2c'[cur] # <<>>
  BY <1>1, <1>2 DEF ReplyComes, IInv, TypeOK, LinkStates, RestOfReply, WaitsForRequest
<1>4. /\ serving = cur /\ link[cur] = "up" /\ s2c'[cur] = s2c[cur] \o AnswerTo(r)
      /\ r.cmd # "send" /\ disk' = DiskAfter(r) /\ srvPc' = srvPc
  BY <1>2, <1>3 DEF Execute, Answer, IInv, TypeOK, LinkStates
<1>5. s2c'[cur] = AnswerTo(r)
  <2>1. AnswerTo(r) \in Seq(ToClient)
    BY <1>2, AnswerUnits
  <2> QED BY <2>1, <1>3, <1>4
<1>6. r = req
  <2>1. 1 \in 1 .. Len(AnswerTo(r)) /\ AnswerTo(r)[1].req = r
    <3>1. AnswerTo(r) \in Seq(ToClient) /\ AnswerTo(r) # <<>>
      BY <1>2, AnswerUnits
    <3> QED BY <3>1, <1>2, AnswerUnits, Shifted
  <2>2. Awaited' = req
    BY <1>1, <1>3 DEF Awaited
  <2> QED BY <2>1, <2>2, <1>1, <1>3, <1>5 DEF IInv, RestOfReply
<1>7. backlog = <<>>
  BY <1>3, <1>4 DEF NewestLast, Held
<1>8. c2s'[cur] = <<>>
  <2>1. /\ c2s[cur] \in Seq(ToServer) /\ c2s[cur] # <<>> /\ c2s'[cur] = Tail(c2s[cur])
        /\ Head(Arriving) = c2s[cur][1]
    BY <1>1, <1>3, <1>4, Shifted DEF Drop, Arriving, IInv, TypeOK, LinkStates
  <2>2. /\ 1 \in 1 .. Len(c2s[cur]) /\ (Tail(c2s[cur]) = <<>> <=> Len(c2s[cur]) = 1)
    BY <2>1, Shifted
  <2>3. Provokes(c2s[cur][1])
    BY <2>1, <1>2, <1>4 DEF Provokes
  <2>4. Len(c2s[cur]) = 1
    BY <2>2, <2>3, <1>3, <1>4 DEF IInv, OneReplyDue
  <2> QED BY <2>1, <2>2, <2>4
<1> HIDE DEF r
<1>9. req.name \in Names /\ (req.cmd = "rename" => req.to \in Names) /\ req.cmd # "version"
      /\ disk \in [Names -> Bodies \cup {NoFile}]
  BY <1>3, SendableRequests DEF IInv, TypeOK, LinkStates
<1>10. ASSUME NEW i \in 1 .. Len(s2c'[cur]) PROVE TellsTruth(s2c'[cur][i], req, disk')
  <2> DEFINE u == AnswerTo(req)[i]
  <2>1. /\ u.kind = "response" /\ u.val = "KErrNone" /\ req.cmd # "dir" => disk[req.name] # NoFile
        /\ u.kind \in {"size", "data"} => req.cmd = "get" /\ u.body = disk[req.name]
    <3>1. i \in 1 .. Len(AnswerTo(req)) /\ req \in ClientRequests \cup {Hello}
      BY <1>3, <1>5, <1>6
    <3> QED BY <3>1, AnswerSays
  <2>2. s2c'[cur][i] = u
    BY <1>5, <1>6
  <2>3. disk' = DiskAfter(req)
    BY <1>4, <1>6
  <2> HIDE DEF u
  <2>4. req.cmd = "delete" => disk'[req.name] = NoFile
    BY <2>3, <1>9 DEF DiskAfter
  <2>5. req.cmd = "rename" /\ disk[req.name] # NoFile => disk'[req.to] # NoFile
    BY <2>3, <1>9 DEF DiskAfter, Exists
  <2>6. req.cmd \in {"get", "fileinfo"} => disk' = disk
    BY <2>3 DEF DiskAfter
  <2> QED BY <2>1, <2>2, <2>4, <2>5, <2>6 DEF TellsTruth
<1> QED BY <1>1, <1>3, <1>4, <1>7, <1>8, <1>10, StaysCurrent

LEMMA CurrentNext == IInv /\ NewestLast /\ ReplyIsCurrent /\ [Next]_vars => ReplyIsCurrent'
<1> SUFFICES ASSUME IInv, NewestLast, ReplyIsCurrent, [Next]_vars PROVE ReplyIsCurrent'
  OBVIOUS
<1>0. IInv'
  BY NextInv
<1>1. CASE ClientQuiet
  BY <1>0, <1>1, CurrentQuiet
<1>2. ASSUME NEW c \in Conns, ConnectsOn(c) PROVE ReplyIsCurrent'
  BY <1>2 DEF ConnectsOn, ReplyIsCurrent
<1>3. ASSUME NEW r \in ClientRequests, pc = "idle", WriteGoes(r) PROVE ReplyIsCurrent'
  <2>1. /\ s2c[cur] = <<>> /\ UNCHANGED <<cur, s2c>> /\ pc' \in {"idle", "response"}
    BY <1>3 DEF WriteGoes, AfterWrite, IInv, RestOfReply
  <2> QED BY <2>1 DEF ReplyIsCurrent
<1>4. CASE Accept
  <2>1. backlog # <<>> /\ UNCHANGED <<client, wire>>
    BY <1>4 DEF Accept
  <2>2. ~ReplyComes
    BY <2>1, CurrentMeans
  <2> QED BY <2>1, <2>2 DEF ReplyIsCurrent, ReplyComes, client, wire
<1>5. CASE ReadSignature \/ ReceiveSize \/ ReceiveData
  <2>1. srvPc # "idle" /\ Arriving # <<>> /\ UNCHANGED <<client, s2c>>
    BY <1>5 DEF ReadSignature, ReceiveSize, ReceiveData
  <2>2. ~ReplyComes
    BY <2>1, ServerWaits
  <2> QED BY <2>1, <2>2 DEF ReplyIsCurrent, ReplyComes, client
<1>6. CASE Execute
  BY <1>0, <1>6, CurrentExecute
<1>7. CASE ServerReadFails
  <2>1. /\ UNCHANGED <<cur, pc, req, got, c2s, s2c, backlog>> /\ serving' = NoConn
        /\ disk' = disk \/ (serving # NoConn /\ srvPc = "data")
    BY <1>7, CutFileIs DEF ServerReadFails, client
  <2>2. cur # NoConn => s2c[cur] \in Prefixes(s2c[cur])
    BY WholePrefix DEF IInv, TypeOK, LinkStates
  <2> QED BY <2>1, <2>2, CurrentCut
<1>8. ASSUME NEW c \in Conns, ConnectionLost(c) PROVE ReplyIsCurrent'
  <2>1. PICK p \in Prefixes(c2s[c]) : c2s' = [c2s EXCEPT ![c] = p]
    BY <1>8 DEF ConnectionLost
  <2>2. PICK t \in Prefixes(s2c[c]) : s2c' = [s2c EXCEPT ![c] = t]
    BY <1>8 DEF ConnectionLost
  <2>3. UNCHANGED <<client, server>>
    BY <1>8 DEF ConnectionLost
  <2>4. cur # NoConn /\ c2s[cur] = <<>> => c2s'[cur] = <<>>
    <3>1. c2s[c] = <<>> => p = <<>>
      BY CutShort DEF IInv, TypeOK, LinkStates
    <3> QED BY <2>1, <3>1 DEF IInv, TypeOK, LinkStates
  <2>5. cur # NoConn => s2c'[cur] \in Prefixes(s2c[cur])
    BY <2>2, WholePrefix DEF IInv, TypeOK, LinkStates
  <2> QED BY <2>3, <2>4, <2>5, CurrentCut DEF client, server
<1>9. CASE ServerRestarts
  <2>1. /\ UNCHANGED <<cur, pc, req, got>> /\ backlog' = <<>> /\ serving' = NoConn
        /\ disk' = disk \/ (serving # NoConn /\ srvPc = "data")
        /\ c2s' = [c \in Conns |-> <<>>]
    BY <1>9, CutFileIs DEF ServerRestarts, client, IInv, LinksInOrder
  <2>2. cur # NoConn => s2c'[cur] \in Prefixes(s2c[cur])
    BY <1>9 DEF ServerRestarts, IInv, TypeOK, LinkStates
  <2>3. cur # NoConn => c2s'[cur] = <<>>
    BY <2>1 DEF IInv, TypeOK, LinkStates
  <2> QED BY <2>1, <2>2, <2>3, CurrentCut
<1>10. ASSUME NEW r \in ClientRequests, pc = "idle", WriteCut(r) PROVE ReplyIsCurrent'
  <2>1. s2c[cur] = <<>> /\ UNCHANGED <<cur, pc, s2c>>
    BY <1>10, WriteCutStream DEF IInv, RestOfReply
  <2> QED BY <2>1, <1>10 DEF ReplyIsCurrent
<1> QED BY <1>1, <1>2, <1>3, <1>4, <1>5, <1>6, <1>7, <1>8, <1>9, <1>10, StepKinds
        DEF ServerAct, Environment

\* A file comes only in the answer to a get.
FileAwaited == pc \in {"size", "data"} => req.cmd = "get"

LEMMA FileAwaitedNext == IInv /\ FileAwaited /\ [Next]_vars => FileAwaited'
<1> SUFFICES ASSUME IInv, FileAwaited, [Next]_vars PROVE FileAwaited' OBVIOUS
<1>1. CASE ClientQuiet
  <2>1. CASE cur' = NoConn
    <3>1. WaitsForRequest'
      BY NextInv DEF IInv
    <3> QED BY <2>1, <3>1 DEF WaitsForRequest, FileAwaited
  <2>2. CASE cur' # NoConn
    BY <1>1, <2>2 DEF ClientQuiet, StaysOrReads, Reads, FileAwaited
  <2> QED BY <2>1, <2>2
<1>2. ASSUME NEW c \in Conns, ConnectsOn(c) PROVE FileAwaited'
  BY <1>2 DEF ConnectsOn, FileAwaited
<1>3. ASSUME NEW r \in ClientRequests, WriteGoes(r) PROVE FileAwaited'
  BY <1>3 DEF WriteGoes, AfterWrite, FileAwaited
<1>4. CASE ServerAct \/ Environment
  BY <1>4 DEF ServerAct, Accept, ReadSignature, Execute, ReceiveSize, ReceiveData,
              ServerReadFails, Environment, ConnectionLost, ServerRestarts, client, FileAwaited
<1>5. ASSUME NEW r \in ClientRequests, WriteCut(r) PROVE FileAwaited'
  BY <1>5 DEF WriteCut, FileAwaited
<1> QED BY <1>1, <1>2, <1>3, <1>4, <1>5, StepKinds

\* What the remaining theorems rest on.
CurrentInv == IInv /\ NewestLast /\ VersionInv /\ ReplyIsCurrent /\ FileAwaited

LEMMA CurrentInit == Init => CurrentInv
BY InitInv, NewestInit, ConstantsAssumption
   DEF Init, CurrentInv, VersionInv, OnlyCompatibleCommands, VersionKnown, Held,
       ReplyIsCurrent, FileAwaited

LEMMA CurrentStep == CurrentInv /\ [Next]_vars => CurrentInv'
BY NextInv, NewestNext, VersionNext, CurrentNext, FileAwaitedNext DEF CurrentInv

LEMMA CurrentInvariance == Spec => []CurrentInv
BY CurrentInit, CurrentStep, PTL DEF Spec

\* Whatever the handshake finds, no command but the version request reaches a
\* server of another version: openRemote() closes the socket in time.
THEOREM OldServersAreSpared == Spec => []OnlyCompatibleCommands
<1>1. CurrentInv => OnlyCompatibleCommands
  BY DEF CurrentInv, VersionInv
<1> QED BY <1>1, CurrentInvariance, PTL

\* A remote call that returns KErrNone tells the truth about the server's files
\* when it returns, whatever was sent, cut off or restarted before it.
THEOREM AnswersAreTrue == Spec => AnswersAreCurrent
<1>1. ASSUME CurrentInv, [Next]_vars,
             pc \in {"response", "data"}, pc' = "idle", out' = "KErrNone"
      PROVE  Agrees(req)
  <2>1. ReadResponse \/ ReadData
    <3>1. ~ServerAct /\ ~Environment /\ ~UNCHANGED vars
      BY <1>1 DEF ServerAct, Accept, ReadSignature, Execute, ReceiveSize, ReceiveData,
                  ServerReadFails, Environment, ConnectionLost, ServerRestarts, client, vars
    <3>2. ~Close /\ ~OpenRemote /\ ~CheckConnection /\ ~Ask
      BY <1>1 DEF Close, CheckConnection, ProbeKeeps, ProbeReopens, OpenRemote, Ask, SendRequest
    <3>3. ~ReadVersion /\ ~ReadSize /\ ~ReadNothing /\ ~ReadFails
      BY <1>1 DEF ReadVersion, ReadSize, ReadNothing, ReadFails, Return
    <3> QED BY <3>1, <3>2, <3>3, <1>1 DEF Next, ClientRead, Receives
  <2>2. /\ cur # NoConn /\ s2c[cur] \in Seq(ToClient) /\ s2c[cur] # <<>>
        /\ ReplyComes /\ ReplyIsCurrent
    BY <1>1, <2>1 DEF ReadResponse, ReadData, CurrentInv, IInv, WaitsForRequest, TypeOK, LinkStates, ReplyComes
  <2>3. CASE ReadData
    <3>1. req.cmd = "get" /\ got = disk[req.name]
      BY <1>1, <2>2, <2>3, CurrentMeans DEF ReadData, CurrentInv, FileAwaited
    <3> QED BY <3>1 DEF Agrees
  <2>4. CASE ReadResponse
    <3>1. Incoming = s2c[cur][1] /\ 1 \in 1 .. Len(s2c[cur])
      BY <2>2, Shifted DEF Incoming
    <3>2. Incoming.kind = "response" /\ Incoming.val = "KErrNone" /\ req.cmd # "get"
      BY <1>1, <2>2, <2>4, <3>1
         DEF ReadResponse, FileFollows, Return, CurrentInv, IInv, RestOfReply
    <3>3. TellsTruth(Incoming, req, disk)
      BY <2>2, <3>1, CurrentMeans
    <3> QED BY <3>2, <3>3 DEF TellsTruth, Agrees
  <2> QED BY <2>1, <2>3, <2>4
<1>2. CurrentInv /\ [Next]_vars =>
        [(pc \in {"response", "data"} /\ pc' = "idle" /\ out' = "KErrNone") => Agrees(req)]_vars
  BY <1>1
<1> QED BY <1>2, CurrentInvariance, PTL DEF Spec, AnswersAreCurrent

\* On a server that can always create the file it is sent, command, size and
\* contents are each read where they belong, whatever was cut off before.
THEOREM ServerKeepsInStep == ASSUME ~CreateMayFail PROVE Spec => []ServerInStep
<1>1. Init => IInv /\ StreamsInOrder
  BY InitInv, StreamsInit
<1>2. (IInv /\ StreamsInOrder) /\ [Next]_vars => (IInv /\ StreamsInOrder)'
  BY NextInv, StreamsNext
<1>3. IInv /\ StreamsInOrder => ServerInStep
  BY KindRead DEF ServerInStep, IInv, LinksInOrder
<1> QED BY <1>1, <1>2, <1>3, PTL DEF Spec


--------------------------------------------------------------------------------
(***************************************************************************)
(* Sequences of bytes.                                                     *)
(***************************************************************************)
LEMMA BodiesAre ==
    ASSUME NEW b
    PROVE  b \in Bodies <=> b \in Seq(Bytes) /\ Len(b) <= MaxSize
<1>1. ASSUME b \in Bodies PROVE b \in Seq(Bytes) /\ Len(b) <= MaxSize
  <2>1. PICK n \in 0 .. MaxSize : b \in [1 .. n -> Bytes]
    BY <1>1, UsageAssumption
  <2>2. n \in Nat /\ n <= MaxSize
    BY <2>1, UsageAssumption
  <2> QED BY <2>1, <2>2
<1>2. ASSUME b \in Seq(Bytes), Len(b) <= MaxSize PROVE b \in Bodies
  <2>1. Len(b) \in 0 .. MaxSize /\ b \in [1 .. Len(b) -> Bytes]
    BY <1>2, UsageAssumption
  <2> QED BY <2>1, UsageAssumption
<1> QED BY <1>1, <1>2

LEMMA ResizedTo ==
    ASSUME NEW b \in Seq(Bytes), NEW n \in Nat
    PROVE  Resized(b, n) \in Seq(Bytes) /\ Len(Resized(b, n)) = n
<1>1. \A i \in 1 .. n : i <= Len(b) => b[i] \in Bytes
  BY DEF Resized
<1>2. Resized(b, n) \in [1 .. n -> Bytes]
  BY <1>1, UsageAssumption DEF Resized
<1> QED BY <1>2

\* Writing s at p: the longer of what was there and what reaches to its end.
LEMMA OverlayIs ==
    ASSUME NEW b \in Seq(Bytes), NEW s \in Seq(Bytes), NEW p \in 0 .. Len(b)
    PROVE  /\ Overlay(b, p, s) \in Seq(Bytes)
           /\ Len(Overlay(b, p, s)) = IF Len(b) <= p + Len(s) THEN p + Len(s) ELSE Len(b)
           /\ p = 0 /\ Len(b) <= Len(s) => Overlay(b, p, s) = s
<1> DEFINE x == SubSeq(b, 1, p)
           y == SubSeq(b, p + Len(s) + 1, Len(b))
<1>1. Len(b) \in Nat /\ Len(s) \in Nat /\ p \in Nat /\ p <= Len(b)
  OBVIOUS
<1>2. x \in Seq(Bytes) /\ Len(x) = p
  BY <1>1
<1>3. /\ y \in Seq(Bytes)
      /\ Len(y) = IF Len(b) <= p + Len(s) THEN 0 ELSE Len(b) - (p + Len(s))
  BY <1>1
<1>4. Overlay(b, p, s) = x \o s \o y
  BY DEF Overlay
<1> HIDE DEF x, y
<1>5. x \o s \in Seq(Bytes) /\ Len(x \o s) = p + Len(s)
  BY <1>2, Appended
<1>6. x \o s \o y \in Seq(Bytes) /\ Len(x \o s \o y) = (p + Len(s)) + Len(y)
  BY <1>3, <1>5, Appended
<1>7. ASSUME p = 0, Len(b) <= Len(s) PROVE x \o s \o y = s
  <2>1. x = <<>> /\ y = <<>>
    BY <1>1, <1>2, <1>3, <1>7, EmptySeq
  <2> QED BY <2>1, ConcatEmptySeq
<1>8. Len(Overlay(b, p, s)) = IF Len(b) <= p + Len(s) THEN p + Len(s) ELSE Len(b)
  <2>1. Len(Overlay(b, p, s)) = (p + Len(s)) + Len(y)
    BY <1>4, <1>6
  <2>2. CASE Len(b) <= p + Len(s)
    <3>1. Len(y) = 0
      BY <2>2, <1>3
    <3> QED BY <2>1, <2>2, <3>1, <1>1
  <2>3. CASE ~(Len(b) <= p + Len(s))
    <3>1. Len(y) = Len(b) - (p + Len(s))
      BY <2>3, <1>3
    <3>2. (p + Len(s)) + (Len(b) - (p + Len(s))) = Len(b)
      BY <1>1
    <3> QED BY <2>1, <2>3, <3>1, <3>2
  <2> QED BY <2>2, <2>3
<1>9. Overlay(b, p, s) \in Seq(Bytes)
  BY <1>4, <1>6
<1>10. p = 0 /\ Len(b) <= Len(s) => Overlay(b, p, s) = s
  BY <1>4, <1>7
<1> QED BY <1>8, <1>9, <1>10

LEMMA BufferOverlay ==
    ASSUME NEW b \in Bodies, NEW s \in Bodies
    PROVE  Overlay(b, 0, s) \in Bodies
<1>1. /\ b \in Seq(Bytes) /\ s \in Seq(Bytes) /\ Len(b) \in Nat /\ Len(s) \in Nat
      /\ Len(b) <= MaxSize /\ Len(s) <= MaxSize
  BY BodiesAre
<1>2. 0 \in 0 .. Len(b)
  BY <1>1
<1>3. Overlay(b, 0, s) \in Seq(Bytes) /\ Len(Overlay(b, 0, s)) <= MaxSize
  <2>1. Overlay(b, 0, s) \in Seq(Bytes)
    BY <1>1, <1>2, OverlayIs
  <2>2. Len(Overlay(b, 0, s)) = IF Len(b) <= 0 + Len(s) THEN 0 + Len(s) ELSE Len(b)
    BY <1>1, <1>2, OverlayIs
  <2> QED BY <2>1, <2>2, <1>1
<1> QED BY <1>3, BodiesAre

--------------------------------------------------------------------------------
(***************************************************************************)
(* Every step of the file is a step of the session, or changes nothing of  *)
(* it but what the last call returned.                                     *)
(***************************************************************************)
OnlyReturns == out' \in Results /\ UNCHANGED <<cur, pc, req, got, wire, server>>

LEMMA ReturnsInv == ASSUME CurrentInv, OnlyReturns PROVE CurrentInv'
<1>1. IInv'
  BY DEF OnlyReturns, CurrentInv, wire, server, IInv, TypeOK, LinkStates, LinksInOrder, NoLeakedLink,
         Held, OneReplyDue, RestOfReply, WaitsForRequest, Awaited
<1>2. ClientQuiet
  BY DEF OnlyReturns, wire, server, ClientQuiet, StaysOrReads
<1>3. NewestLast'
  BY NewestQuiet DEF OnlyReturns, CurrentInv, wire, server
<1>4. VersionInv' /\ ReplyIsCurrent'
  BY <1>1, <1>2, VersionQuiet, CurrentQuiet DEF CurrentInv
<1>5. FileAwaited'
  BY DEF OnlyReturns, CurrentInv, FileAwaited
<1> QED BY <1>1, <1>3, <1>4, <1>5 DEF CurrentInv

LEMMA FileCallIsSession ==
    ASSUME CurrentInv, MembersMatchView, [FNext]_fvars
    PROVE  OnlyReturns \/ [Next]_vars
<1>1. CASE \E n \in Names : CreateFile(n)
  BY <1>1 DEF CreateFile, OnlyReturns, Results
<1>2. ASSUME NEW n \in Names, OpenFile(n) PROVE [Next]_vars
  <2>1. Request("get", n, NoName, <<>>) \in ClientRequests
    BY DEF ClientRequests
  <2> QED BY <1>2, <2>1 DEF OpenFile, Ask, Next
<1>3. CASE OpenAnswered \/ OpenSized \/ OpenLoaded \/ OpenEmpty \/ OpenCut
  BY <1>3 DEF OpenAnswered, OpenSized, OpenLoaded, OpenEmpty, OpenCut, ClientRead, Receives, Next
<1>4. CASE \E n \in 0 .. MaxSize : ReadFile(n) \/ SeekFile(n)
  BY <1>4 DEF ReadFile, SeekFile, OnlyReturns, Results
<1>5. CASE \E s \in Writes : WriteFile(s)
  BY <1>5 DEF WriteFile, OnlyReturns, Results
<1>6. CASE CloseFile
  <2>1. CASE dirty /\ fileBuffer # <<>>
    <3>1. fileName \in Names /\ fileBuffer \in Bodies \ {<<>>}
      BY <2>1 DEF MembersMatchView, FTypeOK
    <3>2. Request("send", fileName, NoName, fileBuffer) \in ClientRequests
      BY <3>1 DEF ClientRequests
    <3> QED BY <1>6, <2>1, <3>2 DEF CloseFile, Ask, Next
  <2>2. CASE ~(dirty /\ fileBuffer # <<>>)
    BY <1>6, <2>2 DEF CloseFile, OnlyReturns, Results
  <2> QED BY <2>1, <2>2
<1>7. CASE Around
  BY <1>7 DEF Around, Next
<1>8. CASE UNCHANGED fvars
  BY <1>8 DEF fvars
<1> QED BY <1>1, <1>2, <1>3, <1>4, <1>5, <1>6, <1>7, <1>8 DEF FNext, FileCall

LEMMA SessionUnderFile ==
    ASSUME CurrentInv, MembersMatchView, [FNext]_fvars
    PROVE  CurrentInv'
BY FileCallIsSession, ReturnsInv, CurrentStep

--------------------------------------------------------------------------------
(***************************************************************************)
(* MembersMatchView.                                                       *)
(***************************************************************************)
LEMMA MembersInit == FInit => MembersMatchView
<1> SUFFICES ASSUME FInit PROVE MembersMatchView OBVIOUS
<1>1. TypeOK
  BY InitInv DEF FInit, IInv
<1>2. <<>> \in Bodies /\ 0 \in 0 .. MaxSize
  BY ConstantsAssumption, UsageAssumption
<1>3. /\ dirty = FALSE /\ fileOffset = 0 /\ fileName = NoName /\ fileBuffer = <<>>
      /\ user = View(NoName, "closed") /\ lastClose = "KErrNone"
  BY DEF FInit, NotOpen
<1>4. user.name = NoName /\ user.how = "closed" /\ Len(fileBuffer) = 0
  BY <1>3 DEF View
<1>5. FTypeOK
  BY <1>1, <1>2, <1>3 DEF FTypeOK, View, Results
<1> QED BY <1>3, <1>4, <1>5 DEF MembersMatchView, IsOpen, Opening

\* What the members and the view are typed as, outside the session.
MembersTyped ==
    /\ dirty \in BOOLEAN
    /\ fileName \in Names \cup {NoName}
    /\ fileBuffer \in Bodies
    /\ fileOffset \in 0 .. MaxSize
    /\ user \in [name : Names \cup {NoName},
                 how : {"closed", "opening", "failed", "opened", "created", "written"}]
    /\ lastClose \in Results

MembersMatch ==
    /\ user.how = "closed" <=> user.name = NoName
    /\ fileOffset <= Len(fileBuffer)
    /\ ~IsOpen => fileOffset = 0
    /\ dirty <=> user.how = "written"
    /\ user.how \in {"created", "written"} => fileName = user.name

AnswerAwaited ==
    Opening => /\ pc \in {"response", "size", "data"}
               /\ req = Request("get", user.name, NoName, <<>>)

LEMMA MembersAre ==
    MembersMatchView <=> TypeOK /\ MembersTyped /\ MembersMatch /\ AnswerAwaited
BY DEF MembersMatchView, FTypeOK, MembersTyped, MembersMatch, AnswerAwaited

LEMMA ViewIs ==
    ASSUME NEW n, NEW h
    PROVE  View(n, h).name = n /\ View(n, h).how = h
BY DEF View

LEMMA ReceivedBody ==
    ASSUME CurrentInv, pc # "idle", s2c[cur] # <<>>, Take, UNCHANGED <<req, c2s, server>>
    PROVE  Incoming.body \in Bodies
BY TakeInv DEF CurrentInv, ToClient

LEMMA CreateMembers ==
    ASSUME MembersMatchView, NEW n \in Names, CreateFile(n)
    PROVE  MembersTyped' /\ MembersMatch' /\ AnswerAwaited'
<1>1. /\ user' = View(n, "created") /\ fileName' = n /\ fileOffset' = 0
      /\ UNCHANGED <<dirty, fileBuffer, lastClose>>
  BY DEF CreateFile, Named
<1>2. user'.name = n /\ user'.how = "created" /\ n # NoName
  BY <1>1, ViewIs, ConstantsAssumption
<1>3. ~dirty
  BY DEF CreateFile, Free, MembersMatchView
<1>4. MembersTyped'
  BY <1>1, UsageAssumption DEF MembersMatchView, FTypeOK, MembersTyped, View
<1>5. Len(fileBuffer) \in Nat
  BY BodiesAre DEF MembersMatchView, FTypeOK
<1> QED BY <1>1, <1>2, <1>3, <1>4, <1>5 DEF MembersMatch, AnswerAwaited, IsOpen, Opening

LEMMA OpenMembers ==
    ASSUME MembersMatchView, NEW n \in Names, OpenFile(n)
    PROVE  MembersTyped' /\ MembersMatch' /\ AnswerAwaited'
<1>1. /\ Free /\ SendRequest(Request("get", n, NoName, <<>>))
      /\ user' = View(n, IF pc' = "idle" THEN "failed" ELSE "opening")
      /\ UNCHANGED <<dirty, fileOffset, fileName, fileBuffer, lastClose>>
  BY DEF OpenFile, file
<1>2. /\ user'.name = n /\ n # NoName
      /\ user'.how = IF pc' = "idle" THEN "failed" ELSE "opening"
  BY <1>1, ViewIs, ConstantsAssumption
<1>3. ~dirty /\ fileOffset = 0
  BY <1>1 DEF Free, MembersMatchView, IsOpen
<1>4. MembersTyped'
  BY <1>1 DEF MembersMatchView, FTypeOK, MembersTyped, View
<1>5. pc' \in {"idle", "response"}
      /\ (pc' = "response" => req' = Request("get", n, NoName, <<>>))
  <2>1. ~Unanswered(Request("get", n, NoName, <<>>))
    BY DEF Unanswered, Request
  <2> QED BY <1>1, <2>1 DEF SendRequest, Refuse, WriteFails, WriteGoes, WriteIsLost,
                           WriteCut, AfterWrite
<1>6. fileOffset <= Len(fileBuffer)
  BY DEF MembersMatchView
<1> QED BY <1>1, <1>2, <1>3, <1>4, <1>5, <1>6 DEF MembersMatch, AnswerAwaited, IsOpen, Opening

\* The answers to open().
LEMMA AnswerMembers ==
    ASSUME CurrentInv, MembersMatchView,
           OpenAnswered \/ OpenSized \/ OpenLoaded \/ OpenEmpty \/ OpenCut
    PROVE  MembersTyped' /\ MembersMatch' /\ AnswerAwaited'
<1>1. /\ Opening /\ user.how = "opening" /\ user.name \in Names /\ ~dirty /\ fileOffset = 0
      /\ user \in [name : Names \cup {NoName},
                   how : {"closed", "opening", "failed", "opened", "created", "written"}]
      /\ fileBuffer \in Bodies /\ got \in Bodies
      /\ pc # "idle" /\ req = Request("get", user.name, NoName, <<>>)
  BY DEF OpenAnswered, OpenSized, OpenLoaded, OpenEmpty, OpenCut, Opening,
         MembersMatchView, FTypeOK, TypeOK, LinkStates, IsOpen
<1>2. /\ UNCHANGED <<dirty, fileName, lastClose>> /\ fileOffset' = 0 /\ req' = req
      /\ \/ user' = user /\ pc' \in {"size", "data"}
         \/ user' = View(user.name, "failed")
         \/ user' = View(user.name, "opened")
  BY <1>1 DEF OpenAnswered, OpenSized, OpenLoaded, OpenEmpty, OpenCut, file,
              ReadResponse, ReadSize, ReadData, ReadNothing, ReadFails, Return
<1>3. fileBuffer' \in Bodies
  <2>1. CASE OpenAnswered \/ OpenEmpty
    BY <1>1, <2>1 DEF OpenAnswered, OpenEmpty, file
  <2>2. CASE OpenSized
    <3>1. Incoming.body \in Bodies
      BY <2>2, <1>1, ReceivedBody DEF OpenSized, ReadSize
    <3>2. /\ fileBuffer' = Resized(fileBuffer, Len(Incoming.body))
          /\ Len(Incoming.body) \in Nat /\ Len(Incoming.body) <= MaxSize
          /\ fileBuffer \in Seq(Bytes)
      BY <2>2, <3>1, <1>1, BodiesAre DEF OpenSized
    <3> QED BY <3>2, ResizedTo, BodiesAre
  <2>3. CASE OpenLoaded
    <3>1. Incoming.body \in Bodies
      BY <2>3, <1>1, ReceivedBody DEF OpenLoaded, ReadData
    <3> QED BY <2>3, <3>1, <1>1, BufferOverlay DEF OpenLoaded
  <2>4. CASE OpenCut
    <3>1. \A p \in Prefixes(got) : p \in Bodies
      <4> TAKE p \in Prefixes(got)
      <4>1. got \in Seq(Bytes) /\ Len(got) <= MaxSize /\ Len(got) \in Nat
        BY <1>1, BodiesAre
      <4>2. p \in Seq(Bytes) /\ Len(p) <= Len(got) /\ Len(p) \in Nat
        BY <4>1, CutShort
      <4>3. Len(p) <= MaxSize
        BY <4>1, <4>2, UsageAssumption
      <4> QED BY <4>2, <4>3, BodiesAre
    <3> QED BY <2>4, <3>1, <1>1, BufferOverlay DEF OpenCut
  <2> QED BY <2>1, <2>2, <2>3, <2>4
<1>4. MembersTyped'
  BY <1>1, <1>2, <1>3, UsageAssumption DEF MembersMatchView, FTypeOK, MembersTyped, View
<1>5. Len(fileBuffer') \in Nat
  BY <1>3, BodiesAre
<1>6. user'.name = user.name /\ user'.how \in {"opening", "failed", "opened"}
      /\ (user'.how = "opening" => pc' \in {"size", "data"})
  BY <1>1, <1>2, ViewIs
<1>7. user.name # NoName
  BY <1>1, ConstantsAssumption
<1> QED BY <1>1, <1>2, <1>4, <1>5, <1>6, <1>7 DEF MembersMatch, AnswerAwaited, IsOpen, Opening

LEMMA UseMembers ==
    ASSUME MembersMatchView,
           \/ \E n \in 0 .. MaxSize : ReadFile(n) \/ SeekFile(n)
           \/ ~EditOpened /\ \E s \in Writes : WriteFile(s)
    PROVE  MembersTyped' /\ MembersMatch' /\ AnswerAwaited'
<1>1. /\ fileBuffer \in Seq(Bytes) /\ Len(fileBuffer) \in Nat /\ Len(fileBuffer) <= MaxSize
      /\ fileOffset \in Nat /\ fileOffset <= Len(fileBuffer) /\ MaxSize \in Nat
  BY BodiesAre, UsageAssumption DEF MembersMatchView, FTypeOK
<1>2. ASSUME NEW n \in 0 .. MaxSize, ReadFile(n) \/ SeekFile(n)
      PROVE  MembersTyped' /\ MembersMatch' /\ AnswerAwaited'
  <2>1. IsOpen /\ UNCHANGED <<pc, req, dirty, fileName, fileBuffer, user, lastClose>>
    BY <1>2 DEF ReadFile, SeekFile
  <2>2. fileOffset' \in Nat /\ fileOffset' <= Len(fileBuffer)
    <3>1. CASE ReadFile(n)
      <4>1. fileOffset' = fileOffset + Taken(n)
        BY <3>1 DEF ReadFile
      <4>2. CASE fileOffset + n < Len(fileBuffer)
        BY <4>1, <4>2, <1>1 DEF Taken
      <4>3. CASE ~(fileOffset + n < Len(fileBuffer))
        <5>1. fileOffset' = fileOffset + (Len(fileBuffer) - fileOffset)
          BY <4>1, <4>3 DEF Taken, Left
        <5> QED BY <5>1, <1>1
      <4> QED BY <4>2, <4>3
    <3>2. CASE SeekFile(n)
      <4>1. fileOffset' = fileOffset \/ (n < Len(fileBuffer) /\ fileOffset' = n)
        BY <3>2 DEF SeekFile
      <4> QED BY <4>1, <1>1
    <3> QED BY <1>2, <3>1, <3>2
  <2>3. fileOffset' \in 0 .. MaxSize
    BY <1>1, <2>2
  <2> QED BY <2>1, <2>2, <2>3 DEF MembersMatchView, FTypeOK, MembersTyped, MembersMatch,
                                  AnswerAwaited, IsOpen, Opening
<1>3. ASSUME ~EditOpened, NEW s \in Writes, WriteFile(s)
      PROVE  MembersTyped' /\ MembersMatch' /\ AnswerAwaited'
  <2>1. /\ user.how \in {"created", "written"} /\ fileOffset + Len(s) <= MaxSize
        /\ fileBuffer' = Overlay(fileBuffer, fileOffset, s)
        /\ fileOffset' = fileOffset + Len(s) /\ dirty' = TRUE
        /\ user' = View(user.name, "written")
        /\ UNCHANGED <<fileName, lastClose>>
    BY <1>3 DEF WriteFile, IsOpen
  <2>2. user'.name = user.name /\ user'.how = "written" /\ user.name # NoName
    BY <2>1, ViewIs DEF MembersMatchView
  <2>3. s \in Seq(Bytes) /\ Len(s) \in Nat
    BY <1>3, UsageAssumption, BodiesAre
  <2>4. fileOffset \in 0 .. Len(fileBuffer)
    BY <1>1
  <2>5. /\ fileBuffer' \in Seq(Bytes)
        /\ Len(fileBuffer') = IF Len(fileBuffer) <= fileOffset + Len(s)
                                 THEN fileOffset + Len(s) ELSE Len(fileBuffer)
    BY <2>1, <2>3, <2>4, <1>1, OverlayIs
  <2>6. Len(fileBuffer') <= MaxSize /\ fileOffset' <= Len(fileBuffer')
    <3>1. fileOffset + Len(s) \in Nat
      BY <2>3, <1>1
    <3> HIDE DEF View
    <3> QED BY <3>1, <2>1, <2>5, <1>1
  <2>7. fileBuffer' \in Bodies /\ fileOffset' \in 0 .. MaxSize
    <3>1. fileBuffer' \in Bodies
      BY <2>5, <2>6, BodiesAre
    <3>2. fileOffset' \in Nat /\ fileOffset' <= MaxSize
      BY <2>1, <2>3, <1>1
    <3> QED BY <3>1, <3>2, <1>1
  <2>8. MembersTyped'
    BY <2>1, <2>7 DEF MembersMatchView, FTypeOK, MembersTyped, View
  <2>9. fileName = user.name
    BY <2>1 DEF MembersMatchView
  <2> QED BY <2>1, <2>2, <2>6, <2>8, <2>9 DEF MembersMatch, AnswerAwaited, IsOpen, Opening
<1> QED BY <1>2, <1>3

LEMMA CloseMembers ==
    ASSUME MembersMatchView, CloseFile, out' \in Results
    PROVE  MembersTyped' /\ MembersMatch' /\ AnswerAwaited'
<1>1. /\ user' = View(NoName, "closed") /\ dirty' = FALSE /\ fileOffset' = 0
      /\ fileBuffer' = <<>> /\ UNCHANGED fileName
  BY DEF CloseFile, Reset, NotOpen
<1>2. lastClose' \in Results
  BY DEF CloseFile, Conclude, MembersMatchView, FTypeOK
<1>3. user'.name = NoName /\ user'.how = "closed"
  BY <1>1, ViewIs
<1>4. <<>> \in Bodies /\ 0 \in 0 .. MaxSize /\ Len(fileBuffer') = 0
  BY <1>1, ConstantsAssumption, UsageAssumption
<1>5. MembersTyped'
  BY <1>1, <1>2, <1>4 DEF MembersMatchView, FTypeOK, MembersTyped, View
<1> QED BY <1>1, <1>3, <1>4, <1>5 DEF MembersMatch, AnswerAwaited, IsOpen, Opening

\* While open() waits for its answer the session does nothing else.
LEMMA AroundOpening ==
    ASSUME MembersMatchView, Opening, Around \/ UNCHANGED fvars
    PROVE  UNCHANGED <<pc, req, got>>
<1>1. pc # "idle"
  BY DEF MembersMatchView
<1>2. ~Close /\ ~OpenRemote /\ ~CheckConnection
  BY <1>1 DEF Close, CheckConnection, ProbeKeeps, ProbeReopens, OpenRemote
<1>3. CASE ServerAct \/ Environment
  BY <1>3 DEF ServerAct, Accept, ReadSignature, Execute, ReceiveSize, ReceiveData,
              ServerReadFails, Environment, ConnectionLost, ServerRestarts, client
<1>4. CASE UNCHANGED fvars
  BY <1>4 DEF fvars, vars, client
<1> QED BY <1>2, <1>3, <1>4 DEF Around

LEMMA AroundMembers ==
    ASSUME MembersMatchView, Around \/ UNCHANGED fvars
    PROVE  MembersTyped' /\ MembersMatch' /\ AnswerAwaited'
<1>1. UNCHANGED <<dirty, fileOffset, fileName, fileBuffer, user, lastClose>>
  BY DEF Around, fvars, file
<1>2. Opening => UNCHANGED <<pc, req>>
  BY AroundOpening
<1> QED BY <1>1, <1>2 DEF MembersMatchView, FTypeOK, MembersTyped, MembersMatch,
                          AnswerAwaited, IsOpen, Opening

LEMMA MembersNext ==
    ASSUME ~EditOpened
    PROVE  CurrentInv /\ MembersMatchView /\ [FNext]_fvars => (CurrentInv /\ MembersMatchView)'
<1> SUFFICES ASSUME CurrentInv, MembersMatchView, [FNext]_fvars
             PROVE  (CurrentInv /\ MembersMatchView)'
  OBVIOUS
<1>1. CurrentInv' /\ TypeOK' /\ out' \in Results
  BY SessionUnderFile DEF CurrentInv, IInv, TypeOK, LinkStates
<1>2. MembersTyped' /\ MembersMatch' /\ AnswerAwaited'
  BY <1>1, CreateMembers, OpenMembers, AnswerMembers, UseMembers, CloseMembers, AroundMembers
     DEF FNext, FileCall
<1> QED BY <1>1, <1>2 DEF MembersMatchView, FTypeOK, MembersTyped, MembersMatch, AnswerAwaited

--------------------------------------------------------------------------------
(***************************************************************************)
(* BufferStartsEmpty, for callers that write something and do not use an   *)
(* object again after a failed open().                                     *)
(***************************************************************************)
LEMMA BufferInit == FInit => BufferStartsEmpty
<1> SUFFICES ASSUME FInit PROVE BufferStartsEmpty OBVIOUS
<1>1. fileBuffer = <<>> /\ user.how = "closed"
  BY ViewIs DEF FInit, NotOpen
<1> QED BY <1>1 DEF BufferStartsEmpty, Opening

LEMMA BufferNext ==
    ASSUME ~EditOpened, ~ReuseFailed, <<>> \notin Writes
    PROVE  CurrentInv /\ MembersMatchView /\ BufferStartsEmpty /\ [FNext]_fvars => BufferStartsEmpty'
<1> SUFFICES ASSUME CurrentInv, MembersMatchView, BufferStartsEmpty, [FNext]_fvars
             PROVE  BufferStartsEmpty'
  OBVIOUS
<1>1. ASSUME NEW n \in Names, CreateFile(n) PROVE BufferStartsEmpty'
  <2>1. user.how = "closed" /\ user' = View(n, "created") /\ UNCHANGED fileBuffer
    BY <1>1 DEF CreateFile, Free
  <2>2. user'.how = "created"
    BY <2>1, ViewIs
  <2> QED BY <2>1, <2>2 DEF BufferStartsEmpty, Opening
<1>2. ASSUME NEW n \in Names, OpenFile(n) PROVE BufferStartsEmpty'
  <2> DEFINE r == Request("get", n, NoName, <<>>)
  <2>1. /\ user.how = "closed" /\ SendRequest(r) /\ UNCHANGED fileBuffer
        /\ user' = View(n, IF pc' = "idle" THEN "failed" ELSE "opening")
    BY <1>2 DEF OpenFile, Free, file
  <2>2. user'.how \in {"failed", "opening"}
    BY <2>1, ViewIs
  <2>3. pc' # "data"
    BY <2>1 DEF SendRequest, Refuse, WriteFails, WriteGoes, WriteIsLost, WriteCut, AfterWrite
  <2> QED BY <2>1, <2>2, <2>3 DEF BufferStartsEmpty, Opening
<1>3. CASE OpenAnswered
  <2>1. /\ Opening /\ pc = "response" /\ UNCHANGED fileBuffer
        /\ \/ pc' = "size" /\ user' = user
           \/ user' = View(user.name, "failed")
    BY <1>3 DEF OpenAnswered, ReadResponse, Return, file
  <2>2. user'.how = "failed" \/ (pc' = "size" /\ user' = user)
    BY <2>1, ViewIs
  <2> QED BY <2>1, <2>2 DEF BufferStartsEmpty, Opening
<1>4. CASE OpenSized
  <2>1. /\ Opening /\ pc = "size" /\ user' = user /\ pc' = "data" /\ got' = Incoming.body
        /\ fileBuffer' = Resized(fileBuffer, Len(Incoming.body))
    BY <1>4 DEF OpenSized, ReadSize
  <2>2. Incoming.body \in Bodies
    BY <1>4, ReceivedBody DEF OpenSized, ReadSize
  <2>3. Len(Incoming.body) \in Nat /\ fileBuffer \in Seq(Bytes)
    BY <2>2, BodiesAre DEF MembersMatchView, FTypeOK
  <2>4. Len(fileBuffer') = Len(got')
    BY <2>1, <2>3, ResizedTo
  <2> QED BY <2>1, <2>4 DEF BufferStartsEmpty, Opening
<1>5. CASE OpenLoaded \/ OpenEmpty \/ OpenCut
  <2>1. user' = View(user.name, "opened") \/ user' = View(user.name, "failed")
    BY <1>5 DEF OpenLoaded, OpenEmpty, OpenCut
  <2>2. user'.how \in {"opened", "failed"}
    BY <2>1, ViewIs
  <2> QED BY <2>2 DEF BufferStartsEmpty, Opening
<1>6. ASSUME NEW n \in 0 .. MaxSize, ReadFile(n) \/ SeekFile(n) PROVE BufferStartsEmpty'
  BY <1>6 DEF ReadFile, SeekFile, BufferStartsEmpty, Opening
<1>7. ASSUME NEW s \in Writes, WriteFile(s) PROVE BufferStartsEmpty'
  <2>1. /\ user' = View(user.name, "written") /\ s # <<>>
        /\ fileBuffer' = Overlay(fileBuffer, fileOffset, s)
    BY <1>7 DEF WriteFile
  <2>2. s \in Seq(Bytes) /\ Len(s) \in Nat /\ Len(s) # 0
    BY <2>1, UsageAssumption, BodiesAre, EmptySeq
  <2>3. /\ fileBuffer \in Seq(Bytes) /\ fileOffset \in Nat /\ Len(fileBuffer) \in Nat
        /\ fileOffset \in 0 .. Len(fileBuffer)
    BY BodiesAre DEF MembersMatchView, FTypeOK
  <2>4. /\ fileBuffer' \in Seq(Bytes)
        /\ Len(fileBuffer') = IF Len(fileBuffer) <= fileOffset + Len(s)
                                 THEN fileOffset + Len(s) ELSE Len(fileBuffer)
    BY <2>1, <2>2, <2>3, OverlayIs
  <2>5. Len(fileBuffer') # 0
    BY <2>2, <2>3, <2>4
  <2>6. fileBuffer' # <<>>
    BY <2>5
  <2>7. user'.how = "written"
    BY <2>1, ViewIs
  <2> QED BY <2>6, <2>7 DEF BufferStartsEmpty, Opening
<1>8. CASE CloseFile
  <2>1. fileBuffer' = <<>> /\ user' = View(NoName, "closed")
    BY <1>8 DEF CloseFile, Reset, NotOpen
  <2>2. user'.how = "closed"
    BY <2>1, ViewIs
  <2> QED BY <2>1, <2>2 DEF BufferStartsEmpty, Opening
<1>9. CASE Around \/ UNCHANGED fvars
  <2>1. UNCHANGED <<fileBuffer, user>>
    BY <1>9 DEF Around, fvars, file
  <2>2. Opening => UNCHANGED <<pc, got>>
    BY <1>9, AroundOpening
  <2> QED BY <2>1, <2>2 DEF BufferStartsEmpty, Opening
<1> QED BY <1>1, <1>2, <1>3, <1>4, <1>5, <1>6, <1>7, <1>8, <1>9 DEF FNext, FileCall

--------------------------------------------------------------------------------
(***************************************************************************)
(* The theorems.                                                           *)
(***************************************************************************)
LEMMA MembersInvariance ==
    ASSUME ~EditOpened
    PROVE  FSpec => [](CurrentInv /\ MembersMatchView)
<1>1. FInit => CurrentInv /\ MembersMatchView
  BY MembersInit, CurrentInit DEF FInit
<1>2. (CurrentInv /\ MembersMatchView) /\ [FNext]_fvars => (CurrentInv /\ MembersMatchView)'
  BY MembersNext
<1> QED BY <1>1, <1>2, PTL DEF FSpec

\* The offset of RRemoteFile is never beyond the end of the buffer of an open
\* file, so that read() subtracts the smaller number from the larger.
THEOREM OffsetStaysInBuffer == ASSUME ~EditOpened PROVE FSpec => []OffsetInBuffer
<1>1. MembersMatchView => OffsetInBuffer
  BY DEF MembersMatchView, OffsetInBuffer
<1> QED BY <1>1, MembersInvariance, PTL

LEMMA Loads ==
    ASSUME CurrentInv, MembersMatchView, BufferStartsEmpty, OpenLoaded
    PROVE  fileBuffer' = disk[user.name] /\ fileBuffer' \in Bodies
<1>1. /\ Opening /\ pc = "data" /\ s2c[cur] # <<>> /\ Take
      /\ UNCHANGED <<req, c2s, server>>
      /\ fileBuffer' = Overlay(fileBuffer, 0, Incoming.body)
  BY DEF OpenLoaded, ReadData
<1>2. /\ cur \in Conns /\ cur # NoConn /\ Incoming.kind = "data" /\ Incoming.body \in Bodies
      /\ s2c[cur] \in Seq(ToClient)
  BY <1>1, TakeInv DEF CurrentInv, IInv, TypeOK, LinkStates, ToClient
<1>3. Incoming = s2c[cur][1] /\ 1 \in 1 .. Len(s2c[cur])
  BY <1>1, <1>2, Shifted DEF Incoming
<1>4. got = disk[req.name] /\ TellsTruth(Incoming, req, disk)
  BY <1>1, <1>2, <1>3, CurrentMeans DEF CurrentInv, ReplyComes
<1>5. Incoming.body = got /\ got = disk[req.name]
  BY <1>2, <1>4 DEF TellsTruth
<1>6. Len(fileBuffer) = Len(got) /\ req.name = user.name
  BY <1>1 DEF BufferStartsEmpty, MembersMatchView, Request
<1>7. /\ fileBuffer \in Seq(Bytes) /\ Incoming.body \in Seq(Bytes)
      /\ 0 \in 0 .. Len(fileBuffer) /\ Len(fileBuffer) <= Len(Incoming.body)
  BY <1>2, <1>5, <1>6, BodiesAre DEF MembersMatchView, FTypeOK
<1>8. fileBuffer' = Incoming.body
  BY <1>1, <1>7, OverlayIs
<1> QED BY <1>2, <1>5, <1>6, <1>8

--------------------------------------------------------------------------------
(***************************************************************************)
(* What the object sends, and what is under way at any moment: the units   *)
(* of one request follow each other, and the server remembers the one it   *)
(* is receiving and no other.                                              *)
(***************************************************************************)
AsSent(s) ==
    \A i \in 1 .. Len(s) :
       /\ s[i].req.cmd \in {"version", "get", "send"}
       /\ s[i].kind = "signature" => s[i].req = Hello
       /\ s[i].kind \in {"size", "data"} /\ i > 1 => s[i - 1].req = s[i].req

PutsInOrder ==
    /\ srvPc \in {"size", "data"} => srvReq \in ClientRequests /\ srvReq.cmd = "send"
    /\ srvPc \notin {"size", "data"} => srvReq = Hello
    /\ \A c \in Conns : AsSent(c2s[c])
    /\ \A c \in Conns : ~Held(c) => c2s[c] = <<>>
    /\ serving # NoConn /\ srvPc \in {"size", "data"} /\ c2s[serving] # <<>>
          => c2s[serving][1].req = srvReq

\* The session, when nothing but the file uses it.
FileInv == CurrentInv /\ StreamsInOrder /\ PutsInOrder

FileSends(r) ==
    /\ pc = "idle" /\ r \in ClientRequests /\ r.cmd \in {"get", "send"}
    /\ WriteGoes(r) \/ WriteCut(r)

LEMMA FileSendKinds ==
    ASSUME CurrentInv, NEW r \in ClientRequests, r.cmd \in {"get", "send"}, SendRequest(r)
    PROVE  UNCHANGED <<c2s, server>> \/ FileSends(r)
BY SendRequestKinds DEF CurrentInv, ClientQuiet, FileSends

LEMMA FileStepKinds ==
    ASSUME CurrentInv, MembersMatchView, [FNext]_fvars
    PROVE  \/ UNCHANGED <<c2s, server>>
           \/ \E c \in Conns : ConnectsOn(c)
           \/ \E r \in ClientRequests : FileSends(r)
           \/ ServerAct \/ Environment
<1>1. CASE \E n \in Names : CreateFile(n)
  BY <1>1 DEF CreateFile, wire
<1>2. ASSUME NEW n \in Names, OpenFile(n)
      PROVE  UNCHANGED <<c2s, server>> \/ \E r \in ClientRequests : FileSends(r)
  <2> DEFINE r == Request("get", n, NoName, <<>>)
  <2>1. r \in ClientRequests
    BY DEF ClientRequests
  <2>2. r.cmd = "get" /\ SendRequest(r)
    BY <1>2 DEF Request, OpenFile
  <2> HIDE DEF r
  <2> QED BY <2>1, <2>2, FileSendKinds
<1>3. CASE OpenAnswered \/ OpenSized \/ OpenLoaded \/ OpenEmpty \/ OpenCut
  <2>1. ClientRead
    BY <1>3 DEF OpenAnswered, OpenSized, OpenLoaded, OpenEmpty, OpenCut, ClientRead, Receives
  <2> QED BY <2>1, ClientReadKinds DEF CurrentInv, ClientQuiet
<1>4. CASE \E n \in 0 .. MaxSize : ReadFile(n) \/ SeekFile(n)
  BY <1>4 DEF ReadFile, SeekFile, wire
<1>5. CASE \E s \in Writes : WriteFile(s)
  BY <1>5 DEF WriteFile, wire
<1>6. CASE CloseFile
  <2>1. CASE dirty /\ fileBuffer # <<>>
    <3> DEFINE r == Request("send", fileName, NoName, fileBuffer)
    <3>1. fileName \in Names /\ fileBuffer \in Bodies \ {<<>>}
      BY <2>1 DEF MembersMatchView, FTypeOK
    <3>2. r \in ClientRequests
      BY <3>1 DEF ClientRequests
    <3>3. r.cmd = "send" /\ SendRequest(r)
      BY <1>6, <2>1 DEF Request, CloseFile
    <3> HIDE DEF r
    <3> QED BY <3>2, <3>3, FileSendKinds
  <2>2. CASE ~(dirty /\ fileBuffer # <<>>)
    BY <1>6, <2>2 DEF CloseFile, wire
  <2> QED BY <2>1, <2>2
<1>7. CASE Around
  <2>1. CASE Close
    BY <2>1 DEF Close
  <2>2. CASE OpenRemote \/ CheckConnection
    BY <2>2, OpenRemoteKinds, CheckConnectionKinds DEF CurrentInv, ClientQuiet
  <2>3. CASE ClientRead
    BY <2>3, ClientReadKinds DEF CurrentInv, ClientQuiet
  <2> QED BY <1>7, <2>1, <2>2, <2>3 DEF Around
<1>8. CASE UNCHANGED fvars
  BY <1>8 DEF fvars, vars, wire
<1> QED BY <1>1, <1>2, <1>3, <1>4, <1>5, <1>6, <1>7, <1>8 DEF FNext, FileCall

\* Streams of one, of what a request is sent as, and of what is left of one.
LEMMA AsSentWire ==
    ASSUME NEW r \in ClientRequests, r.cmd \in {"get", "send"}
    PROVE  AsSent(Wire(r)) /\ Wire(r) # <<>> /\ Wire(r)[1].kind = "command"
           /\ \A i \in 1 .. Len(Wire(r)) : Wire(r)[i].req = r
<1>1. \A k : Unit(k, r).req = r /\ Unit(k, r).kind = k
  BY DEF Unit
<1>2. CASE r.cmd = "send"
  <2> DEFINE u == Unit("command", r)
             z == Unit("size", r)
             d == Unit("data", r)
  <2>1. Wire(r) = <<u, z, d>>
    BY <1>2 DEF Wire
  <2>2. /\ u.kind = "command" /\ z.kind = "size" /\ d.kind = "data"
        /\ u.req = r /\ z.req = r /\ d.req = r
    BY <1>1
  <2> HIDE DEF u, z, d
  <2>3. /\ Len(Wire(r)) = 3 /\ Wire(r)[1] = u /\ Wire(r)[2] = z /\ Wire(r)[3] = d
        /\ Wire(r) # <<>>
    BY <2>1
  <2>4. \A i \in 1 .. 3 : i = 1 \/ (i = 2 /\ i - 1 = 1) \/ (i = 3 /\ i - 1 = 2)
    OBVIOUS
  <2>5. \A i \in 1 .. Len(Wire(r)) :
           /\ Wire(r)[i].req = r /\ Wire(r)[i].kind # "signature"
           /\ i > 1 => Wire(r)[i - 1].req = r
    BY <2>2, <2>3, <2>4
  <2> QED BY <1>2, <2>2, <2>3, <2>5 DEF AsSent
<1>3. CASE r.cmd = "get"
  <2> DEFINE u == Unit("command", r)
  <2>1. Wire(r) = <<u>>
    BY <1>3 DEF Wire
  <2>2. u.kind = "command" /\ u.req = r
    BY <1>1
  <2> HIDE DEF u
  <2>3. Len(Wire(r)) = 1 /\ Wire(r)[1] = u /\ Wire(r) # <<>>
    BY <2>1
  <2>4. \A i \in 1 .. 1 : i = 1
    OBVIOUS
  <2>5. \A i \in 1 .. Len(Wire(r)) : Wire(r)[i].req = r /\ Wire(r)[i].kind = "command"
    BY <2>2, <2>3, <2>4
  <2> QED BY <1>3, <2>2, <2>3, <2>5 DEF AsSent
<1> QED BY <1>2, <1>3

LEMMA AsSentCut ==
    ASSUME NEW s \in Seq(ToServer), NEW p \in Prefixes(s), AsSent(s)
    PROVE  AsSent(p)
<1>1. /\ Len(p) \in 0 .. Len(s) /\ Len(s) \in Nat
      /\ \A i \in 1 .. Len(p) : p[i] = s[i] /\ i \in 1 .. Len(s)
  BY CutShort
<1>2. \A i \in 1 .. Len(p) : i > 1 => i - 1 \in 1 .. Len(p)
  BY <1>1
<1> QED BY <1>1, <1>2 DEF AsSent

LEMMA AsSentTail ==
    ASSUME NEW s \in Seq(ToServer), s # <<>>, AsSent(s)
    PROVE  /\ AsSent(Tail(s))
           /\ Tail(s) # <<>> /\ Tail(s)[1].kind \in {"size", "data"}
                 => Tail(s)[1].req = s[1].req
<1>1. /\ Len(s) \in Nat \ {0} /\ Len(Tail(s)) = Len(s) - 1
      /\ \A i \in 1 .. Len(Tail(s)) : Tail(s)[i] = s[i + 1]
      /\ Tail(s) = <<>> <=> Len(s) = 1
  BY Shifted
<1>2. \A i \in 1 .. Len(Tail(s)) :
         /\ i + 1 \in 1 .. Len(s) /\ i + 1 > 1 /\ (i + 1) - 1 = i
         /\ i > 1 => i - 1 \in 1 .. Len(Tail(s)) /\ (i - 1) + 1 = i
  BY <1>1
<1>3. Tail(s) # <<>> => 1 \in 1 .. Len(Tail(s)) /\ 1 + 1 \in 1 .. Len(s)
  BY <1>1
<1>4. \A i \in 1 .. Len(Tail(s)) : s[i + 1].kind \in {"size", "data"} => s[i].req = s[i + 1].req
  BY <1>2 DEF AsSent
<1>5. AsSent(Tail(s))
  <2> SUFFICES ASSUME NEW i \in 1 .. Len(Tail(s))
               PROVE  /\ Tail(s)[i].req.cmd \in {"version", "get", "send"}
                      /\ Tail(s)[i].kind = "signature" => Tail(s)[i].req = Hello
                      /\ Tail(s)[i].kind \in {"size", "data"} /\ i > 1
                            => Tail(s)[i - 1].req = Tail(s)[i].req
    BY DEF AsSent
  <2>1. Tail(s)[i] = s[i + 1] /\ i + 1 \in 1 .. Len(s)
    BY <1>1, <1>2
  <2>2. i > 1 => Tail(s)[i - 1] = s[i]
    <3> HAVE i > 1
    <3>1. i - 1 \in 1 .. Len(Tail(s)) /\ (i - 1) + 1 = i
      BY <1>2
    <3> QED BY <3>1, <1>1
  <2> QED BY <2>1, <2>2, <1>4 DEF AsSent
<1> QED BY <1>1, <1>3, <1>4, <1>5

LEMMA AsSentJoin ==
    ASSUME NEW s \in Seq(ToServer), NEW t \in Seq(ToServer), AsSent(s), AsSent(t),
           t # <<>>, t[1].kind = "command"
    PROVE  AsSent(s \o t)
<1>1. /\ s \o t \in Seq(ToServer) /\ Len(s \o t) = Len(s) + Len(t)
      /\ \A i \in 1 .. Len(s) : (s \o t)[i] = s[i]
      /\ \A i \in Len(s) + 1 .. Len(s \o t) :
            (s \o t)[i] = t[i - Len(s)] /\ i - Len(s) \in 1 .. Len(t)
  BY Appended
<1>2. Len(s) \in Nat /\ Len(t) \in Nat
  OBVIOUS
<1> SUFFICES ASSUME NEW i \in 1 .. Len(s \o t)
             PROVE  /\ (s \o t)[i].req.cmd \in {"version", "get", "send"}
                    /\ (s \o t)[i].kind = "signature" => (s \o t)[i].req = Hello
                    /\ (s \o t)[i].kind \in {"size", "data"} /\ i > 1
                          => (s \o t)[i - 1].req = (s \o t)[i].req
  BY DEF AsSent
<1>3. CASE i \in 1 .. Len(s)
  <2>1. i > 1 => i - 1 \in 1 .. Len(s)
    BY <1>2, <1>3
  <2> QED BY <1>1, <1>3, <2>1 DEF AsSent
<1>4. CASE i = Len(s) + 1
  <2>1. (s \o t)[i] = t[i - Len(s)] /\ i - Len(s) = 1 /\ 1 \in 1 .. Len(t)
    BY <1>1, <1>2, <1>4
  <2> QED BY <2>1 DEF AsSent
<1>5. CASE i > Len(s) + 1
  <2> DEFINE j == i - Len(s)
  <2>1. /\ i \in Len(s) + 1 .. Len(s \o t) /\ i - 1 \in Len(s) + 1 .. Len(s \o t)
        /\ (i - 1) - Len(s) = j - 1 /\ j > 1
    BY <1>1, <1>2, <1>5
  <2>2. (s \o t)[i] = t[j] /\ (s \o t)[i - 1] = t[j - 1] /\ j \in 1 .. Len(t)
    BY <1>1, <2>1
  <2> HIDE DEF j
  <2> QED BY <2>1, <2>2 DEF AsSent
<1> QED BY <1>1, <1>2, <1>3, <1>4, <1>5

LEMMA PutsInit == Init => PutsInOrder
BY ConstantsAssumption DEF Init, PutsInOrder, AsSent

LEMMA FileSendStream ==
    ASSUME CurrentInv, NEW r \in ClientRequests, FileSends(r)
    PROVE  /\ cur \in Conns /\ link[cur] = "up" /\ c2s[cur] \in Seq(ToServer)
           /\ Wire(r) \in Seq(ToServer) /\ c2s[cur] \o Wire(r) \in Seq(ToServer)
           /\ \E p \in Prefixes(c2s[cur] \o Wire(r)) : c2s' = [c2s EXCEPT ![cur] = p]
           /\ UNCHANGED <<cur, server>>
<1>1. /\ cur \in Conns /\ link[cur] = "up" /\ c2s[cur] \in Seq(ToServer)
      /\ Wire(r) \in Seq(ToServer) /\ UNCHANGED <<cur, server>>
  BY WireUnits DEF FileSends, WriteGoes, WriteCut, AfterWrite, CurrentInv, IInv, TypeOK
<1>2. c2s[cur] \o Wire(r) \in Seq(ToServer)
  BY <1>1
<1>3. CASE WriteGoes(r)
  <2>1. c2s' = [c2s EXCEPT ![cur] = c2s[cur] \o Wire(r)]
    BY <1>3 DEF WriteGoes
  <2> QED BY <1>1, <1>2, <2>1, WholePrefix
<1>4. CASE WriteCut(r)
  BY <1>1, <1>2, <1>4 DEF WriteCut
<1> QED BY <1>1, <1>2, <1>3, <1>4 DEF FileSends

LEMMA PutsSends ==
    ASSUME FileInv, NEW r \in ClientRequests, FileSends(r)
    PROVE  PutsInOrder'
<1> DEFINE s == c2s[cur]
           w == s \o Wire(r)
<1>1. /\ cur \in Conns /\ link[cur] = "up" /\ s \in Seq(ToServer)
      /\ Wire(r) \in Seq(ToServer) /\ w \in Seq(ToServer)
      /\ UNCHANGED <<cur, server>>
  BY FileSendStream DEF FileInv
<1>2. PICK p \in Prefixes(w) : c2s' = [c2s EXCEPT ![cur] = p]
  BY FileSendStream DEF FileInv
<1>3. c2s'[cur] = p /\ \A d \in Conns \ {cur} : c2s'[d] = c2s[d]
  BY <1>1, <1>2 DEF FileInv, CurrentInv, IInv, TypeOK
<1>4. AsSent(s)
  BY <1>1 DEF FileInv, PutsInOrder
<1>5. AsSent(w)
  BY <1>1, <1>4, AsSentWire, AsSentJoin DEF FileSends
<1>6. AsSent(p)
  BY <1>1, <1>2, <1>5, AsSentCut
<1>7. Held(cur)
  BY <1>1 DEF FileInv, CurrentInv, NewestLast
<1>8. s # <<>> /\ p # <<>> => p[1] = s[1]
  <2> HAVE s # <<>> /\ p # <<>>
  <2> HIDE DEF w
  <2>1. /\ p \in Seq(ToServer) /\ \A i \in 1 .. Len(p) : p[i] = w[i]
    BY <1>1, <1>2, CutShort
  <2>2. 1 \in 1 .. Len(p) /\ 1 \in 1 .. Len(s)
    BY <2>1, <1>1, EmptySeq
  <2>3. w[1] = s[1]
    BY <2>2, <1>1, Appended DEF w
  <2> QED BY <2>1, <2>2, <2>3
<1>9. cur = serving /\ srvPc \in {"size", "data"} => s # <<>>
  <2>1. InOrder(c2s[cur], Expected(cur), TRUE)
    BY <1>1, <1>7, StreamsAre DEF FileInv, InOrder
  <2>2. s = <<>> => Expected(cur) = "command"
    BY <2>1 DEF InOrder
  <2> HIDE DEF s
  <2>3. cur = serving => Expected(cur) = srvPc
    BY DEF Expected
  <2> QED BY <2>2, <2>3
<1> HIDE DEF s, w
<1>10. \A d \in Conns : Held(d)' <=> Held(d)
  BY <1>1 DEF Held, server
<1>11. \A d \in Conns : AsSent(c2s'[d])
  BY <1>3, <1>6 DEF FileInv, PutsInOrder
<1>12. \A d \in Conns : ~Held(d)' => c2s'[d] = <<>>
  BY <1>3, <1>7, <1>10 DEF FileInv, PutsInOrder
<1>13. serving # NoConn /\ srvPc \in {"size", "data"} /\ c2s'[serving] # <<>>
          => c2s'[serving][1].req = srvReq
  <2>1. serving # NoConn => serving \in Conns
    BY DEF FileInv, CurrentInv, IInv, TypeOK
  <2>2. CASE serving = cur
    BY <2>2, <1>3, <1>8, <1>9 DEF FileInv, PutsInOrder, s
  <2>3. CASE serving # cur
    BY <2>1, <2>3, <1>3 DEF FileInv, PutsInOrder
  <2> QED BY <2>2, <2>3
<1> QED BY <1>1, <1>11, <1>12, <1>13 DEF FileInv, PutsInOrder, AsSent, server

LEMMA PutsConnects ==
    ASSUME FileInv, NEW c \in Conns, ConnectsOn(c)
    PROVE  PutsInOrder'
<1>1. /\ backlog' = Append(backlog, c) /\ backlog \in Seq(Conns) /\ ~Held(c)
      /\ UNCHANGED <<serving, srvPc, srvReq>>
      /\ c2s'[c] = Handshake /\ \A d \in Conns \ {c} : c2s'[d] = c2s[d]
  BY DEF ConnectsOn, FileInv, CurrentInv, IInv, TypeOK
<1>2. /\ Len(backlog') = Len(backlog) + 1
      /\ \A i \in 1 .. Len(backlog) : backlog'[i] = backlog[i] /\ i \in 1 .. Len(backlog')
      /\ backlog'[Len(backlog')] = c /\ Len(backlog') \in 1 .. Len(backlog')
  BY <1>1
<1>3. Held(c)' /\ \A d \in Conns : Held(d) => Held(d)'
  BY <1>1, <1>2 DEF Held
<1>4. AsSent(Handshake)
  <2> DEFINE u == Unit("signature", Hello)
             v == Unit("command", Hello)
  <2>1. /\ u.kind = "signature" /\ v.kind = "command" /\ u.req = Hello /\ v.req = Hello
        /\ Hello.cmd = "version"
    BY DEF Unit, Hello, Request
  <2>2. Handshake = <<u, v>>
    BY DEF Handshake
  <2> HIDE DEF u, v
  <2>3. Len(Handshake) = 2 /\ Handshake[1] = u /\ Handshake[2] = v
    BY <2>2
  <2>4. \A i \in 1 .. 2 : i = 1 \/ i = 2
    OBVIOUS
  <2>5. \A i \in 1 .. Len(Handshake) :
           Handshake[i].req = Hello /\ Handshake[i].kind \in {"signature", "command"}
    BY <2>1, <2>3, <2>4
  <2> QED BY <2>1, <2>5 DEF AsSent
<1>5. \A d \in Conns : AsSent(c2s'[d])
  BY <1>1, <1>4 DEF FileInv, PutsInOrder
<1>6. \A d \in Conns : ~Held(d)' => c2s'[d] = <<>>
  BY <1>1, <1>3 DEF FileInv, PutsInOrder
<1>7. serving # NoConn => serving \in Conns \ {c}
  BY <1>1 DEF FileInv, CurrentInv, IInv, TypeOK, Held
<1> QED BY <1>1, <1>5, <1>6, <1>7 DEF FileInv, PutsInOrder, AsSent

\* The server has read the unit u, which is in its place.
LEMMA PutsDrop ==
    ASSUME FileInv, StreamsInOrder', srvPc # "idle", Arriving # <<>>, Drop,
           UNCHANGED <<backlog, serving>>,
           srvPc' \in {"size", "data"} =>
              srvReq' \in ClientRequests /\ srvReq'.cmd = "send" /\ srvReq' = Head(Arriving).req,
           srvPc' \notin {"size", "data"} => srvReq' = Hello
    PROVE  PutsInOrder'
<1> DEFINE s == c2s[serving]
<1>1. serving \in Conns /\ s \in Seq(ToServer) /\ s # <<>> /\ Held(serving)
  BY DropInv DEF FileInv, CurrentInv, IInv, TypeOK, Arriving, Held
<1>2. Head(Arriving) = s[1]
  BY <1>1, Shifted DEF Arriving
<1>3. c2s'[serving] = Tail(s) /\ \A d \in Conns \ {serving} : c2s'[d] = c2s[d]
  BY <1>1 DEF Drop, Arriving, FileInv, CurrentInv, IInv, TypeOK
<1>4. AsSent(s)
  BY <1>1 DEF FileInv, PutsInOrder
<1>5. /\ AsSent(Tail(s))
      /\ Tail(s) # <<>> /\ Tail(s)[1].kind \in {"size", "data"} => Tail(s)[1].req = s[1].req
  BY <1>1, <1>4, AsSentTail
<1> HIDE DEF s
<1>6. \A d \in Conns : Held(d)' <=> Held(d)
  BY DEF Held
<1>7. \A d \in Conns : AsSent(c2s'[d])
  BY <1>3, <1>5 DEF FileInv, PutsInOrder
<1>8. \A d \in Conns : ~Held(d)' => c2s'[d] = <<>>
  BY <1>1, <1>3, <1>6 DEF FileInv, PutsInOrder
<1>9. srvPc' \in {"size", "data"} /\ c2s'[serving] # <<>> => c2s'[serving][1].req = srvReq'
  <2> HAVE srvPc' \in {"size", "data"} /\ c2s'[serving] # <<>>
  <2>1. c2s'[serving][1].kind = srvPc'
    BY <1>1, <1>6 DEF StreamsInOrder, Expected
  <2> QED BY <2>1, <1>2, <1>3, <1>5
<1> QED BY <1>7, <1>8, <1>9 DEF PutsInOrder, AsSent

LEMMA SizeIsNext ==
    ASSUME FileInv, srvPc \in {"size", "data"}, Arriving # <<>>
    PROVE  /\ srvReq \in ClientRequests /\ srvReq.cmd = "send" /\ Head(Arriving).req = srvReq
           /\ srvReq.name \in Names /\ srvReq.body \in Bodies /\ srvReq.body # <<>>
           /\ serving \in Conns
<1>1. serving \in Conns /\ serving # NoConn /\ c2s[serving] \in Seq(ToServer)
  BY DEF FileInv, CurrentInv, IInv, TypeOK, LinksInOrder
<1>2. Head(Arriving) = c2s[serving][1]
  BY <1>1, Shifted DEF Arriving
<1>3. srvReq \in ClientRequests /\ srvReq.cmd = "send" /\ Head(Arriving).req = srvReq
  BY <1>1, <1>2 DEF FileInv, PutsInOrder, Arriving
<1>4. srvReq.body \in Bodies /\ srvReq.body # <<>> /\ srvReq.name \in Names
  BY <1>3 DEF ClientRequests, Request
<1> QED BY <1>1, <1>3, <1>4

--------------------------------------------------------------------------------
(***************************************************************************)
(* What the steps of the session do to the files that are under way, and   *)
(* to those on the server.                                                 *)
(***************************************************************************)
InFlight(r) == \E c \in Conns : \E i \in 1 .. Len(c2s[c]) : c2s[c][i].req = r

LEMMA UnderWayIs ==
    /\ \A r : r \in UnderWay <=> r = srvReq \/ InFlight(r)
    /\ \A r : r \in UnderWay' <=> r = srvReq' \/ InFlight(r)'
BY DEF UnderWay, InFlight

Sent(r) == [name |-> r.name, data |-> r.body]

LEMMA DueIs ==
    /\ \A p : p \in Due <=> \E r \in UnderWay : r.cmd = "send" /\ p = Sent(r)
    /\ \A p : p \in Due' <=> \E r \in UnderWay' : r.cmd = "send" /\ p = Sent(r)
BY DEF Due, Sent

\* Nothing new is under way, and nothing that was is not.
LEMMA FewerDue ==
    ASSUME \A r : r.cmd = "send" /\ (r = srvReq' \/ InFlight(r)') => r = srvReq \/ InFlight(r)
    PROVE  Due' \subseteq Due
BY DueIs, UnderWayIs

LEMMA NotFewerDue ==
    ASSUME \A r : r.cmd = "send" /\ (r = srvReq \/ InFlight(r)) => r = srvReq' \/ InFlight(r)'
    PROVE  Due \subseteq Due'
BY DueIs, UnderWayIs

LEMMA FlightChanges ==
    ASSUME c2s \in [Conns -> Seq(ToServer)], NEW c \in Conns, NEW t,
           c2s' = [c2s EXCEPT ![c] = t], NEW r
    PROVE  /\ InFlight(r)' <=> \/ \E i \in 1 .. Len(t) : t[i].req = r
                              \/ \E d \in Conns \ {c} : \E i \in 1 .. Len(c2s[d]) : c2s[d][i].req = r
           /\ InFlight(r) <=> \/ \E i \in 1 .. Len(c2s[c]) : c2s[c][i].req = r
                             \/ \E d \in Conns \ {c} : \E i \in 1 .. Len(c2s[d]) : c2s[d][i].req = r
<1>1. c2s'[c] = t /\ \A d \in Conns \ {c} : c2s'[d] = c2s[d]
  OBVIOUS
<1> QED BY <1>1 DEF InFlight

LEMMA FlightCut ==
    ASSUME CurrentInv, NEW c \in Conns, NEW p \in Prefixes(c2s[c]),
           c2s' = [c2s EXCEPT ![c] = p], NEW r, InFlight(r)'
    PROVE  InFlight(r)
<1>1. c2s \in [Conns -> Seq(ToServer)] /\ c2s[c] \in Seq(ToServer)
  BY DEF CurrentInv, IInv, TypeOK
<1>2. \A i \in 1 .. Len(p) : p[i] = c2s[c][i] /\ i \in 1 .. Len(c2s[c])
  BY <1>1, CutShort
<1>3. (\E i \in 1 .. Len(p) : p[i].req = r) => \E i \in 1 .. Len(c2s[c]) : c2s[c][i].req = r
  BY <1>2
<1>4. /\ InFlight(r)' <=> \/ \E i \in 1 .. Len(p) : p[i].req = r
                          \/ \E d \in Conns \ {c} : \E i \in 1 .. Len(c2s[d]) : c2s[d][i].req = r
      /\ InFlight(r) <=> \/ \E i \in 1 .. Len(c2s[c]) : c2s[c][i].req = r
                         \/ \E d \in Conns \ {c} : \E i \in 1 .. Len(c2s[d]) : c2s[d][i].req = r
  BY <1>1, FlightChanges
<1> QED BY <1>3, <1>4

LEMMA FlightDrops ==
    ASSUME FileInv, srvPc # "idle", Arriving # <<>>, Drop
    PROVE  /\ Head(Arriving).kind = srvPc
           /\ Head(Arriving).req \in ClientRequests \cup {Hello}
           /\ Head(Arriving).req.cmd \in {"version", "get", "send"}
           /\ Head(Arriving).kind = "signature" => Head(Arriving).req = Hello
           /\ \A r : InFlight(r) <=> r = Head(Arriving).req \/ InFlight(r)'
<1> DEFINE s == c2s[serving]
<1>1. /\ serving \in Conns /\ s \in Seq(ToServer) /\ s # <<>>
      /\ c2s \in [Conns -> Seq(ToServer)] /\ c2s' = [c2s EXCEPT ![serving] = Tail(s)]
  BY DropInv DEF FileInv, CurrentInv, IInv, TypeOK, Arriving, Drop
<1>2. /\ Head(Arriving) = s[1] /\ Len(s) \in Nat \ {0} /\ Len(Tail(s)) = Len(s) - 1
      /\ \A i \in 1 .. Len(Tail(s)) : Tail(s)[i] = s[i + 1]
  BY <1>1, Shifted DEF Arriving
<1>3. Head(Arriving).kind = srvPc /\ Head(Arriving) \in ToServer
  BY KindRead, DropInv DEF FileInv, CurrentInv
<1>4. AsSent(s)
  BY <1>1 DEF FileInv, PutsInOrder
<1>5. /\ Head(Arriving).req.cmd \in {"version", "get", "send"}
      /\ Head(Arriving).kind = "signature" => Head(Arriving).req = Hello
  BY <1>2, <1>4 DEF AsSent
<1>6. ASSUME NEW r
      PROVE  (\E i \in 1 .. Len(s) : s[i].req = r)
                <=> r = s[1].req \/ \E i \in 1 .. Len(Tail(s)) : Tail(s)[i].req = r
  <2>1. ASSUME NEW i \in 1 .. Len(s), s[i].req = r, i # 1
        PROVE  \E j \in 1 .. Len(Tail(s)) : Tail(s)[j].req = r
    <3>1. i - 1 \in 1 .. Len(Tail(s)) /\ (i - 1) + 1 = i
      BY <1>2, <2>1
    <3>2. Tail(s)[i - 1] = s[i]
      BY <3>1, <1>2
    <3> QED BY <2>1, <3>1, <3>2
  <2>2. ASSUME NEW i \in 1 .. Len(Tail(s)), Tail(s)[i].req = r
        PROVE  \E j \in 1 .. Len(s) : s[j].req = r
    <3>1. i + 1 \in 1 .. Len(s) /\ Tail(s)[i] = s[i + 1]
      BY <1>2, <2>2
    <3> QED BY <2>2, <3>1
  <2>3. 1 \in 1 .. Len(s)
    BY <1>2
  <2> QED BY <2>1, <2>2, <2>3
<1> HIDE DEF s
<1>7. ASSUME NEW r PROVE InFlight(r) <=> r = Head(Arriving).req \/ InFlight(r)'
  <2>1. /\ InFlight(r)' <=> \/ \E i \in 1 .. Len(Tail(s)) : Tail(s)[i].req = r
                            \/ \E d \in Conns \ {serving} : \E i \in 1 .. Len(c2s[d]) : c2s[d][i].req = r
        /\ InFlight(r) <=> \/ \E i \in 1 .. Len(s) : s[i].req = r
                           \/ \E d \in Conns \ {serving} : \E i \in 1 .. Len(c2s[d]) : c2s[d][i].req = r
    BY <1>1, FlightChanges DEF s
  <2> QED BY <2>1, <1>2, <1>6
<1> QED BY <1>3, <1>5, <1>7 DEF ToServer

\* What arrives does so in one of the ways of the contract.
Delivers ==
    \/ Contract!GoAstray
    \/ \E p \in Due : Contract!Arrive(p) \/ Contract!ArriveInPart(p)

ArriveOrBreak == \A p \in Due \ Due' : disk'[p.name] = p.data \/ Breaks

\* The file the server was receiving has been cut short.
LEMMA CutDelivers ==
    ASSUME FileInv, CutFile, Due' \subseteq Due
    PROVE  Delivers
<1>1. CASE srvPc # "data"
  BY <1>1, CutFileIs DEF FileInv, CurrentInv, Delivers, Contract!GoAstray
<1>2. CASE srvPc = "data"
  <2>1. srvReq \in ClientRequests /\ srvReq.cmd = "send"
    BY <1>2 DEF FileInv, PutsInOrder
  <2>2. srvReq.body \in Bodies
    BY <2>1 DEF ClientRequests, Request
  <2>3. srvReq.body \in Seq(Bytes) /\ Len(srvReq.body) \in Nat
    BY <2>2, BodiesAre
  <2>4. PICK b \in Prefixes(srvReq.body) \ {srvReq.body} : disk' = [disk EXCEPT ![srvReq.name] = b]
    BY <1>2 DEF CutFile
  <2>5. PICK n \in 0 .. Len(srvReq.body) : b = SubSeq(srvReq.body, 1, n)
    BY <2>4 DEF Prefixes
  <2>6. n # Len(srvReq.body)
    <3>1. SubSeq(srvReq.body, 1, Len(srvReq.body)) = srvReq.body
      BY <2>3
    <3> QED BY <2>4, <2>5, <3>1
  <2>7. n \in 0 .. Len(srvReq.body) - 1
    BY <2>3, <2>5, <2>6
  <2>8. Sent(srvReq) \in Due
    BY <2>1, DueIs, UnderWayIs
  <2>9. Sent(srvReq).name = srvReq.name /\ Sent(srvReq).data = srvReq.body
    BY DEF Sent
  <2>10. Contract!ArriveInPart(Sent(srvReq))
    BY <2>4, <2>5, <2>7, <2>9 DEF Contract!ArriveInPart
  <2> QED BY <2>8, <2>10 DEF Delivers
<1> QED BY <1>1, <1>2

\* What the server does is a delivery, and takes nothing off the way but what has
\* arrived, unless it gives a connection up.
LEMMA ServerDelivers ==
    ASSUME ~CreateMayFail, FileInv, StreamsInOrder', ServerAct
    PROVE  PutsInOrder' /\ Delivers /\ ArriveOrBreak
<1>1. CASE Accept
  <2>1. /\ serving = NoConn /\ serving' = backlog[1] /\ 1 \in 1 .. Len(backlog)
        /\ srvPc' = "signature" /\ srvPc = "idle" /\ UNCHANGED <<c2s, srvReq, disk>>
    BY <1>1, Shifted DEF Accept, wire, FileInv, CurrentInv, IInv, TypeOK, LinksInOrder
  <2>2. \A c \in Conns : Held(c) => Held(c)'
    <3>1. /\ backlog' = Tail(backlog) /\ Len(backlog') = Len(backlog) - 1
          /\ \A i \in 1 .. Len(backlog') : backlog'[i] = backlog[i + 1]
          /\ Len(backlog) \in Nat
      BY <1>1, Shifted DEF Accept, FileInv, CurrentInv, IInv, TypeOK
    <3>2. \A i \in 1 .. Len(backlog) : i # 1 => i - 1 \in 1 .. Len(backlog') /\ (i - 1) + 1 = i
      BY <3>1
    <3>3. \A i \in 1 .. Len(backlog) : i # 1 => backlog'[i - 1] = backlog[i]
      BY <3>1, <3>2
    <3>4. \A c \in Conns : c # serving
      BY <2>1, ConstantsAssumption
    <3> QED BY <2>1, <3>2, <3>3, <3>4 DEF Held
  <2>3. PutsInOrder'
    BY <2>1, <2>2 DEF FileInv, PutsInOrder, AsSent
  <2>4. Due' = Due
    BY <2>1 DEF Due, UnderWay
  <2> QED BY <2>1, <2>3, <2>4 DEF Delivers, ArriveOrBreak, Contract!GoAstray
<1>2. CASE ReadSignature
  <2>1. /\ srvPc = "signature" /\ Arriving # <<>> /\ Drop /\ srvPc' = "command"
        /\ UNCHANGED <<backlog, serving, srvReq, disk>>
    BY <1>2 DEF ReadSignature
  <2>2. srvReq = Hello
    BY <2>1 DEF FileInv, PutsInOrder
  <2>3. PutsInOrder'
    BY <2>1, <2>2, PutsDrop
  <2>4. Head(Arriving).req.cmd # "send"
    BY <2>1, FlightDrops DEF Hello, Request
  <2>5. \A r : r.cmd = "send" => (InFlight(r) <=> InFlight(r)')
    BY <2>1, <2>4, FlightDrops
  <2>6. Due' \subseteq Due /\ Due \subseteq Due'
    BY <2>1, <2>5, FewerDue, NotFewerDue
  <2> QED BY <2>1, <2>3, <2>6 DEF Delivers, ArriveOrBreak, Contract!GoAstray
<1>3. CASE Execute
  <2> DEFINE r == Head(Arriving).req
  <2>1. /\ srvPc = "command" /\ Arriving # <<>> /\ Drop
        /\ UNCHANGED <<backlog, serving>>
    BY <1>3 DEF Execute
  <2>2. /\ r \in ClientRequests \cup {Hello} /\ r.cmd \in {"version", "get", "send"}
        /\ \A q : InFlight(q) <=> q = r \/ InFlight(q)'
    BY <2>1, FlightDrops
  <2>3. srvReq = Hello /\ Hello.cmd = "version"
    BY <2>1 DEF FileInv, PutsInOrder, Hello, Request
  <2>4. CASE r.cmd = "send"
    <3>1. srvPc' = "size" /\ srvReq' = r /\ disk' = disk
      BY <1>3, <2>4 DEF Execute
    <3>2. r \in ClientRequests
      BY <2>2, <2>4, SendableRequests
    <3>3. PutsInOrder'
      BY <2>1, <2>4, <3>1, <3>2, PutsDrop
    <3> HIDE DEF r
    <3>4. Due' \subseteq Due
      BY <2>2, <3>1, FewerDue
    <3>5. Due \subseteq Due'
      BY <2>2, <2>3, <3>1, NotFewerDue
    <3> QED BY <3>1, <3>3, <3>4, <3>5 DEF Delivers, ArriveOrBreak, Contract!GoAstray
  <2>5. CASE r.cmd # "send"
    <3>1. srvPc' = "command" /\ srvReq' = Hello /\ disk' = DiskAfter(r)
      BY <1>3, <2>1, <2>3, <2>5 DEF Execute
    <3>2. disk' = disk
      BY <2>2, <3>1 DEF DiskAfter
    <3>3. PutsInOrder'
      BY <2>1, <3>1, PutsDrop
    <3> HIDE DEF r
    <3>4. \A q : q.cmd = "send" => (InFlight(q) <=> InFlight(q)')
      BY <2>2, <2>5
    <3>5. Due' \subseteq Due /\ Due \subseteq Due'
      BY <2>3, <3>1, <3>4, FewerDue, NotFewerDue
    <3> QED BY <3>2, <3>3, <3>5 DEF Delivers, ArriveOrBreak, Contract!GoAstray
  <2> QED BY <2>4, <2>5
<1>4. CASE ReceiveSize
  <2>1. srvPc = "size" /\ Arriving # <<>> /\ Drop /\ UNCHANGED <<backlog, serving>>
    BY <1>4 DEF ReceiveSize
  <2>2. /\ srvReq \in ClientRequests /\ srvReq.cmd = "send" /\ Head(Arriving).req = srvReq
        /\ srvReq.name \in Names /\ srvReq.body \in Bodies /\ srvReq.body # <<>>
    BY <2>1, SizeIsNext
  <2>3. /\ disk' = [disk EXCEPT ![srvReq.name] = <<>>]
        /\ srvPc' = "data" /\ srvReq' = srvReq
    BY <1>4, <2>2, ConstantsAssumption DEF ReceiveSize, Creates
  <2>4. PutsInOrder'
    BY <2>1, <2>2, <2>3, PutsDrop
  <2>5. \A q : InFlight(q) <=> q = srvReq \/ InFlight(q)'
    BY <2>1, <2>2, FlightDrops
  <2>6. Due' \subseteq Due /\ Due \subseteq Due'
    BY <2>3, <2>5, FewerDue, NotFewerDue
  <2>7. Sent(srvReq) \in Due /\ Sent(srvReq).name = srvReq.name /\ Sent(srvReq).data = srvReq.body
    BY <2>2, DueIs, UnderWayIs DEF Sent
  <2>8. /\ srvReq.body \in Seq(Bytes) /\ 0 \in 0 .. Len(srvReq.body) - 1
        /\ SubSeq(srvReq.body, 1, 0) = <<>>
    <3>1. srvReq.body \in Seq(Bytes) /\ Len(srvReq.body) \in Nat
      BY <2>2, BodiesAre
    <3>2. Len(srvReq.body) # 0
      BY <3>1, <2>2, EmptySeq
    <3>3. 0 <= Len(srvReq.body) - 1
      BY <3>1, <3>2
    <3> QED BY <3>1, <3>3
  <2>9. Contract!ArriveInPart(Sent(srvReq))
    BY <2>3, <2>6, <2>7, <2>8 DEF Contract!ArriveInPart
  <2> QED BY <2>4, <2>6, <2>7, <2>9 DEF Delivers, ArriveOrBreak
<1>5. CASE ReceiveData
  <2>1. srvPc = "data" /\ Arriving # <<>> /\ Drop /\ UNCHANGED <<backlog, serving>>
    BY <1>5 DEF ReceiveData
  <2>2. /\ srvReq \in ClientRequests /\ srvReq.cmd = "send" /\ Head(Arriving).req = srvReq
        /\ srvReq.name \in Names
    BY <2>1, SizeIsNext
  <2>3. /\ disk' = [disk EXCEPT ![srvReq.name] = srvReq.body]
        /\ srvPc' = "command" /\ srvReq' = Hello /\ Hello.cmd = "version"
    BY <1>5, <2>2 DEF ReceiveData, Hello, Request
  <2>4. PutsInOrder'
    BY <2>1, <2>3, PutsDrop
  <2>5. \A q : InFlight(q) <=> q = srvReq \/ InFlight(q)'
    BY <2>1, <2>2, FlightDrops
  <2> DEFINE p == Sent(srvReq)
  <2>6. p \in Due /\ p.name = srvReq.name /\ p.data = srvReq.body
    BY <2>2, DueIs, UnderWayIs DEF Sent
  <2>7. Due' \subseteq Due
    BY <2>3, <2>5, FewerDue
  <2>8. \A q \in Due : q = p \/ q \in Due'
    <3> TAKE q \in Due
    <3>1. PICK r : r \in UnderWay /\ r.cmd = "send" /\ q = Sent(r)
      BY DueIs
    <3>2. r = srvReq \/ InFlight(r)'
      BY <2>5, <3>1, UnderWayIs
    <3> QED BY <3>1, <3>2, DueIs, UnderWayIs
  <2> HIDE DEF p
  <2>9. Due' \in {Due, Due \ {p}}
    BY <2>7, <2>8
  <2>10. Contract!Arrive(p)
    BY <2>3, <2>6, <2>9 DEF Contract!Arrive
  <2>11. disk'[p.name] = p.data
    BY <2>2, <2>3, <2>6 DEF FileInv, CurrentInv, IInv, TypeOK
  <2> QED BY <2>4, <2>6, <2>8, <2>10, <2>11 DEF Delivers, ArriveOrBreak
<1>6. CASE ServerReadFails
  <2>1. /\ serving # NoConn /\ serving \in Conns /\ c2s[serving] = <<>> /\ CutFile
        /\ serving' = NoConn /\ srvPc' = "idle" /\ srvReq' = Hello
        /\ UNCHANGED <<c2s, backlog>> /\ Hello.cmd = "version"
    BY <1>6 DEF ServerReadFails, Arriving, Hello, Request, FileInv, CurrentInv, IInv, TypeOK
  <2>2. \A c \in Conns : Held(c) => Held(c)' \/ c = serving
    BY <2>1 DEF Held
  <2>3. PutsInOrder'
    BY <2>1, <2>2 DEF FileInv, PutsInOrder, AsSent
  <2>4. \A r : InFlight(r)' <=> InFlight(r)
    BY <2>1 DEF InFlight
  <2>5. Due' \subseteq Due
    BY <2>1, <2>4, FewerDue
  <2> QED BY <1>6, <2>1, <2>3, <2>5, CutDelivers DEF ArriveOrBreak, Breaks
<1> QED BY <1>1, <1>2, <1>3, <1>4, <1>5, <1>6 DEF ServerAct

LEMMA EnvironmentDelivers ==
    ASSUME FileInv, Environment
    PROVE  PutsInOrder' /\ Delivers /\ ArriveOrBreak
<1>1. ASSUME NEW c \in Conns, ConnectionLost(c) PROVE PutsInOrder' /\ Delivers
  <2>1. PICK p \in Prefixes(c2s[c]) : c2s' = [c2s EXCEPT ![c] = p]
    BY <1>1 DEF ConnectionLost
  <2>2. UNCHANGED server /\ c2s[c] \in Seq(ToServer) /\ AsSent(c2s[c])
    BY <1>1 DEF ConnectionLost, FileInv, CurrentInv, IInv, TypeOK, PutsInOrder
  <2>3. c2s'[c] = p /\ \A d \in Conns \ {c} : c2s'[d] = c2s[d]
    BY <2>1 DEF FileInv, CurrentInv, IInv, TypeOK
  <2>4. \A d \in Conns : Held(d)' <=> Held(d)
    BY <2>2 DEF Held, server
  <2>5. AsSent(p)
    BY <2>1, <2>2, AsSentCut
  <2>6. (c2s[c] = <<>> => p = <<>>) /\ (p # <<>> => p[1] = c2s[c][1])
    <3>1. /\ p \in Seq(ToServer) /\ \A i \in 1 .. Len(p) : p[i] = c2s[c][i]
          /\ c2s[c] = <<>> => p = <<>>
      BY <2>1, <2>2, CutShort
    <3>2. p # <<>> => 1 \in 1 .. Len(p)
      BY <3>1, EmptySeq
    <3> QED BY <3>1, <3>2
  <2>7. \A d \in Conns : AsSent(c2s'[d])
    BY <2>3, <2>5 DEF FileInv, PutsInOrder
  <2>8. \A d \in Conns : ~Held(d)' => c2s'[d] = <<>>
    BY <2>3, <2>4, <2>6 DEF FileInv, PutsInOrder
  <2>9. serving # NoConn /\ srvPc \in {"size", "data"} /\ c2s'[serving] # <<>>
          => c2s'[serving][1].req = srvReq
    <3>1. serving # NoConn => serving \in Conns
      BY DEF FileInv, CurrentInv, IInv, TypeOK
    <3> QED BY <2>3, <2>6, <3>1 DEF FileInv, PutsInOrder
  <2>10. PutsInOrder'
    BY <2>2, <2>7, <2>8, <2>9 DEF FileInv, PutsInOrder, AsSent, server
  <2>11. \A r : InFlight(r)' => InFlight(r)
    BY <2>1, FlightCut DEF FileInv
  <2>12. Due' \subseteq Due
    BY <2>2, <2>11, FewerDue DEF server
  <2> QED BY <2>2, <2>10, <2>12 DEF Delivers, Contract!GoAstray, server
<1>2. ASSUME ServerRestarts PROVE PutsInOrder' /\ Delivers
  <2>1. /\ c2s' = [c \in Conns |-> <<>>] /\ backlog' = <<>> /\ serving' = NoConn
        /\ srvPc' = "idle" /\ srvReq' = Hello /\ CutFile /\ Hello.cmd = "version"
    BY <1>2 DEF ServerRestarts, Hello, Request
  <2>2. PutsInOrder'
    BY <2>1, EmptySeq DEF PutsInOrder, AsSent
  <2>3. \A r : ~InFlight(r)'
    BY <2>1, EmptySeq DEF InFlight
  <2>4. Due' \subseteq Due
    BY <2>1, <2>3, FewerDue
  <2> QED BY <2>1, <2>2, <2>4, CutDelivers
<1>3. ArriveOrBreak
  BY DEF ArriveOrBreak, Breaks
<1> QED BY <1>1, <1>2, <1>3 DEF Environment

\* Until a connection is opened on it, an unused stream is empty.
LEMMA ConnectsDue ==
    ASSUME FileInv, NEW c \in Conns, ConnectsOn(c)
    PROVE  Due' = Due /\ disk' = disk
<1>1. /\ c2s \in [Conns -> Seq(ToServer)] /\ c2s' = [c2s EXCEPT ![c] = Handshake]
      /\ srvReq' = srvReq /\ disk' = disk /\ c2s[c] = <<>>
  BY DEF ConnectsOn, FileInv, CurrentInv, IInv, TypeOK, PutsInOrder
<1>2. \A i \in 1 .. Len(Handshake) : Handshake[i].req.cmd # "send"
  <2>1. Handshake = <<Unit("signature", Hello), Unit("command", Hello)>>
    BY DEF Handshake
  <2>2. Unit("signature", Hello).req.cmd # "send" /\ Unit("command", Hello).req.cmd # "send"
    BY DEF Unit, Hello, Request
  <2> HIDE DEF Unit
  <2>3. \A i \in 1 .. 2 : i = 1 \/ i = 2
    OBVIOUS
  <2> QED BY <2>1, <2>2, <2>3
<1>3. \A r : r.cmd = "send" => (InFlight(r) <=> InFlight(r)')
  <2> SUFFICES ASSUME NEW r, r.cmd = "send" PROVE InFlight(r) <=> InFlight(r)'
    OBVIOUS
  <2>1. ~(\E i \in 1 .. Len(c2s[c]) : c2s[c][i].req = r)
    BY <1>1, EmptySeq
  <2>2. ~(\E i \in 1 .. Len(Handshake) : Handshake[i].req = r)
    BY <1>2
  <2>3. /\ InFlight(r)' <=> \/ \E i \in 1 .. Len(Handshake) : Handshake[i].req = r
                            \/ \E d \in Conns \ {c} : \E i \in 1 .. Len(c2s[d]) : c2s[d][i].req = r
        /\ InFlight(r) <=> \/ \E i \in 1 .. Len(c2s[c]) : c2s[c][i].req = r
                           \/ \E d \in Conns \ {c} : \E i \in 1 .. Len(c2s[d]) : c2s[d][i].req = r
    BY <1>1, FlightChanges
  <2> QED BY <2>1, <2>2, <2>3
<1>4. Due' \subseteq Due /\ Due \subseteq Due'
  BY <1>1, <1>3, FewerDue, NotFewerDue
<1> QED BY <1>1, <1>4

\* A request that was written, in part or as a whole.
LEMMA SendsDue ==
    ASSUME FileInv, NEW r \in ClientRequests, FileSends(r)
    PROVE  /\ disk' = disk
           /\ \A p \in Due' : p \in Due \/ (r.cmd = "send" /\ p = Sent(r))
           /\ WriteGoes(r) => Due \subseteq Due' /\ (r.cmd = "send" => Sent(r) \in Due')
           /\ WriteCut(r) => Breaks
<1> DEFINE s == c2s[cur]
           w == s \o Wire(r)
<1>1. /\ cur \in Conns /\ link[cur] = "up" /\ s \in Seq(ToServer)
      /\ Wire(r) \in Seq(ToServer) /\ w \in Seq(ToServer)
      /\ UNCHANGED <<cur, server>> /\ c2s \in [Conns -> Seq(ToServer)]
  BY FileSendStream DEF FileInv, CurrentInv, IInv, TypeOK
<1>2. \A i \in 1 .. Len(Wire(r)) : Wire(r)[i].req = r
  BY AsSentWire DEF FileSends
<1>3. /\ Len(w) = Len(s) + Len(Wire(r)) /\ Len(s) \in Nat /\ Len(Wire(r)) \in Nat
      /\ \A i \in 1 .. Len(s) : w[i] = s[i] /\ i \in 1 .. Len(w)
      /\ \A i \in Len(s) + 1 .. Len(w) : w[i].req = r
  <2>1. /\ Len(w) = Len(s) + Len(Wire(r))
        /\ \A i \in 1 .. Len(s) : w[i] = s[i]
        /\ \A i \in Len(s) + 1 .. Len(w) : w[i] = Wire(r)[i - Len(s)] /\ i - Len(s) \in 1 .. Len(Wire(r))
    BY <1>1, Appended
  <2>2. Len(s) \in Nat /\ Len(Wire(r)) \in Nat
    BY <1>1
  <2> HIDE DEF s, w
  <2> QED BY <1>2, <2>1, <2>2
<1>4. PICK p \in Prefixes(w) : c2s' = [c2s EXCEPT ![cur] = p]
  BY FileSendStream DEF FileInv
<1> HIDE DEF s, w
<1>5. p \in Seq(ToServer) /\ \A i \in 1 .. Len(p) : p[i] = w[i] /\ i \in 1 .. Len(w)
  BY <1>1, <1>4, CutShort
<1>6. ASSUME NEW q PROVE InFlight(q)' => InFlight(q) \/ q = r
  <2>1. (\E i \in 1 .. Len(p) : p[i].req = q) => q = r \/ \E i \in 1 .. Len(s) : s[i].req = q
    BY <1>3, <1>5
  <2>2. /\ InFlight(q)' <=> \/ \E i \in 1 .. Len(p) : p[i].req = q
                            \/ \E d \in Conns \ {cur} : \E i \in 1 .. Len(c2s[d]) : c2s[d][i].req = q
        /\ InFlight(q) <=> \/ \E i \in 1 .. Len(s) : s[i].req = q
                           \/ \E d \in Conns \ {cur} : \E i \in 1 .. Len(c2s[d]) : c2s[d][i].req = q
    BY <1>1, <1>4, FlightChanges DEF s
  <2> QED BY <2>1, <2>2
<1>7. \A q \in Due' : q \in Due \/ (r.cmd = "send" /\ q = Sent(r))
  <2> TAKE q \in Due'
  <2>1. PICK x : x \in UnderWay' /\ x.cmd = "send" /\ q = Sent(x)
    BY DueIs
  <2>2. x = srvReq \/ InFlight(x) \/ x = r
    BY <1>1, <1>6, <2>1, UnderWayIs DEF server
  <2> QED BY <2>1, <2>2, DueIs, UnderWayIs
<1>8. ASSUME WriteGoes(r) PROVE Due \subseteq Due' /\ (r.cmd = "send" => Sent(r) \in Due')
  <2>1. c2s' = [c2s EXCEPT ![cur] = w]
    BY <1>8 DEF WriteGoes, w, s
  <2>2. ASSUME NEW q PROVE
        /\ InFlight(q)' <=> \/ \E i \in 1 .. Len(w) : w[i].req = q
                            \/ \E d \in Conns \ {cur} : \E i \in 1 .. Len(c2s[d]) : c2s[d][i].req = q
        /\ InFlight(q) <=> \/ \E i \in 1 .. Len(s) : s[i].req = q
                           \/ \E d \in Conns \ {cur} : \E i \in 1 .. Len(c2s[d]) : c2s[d][i].req = q
    BY <1>1, <2>1, FlightChanges DEF s
  <2>3. \A q : InFlight(q) => InFlight(q)'
    BY <1>3, <2>2
  <2>4. InFlight(r)'
    <3>1. Len(Wire(r)) # 0
      BY <1>1, AsSentWire, EmptySeq DEF FileSends
    <3>2. Len(w) \in Len(s) + 1 .. Len(w) /\ Len(w) \in 1 .. Len(w)
      BY <1>3, <3>1
    <3>3. w[Len(w)].req = r
      BY <1>3, <3>2
    <3> QED BY <2>2, <3>2, <3>3
  <2>5. Due \subseteq Due'
    BY <1>1, <2>3, NotFewerDue DEF server
  <2> QED BY <2>4, <2>5, DueIs, UnderWayIs
<1>9. WriteCut(r) => Breaks
  BY <1>1, WriteCutStream DEF Breaks, FileInv, CurrentInv
<1> QED BY <1>1, <1>7, <1>8, <1>9 DEF server

--------------------------------------------------------------------------------
(***************************************************************************)
(* RRemoteFile implements FileHandle.                                      *)
(***************************************************************************)
LEMMA ContractInit == FInit => Contract!Init
<1> SUFFICES ASSUME FInit PROVE Contract!Init OBVIOUS
<1>1. /\ user.how = "closed" /\ lastClose = "KErrNone" /\ cur = NoConn
      /\ disk \in [Names -> Bodies \cup {NoFile}]
  BY ViewIs DEF FInit, NotOpen, Init
<1>2. srvReq.cmd # "send" /\ \A r : ~InFlight(r)
  BY EmptySeq DEF FInit, Init, Hello, Request, InFlight
<1>3. Due = {}
  BY <1>2, DueIs, UnderWayIs
<1> QED BY <1>1, <1>3 DEF Contract!Init, Shown, IsOpen

\* A handle that is not open before and after a step, and whose last close stays.
LEMMA ClosedStays ==
    ASSUME user.how \in {"closed", "opening", "failed"},
           user'.how \in {"closed", "opening", "failed"}, lastClose' = lastClose
    PROVE  UNCHANGED Contract!handle
BY DEF Contract!handle, Shown, IsOpen

\* A step of the session that leaves the handle alone.
LEMMA SessionDelivers ==
    ASSUME FileInv, UNCHANGED Contract!handle, Delivers
    PROVE  Contract!Next
BY DEF Contract!Next, Contract!Deliver, Delivers

LEMMA QuietDue ==
    ASSUME UNCHANGED <<c2s, server>>
    PROVE  Due' = Due /\ disk' = disk /\ Delivers /\ ArriveOrBreak
BY DEF Due, UnderWay, server, Delivers, ArriveOrBreak, Contract!GoAstray

LEMMA AroundDelivers ==
    ASSUME ~CreateMayFail, FileInv, StreamsInOrder', Around \/ UNCHANGED fvars
    PROVE  Delivers
<1>1. ASSUME UNCHANGED <<c2s, server>> \/ \E c \in Conns : ConnectsOn(c) PROVE Delivers
  <2>1. CASE UNCHANGED <<c2s, server>>
    BY <2>1, QuietDue
  <2>2. ASSUME NEW c \in Conns, ConnectsOn(c) PROVE Delivers
    BY <2>2, ConnectsDue DEF Delivers, Contract!GoAstray
  <2> QED BY <1>1, <2>1, <2>2
<1>2. CASE Close \/ UNCHANGED fvars
  BY <1>1, <1>2 DEF Close, fvars, vars, wire
<1>3. CASE OpenRemote \/ CheckConnection
  BY <1>1, <1>3, OpenRemoteKinds, CheckConnectionKinds DEF FileInv, CurrentInv, ClientQuiet
<1>4. CASE ClientRead
  BY <1>1, <1>4, ClientReadKinds DEF FileInv, CurrentInv, ClientQuiet
<1>5. CASE ServerAct \/ Environment
  BY <1>5, ServerDelivers, EnvironmentDelivers
<1> QED BY <1>2, <1>3, <1>4, <1>5 DEF Around

\* Whoever takes a step: what is under way stays in order, and arrives.
LEMMA StepDelivers ==
    ASSUME ~CreateMayFail, FileInv, StreamsInOrder', MembersMatchView, [FNext]_fvars
    PROVE  PutsInOrder' /\ ArriveOrBreak
<1>1. CASE UNCHANGED <<c2s, server>>
  <2>1. PutsInOrder'
    BY <1>1 DEF FileInv, PutsInOrder, AsSent, Held, server
  <2> QED BY <1>1, <2>1, QuietDue
<1>2. ASSUME NEW c \in Conns, ConnectsOn(c) PROVE PutsInOrder' /\ ArriveOrBreak
  BY <1>2, PutsConnects, ConnectsDue DEF ArriveOrBreak
<1>3. ASSUME NEW r \in ClientRequests, FileSends(r) PROVE PutsInOrder' /\ ArriveOrBreak
  <2>1. PutsInOrder'
    BY <1>3, PutsSends
  <2>2. CASE WriteGoes(r)
    BY <1>3, <2>1, <2>2, SendsDue DEF ArriveOrBreak
  <2>3. CASE WriteCut(r)
    BY <1>3, <2>1, <2>3, SendsDue DEF ArriveOrBreak
  <2> QED BY <1>3, <2>2, <2>3 DEF FileSends
<1>4. CASE ServerAct \/ Environment
  BY <1>4, ServerDelivers, EnvironmentDelivers
<1> QED BY <1>1, <1>2, <1>3, <1>4, FileStepKinds DEF FileInv

LEMMA ContractNext ==
    ASSUME ~CreateMayFail, ~EditOpened, ~LeaveEmpty, ~ReuseFailed, <<>> \notin Writes,
           FileInv, StreamsInOrder', MembersMatchView, BufferStartsEmpty, [FNext]_fvars
    PROVE  [Contract!Next]_(Contract!vars)
<1>0. /\ user \in [name : Names \cup {NoName},
                   how : {"closed", "opening", "failed", "opened", "created", "written"}]
      /\ fileBuffer \in Bodies /\ fileOffset \in Nat /\ fileOffset <= Len(fileBuffer)
      /\ Len(fileBuffer) \in Nat /\ fileBuffer \in Seq(Bytes)
      /\ IsOpen => user.name \in Names /\ user.name # NoName
  BY BodiesAre DEF MembersMatchView, FTypeOK, IsOpen
<1>1. ASSUME NEW n \in Names, CreateFile(n) PROVE Contract!Create
  <2>1. /\ user.how = "closed" /\ user' = View(n, "created") /\ fileOffset' = 0
        /\ UNCHANGED <<fileBuffer, lastClose, c2s, server>>
    BY <1>1 DEF CreateFile, Free, wire
  <2>2. user'.how = "created" /\ user'.name = n
    BY <2>1, ViewIs
  <2>3. fileBuffer = <<>>
    BY <2>1 DEF BufferStartsEmpty
  <2>4. Due' = Due /\ disk' = disk
    BY <2>1, QuietDue
  <2> QED BY <2>1, <2>2, <2>3, <2>4 DEF Contract!Create, Contract!Handle, Shown, IsOpen
<1>2. ASSUME NEW n \in Names, OpenFile(n) PROVE Contract!Next
  <2> DEFINE r == Request("get", n, NoName, <<>>)
  <2>1. /\ user.how = "closed" /\ lastClose' = lastClose /\ SendRequest(r)
        /\ user' = View(n, IF pc' = "idle" THEN "failed" ELSE "opening")
    BY <1>2 DEF OpenFile, Free
  <2>2. user'.how \in {"failed", "opening"}
    BY <2>1, ViewIs
  <2>3. UNCHANGED Contract!handle
    BY <2>1, <2>2, ClosedStays
  <2>4. r \in ClientRequests /\ r.cmd = "get"
    BY DEF ClientRequests, Request
  <2> HIDE DEF r
  <2>5. Delivers
    <3>1. CASE UNCHANGED <<c2s, server>>
      BY <3>1, QuietDue
    <3>2. CASE FileSends(r)
      BY <2>4, <3>2, SendsDue DEF Delivers, Contract!GoAstray
    <3> QED BY <2>1, <2>4, <3>1, <3>2, FileSendKinds DEF FileInv
  <2> QED BY <2>3, <2>5, SessionDelivers
<1>3. CASE OpenAnswered \/ OpenSized \/ OpenEmpty \/ OpenCut
  <2>1. /\ user.how = "opening" /\ lastClose' = lastClose
        /\ user' = user \/ user' = View(user.name, "failed")
    BY <1>3 DEF OpenAnswered, OpenSized, OpenEmpty, OpenCut, Opening
  <2>2. user'.how \in {"failed", "opening"}
    BY <2>1, ViewIs
  <2>3. UNCHANGED Contract!handle
    BY <2>1, <2>2, ClosedStays
  <2>4. ClientRead
    BY <1>3 DEF OpenAnswered, OpenSized, OpenEmpty, OpenCut, ClientRead, Receives
  <2>5. Delivers
    BY <2>4, ClientReadKinds, QuietDue DEF FileInv, CurrentInv, ClientQuiet
  <2>6. Contract!Next
    BY <2>3, <2>5, SessionDelivers
  <2> QED BY <2>6
<1>4. CASE OpenLoaded
  <2>1. /\ user.how = "opening" /\ fileOffset' = 0 /\ user' = View(user.name, "opened")
        /\ lastClose' = lastClose /\ UNCHANGED <<c2s, server>>
    BY <1>4 DEF OpenLoaded, Opening, ReadData
  <2>2. user'.how = "opened" /\ user'.name = user.name
    BY <2>1, ViewIs
  <2>3. user.name \in Names
    BY <2>1, <1>0 DEF MembersMatchView
  <2>4. fileBuffer' = disk[user.name] /\ fileBuffer' \in Bodies
    BY <1>4, Loads DEF FileInv
  <2>5. fileBuffer' # NoFile
    BY <2>4, ConstantsAssumption
  <2>6. Due' = Due /\ disk' = disk
    BY <2>1, QuietDue
  <2>7. Contract!Open
    BY <2>1, <2>2, <2>3, <2>4, <2>5, <2>6 DEF Contract!Open, Contract!Handle, Shown, IsOpen
  <2> QED BY <2>7 DEF Contract!Next
<1>5. ASSUME NEW n \in 0 .. MaxSize, ReadFile(n) \/ SeekFile(n) PROVE Contract!Move
  <2>1. IsOpen /\ UNCHANGED <<fileBuffer, user, lastClose, c2s, server>>
    BY <1>5 DEF ReadFile, SeekFile, wire
  <2>2. fileOffset' \in 0 .. Len(fileBuffer)
    <3>1. MembersTyped' /\ MembersMatch'
      BY <1>5, UseMembers
    <3>2. fileOffset' \in Nat /\ fileOffset' <= Len(fileBuffer)
      BY <3>1, <2>1, UsageAssumption DEF MembersTyped, MembersMatch
    <3> QED BY <3>2, <1>0
  <2>3. Due' = Due /\ disk' = disk
    BY <2>1, QuietDue
  <2> QED BY <2>1, <2>2, <2>3, <1>0 DEF Contract!Move, Shown, IsOpen
<1>6. ASSUME NEW s \in Writes, WriteFile(s) PROVE Contract!Write
  <2>1. /\ IsOpen /\ user' = View(user.name, "written") /\ lastClose' = lastClose
        /\ fileBuffer' = Overlay(fileBuffer, fileOffset, s)
        /\ fileOffset' = fileOffset + Len(s) /\ UNCHANGED <<c2s, server>>
    BY <1>6 DEF WriteFile, wire
  <2>2. user'.how = "written" /\ user'.name = user.name
    BY <2>1, ViewIs
  <2>3. s \in Bodies
    BY UsageAssumption
  <2>4. Due' = Due /\ disk' = disk
    BY <2>1, QuietDue
  <2> QED BY <2>1, <2>2, <2>3, <2>4, <1>0 DEF Contract!Write, Contract!Overlay, Overlay, Shown, IsOpen
<1>7. ASSUME CloseFile PROVE Contract!Next
  <2>1. /\ user' = View(NoName, "closed") /\ user.how \in {"failed", "opened", "written"}
    BY <1>7, <1>0 DEF CloseFile, NotOpen
  <2>2. user'.how = "closed" /\ ~IsOpen'
    BY <2>1, ViewIs DEF IsOpen
  <2>3. CASE user.how = "failed"
    <3>1. lastClose' = lastClose
      BY <1>7, <2>3 DEF CloseFile, Conclude, IsOpen
    <3>2. UNCHANGED Contract!handle
      BY <2>2, <2>3, <3>1, ClosedStays
    <3>3. UNCHANGED <<c2s, server>>
      BY <1>7, <2>3 DEF CloseFile, MembersMatchView, wire
    <3> QED BY <3>2, <3>3, QuietDue, SessionDelivers
  <2>4. CASE user.how = "opened"
    <3>1. ~dirty /\ IsOpen
      BY <2>4 DEF MembersMatchView, IsOpen
    <3>2. lastClose' = "KErrNone" /\ UNCHANGED <<c2s, server>>
      BY <1>7, <3>1 DEF CloseFile, Conclude, wire
    <3>3. Due' = Due /\ disk' = disk
      BY <3>2, QuietDue
    <3>4. Contract!Close
      BY <2>2, <2>4, <3>1, <3>2, <3>3, <1>0 DEF Contract!Close, Contract!Handle, Shown
    <3> QED BY <3>4 DEF Contract!Next
  <2>5. CASE user.how = "written"
    <3>1. dirty /\ fileBuffer # <<>> /\ IsOpen /\ fileName = user.name
      BY <2>5 DEF MembersMatchView, BufferStartsEmpty, IsOpen
    <3> DEFINE r == Request("send", fileName, NoName, fileBuffer)
    <3>2. /\ SendRequest(r) /\ lastClose' = out'
          /\ user'.name = NoName /\ fileOffset' = 0 /\ fileBuffer' = <<>>
      BY <1>7, <3>1, <2>1, ViewIs DEF CloseFile, Conclude, Reset
    <3>3. /\ r.cmd = "send" /\ Unanswered(r)
          /\ Sent(r) = Contract!Put(user.name, fileBuffer)
      BY <3>1 DEF Unanswered, Request, Sent, Contract!Put
    <3>4. r \in ClientRequests
      BY <3>1, <1>0 DEF ClientRequests
    <3> HIDE DEF r
    <3>5. CASE WriteGoes(r)
      <4>1. FileSends(r) /\ out' = "KErrNone"
        BY <3>2, <3>3, <3>4, <3>5 DEF FileSends, SendRequest, WriteGoes, AfterWrite
      <4>2. Due' = Due \cup {Sent(r)} /\ disk' = disk
        BY <3>3, <3>4, <3>5, <4>1, SendsDue
      <4>3. Contract!Close
        BY <2>2, <2>5, <3>1, <3>2, <3>3, <4>1, <4>2, <1>0
           DEF Contract!Close, Contract!Handle, Shown
      <4> QED BY <4>3 DEF Contract!Next
    <3>6. CASE WriteIsLost(r)
      <4>1. /\ out' = "KErrNone" /\ ~(cur # NoConn /\ link[cur] = "up")
            /\ UNCHANGED <<c2s, server>>
        BY <3>3, <3>6 DEF WriteIsLost, AfterWrite
      <4>2. Due' = Due /\ disk' = disk
        BY <4>1, QuietDue
      <4>3. Contract!Close
        BY <2>2, <2>5, <3>1, <3>2, <4>1, <4>2, <1>0
           DEF Contract!Close, Contract!Handle, Shown
      <4> QED BY <4>3 DEF Contract!Next
    <3>7. CASE Refuse(r) \/ WriteFails(r) \/ WriteCut(r)
      <4>1. out' \in {"KErrNotFound", "KErrNotOpen"}
        BY <3>7 DEF Refuse, WriteFails, WriteCut
      <4>2. Due' \subseteq Due \cup {Sent(r)} /\ disk' = disk
        <5>1. CASE Refuse(r) \/ WriteFails(r)
          <6>1. UNCHANGED <<c2s, server>>
            BY <5>1 DEF Refuse, WriteFails, wire
          <6> QED BY <6>1, QuietDue
        <5>2. CASE WriteCut(r)
          BY <3>2, <3>3, <3>4, <5>2, SendsDue DEF FileSends, SendRequest
        <5> QED BY <3>7, <5>1, <5>2
      <4>3. Contract!CloseFails
        BY <2>2, <2>5, <3>1, <3>2, <3>3, <4>1, <4>2, <1>0
           DEF Contract!CloseFails, Contract!Handle, Shown
      <4> QED BY <4>3 DEF Contract!Next
    <3> QED BY <3>2, <3>5, <3>6, <3>7 DEF SendRequest
  <2> QED BY <2>1, <2>3, <2>4, <2>5
<1>8. CASE Around \/ UNCHANGED fvars
  <2>1. UNCHANGED Contract!handle
    BY <1>8 DEF Around, fvars, file, Contract!handle, Shown, IsOpen
  <2>2. Delivers
    BY <1>8, AroundDelivers
  <2>3. Contract!Next
    BY <2>1, <2>2, SessionDelivers
  <2> QED BY <2>3
<1> QED BY <1>1, <1>2, <1>3, <1>4, <1>5, <1>6, <1>7, <1>8 DEF FNext, FileCall, Contract!Next

LEMMA FileInvariance ==
    ASSUME ~CreateMayFail, ~EditOpened
    PROVE  FSpec => [](FileInv /\ MembersMatchView)
<1>1. FInit => FileInv /\ MembersMatchView
  BY MembersInit, CurrentInit, StreamsInit, PutsInit DEF FInit, FileInv
<1>2. ASSUME FileInv, MembersMatchView, [FNext]_fvars
      PROVE  (FileInv /\ MembersMatchView)'
  <2>1. CurrentInv' /\ MembersMatchView'
    BY <1>2, MembersNext DEF FileInv
  <2>2. StreamsInOrder'
    <3>1. CASE OnlyReturns
      BY <1>2, <3>1, StreamsQuiet DEF OnlyReturns, wire, server, FileInv
    <3>2. CASE [Next]_vars
      BY <1>2, <3>2, StreamsNext DEF FileInv, CurrentInv
    <3> QED BY <1>2, <3>1, <3>2, FileCallIsSession DEF FileInv
  <2>3. PutsInOrder'
    BY <1>2, <2>2, StepDelivers
  <2> QED BY <2>1, <2>2, <2>3 DEF FileInv
<1>3. (FileInv /\ MembersMatchView) /\ [FNext]_fvars => (FileInv /\ MembersMatchView)'
  BY <1>2
<1> QED BY <1>1, <1>3, PTL DEF FSpec

\* On a server that can always create the file it is sent, and for callers who
\* write to the files they create, only read the files they open, and close what
\* they could not open: whatever happens to the connection, RRemoteFile is a file
\* handle on the server's own files.  open() hands out the file as it stands
\* there; close() sends what was written on its way to the name that was opened,
\* or returns an error, after which some of it may still arrive; no file changes
\* otherwise; and what was sent is only lost with a connection or the server.
THEOREM ImplementsFileHandle ==
    ASSUME ~CreateMayFail, ~EditOpened, ~LeaveEmpty, ~ReuseFailed, <<>> \notin Writes
    PROVE  FSpec => KeepsContract
<1> DEFINE I == FileInv /\ MembersMatchView
<1>1. FInit => BufferStartsEmpty /\ Contract!Init
  BY BufferInit, ContractInit
<1>2. (I /\ BufferStartsEmpty) /\ [FNext]_fvars => BufferStartsEmpty'
  BY BufferNext DEF FileInv
<1>3. I /\ I' /\ BufferStartsEmpty /\ [FNext]_fvars => [Contract!Next]_(Contract!vars)
  BY ContractNext DEF FileInv
<1>4. I /\ I' /\ [FNext]_fvars
        => [\A p \in Due \ Due' : disk'[p.name] = p.data \/ Breaks]_fvars
  BY StepDelivers DEF FileInv, ArriveOrBreak
<1>5. FSpec => []I
  BY FileInvariance
<1> HIDE DEF I
<1>6. FSpec => Contract!Spec
  BY <1>1, <1>2, <1>3, <1>5, PTL DEF FSpec, Contract!Spec
<1>7. FSpec => PutsArrive
  BY <1>4, <1>5, PTL DEF FSpec, PutsArrive
<1> QED BY <1>6, <1>7 DEF KeepsContract

--------------------------------------------------------------------------------
(***************************************************************************)
(* FileTransfer, for files, pieces and windows of any size, every way of   *)
(* cutting the stream into pieces, and local writes that fail at any of    *)
(* them.                                                                   *)
(***************************************************************************)
LEMMA Wrapped ==
    ASSUME NEW n \in Nat, NEW m \in Nat \ {0}
    PROVE  n % m \in Nat /\ n % m < m /\ n % m <= n /\ (n < m => n % m = n)
OBVIOUS

LEMMA LessInFlight ==
    ASSUME NEW w \in Nat, NEW v \in Nat, NEW p \in Nat, NEW b \in Nat, NEW s \in Nat,
           v <= w, w + p + b <= s
    PROVE  v + p + b <= s
OBVIOUS

LEMMA TransferInitInv == TransferInit => TransferInv
<1> SUFFICES ASSUME TransferInit PROVE TransferInv OBVIOUS
<1>1. TransferTypeOK
  <2>1. 0 \in 0 .. TRANSFER_SIZE /\ 0 \in 0 .. StreamWindow /\ 0 \in 0 .. 0
    BY TransferAssumption
  <2> QED BY <2>1 DEF TransferInit, TransferTypeOK
<1>2. 0 % Modulus = 0
  BY Wrapped, TransferAssumption
<1> QED BY <1>1, <1>2, TransferAssumption
        DEF TransferInit, TransferInv, SentFirst, CountsToSize, WritesCounted

\* The steps of the sender leave what the receiver has counted alone.
LEMMA SenderInv ==
    ASSUME TransferInv, UNCHANGED receiver, TransferTypeOK', SentFirst'
    PROVE  TransferInv'
BY DEF TransferInv, receiver, CountsToSize, WritesCounted

LEMMA SendSizeInv == ASSUME TransferInv, SendSize PROVE TransferInv'
<1>1. TransferTypeOK'
  BY DEF SendSize, TransferInv, TransferTypeOK, receiver
<1>2. SentFirst'
  BY DEF SendSize, TransferInv, SentFirst, receiver
<1> QED BY <1>1, <1>2, SenderInv DEF SendSize

LEMMA SenderMovesInv ==
    ASSUME TransferInv, sPc' \in {"stat", "open", "copy", "done", "threw"},
           UNCHANGED <<source, changed, sOff, network, receiver>>
    PROVE  TransferInv'
<1>1. TransferTypeOK'
  BY DEF TransferInv, TransferTypeOK, network, receiver
<1>2. SentFirst'
  BY DEF TransferInv, SentFirst, network, receiver
<1> QED BY <1>1, <1>2, SenderInv

LEMMA SendPieceInv == ASSUME TransferInv, SendPiece PROVE TransferInv'
<1> DEFINE n == Smaller(TRANSFER_SIZE, source - sOff)
<1>1. /\ source \in Nat /\ sOff \in Nat /\ sOff < source /\ onWire \in Nat
      /\ StreamWindow \in Nat /\ TRANSFER_SIZE \in Nat
  BY TransferAssumption DEF SendPiece, TransferInv, TransferTypeOK
<1>2. n \in Nat /\ n <= source - sOff
  BY <1>1 DEF Smaller
<1>3. onWire' = onWire + n /\ sOff' = sOff + n /\ onWire + n <= StreamWindow
  BY DEF SendPiece
<1> HIDE DEF n
<1>4. TransferTypeOK'
  BY <1>1, <1>2, <1>3 DEF SendPiece, TransferInv, TransferTypeOK, receiver
<1>5. SentFirst'
  BY <1>1, <1>2, <1>3, TransferAssumption DEF SendPiece, TransferInv, TransferTypeOK, SentFirst, receiver
<1> QED BY <1>4, <1>5, SenderInv DEF SendPiece

LEMMA ReadFileSizeInv == ASSUME TransferInv, ReadFileSize PROVE TransferInv'
<1>1. /\ fileSize' \in size /\ fileSize' \in Nat /\ fileSize' % Modulus \in Nat
      /\ rPc = "size" /\ bytesRead = 0 /\ part = 0 /\ written = 0 /\ retVal = "KErrNone"
      /\ UNCHANGED <<sender, onWire, lost, target, bytesRead, chunk, part, written, retVal>>
      /\ size' = {} /\ rPc' \in {"create", "next"}
      /\ IF target = "file" THEN rPc' = "create" /\ UNCHANGED room
                            ELSE rPc' = "next" /\ room' = fileSize' % Modulus
  BY Wrapped, TransferAssumption DEF ReadFileSize, TransferInv, TransferTypeOK, CountsToSize
<1>2. TransferTypeOK'
  BY <1>1 DEF TransferInv, TransferTypeOK, sender
<1>3. SentFirst'
  BY <1>1 DEF TransferInv, SentFirst, sender
<1>4. CountsToSize'
  BY <1>1 DEF TransferInv, TransferTypeOK, CountsToSize
<1>5. WritesCounted'
  BY <1>1 DEF TransferInv, WritesCounted
<1> QED BY <1>2, <1>3, <1>4, <1>5 DEF TransferInv

LEMMA CreateTargetInv == ASSUME TransferInv, CreateTarget, target = "file" PROVE TransferInv'
<1>1. /\ rPc = "create" /\ bytesRead = 0 /\ part = 0 /\ written = 0
      /\ \/ rPc' = "next" /\ retVal' = "KErrNone"
         \/ rPc' = "done" /\ retVal' = "KErrGeneral"
      /\ UNCHANGED <<sender, network, target, fileSize, bytesRead, chunk, part, room, written>>
  BY DEF CreateTarget, TransferInv, CountsToSize
<1>2. TransferTypeOK'
  BY <1>1 DEF TransferInv, TransferTypeOK, sender, network
<1>3. SentFirst' /\ WritesCounted'
  BY <1>1 DEF TransferInv, SentFirst, WritesCounted, sender, network
<1>4. CountsToSize'
  BY <1>1 DEF TransferInv, TransferTypeOK, CountsToSize
<1> QED BY <1>2, <1>3, <1>4 DEF TransferInv

LEMMA NextPieceInv == ASSUME TransferInv, NextPiece PROVE TransferInv'
<1>1. /\ rPc = "next" /\ rPc' = "recv" /\ part' = 0 /\ chunk' = BytesToRead
      /\ UNCHANGED <<sender, network, target, fileSize, bytesRead, room, written, retVal>>
  BY DEF NextPiece
<1>2. /\ BytesToRead \in 0 .. TRANSFER_SIZE
      /\ bytesRead + BytesToRead <= fileSize
  BY <1>1, TransferAssumption DEF BytesToRead, TransferInv, TransferTypeOK, CountsToSize
<1>3. TransferTypeOK'
  BY <1>1, <1>2 DEF TransferInv, TransferTypeOK, sender, network
<1>4. SentFirst'
  BY <1>1, TransferAssumption DEF TransferInv, TransferTypeOK, SentFirst, sender, network
<1>5. CountsToSize' /\ WritesCounted'
  BY <1>1, <1>2 DEF TransferInv, CountsToSize, WritesCounted
<1> QED BY <1>3, <1>4, <1>5 DEF TransferInv

LEMMA RecvInv == ASSUME TransferInv, Recv PROVE TransferInv'
<1>1. PICK n \in 1 .. Smaller(onWire, chunk - part) : onWire' = onWire - n /\ part' = part + n
  BY DEF Recv
<1>2. /\ rPc = "recv"
      /\ UNCHANGED <<sender, size, lost, target, rPc, fileSize, bytesRead,
                     chunk, room, written, retVal>>
  BY DEF Recv
<1>3. onWire \in Nat /\ chunk \in Nat /\ part \in Nat /\ part <= chunk /\ StreamWindow \in Nat
  BY TransferAssumption DEF TransferInv, TransferTypeOK
<1>4. n \in Nat /\ n <= onWire /\ n <= chunk - part
  BY <1>3 DEF Smaller
<1>5. TransferTypeOK'
  BY <1>1, <1>2, <1>3, <1>4 DEF TransferInv, TransferTypeOK, sender
<1>6. SentFirst'
  BY <1>1, <1>2, <1>3, <1>4 DEF TransferInv, TransferTypeOK, SentFirst, sender
<1>7. CountsToSize' /\ WritesCounted'
  BY <1>2 DEF TransferInv, CountsToSize, WritesCounted
<1> QED BY <1>5, <1>6, <1>7 DEF TransferInv

LEMMA PieceDoneInv == ASSUME TransferInv, PieceDone PROVE TransferInv'
<1> DEFINE sum == bytesRead + chunk
<1>1. /\ rPc = "recv" /\ part = chunk /\ chunk \in Nat /\ bytesRead \in Nat
      /\ fileSize \in Nat /\ sum <= fileSize /\ sum \in Nat /\ written \in Nat
  BY TransferAssumption DEF PieceDone, TransferInv, TransferTypeOK, CountsToSize
<1>2. /\ bytesRead' = Counted(sum) /\ chunk' = 0 /\ part' = 0
      /\ \/ written' = written + chunk /\ retVal' = retVal
         \/ target = "file" /\ retVal' = "KErrGeneral" /\ written' = written
      /\ rPc' = IF bytesRead' < fileSize THEN "next" ELSE "done"
      /\ UNCHANGED <<sender, network, target, fileSize, room>>
  BY DEF PieceDone, WriteSucceeds, LocalWriteFails, Continues
<1>3. /\ bytesRead' \in Nat /\ bytesRead' <= sum
      /\ target = "file" \/ fileSize < Modulus => bytesRead' = sum
      /\ target = "memory" => bytesRead' < Modulus
  BY <1>1, <1>2, Wrapped, TransferAssumption DEF Counted, TransferInv, TransferTypeOK
<1>4. TransferTypeOK'
  BY <1>1, <1>2, <1>3, TransferAssumption DEF TransferInv, TransferTypeOK, sender, network
<1>5. SentFirst'
  BY <1>1, <1>2, <1>3, TransferAssumption DEF TransferInv, TransferTypeOK, SentFirst, sender, network
<1>6. CountsToSize'
  BY <1>1, <1>2, <1>3, TransferAssumption DEF TransferInv, TransferTypeOK, CountsToSize
<1>7. WritesCounted'
  BY <1>1, <1>2, <1>3 DEF TransferInv, WritesCounted
<1> QED BY <1>4, <1>5, <1>6, <1>7 DEF TransferInv

LEMMA RecvThrowsInv == ASSUME TransferInv, RecvThrows PROVE TransferInv'
<1>1. /\ rPc' = "threw"
      /\ UNCHANGED <<sender, network, target, fileSize, bytesRead, chunk, part,
                     room, written, retVal>>
  BY DEF RecvThrows
<1>2. TransferTypeOK' /\ SentFirst'
  BY <1>1 DEF TransferInv, TransferTypeOK, SentFirst, sender, network
<1>3. CountsToSize' /\ WritesCounted'
  BY <1>1 DEF TransferInv, CountsToSize, WritesCounted
<1> QED BY <1>2, <1>3 DEF TransferInv

LEMMA LinkLostInv == ASSUME TransferInv, LinkLost PROVE TransferInv'
<1>1. /\ onWire' \in 0 .. onWire /\ size' \subseteq size /\ lost' = TRUE
      /\ UNCHANGED <<sender, receiver>>
  BY DEF LinkLost
<1>2. TransferTypeOK'
  BY <1>1, TransferAssumption DEF TransferInv, TransferTypeOK, sender, receiver
<1>3. SentFirst'
  <2>1. onWire \in Nat /\ part \in Nat /\ bytesRead \in Nat /\ sOff \in Nat
    BY TransferAssumption DEF TransferInv, TransferTypeOK
  <2>2. onWire + part + bytesRead <= sOff
    BY DEF TransferInv, SentFirst
  <2>3. onWire' \in Nat /\ onWire' <= onWire
    BY <1>1, <2>1
  <2>4. onWire' + part + bytesRead <= sOff
    BY <2>1, <2>2, <2>3, LessInFlight
  <2> QED BY <1>1, <2>4 DEF TransferInv, SentFirst, sender, receiver
<1> QED BY <1>1, <1>2, <1>3, SenderInv

LEMMA SourceChangeInv == ASSUME TransferInv, SourceChange PROVE TransferInv'
<1>1. TransferTypeOK' /\ SentFirst'
  BY DEF SourceChange, TransferInv, TransferTypeOK, SentFirst, network, receiver
<1> QED BY <1>1, SenderInv DEF SourceChange

LEMMA TransferNextInv == TransferInv /\ [TransferNext]_transferVars => TransferInv'
<1> SUFFICES ASSUME TransferInv, [TransferNext]_transferVars PROVE TransferInv' OBVIOUS
<1>1. CASE SendSize
  BY <1>1, SendSizeInv
<1>2. CASE OpenSource \/ SendEnds \/ SendThrows
  <2>1. /\ sPc' \in {"stat", "open", "copy", "done", "threw"}
        /\ UNCHANGED <<source, changed, sOff, network, receiver>>
    BY <1>2 DEF OpenSource, SendEnds, SendThrows
  <2> QED BY <2>1, SenderMovesInv
<1>3. CASE SendPiece
  BY <1>3, SendPieceInv
<1>4. CASE ReadFileSize
  BY <1>4, ReadFileSizeInv
<1>5. CASE CreateTarget
  BY <1>5, CreateTargetInv DEF CreateTarget, TransferInv, CountsToSize
<1>6. CASE NextPiece
  BY <1>6, NextPieceInv
<1>7. CASE Recv
  BY <1>7, RecvInv
<1>8. CASE PieceDone
  BY <1>8, PieceDoneInv
<1>9. CASE RecvThrows
  BY <1>9, RecvThrowsInv
<1>10. CASE LinkLost
  BY <1>10, LinkLostInv
<1>11. CASE SourceChange
  BY <1>11, SourceChangeInv
<1>12. CASE UNCHANGED transferVars
  BY <1>12 DEF transferVars, sender, network, receiver, TransferInv, TransferTypeOK, SentFirst, CountsToSize,
               WritesCounted
<1> QED BY <1>1, <1>2, <1>3, <1>4, <1>5, <1>6, <1>7, <1>8, <1>9, <1>10, <1>11, <1>12
        DEF TransferNext, Transfer

--------------------------------------------------------------------------------

\* Whatever the sizes, the pieces, the loss of the connection and the failing
\* writes, sender and receiver stay in the states IInv describes.
THEOREM TransferInvariance == TransferSpec => []TransferInv
BY TransferInitInv, TransferNextInv, PTL DEF TransferSpec

\* When CHandler::readFile() or RRemoteFile::readFromRemote() returns, the next
\* command or reply is at the head of the stream: every byte of the file has
\* been sent and taken off it, although local writes may have failed.
THEOREM StreamLeftInStep == TransferSpec => []LeavesStreamInStep
<1>1. TransferInv => LeavesStreamInStep
  <2> SUFFICES ASSUME TransferInv, rPc = "done", bytesRead > 0, ~changed
               PROVE  onWire = 0 /\ sOff = source
    BY DEF LeavesStreamInStep
  <2>1. bytesRead = source
    BY DEF TransferInv, TransferTypeOK, SentFirst, CountsToSize
  <2>2. onWire + part + bytesRead <= sOff /\ sOff <= source
    BY DEF TransferInv, SentFirst
  <2> QED BY <2>1, <2>2, TransferAssumption DEF TransferInv, TransferTypeOK
<1> QED BY <1>1, TransferInvariance, PTL

\* A receiver that returns KErrNone has put the whole announced file in its place,
\* also when the 32-bit count of readFromRemote() could wrap.
THEOREM SuccessMeansComplete == TransferSpec => []SuccessIsComplete
<1>1. TransferInv => SuccessIsComplete
  BY TransferAssumption DEF TransferInv, TransferTypeOK, CountsToSize, WritesCounted, SuccessIsComplete
<1> QED BY <1>1, TransferInvariance, PTL

\* recv() stays within the memory buffer, for files whose size the 32-bit resize()
\* of the buffer can express, and always within the buffer for one piece.
THEOREM BufferIsEnough ==
    ASSUME \A s \in Sizes : s < Modulus
    PROVE  TransferSpec => []StaysInBuffer
<1> DEFINE Fits == fileSize < Modulus /\ \A s \in size : s < Modulus
<1>1. TransferInit => Fits
  BY TransferAssumption DEF TransferInit
<1>2. TransferInv /\ Fits /\ [TransferNext]_transferVars => Fits'
  <2> SUFFICES ASSUME TransferInv, Fits, [TransferNext]_transferVars PROVE Fits' OBVIOUS
  <2>1. CASE SendSize
    BY <2>1 DEF SendSize, TransferInv, TransferTypeOK, receiver
  <2>2. CASE ReadFileSize
    BY <2>2 DEF ReadFileSize
  <2>3. CASE LinkLost
    BY <2>3 DEF LinkLost, receiver
  <2>4. CASE \/ OpenSource \/ SendPiece \/ SendEnds \/ SendThrows \/ CreateTarget
             \/ NextPiece \/ Recv \/ PieceDone \/ RecvThrows \/ SourceChange
             \/ UNCHANGED transferVars
    <3>1. UNCHANGED <<size, fileSize>>
      BY <2>4 DEF OpenSource, SendPiece, SendEnds, SendThrows, CreateTarget, NextPiece,
                  Recv, PieceDone, RecvThrows, SourceChange, transferVars, network, receiver
    <3> QED BY <3>1
  <2> QED BY <2>1, <2>2, <2>3, <2>4 DEF TransferNext, Transfer
<1>3. TransferInv /\ Fits => StaysInBuffer
  BY Wrapped, TransferAssumption DEF TransferInv, TransferTypeOK, CountsToSize, StaysInBuffer
<1> QED BY <1>1, <1>2, <1>3, TransferInvariance, PTL DEF TransferSpec
================================================================================
