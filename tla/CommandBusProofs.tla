-------------------------- MODULE CommandBusProofs --------------------------
(* Proofs about CommandBus, for sessions of any number of commands and any  *)
(* number of changes: the two ends of every connection agree.               *)
EXTENDS CommandBus, TLAPS

(* A leaf that names no prover goes to Zenon, for ten seconds, then to SMT.  *)
USE ZenonT(10), SMTT(20)

-----------------------------------------------------------------------------
(* The invariant.  ConnOk is about one connection, [cmd, up, ...].           *)

IsList(s) == s \in Seq({s[i] : i \in DOMAIN s})

Fields == {"cmd", "up", "down", "cl", "sv", "sent", "got", "did", "from", "held", "sub", "shown", "misread"}

Shape(c) ==
  /\ c = [f \in Fields |-> c[f]]
  /\ c.cmd \in Commands
  /\ c.cl \in {"new", "reading", "more", "following", "ok", "error"}
  /\ c.sv \in {"idle", "accepted", "command", "subscribe", "saved", "write", "update", "tick", "wait", "closed"}
  /\ c.misread => c.cmd \in {"CloseConnection", "Provider"}

\* What the client writes, as it is on the wire.
Written(cmd) == [i \in DOMAIN ClientWrites(cmd) |-> Tok(ClientWrites(cmd)[i], cmd)]

\* Until the handler runs, the wire has the command and its arguments, and nothing was answered.
Asking(c) ==
  /\ c.sv = "accepted" => c.up = Written(c.cmd)
  /\ c.sv = "command" => c.up = Tail(Written(c.cmd)) /\ c.cmd # "CloseConnection"
  /\ c.sv \in {"accepted", "command"} => c.cl # "new"
  /\ c.sv \in {"idle", "accepted", "command"} => c.cl # "following"
  /\ c.sv \in {"idle", "accepted", "command"} => c.down = <<>>
  /\ c.cl = "new" => c.sv \in {"idle", "closed"} /\ c.down = <<>>

\* What may be answered to a command, and what it says of its effect.
Answers(cmd, did, reply) ==
  \/ reply = <<>> /\ (cmd = "ServiceClose" => did)
  \/ reply = <<Tok("bool", FALSE)>> /\ (did \/ cmd = "SetClashMode")
  \/ cmd = "GetSystemProxyStatus" /\ did /\ \E e \in BOOLEAN : reply = <<Tok("bool", TRUE), Tok("bool", e)>>
  \/ cmd # "GetSystemProxyStatus" /\ reply = <<Tok("bool", TRUE), Tok("string", "error")>>
\* ... and when its first flag has been read.
Rest(cmd, did, reply) ==
  \/ cmd = "GetSystemProxyStatus" /\ did /\ \E e \in BOOLEAN : reply = <<Tok("bool", e)>>
  \/ cmd # "GetSystemProxyStatus" /\ reply = <<Tok("string", "error")>>

\* A command that is answered once.
Answering(c) ==
  c.cmd \notin Streams =>
    /\ c.sv \in {"idle", "accepted", "command", "closed"}
    /\ c.cl # "following"
    /\ c.sv \in {"idle", "accepted", "command"} =>
         c.cl \in {"new", "reading"} \/ (c.cl = "ok" /\ c.cmd = "CloseConnections")
    /\ c.sv = "closed" /\ c.cl = "reading" => Answers(c.cmd, c.did, c.down)
    /\ c.cl = "more" => c.sv = "closed" /\ Rest(c.cmd, c.did, c.down)
    /\ c.cl = "ok" /\ c.cmd \notin {"CloseConnections", "SetClashMode"} => c.did

\* What a stream has written and its client not read.
Streaming(c) ==
  c.cmd \in Streams =>
    /\ IsList(c.down) /\ c.cl \in {"new", "reading", "following", "error"}
    /\ c.cmd = "Group" => \A i \in DOMAIN c.down : c.down[i].t = "groups"
    /\ c.cmd \in {"Log", "Status", "Connections"} => \A i \in DOMAIN c.down : c.down[i].t = c.cmd
    /\ c.cmd = "ClashMode" /\ c.cl # "error" =>
         /\ c.sv = "write" => c.down = <<>> /\ c.cl = "reading"
         /\ c.sv \in {"wait", "update"} /\ c.cl = "reading" => c.down # <<>>
         /\ \A i \in DOMAIN c.down : c.down[i].t = IF c.cl = "reading" /\ i = 1 THEN "modes" ELSE "mode"

ConnOk(c) == Shape(c) /\ Asking(c) /\ Answering(c) /\ Streaming(c)

BusTypes ==
  /\ cmMode \in Seq(Nat) /\ Len(cmMode) >= 1 /\ cmService \in Dead..Len(cmMode)
  /\ cmChan \subseteq Channels /\ cmPend \subseteq Channels
  /\ cmLog = [next |-> cmLog.next, unsaved |-> cmLog.unsaved, queue |-> cmLog.queue, saved |-> cmLog.saved]
  /\ cmLog.next \in Nat /\ cmLog.unsaved \in Seq(Nat) /\ cmLog.saved \in Seq(Nat) /\ Len(cmLog.saved) <= MaxLines
  /\ DOMAIN cmConn \subseteq Nat \ {0} /\ cmConn = [k \in DOMAIN cmConn |-> cmConn[k]]

\* A panic ends every connection.
DeadEnds == cmService = Dead => \A k \in DOMAIN cmConn : cmConn[k].sv = "closed"

\* One client of a command at a time.
OneEach ==
  \A j, k \in DOMAIN cmConn :
    j < k /\ cmConn[j].cmd = cmConn[k].cmd /\ cmConn[k].cl # "new" => cmConn[j].cl = "error"

BusInv == BusTypes /\ DeadEnds /\ OneEach /\ \A k \in DOMAIN cmConn : ConnOk(cmConn[k])

-----------------------------------------------------------------------------
(* Lists. *)

\* The positions of a list.
LEMMA ListIs == ASSUME NEW s, IsList(s) PROVE Len(s) \in Nat /\ DOMAIN s = 1..Len(s)
BY DEF IsList

\* A sequence is a list.
LEMMA MakesList == ASSUME NEW S, NEW s \in Seq(S) PROVE IsList(s)
<1> DEFINE T == {s[i] : i \in DOMAIN s}
<1>1. Len(s) \in Nat /\ DOMAIN s = 1..Len(s) /\ s = [i \in 1..Len(s) |-> s[i]]
  OBVIOUS
<1>2. \A i \in 1..Len(s) : s[i] \in T
  BY <1>1
<1> HIDE DEF T
<1>3. s \in Seq(T)
  BY <1>1, <1>2
<1> QED BY <1>3 DEF IsList, T

\* What Append makes.
LEMMA AppendIs ==
  ASSUME NEW S, NEW s \in Seq(S), NEW e \in S
  PROVE  /\ Append(s, e) \in Seq(S) /\ Len(Append(s, e)) = Len(s) + 1 /\ Append(s, e) # <<>>
         /\ \A i \in 1..Len(s) : Append(s, e)[i] = s[i]
         /\ Append(s, e)[Len(s) + 1] = e
OBVIOUS

\* What Tail leaves.
LEMMA TailIs ==
  ASSUME NEW S, NEW s \in Seq(S), s # <<>>
  PROVE  /\ Tail(s) \in Seq(S) /\ Len(Tail(s)) = Len(s) - 1
         /\ \A i \in 1..Len(Tail(s)) : Tail(s)[i] = s[i + 1]
OBVIOUS

\* The rest of a list.
LEMMA ListTail ==
  ASSUME NEW s, IsList(s), s # <<>>
  PROVE  /\ Head(s) = s[1] /\ 1 \in DOMAIN s
         /\ IsList(Tail(s)) /\ \A i \in DOMAIN Tail(s) : i + 1 \in DOMAIN s /\ Tail(s)[i] = s[i + 1]
         /\ Len(Tail(s)) = Len(s) - 1
<1> DEFINE S == {s[i] : i \in DOMAIN s}
<1>1. s \in Seq(S)
  BY DEF IsList
<1> HIDE DEF S
<1>2. Len(s) \in Nat /\ Len(s) >= 1 /\ DOMAIN s = 1..Len(s) /\ Head(s) = s[1]
  BY <1>1
<1>3. Tail(s) \in Seq(S) /\ Len(Tail(s)) = Len(s) - 1 /\ \A i \in 1..Len(Tail(s)) : Tail(s)[i] = s[i + 1]
  BY <1>1, TailIs
<1>4. IsList(Tail(s)) /\ DOMAIN Tail(s) = 1..Len(Tail(s))
  BY <1>3, MakesList, ListIs
<1> QED BY <1>2, <1>3, <1>4

\* A list and another behind it.
LEMMA ListConcat ==
  ASSUME NEW s, NEW t, IsList(s), IsList(t)
  PROVE  /\ IsList(s \o t) /\ Len(s \o t) = Len(s) + Len(t)
         /\ \A i \in 1..Len(s) : (s \o t)[i] = s[i]
         /\ \A i \in DOMAIN (s \o t) : i \in DOMAIN s \/ (i - Len(s) \in DOMAIN t /\ (s \o t)[i] = t[i - Len(s)])
<1> DEFINE S == {s[i] : i \in DOMAIN s} \cup {t[i] : i \in DOMAIN t}
<1>1. s \in Seq(S) /\ t \in Seq(S)
  <2>1. s = [i \in 1..Len(s) |-> s[i]] /\ t = [i \in 1..Len(t) |-> t[i]] /\ Len(s) \in Nat /\ Len(t) \in Nat
        /\ DOMAIN s = 1..Len(s) /\ DOMAIN t = 1..Len(t)
    BY DEF IsList
  <2>2. (\A i \in 1..Len(s) : s[i] \in S) /\ (\A i \in 1..Len(t) : t[i] \in S)
    BY <2>1
  <2> HIDE DEF S
  <2> QED BY <2>1, <2>2
<1> HIDE DEF S
<1>2. s \o t \in Seq(S) /\ Len(s \o t) = Len(s) + Len(t) /\ (\A i \in 1..Len(s) : (s \o t)[i] = s[i])
      /\ \A i \in 1..Len(s) + Len(t) : i > Len(s) => (s \o t)[i] = t[i - Len(s)]
  BY <1>1
<1>3. IsList(s \o t) /\ DOMAIN (s \o t) = 1..(Len(s) + Len(t)) /\ DOMAIN s = 1..Len(s) /\ DOMAIN t = 1..Len(t)
      /\ Len(s) \in Nat /\ Len(t) \in Nat
  BY <1>1, <1>2, MakesList, ListIs
<1>4. ASSUME NEW i \in 1..(Len(s) + Len(t)), i \notin 1..Len(s) PROVE i - Len(s) \in 1..Len(t) /\ i > Len(s)
  BY <1>3, <1>4
<1>5. ASSUME NEW i \in DOMAIN (s \o t), i \notin DOMAIN s
      PROVE  i - Len(s) \in DOMAIN t /\ (s \o t)[i] = t[i - Len(s)]
  <2>1. i \in 1..(Len(s) + Len(t)) /\ i \notin 1..Len(s)
    BY <1>3, <1>5
  <2> QED BY <1>2, <1>3, <1>4, <2>1
<1> QED BY <1>2, <1>3, <1>5

\* A list of one, and of two.
LEMMA ShortLists ==
  /\ IsList(<<>>) /\ DOMAIN <<>> = {}
  /\ \A a : IsList(<<a>>) /\ DOMAIN <<a>> = {1} /\ <<a>>[1] = a /\ Len(<<a>>) = 1 /\ <<a>> # <<>>
            /\ Head(<<a>>) = a /\ Tail(<<a>>) = <<>>
  /\ \A a, b : IsList(<<a, b>>) /\ DOMAIN <<a, b>> = {1, 2} /\ <<a, b>>[1] = a /\ <<a, b>>[2] = b /\ <<a, b>> # <<>>
               /\ Head(<<a, b>>) = a /\ Tail(<<a, b>>) = <<b>>
<1>1. IsList(<<>>) /\ DOMAIN <<>> = {}
  <2>1. <<>> \in Seq({1}) /\ Len(<<>>) = 0
    OBVIOUS
  <2>2. IsList(<<>>)
    BY <2>1, MakesList
  <2>3. DOMAIN <<>> = 1..0
    BY <2>1, <2>2, ListIs
  <2> QED BY <2>2, <2>3
<1>2. ASSUME NEW a PROVE IsList(<<a>>) /\ DOMAIN <<a>> = {1} /\ <<a>>[1] = a /\ Len(<<a>>) = 1 /\ <<a>> # <<>>
                         /\ Head(<<a>>) = a /\ Tail(<<a>>) = <<>>
  <2>1. <<a>> \in Seq({a}) /\ Len(<<a>>) = 1 /\ DOMAIN <<a>> = 1..1
    OBVIOUS
  <2>2. IsList(<<a>>)
    BY <2>1, MakesList
  <2> QED BY <2>1, <2>2
<1>3. ASSUME NEW a, NEW b
      PROVE  IsList(<<a, b>>) /\ DOMAIN <<a, b>> = {1, 2} /\ <<a, b>>[1] = a /\ <<a, b>>[2] = b /\ <<a, b>> # <<>>
             /\ Head(<<a, b>>) = a /\ Tail(<<a, b>>) = <<b>>
  <2>1. <<a, b>> \in Seq({a, b}) /\ Len(<<a, b>>) = 2 /\ DOMAIN <<a, b>> = 1..2
    OBVIOUS
  <2>2. IsList(<<a, b>>)
    BY <2>1, MakesList
  <2>3. Head(<<a, b>>) = a /\ Tail(<<a, b>>) = <<b>>
    OBVIOUS
  <2> QED BY <2>1, <2>2, <2>3
<1> QED BY <1>1, <1>2, <1>3

-----------------------------------------------------------------------------
(* The wire. *)

\* The arguments a client writes are of the types its handler reads.
LEMMA TypesAgree ==
  ASSUME NEW cmd \in Commands, NEW s, cmd # "CloseConnection"
  PROVE  /\ IsList(ClientWrites(cmd)) /\ ClientWrites(cmd) # <<>> /\ ClientWrites(cmd)[1] = "byte"
         /\ Tail(ClientWrites(cmd)) = Handler(cmd, s).reads
<1>1. \A a, b : IsList(<<"byte", a, b>>) /\ <<"byte", a, b>> # <<>> /\ <<"byte", a, b>>[1] = "byte"
                /\ Tail(<<"byte", a, b>>) = <<a, b>>
  <2> SUFFICES ASSUME NEW a, NEW b
               PROVE  IsList(<<"byte", a, b>>) /\ <<"byte", a, b>> # <<>> /\ <<"byte", a, b>>[1] = "byte"
                      /\ Tail(<<"byte", a, b>>) = <<a, b>>
    OBVIOUS
  <2>1. <<"byte", a, b>> \in Seq({"byte", a, b})
    OBVIOUS
  <2>2. IsList(<<"byte", a, b>>)
    BY <2>1, MakesList
  <2> QED BY <2>2
<1> USE <1>1, ShortLists
<1>2. CASE cmd \in {"Log", "Status", "Group", "Provider", "Connections"}
  <2>1. ClientWrites(cmd) = <<"byte", "int64">> /\ Handler(cmd, s).reads = <<"int64">>
    BY <1>2 DEF ClientWrites, Handler, Streams, Connect
  <2> QED BY <2>1
<1>3. CASE cmd \in {"ClashMode", "GetSystemProxyStatus", "ServiceReload", "ServiceClose", "CloseConnections"}
  <2>1. ClientWrites(cmd) = <<"byte">> /\ Handler(cmd, s).reads = <<>>
    BY <1>3 DEF ClientWrites, Handler, Streams, Connect, GetSystemProxyStatus, ServiceReload, ServiceClose, CloseConnections,
                handleGetSystemProxyStatus, handleServiceReload, handleServiceClose, handleCloseConnections
  <2> QED BY <2>1
<1>4. CASE cmd \in {"URLTest", "SetClashMode", "HealthCheck"}
  <2>1. ClientWrites(cmd) = <<"byte", "string">> /\ Handler(cmd, s).reads = <<"string">>
    BY <1>4 DEF ClientWrites, Handler, Streams, URLTest, SetClashMode, HealthCheck, handleURLTest, handleSetClashMode,
                handleHealthCheck
  <2> QED BY <2>1
<1>5. CASE cmd = "SetSystemProxyEnabled"
  <2>1. ClientWrites(cmd) = <<"byte", "bool">> /\ Handler(cmd, s).reads = <<"bool">>
    BY <1>5 DEF ClientWrites, Handler, Streams, SetSystemProxyEnabled, handleSetSystemProxyEnabled
  <2> QED BY <2>1
<1>6. CASE cmd = "SelectOutbound"
  <2>1. ClientWrites(cmd) = <<"byte", "string", "string">> /\ Handler(cmd, s).reads = <<"string", "string">>
    BY <1>6 DEF ClientWrites, Handler, Streams, SelectOutbound, handleSelectOutbound
  <2> QED BY <2>1
<1>7. CASE cmd \in {"GroupExpand", "ProviderExpand"}
  <2>1. ClientWrites(cmd) = <<"byte", "string", "bool">> /\ Handler(cmd, s).reads = <<"string", "bool">>
    BY <1>7 DEF ClientWrites, Handler, Streams, SetGroupExpand, SetProviderExpand, handleSetGroupExpand, handleSetProviderExpand
  <2> QED BY <2>1
<1> QED BY <1>2, <1>3, <1>4, <1>5, <1>6, <1>7 DEF Commands, Streams

-----------------------------------------------------------------------------
(* One connection. *)

\* Some fields of a connection are set and the others stay.
LEMMA PatchIs ==
  ASSUME NEW c, NEW fields, c = [f \in Fields |-> c[f]]
  PROVE  /\ Patch(c, fields) = [f \in Fields |-> Patch(c, fields)[f]]
         /\ \A f \in Fields : Patch(c, fields)[f] = IF f \in DOMAIN fields THEN fields[f] ELSE c[f]
<1>1. DOMAIN c = Fields
  OBVIOUS
<1> QED BY <1>1 DEF Patch

\* What an invariant of a connection depends on.
Is(c, d, up, down, cl, sv, did, misread) ==
  /\ d = [f \in Fields |-> d[f]] /\ d.cmd = c.cmd
  /\ d.up = up /\ d.down = down /\ d.cl = cl /\ d.sv = sv /\ d.did = did /\ (d.misread => misread)

\* What a patch sets.
LEMMA PatchSets ==
  ASSUME NEW c, c = [f \in Fields |-> c[f]], NEW r, "cmd" \notin DOMAIN r
  PROVE  LET It(f) == IF f \in DOMAIN r THEN r[f] ELSE c[f]
         IN  Is(c, Patch(c, r), It("up"), It("down"), It("cl"), It("sv"), It("did"), It("misread"))
<1> DEFINE e == Patch(c, r)
<1>1. e = [f \in Fields |-> e[f]] /\ \A f \in Fields : e[f] = IF f \in DOMAIN r THEN r[f] ELSE c[f]
  BY PatchIs
<1> HIDE DEF e
<1>2. {"up", "down", "cl", "sv", "did", "misread", "cmd"} \subseteq Fields
  BY DEF Fields
<1> QED BY <1>1, <1>2 DEF Is, e

\* A connection goes on: a client that is not connected stays so, a connection that ended too.
Goes(c, d) ==
  /\ ConnOk(d) /\ d.cmd = c.cmd
  /\ c.cl \in {"new", "error"} => d.cl = c.cl
  /\ c.sv = "closed" => d.sv = "closed"

\* The client writes its command.
LEMMA CommandOk ==
  ASSUME NEW c, ConnOk(c), c.cl = "new", NEW d, NEW cl, cl = IF c.cmd = "CloseConnections" THEN "ok" ELSE "reading",
         Is(c, d, Written(c.cmd), c.down, cl, "accepted", c.did, c.misread)
  PROVE  ConnOk(d)
<1>1. IsList(<<>>) /\ DOMAIN <<>> = {} /\ c.down = <<>>
  BY ShortLists DEF ConnOk, Asking
<1> QED BY <1>1 DEF ConnOk, Shape, Asking, Answering, Streaming, Is, Streams

\* A client that gives up.
LEMMA DisconnectOk ==
  ASSUME NEW c, ConnOk(c), c.cmd \in Streams, c.cl # "new", NEW d, Is(c, d, c.up, c.down, "error", c.sv, c.did, c.misread)
  PROVE  Goes(c, d)
BY DEF ConnOk, Shape, Asking, Answering, Streaming, Is, Goes

\* A stream whose client gave up.
LEMMA KeepAliveOk ==
  ASSUME NEW c, ConnOk(c), c.cmd \in Streams, c.cl = "error", NEW d, Is(c, d, c.up, c.down, c.cl, "closed", c.did, c.misread)
  PROVE  Goes(c, d)
BY DEF ConnOk, Shape, Asking, Answering, Streaming, Is, Goes

\* The process is gone.
LEMMA PanicOk ==
  ASSUME NEW c, ConnOk(c), c.cmd # "ServiceClose" \/ c.cl \in {"new", "error"},
         NEW d, Is(c, d, c.up, c.down, c.cl, "closed", c.did, c.misread)
  PROVE  Goes(c, d)
<1>1. d.cmd \notin Streams /\ d.cl = "reading" => Answers(d.cmd, d.did, d.down)
  BY DEF ConnOk, Shape, Asking, Answering, Is, Answers
<1> QED BY <1>1, ZenonT(40) DEF ConnOk, Shape, Asking, Answering, Streaming, Is, Goes

\* The connection ends before an answer.
LEMMA EOFOk ==
  ASSUME NEW c, ConnOk(c), c.cl \in {"reading", "more", "following"}, c.down = <<>>, c.sv = "closed",
         NEW d, NEW cl, cl = IF c.cmd = "ServiceClose" THEN "ok" ELSE "error",
         Is(c, d, c.up, c.down, cl, c.sv, c.did, c.misread)
  PROVE  Goes(c, d)
<1>1. \A a, b : <<a>> # <<>> /\ <<a, b>> # <<>>
  BY ShortLists
<1>2. c.cmd = "ServiceClose" => c.did
  BY <1>1 DEF ConnOk, Answering, Answers, Rest, Streams
<1> QED BY <1>2 DEF ConnOk, Shape, Asking, Answering, Streaming, Is, Goes, Streams

\* The client of a stream reads a message.
LEMMA ClientStreamOk ==
  ASSUME NEW c, ConnOk(c), c.cmd \in Streams, c.cl \in {"reading", "more", "following"}, c.down # <<>>,
         NEW state \in IF Head(c.down).t # ClientOf(c) THEN {"error", "following"} ELSE {"following"},
         NEW d, Is(c, d, c.up, Tail(c.down), state, c.sv, c.did, c.misread \/ Head(c.down).t # ClientOf(c))
  PROVE  Goes(c, d)
<1>1. /\ Head(c.down) = c.down[1] /\ 1 \in DOMAIN c.down /\ IsList(Tail(c.down))
      /\ \A i \in DOMAIN Tail(c.down) : i \in Nat /\ i >= 1 /\ i + 1 \in DOMAIN c.down /\ Tail(c.down)[i] = c.down[i + 1]
  BY ListTail, ListIs DEF ConnOk, Streaming
<1>2. c.cmd # "Provider" => Head(c.down).t = ClientOf(c)
  BY <1>1 DEF ConnOk, Streaming, ClientOf, Streams
<1>3. c.sv \notin {"idle", "accepted", "command"}
  BY DEF ConnOk, Asking
<1>4. Shape(d) /\ Asking(d) /\ Answering(d)
  BY <1>2, <1>3 DEF ConnOk, Shape, Asking, Answering, Is
<1>5. ASSUME c.cmd = "ClashMode", d.cl # "error"
      PROVE  /\ d.sv # "write" /\ d.cl # "reading"
             /\ \A i \in DOMAIN d.down : d.down[i].t = IF d.cl = "reading" /\ i = 1 THEN "modes" ELSE "mode"
  <2>1. d.sv # "write" /\ d.cl = "following" /\ d.down = Tail(c.down)
    BY <1>5 DEF ConnOk, Streaming, Streams, Is
  <2>2. ASSUME NEW i \in DOMAIN Tail(c.down) PROVE c.down[i + 1].t = "mode"
    <3>1. i + 1 \in DOMAIN c.down /\ i + 1 # 1
      BY <1>1, <2>2
    <3> QED BY <3>1, <1>5 DEF ConnOk, Streaming, Streams
  <2> QED BY <1>1, <2>1, <2>2
<1>6. Streaming(d)
  <2>1. d.cmd = c.cmd /\ d.down = Tail(c.down) /\ d.cl \in {"following", "error"}
    BY DEF Is
  <2>2. c.cmd = "Group" => \A i \in DOMAIN Tail(c.down) : Tail(c.down)[i].t = "groups"
    BY <1>1 DEF ConnOk, Streaming, Streams
  <2>3. c.cmd \in {"Log", "Status", "Connections"} => \A i \in DOMAIN Tail(c.down) : Tail(c.down)[i].t = c.cmd
    BY <1>1 DEF ConnOk, Streaming, Streams
  <2> QED BY <1>1, <1>5, <2>1, <2>2, <2>3 DEF Streaming
<1> QED BY <1>4, <1>6 DEF ConnOk, Goes, Is

\* The client reads a flag, and what follows a true one.
LEMMA ReadErrorOk ==
  ASSUME NEW c, ConnOk(c), c.cmd \notin Streams, c.cl \in {"reading", "more", "following"}, c.down # <<>>,
         NEW d, NEW cl, NEW wants,
         wants = IF c.cl = "more" /\ c.cmd # "GetSystemProxyStatus" THEN "string" ELSE "bool",
         cl = IF c.cl = "reading" THEN (IF Head(c.down).v = TRUE THEN "more" ELSE "ok")
              ELSE IF c.cmd = "GetSystemProxyStatus" THEN "ok" ELSE "error",
         Is(c, d, c.up, Tail(c.down), cl, c.sv, c.did, c.misread \/ Head(c.down).t # wants)
  PROVE  Goes(c, d)
<1>1. c.sv = "closed" /\ c.cl \in {"reading", "more"}
  BY DEF ConnOk, Asking, Answering, Shape
<1>2. \A t, v : Tok(t, v).t = t /\ Tok(t, v).v = v
  BY DEF Tok
<1>3. \A a, b : Head(<<a>>) = a /\ Tail(<<a>>) = <<>> /\ Head(<<a, b>>) = a /\ Tail(<<a, b>>) = <<b>>
  BY ShortLists
<1>4. CASE c.cl = "reading"
  <2>1. Answers(c.cmd, c.did, c.down)
    BY <1>1, <1>4 DEF ConnOk, Answering
  <2>2. CASE c.down = <<Tok("bool", FALSE)>> /\ (c.did \/ c.cmd = "SetClashMode")
    <3>1. Head(c.down).t = "bool" /\ Head(c.down).v # TRUE
      <4>1. PICK no : no = FALSE
        OBVIOUS
      <4>2. Head(c.down) = Tok("bool", no)
        BY <1>3, <2>2, <4>1
      <4>3. Head(c.down).t = "bool" /\ Head(c.down).v = no
        BY <1>2, <4>2
      <4>4. no # TRUE
        BY <4>1, ZenonT(30)
      <4> QED BY <4>3, <4>4
    <3>2. cl = "ok" /\ wants = "bool"
      BY <1>4, <3>1
    <3> QED BY <1>1, <1>4, <2>2, <3>1, <3>2 DEF ConnOk, Shape, Asking, Answering, Streaming, Is, Goes
  <2>3. CASE \/ c.cmd = "GetSystemProxyStatus" /\ c.did /\ \E e \in BOOLEAN : c.down = <<Tok("bool", TRUE), Tok("bool", e)>>
             \/ c.cmd # "GetSystemProxyStatus" /\ c.down = <<Tok("bool", TRUE), Tok("string", "error")>>
    <3>1. Head(c.down).t = "bool" /\ Head(c.down).v = TRUE
      <4>1. Head(c.down) = Tok("bool", TRUE)
        BY <1>3, <2>3
      <4> QED BY <1>2, <4>1, ZenonT(30)
    <3>2. cl = "more" /\ wants = "bool"
      BY <1>4, <3>1
    <3>3. Rest(c.cmd, c.did, Tail(c.down))
      BY <1>3, <2>3, ZenonT(40) DEF Rest
    <3> QED BY <1>1, <1>4, <3>1, <3>2, <3>3 DEF ConnOk, Shape, Asking, Answering, Streaming, Is, Goes
  <2> QED BY <2>1, <2>2, <2>3 DEF Answers
<1>5. CASE c.cl = "more"
  <2>1. Rest(c.cmd, c.did, c.down)
    BY <1>5 DEF ConnOk, Answering
  <2>2. Head(c.down).t = wants /\ (c.cmd = "GetSystemProxyStatus" => c.did)
    BY <1>2, <1>3, <1>5, <2>1 DEF Rest
  <2>3. cl = IF c.cmd = "GetSystemProxyStatus" THEN "ok" ELSE "error"
    BY <1>5
  <2> QED BY <1>1, <1>5, <2>2, <2>3 DEF ConnOk, Shape, Asking, Answering, Streaming, Is, Goes
<1> QED BY <1>1, <1>4, <1>5

\* What the client writes is a list of values of the types it writes.
LEMMA WrittenIs ==
  ASSUME NEW cmd \in Commands, cmd # "CloseConnection"
  PROVE  /\ IsList(Written(cmd)) /\ Written(cmd) # <<>> /\ Head(Written(cmd)).t = "byte"
         /\ \A s : [i \in DOMAIN Tail(Written(cmd)) |-> Tail(Written(cmd))[i].t] = Handler(cmd, s).reads
<1> DEFINE w == ClientWrites(cmd)
           t == Written(cmd)
<1>1. IsList(w) /\ w # <<>> /\ w[1] = "byte" /\ \A s : Tail(w) = Handler(cmd, s).reads
  BY TypesAgree
<1>2. t = [i \in DOMAIN w |-> Tok(w[i], cmd)]
  BY DEF Written
<1>3. /\ 1 \in DOMAIN w /\ IsList(Tail(w)) /\ Len(w) \in Nat /\ DOMAIN w = 1..Len(w)
      /\ \A i \in DOMAIN Tail(w) : i + 1 \in DOMAIN w /\ Tail(w)[i] = w[i + 1]
  BY <1>1, ListTail, ListIs DEF IsList
<1> HIDE DEF w, t
<1>4. t \in Seq({Tok(w[i], cmd) : i \in DOMAIN w}) /\ Len(t) = Len(w)
  BY <1>2, <1>3
<1>5. IsList(t) /\ t # <<>>
  BY <1>3, <1>4, MakesList
<1>6. /\ Head(t) = t[1] /\ IsList(Tail(t)) /\ \A i \in DOMAIN Tail(t) : i + 1 \in DOMAIN t /\ Tail(t)[i] = t[i + 1]
  BY <1>5, ListTail
<1>7. \A i \in DOMAIN t : t[i].t = w[i]
  BY <1>2 DEF Tok
<1>8. Head(t).t = "byte"
  BY <1>1, <1>2, <1>3, <1>6, <1>7
<1>9. DOMAIN Tail(t) = DOMAIN Tail(w)
  <2>1. Len(Tail(t)) = Len(t) - 1 /\ Len(Tail(w)) = Len(w) - 1
    BY <1>1, <1>5, ListTail
  <2>2. DOMAIN Tail(t) = 1..Len(Tail(t)) /\ DOMAIN Tail(w) = 1..Len(Tail(w))
    BY <1>3, <1>6, ListIs
  <2> QED BY <1>4, <2>1, <2>2
<1>10. [i \in DOMAIN Tail(t) |-> Tail(t)[i].t] = Tail(w)
  <2>1. \A i \in DOMAIN Tail(w) : Tail(t)[i].t = Tail(w)[i]
    BY <1>3, <1>6, <1>7, <1>9
  <2>2. Tail(w) = [i \in DOMAIN Tail(w) |-> Tail(w)[i]]
    <3>1. Tail(w) \in Seq({Tail(w)[i] : i \in DOMAIN Tail(w)})
      BY <1>3 DEF IsList
    <3>2. \A S, u : u \in Seq(S) => u = [i \in DOMAIN u |-> u[i]]
      OBVIOUS
    <3> QED BY <3>1, <3>2, ZenonT(30)
  <2> QED BY <1>9, <2>1, <2>2
<1> QED BY <1>1, <1>5, <1>8, <1>10 DEF w, t

\* The server reads the command.
LEMMA ConnectionOk ==
  ASSUME NEW c, ConnOk(c), c.sv = "accepted", NEW d,
         IF Head(c.up).t = "byte" THEN Is(c, d, Tail(c.up), c.down, c.cl, "command", c.did, c.misread)
                                  ELSE Is(c, d, c.up, c.down, c.cl, "closed", c.did, TRUE)
  PROVE  Goes(c, d)
<1>1. c.up = Written(c.cmd) /\ c.cmd \in Commands /\ c.cl # "new" /\ c.down = <<>>
  BY DEF ConnOk, Asking, Shape
<1>2. CASE c.cmd = "CloseConnection"
  <2>1. ClientWrites(c.cmd) = <<"string">>
    BY <1>2 DEF ClientWrites, CloseConnection, Streams
  <2>2. c.up = <<Tok("string", c.cmd)>>
    <3>1. DOMAIN <<"string">> = {1} /\ <<"string">>[1] = "string"
      BY ShortLists
    <3>2. c.up = [i \in {1} |-> Tok("string", c.cmd)]
      BY <1>1, <2>1, <3>1 DEF Written
    <3> QED BY <3>2
  <2>3. Head(c.up) = Tok("string", c.cmd)
    BY <2>2, ShortLists
  <2>4. Head(c.up).t # "byte"
    BY <2>3 DEF Tok
  <2>5. Answers(c.cmd, c.did, <<>>)
    BY <1>2 DEF Answers
  <2>6. Is(c, d, c.up, c.down, c.cl, "closed", c.did, TRUE)
    BY <2>4
  <2>7. Shape(d) /\ Asking(d)
    BY <1>1, <1>2, <2>6 DEF ConnOk, Shape, Asking, Is
  <2>8. Answering(d) /\ Streaming(d)
    BY <1>1, <1>2, <2>5, <2>6 DEF ConnOk, Answering, Streaming, Is, Streams
  <2> QED BY <1>1, <2>6, <2>7, <2>8 DEF ConnOk, Is, Goes
<1>3. CASE c.cmd # "CloseConnection"
  <2>1. Head(c.up).t = "byte"
    BY <1>1, <1>3, WrittenIs
  <2>2. Is(c, d, Tail(c.up), c.down, c.cl, "command", c.did, c.misread)
    BY <2>1
  <2>3. Shape(d) /\ Asking(d)
    BY <1>1, <1>3, <2>2 DEF ConnOk, Shape, Asking, Is
  <2>4. Answering(d) /\ Streaming(d)
    BY <1>1, <1>3, <2>2 DEF ConnOk, Answering, Streaming, Is
  <2> QED BY <1>1, <2>2, <2>3, <2>4 DEF ConnOk, Is, Goes
<1> QED BY <1>2, <1>3

\* What a handler answers.
LEMMA OutcomesOk ==
  ASSUME NEW cmd \in Commands, cmd \notin Streams, NEW s, NEW o \in Handler(cmd, s).outcomes
  PROVE  /\ \/ o.reply # <<Tok("panic", 0)>> /\ Answers(cmd, o.did, o.reply)
            \/ o.reply = <<Tok("panic", 0)>> /\ cmd = "ServiceClose" /\ o.did
         /\ cmd = "SetClashMode" /\ o.did => s # 0
<1>1. /\ \A x, y : Tok("bool", x) # Tok("panic", y)
      /\ \A t, x : <<t>> # <<>> /\ <<t, x>> # <<>> /\ \A u : <<t, x>> # <<u>>
      /\ \A t, u : <<t>> = <<u>> => t = u
  BY DEF Tok
<1>2. \A did, reply : Outcome(did, reply).did = did /\ Outcome(did, reply).reply = reply
  BY DEF Outcome
<1> DEFINE Ends(x) == x.reply # <<Tok("panic", 0)>> /\ Answers(cmd, x.did, x.reply)
           No == <<Tok("bool", FALSE)>>
           Err == <<Tok("bool", TRUE), Tok("string", "error")>>
           Two(e) == <<Tok("bool", TRUE), Tok("bool", e)>>
<1>a. No # <<Tok("panic", 0)>> /\ Err # <<Tok("panic", 0)>> /\ <<>> # <<Tok("panic", 0)>> /\ \A e : Two(e) # <<Tok("panic", 0)>>
  BY <1>1
<1>b. /\ \A x : x.reply = No /\ (x.did \/ cmd = "SetClashMode") => Ends(x)
      /\ \A x : x.reply = Err /\ cmd # "GetSystemProxyStatus" => Ends(x)
      /\ \A x : x.reply = <<>> /\ (x.did \/ cmd # "ServiceClose") => Ends(x)
      /\ \A x : \A e \in BOOLEAN : x.reply = Two(e) /\ x.did /\ cmd = "GetSystemProxyStatus" => Ends(x)
  BY <1>a DEF Answers
<1> HIDE DEF Ends, No, Err, Two
<1>c. \A r : Outcome(TRUE, r).did /\ Outcome(TRUE, r).reply = r
  BY <1>2, ZenonT(30)
<1>d. \A r : ~Outcome(FALSE, r).did /\ Outcome(FALSE, r).reply = r
  <2>1. PICK no : no = FALSE
    OBVIOUS
  <2>2. \A r : Outcome(no, r).did = no /\ Outcome(no, r).reply = r
    BY <1>2
  <2>3. ~no
    BY <2>1
  <2> QED BY <2>1, <2>2, <2>3, ZenonT(30)
<1>3. ASSUME NEW x \in Either, cmd # "GetSystemProxyStatus"
      PROVE  Ends(x)
  <2>1. x = Outcome(TRUE, No) \/ x = Outcome(FALSE, Err)
    BY <1>3 DEF Either, writeError, No, Err
  <2> QED BY <1>3, <1>b, <1>c, <1>d, <2>1
<1>4. ASSUME NEW x \in NotReady, cmd # "GetSystemProxyStatus"
      PROVE  Ends(x) /\ ~x.did
  <2>1. x = Outcome(FALSE, Err)
    BY <1>4 DEF NotReady, writeError, Err
  <2> QED BY <1>4, <1>b, <1>d, <2>1
<1>5. ASSUME NEW x \in Silent, cmd # "ServiceClose"
      PROVE  Ends(x)
  <2>1. x = Outcome(FALSE, <<>>)
    BY <1>5 DEF Silent
  <2> QED BY <1>5, <1>b, <1>d, <2>1
<1>6. CASE cmd \in {"SelectOutbound", "GroupExpand", "ProviderExpand", "CloseConnection"}
  <2>1. o \in Either \cup NotReady
    BY <1>6 DEF Handler, handleSelectOutbound, handleSetGroupExpand, handleSetProviderExpand, handleCloseConnection
  <2> QED BY <1>3, <1>4, <1>6, <2>1 DEF Ends
<1>7. CASE cmd \in {"URLTest", "HealthCheck"}
  <2>1. o \in Either \cup Silent
    BY <1>7 DEF Handler, handleURLTest, handleHealthCheck
  <2> QED BY <1>3, <1>5, <1>7, <2>1 DEF Ends
<1>8. CASE cmd \in {"SetSystemProxyEnabled", "ServiceReload"}
  <2>1. o \in Either
    BY <1>8 DEF Handler, handleSetSystemProxyEnabled, handleServiceReload
  <2> QED BY <1>3, <1>8, <2>1 DEF Ends
<1>9. CASE cmd = "SetClashMode"
  <2>1. CASE s = 0
    <3>1. o \in NotReady
      BY <1>9, <2>1 DEF Handler, handleSetClashMode
    <3> QED BY <1>4, <1>9, <3>1 DEF Ends
  <2>2. CASE s # 0
    <3>1. PICK did \in BOOLEAN : o = Outcome(did, No)
      BY <1>9, <2>2 DEF Handler, handleSetClashMode, writeError, No
    <3>2. o.reply = No
      BY <1>2, <3>1
    <3> QED BY <1>9, <1>b, <2>2, <3>2 DEF Ends
  <2> QED BY <2>1, <2>2
<1>10. CASE cmd = "GetSystemProxyStatus"
  <2>1. o = Outcome(TRUE, No) \/ \E e \in BOOLEAN : o = Outcome(TRUE, Two(e))
    BY <1>10 DEF Handler, handleGetSystemProxyStatus, No, Two
  <2> QED BY <1>10, <1>b, <1>c, <2>1 DEF Ends
<1>11. CASE cmd = "ServiceClose"
  <2>1. o \in Either \/ o = Outcome(TRUE, <<Tok("panic", 0)>>)
    BY <1>11 DEF Handler, handleServiceClose
  <2> QED BY <1>3, <1>11, <1>c, <2>1 DEF Ends
<1>12. CASE cmd = "CloseConnections"
  <2>1. o = Outcome(TRUE, <<>>)
    BY <1>12 DEF Handler, handleCloseConnections
  <2> QED BY <1>12, <1>b, <1>c, <2>1 DEF Ends
<1> QED BY <1>6, <1>7, <1>8, <1>9, <1>10, <1>11, <1>12 DEF Commands

\* The handler of a command read the types its client wrote.
LEMMA ArgumentsAgree ==
  ASSUME NEW c, ConnOk(c), c.sv = "command", NEW s
  PROVE  [i \in DOMAIN c.up |-> c.up[i].t] = Handler(c.cmd, s).reads
<1>1. c.up = Tail(Written(c.cmd)) /\ c.cmd # "CloseConnection" /\ c.cmd \in Commands
  BY DEF ConnOk, Asking, Shape
<1>2. \A r : [i \in DOMAIN Tail(Written(c.cmd)) |-> Tail(Written(c.cmd))[i].t] = Handler(c.cmd, r).reads
  BY <1>1, WrittenIs
<1> QED BY <1>1, <1>2

\* A command is handled and answered.
LEMMA HandleOnceOk ==
  ASSUME NEW c, ConnOk(c), c.cmd \notin Streams, c.sv = "command", NEW s, NEW o \in Handler(c.cmd, s).outcomes,
         NEW d, NEW down, down = IF o.reply = <<Tok("panic", 0)>> THEN <<>> ELSE o.reply,
         Is(c, d, c.up, down, c.cl, "closed", o.did, c.misread)
  PROVE  Goes(c, d)
<1>1. c.cmd \in Commands /\ c.down = <<>> /\ c.cl # "new" /\ (c.cl = "reading" \/ (c.cl = "ok" /\ c.cmd = "CloseConnections"))
  BY DEF ConnOk, Asking, Answering, Shape
<1>2. Answers(c.cmd, o.did, down)
  <2>1. CASE o.reply = <<Tok("panic", 0)>>
    <3>1. down = <<>> /\ o.did /\ c.cmd = "ServiceClose"
      BY <1>1, <2>1, OutcomesOk
    <3> QED BY <3>1 DEF Answers
  <2>2. CASE o.reply # <<Tok("panic", 0)>>
    BY <1>1, <2>2, OutcomesOk
  <2> QED BY <2>1, <2>2
<1>3. Shape(d) /\ Asking(d)
  BY <1>1 DEF ConnOk, Shape, Asking, Is
<1>4. Answering(d) /\ Streaming(d)
  BY <1>1, <1>2 DEF Answering, Streaming, Is
<1> QED BY <1>1, <1>3, <1>4 DEF ConnOk, Is, Goes

\* A stream starts.
LEMMA StreamStartOk ==
  ASSUME NEW c, ConnOk(c), c.cmd \in Streams, c.sv = "command", NEW d,
         NEW sv, sv = IF c.cmd = "Log" THEN "subscribe" ELSE "write",
         Is(c, d, c.up, c.down, c.cl, sv, c.did, c.misread)
  PROVE  Goes(c, d)
<1>1. c.down = <<>> /\ c.cl # "new" /\ c.cl # "following"
  BY DEF ConnOk, Asking
<1>2. IsList(<<>>) /\ DOMAIN <<>> = {}
  BY ShortLists
<1>3. Shape(d) /\ Asking(d) /\ Answering(d)
  BY <1>1 DEF ConnOk, Shape, Asking, Answering, Is
<1>4. Streaming(d)
  BY <1>1, <1>2 DEF ConnOk, Streaming, Is
<1> QED BY <1>1, <1>3, <1>4 DEF ConnOk, Is, Goes

\* A running stream moves on without writing; ClashMode goes from "wait" to "update" this way.
LEMMA StreamMoveOk ==
  ASSUME NEW c, ConnOk(c), c.cmd \in Streams, c.sv \in {"subscribe", "saved", "write", "update", "tick", "wait"},
         NEW d, NEW sv \in {"saved", "write", "update", "tick", "wait"},
         c.cmd = "ClashMode" => c.sv = "wait" /\ sv = "update",
         Is(c, d, c.up, c.down, c.cl, sv, c.did, c.misread)
  PROVE  Goes(c, d)
<1>1. c.cl # "new"
  BY DEF ConnOk, Asking
<1>2. Shape(d) /\ Asking(d) /\ Answering(d)
  BY <1>1 DEF ConnOk, Shape, Asking, Answering, Is
<1>3. Streaming(d)
  BY <1>1 DEF ConnOk, Streaming, Is
<1> QED BY <1>1, <1>2, <1>3 DEF ConnOk, Is, Goes

\* ... or writes messages of its own kind.
LEMMA StreamWriteOk ==
  ASSUME NEW c, ConnOk(c), c.cmd \in Streams \ {"ClashMode"},
         c.sv \in {"subscribe", "saved", "write", "update", "tick", "wait"},
         NEW d, NEW sv \in {"saved", "write", "update", "tick", "wait"}, NEW down,
         IsList(down), c.cmd = "Group" => \A i \in DOMAIN down : down[i].t = "groups",
         c.cmd \in {"Log", "Status", "Connections"} => \A i \in DOMAIN down : down[i].t = c.cmd,
         Is(c, d, c.up, down, c.cl, sv, c.did, c.misread)
  PROVE  Goes(c, d)
<1>1. c.cl # "new"
  BY DEF ConnOk, Asking
<1>2. Shape(d) /\ Asking(d) /\ Answering(d)
  BY <1>1 DEF ConnOk, Shape, Asking, Answering, Is
<1>3. Streaming(d)
  BY <1>1 DEF ConnOk, Streaming, Is
<1> QED BY <1>1, <1>2, <1>3 DEF ConnOk, Is, Goes

\* A message behind a list.
LEMMA ListAppend ==
  ASSUME NEW s, NEW e, IsList(s)
  PROVE  /\ IsList(Append(s, e)) /\ Append(s, e) # <<>>
         /\ \A i \in DOMAIN Append(s, e) : \/ i \in DOMAIN s /\ Append(s, e)[i] = s[i]
                                           \/ i = Len(s) + 1 /\ Append(s, e)[i] = e
<1> DEFINE S == {s[i] : i \in DOMAIN s} \cup {e}
<1>1. s \in Seq(S) /\ e \in S
  <2>1. \A T, U, u : u \in Seq(T) /\ T \subseteq U => u \in Seq(U)
    OBVIOUS
  <2>2. {s[i] : i \in DOMAIN s} \subseteq S
    OBVIOUS
  <2> HIDE DEF S
  <2>3. s \in Seq(S)
    BY <2>1, <2>2, ZenonT(30) DEF IsList
  <2> QED BY <2>3 DEF S
<1> HIDE DEF S
<1>2. /\ Append(s, e) \in Seq(S) /\ Len(Append(s, e)) = Len(s) + 1 /\ Len(s) \in Nat
      /\ \A i \in 1..Len(s) : Append(s, e)[i] = s[i]
      /\ Append(s, e)[Len(s) + 1] = e
  BY <1>1, AppendIs
<1>3. IsList(Append(s, e)) /\ DOMAIN Append(s, e) = 1..(Len(s) + 1) /\ DOMAIN s = 1..Len(s)
  <2>1. IsList(Append(s, e))
    BY <1>2, MakesList
  <2> QED BY <1>2, <2>1, ListIs
<1>4. \A i \in 1..(Len(s) + 1) : i \in 1..Len(s) \/ i = Len(s) + 1
  BY <1>2
<1>5. Append(s, e) # <<>>
  BY <1>1, AppendIs, ZenonT(30)
<1> QED BY <1>2, <1>3, <1>4, <1>5

\* The mode is written: the list of modes first, and the mode from then on.
LEMMA ModeWriteOk ==
  ASSUME NEW c, ConnOk(c), c.cmd = "ClashMode", c.sv \in {"write", "update"},
         NEW d, NEW tok, tok.t = IF c.sv = "write" THEN "modes" ELSE "mode",
         Is(c, d, c.up, Append(c.down, tok), c.cl, "wait", c.did, c.misread)
  PROVE  Goes(c, d)
<1>1. c.cl # "new" /\ IsList(c.down) /\ c.cmd \in Streams
  BY DEF ConnOk, Asking, Streaming, Streams
<1>2. Shape(d) /\ Asking(d) /\ Answering(d)
  BY <1>1 DEF ConnOk, Shape, Asking, Answering, Is
<1>3. /\ IsList(Append(c.down, tok)) /\ Append(c.down, tok) # <<>> /\ Len(c.down) \in Nat /\ DOMAIN c.down = 1..Len(c.down)
      /\ \A i \in DOMAIN Append(c.down, tok) : \/ i \in DOMAIN c.down /\ Append(c.down, tok)[i] = c.down[i]
                                               \/ i = Len(c.down) + 1 /\ Append(c.down, tok)[i] = tok
  BY <1>1, ListAppend, ListIs
<1>4. ASSUME c.cl # "error", NEW i \in DOMAIN Append(c.down, tok)
      PROVE  Append(c.down, tok)[i].t = IF c.cl = "reading" /\ i = 1 THEN "modes" ELSE "mode"
  <2>1. CASE i \in DOMAIN c.down /\ Append(c.down, tok)[i] = c.down[i]
    BY <1>1, <1>4, <2>1 DEF ConnOk, Streaming
  <2>2. CASE i = Len(c.down) + 1 /\ Append(c.down, tok)[i] = tok
    <3>1. CASE c.sv = "write"
      <4>1. c.down = <<>> /\ c.cl = "reading"
        BY <1>1, <1>4, <3>1 DEF ConnOk, Streaming
      <4>2. i = 1
        BY <2>2, <4>1
      <4> QED BY <2>2, <3>1, <4>1, <4>2
    <3>2. CASE c.sv = "update"
      <4>1. c.cl = "reading" => c.down # <<>>
        BY <1>1, <1>4, <3>2 DEF ConnOk, Streaming
      <4>2. c.down # <<>> => Len(c.down) # 0
        BY <1>1 DEF IsList
      <4>3. c.cl = "reading" => i # 1
        BY <1>3, <2>2, <4>1, <4>2
      <4> QED BY <2>2, <3>2, <4>3
    <3> QED BY <3>1, <3>2
  <2> QED BY <1>3, <1>4, <2>1, <2>2
<1>5. Streaming(d)
  <2>1. d.cmd = "ClashMode" /\ d.down = Append(c.down, tok) /\ d.cl = c.cl /\ d.sv = "wait"
    BY DEF Is
  <2>2. c.cl \in {"new", "reading", "following", "error"}
    BY <1>1 DEF ConnOk, Streaming
  <2>3. d.cl # "error" => \A i \in DOMAIN d.down : d.down[i].t = IF d.cl = "reading" /\ i = 1 THEN "modes" ELSE "mode"
    BY <1>4, <2>1
  <2> QED BY <1>3, <2>1, <2>2, <2>3 DEF Streaming
<1> QED BY <1>1, <1>2, <1>5 DEF ConnOk, Is, Goes

\* Fields that are set and do not matter here: what a stream holds for its subscription.
LEMMA StaysOk ==
  ASSUME NEW c, ConnOk(c), NEW d, Is(c, d, c.up, c.down, c.cl, c.sv, c.did, c.misread)
  PROVE  Goes(c, d)
<1>1. Shape(d) /\ Asking(d)
  BY DEF ConnOk, Shape, Asking, Is
<1>2. Answering(d)
  BY DEF ConnOk, Answering, Is
<1>3. Streaming(d)
  BY DEF ConnOk, Streaming, Is
<1> QED BY <1>1, <1>2, <1>3 DEF ConnOk, Is, Goes

-----------------------------------------------------------------------------
(* The steps. *)

\* A step of one connection.
LEMMA OneGoes ==
  ASSUME BusInv, NEW k \in DOMAIN cmConn, NEW d, Goes(cmConn[k], d), cmConn' = [cmConn EXCEPT ![k] = d],
         UNCHANGED <<cmService, cmMode, cmLog, cmPend>>, cmChan' \subseteq cmChan
  PROVE  BusInv'
<1>1. DOMAIN cmConn' = DOMAIN cmConn /\ \A j \in DOMAIN cmConn : cmConn'[j] = IF j = k THEN d ELSE cmConn[j]
  BY DEF BusInv, BusTypes
<1>2. cmConn' = [j \in DOMAIN cmConn' |-> cmConn'[j]]
  OBVIOUS
<1>3. BusTypes'
  BY <1>1, <1>2 DEF BusInv, BusTypes
<1>4. \A j \in DOMAIN cmConn' : ConnOk(cmConn'[j])
  BY <1>1 DEF BusInv, Goes
<1>5. DeadEnds'
  BY <1>1 DEF BusInv, DeadEnds, Goes
<1>6. OneEach'
  <2>1. \A j \in DOMAIN cmConn : /\ cmConn'[j].cmd = cmConn[j].cmd
                                 /\ cmConn[j].cl \in {"new", "error"} => cmConn'[j].cl = cmConn[j].cl
    BY <1>1 DEF Goes
  <2> QED BY <1>1, <2>1 DEF BusInv, OneEach
<1> QED BY <1>3, <1>4, <1>5, <1>6 DEF BusInv

\* The client of a command starts.
LEMMA CommandStep == ASSUME BusInv, NEW k \in DOMAIN cmConn, Command(k) PROVE BusInv'
<1> DEFINE c == cmConn[k]
           cl == IF c.cmd = "CloseConnections" THEN "ok" ELSE "reading"
           d == Patch(c, [up |-> Written(c.cmd), sv |-> "accepted", cl |-> cl])
<1>1. ConnOk(c) /\ c.cl = "new" /\ c = [f \in Fields |-> c[f]] /\ cmConn' = [cmConn EXCEPT ![k] = d] /\ UNCHANGED cmBox
      /\ cmService # Dead
  BY DEF BusInv, ConnOk, Shape, Command, Put, Written
<1>g. \A j \in 1..(k - 1) : cmConn[j].cmd = c.cmd => cmConn[j].cl = "error"
  BY DEF Command
<1>2. Is(c, d, Written(c.cmd), c.down, cl, "accepted", c.did, c.misread)
  BY <1>1, PatchIs DEF Is, Fields
<1> HIDE DEF c, cl, d
<1>3. ConnOk(d)
  BY <1>1, <1>2, CommandOk DEF cl
<1>4. DOMAIN cmConn' = DOMAIN cmConn /\ \A j \in DOMAIN cmConn : cmConn'[j] = IF j = k THEN d ELSE cmConn[j]
  BY <1>1 DEF BusInv, BusTypes
<1>5. cmConn' = [j \in DOMAIN cmConn' |-> cmConn'[j]]
  BY <1>1
<1>6. BusTypes'
  BY <1>1, <1>4, <1>5 DEF BusInv, BusTypes, cmBox
<1>7. \A j \in DOMAIN cmConn' : ConnOk(cmConn'[j])
  BY <1>3, <1>4 DEF BusInv
<1>8. DeadEnds'
  BY <1>1 DEF cmBox, DeadEnds
<1>9. OneEach'
  <2> SUFFICES ASSUME NEW j \in DOMAIN cmConn, NEW m \in DOMAIN cmConn, j < m, cmConn'[j].cmd = cmConn'[m].cmd,
                      cmConn'[m].cl # "new"
               PROVE  cmConn'[j].cl = "error"
    BY <1>4 DEF OneEach
  <2>1. d.cmd = c.cmd
    BY <1>2 DEF Is
  <2>2. j \in Nat /\ m \in Nat /\ j >= 1
    BY DEF BusInv, BusTypes
  <2>3. CASE m = k
    <3>1. j \in 1..(k - 1) /\ j # k
      BY <2>2, <2>3
    <3> QED BY <1>4, <1>g, <2>1, <2>3, <3>1 DEF c
  <2>4. CASE j = k
    <3>1. m # k
      BY <2>2, <2>4
    <3> QED BY <1>1, <1>4, <2>1, <2>4, <3>1 DEF c, BusInv, OneEach
  <2>5. CASE m # k /\ j # k
    BY <1>4, <2>5 DEF BusInv, OneEach
  <2> QED BY <2>3, <2>4, <2>5
<1> QED BY <1>6, <1>7, <1>8, <1>9 DEF BusInv

\* The other steps of a client.
LEMMA ClientSteps ==
  ASSUME BusInv, NEW k \in DOMAIN cmConn, ClientStream(k) \/ readError(k) \/ ClientEOF(k) \/ Disconnect(k)
  PROVE  BusInv'
<1> DEFINE c == cmConn[k]
<1>1. ConnOk(c) /\ c = [f \in Fields |-> c[f]]
  BY DEF BusInv, ConnOk, Shape
<1>2. CASE ClientStream(k)
  <2> DEFINE m == Head(c.down)
  <2>1. c.cmd \in Streams /\ c.cl \in {"reading", "more", "following"} /\ c.down # <<>> /\ UNCHANGED cmBox
    BY <1>2 DEF ClientStream, Waits
  <2> DEFINE got == IF c.cmd = "Log" THEN c.got ELSE m.v
             shown == IF c.cmd # "Log" THEN c.shown ELSE IF m.v = <<>> THEN <<>> ELSE c.shown \o m.v
  <2>3. PICK state \in IF m.t # ClientOf(c) THEN {"error", "following"} ELSE {"following"} :
             cmConn' = [cmConn EXCEPT ![k] = Patch(c, [down |-> Tail(c.down), cl |-> state,
                          misread |-> c.misread \/ m.t # ClientOf(c), got |-> got, shown |-> shown])]
    BY <1>2 DEF ClientStream, Put
  <2> HIDE DEF got, shown
  <2> DEFINE d == Patch(c, [down |-> Tail(c.down), cl |-> state, misread |-> c.misread \/ m.t # ClientOf(c),
                            got |-> got, shown |-> shown])
  <2>4. Is(c, d, c.up, Tail(c.down), state, c.sv, c.did, c.misread \/ m.t # ClientOf(c))
    <3>1. \A mis : Is(c, Patch(c, [down |-> Tail(c.down), cl |-> state, misread |-> mis, got |-> got, shown |-> shown]),
                      c.up, Tail(c.down), state, c.sv, c.did, mis)
      <4> TAKE mis
      <4> DEFINE r == [down |-> Tail(c.down), cl |-> state, misread |-> mis, got |-> got, shown |-> shown]
      <4>1. DOMAIN r = {"down", "cl", "misread", "got", "shown"} /\ r["down"] = Tail(c.down) /\ r["cl"] = state /\ r["misread"] = mis
        OBVIOUS
      <4> HIDE DEF r
      <4>2. Is(c, Patch(c, r), c.up, Tail(c.down), state, c.sv, c.did, mis)
        BY <1>1, <4>1, PatchSets
      <4> QED BY <4>2 DEF r
    <3> QED BY <3>1, ZenonT(30)
  <2> HIDE DEF d, c
  <2>5. Goes(c, d)
    BY <1>1, <2>1, <2>4, ClientStreamOk
  <2> QED BY <2>1, <2>3, <2>5, OneGoes DEF cmBox, d, c
<1>3. CASE readError(k)
  <2> DEFINE m == Head(c.down)
             wants == IF c.cl = "more" /\ c.cmd # "GetSystemProxyStatus" THEN "string" ELSE "bool"
             cl == IF c.cl = "reading" THEN (IF m.v = TRUE THEN "more" ELSE "ok")
                   ELSE IF c.cmd = "GetSystemProxyStatus" THEN "ok" ELSE "error"
             d == Patch(c, [down |-> Tail(c.down), misread |-> c.misread \/ m.t # wants, cl |-> cl])
  <2>1. /\ c.cmd \notin Streams /\ c.cl \in {"reading", "more", "following"} /\ c.down # <<>> /\ UNCHANGED cmBox
        /\ cmConn' = [cmConn EXCEPT ![k] = d]
    BY <1>3 DEF readError, Waits, Put
  <2>2. Is(c, d, c.up, Tail(c.down), cl, c.sv, c.did, c.misread \/ m.t # wants)
    <3> HIDE DEF cl, wants
    <3>1. \A mis : Is(c, Patch(c, [down |-> Tail(c.down), misread |-> mis, cl |-> cl]),
                      c.up, Tail(c.down), cl, c.sv, c.did, mis)
      <4> TAKE mis
      <4> DEFINE r == [down |-> Tail(c.down), misread |-> mis, cl |-> cl]
      <4>1. DOMAIN r = {"down", "misread", "cl"} /\ r["down"] = Tail(c.down) /\ r["cl"] = cl /\ r["misread"] = mis
        OBVIOUS
      <4> HIDE DEF r
      <4>2. Is(c, Patch(c, r), c.up, Tail(c.down), cl, c.sv, c.did, mis)
        BY <1>1, <4>1, PatchSets
      <4> QED BY <4>2 DEF r
    <3> QED BY <3>1, ZenonT(30)
  <2> HIDE DEF d, c, cl, wants
  <2>3. Goes(c, d)
    BY <1>1, <2>1, <2>2, ReadErrorOk DEF cl, wants
  <2> QED BY <2>1, <2>3, OneGoes DEF cmBox, c
<1>4. CASE ClientEOF(k)
  <2> DEFINE cl == IF c.cmd = "ServiceClose" THEN "ok" ELSE "error"
             d == Patch(c, [cl |-> cl])
  <2>1. /\ c.sv = "closed" /\ c.cl \in {"reading", "more", "following"} /\ c.down = <<>> /\ UNCHANGED cmBox
        /\ cmConn' = [cmConn EXCEPT ![k] = d]
    BY <1>4 DEF ClientEOF, Waits, Put
  <2>2. Is(c, d, c.up, c.down, cl, c.sv, c.did, c.misread)
    BY <1>1, PatchIs DEF Is, Fields
  <2> HIDE DEF d, c, cl
  <2>3. Goes(c, d)
    BY <1>1, <2>1, <2>2, EOFOk DEF cl
  <2> QED BY <2>1, <2>3, OneGoes DEF cmBox, c
<1>5. CASE Disconnect(k)
  <2> DEFINE d == Patch(c, [cl |-> "error"])
  <2>1. /\ c.cmd \in Streams /\ c.cl # "new" /\ UNCHANGED cmBox /\ cmConn' = [cmConn EXCEPT ![k] = d]
    BY <1>5 DEF Disconnect, Waits, Put
  <2>2. Is(c, d, c.up, c.down, "error", c.sv, c.did, c.misread)
    BY <1>1, PatchIs DEF Is, Fields
  <2> HIDE DEF d, c
  <2>3. Goes(c, d)
    BY <1>1, <2>1, <2>2, DisconnectOk
  <2> QED BY <2>1, <2>3, OneGoes DEF cmBox, c
<1> QED BY <1>2, <1>3, <1>4, <1>5

\* The server reads a command, starts a stream, or ends one.
LEMMA ServerSteps ==
  ASSUME BusInv, NEW k \in DOMAIN cmConn, handleConnection(k) \/ StreamStart(k) \/ connKeepAlive(k)
  PROVE  BusInv'
<1> DEFINE c == cmConn[k]
<1>1. ConnOk(c) /\ c = [f \in Fields |-> c[f]]
  BY DEF BusInv, ConnOk, Shape
<1>2. CASE handleConnection(k)
  <2> DEFINE d == Patch(c, IF Head(c.up).t = "byte" THEN [sv |-> "command", up |-> Tail(c.up)]
                           ELSE [sv |-> "closed", misread |-> TRUE])
  <2>1. c.sv = "accepted" /\ UNCHANGED cmBox /\ cmConn' = [cmConn EXCEPT ![k] = d]
    BY <1>2 DEF handleConnection, Put
  <2>2. Is(c, Patch(c, [sv |-> "command", up |-> Tail(c.up)]), Tail(c.up), c.down, c.cl, "command", c.did, c.misread)
    <3> DEFINE r == [sv |-> "command", up |-> Tail(c.up)]
    <3>1. DOMAIN r = {"sv", "up"} /\ r["sv"] = "command" /\ r["up"] = Tail(c.up)
      OBVIOUS
    <3> HIDE DEF r
    <3>2. Is(c, Patch(c, r), Tail(c.up), c.down, c.cl, "command", c.did, c.misread)
      BY <1>1, <3>1, PatchSets
    <3> QED BY <3>2 DEF r
  <2>3. Is(c, Patch(c, [sv |-> "closed", misread |-> TRUE]), c.up, c.down, c.cl, "closed", c.did, TRUE)
    <3> DEFINE r == [sv |-> "closed", misread |-> TRUE]
    <3>1. DOMAIN r = {"sv", "misread"} /\ r["sv"] = "closed"
      OBVIOUS
    <3> HIDE DEF r
    <3>2. Is(c, Patch(c, r), c.up, c.down, c.cl, "closed", c.did, r["misread"])
      BY <1>1, <3>1, PatchSets
    <3>3. Is(c, Patch(c, r), c.up, c.down, c.cl, "closed", c.did, TRUE)
      BY <3>2 DEF Is
    <3> QED BY <3>3 DEF r
  <2>4. IF Head(c.up).t = "byte" THEN Is(c, d, Tail(c.up), c.down, c.cl, "command", c.did, c.misread)
                                 ELSE Is(c, d, c.up, c.down, c.cl, "closed", c.did, TRUE)
    BY <2>2, <2>3
  <2> HIDE DEF d, c
  <2>5. Goes(c, d)
    BY <1>1, <2>1, <2>4, ConnectionOk
  <2> QED BY <2>1, <2>5, OneGoes DEF cmBox, c
<1>3. CASE StreamStart(k)
  <2> DEFINE sv == IF c.cmd = "Log" THEN "subscribe" ELSE "write"
             held == IF c.cmd = "Log" THEN cmLog.saved ELSE <<>>
             mis == c.misread \/ ArgumentsDiffer(k)
             r == [sv |-> sv, from |-> cmService, held |-> held, misread |-> mis]
             d == Patch(c, r)
  <2>1. c.cmd \in Streams /\ c.sv = "command" /\ UNCHANGED cmBox /\ cmConn' = [cmConn EXCEPT ![k] = d]
    BY <1>3 DEF StreamStart, Put
  <2>2. mis => c.misread
    BY <1>1, <2>1, ArgumentsAgree DEF ArgumentsDiffer
  <2> HIDE DEF sv, held, mis
  <2>3. DOMAIN r = {"sv", "from", "held", "misread"} /\ r["sv"] = sv /\ r["misread"] = mis
    OBVIOUS
  <2> HIDE DEF r
  <2>4. Is(c, d, c.up, c.down, c.cl, sv, c.did, mis)
    BY <1>1, <2>3, PatchSets
  <2>5. Is(c, d, c.up, c.down, c.cl, sv, c.did, c.misread)
    BY <2>2, <2>4 DEF Is
  <2> HIDE DEF d, c
  <2>6. Goes(c, d)
    BY <1>1, <2>1, <2>5, StreamStartOk DEF sv
  <2> QED BY <2>1, <2>6, OneGoes DEF cmBox, c
<1>4. CASE connKeepAlive(k)
  <2> DEFINE d == Patch(c, [sv |-> "closed", sub |-> <<>>])
  <2>1. c.cmd \in Streams /\ c.cl = "error" /\ UNCHANGED cmBox /\ cmConn' = [cmConn EXCEPT ![k] = d]
    BY <1>4 DEF connKeepAlive, Put
  <2>2. Is(c, d, c.up, c.down, c.cl, "closed", c.did, c.misread)
    BY <1>1, PatchIs DEF Is, Fields
  <2> HIDE DEF d, c
  <2>3. Goes(c, d)
    BY <1>1, <2>1, <2>2, KeepAliveOk
  <2> QED BY <2>1, <2>3, OneGoes DEF cmBox, c
<1> QED BY <1>2, <1>3, <1>4

\* A command is handled; a panic ends every connection.
LEMMA HandleOnceStep == ASSUME BusInv, NEW k \in DOMAIN cmConn, HandleOnce(k) PROVE BusInv'
<1> DEFINE c == cmConn[k]
<1>1. ConnOk(c) /\ c = [f \in Fields |-> c[f]] /\ c.cmd \notin Streams /\ c.sv = "command" /\ c.cmd \in Commands
      /\ c.cl # "new" /\ c.cl # "error" /\ cmService # Dead
  BY DEF BusInv, ConnOk, Shape, Asking, Answering, HandleOnce, DeadEnds
<1>2. PICK o \in Handler(c.cmd, cmService).outcomes :
        LET sets == c.cmd = "SetClashMode" /\ o.did
            panics == o.reply = <<Tok("panic", 0)>>
        IN /\ cmMode' = IF sets THEN [cmMode EXCEPT ![cmService] = @ + 1] ELSE cmMode
           /\ cmPend' = IF sets THEN cmPend \cup {"modeUpdate"} ELSE cmPend
           /\ cmService' = IF panics THEN Dead ELSE cmService
           /\ cmConn' = [j \in DOMAIN cmConn |->
                IF j = k THEN Patch(c, [sv |-> "closed", did |-> o.did, down |-> IF panics THEN <<>> ELSE o.reply,
                                        misread |-> c.misread \/ ArgumentsDiffer(k)])
                ELSE IF panics THEN Patch(cmConn[j], [sv |-> "closed"]) ELSE cmConn[j]]
  BY DEF HandleOnce
<1> DEFINE panics == o.reply = <<Tok("panic", 0)>>
           down == IF panics THEN <<>> ELSE o.reply
           mis == c.misread \/ ArgumentsDiffer(k)
           r == [sv |-> "closed", did |-> o.did, down |-> down, misread |-> mis]
           d == Patch(c, r)
<1>3. Goes(c, d) /\ d.sv = "closed"
  <2>1. mis => c.misread
    BY <1>1, ArgumentsAgree DEF ArgumentsDiffer
  <2> HIDE DEF mis, down
  <2>2. DOMAIN r = {"sv", "did", "down", "misread"} /\ r["sv"] = "closed" /\ r["did"] = o.did /\ r["down"] = down /\ r["misread"] = mis
    OBVIOUS
  <2> HIDE DEF r
  <2>3. Is(c, d, c.up, down, c.cl, "closed", o.did, mis)
    BY <1>1, <2>2, PatchSets
  <2>4. Is(c, d, c.up, down, c.cl, "closed", o.did, c.misread)
    BY <2>1, <2>3 DEF Is
  <2> HIDE DEF d, c
  <2>5. Goes(c, d)
    BY <1>1, <2>4, HandleOnceOk DEF down
  <2> QED BY <2>4, <2>5 DEF Is
<1>4. ASSUME NEW j \in DOMAIN cmConn, j # k, panics
      PROVE  Goes(cmConn[j], Patch(cmConn[j], [sv |-> "closed"])) /\ Patch(cmConn[j], [sv |-> "closed"]).sv = "closed"
  <2> DEFINE b == cmConn[j]
             e == Patch(b, [sv |-> "closed"])
  <2>1. c.cmd = "ServiceClose"
    BY <1>1, <1>4, OutcomesOk
  <2>2. b.cmd # "ServiceClose" \/ b.cl \in {"new", "error"}
    <3>1. j \in Nat /\ k \in Nat
      BY DEF BusInv, BusTypes
    <3>2. j < k \/ k < j
      BY <1>4, <3>1
    <3> QED BY <1>1, <2>1, <3>2 DEF BusInv, OneEach
  <2>3. ConnOk(b) /\ b = [f \in Fields |-> b[f]]
    BY DEF BusInv, ConnOk, Shape
  <2>4. Is(b, e, b.up, b.down, b.cl, "closed", b.did, b.misread)
    BY <2>3, PatchIs DEF Is, Fields
  <2> HIDE DEF b, e
  <2>5. Goes(b, e) /\ e.sv = "closed"
    BY <2>2, <2>3, <2>4, PanicOk DEF Is
  <2> QED BY <2>5 DEF b, e
<1>5. \A j \in DOMAIN cmConn : Goes(cmConn[j], cmConn[j])
  BY DEF BusInv, Goes
<1>6. /\ cmConn' = [j \in DOMAIN cmConn |-> cmConn'[j]] /\ DOMAIN cmConn' = DOMAIN cmConn
      /\ cmConn'[k] = d /\ \A j \in DOMAIN cmConn : j # k => cmConn'[j] = IF panics THEN Patch(cmConn[j], [sv |-> "closed"]) ELSE cmConn[j]
  BY <1>2
<1>7. ASSUME NEW j \in DOMAIN cmConn PROVE Goes(cmConn[j], cmConn'[j]) /\ (panics => cmConn'[j].sv = "closed")
  <2> HIDE DEF panics, d
  <2>1. CASE j = k
    BY <1>3, <1>6, <2>1
  <2>2. CASE j # k /\ panics
    BY <1>4, <1>6, <2>2
  <2>3. CASE j # k /\ ~panics
    BY <1>5, <1>6, <2>3
  <2> QED BY <2>1, <2>2, <2>3
<1>8. cmService' = (IF panics THEN Dead ELSE cmService) /\ UNCHANGED <<cmHist, cmLog, cmChan>>
  BY <1>2 DEF HandleOnce
<1>9. cmMode' \in Seq(Nat) /\ Len(cmMode') = Len(cmMode) /\ cmPend' \subseteq Channels
  <2>1. cmMode \in Seq(Nat) /\ cmPend \subseteq Channels /\ cmService \in Dead..Len(cmMode)
    BY DEF BusInv, BusTypes
  <2>2. CASE c.cmd = "SetClashMode" /\ o.did
    <3>1. cmService # 0
      BY <1>1, <2>2, OutcomesOk
    <3>2. cmService \in 1..Len(cmMode)
      BY <1>1, <2>1, <3>1 DEF Dead
    <3>3. cmMode' = [cmMode EXCEPT ![cmService] = cmMode[cmService] + 1] /\ cmPend' = cmPend \cup {"modeUpdate"}
      BY <1>2, <2>2
    <3> QED BY <2>1, <3>2, <3>3 DEF Channels
  <2>3. CASE ~(c.cmd = "SetClashMode" /\ o.did)
    BY <1>2, <2>1, <2>3
  <2> QED BY <2>2, <2>3
<1> HIDE DEF panics, d
<1>10. BusTypes'
  <2>1. cmService' \in Dead..Len(cmMode')
    BY <1>8, <1>9 DEF BusInv, BusTypes, Dead
  <2> QED BY <1>6, <1>8, <1>9, <2>1 DEF BusInv, BusTypes
<1>11. DeadEnds'
  BY <1>1, <1>6, <1>7, <1>8 DEF DeadEnds
<1>12. OneEach'
  <2>1. \A j \in DOMAIN cmConn : /\ cmConn'[j].cmd = cmConn[j].cmd
                                 /\ cmConn[j].cl \in {"new", "error"} => cmConn'[j].cl = cmConn[j].cl
    BY <1>7 DEF Goes
  <2> QED BY <1>6, <2>1 DEF BusInv, OneEach
<1>13. \A j \in DOMAIN cmConn' : ConnOk(cmConn'[j])
  BY <1>6, <1>7 DEF Goes
<1> QED BY <1>10, <1>11, <1>12, <1>13 DEF BusInv

\* Fields set and the list of messages too.
LEMMA SendSets ==
  ASSUME NEW c, c = [f \in Fields |-> c[f]], NEW r, DOMAIN r \subseteq {"sv", "sent", "sub"}, NEW down
  PROVE  Is(c, Patch(Patch(c, r), [down |-> down]), c.up, down, c.cl, IF "sv" \in DOMAIN r THEN r["sv"] ELSE c.sv,
            c.did, c.misread)
<1> DEFINE d == Patch(c, r)
           u == [down |-> down]
           e == Patch(d, u)
<1>1. d = [f \in Fields |-> d[f]] /\ \A f \in Fields : d[f] = IF f \in DOMAIN r THEN r[f] ELSE c[f]
  BY PatchIs
<1>2. DOMAIN u = {"down"} /\ u["down"] = down
  OBVIOUS
<1> HIDE DEF d, u
<1>3. e = [f \in Fields |-> e[f]] /\ \A f \in Fields : e[f] = IF f \in DOMAIN u THEN u[f] ELSE d[f]
  BY <1>1, PatchIs
<1> HIDE DEF e
<1>4. {"up", "down", "cl", "sv", "did", "misread", "cmd"} \subseteq Fields
  BY DEF Fields
<1>5. Is(c, e, c.up, down, c.cl, IF "sv" \in DOMAIN r THEN r["sv"] ELSE c.sv, c.did, c.misread)
  BY <1>1, <1>2, <1>3, <1>4 DEF Is
<1> QED BY <1>5 DEF e, d, u

\* The groups and the providers.
LEMMA FollowStep ==
  ASSUME BusInv, NEW k \in DOMAIN cmConn, handleGroupConn(k) \/ handleProviderConn(k)
  PROVE  BusInv'
<1> DEFINE c == cmConn[k]
<1>1. ConnOk(c) /\ c = [f \in Fields |-> c[f]] /\ c.cmd \in {"Group", "Provider"} /\ c.cmd \in Streams \ {"ClashMode"}
  BY DEF BusInv, ConnOk, Shape, handleGroupConn, handleProviderConn, Streams
<1>2. PICK list : FollowUpdates(k, list) /\ (c.cmd = "Group" => list.t = "groups")
  BY DEF handleGroupConn, handleProviderConn, writeGroups, Tok
<1>3. UNCHANGED <<cmService, cmMode, cmLog, cmPend>> /\ cmChan' \subseteq cmChan
  BY <1>2 DEF FollowUpdates
<1>4. ASSUME NEW more, more = IF cmService = 0 THEN NoService ELSE <<list>>,
             c.sv = "write", Put(k, [down |-> c.down \o more, sent |-> cmHist, sv |-> "tick"])
      PROVE  BusInv'
  <2> DEFINE r == [down |-> c.down \o more, sent |-> cmHist, sv |-> "tick"]
             d == Patch(c, r)
  <2>1. DOMAIN r = {"down", "sent", "sv"} /\ r["down"] = c.down \o more /\ r["sv"] = "tick"
    OBVIOUS
  <2>2. cmConn' = [cmConn EXCEPT ![k] = d]
    BY <1>4 DEF Put
  <2> HIDE DEF r
  <2>3. Is(c, d, c.up, c.down \o more, c.cl, "tick", c.did, c.misread)
    BY <1>1, <2>1, PatchSets, ZenonT(40)
  <2>4. IsList(more) /\ (c.cmd = "Group" => \A i \in DOMAIN more : more[i].t = "groups")
    <3>1. CASE cmService = 0
      <4>1. more = <<Tok("groups", cmHist), Tok("groups", cmHist)>> /\ Tok("groups", cmHist).t = "groups"
        BY <1>4, <3>1 DEF NoService, Tok
      <4> HIDE DEF c
      <4> QED BY <4>1, ShortLists
    <3>2. CASE cmService # 0
      BY <1>2, <1>4, <3>2, ShortLists
    <3> QED BY <3>1, <3>2
  <2>5. IsList(c.down) /\ (c.cmd = "Group" => \A i \in DOMAIN c.down : c.down[i].t = "groups")
    BY <1>1 DEF ConnOk, Streaming
  <2>6. IsList(c.down \o more) /\ (c.cmd = "Group" => \A i \in DOMAIN (c.down \o more) : (c.down \o more)[i].t = "groups")
    <3> HIDE DEF c
    <3>1. IsList(c.down \o more) /\ DOMAIN c.down = 1..Len(c.down) /\ \A i \in 1..Len(c.down) : (c.down \o more)[i] = c.down[i]
      <4>1. IsList(c.down) /\ IsList(more)
        BY <2>4, <2>5
      <4> QED BY <4>1, ListConcat, ListIs
    <3>2. \A i \in DOMAIN (c.down \o more) : i \in DOMAIN c.down \/ (i - Len(c.down) \in DOMAIN more /\ (c.down \o more)[i] = more[i - Len(c.down)])
      BY <2>4, <2>5, ListConcat
    <3> QED BY <2>4, <2>5, <3>1, <3>2
  <2> HIDE DEF d, c
  <2>7. Goes(c, d)
    BY <1>1, <1>4, <2>3, <2>6, StreamWriteOk
  <2> QED BY <1>3, <2>2, <2>7, OneGoes DEF c
<1>5. ASSUME NEW sv \in {"wait", "write"}, c.sv \in {"tick", "wait"}, Put(k, [sv |-> sv])
      PROVE  BusInv'
  <2> DEFINE d == Patch(c, [sv |-> sv])
  <2>1. Is(c, d, c.up, c.down, c.cl, sv, c.did, c.misread)
    BY <1>1, PatchIs DEF Is, Fields
  <2>2. cmConn' = [cmConn EXCEPT ![k] = d]
    BY <1>5 DEF Put
  <2> HIDE DEF d, c
  <2>3. Goes(c, d)
    BY <1>1, <1>5, <2>1, StreamMoveOk
  <2> QED BY <1>3, <2>2, <2>3, OneGoes DEF c
<1> QED BY <1>2, <1>4, <1>5 DEF FollowUpdates

\* The mode.
LEMMA ModeStep == ASSUME BusInv, NEW k \in DOMAIN cmConn, handleModeConn(k) PROVE BusInv'
<1> DEFINE c == cmConn[k]
<1>1. ConnOk(c) /\ c = [f \in Fields |-> c[f]] /\ c.cmd = "ClashMode" /\ c.cmd \in Streams
  BY DEF BusInv, ConnOk, Shape, handleModeConn, Streams
<1>2. UNCHANGED <<cmService, cmMode, cmLog, cmPend>> /\ cmChan' \subseteq cmChan
  BY DEF handleModeConn
<1>3. ASSUME c.sv \in {"write", "update"},
             Send(k, Tok(IF c.sv = "write" THEN "modes" ELSE "mode", cmMode[c.from]), [sent |-> cmMode[c.from], sv |-> "wait"])
      PROVE  BusInv'
  <2> DEFINE tok == Tok(IF c.sv = "write" THEN "modes" ELSE "mode", cmMode[c.from])
             r == [sent |-> cmMode[c.from], sv |-> "wait"]
             d == Patch(Patch(c, r), [down |-> Append(c.down, tok)])
  <2>1. cmConn' = [cmConn EXCEPT ![k] = d]
    BY <1>3 DEF Send
  <2>2. tok.t = IF c.sv = "write" THEN "modes" ELSE "mode"
    BY DEF Tok
  <2>3. DOMAIN r = {"sent", "sv"} /\ r["sv"] = "wait"
    OBVIOUS
  <2> DEFINE down == Append(c.down, tok)
             sv == IF "sv" \in DOMAIN r THEN r["sv"] ELSE c.sv
  <2> HIDE DEF tok, r, c
  <2>4. sv = "wait" /\ DOMAIN r \subseteq {"sv", "sent", "sub"}
    BY <2>3
  <2> HIDE DEF down
  <2>6. Is(c, d, c.up, down, c.cl, sv, c.did, c.misread)
    BY <1>1, <2>4, SendSets DEF down
  <2> HIDE DEF d, sv
  <2>5. Goes(c, d)
    BY <1>1, <1>3, <2>2, <2>4, <2>6, ModeWriteOk DEF down
  <2> QED BY <1>2, <2>1, <2>5, OneGoes DEF c
<1>4. ASSUME c.sv = "wait", Put(k, [sv |-> "update"])
      PROVE  BusInv'
  <2> DEFINE d == Patch(c, [sv |-> "update"])
  <2>1. Is(c, d, c.up, c.down, c.cl, "update", c.did, c.misread)
    BY <1>1, PatchIs DEF Is, Fields
  <2>2. cmConn' = [cmConn EXCEPT ![k] = d]
    BY <1>4 DEF Put
  <2> HIDE DEF d, c
  <2>3. Goes(c, d)
    BY <1>1, <1>4, <2>1, StreamMoveOk
  <2> QED BY <1>2, <2>2, <2>3, OneGoes DEF c
<1> QED BY <1>3, <1>4 DEF handleModeConn

\* A stream writes one message of its kind.
LEMMA SendStep ==
  ASSUME BusInv, NEW k \in DOMAIN cmConn, cmConn[k].cmd \in {"Log", "Status", "Connections"},
         cmConn[k].sv \in {"write", "wait"}, NEW v, NEW r, DOMAIN r \subseteq {"sv", "sent", "sub"},
         "sv" \in DOMAIN r => r["sv"] = "wait", Send(k, Tok(cmConn[k].cmd, v), r),
         UNCHANGED <<cmService, cmMode, cmLog, cmPend>>, cmChan' \subseteq cmChan
  PROVE  BusInv'
<1> DEFINE c == cmConn[k]
           tok == Tok(c.cmd, v)
           d == Patch(Patch(c, r), [down |-> Append(c.down, tok)])
           sv == IF "sv" \in DOMAIN r THEN r["sv"] ELSE c.sv
<1>1. ConnOk(c) /\ c = [f \in Fields |-> c[f]] /\ c.cmd \in Streams \ {"ClashMode"} /\ tok.t = c.cmd
  BY DEF BusInv, ConnOk, Shape, Streams, Tok
<1>2. cmConn' = [cmConn EXCEPT ![k] = d]
  BY DEF Send
<1>3. Is(c, d, c.up, Append(c.down, tok), c.cl, sv, c.did, c.misread)
  BY <1>1, SendSets
<1>4. IsList(c.down) /\ \A i \in DOMAIN c.down : c.down[i].t = c.cmd
  BY <1>1 DEF ConnOk, Streaming
<1>5. sv \in {"write", "wait"}
  OBVIOUS
<1>6. c.cmd \in {"Log", "Status", "Connections"} /\ c.sv \in {"write", "wait"}
  OBVIOUS
<1> DEFINE down == Append(c.down, tok)
<1> HIDE DEF tok, d, sv, c
<1>7. /\ IsList(down)
      /\ \A i \in DOMAIN down : (i \in DOMAIN c.down /\ down[i] = c.down[i]) \/ down[i] = tok
  BY <1>4, ListAppend
<1> HIDE DEF down
<1>8. \A i \in DOMAIN down : down[i].t = c.cmd
  BY <1>1, <1>4, <1>7
<1>9. Goes(c, d)
  <2>1. Is(c, d, c.up, down, c.cl, sv, c.did, c.misread)
    BY <1>3 DEF down
  <2> QED BY <1>1, <1>5, <1>6, <1>7, <1>8, <2>1, StreamWriteOk
<1> QED BY <1>2, <1>9, OneGoes DEF c

\* Status and connections, at every tick.
LEMMA TickStep ==
  ASSUME BusInv, NEW k \in DOMAIN cmConn, handleStatusConn(k) \/ handleConnectionsConn(k)
  PROVE  BusInv'
<1>1. PICK cmd \in {"Status", "Connections"} : EveryTick(k, cmd)
  BY DEF handleStatusConn, handleConnectionsConn
<1> DEFINE r == [sent |-> 0]
<1>2. DOMAIN r = {"sent"}
  OBVIOUS
<1>3. Send(k, Tok(cmConn[k].cmd, 0), r) /\ cmConn[k].cmd \in {"Status", "Connections"} /\ cmConn[k].sv = "write"
      /\ UNCHANGED <<cmService, cmMode, cmLog, cmPend>> /\ cmChan' = cmChan
  BY <1>1 DEF EveryTick, cmBox
<1> HIDE DEF r
<1> QED BY <1>2, <1>3, SendStep

\* The log.
LEMMA LogStep == ASSUME BusInv, NEW k \in DOMAIN cmConn, handleLogConn(k) PROVE BusInv'
<1> DEFINE c == cmConn[k]
           cleared == IF "logReset" \in cmChan THEN <<Tok("Log", <<>>)>> ELSE <<>>
           kept == IF c.held = <<>> THEN <<>> ELSE <<Tok("Log", [i \in DOMAIN c.held |-> <<"saved", c.held[i]>>])>>
<1>1. ConnOk(c) /\ c = [f \in Fields |-> c[f]] /\ c.cmd = "Log" /\ c.cmd \in Streams \ {"ClashMode"}
  BY DEF BusInv, ConnOk, Shape, handleLogConn, Streams
<1>2. UNCHANGED <<cmService, cmMode, cmLog, cmPend>> /\ cmChan' \subseteq cmChan
  BY DEF handleLogConn
<1>3. ASSUME c.sv = "subscribe", Put(k, [sv |-> "saved"]) PROVE BusInv'
  <2> DEFINE d == Patch(c, [sv |-> "saved"])
  <2>1. Is(c, d, c.up, c.down, c.cl, "saved", c.did, c.misread)
    BY <1>1, PatchIs DEF Is, Fields
  <2>2. cmConn' = [cmConn EXCEPT ![k] = d]
    BY <1>3 DEF Put
  <2> HIDE DEF d, c
  <2>3. Goes(c, d)
    BY <1>1, <1>3, <2>1, StreamMoveOk
  <2> QED BY <1>2, <2>2, <2>3, OneGoes DEF c
<1>4. ASSUME c.sv = "saved", Put(k, [sv |-> "wait", down |-> cleared \o kept]) PROVE BusInv'
  <2> DEFINE down == cleared \o kept
             r == [sv |-> "wait", down |-> down]
             d == Patch(c, r)
  <2>1. cmConn' = [cmConn EXCEPT ![k] = d]
    BY <1>4 DEF Put
  <2>2. \A s \in {cleared, kept} : s = <<>> \/ \E x : s = <<Tok("Log", x)>>
    OBVIOUS
  <2>3. \A s : (s = <<>> \/ \E x : s = <<Tok("Log", x)>>) => IsList(s) /\ \A i \in DOMAIN s : s[i].t = "Log"
    <3>1. \A x : Tok("Log", x).t = "Log"
      BY DEF Tok
    <3> QED BY <3>1, ShortLists
  <2> HIDE DEF cleared, kept, c
  <2>4. \A s \in {cleared, kept} : IsList(s) /\ \A i \in DOMAIN s : s[i].t = "Log"
    BY <2>2, <2>3
  <2>5. /\ IsList(down) /\ DOMAIN cleared = 1..Len(cleared)
        /\ \A i \in 1..Len(cleared) : down[i] = cleared[i]
        /\ \A i \in DOMAIN down : i \in DOMAIN cleared \/ (i - Len(cleared) \in DOMAIN kept /\ down[i] = kept[i - Len(cleared)])
    BY <2>4, ListConcat, ListIs
  <2> HIDE DEF down
  <2>6. DOMAIN r = {"sv", "down"} /\ r["sv"] = "wait" /\ r["down"] = down
    OBVIOUS
  <2> HIDE DEF r
  <2>7. Is(c, d, c.up, down, c.cl, "wait", c.did, c.misread)
    BY <1>1, <2>6, PatchSets
  <2>8. \A i \in DOMAIN down : down[i].t = "Log"
    BY <2>4, <2>5
  <2> HIDE DEF d
  <2>9. Goes(c, d)
    BY <1>1, <1>4, <2>5, <2>7, <2>8, StreamWriteOk
  <2> QED BY <1>2, <2>1, <2>9, OneGoes DEF c
<1>5. ASSUME c.sv = "wait", Send(k, Tok("Log", <<>>), [sv |-> "wait"]) PROVE BusInv'
  <2> DEFINE r == [sv |-> "wait"]
  <2>1. DOMAIN r = {"sv"} /\ r["sv"] = "wait"
    OBVIOUS
  <2>2. Send(k, Tok(c.cmd, <<>>), r)
    BY <1>1, <1>5
  <2> HIDE DEF r
  <2> QED BY <1>1, <1>2, <1>5, <2>1, <2>2, SendStep
<1>6. ASSUME c.sv = "wait", NEW n, Send(k, Tok("Log", [i \in 1..n |-> <<"live", c.sub[i]>>]),
                                        [sub |-> SubSeq(c.sub, n + 1, Len(c.sub))])
      PROVE  BusInv'
  <2> DEFINE r == [sub |-> SubSeq(c.sub, n + 1, Len(c.sub))]
             v == [i \in 1..n |-> <<"live", c.sub[i]>>]
  <2>1. DOMAIN r = {"sub"}
    OBVIOUS
  <2>2. Send(k, Tok(c.cmd, v), r)
    BY <1>1, <1>6
  <2> HIDE DEF r, v
  <2> QED BY <1>1, <1>2, <1>6, <2>1, <2>2, SendStep
<1> QED BY <1>3, <1>4, <1>5, <1>6 DEF handleLogConn

\* Nothing happens to the connections.
LEMMA BoxOnly ==
  ASSUME BusInv, BusTypes', cmConn' = cmConn, cmService' = Dead => cmService = Dead
  PROVE  BusInv'
BY DEF BusInv, DeadEnds, OneEach

\* The service and its history beside the streams.
LEMMA ServiceSteps ==
  ASSUME BusInv, SetService \/ StoreURLTestHistory \/ (\E ch \in Channels : notifyUpdated(ch))
  PROVE  BusInv'
<1>1. cmMode \in Seq(Nat) /\ Len(cmMode) >= 1 /\ cmService \in Dead..Len(cmMode)
  BY DEF BusInv, BusTypes
<1>2. CASE SetService
  <2>1. cmConn' = cmConn /\ cmLog' = cmLog /\ cmChan' = cmChan /\ cmPend' = cmPend \cup {"urlTestUpdate"}
    BY <1>2 DEF SetService
  <2>2. cmMode' \in Seq(Nat) /\ Len(cmMode') >= 1 /\ cmService' \in 0..Len(cmMode')
    <3>1. CASE cmService' = 0 /\ UNCHANGED cmMode
      BY <1>1, <3>1
    <3>2. CASE cmService' = Len(cmMode) + 1 /\ cmMode' = Append(cmMode, Last(cmMode))
      <4>1. Last(cmMode) \in Nat
        BY <1>1 DEF Last
      <4> QED BY <1>1, <3>2, <4>1
    <3> QED BY <1>2, <3>1, <3>2 DEF SetService
  <2>3. cmService' \in Dead..Len(cmMode') /\ cmService' # Dead
    BY <2>2 DEF Dead
  <2>4. BusTypes'
    BY <2>1, <2>2, <2>3 DEF BusInv, BusTypes, Channels
  <2> QED BY <2>1, <2>3, <2>4, BoxOnly
<1>3. CASE StoreURLTestHistory
  <2>1. cmConn' = cmConn /\ cmService' = cmService /\ BusTypes'
    BY <1>3 DEF StoreURLTestHistory, BusInv, BusTypes, Channels
  <2> QED BY <2>1, BoxOnly
<1>4. CASE \E ch \in Channels : notifyUpdated(ch)
  <2>1. cmConn' = cmConn /\ cmService' = cmService /\ BusTypes'
    BY <1>4 DEF notifyUpdated, BusInv, BusTypes
  <2> QED BY <2>1, BoxOnly
<1> QED BY <1>2, <1>3, <1>4

\* The log beside its streams: a line is saved and the oldest one dropped, or the lines are cleared.
LEMMA LogSteps == ASSUME BusInv, WriteMessage \/ ResetLog PROVE BusInv'
<1> DEFINE Log(l) == /\ l = [next |-> l.next, unsaved |-> l.unsaved, queue |-> l.queue, saved |-> l.saved]
                     /\ l.next \in Nat /\ l.unsaved \in Seq(Nat) /\ l.saved \in Seq(Nat) /\ Len(l.saved) <= MaxLines
<1>1. Log(cmLog)
  BY DEF BusInv, BusTypes
<1>2. ASSUME Log(cmLog'), cmConn' = cmConn, UNCHANGED <<cmService, cmMode, cmPend>>, cmChan' \subseteq Channels
      PROVE  BusInv'
  <2>1. BusTypes'
    BY <1>2 DEF BusInv, BusTypes
  <2> QED BY <1>2, <2>1, BoxOnly
<1>3. CASE ResetLog
  <2>1. cmLog' = [cmLog EXCEPT !.saved = <<>>]
    BY <1>3 DEF ResetLog
  <2>2. <<>> \in Seq(Nat) /\ Len(<<>>) <= MaxLines
    BY CmAssumption
  <2>3. Log(cmLog')
    BY <1>1, <2>1, <2>2
  <2> HIDE DEF Log
  <2> QED BY <1>2, <1>3, <2>3 DEF ResetLog, BusInv, BusTypes, Channels
<1>4. CASE WriteMessage
  <2>1. ASSUME cmLog' = [cmLog EXCEPT !.next = @ + 1, !.queue = Append(@, cmLog.next), !.unsaved = Append(@, cmLog.next)]
        PROVE  Log(cmLog')
    <3> DEFINE n == cmLog.next + 1
               q == Append(cmLog.queue, cmLog.next)
               u == Append(cmLog.unsaved, cmLog.next)
    <3>1. n \in Nat /\ u \in Seq(Nat)
      BY <1>1
    <3>2. cmLog' = [cmLog EXCEPT !.next = n, !.queue = q, !.unsaved = u]
      BY <2>1
    <3> HIDE DEF n, q, u
    <3> QED BY <1>1, <3>1, <3>2
  <2>2. ASSUME NEW i \in DOMAIN cmLog.unsaved,
               cmLog' = [cmLog EXCEPT !.unsaved = RemoveAt(@, i),
                           !.saved = LET all == Append(@, cmLog.unsaved[i]) IN IF Len(all) > MaxLines THEN Tail(all) ELSE all]
        PROVE  Log(cmLog')
    <3> DEFINE all == Append(cmLog.saved, cmLog.unsaved[i])
               now == IF Len(all) > MaxLines THEN Tail(all) ELSE all
               left == RemoveAt(cmLog.unsaved, i)
    <3>1. cmLog.unsaved \in Seq(Nat) /\ cmLog.saved \in Seq(Nat) /\ Len(cmLog.saved) <= MaxLines /\ cmLog.unsaved[i] \in Nat
          /\ i \in 1..Len(cmLog.unsaved)
      BY <1>1
    <3>2. left \in Seq(Nat)
      <4>1. \A s \in Seq(Nat), j \in Nat \ {0} : SubSeq(s, 1, j - 1) \in Seq(Nat) \/ j > Len(s)
        OBVIOUS
      <4>2. SubSeq(cmLog.unsaved, 1, i - 1) \in Seq(Nat)
        BY <3>1, <4>1
      <4>3. SubSeq(cmLog.unsaved, i + 1, Len(cmLog.unsaved)) \in Seq(Nat)
        BY <3>1
      <4> QED BY <4>2, <4>3 DEF RemoveAt
    <3>3. all \in Seq(Nat) /\ Len(all) = Len(cmLog.saved) + 1 /\ all # <<>>
      <4> DEFINE s == cmLog.saved
                 x == cmLog.unsaved[i]
      <4>1. s \in Seq(Nat) /\ x \in Nat
        BY <3>1
      <4> HIDE DEF s, x
      <4>2. Append(s, x) \in Seq(Nat) /\ Len(Append(s, x)) = Len(s) + 1 /\ Append(s, x) # <<>>
        BY <4>1, AppendIs
      <4> QED BY <4>2 DEF s, x
    <3> HIDE DEF all
    <3>4. Tail(all) \in Seq(Nat) /\ Len(Tail(all)) = Len(all) - 1
      BY <3>3, TailIs
    <3>5. now \in Seq(Nat) /\ Len(now) <= MaxLines
      BY <3>1, <3>3, <3>4, CmAssumption
    <3>6. cmLog' = [cmLog EXCEPT !.unsaved = left, !.saved = now]
      BY <2>2 DEF all
    <3> HIDE DEF now, left
    <3> QED BY <1>1, <3>2, <3>5, <3>6
  <2>3. Log(cmLog')
    BY <1>4, <2>1, <2>2 DEF WriteMessage
  <2> HIDE DEF Log
  <2> QED BY <1>2, <1>4, <2>3 DEF WriteMessage, BusInv, BusTypes
<1> QED BY <1>3, <1>4

\* A line goes to the subscriptions.
LEMMA DistributeStep == ASSUME BusInv, Distribute PROVE BusInv'
<1> DEFINE e(j) == Patch(cmConn[j], [sub |-> Append(cmConn[j].sub, Head(cmLog.queue))])
<1>1. /\ cmConn' = [j \in DOMAIN cmConn |-> cmConn'[j]] /\ DOMAIN cmConn' = DOMAIN cmConn
      /\ \A j \in DOMAIN cmConn : cmConn'[j] \in {e(j), cmConn[j]}
      /\ cmLog' = [cmLog EXCEPT !.queue = Tail(@)] /\ UNCHANGED <<cmService, cmMode, cmPend, cmChan>>
  BY DEF Distribute
<1>2. ASSUME NEW j \in DOMAIN cmConn PROVE Goes(cmConn[j], cmConn'[j])
  <2> DEFINE c == cmConn[j]
             more == Append(c.sub, Head(cmLog.queue))
  <2>1. ConnOk(c) /\ c = [f \in Fields |-> c[f]]
    BY DEF BusInv, ConnOk, Shape
  <2>2. Goes(c, c)
    BY <2>1 DEF Goes
  <2> HIDE DEF more
  <2>3. Is(c, Patch(c, [sub |-> more]), c.up, c.down, c.cl, c.sv, c.did, c.misread)
    BY <2>1, PatchIs DEF Is, Fields
  <2> HIDE DEF c
  <2>4. Goes(c, Patch(c, [sub |-> more]))
    BY <2>1, <2>3, StaysOk
  <2> QED BY <1>1, <2>2, <2>4 DEF c, more
<1> HIDE DEF e
<1>3. BusTypes'
  BY <1>1 DEF BusInv, BusTypes
<1>4. DeadEnds'
  BY <1>1, <1>2 DEF BusInv, DeadEnds, Goes
<1>5. OneEach'
  <2>1. \A j \in DOMAIN cmConn : /\ cmConn'[j].cmd = cmConn[j].cmd
                                 /\ cmConn[j].cl \in {"new", "error"} => cmConn'[j].cl = cmConn[j].cl
    BY <1>2 DEF Goes
  <2> QED BY <1>1, <2>1 DEF BusInv, OneEach
<1>6. \A j \in DOMAIN cmConn' : ConnOk(cmConn'[j])
  BY <1>1, <1>2 DEF Goes
<1> QED BY <1>3, <1>4, <1>5, <1>6 DEF BusInv

\* Every connection of a session is fresh.
LEMMA BusStarts == CmInit => BusInv
<1> SUFFICES ASSUME NEW session \in CmSessions, NEW service \in {0, 1}, CmStart(session, service)
             PROVE  BusInv
  BY DEF CmInit
<1>1. session \in Seq(Commands)
  BY CmAssumption
<1>2. \A k \in 1..Len(session) : session[k] \in Commands
  BY <1>1
<1>3. ASSUME NEW cmd \in Commands PROVE ConnOk(Fresh(cmd)) /\ Fresh(cmd).cl = "new"
  <2> DEFINE c == Fresh(cmd)
  <2>1. c = [f \in Fields |-> c[f]]
    BY DEF Fresh, Fields
  <2>2. /\ c.cmd = cmd /\ c.down = <<>> /\ c.cl = "new" /\ c.sv = "idle"
    BY DEF Fresh
  <2>3. ~c.misread
    BY DEF Fresh
  <2> HIDE DEF c
  <2>4. IsList(<<>>) /\ DOMAIN <<>> = {}
    BY ShortLists
  <2>5. Shape(c) /\ Asking(c) /\ Answering(c) /\ Streaming(c)
    BY <2>1, <2>2, <2>3, <2>4 DEF Shape, Asking, Answering, Streaming
  <2> QED BY <2>2, <2>5 DEF ConnOk, c
<1>4. cmConn = [k \in 1..Len(session) |-> Fresh(session[k])] /\ Len(session) \in Nat
  BY <1>1 DEF CmStart
<1>5. DOMAIN cmConn = 1..Len(session) /\ cmConn = [k \in DOMAIN cmConn |-> cmConn[k]]
      /\ \A k \in DOMAIN cmConn : cmConn[k] = Fresh(session[k])
  BY <1>4
<1>6. \A k \in DOMAIN cmConn : ConnOk(cmConn[k]) /\ cmConn[k].cl = "new"
  BY <1>2, <1>3, <1>5
<1>7. cmMode \in Seq(Nat) /\ Len(cmMode) = 1 /\ cmService \in {0, 1} /\ cmChan = {} /\ cmPend = {}
  BY DEF CmStart
<1>8. /\ cmLog = [next |-> cmLog.next, unsaved |-> cmLog.unsaved, queue |-> cmLog.queue, saved |-> cmLog.saved]
      /\ cmLog.next = 1 /\ cmLog.unsaved = <<>> /\ cmLog.saved = <<>>
  BY DEF CmStart
<1>9. BusTypes
  <2>1. <<>> \in Seq(Nat) /\ Len(<<>>) = 0
    OBVIOUS
  <2>2. cmService \in Dead..Len(cmMode) /\ Len(cmMode) >= 1 /\ cmService # Dead
    BY <1>7 DEF Dead
  <2>3. DOMAIN cmConn \subseteq Nat \ {0}
    BY <1>4, <1>5
  <2> QED BY <1>5, <1>7, <1>8, <2>1, <2>2, <2>3, CmAssumption DEF BusTypes
<1>10. DeadEnds
  BY <1>7 DEF DeadEnds, Dead
<1>11. OneEach
  BY <1>6 DEF OneEach
<1> QED BY <1>6, <1>9, <1>10, <1>11 DEF BusInv

\* Every step keeps the invariant.
LEMMA BusKeeps == BusInv /\ [CmNext]_cmVars => BusInv'
<1> SUFFICES ASSUME BusInv, [CmNext]_cmVars PROVE BusInv'
  OBVIOUS
<1>1. CASE UNCHANGED cmVars
  <2>1. cmConn' = cmConn /\ cmService' = cmService /\ BusTypes'
    BY <1>1 DEF cmVars, BusInv, BusTypes
  <2> QED BY <2>1, BoxOnly
<1>2. ASSUME NEW k \in DOMAIN cmConn, ClientStep(k) \/ Disconnect(k) PROVE BusInv'
  BY <1>2, CommandStep, ClientSteps DEF ClientStep
<1>3. ASSUME NEW k \in DOMAIN cmConn, ServerStep(k) PROVE BusInv'
  BY <1>3, ServerSteps, HandleOnceStep, FollowStep, ModeStep, LogStep DEF ServerStep
<1>4. ASSUME NEW k \in DOMAIN cmConn, handleStatusConn(k) \/ handleConnectionsConn(k) PROVE BusInv'
  BY <1>4, TickStep
<1>5. CASE SetService \/ StoreURLTestHistory \/ (\E ch \in Channels : notifyUpdated(ch))
  BY <1>5, ServiceSteps
<1>6. CASE WriteMessage \/ ResetLog
  BY <1>6, LogSteps
<1>7. CASE Distribute
  BY <1>7, DistributeStep
<1> QED BY <1>1, <1>2, <1>3, <1>4, <1>5, <1>6, <1>7 DEF CmNext

\* The commands of libbox are sound in every session: of any number of connections, whatever commands they carry and
\* in whatever order, with any number of changes of the service, the mode, the history and the log around them.
THEOREM CommandsAlwaysSound == CmSpec => []CommandsSound
<1>1. BusInv => CommandsSound
  <2> SUFFICES ASSUME BusInv PROVE CommandsSound
    OBVIOUS
  <2>1. \A k \in DOMAIN cmConn : Shape(cmConn[k]) /\ Answering(cmConn[k]) /\ Streaming(cmConn[k])
    BY DEF BusInv, ConnOk
  <2>2. CmTypeOK
    BY <2>1 DEF BusInv, BusTypes, CmTypeOK, Shape
  <2>3. WireAgrees
    BY <2>1 DEF WireAgrees, Shape
  <2>4. NilMeansDone
    BY <2>1 DEF NilMeansDone, Answering, Streaming
  <2> QED BY <2>2, <2>3, <2>4 DEF CommandsSound
<1> QED BY <1>1, BusStarts, BusKeeps, PTL DEF CmSpec
=============================================================================
