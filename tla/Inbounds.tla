------------------------------ MODULE Inbounds ------------------------------
(* The inbounds (inbound/): what each type asks of its configuration, what  *)
(* its Start opens and its Close gives back, how an accepted connection     *)
(* becomes a routed one with its metadata, the UDP loops with their packet  *)
(* buffers, the write-back sockets of tproxy, the streams of a multiplexed  *)
(* connection (common/mux, adapter/conn_router.go), and DNS over HTTP/QUIC. *)
EXTENDS Integers, Sequences, FiniteSets

CONSTANTS InConfigs,    \* inbounds: [type, net, tls, transport, users, over, sysproxy, proxyproto, options]
          InClients,    \* what clients do: [src, local, tls, auth, user, dest, net, alpn]
          InPackets,    \* bound: packets of a UDP session and replies of tproxy
          InQueries,    \* DNS requests: [method, media, message, id, answer, ttls]
          InStreams     \* destinations of the streams of a multiplexed connection

VARIABLES inConf, inPhase,   \* the inbound; "new", "starting", "up", "failed", "closed", "rejected"
          inTodo, inOpen,    \* steps of Start that remain; what is open
          inLoop,            \* loopTCPIn: "none", "accept", "broken", "ended"
          inConn,            \* the connection being handled: [client, step, md]
          inUdp,             \* the UDP loops: [in, out, closed, buf, queue, got, writer]
          inTp,              \* tproxyPacketWriter: [conn, open, failed, last]
          inMux              \* streams of a multiplexed connection: [dest, stream, routed, overlap]

inVars == <<inConf, inPhase, inTodo, inOpen, inLoop, inConn, inUdp, inTp, inMux>>

None == "none"
NoAddr == <<None, 0>>      \* addresses are <<host, port>>
IsPair(a) == a = <<a[1], a[2]>>
NoMd == [inbound |-> None, type |-> None, source |-> None, dest |-> NoAddr, user |-> None]

\* A transport listens on TCP, or on UDP for QUIC, and the lifetimes of DNS records are numbers.
ASSUME InAssumption ==
  /\ \A c \in InConfigs : c.transport \in {None, "tcp", "udp"} /\ IsPair(c.to)
  /\ \A client \in InClients : IsPair(client.local)
  /\ \A q \in InQueries : q.ttls \subseteq Nat

-----------------------------------------------------------------------------
(* New: whether a configuration is accepted.  c.options names the options   *)
(* that are wrong.                                                          *)
TLSOn(c) == c.tls = "on"
Bad(c, option) == option \in c.options
\* mux.NewRouterWithOptions: TCP Brutal asks for a speed.
NewRouterWithOptions(c) == ~Bad(c, "brutal")

NewVMess(c) == NewRouterWithOptions(c) /\ ~Bad(c, "user") /\ ~Bad(c, "transport")
NewVLESS(c) == NewRouterWithOptions(c) /\ ~Bad(c, "transport")
\* A fallback by ALPN needs TLS.
NewTrojan(c) ==
  ~Bad(c, "fallback") /\ (DOMAIN c.fallbackALPN # {} => TLSOn(c)) /\ ~Bad(c, "user")
  /\ ~Bad(c, "transport") /\ NewRouterWithOptions(c)
NewHysteria(c) == TLSOn(c) /\ ~Bad(c, "speed")
NewHysteria2(c) == TLSOn(c) /\ ~Bad(c, "obfs") /\ ~Bad(c, "masquerade")
NewTUIC(c) == TLSOn(c) /\ ~Bad(c, "user")
newShadowsocks(c) == NewRouterWithOptions(c) /\ ~Bad(c, "method")
newShadowsocksMulti(c) == NewRouterWithOptions(c) /\ ~Bad(c, "method") /\ ~Bad(c, "user")
newShadowsocksRelay(c) == NewRouterWithOptions(c) /\ ~Bad(c, "method") /\ ~Bad(c, "user")
NewShadowsocks(c) ==
  /\ ~Bad(c, "users and destinations")
  /\ CASE c.type = "multi" -> newShadowsocksMulti(c)
       [] c.type = "relay" -> newShadowsocksRelay(c)
       [] OTHER -> newShadowsocks(c)
NewShadowTLS(c) == ~Bad(c, "dialer")
NewNaive(c) == ("udp" \in c.net => TLSOn(c)) /\ c.users # <<>>
NewDoH(c) == c.net = {"udp"} => TLSOn(c)
NewDoQ(c) == c.tls # None
\* auto_redirect needs auto_route, and its rule-sets.
NewTun(c) == ~Bad(c, "uid range") /\ ~Bad(c, "auto_redirect") /\ ~Bad(c, "route_address_set")

New(c) ==
  CASE c.type = "vmess" -> NewVMess(c)       [] c.type = "vless" -> NewVLESS(c)
    [] c.type = "trojan" -> NewTrojan(c)     [] c.type = "hysteria" -> NewHysteria(c)
    [] c.type = "hysteria2" -> NewHysteria2(c) [] c.type = "tuic" -> NewTUIC(c)
    [] c.type \in {"shadowsocks", "multi", "relay"} -> NewShadowsocks(c)
    [] c.type = "shadowtls" -> NewShadowTLS(c) [] c.type = "naive" -> NewNaive(c)
    [] c.type = "doh" -> NewDoH(c)           [] c.type = "doq" -> NewDoQ(c)
    [] c.type = "tun" -> NewTun(c)
    [] OTHER -> ~Bad(c, "tls")

-----------------------------------------------------------------------------
(* Start, as the things it opens in their order; Close, as what it closes.  *)
If(cond, steps) == IF cond THEN steps ELSE <<>>
StartTLS(c) == If(TLSOn(c), <<"tls">>)
AdapterStart(c) ==
  If("tcp" \in c.net, <<"tcp">>) \o If("udp" \in c.net, <<"udp">>) \o If(c.sysproxy, <<"system proxy">>)
V2RayStart(c) == StartTLS(c) \o IF c.transport = None THEN AdapterStart(c) ELSE <<c.transport>>
VMessStart(c) == <<"service">> \o V2RayStart(c)
VLESSStart(c) == V2RayStart(c)
TrojanStart(c) == V2RayStart(c)
HysteriaStart(c) == StartTLS(c) \o <<"udp", "service">>
Hysteria2Start(c) == StartTLS(c) \o <<"udp", "service">>
TUICStart(c) == StartTLS(c) \o <<"udp", "service">>
DirectStart(c) == StartTLS(c) \o AdapterStart(c)
HTTPStart(c) == StartTLS(c) \o AdapterStart(c)
\* After the listeners, socket options that may fail.
TProxyStart(c) == AdapterStart(c) \o <<"options">>
NaiveStart(c) == StartTLS(c) \o If("tcp" \in c.net, <<"tcp">>) \o If("udp" \in c.net, <<"udp", "quic">>)
DoHStart(c) ==
  IF TLSOn(c) THEN <<"tls">> \o If("tcp" \in c.net, <<"http">>) \o If("udp" \in c.net, <<"packet", "quic">>)
  ELSE <<"http">>
\* NewDoQ only asks for a TLS section: one that is not enabled gives no
\* configuration, and Start calls a method of nil.
DoQStart(c) == IF TLSOn(c) THEN <<"tls", "packet", "quic">> ELSE <<"nil">>
TunStart(c) == <<"interface", "stack">>

Start(c) ==
  CASE c.type = "vmess" -> VMessStart(c)       [] c.type = "vless" -> VLESSStart(c)
    [] c.type = "trojan" -> TrojanStart(c)     [] c.type = "hysteria" -> HysteriaStart(c)
    [] c.type = "hysteria2" -> Hysteria2Start(c) [] c.type = "tuic" -> TUICStart(c)
    [] c.type = "direct" -> DirectStart(c)     [] c.type = "http" -> HTTPStart(c)
    [] c.type = "tproxy" -> TProxyStart(c)     [] c.type = "naive" -> NaiveStart(c)
    [] c.type = "doh" -> DoHStart(c)           [] c.type = "doq" -> DoQStart(c)
    [] c.type = "tun" -> TunStart(c)           [] OTHER -> AdapterStart(c)

\* ListenTCP keeps no listener when it refuses the proxy protocol.
AdapterClose(c) == {"system proxy", "udp"} \cup IF c.proxyproto THEN {} ELSE {"tcp"}
V2RayClose(c) == AdapterClose(c) \cup {"tls", "service"}
NaiveClose(c) == AdapterClose(c) \cup {"tls", "quic"}
DoHClose(c) == {"http", "quic"}
DoQClose(c) == {"tls", "quic"}
TunClose(c) == {"stack", "interface"}
CloseOf(c) ==
  CASE c.type = "naive" -> NaiveClose(c) [] c.type = "doh" -> DoHClose(c)
    [] c.type = "doq" -> DoQClose(c)     [] c.type = "tun" -> TunClose(c)
    [] OTHER -> V2RayClose(c)
\* What no Close gives back: the socket under a QUIC listener, the
\* certificate watcher of DNS over HTTPS.
Unclosed(c) ==
  CASE c.type = "doh" -> {"tls", "packet"} [] c.type = "doq" -> {"packet"}
    [] OTHER -> IF c.proxyproto THEN {"tcp"} ELSE {}

-----------------------------------------------------------------------------
(* A connection: createMetadata, then the handler of the type.              *)

createMetadata(c, client, md) ==
  [md EXCEPT !.inbound = c.tag, !.type = c.type,
             !.source = IF md.source = None THEN client.src ELSE md.source,
             !.dest = IF md.dest = NoAddr THEN client.local ELSE md.dest]

\* The upstream handlers of adapter/upstream.go: what the service found out.
Upstream(md, dest) == [md EXCEPT !.dest = IF dest = NoAddr THEN md.dest ELSE dest]

Refused == NoMd
\* The user of the session, by its index; one without a name is not set.
UserByIndex(c, md, client) ==
  IF c.users[client.user + 1] = None THEN md ELSE [md EXCEPT !.user = c.users[client.user + 1]]
\* The service has authenticated the client or the connection is refused.
AuthenticatedTo(c, md, client, dest) ==
  IF client.auth THEN UserByIndex(c, Upstream(md, dest), client) ELSE Refused
Authenticated(c, md, client) == AuthenticatedTo(c, md, client, client.dest)
\* tls.ServerHandshake, done by the handler unless a transport did it.
Handshake(c, client) == TLSOn(c) /\ c.transport = None => client.tls

\* A packet connection to the magic address of packetaddr has its addresses
\* inside: it is routed without a destination.
PacketAddr(md, client) ==
  IF client.net = "udp" /\ md.dest[1] = "packetaddr" THEN [md EXCEPT !.dest = NoAddr] ELSE md
VMessConnection(c, md, client) ==
  IF Handshake(c, client) THEN PacketAddr(Authenticated(c, md, client), client) ELSE Refused
VLESSConnection(c, md, client) ==
  IF Handshake(c, client) THEN PacketAddr(Authenticated(c, md, client), client) ELSE Refused

\* A client that is no Trojan client goes to the fallback: that of its ALPN
\* when one was negotiated and some are configured, else the default one.
fallbackConnection(c, md, client) ==
  LET byALPN == DOMAIN c.fallbackALPN # {} /\ client.alpn # None
      to == IF ~byALPN THEN c.fallback
            ELSE IF client.alpn \in DOMAIN c.fallbackALPN THEN c.fallbackALPN[client.alpn] ELSE NoAddr
  IN IF to = NoAddr THEN Refused ELSE [md EXCEPT !.dest = to]
TrojanConnection(c, md, client) ==
  CASE ~Handshake(c, client) -> Refused
    [] client.auth -> Authenticated(c, md, client)
    [] OTHER -> fallbackConnection(c, md, client)

\* The QUIC protocols authenticate the whole session; metadata starts empty.
QUICConnection(c, md, client) ==
  IF client.tls /\ client.auth THEN UserByIndex(c, createMetadata(c, client, Upstream(NoMd, client.dest)), client)
  ELSE Refused
HysteriaConnection(c, md, client) == QUICConnection(c, md, client)
Hysteria2Connection(c, md, client) == QUICConnection(c, md, client)
TUICConnection(c, md, client) == QUICConnection(c, md, client)

ShadowsocksMultiConnection(c, md, client) == Authenticated(c, md, client)
\* The service relays to the destination of the user.
ShadowsocksRelayConnection(c, md, client) == AuthenticatedTo(c, md, client, c.relay[client.user + 1])
ShadowTLSConnection(c, md, client) == Authenticated(c, md, client)

\* HTTP, SOCKS and mixed know the user by name, or none when nobody is asked.
UserConnection(c, md, client) ==
  IF c.users = <<>> THEN Upstream(md, client.dest) ELSE Authenticated(c, md, client)
HTTPConnection(c, md, client) == IF Handshake(c, client) THEN UserConnection(c, md, client) ELSE Refused
NaiveConnection(c, md, client) ==
  LET md0 == [NoMd EXCEPT !.source = client.src, !.dest = client.dest]
  IN IF client.auth THEN UserByIndex(c, createMetadata(c, client, md0), client) ELSE Refused

\* The tunnel: its address, its port or both may be set.
Overridden(c, dest) ==
  CASE c.over = 1 -> c.to [] c.over = 2 -> <<c.to[1], dest[2]>> [] c.over = 3 -> <<dest[1], c.to[2]>> [] OTHER -> dest
DirectConnection(c, md, client) ==
  IF Handshake(c, client) THEN [md EXCEPT !.dest = Overridden(c, md.dest)] ELSE Refused
\* The address the client meant is the local address of the socket.
RedirectConnection(c, md, client) == [md EXCEPT !.dest = client.local]

NewConnection(c, md, client) ==
  CASE c.type = "vmess" -> VMessConnection(c, md, client)   [] c.type = "vless" -> VLESSConnection(c, md, client)
    [] c.type = "trojan" -> TrojanConnection(c, md, client)
    [] c.type = "hysteria" -> HysteriaConnection(c, md, client)
    [] c.type = "hysteria2" -> Hysteria2Connection(c, md, client)
    [] c.type = "tuic" -> TUICConnection(c, md, client)
    [] c.type = "shadowsocks" -> IF client.auth THEN Upstream(md, client.dest) ELSE Refused
    [] c.type = "multi" -> ShadowsocksMultiConnection(c, md, client)
    [] c.type = "relay" -> ShadowsocksRelayConnection(c, md, client)
    [] c.type = "shadowtls" -> ShadowTLSConnection(c, md, client)
    [] c.type = "naive" -> NaiveConnection(c, md, client)
    [] c.type = "http" -> HTTPConnection(c, md, client)
    [] c.type = "mixed" -> UserConnection(c, md, client)
    [] c.type = "direct" -> DirectConnection(c, md, client)
    [] c.type \in {"tproxy", "redirect", "tun"} -> RedirectConnection(c, md, client)
    [] OTHER -> Refused

-----------------------------------------------------------------------------
(* DNS over HTTP and over QUIC; a reply has status 0 when there is none.    *)
Reply(status, maxAge) == [status |-> status, maxAge |-> maxAge]
LeastTTL(ttls) == IF ttls = {} THEN -1 ELSE CHOOSE t \in ttls : \A u \in ttls : t <= u
handleDNSMessage(req) ==
  IF req.message # "query" \/ req.answer = "error" THEN Reply(400, -1) ELSE Reply(200, LeastTTL(req.ttls))
getMethodQueryResult(req) == IF req.message \in {"none", "base64"} THEN Reply(400, -1) ELSE handleDNSMessage(req)
postMethodQueryResult(req) == IF ~req.media THEN Reply(415, -1) ELSE handleDNSMessage(req)
queryRouter(req) ==
  CASE req.method = "HEAD" -> Reply(400, -1) [] req.method = "GET" -> getMethodQueryResult(req)
    [] req.method = "POST" -> postMethodQueryResult(req) [] OTHER -> Reply(501, -1)
\* One message of at least a header, with ID 0, per stream; else no answer.
handleStream(req) == Reply(IF req.message = "query" /\ req.id = 0 /\ req.answer # "error" THEN 200 ELSE 0, -1)

-----------------------------------------------------------------------------
(* The life of an inbound.                                                  *)
NoUdp == [in |-> None, out |-> None, closed |-> FALSE, buf |-> 0, queue |-> <<>>, got |-> <<>>, writer |-> None]
NoTp == [conn |-> 0, open |-> {}, failed |-> FALSE, last |-> 0]
NoMux == [dest |-> "mux", stream |-> [i \in DOMAIN InStreams |-> "new"],
          routed |-> [i \in DOMAIN InStreams |-> "none"], overlap |-> FALSE]
NoConn == [step |-> None, client |-> CHOOSE x \in InClients : TRUE, md |-> NoMd,
           query |-> CHOOSE q \in InQueries : TRUE, reply |-> Reply(0, -1)]

InStart(c, phase) ==
  /\ inConf = c /\ inPhase = phase /\ inTodo = <<>> /\ inOpen = {} /\ inLoop = None
  /\ inConn = NoConn /\ inUdp = NoUdp /\ inTp = NoTp /\ inMux = NoMux
InInit == \E c \in InConfigs : InStart(c, "new")

inParts == <<inConn, inUdp, inTp, inMux>>

Create ==
  /\ inPhase = "new"
  /\ inPhase' = IF New(inConf) THEN "starting" ELSE "rejected"
  /\ inTodo' = Start(inConf)
  /\ UNCHANGED <<inConf, inOpen, inLoop, inParts>>

\* A step of Start succeeds, and its loop runs from then on, or it fails; a
\* listener the proxy protocol forbids is open and failed.
StartStep ==
  /\ inPhase = "starting" /\ inTodo # <<>>
  /\ LET what == Head(inTodo) refused == what = "tcp" /\ inConf.proxyproto IN
     \/ /\ what # "nil" /\ ~refused
        /\ inTodo' = Tail(inTodo) /\ inOpen' = inOpen \cup ({what} \ {"options"}) /\ inPhase' = inPhase
        /\ inLoop' = IF what = "tcp" /\ inConf.transport = None /\ inConf.type # "naive" THEN "accept" ELSE inLoop
        /\ inUdp' = IF what = "udp" /\ inConf.session THEN [inUdp EXCEPT !.in = "run", !.out = "run"] ELSE inUdp
     \/ /\ inTodo' = <<>> /\ inPhase' = IF what = "nil" THEN "panic" ELSE "failed"
        /\ inOpen' = IF refused THEN inOpen \cup {what} ELSE inOpen
        /\ UNCHANGED <<inLoop, inUdp>>
  /\ UNCHANGED <<inConf, inConn, inTp, inMux>>
Started ==
  /\ inPhase = "starting" /\ inTodo = <<>> /\ inPhase' = "up"
  /\ UNCHANGED <<inConf, inTodo, inOpen, inLoop, inParts>>

\* The box closes every inbound, started or not.
Close ==
  /\ inPhase \in {"up", "failed"} /\ inPhase' = "closed"
  /\ inOpen' = inOpen \ CloseOf(inConf)
  /\ UNCHANGED <<inConf, inTodo, inLoop, inParts>>

-----------------------------------------------------------------------------
(* loopTCPIn and the connections it starts.                                 *)
injectTCP ==
  /\ inLoop = "accept" /\ "tcp" \in inOpen /\ inConn.step = None
  /\ \E client \in InClients :
       inConn' = [inConn EXCEPT !.step = "accepted", !.client = client,
                                !.md = createMetadata(inConf, client, NoMd)]
  /\ UNCHANGED <<inConf, inPhase, inTodo, inOpen, inLoop, inUdp, inTp, inMux>>

\* Connections that come from a transport, from QUIC or from the kernel.
newTransportConnection ==
  /\ inPhase = "up" /\ inLoop = None /\ inConn.step = None /\ inConf.type \notin {"doh", "doq"}
  /\ \E client \in InClients :
       inConn' = [inConn EXCEPT !.step = "accepted", !.client = client,
                                !.md = createMetadata(inConf, client, [NoMd EXCEPT !.source = client.src])]
  /\ UNCHANGED <<inConf, inPhase, inTodo, inOpen, inLoop, inUdp, inTp, inMux>>

Route ==
  /\ inConn.step = "accepted"
  /\ LET md == NewConnection(inConf, inConn.md, inConn.client) IN
       inConn' = [inConn EXCEPT !.md = md, !.step = IF md = Refused THEN "refused" ELSE "routed"]
  /\ UNCHANGED <<inConf, inPhase, inTodo, inOpen, inLoop, inUdp, inTp, inMux>>

Query ==
  /\ inPhase = "up" /\ inConf.type \in {"doh", "doq"} /\ inConn.step = None
  /\ \E q \in InQueries :
       inConn' = [inConn EXCEPT !.step = "answered", !.query = q,
                                !.reply = IF inConf.type = "doh" THEN queryRouter(q) ELSE handleStream(q)]
  /\ UNCHANGED <<inConf, inPhase, inTodo, inOpen, inLoop, inUdp, inTp, inMux>>

\* An error that is not temporary closes the listener, and the loop goes on
\* accepting from it until the inbound is closed.
AcceptError ==
  /\ inLoop = "accept" /\ inPhase = "up" /\ inLoop' = "broken" /\ inOpen' = inOpen \ {"tcp"}
  /\ UNCHANGED <<inConf, inPhase, inTodo, inParts>>
LoopEnd ==
  /\ inLoop \in {"accept", "broken"} /\ inPhase = "closed" /\ inLoop' = "ended"
  /\ UNCHANGED <<inConf, inPhase, inTodo, inOpen, inParts>>

-----------------------------------------------------------------------------
(* The UDP loops.                                                           *)
inRest == <<inConf, inPhase, inTodo, inOpen, inLoop, inConn, inTp, inMux>>
Read == Len(inUdp.queue) + Len(inUdp.got) + 1

\* Mutant of loopUDPIn: one buffer for every handler.
loopUDPInShared ==
  /\ inUdp.in = "run" /\ "udp" \in inOpen /\ Read <= InPackets
  /\ inUdp' = IF inConf.retains
              THEN [inUdp EXCEPT !.buf = Read, !.queue = Append(@, 0)]
              ELSE [inUdp EXCEPT !.buf = Read, !.got = Append(@, Read)]
  /\ UNCHANGED inRest

\* One buffer is read into again and again when the handler is done with it on
\* return; a handler that queues packets (a UDP NAT) has loopUDPInThreadSafe,
\* with a buffer for each.  A queued 0 stands for the shared buffer.
loopUDPIn ==
  /\ inUdp.in = "run" /\ "udp" \in inOpen /\ Read <= InPackets
  /\ inUdp' = IF inConf.retains
              THEN [inUdp EXCEPT !.queue = Append(@, Read)]
              ELSE [inUdp EXCEPT !.buf = Read, !.got = Append(@, Read)]
  /\ UNCHANGED inRest
SessionReads ==
  /\ inUdp.queue # <<>>
  /\ inUdp' = [inUdp EXCEPT !.queue = Tail(@),
                            !.got = Append(@, IF Head(inUdp.queue) = 0 THEN inUdp.buf ELSE Head(inUdp.queue))]
  /\ UNCHANGED inRest

\* A read that fails ends the loop, and closes packetOutboundClosed.
loopUDPInEnds ==
  /\ inUdp.in = "run" /\ (inPhase \in {"up", "closed"})
  /\ inUdp' = [inUdp EXCEPT !.in = "ended", !.closed = TRUE]
  /\ UNCHANGED inRest

WritePacket ==
  /\ inUdp.out # None /\ inUdp.got # <<>> /\ inUdp.writer = None /\ inUdp' = [inUdp EXCEPT !.writer = "waiting"]
  /\ UNCHANGED inRest

WritePacketClosed ==
  /\ inUdp.writer = "waiting" /\ inUdp.closed /\ inUdp' = [inUdp EXCEPT !.writer = "closed"]
  /\ UNCHANGED inRest

\* It writes what it is given until the input is closed, takes what is there
\* without writing it, and ends.
loopUDPOut ==
  /\ \/ inUdp.out = "run" /\ inUdp.writer = "waiting" /\ inUdp' = [inUdp EXCEPT !.writer = "written"]
     \/ inUdp.out = "run" /\ inUdp.closed /\ inUdp' = [inUdp EXCEPT !.out = "drain"]
     \/ inUdp.out = "drain" /\ inUdp.writer = "waiting" /\ inUdp' = [inUdp EXCEPT !.writer = "dropped"]
     \/ inUdp.out = "drain" /\ inUdp.writer # "waiting" /\ inUdp' = [inUdp EXCEPT !.out = "ended"]
  /\ UNCHANGED inRest

-----------------------------------------------------------------------------
(* tproxyPacketWriter: a socket for the replies of the first destination is *)
(* kept, those for other addresses are closed at once.                      *)
inTpRest == <<inConf, inPhase, inTodo, inOpen, inLoop, inConn, inUdp, inMux>>

tproxyWritePacket(first) ==
  /\ inConf.type = "tproxy" /\ inPhase = "up" /\ inTp.last < InPackets
  /\ LET fd == inTp.last + 1 IN
     IF first /\ inTp.conn # 0
     THEN \E ok \in BOOLEAN :
            inTp' = [inTp EXCEPT !.last = fd, !.conn = IF ok THEN @ ELSE 0, !.failed = @ \/ ~ok]
     ELSE inTp' = [inTp EXCEPT !.last = fd, !.conn = IF first THEN fd ELSE @,
                               !.open = IF first THEN @ \cup {fd} ELSE @]
  /\ UNCHANGED inTpRest

-----------------------------------------------------------------------------
(* Streams of one multiplexed connection: each sets the destination in the  *)
(* metadata of the connection, which is one for all, and routes a copy.     *)
inMuxRest == <<inConf, inPhase, inTodo, inOpen, inLoop, inConn, inUdp, inTp>>
Between == {i \in DOMAIN InStreams : inMux.stream[i] = "set"}

StreamSets(i) ==
  /\ inConf.mux /\ inConn.step = "routed" /\ inMux.stream[i] = "new"
  /\ inMux' = [inMux EXCEPT !.dest = InStreams[i], !.stream[i] = "set", !.overlap = @ \/ Between # {}]
  /\ UNCHANGED inMuxRest
StreamRoutes(i) ==
  /\ inMux.stream[i] = "set"
  /\ inMux' = [inMux EXCEPT !.routed[i] = inMux.dest, !.stream[i] = "routed"]
  /\ UNCHANGED inMuxRest

InUdpStep == loopUDPIn \/ SessionReads \/ loopUDPInEnds \/ WritePacket \/ WritePacketClosed \/ loopUDPOut
InNext ==
  \/ Create \/ StartStep \/ Started \/ Close
  \/ injectTCP \/ newTransportConnection \/ Query \/ Route \/ AcceptError \/ LoopEnd
  \/ InUdpStep
  \/ \E first \in BOOLEAN : tproxyWritePacket(first)
  \/ \E i \in DOMAIN InStreams : StreamSets(i) \/ StreamRoutes(i)
InSpec == InInit /\ [][InNext]_inVars

\* The loops run: Go's scheduler runs every goroutine that can, and a closed
\* socket fails the read at once.
InFairness ==
  /\ WF_inVars(LoopEnd)
  /\ WF_inVars(inPhase = "closed" /\ loopUDPInEnds)
  /\ WF_inVars(loopUDPOut \/ WritePacketClosed)

-----------------------------------------------------------------------------
(* Properties.                                                              *)

\* The phases, and nothing open that the inbound does not know.
InTypeOK ==
  /\ inPhase \in {"new", "starting", "up", "failed", "closed", "rejected", "panic"}
  /\ inLoop \in {None, "accept", "broken", "ended"}
  /\ inOpen \subseteq {"tcp", "udp", "tls", "service", "system proxy", "quic", "http", "packet", "interface", "stack"}

\* Whatever step of Start failed, Close gives back all that was opened but the
\* sockets under QUIC listeners and the watcher of DNS over HTTPS.
InboundGivesBack == inPhase = "closed" => inOpen \subseteq Unclosed(inConf)

\* A routed connection is that of an authenticated client: it goes where the
\* client asked (or where the tunnel, the relay or a fallback send it) under
\* the name of the user whose key it used, and from this inbound.  A client that
\* names no destination is outside this.
RightFor(c, client, md) ==
  /\ md.inbound = c.tag /\ md.source = client.src
  /\ md.user # None => client.auth /\ c.users[client.user + 1] = md.user
  /\ c.type \in {"vmess", "vless", "hysteria", "hysteria2", "tuic", "multi", "naive", "shadowtls"} =>
       /\ client.auth
       /\ client.dest # NoAddr =>
            md.dest = IF c.type \in {"vmess", "vless"} /\ client.net = "udp" /\ client.dest[1] = "packetaddr"
                      THEN NoAddr ELSE client.dest
       /\ c.users[client.user + 1] # None => md.user = c.users[client.user + 1]
  /\ c.type \in {"http", "mixed", "shadowsocks"} =>
       /\ c.users # <<>> \/ c.type = "shadowsocks" => client.auth
       /\ client.dest # NoAddr => md.dest = client.dest
  /\ c.type = "relay" => client.auth /\ (c.relay[client.user + 1] # NoAddr => md.dest = c.relay[client.user + 1])
  /\ c.type = "trojan" =>
       IF client.auth THEN client.dest # NoAddr => md.dest = client.dest
       ELSE md.user = None /\ md.dest \in {c.fallback} \cup {c.fallbackALPN[p] : p \in DOMAIN c.fallbackALPN}
  /\ c.type \in {"redirect", "tproxy", "tun"} => md.dest = client.local
  /\ c.type = "direct" =>
       md.dest = <<IF c.over \in {1, 2} THEN c.to[1] ELSE client.local[1],
                   IF c.over \in {1, 3} THEN c.to[2] ELSE client.local[2]>>
ConnectionRight == inConn.step = "routed" => RightFor(inConf, inConn.client, inConn.md)

\* A DNS client gets an answer exactly when its request is well-formed for its
\* protocol and the router answers; a cache may keep it for no longer than any
\* of its records lives.
DnsReplyRight ==
  LET q == inConn.query r == inConn.reply IN
  inConn.step = "answered" =>
    /\ r.status = 200 <=>
         /\ q.message = "query" /\ q.answer # "error"
         /\ IF inConf.type = "doq" THEN q.id = 0 ELSE q.method = "GET" \/ (q.method = "POST" /\ q.media)
    /\ inConf.type = "doh" /\ r.status = 200 => \A t \in q.ttls : r.maxAge <= t /\ r.maxAge >= 0

\* A UDP session gets the packets of its client, each as it came and in their
\* order, though packets are still being read while earlier ones are queued.
PacketsIntact == \A i \in DOMAIN inUdp.got : inUdp.got[i] = i

\* A reply being written always comes back, even when the loops are ending.
WriteReturns == (inUdp.writer = "waiting") ~> (inUdp.writer # "waiting")

\* A closed inbound has no loop left running.
LoopsEnd == (inPhase = "closed") ~> (inLoop \notin {"accept", "broken"} /\ inUdp.in # "run" /\ inUdp.out \in {None, "ended"})

\* While no write fails, a tproxy session has one socket open, the one it
\* keeps; after a failed write the socket before is left open.
OneReplySocket == ~inTp.failed => inTp.open = {inTp.conn} \ {0}

\* Every stream of a multiplexed connection is routed to its own destination,
\* unless another one wrote to the metadata they share in between.
StreamsApart ==
  ~inMux.overlap => \A i \in DOMAIN InStreams : inMux.stream[i] = "routed" => inMux.routed[i] = InStreams[i]

-----------------------------------------------------------------------------
(* The properties above, by subject. *)

\* What an inbound hands to the router and back to its client: the user and destination of an authenticated
\* client, a session's packets as they came, each stream to its own destination, and a DNS answer to a
\* well-formed query.
InboundsSound ==
  /\ InTypeOK
  /\ ConnectionRight
  /\ DnsReplyRight
  /\ PacketsIntact
  /\ StreamsApart
=============================================================================
