----------------------------- MODULE Outbounds -----------------------------
(***************************************************************************)
(* The protocol outbounds (outbound/*.go): what each constructor makes of  *)
(* its options, and one connection through the outbound, from              *)
(* NewConnection or NewPacketConnection (entry "route"), or from a         *)
(* DialContext of another dialer (entry "dial"), over the addresses that   *)
(* are tried and the steps of each dial, to the relay.                     *)
(*                                                                         *)
(* A host is an IPv4 or IPv6 address or a name; a destination is a host    *)
(* and a port.  What the protocol libraries do on the wire is external:    *)
(* a connection is known by what it asks of the server.                    *)
(***************************************************************************)
EXTENDS Integers, Sequences, FiniteSets, TLC

CONSTANTS ObScenarios, \* [options, req], see MCData
          ObChunks,    \* bound on the chunks that the application writes
          ObPorts      \* source ports of the connections that the loopback detector sees

VARIABLES obScn, ob, obLoop
obVars == <<obScn, ob, obLoop>>

IsFqdn(d) == d.host = "name"
Is4(a) == a \in {"a4", "b4", "o4"}
Dest(host, port) == [host |-> host, port |-> port]
Only(seq, Keep(_)) == SelectSeq(seq, Keep)
Not4(a) == ~Is4(a)

-----------------------------------------------------------------------------
(* Constructors.  h.ok says that there was no error; the other fields are the outbound's. *)

ObRefused == [ok |-> FALSE]
Outbound(o) ==
  [ok |-> TRUE, type |-> o.type, network |-> o.network, tls |-> FALSE, transport |-> "",
   mux |-> FALSE, uot |-> FALSE, plugin |-> "", xudp |-> FALSE, packetAddr |-> FALSE, resolve |-> FALSE,
   overrideOption |-> 0, override |-> Dest("", 0), strategy |-> "as_is", udpStream |-> FALSE,
   udp |-> TRUE, peers |-> <<>>]
Unless(error, h) == IF error THEN ObRefused ELSE h

\* tls.NewClient: whether there is a configuration; its own errors are o.tlsBad.
TLS(o) == o.tls = "on"
TLSError(o) == o.tls = "on" /\ o.tlsBad

\* v2ray.NewClientTransport; transport quic needs TLS.
NewClientTransport(o) == IF o.transport = "nil" THEN "" ELSE o.transport
TransportError(o) == o.transport = "unknown" \/ (o.transport = "quic" /\ ~TLS(o))

\* mux.NewClientWithOptions.
MuxError(o) == o.mux = "slow brutal"
NewMux(o) == o.mux # "off"

ObNewVLESS(o) ==
  Unless(TLSError(o) \/ TransportError(o) \/ MuxError(o) \/ o.idBad \/ o.encoding = "unknown",
    [xudp |-> o.encoding \in {"nil", "xudp"}, packetAddr |-> o.encoding = "packetaddr", tls |-> TLS(o),
     transport |-> NewClientTransport(o), mux |-> NewMux(o)] @@ Outbound(o))

ObNewVMess(o) ==
  Unless(TLSError(o) \/ TransportError(o) \/ MuxError(o) \/ o.idBad \/ o.encoding = "unknown",
    [xudp |-> o.encoding = "xudp", packetAddr |-> o.encoding = "packetaddr", tls |-> TLS(o),
     transport |-> NewClientTransport(o), mux |-> NewMux(o)] @@ Outbound(o))

ObNewTrojan(o) ==
  Unless(TLSError(o) \/ TransportError(o) \/ MuxError(o),
    [tls |-> TLS(o), transport |-> NewClientTransport(o), mux |-> NewMux(o)] @@ Outbound(o))

\* sip003.CreatePlugin.
PluginError(o) == o.plugin \notin {"", "obfs-local", "v2ray-plugin"} \/ o.pluginBad

ObNewShadowsocks(o) ==
  Unless(o.idBad \/ PluginError(o) \/ (~o.uot /\ MuxError(o)),
    [plugin |-> o.plugin, mux |-> ~o.uot /\ NewMux(o), uot |-> o.uot] @@ Outbound(o))

\* The method must be none or a stream cipher, and obfs and protocol known.
NewShadowsocksR(o) == Unless(o.idBad \/ o.method = "aead" \/ o.plugin = "unknown", Outbound(o))

ObNewHysteria(o) ==
  Unless(~TLS(o) \/ TLSError(o) \/ o.idBad, [tls |-> TRUE, udp |-> "udp" \in o.network] @@ Outbound(o))
ObNewHysteria2(o) ==
  Unless(~TLS(o) \/ TLSError(o) \/ o.plugin = "unknown" \/ o.idBad,
    [tls |-> TRUE, udp |-> "udp" \in o.network] @@ Outbound(o))
ObNewTUIC(o) ==
  Unless(~TLS(o) \/ TLSError(o) \/ o.idBad \/ (o.udpStream /\ o.relayMode # ""),
    [tls |-> TRUE, udpStream |-> o.udpStream] @@ Outbound(o))

ObNewShadowTLS(o) ==
  Unless(~TLS(o) \/ TLSError(o) \/ o.version \notin {"", "1", "2", "3"},
    [tls |-> TRUE, network |-> {"tcp"}] @@ Outbound(o))

NewSocks(o) ==
  Unless(o.version \notin {"", "4", "4a", "5"}, [resolve |-> o.version = "4", uot |-> o.uot] @@ Outbound(o))
NewHTTP(o) == Unless(TLSError(o), [tls |-> TLS(o), network |-> {"tcp"}] @@ Outbound(o))
NewSSH(o) == Unless(o.idBad, [network |-> {"tcp"}] @@ Outbound(o))
NewTor(o) == [network |-> {"tcp"}] @@ Outbound(o)
NewBlock(o) == [network |-> {"tcp", "udp"}] @@ Outbound(o)

NewDirect(o) ==
  LET option == IF o.overrideHost # "" THEN (IF o.overridePort # 0 THEN 1 ELSE 2)
                ELSE IF o.overridePort # 0 THEN 3 ELSE 0
  IN Unless(o.proxyProtocol, [network |-> {"tcp", "udp"}, strategy |-> o.strategy,
       overrideOption |-> option, override |-> Dest(o.overrideHost, o.overridePort)] @@ Outbound(o))

\* The reserved bytes of a WireGuard packet: 0 is none.
NoReserved == 0

\* ParsePeers: of a peer, its reserved bytes; an address the options name by domain is resolved later.
ParsePeers(o) ==
  IF o.peers # <<>>
  THEN [i \in DOMAIN o.peers |-> IF o.peers[i] # NoReserved THEN o.reserved ELSE NoReserved]
  ELSE <<o.reserved>>

NewWireGuard(o) == Unless(o.idBad \/ o.gsoDetour, [peers |-> ParsePeers(o)] @@ Outbound(o))

\* builder.go's New.
ObNew(o) ==
  CASE o.type = "vless" -> ObNewVLESS(o)
    [] o.type = "vmess" -> ObNewVMess(o)
    [] o.type = "trojan" -> ObNewTrojan(o)
    [] o.type = "shadowsocks" -> ObNewShadowsocks(o)
    [] o.type = "shadowsocksr" -> NewShadowsocksR(o)
    [] o.type = "hysteria" -> ObNewHysteria(o)
    [] o.type = "hysteria2" -> ObNewHysteria2(o)
    [] o.type = "tuic" -> ObNewTUIC(o)
    [] o.type = "shadowtls" -> ObNewShadowTLS(o)
    [] o.type = "socks" -> NewSocks(o)
    [] o.type = "http" -> NewHTTP(o)
    [] o.type = "ssh" -> NewSSH(o)
    [] o.type = "tor" -> NewTor(o)
    [] o.type = "block" -> NewBlock(o)
    [] o.type = "direct" -> NewDirect(o)
    [] o.type = "wireguard" -> NewWireGuard(o)
    [] OTHER -> ObRefused

-----------------------------------------------------------------------------
(* One dial: the steps it makes, each of which may fail, and the connection it ends with.     *)
(* conn.to is what the server is asked to reach; with each, every packet carries its own      *)
(* destination; an early connection sends its request with the first write.                   *)

Stream(d) == [kind |-> "stream", to |-> d, each |-> FALSE, early |-> TRUE]
Late(d) == [Stream(d) EXCEPT !.early = FALSE]
Fixed(d) == [kind |-> "packet", to |-> d, each |-> FALSE, early |-> FALSE]
Each(d) == [Fixed(d) EXCEPT !.each = TRUE]
Packets(listen, d) == IF listen THEN Each(d) ELSE Fixed(d)
ObDialed(steps, conn) == [steps |-> steps, conn |-> conn]
Never == ObDialed(<<"refuse">>, Fixed(Dest("", 0)))

\* The connection to the server under VLESS, VMess and Trojan.
ServerConn(h) == IF h.transport # "" THEN <<"transport">> ELSE IF h.tls THEN <<"socket", "tls">> ELSE <<"socket">>

\* A stream of the multiplex session, which keeps a server connection of its own.
Multiplexed(net, listen, d) ==
  ObDialed(<<"session">>, IF net = "tcp" THEN Stream(d) ELSE Packets(listen, d))

\* packetaddr: addresses only; the refusal comes when the server connection stands.
ObPacketAddr(h, listen, d) ==
  IF IsFqdn(d) THEN ObDialed(ServerConn(h) \o <<"domain">>, Fixed(d)) ELSE ObDialed(ServerConn(h), Packets(listen, d))

\* vlessDialer's DialContext and ListenPacket.
vlessDialer(h, net, listen, d) ==
  IF net = "tcp" THEN ObDialed(ServerConn(h), Stream(d))
  ELSE IF h.xudp THEN ObDialed(ServerConn(h), Packets(listen, d))
  ELSE IF h.packetAddr THEN ObPacketAddr(h, listen, d)
  ELSE ObDialed(ServerConn(h), Fixed(d))
VLESSDial(h, net, listen, d) == IF h.mux THEN Multiplexed(net, listen, d) ELSE vlessDialer(h, net, listen, d)

\* vmessDialer: its DialContext knows no packet encoding.
vmessDialer(h, net, listen, d) ==
  IF net = "tcp" THEN ObDialed(ServerConn(h), Stream(d))
  ELSE IF listen /\ h.packetAddr THEN ObPacketAddr(h, listen, d)
  ELSE IF listen /\ h.xudp THEN ObDialed(ServerConn(h), Each(d))
  ELSE ObDialed(ServerConn(h), Fixed(d))
VMessDial(h, net, listen, d) == IF h.mux THEN Multiplexed(net, listen, d) ELSE vmessDialer(h, net, listen, d)

\* Trojan's ListenPacket is its DialContext: the packet connection is bound to the destination,
\* and used as a packet connection carries a destination with each packet.
trojanDialer(h, net, listen, d) ==
  ObDialed(ServerConn(h), IF net = "tcp" THEN Stream(d) ELSE Packets(listen, d))
TrojanDial(h, net, listen, d) == IF h.mux THEN Multiplexed(net, listen, d) ELSE trojanDialer(h, net, listen, d)

\* UDP over TCP: a stream of the outbound that carries packets.
UoT(steps, listen, d) == ObDialed(steps, Packets(listen, d))

shadowsocksDialer(h, net, listen, d) ==
  IF net = "tcp" THEN ObDialed(IF h.plugin # "" THEN <<"transport">> ELSE <<"socket">>, Stream(d))
  ELSE ObDialed(<<"socket">>, Packets(listen, d))
ShadowsocksDial(h, net, listen, d) ==
  IF h.mux THEN Multiplexed(net, listen, d)
  ELSE IF net = "udp" /\ h.uot THEN UoT(shadowsocksDialer(h, "tcp", listen, d).steps, listen, d)
  ELSE shadowsocksDialer(h, net, listen, d)

\* ShadowsocksR writes the request before it returns.
ShadowsocksRDial(h, net, listen, d) ==
  IF net = "tcp" THEN ObDialed(<<"socket", "iv", "request">>, Late(d)) ELSE ObDialed(<<"socket">>, Packets(listen, d))

\* A stream or a packet session of the QUIC connection that the client keeps.
HysteriaDial(h, net, listen, d) ==
  IF net = "tcp" THEN ObDialed(<<"session">>, Stream(d))
  ELSE IF ~h.udp THEN Never ELSE ObDialed(<<"session">>, Packets(listen, d))
Hysteria2Dial(h, net, listen, d) == HysteriaDial(h, net, listen, d)
TUICDial(h, net, listen, d) ==
  IF net = "tcp" THEN ObDialed(<<"session">>, Stream(d))
  ELSE IF h.udpStream THEN UoT(<<"session">>, listen, d)
  ELSE ObDialed(<<"session">>, Packets(listen, d))

\* ShadowTLS reaches its server whatever the destination.
ShadowTLSDial(h, net, listen, d) == IF net = "tcp" THEN ObDialed(<<"transport">>, Late(d)) ELSE Never
SocksDial(h, net, listen, d) ==
  IF net = "tcp" THEN ObDialed(<<"socket", "request">>, Late(d))
  ELSE IF h.uot THEN UoT(<<"socket", "request">>, listen, d)
  ELSE ObDialed(<<"socket", "request">>, Packets(listen, d))
HTTPDial(h, net, listen, d) ==
  IF net = "tcp" THEN ObDialed(ServerConn(h) \o <<"request">>, Late(d)) ELSE Never
SSHDial(h, net, listen, d) == IF net = "tcp" THEN ObDialed(<<"session">>, Late(d)) ELSE Never
TorDial(h, net, listen, d) == IF net = "tcp" THEN ObDialed(<<"socket", "request">>, Late(d)) ELSE Never
WireGuardDial(h, net, listen, d) == ObDialed(<<"socket">>, IF net = "tcp" THEN Late(d) ELSE Packets(listen, d))

\* Direct: the destination it dials instead of d.
ObOverridden(h, d) ==
  CASE h.overrideOption = 0 -> d
    [] h.overrideOption = 1 -> h.override
    [] h.overrideOption = 2 -> Dest(h.override.host, d.port)
    [] h.overrideOption = 3 -> Dest(d.host, h.override.port)
DirectDial(h, net, listen, d) ==
  ObDialed(<<"socket">>, IF net = "tcp" THEN Late(ObOverridden(h, d)) ELSE Packets(listen, ObOverridden(h, d)))

ObDialContext(h, net, listen, d) ==
  CASE h.type = "vless" -> VLESSDial(h, net, listen, d)
    [] h.type = "vmess" -> VMessDial(h, net, listen, d)
    [] h.type = "trojan" -> TrojanDial(h, net, listen, d)
    [] h.type = "shadowsocks" -> ShadowsocksDial(h, net, listen, d)
    [] h.type = "shadowsocksr" -> ShadowsocksRDial(h, net, listen, d)
    [] h.type = "hysteria" -> HysteriaDial(h, net, listen, d)
    [] h.type = "hysteria2" -> Hysteria2Dial(h, net, listen, d)
    [] h.type = "tuic" -> TUICDial(h, net, listen, d)
    [] h.type = "shadowtls" -> ShadowTLSDial(h, net, listen, d)
    [] h.type = "socks" -> SocksDial(h, net, listen, d)
    [] h.type = "http" -> HTTPDial(h, net, listen, d)
    [] h.type = "ssh" -> SSHDial(h, net, listen, d)
    [] h.type = "tor" -> TorDial(h, net, listen, d)
    [] h.type = "wireguard" -> WireGuardDial(h, net, listen, d)
    [] h.type = "direct" -> DirectDial(h, net, listen, d)
    [] OTHER -> Never

-----------------------------------------------------------------------------
(* The addresses that are tried: first in order, then the others, or both at once (race). *)

Plan(error, first, then, race) ==
  [error |-> error, first |-> first, then |-> then, race |-> race, oneWay |-> FALSE]
Serial(addresses) == Plan(FALSE, addresses, <<>>, FALSE)
Failing == Plan(TRUE, <<>>, <<>>, FALSE)

\* router.Lookup with the outbound's strategy; an empty answer is an error.
Lookup(req, strategy) == IF strategy = "ipv4_only" THEN Only(req.dns, Is4) ELSE req.dns

\* Direct's DialParallel, which N.DialSerial calls when it is given a Direct.
DialParallel(h, req) ==
  LET strategy == IF h.strategy # "as_is" THEN h.strategy ELSE req.strategy
      four == Only(req.addresses, Is4)
      six == Only(req.addresses, Not4)
  IN IF h.overrideOption \in {1, 2} THEN Serial(<<req.dest.host>>)
     ELSE IF strategy = "as_is" THEN Serial(req.addresses)
     ELSE IF strategy = "prefer_ipv6" THEN Plan(FALSE, six, four, TRUE)
     ELSE Plan(FALSE, four, six, TRUE)

\* NewConnection of default.go.
ObNewConnection(h, req) ==
  IF req.addresses = <<>> THEN Serial(<<req.dest.host>>)
  ELSE IF h.type = "direct" THEN DialParallel(h, req)
  ELSE Serial(req.addresses)

\* NewPacketConnection: with udp_disable_domain_unmapping the NAT connection maps one way only.
NewPacketConnection(h, req) ==
  [Serial(IF req.addresses = <<>> THEN <<req.dest.host>> ELSE req.addresses) EXCEPT !.oneWay = req.noUnmapping]

\* connFunc: the primaries, and when all of them failed the fallbacks.
connFunc(primaries, fallbacks) == Plan(FALSE, primaries, fallbacks, FALSE)

\* NewDirectConnection: names are resolved here.
NewDirectConnection(req, strategy) ==
  LET byName == req.addresses = <<>> /\ IsFqdn(req.dest)
      addresses == IF byName THEN Lookup(req, strategy) ELSE req.addresses
      four == Only(addresses, Is4)
      six == Only(addresses, Not4)
  IN IF byName /\ addresses = <<>> THEN Failing
     ELSE IF addresses = <<>> THEN Serial(<<req.dest.host>>)
     ELSE CASE strategy = "as_is" -> connFunc(addresses, <<>>)
            [] strategy = "ipv4_only" -> connFunc(four, <<>>)
            [] strategy = "ipv6_only" -> connFunc(six, <<>>)
            [] strategy = "prefer_ipv4" -> connFunc(four, six)
            [] strategy = "prefer_ipv6" -> connFunc(six, four)

\* NewDirectPacketConnection does not look at udp_disable_domain_unmapping.
NewDirectPacketConnection(req, strategy) == NewDirectConnection(req, strategy)

\* The DialContext of SOCKS4 and WireGuard when another dialer calls it with a name.
ResolveFirst(req) == IF req.dns = <<>> THEN Failing ELSE Serial(req.dns)

\* The NewConnection and NewPacketConnection methods, and DialContext, of each type.
ObBegin(h, req) ==
  IF req.entry = "dial"
  THEN IF IsFqdn(req.dest) /\ (h.type = "wireguard" \/ (h.resolve /\ ~(req.net = "udp" /\ h.uot)))
       THEN ResolveFirst(req) ELSE Serial(<<req.dest.host>>)
  ELSE IF h.type = "block" THEN Failing
  ELSE IF req.net = "udp" /\ h.type \in {"shadowtls", "http", "ssh", "tor"} THEN Failing
  ELSE IF h.resolve \/ h.type = "wireguard"
  THEN LET strategy == IF h.resolve THEN "ipv4_only" ELSE "as_is" IN
       IF req.net = "tcp" THEN NewDirectConnection(req, strategy) ELSE NewDirectPacketConnection(req, strategy)
  ELSE IF req.net = "tcp" THEN ObNewConnection(h, req) ELSE NewPacketConnection(h, req)

-----------------------------------------------------------------------------
(* The connection. *)

Req == obScn.req
Idle == [pc |-> "new", h |-> ObRefused, plan |-> Serial(<<>>), target |-> Dest("", 0), steps |-> <<>>,
         conn |-> Fixed(Dest("", 0)), sock |-> 0, open |-> {}, tried |-> <<>>, up |-> <<>>, read |-> 0,
         pending |-> 0, asked |-> FALSE, leak |-> FALSE, packets |-> {}]
Ob(r) == ob' = (r @@ ob) /\ UNCHANGED <<obScn, obLoop>>
ObEnd(result) == Ob([pc |-> result, open |-> ob.open \ {ob.sock}])
ObAt(pc) == obScn.part = "conn" /\ ob.pc = pc

ObCreate ==
  /\ ObAt("new")
  /\ LET h == ObNew(obScn.options) IN
     IF ~h.ok THEN Ob([pc |-> "refused"])
     ELSE LET plan == ObBegin(h, Req) IN
          Ob([h |-> h, plan |-> plan, pc |-> IF plan.error THEN "failed" ELSE "pick",
              read |-> IF Req.cached THEN 1 ELSE 0])

\* The next address is dialled; none is left: the failure is reported to the inbound.
Pick ==
  /\ ObAt("pick")
  /\ LET dial(list, host, rest) ==
           LET d == Dest(host, Req.dest.port)
               dialed == ObDialContext(ob.h, Req.net, Req.entry = "route", d)
           IN Ob([pc |-> "step", target |-> d, steps |-> dialed.steps, conn |-> dialed.conn,
                  plan |-> [ob.plan EXCEPT ![list] = rest]])
         first == ob.plan.first
         then == ob.plan.then
     IN IF first = <<>> /\ then = <<>> THEN Ob([pc |-> "failed"])
        ELSE \/ first # <<>> /\ dial("first", Head(first), Tail(first))
             \/ then # <<>> /\ (first = <<>> \/ ob.plan.race) /\ dial("then", Head(then), Tail(then))

Opens(step) == step \in {"socket", "transport", "session"}

StepOK ==
  /\ ObAt("step") /\ Head(ob.steps) \notin {"refuse", "domain"}
  /\ LET s == IF Opens(Head(ob.steps)) THEN ob.sock + 1 ELSE ob.sock IN
     Ob([sock |-> s, open |-> IF s # ob.sock THEN ob.open \cup {s} ELSE ob.open, steps |-> Tail(ob.steps),
         pc |-> IF Len(ob.steps) = 1 THEN "report" ELSE "step"])

\* The steps after whose failure the server connection is not closed: ClientHandshake returns no
\* connection to close, and the refusal of packetaddr returns at once.
ObUnclosed == {"tls", "domain"}

StepFails ==
  /\ ObAt("step")
  /\ LET step == Head(ob.steps) IN
     Ob([pc |-> "pick", tried |-> Append(ob.tried, ob.target.host), leak |-> ob.leak \/ step \in ObUnclosed,
         open |-> IF Opens(step) \/ step \in ObUnclosed THEN ob.open ELSE ob.open \ {ob.sock}])

\* ReportHandshakeSuccess; a dialer gets the connection.
Report ==
  /\ ObAt("report")
  /\ \/ Req.entry = "route" /\ ObEnd("failed")
     \/ Ob([pc |-> IF Req.entry = "dial" THEN "dialed" ELSE IF Req.net = "tcp" THEN "copy" ELSE "packets"])

-----------------------------------------------------------------------------
(* CopyEarlyConn and the relay.  Chunks of the application are numbered. *)

ObWrite(chunk, pc) ==
  Ob([pc |-> pc, asked |-> TRUE, up |-> IF chunk = 0 THEN ob.up ELSE Append(ob.up, chunk)])

\* Mutant of CopyEarlyConn: the payload that sniffing read is dropped.
CopyEarlyConnDrops ==
  ObAt("copy") /\ IF ob.conn.early /\ ~Req.cached THEN Ob([pc |-> "payload"]) ELSE ObWrite(0, "relay")

\* Payload that sniffing has read goes first.
CopyEarlyConn ==
  /\ ObAt("copy")
  /\ IF Req.cached THEN ObWrite(1, "relay") \/ ObEnd("failed")
     ELSE IF ob.conn.early THEN Ob([pc |-> "payload"]) ELSE Ob([pc |-> "relay"])

\* A first chunk is waited for, C.ReadPayloadTimeout at most, if the connection has deadlines.
ReadPayload ==
  /\ ObAt("payload")
  /\ IF ~Req.deadline THEN Ob([pc |-> "write", pending |-> 0])
     ELSE \/ ob.read < ObChunks /\ Ob([pc |-> "write", read |-> ob.read + 1, pending |-> ob.read + 1])
          \/ Ob([pc |-> "write", pending |-> 0])
          \/ ObEnd("failed")

\* The request goes out, with the chunk or without.
WritePayload == ObAt("write") /\ (ObWrite(ob.pending, "relay") \/ ObEnd("failed"))

Relay ==
  /\ ObAt("relay")
  /\ \/ /\ ob.read < ObChunks
        /\ Ob([read |-> ob.read + 1, asked |-> TRUE, up |-> Append(ob.up, ob.read + 1)])
     \/ ObEnd("done")

\* The network changed: the multiplex session, the transport or the QUIC connection is closed.
ObInterfaceUpdated ==
  /\ ObAt("relay") /\ (ob.h.mux \/ ob.h.transport \in {"grpc", "quic"} \/ ob.h.type \in {"hysteria", "hysteria2", "tuic", "ssh"})
  /\ ObEnd("done")

-----------------------------------------------------------------------------
(* Packets: the destination of a packet is rewritten on its way out, and the source of the *)
(* reply on its way back, by the NAT connections that wrap the outbound's.                 *)

Resolved == IsFqdn(Req.dest) /\ ob.target.host # Req.dest.host
Direct(h) == h.type = "wireguard" \/ h.resolve

Outward(d) ==
  LET inner == IF Resolved /\ d = Req.dest THEN ob.target ELSE d
  IN IF inner = ob.target THEN ObOverridden(ob.h, ob.target) ELSE inner

Inward(s) ==
  LET outer == IF s = ObOverridden(ob.h, ob.target) THEN ob.target ELSE s
  IN IF Resolved /\ outer = ob.target /\ ~ob.plan.oneWay THEN Req.dest ELSE outer

ObOther == Dest("o4", 9)

\* A packet of the application and the reply to it.
Packet ==
  /\ ObAt("packets")
  /\ \/ \E d \in {Req.dest, ObOther} :
          LET reached == IF ob.conn.each THEN Outward(d) ELSE ob.conn.to IN
          Ob([packets |-> ob.packets \cup {[to |-> d, reached |-> reached, from |-> Inward(reached)]}])
     \/ ObEnd("done")

-----------------------------------------------------------------------------
(* The loopback detector of Direct.  One TCP socket at a time has source port p; ends are the  *)
(* addresses it was dialled to, one of which is that of an inbound; a routing rule of the      *)
(* system may bring it to the inbound all the same.                                            *)

ObNoConn == [st |-> "none", to |-> "none"]
NoLoop == [conns |-> [p \in ObPorts |-> ObNoConn], connMap |-> [p \in ObPorts |-> "none"], verdicts |-> {}]
Loop(p, conn, entry) ==
  /\ obLoop' = [obLoop EXCEPT !.conns[p] = conn, !.connMap[p] = entry]
  /\ UNCHANGED <<obScn, ob>>
Has(p, st) == obScn.part = "loop" /\ obLoop.conns[p].st = st

LoopDial(p) ==
  Has(p, "none") /\ \E end \in {"inbound", "outside"} : Loop(p, [st |-> "dialed", to |-> end], obLoop.connMap[p])

\* NewConn: the socket is entered when the dial has returned.
ObNewConn(p) == Has(p, "dialed") /\ Loop(p, [obLoop.conns[p] EXCEPT !.st = "entered"], obLoop.conns[p].to)

\* loopBackDetectWrapper.Close: the entry is deleted first.
LoopClose(p) ==
  \/ Has(p, "entered") /\ Loop(p, [obLoop.conns[p] EXCEPT !.st = "closing"], "none")
  \/ Has(p, "closing") /\ Loop(p, ObNoConn, "none")

CheckConn(source, local) == obLoop.connMap[source] \notin {"none", local}

\* The inbound accepts a connection with source port p: the socket's own, or, when p is free
\* here, that of another program.
Arrive(p) ==
  /\ obScn.part = "loop"
  /\ obLoop' = [obLoop EXCEPT !.verdicts = @ \cup {[conn |-> obLoop.conns[p], rejected |-> CheckConn(p, "inbound")]}]
  /\ UNCHANGED <<obScn, ob>>

-----------------------------------------------------------------------------
ObStart(scn) == obScn = scn /\ ob = Idle /\ obLoop = NoLoop
ObInit == \E scn \in ObScenarios : ObStart(scn)
ObNext ==
  \/ ObCreate
  \/ Pick
  \/ StepOK
  \/ StepFails
  \/ Report
  \/ CopyEarlyConn
  \/ ReadPayload
  \/ WritePayload
  \/ Relay
  \/ ObInterfaceUpdated
  \/ Packet
  \/ \E p \in ObPorts : LoopDial(p) \/ ObNewConn(p) \/ LoopClose(p) \/ Arrive(p)

-----------------------------------------------------------------------------
Ended == ob.pc \in {"refused", "failed", "done"}
Connected == ob.pc \in {"report", "dialed", "copy", "payload", "write", "relay", "packets"}

\* The steps of a connection, the sockets it has made, and what the loop detector remembers.
ObTypeOK ==
  /\ obScn \in ObScenarios
  /\ Ended \/ Connected \/ ob.pc \in {"new", "pick", "step"}
  /\ ob.open \subseteq 1..ob.sock
  /\ ob.read \in 0..ObChunks
  /\ obLoop.connMap \in [ObPorts -> {"none", "inbound", "outside"}]

\* The addresses that stand for the destination: those the router resolved, else, for an outbound
\* that takes no names, those of its own lookup, of the family it can reach; else the destination.
Permitted(h, req) ==
  LET dest == IF req.addresses # <<>> /\ req.entry = "route" THEN {req.addresses[i] : i \in DOMAIN req.addresses}
              ELSE IF IsFqdn(req.dest) /\ Direct(h) /\ ~(req.entry = "dial" /\ req.net = "udp" /\ h.uot)
              THEN {req.dns[i] : i \in DOMAIN req.dns} ELSE {req.dest.host}
  IN IF h.resolve /\ req.entry = "route" /\ ~(req.addresses = <<>> /\ ~IsFqdn(req.dest))
     THEN {a \in dest : Is4(a)} ELSE dest

\* A connection asks for one of the addresses that stand for the destination, with its port, and
\* for a Direct with an override for the override: WireGuard and SOCKS4 are never asked for a name
\* and SOCKS4 never for an IPv6 address by the router (NewConnection, NewDirectConnection,
\* Socks.DialContext, WireGuard.DialContext, Direct.DialContext).
AsksRight ==
  Connected => \E a \in Permitted(ob.h, Req) \cup (IF ob.h.overrideOption \in {1, 2} THEN {Req.dest.host} ELSE {}) :
                 ob.conn.to = ObOverridden(ob.h, Dest(a, Req.dest.port))

\* A connection is given up for want of a server only when every address that stands for the
\* destination has been tried (DialSerial, DialParallel and connFunc of NewDirectConnection).
FailsAfterAll ==
  ob.pc = "failed" /\ ob.sock = 0 /\ ob.h.ok /\ ~ob.plan.error /\ ob.h.overrideOption \notin {1, 2} =>
    {ob.tried[i] : i \in DOMAIN ob.tried} = Permitted(ob.h, Req)

\* When the connection has ended no socket that was opened for it is open, unless a TLS
\* handshake failed or packetaddr refused a name: then the server connection is not closed.
NothingHeld == Ended /\ ~ob.leak => ob.open = {}

\* Once the relay runs, the request has been sent: a protocol whose server speaks first does not
\* wait for a client that waits for it (CopyEarlyConn).
RequestSent == ob.pc = "relay" /\ ob.conn.early => ob.asked

\* The server gets what the application wrote, in order, once: the chunk that sniffing read, the
\* one that CopyEarlyConn waited for, and what the relay copies.
UploadInOrder == ob.pc = "relay" => ob.up = [i \in 1..ob.read |-> i]

\* A packet to the destination reaches the address that was chosen for it (the override, for
\* Direct), a packet to elsewhere reaches that, and replies seem to come from where the packet was
\* sent, or with udp_disable_domain_unmapping from the address; an outbound that fixes the
\* destination per connection sends all to it (NewPacketConnection, Direct.ListenPacket).
PacketsMapped ==
  \A p \in ob.packets :
    /\ p.to = Req.dest => p.reached = ObOverridden(ob.h, ob.target)
    /\ ob.conn.each /\ p.to = ObOther => p.reached = ObOther /\ p.from = ObOther
    /\ p.to = Req.dest => p.from = IF Resolved /\ Req.noUnmapping /\ ~Direct(ob.h) THEN ob.target ELSE Req.dest

\* A socket that Direct dialled and that comes back to an inbound it was not dialled to is
\* rejected, one that was dialled to the inbound is not, and no connection of another program is,
\* though its source port was a socket's before (loopBackDetector).
LoopCaught ==
  \A v \in obLoop.verdicts :
    /\ v.conn.st = "entered" => (v.rejected <=> v.conn.to # "inbound")
    /\ v.conn.st = "none" => ~v.rejected

-----------------------------------------------------------------------------
(* The properties above, by subject. *)

\* What an outbound does with a connection: it asks for what stands for the destination, fails only after all of
\* that, sends the request and the application's bytes in order, maps packets and replies, and catches its own
\* sockets coming back.
OutboundsSound ==
  /\ ObTypeOK
  /\ AsksRight
  /\ FailsAfterAll
  /\ RequestSent
  /\ UploadInOrder
  /\ PacketsMapped
  /\ LoopCaught
=============================================================================
