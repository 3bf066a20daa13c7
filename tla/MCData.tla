------------------------------- MODULE MCData -------------------------------
(* The data plane: inbounds, dialers, shared connections, outbounds and the framing of streams.  A behaviour is *)
(* one of one of them; the others stand still.                                                                  *)
EXTENDS Inbounds, Dialers, Sessions, Outbounds, Framing, TLC

-----------------------------------------------------------------------------
(* Inbounds. *)

Conf(type, net, tls) ==
  [type |-> type, tag |-> type, net |-> net, tls |-> tls, transport |-> None, users |-> <<"ann", None>>,
   over |-> 0, to |-> <<"to", 9>>, relay |-> <<<<"r1", 1>>, <<"r2", 2>>>>, fallback |-> NoAddr, fallbackALPN |-> <<>>,
   sysproxy |-> FALSE, proxyproto |-> FALSE, options |-> {}, session |-> FALSE, retains |-> FALSE, mux |-> FALSE]
T == {"tcp"}
U == {"udp"}
TU == {"tcp", "udp"}
MCConfigs ==
  {Conf("vmess", T, "on"), [Conf("vmess", T, "on") EXCEPT !.transport = "tcp"], [Conf("vless", T, "on") EXCEPT !.transport = "udp"],
   [Conf("vless", T, "off") EXCEPT !.mux = TRUE], [Conf("vmess", T, None) EXCEPT !.options = {"brutal"}],
   [Conf("trojan", T, "on") EXCEPT !.fallback = <<"web", 80>>, !.fallbackALPN = ("h2" :> <<"web2", 81>>)],
   [Conf("trojan", T, None) EXCEPT !.fallbackALPN = ("h2" :> <<"web2", 81>>)],
   Conf("hysteria", U, "on"), Conf("hysteria2", U, "on"), Conf("tuic", U, "on"), Conf("tuic", U, "off"),
   [Conf("shadowsocks", TU, None) EXCEPT !.session = TRUE], [Conf("multi", TU, None) EXCEPT !.session = TRUE, !.retains = TRUE],
   Conf("relay", T, None), Conf("shadowtls", T, None), Conf("naive", TU, "on"), Conf("naive", TU, None),
   [Conf("http", T, "on") EXCEPT !.sysproxy = TRUE], [Conf("mixed", T, None) EXCEPT !.users = <<>>],
   [Conf("http", T, None) EXCEPT !.proxyproto = TRUE],
   Conf("tproxy", T, None), Conf("redirect", T, None), Conf("tun", {}, None),
   Conf("doh", TU, "on"), Conf("doh", U, "off"), Conf("doh", T, None), Conf("doq", U, "on"), Conf("doq", U, "off")}
  \cup {[Conf("direct", T, None) EXCEPT !.over = o] : o \in 0..3}
Cl(auth, user, dest, net, alpn) ==
  [src |-> "client", local |-> <<"local", 5>>, tls |-> TRUE, auth |-> auth, user |-> user, dest |-> dest, net |-> net, alpn |-> alpn]
MCClients ==
  {Cl(TRUE, u, <<"d", 7>>, "tcp", None) : u \in 0..1} \cup {Cl(FALSE, 0, <<"d", 7>>, "tcp", a) : a \in {None, "h2", "h3"}}
  \cup {Cl(TRUE, 0, <<"packetaddr", 0>>, "udp", None), [Cl(TRUE, 0, <<"d", 7>>, "tcp", None) EXCEPT !.tls = FALSE]}
Qu(method, message, id, answer) ==
  [method |-> method, media |-> TRUE, message |-> message, id |-> id, answer |-> answer, ttls |-> {300, 60}]
MCQueries ==
  {Qu(m, "query", 0, "ok") : m \in {"GET", "POST", "HEAD", "PUT"}} \cup {Qu("GET", m, 0, "ok") : m \in {"none", "base64", "torn"}}
  \cup {Qu("POST", "query", 4, "error"), Qu("GET", "query", 4, "ok"), [Qu("POST", "query", 0, "ok") EXCEPT !.media = FALSE]}
MCStreams == <<"s1", "s2">>

-----------------------------------------------------------------------------
(* Dialers. *)

PlainDialer == [router |-> TRUE, wireGuard |-> FALSE, detour |-> FALSE, strategy |-> FALSE, tfo |-> FALSE,
          storeLastIP |-> FALSE, addresses |-> <<>>, bindInterface |-> FALSE, autoDetect |-> TRUE,
          defaultInterface |-> FALSE, autoRedirect |-> FALSE, routingMark |-> FALSE,
          defaultMark |-> FALSE, multiPath |-> FALSE, go121 |-> TRUE]
MCAnswers == "n1" :> <<"a", "b">> @@ "n2" :> <<"b", "c", "d">>
TwoNames == 1 :> "n1" @@ 2 :> "n2"
OneName(d) == 1 :> d
Dials(part, o, direct, names) ==
  [part |-> part, options |-> o @@ PlainDialer, direct |-> direct, names |-> names]

NoDial == Dials("none", <<>>, FALSE, <<>>)
MCDials ==
  {NoDial,
   Dials("resolve", [storeLastIP |-> TRUE], FALSE, TwoNames),
   Dials("resolve", [storeLastIP |-> TRUE, strategy |-> TRUE], FALSE, TwoNames),
   Dials("resolve", [storeLastIP |-> TRUE, addresses |-> <<"b", "a", "b">>], FALSE, TwoNames),
   Dials("resolve", [storeLastIP |-> TRUE], TRUE, TwoNames),
   Dials("resolve", <<>>, TRUE, OneName("c")),
   Dials("resolve", [detour |-> TRUE], FALSE, TwoNames),
   Dials("resolve", [detour |-> TRUE, strategy |-> TRUE], FALSE, TwoNames),
   Dials("resolve", [detour |-> TRUE, addresses |-> <<"a">>], FALSE, TwoNames),
   Dials("resolve", [router |-> FALSE], FALSE, OneName("a")),
   Dials("resolve", [wireGuard |-> TRUE, bindInterface |-> TRUE], FALSE, OneName("a")),
   Dials("resolve", [autoRedirect |-> TRUE], FALSE, OneName("n1")),
   Dials("resolve", [autoRedirect |-> TRUE, defaultMark |-> TRUE], FALSE, OneName("n1")),
   Dials("resolve", [autoDetect |-> FALSE, defaultInterface |-> TRUE, routingMark |-> TRUE,
                   multiPath |-> TRUE, go121 |-> FALSE], FALSE, OneName("n1")),
   Dials("race", <<>>, FALSE, <<>>),
   Dials("track", <<>>, FALSE, <<>>)}

-----------------------------------------------------------------------------
(* Sessions. *)

NoSession == [part |-> "none", type |-> "none", unresolved |-> FALSE]
MCSessions ==
  {[part |-> p, type |-> "none", unresolved |-> FALSE] : p \in {"none", "ssh", "bind", "dhcp", "dns"}}
    \cup {[part |-> "boot", type |-> "tor", unresolved |-> FALSE],
          [part |-> "boot", type |-> "wireguard", unresolved |-> FALSE],
          [part |-> "boot", type |-> "wireguard", unresolved |-> TRUE]}

-----------------------------------------------------------------------------
(* Outbounds of every type, with the options that change their control, and what is asked of them. *)

PlainOutbound == [type |-> "direct", network |-> {"tcp", "udp"}, tls |-> "nil", tlsBad |-> FALSE,
          transport |-> "nil", encoding |-> "nil", mux |-> "off", uot |-> FALSE, version |-> "", idBad |-> FALSE,
          plugin |-> "", pluginBad |-> FALSE, method |-> "", udpStream |-> FALSE, relayMode |-> "",
          overrideHost |-> "", overridePort |-> 0, proxyProtocol |-> FALSE, strategy |-> "as_is",
          peers |-> <<>>, reserved |-> NoReserved, gsoDetour |-> FALSE]
With(type, r) == r @@ [type |-> type] @@ PlainOutbound

MCProxies ==
  {With(t, r) : t \in {"vless", "vmess"},
     r \in {[tls |-> "on"], [tls |-> "on", transport |-> "grpc"], [encoding |-> "packetaddr"],
            [encoding |-> ""], [encoding |-> "xudp", mux |-> "on"], [encoding |-> "unknown"]}}
  \cup {With("trojan", r) : r \in {[tls |-> "on"], [transport |-> "quic"], [mux |-> "slow brutal"]}}
  \cup {With("shadowsocks", r) : r \in {[uot |-> TRUE, mux |-> "on"], [plugin |-> "obfs-local"], [mux |-> "on"]}}
  \cup {With("shadowsocksr", r) : r \in {[method |-> "none"], [method |-> "aead"]}}
  \cup {With(t, [tls |-> "on"]) : t \in {"hysteria", "hysteria2", "tuic", "shadowtls", "http"}}
  \cup {With(t, [tls |-> "off"]) : t \in {"hysteria", "hysteria2", "tuic", "shadowtls", "http"}}
  \cup {With("tuic", [tls |-> "on", udpStream |-> TRUE])}
  \cup {With("socks", [version |-> v, uot |-> u]) : v \in {"4", "5", "6"}, u \in BOOLEAN}
  \cup {With(t, [network |-> {"tcp"}]) : t \in {"ssh", "tor", "block", "none"}}
MCDirects ==
  {With("direct", [overrideHost |-> host, overridePort |-> port, strategy |-> s]) :
     host \in {"", "a4"}, port \in {0, 53}, s \in {"as_is", "prefer_ipv6"}}
MCWireGuards == {With("wireguard", [reserved |-> 7]), With("wireguard", [idBad |-> TRUE])}

Asks(entry, net, host, addresses) ==
  [entry |-> entry, net |-> net, dest |-> Dest(host, 80), addresses |-> addresses, dns |-> <<"a6", "b4">>,
   strategy |-> "as_is", cached |-> FALSE, deadline |-> TRUE, noUnmapping |-> FALSE]
MCRequests ==
  {Asks("route", net, "name", a) : net \in {"tcp", "udp"}, a \in {<<>>, <<"a4", "a6">>}}
  \cup {Asks(entry, net, "a4", <<>>) : entry \in {"route", "dial"}, net \in {"tcp", "udp"}}
  \cup {Asks("dial", net, "name", <<>>) : net \in {"tcp", "udp"}}
  \cup {[cached |-> TRUE] @@ Asks("route", "tcp", "name", <<>>),
        [deadline |-> FALSE] @@ Asks("route", "tcp", "name", <<>>),
        [strategy |-> "prefer_ipv4"] @@ Asks("route", "tcp", "name", <<"a6", "a4", "b4">>),
        [dns |-> <<>>] @@ Asks("route", "tcp", "name", <<>>)}
  \cup {[noUnmapping |-> TRUE] @@ Asks("route", "udp", "name", <<"a4", "a6">>)}

MCConns == [part : {"conn"}, options : MCProxies \cup MCDirects \cup MCWireGuards, req : MCRequests]
NoOutbound == [part |-> "none", options |-> PlainOutbound, req |-> Asks("route", "tcp", "a4", <<>>)]
MCLoop == [part |-> "loop", options |-> PlainOutbound, req |-> Asks("route", "tcp", "a4", <<>>)]
MCOutbounds == MCConns \cup {MCLoop, NoOutbound}

-----------------------------------------------------------------------------
(* Framing. *)

PlainStream == [part |-> "stream", kind |-> "", early |-> 0, name |-> FALSE, serverEarly |-> 0, serverName |-> FALSE,
         badPath |-> FALSE, length |-> FALSE, buffers |-> TRUE, first |-> FALSE, ends |-> FALSE, auth |-> "sha1",
         corrupt |-> FALSE, max |-> <<3, 3>>, zeros |-> <<0, 0>>, lengths |-> {},
         sizes |-> {}]
NoStream == [PlainStream EXCEPT !.part = "none"]
MCTransports ==
  {[PlainStream EXCEPT !.kind = k] : k \in {"gun", "http2", "ws", "upgrade", "http", "trojan", "httpobfs",
                                     "ssrhttp", "tlsobfs", "ssrtls", "ssrhead", "ssrauth"}}
  \union {[PlainStream EXCEPT !.kind = k, !.max = <<2, 0>>, !.zeros = <<1, 0>>] : k \in {"gun", "ws", "ssrtls", "ssrhead"}}
  \union {[PlainStream EXCEPT !.kind = k, !.first = TRUE, !.max = <<0, 3>>, !.zeros = <<0, 1>>] : k \in {"gun", "grpc", "naive", "naiveh2"}}
  \union {[PlainStream EXCEPT !.kind = k, !.first = TRUE, !.max = <<3, 0>>] : k \in {"gun", "grpc", "naive", "naiveh2"}}
  \union {[PlainStream EXCEPT !.kind = k, !.badPath = TRUE] : k \in {"gun", "http2", "ws", "upgrade", "http", "trojan"}}
  \union {[PlainStream EXCEPT !.kind = k, !.ends = TRUE, !.max = <<0, 2>>, !.first = TRUE] : k \in {"gun", "http2"}}
  \union {[PlainStream EXCEPT !.kind = "ws", !.early = 1, !.serverEarly = 1, !.name = x, !.serverName = x] : x \in BOOLEAN}
  \union {[PlainStream EXCEPT !.kind = "ssrauth", !.auth = a] : a \in {"aes", "chain"}}
  \union {[PlainStream EXCEPT !.kind = "ssrauth", !.auth = "aes", !.corrupt = TRUE],
          [PlainStream EXCEPT !.kind = "http", !.length = TRUE],
          [PlainStream EXCEPT !.kind = "naive", !.buffers = FALSE, !.first = TRUE, !.max = <<0, 3>>],
          [PlainStream EXCEPT !.kind = "trojan", !.buffers = FALSE, !.max = <<3, 0>>, !.zeros = <<1, 0>>],
          [PlainStream EXCEPT !.kind = "http", !.first = TRUE, !.max = <<1, 3>>]}
MCLengths ==
  {[codec |-> c, n |-> n, rand |-> 0] : c \in {"ws client", "ws server"}, n \in {0, 1, 125, 126, 127, 65535, 65536, 70000}}
  \union {[codec |-> c, n |-> n, rand |-> r] : c \in {"sha1", "aes"}, r \in {0, 127, 128, 254, 255, 511, 1460},
                                               n \in {1, 400, 401, 1200, 1201, 1450, 1451, 1452, 2910, 2911, 8100}}
  \union {[codec |-> "chain", n |-> n, rand |-> r] : n \in {0, 1, 400, 401, 900, 1300, 1440, 1441, 2800}, r \in {0, 1020}}
  \union {[codec |-> "chain b", n |-> n, rand |-> r] : n \in {0, 1, 400, 401, 900, 1300, 1439, 1440, 2800}, r \in {4, 9}}
  \union {[codec |-> "hello", n |-> n, rand |-> r] : n \in {0, 1, 16384}, r \in {0, 20, 255}}
MCSizes ==
  {<<<<0, 300, 900, 1439>>, <<5, 10, 400, 410, 905, 1100, 1400, 1439>>>>,
   <<<<0, 0, 1, 2>>, <<0, 1, 1, 2, 3, 4, 4, 5>>>>}
MCFramings ==
  {NoStream} \union MCTransports \union {[PlainStream EXCEPT !.part = "packet"], [PlainStream EXCEPT !.part = "length", !.lengths = MCLengths, !.sizes = MCSizes]}

-----------------------------------------------------------------------------
NoInbound == InStart(CHOOSE c \in InConfigs : TRUE, "rejected")

Init ==
  \/ InInit /\ DlStart(NoDial) /\ SeStart(NoSession) /\ ObStart(NoOutbound) /\ FrStart(NoStream)
  \/ NoInbound /\ DlInit /\ SeStart(NoSession) /\ ObStart(NoOutbound) /\ FrStart(NoStream)
  \/ NoInbound /\ DlStart(NoDial) /\ SeInit /\ ObStart(NoOutbound) /\ FrStart(NoStream)
  \/ NoInbound /\ DlStart(NoDial) /\ SeStart(NoSession) /\ ObInit /\ FrStart(NoStream)
  \/ NoInbound /\ DlStart(NoDial) /\ SeStart(NoSession) /\ ObStart(NoOutbound)
                /\ \E scn \in FrScenarios : FrStart(scn)

dataVars == <<inVars, dlVars, seVars, obVars, frVars>>
Next ==
  \/ InNext /\ UNCHANGED <<dlVars, seVars, obVars, frVars>>
  \/ DlNext /\ UNCHANGED <<inVars, seVars, obVars, frVars>>
  \/ SeNext /\ UNCHANGED <<inVars, dlVars, obVars, frVars>>
  \/ ObNext /\ UNCHANGED <<inVars, dlVars, seVars, frVars>>
  \/ FrNext /\ UNCHANGED <<inVars, dlVars, seVars, obVars>>

Spec == Init /\ [][Next]_dataVars /\ InFairness /\ DlFairness /\ SeFairness /\ FrFairness

-----------------------------------------------------------------------------

\* What the data path opens is closed again, but for the leftovers the conjuncts name: listeners of a failed
\* start, reply sockets of tproxy, the losers of a concurrent dial, tracked connections, and the sockets of a
\* connection that ended.
NothingLeaks ==
  /\ InboundGivesBack
  /\ OneReplySocket
  /\ OneSocketKept
  /\ CountRight
  /\ NothingHeld

\* What waits in the data path is woken: replies being written and the loops of a closed inbound, concurrent
\* dials, dials behind a dead SSH client, and the senders of DNS queries.
LoopsFinish ==
  /\ WriteReturns
  /\ LoopsEnd
  /\ RaceEnds
  /\ DeadForgotten
  /\ QueryEnds
=============================================================================
