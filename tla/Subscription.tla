---------------------------- MODULE Subscription ----------------------------
(* What a provider reads out of a subscription (provider/parser.go,         *)
(* clash.go, native.go): a Clash document, a list of share links or a       *)
(* sing-box document is turned, entry by entry, into outbound options, and  *)
(* the provider's outbound_override is then put over every one of them.     *)
(*                                                                          *)
(* Options are a function from option names to values; a name that is not   *)
(* in its domain has its zero value.  A Clash value is [t |-> its YAML      *)
(* type, v |-> it].  A link is [scheme, user, host, port, tag, addons]      *)
(* after base64: `user' and every addon are the parts between the colons    *)
(* and the equal signs the parser splits at.                                *)
EXTENDS Integers, SequencesExt, FiniteSetsExt

CONSTANTS SubScenarios,  \* subscriptions: [form, entries, nodes, override]
          None           \* no value

VARIABLES subScn,        \* the subscription
          subAt,         \* entries already read
          subOut,        \* outbounds made so far
          subPhase       \* "parse", "done", "error" or "panic"

subVars == <<subScn, subAt, subOut, subPhase>>

Set(c, field, value) == IF c THEN field :> value ELSE <<>>
Over(parts) == FoldLeft(LAMBDA a, b : b @@ a, <<>>, parts)
Field(o, f) == IF f \in DOMAIN o THEN o[f] ELSE ""

Has(p, key, t) == key \in DOMAIN p /\ (t = "any" \/ p[key].t = t)
Take(p, key, t, field) == Set(Has(p, key, t), field, p[key].v)
TakeTrue(p, key, field) == Set(Has(p, key, "bool") /\ p[key].v = "true", field, "true")
Sub(p, key) == IF Has(p, key, "map") THEN p[key].v ELSE <<>>

stringToUint16(n) == n % 65536

-----------------------------------------------------------------------------
(* Clash documents.                                                         *)

ClashHead(type, p) ==
  Over(<<"type" :> type, Take(p, "name", "str", "tag"), Take(p, "server", "str", "server"),
         Set("port" \in DOMAIN p, "port", stringToUint16(p["port"].v))>>)

convertTLSOptions(p) ==
  LET reality == Sub(p, "reality-opts")
  IN Over(<<Take(p, "tls", "bool", "tls"),
            Set(Has(p, "tls", "bool") /\ Has(p, "skip-cert-verify", "bool"),
                "insecure", p["skip-cert-verify"].v),
            Set(p["type"].v = "trojan", "tls", "true"),
            Take(p, "sni", "str", "server_name"), Take(p, "peer", "str", "server_name"),
            Take(p, "servername", "str", "server_name"),
            Take(p, "disable-sni", "bool", "disable_sni"), Take(p, "alpn", "list", "alpn"),
            Set(Has(p, "client-fingerprint", "str"), "tls", "true"),
            Set(Has(p, "client-fingerprint", "str"), "utls", "true"),
            Take(p, "client-fingerprint", "str", "fingerprint"),
            Set(Has(p, "reality-opts", "map"), "tls", "true"),
            Set(Has(p, "reality-opts", "map"), "reality", "true"),
            Take(reality, "public-key", "str", "public_key"),
            Take(reality, "short-id", "str", "short_id")>>)

convertSMuxOptions(p) ==
  LET smux == Sub(p, "smux")
  IN Over(<<Take(smux, "enabled", "bool", "mux"), Take(smux, "protocol", "str", "mux.protocol"),
            Take(smux, "max-connections", "int", "mux.max_connections"),
            Take(smux, "max-streams", "int", "mux.max_streams"),
            Take(smux, "min-streams", "int", "mux.min_streams")>>)

\* A websocket path [path, ed]: "?ed=n" at its end asks for n bytes of early data.
EarlyData(path) ==
  ("ws.path" :> path.path) @@
  (IF path.ed = "" THEN <<>>
   ELSE ("ws.header" :> "Sec-WebSocket-Protocol") @@ ("ws.early" :> path.ed))

convertWSTransport(p) ==
  LET ws == Sub(p, "ws-opts")
  IN Over(<<IF Has(ws, "path", "str") THEN EarlyData(ws["path"].v) ELSE <<>>,
            Take(ws, "max-early-data", "int", "ws.early"),
            Take(ws, "early-data-header-name", "str", "ws.header"),
            IF Has(p, "ws-path", "str") THEN EarlyData(p["ws-path"].v) ELSE <<>>,
            "ws.headers" :> (Sub(p, "ws-headers") @@ Sub(ws, "headers"))>>)

\* The Host header, however it is spelt, becomes the host option.
convertHTTPUpgradeTransport(p) ==
  LET ws      == Sub(p, "ws-opts")
      headers == Sub(p, "ws-headers") @@ Sub(ws, "headers")
      hosts   == {"Host", "host"} \cap DOMAIN headers
  IN Over(<<Take(ws, "path", "str", "upgrade.path"), Take(p, "ws-path", "str", "upgrade.path"),
            Set(hosts # {}, "upgrade.host", headers[CHOOSE h \in hosts : TRUE]),
            "upgrade.headers" :> [h \in DOMAIN headers \ hosts |-> headers[h]]>>)

\* A YAML list is a []any, so that only single paths and hosts are taken.
convertHTTPTransport(p) ==
  LET http == Sub(p, "http-opts")
  IN Over(<<Take(http, "method", "str", "http.method"), Take(http, "path", "str", "http.path"),
            Take(http, "host", "str", "http.host"), "http.headers" :> Sub(http, "headers")>>)

convertH2Transport(p) == Take(Sub(p, "h2-opts"), "host", "str", "http.host")

convertGRPCTransport(p) == Take(Sub(p, "grpc-opts"), "grpc-service-name", "str", "grpc.service")

\* ip-version and routing-mark never arrive: the strategies are not quoted as
\* JSON strings are, and YAML has no uint32.
convertDialerOption(p) ==
  Over(<<TakeTrue(p, "tcp-fast-open", "tcp_fast_open"), TakeTrue(p, "tfo", "tcp_fast_open"),
         Take(p, "interface-name", "str", "bind_interface"),
         Take(p, "dialer-proxy", "str", "detour")>>)

\* The transport of `network', among those the protocol's parser knows.
ClashTransport(p, known) ==
  LET net == IF Has(p, "network", "str") THEN p["network"].v ELSE ""
  IN CASE net \notin known -> <<>>
       [] net = "ws" /\ Field(TakeTrue(Sub(p, "ws-opts"), "v2ray-http-upgrade", "up"), "up") = "true"
            -> ("transport" :> "httpupgrade") @@ convertHTTPUpgradeTransport(p)
       [] net = "ws"   -> ("transport" :> "ws") @@ convertWSTransport(p)
       [] net = "http" -> ("transport" :> "http") @@ convertHTTPTransport(p)
       [] net = "h2"   -> ("transport" :> "http") @@ ("tls" :> "true") @@ convertH2Transport(p)
       [] net = "grpc" -> ("transport" :> "grpc") @@ convertGRPCTransport(p)

\* Options of a plugin, in no order: those of obfs are renamed; those of
\* v2ray-plugin give way to ws-host and ws-path.  (Its mux option is lost: the
\* smux options replace the multiplex options it was put into.)
PluginOptions(p) ==
  LET opts == Sub(p, "plugin-opts")
      Name(key) == CASE key = "mode" -> "obfs"
                     [] key = "host" /\ p["plugin"].v = "obfs" -> "obfs-host"
                     [] OTHER -> key
      Value(key) == CASE p["plugin"].v = "obfs" -> opts[key].v
                      [] key = "host" /\ Has(p, "ws-host", "str") -> p["ws-host"].v
                      [] key = "path" /\ Has(p, "ws-path", "str") -> p["ws-path"].v
                      [] OTHER -> opts[key].v
      gone == IF p["plugin"].v = "obfs" THEN {} ELSE {"mux"}
  IN {<<Name(key), Value(key)>> : key \in DOMAIN opts \ gone}

newSSClashParser(p) ==
  Over(<<ClashHead("shadowsocks", p), Take(p, "cipher", "str", "method"),
         Take(p, "password", "str", "password"),
         Set(Has(p, "plugin", "str"), "plugin",
             IF p["plugin"].v = "obfs" THEN "obfs-local" ELSE p["plugin"].v),
         Set(Has(p, "plugin", "str"), "plugin_opts", PluginOptions(p)),
         TakeTrue(p, "uot", "uot"), TakeTrue(p, "udp-over-tcp", "uot"),
         convertSMuxOptions(p), convertDialerOption(p)>>)

\* Shadowsocks over ShadowTLS: two outbounds, the first dialing through the second.
newSTLSClashParser(p) ==
  LET opts == Sub(p, "plugin-opts")
      named == Has(p, "name", "str")
      st == p["name"].v \o "-st"
      ss == Over(<<"type" :> "shadowsocks", Take(p, "name", "str", "tag"), Set(named, "detour", st),
                   Take(p, "cipher", "str", "method"), Take(p, "password", "str", "password"),
                   Take(p, "uot", "bool", "uot"), Take(p, "udp-over-tcp", "bool", "uot"),
                   convertSMuxOptions(p)>>)
      stls == Over(<<ClashHead("shadowtls", p), Set(named, "tag", st),
                     convertTLSOptions(p), "tls" :> "true", "utls" :> "true",
                     Take(opts, "version", "int", "version"),
                     Take(opts, "password", "str", "password"),
                     Take(opts, "host", "str", "server_name"), convertDialerOption(p)>>)
  IN IF Has(p, "plugin-opts", "map") THEN <<ss, stls>> ELSE <<>>

newSSRClashParser(p) ==
  Over(<<ClashHead("shadowsocksr", p), Take(p, "cipher", "str", "method"),
         Take(p, "password", "str", "password"), Take(p, "obfs", "str", "obfs"),
         Take(p, "obfs-param", "str", "obfs_param"), Take(p, "protocol", "str", "protocol"),
         Take(p, "protocol-param", "str", "protocol_param"), convertDialerOption(p)>>)

newHTTPClashParser(p) ==
  Over(<<ClashHead("http", p), Take(p, "username", "str", "username"),
         Take(p, "password", "str", "password"), Take(p, "headers", "map", "headers"),
         convertTLSOptions(p), convertDialerOption(p)>>)

newTUICClashParser(p) ==
  Over(<<ClashHead("tuic", p), Take(p, "uuid", "str", "uuid"), Take(p, "password", "str", "password"),
         Set(Has(p, "congestion-controller", "str") /\ p["congestion-controller"].v = "cubic",
             "congestion_control", "cubic"),
         Set(Has(p, "udp-relay-mode", "str") /\ p["udp-relay-mode"].v = "quic",
             "udp_relay_mode", "quic"),
         TakeTrue(p, "reduce-rtt", "zero_rtt"), TakeTrue(p, "udp-over-stream", "udp_over_stream"),
         Take(p, "heartbeat-interval", "int", "heartbeat"),
         convertTLSOptions(p), "utls" :> "false", convertDialerOption(p)>>)

newVMessClashParser(p) ==
  Over(<<ClashHead("vmess", p), Take(p, "uuid", "str", "uuid"), Take(p, "alterId", "int", "alter_id"),
         Take(p, "cipher", "str", "security"), convertTLSOptions(p), convertSMuxOptions(p),
         ClashTransport(p, {"ws", "http", "h2", "grpc"}), convertDialerOption(p)>>)

newVLESSClashParser(p) ==
  Over(<<ClashHead("vless", p), Take(p, "uuid", "str", "uuid"),
         Set(Has(p, "flow", "str") /\ p["flow"].v = "xtls-rprx-vision", "flow", "xtls-rprx-vision"),
         ClashTransport(p, {"ws", "grpc"}), convertTLSOptions(p), convertSMuxOptions(p),
         convertDialerOption(p)>>)

newSOCKS5ClashParser(p) ==
  Over(<<ClashHead("socks", p), "version" :> "5", Take(p, "username", "str", "username"),
         Take(p, "password", "str", "password"), Take(p, "uot", "bool", "uot"),
         Take(p, "udp-over-tcp", "bool", "uot"), convertDialerOption(p)>>)

newTrojanClashParser(p) ==
  Over(<<ClashHead("trojan", p), Take(p, "password", "str", "password"),
         ClashTransport(p, {"ws", "grpc"}), convertTLSOptions(p), convertSMuxOptions(p),
         convertDialerOption(p)>>)

\* A certificate, by path or as lines of text, under either spelling of the key.
ClashCA(p) ==
  Over(<<Take(p, "ca", "any", "certificate_path"), Take(p, "ca-str", "list", "certificate"),
         Take(p, "ca_str", "list", "certificate")>>)

newHysteriaClashParser(p) ==
  Over(<<ClashHead("hysteria", p), convertTLSOptions(p), "tls" :> "true", "utls" :> "false",
         Take(p, "up", "str", "up"), Take(p, "up", "int", "up_mbps"),
         Take(p, "down", "str", "down"), Take(p, "down", "int", "down_mbps"),
         Take(p, "auth-str", "any", "auth_str"), Take(p, "auth_str", "any", "auth_str"),
         Take(p, "obfs", "str", "obfs"),
         Take(p, "recv-window-conn", "int", "recv_window_conn"),
         Take(p, "recv_window_conn", "int", "recv_window_conn"),
         Take(p, "recv-window", "int", "recv_window"), Take(p, "recv_window", "int", "recv_window"),
         TakeTrue(p, "disable_mtu_discovery", "disable_mtu_discovery"),
         ClashCA(p), convertDialerOption(p)>>)

newHysteria2ClashParser(p) ==
  LET salamander == Has(p, "obfs", "str") /\ p["obfs"].v = "salamander"
  IN Over(<<ClashHead("hysteria2", p), Take(p, "password", "str", "password"),
            Take(p, "up", "int", "up_mbps"), Take(p, "down", "int", "down_mbps"),
            Set(salamander, "obfs", "salamander"),
            Set(salamander /\ Has(p, "obfs-password", "str"), "obfs_password", p["obfs-password"].v),
            convertTLSOptions(p), "tls" :> "true", "utls" :> "false",
            ClashCA(p), convertDialerOption(p)>>)

\* `peers' never arrives: a YAML list is not a []map[string]any.
newWireGuardClashParser(p) ==
  Over(<<ClashHead("wireguard", p),
         "local_address" :> (IF Has(p, "ip", "str") THEN <<p["ip"].v>> ELSE <<>>)
                            \o (IF Has(p, "ipv6", "str") THEN <<p["ipv6"].v>> ELSE <<>>),
         Take(p, "private-key", "str", "private_key"), Take(p, "public-key", "str", "peer_public_key"),
         Take(p, "pre-shared-key", "str", "pre_shared_key"),
         Set(Has(p, "reserved", "list"), "reserved", p["reserved"].v), convertDialerOption(p)>>)

\* The outbounds of one Clash entry; entries of types, plugins or flows the
\* parser does not know give none.
newClashParser(p) ==
  LET type == IF "type" \in DOMAIN p THEN p["type"].v ELSE ""
      plugin == IF "plugin" \in DOMAIN p THEN p["plugin"].v ELSE None
      flow == IF Has(p, "flow", "str") THEN p["flow"].v ELSE ""
  IN CASE type = "ss" /\ plugin = "shadow-tls" -> newSTLSClashParser(p)
       [] type = "ss" /\ plugin \in {None, "obfs", "v2ray-plugin"} -> <<newSSClashParser(p)>>
       [] type = "ssr" -> <<newSSRClashParser(p)>>
       [] type = "http" -> <<newHTTPClashParser(p)>>
       [] type = "tuic" /\ "token" \notin DOMAIN p -> <<newTUICClashParser(p)>>
       [] type = "vmess" -> <<newVMessClashParser(p)>>
       [] type = "vless" /\ flow \in {"", "xtls-rprx-vision"} -> <<newVLESSClashParser(p)>>
       [] type = "socks5" -> <<newSOCKS5ClashParser(p)>>
       [] type = "trojan" /\ ~Has(p, "flow", "str") -> <<newTrojanClashParser(p)>>
       [] type = "hysteria" -> <<newHysteriaClashParser(p)>>
       [] type = "hysteria2" -> <<newHysteria2ClashParser(p)>>
       [] type = "wireguard" -> <<newWireGuardClashParser(p)>>
       [] OTHER -> <<>>

-----------------------------------------------------------------------------
(* Share links.  A parser gives the set of the results it may return: it is *)
(* empty when the link is refused, and has more than one member where the   *)
(* parser ranges over a map and two keys set one option.                    *)

\* What follows the first equal sign is lost from the second one on.
splitKeyValueWithEqual(addon) ==
  <<addon[1], IF Len(addon) = 1 THEN "1" ELSE addon[2]>>

IsTrue(v) == v \in {"1", "true"}
NoTag(link) == link.tag = None

\* The addons of a link, in order, each turned into options by Case(key, value).
Addons(link, Case(_, _)) ==
  Over([i \in 1..Len(link.addons) |->
          Case(splitKeyValueWithEqual(link.addons[i])[1], splitKeyValueWithEqual(link.addons[i])[2])])

\* The addons of a link as a map, and what any order of ranging over it sets.
AddonMap(link) == Addons(link, LAMBDA key, value : key :> value)
Ranged(m, Case(_, _)) == FoldSet(LAMBDA key, acc : Case(key, m[key]) @@ acc, <<>>, DOMAIN m)

LinkHead(type, link) ==
  ("type" :> type) @@ ("server" :> link.host)
    @@ Set(link.port # None, "port", stringToUint16(link.port)) @@ Set(~NoTag(link), "tag", link.tag)

FastOpen(key, value) ==
  Set(key \in {"tfo", "tcp-fast-open", "tcp_fast_open"} /\ IsTrue(value), "tcp_fast_open", "true")

Insecure(key, value, also) ==
  Set(key \in {"insecure", "skip-cert-verify"} \cup also /\ IsTrue(value), "insecure", "true")

newSSNativeParser(link) ==
  LET Case(key, value) == Set(key = "plugin" /\ value \in {"obfs", "obfs-local", "simple-obfs"}, "plugin", "obfs-local")
      plugin == Addons(link, Case)
      rest == SelectSeq(link.addons, LAMBDA a : a[1] # "plugin")
  IN IF NoTag(link) THEN {}
     ELSE {Over(<<LinkHead("shadowsocks", link), "method" :> link.user[1], "password" :> link.user[2],
                  plugin, Set(DOMAIN plugin # {}, "plugin_opts", ToSet(rest))>>)}

\* user: the protocol, the method, the obfuscation and the password.
newSSRNativeParser(link) ==
  LET Case(key, value) ==
        Over(<<Set(key = "remarks", "tag", value), Set(key = "obfsparam", "obfs_param", value),
               Set(key = "protoparam", "protocol_param", value), FastOpen(key, value)>>)
  IN {Over(<<LinkHead("shadowsocksr", link), "protocol" :> link.user[1], "method" :> link.user[2],
             "obfs" :> link.user[3], "password" :> link.user[4], Addons(link, Case)>>)}

newTuicNativeParser(link) ==
  LET Case(key, value) ==
        Over(<<Set(key = "congestion_control" /\ value # "cubic", "congestion_control", value),
               Set(key = "udp_relay_mode", "udp_relay_mode", value),
               Set(key = "udp_over_stream" /\ IsTrue(value), "udp_over_stream", "true"),
               Set(key \in {"zero_rtt_handshake", "reduce_rtt"} /\ IsTrue(value), "zero_rtt", "true"),
               Set(key = "heartbeat_interval", "heartbeat", value),
               Set(key = "sni", "server_name", value), Insecure(key, value, {"allow_insecure"}),
               Set(key = "disable_sni" /\ IsTrue(value), "disable_sni", "true"),
               FastOpen(key, value), Set(key = "alpn", "alpn", value)>>)
      o == Over(<<LinkHead("tuic", link), "tls" :> "true", "server_name" :> link.host,
                  "uuid" :> link.user[1], "password" :> link.user[2], Addons(link, Case)>>)
  IN IF NoTag(link) THEN {}
     ELSE {Over(<<o, Set(Field(o, "udp_over_stream") = "true", "udp_relay_mode", "")>>)}

\* A websocket transport: the host is sent as the Host header.
NativeWS(m) ==
  Over(<<"transport" :> "ws",
         "ws.headers" :> (IF Field(m, "host") # "" THEN "Host" :> m["host"] ELSE <<>>),
         IF "path" \in DOMAIN m THEN EarlyData(m["path"]) ELSE <<>>>>)

\* The map of a vmess link: the JSON object, if all its values are strings, or
\* the addons of the other form, whose only transport is HTTP over TCP.
VMessMap(link) ==
  IF link.json # None THEN {link.json}
  ELSE IF NoTag(link) THEN {}
  ELSE LET Case(key, value) ==
             CASE key = "type" /\ value = "http" -> ("net" :> "tcp") @@ ("type" :> "http")
               [] key = "type" -> <<>>
               [] key = "encryption" -> "scy" :> value
               [] key = "alterId" -> "aid" :> value
               [] OTHER -> key :> value
       IN {Over(<<("id" :> link.user[1]) @@ ("add" :> link.host) @@ ("port" :> link.port)
                    @@ ("ps" :> link.tag), Addons(link, Case)>>)}

\* No entry for "sni" and "alpn": the server name is the address.
newVMessNativeParser(link) ==
  LET Transport(m) ==
        CASE Field(m, "net") = "ws" -> NativeWS(m)
          [] Field(m, "net") = "h2" ->
               Over(<<("transport" :> "http") @@ ("tls" :> "true"),
                      Set("host" \in DOMAIN m, "http.host", m["host"]),
                      Set("path" \in DOMAIN m, "http.path", m["path"])>>)
          [] Field(m, "net") = "tcp" /\ Field(m, "type") = "http" ->
               Over(<<"transport" :> "http", Set("method" \in DOMAIN m, "http.method", m["method"]),
                      Set("host" \in DOMAIN m, "http.host", m["host"]),
                      Set("path" \in DOMAIN m, "http.path", m["path"]),
                      Set("headers" \in DOMAIN m, "http.headers", m["headers"])>>)
          [] Field(m, "net") = "grpc" ->
               ("transport" :> "grpc") @@ Set("host" \in DOMAIN m, "grpc.service", m["host"])
          [] OTHER -> <<>>
      Case(key, value) ==
        Over(<<Set(key = "ps", "tag", value), Set(key = "add", "server", value),
               Set(key = "add", "server_name", value),
               Set(key = "port", "port", stringToUint16(value)),
               Set(key = "id", "uuid", value), Set(key = "scy", "security", value),
               Set(key = "aid", "alter_id", value),
               Set(key = "tls" /\ (IsTrue(value) \/ value = "tls"), "tls", "true"),
               Insecure(key, value, {}), Set(key = "fp", "utls", "true"),
               Set(key = "fp", "fingerprint", value), FastOpen(key, value)>>)
      encodings(m) == {m[k] : k \in {"packet_encoding"} \cap DOMAIN m}
                        \cup {"xudp" : k \in {k \in {"xudp"} \cap DOMAIN m : IsTrue(m[k])}}
  IN {Over(<<"type" :> "vmess", Ranged(m, Case), Transport(m), e>>) :
        <<m, e>> \in UNION {{m} \X (IF encodings(m) = {} THEN {<<>>}
                                    ELSE {"packet_encoding" :> x : x \in encodings(m)})
                            : m \in VMessMap(link)}}

\* Every key of `names' sets the server name, the last one ranged over wins.
ServerNames(link, m, names) ==
  LET given == names \cap DOMAIN m
  IN IF given = {} THEN {"server_name" :> link.host} ELSE {"server_name" :> m[k] : k \in given}

newVLESSNativeParser(link) ==
  LET m == AddonMap(link)
      type == Field(m, "type")
      Transport ==
        CASE type = "ws" -> NativeWS(m)
          [] type = "http" ->
               Over(<<"transport" :> "http", Set("host" \in DOMAIN m, "http.host", m["host"]),
                      Set("path" \in DOMAIN m, "http.path", m["path"])>>)
          [] type = "grpc" ->
               ("transport" :> "grpc") @@ Set("serviceName" \in DOMAIN m, "grpc.service", m["serviceName"])
          [] OTHER -> <<>>
      Case(key, value) ==
        Over(<<Set(key = "security" /\ value \in {"tls", "reality"}, "tls", "true"),
               Set(key = "security" /\ value = "reality", "reality", "true"),
               Insecure(key, value, {}), Set(key = "alpn", "alpn", value),
               Set(key = "fp", "utls", "true"), Set(key = "fp", "fingerprint", value),
               Set(key = "flow" /\ value = "xtls-rprx-vision", "flow", "xtls-rprx-vision"),
               Set(key = "pbk", "public_key", value), Set(key = "sid", "short_id", value),
               FastOpen(key, value)>>)
  IN IF NoTag(link) \/ type = "kcp" THEN {}
     ELSE {Over(<<LinkHead("vless", link), "uuid" :> link.user[1], Ranged(m, Case), Transport, name>>) :
             name \in ServerNames(link, m, {"serviceName", "sni", "peer"})}

\* Mutant of newTrojanNativeParser: the server name option is not read.
newTrojanNativeParserNoSNI(link) ==
  IF NoTag(link) THEN {}
  ELSE {Over(<<LinkHead("trojan", link), "tls" :> "true", "password" :> link.user[1],
               "server_name" :> link.host,
               IF Field(AddonMap(link), "type") = "ws" THEN NativeWS(AddonMap(link)) ELSE <<>>>>)}

newTrojanNativeParser(link) ==
  LET m == AddonMap(link)
      Transport ==
        CASE Field(m, "type") = "ws" -> NativeWS(m)
          [] Field(m, "type") = "grpc" ->
               ("transport" :> "grpc")
                 @@ Set("grpc-service-name" \in DOMAIN m, "grpc.service", m["grpc-service-name"])
          [] OTHER -> <<>>
      Case(key, value) ==
        Over(<<Insecure(key, value, {"allowInsecure"}), Set(key = "alpn", "alpn", value),
               Set(key = "fp", "utls", "true"), Set(key = "fp", "fingerprint", value),
               FastOpen(key, value)>>)
  IN IF NoTag(link) THEN {}
     ELSE {Over(<<LinkHead("trojan", link), "tls" :> "true", "password" :> link.user[1],
                  Ranged(m, Case), Transport, name>>) :
             name \in ServerNames(link, m, {"serviceName", "sni", "peer"})}

newHysteriaNativeParser(link) ==
  LET Case(key, value) ==
        Over(<<Set(key = "auth", "auth_str", value), Set(key \in {"peer", "sni"}, "server_name", value),
               Set(key = "alpn", "alpn", value), Set(key = "ca", "certificate_path", value),
               Set(key = "ca_str", "certificate", value),
               Set(key \in {"up", "up_mbps", "down", "down_mbps"}, key, value),
               Set(key \in {"obfs", "obfsParam"}, "obfs", value),
               Insecure(key, value, {}), FastOpen(key, value)>>)
  IN {Over(<<LinkHead("hysteria", link), "tls" :> "true", "server_name" :> link.host,
             Addons(link, Case)>>)}

\* The addons are split at line ends, of which a link has none: only a single
\* one is understood.  Setting an obfuscation writes through a nil pointer.
newHysteria2NativeParser(link) ==
  LET Case(key, value) ==
        Over(<<Set(key = "up", "up_mbps", value), Set(key = "down", "down_mbps", value),
               Insecure(key, value, {})>>)
  IN {Over(<<LinkHead("hysteria2", link), Set(link.port = None, "port", 443), "tls" :> "true",
             "server_name" :> link.host, "password" :> link.user[IF Len(link.user) > 1 THEN 2 ELSE 1],
             IF Len(link.addons) = 1 THEN Addons(link, Case) ELSE <<>>>>)}

Panics(link) ==
  /\ link.scheme \in {"hy2", "hysteria2"} /\ Len(link.addons) = 1
  /\ link.addons[1] \in {<<"obfs", "salamander">>} \/ link.addons[1][1] = "obfs-password"

newNativeURIParser(link) ==
  CASE link.scheme = "ss" -> newSSNativeParser(link)
    [] link.scheme = "ssr" -> newSSRNativeParser(link)
    [] link.scheme = "tuic" -> newTuicNativeParser(link)
    [] link.scheme = "vmess" -> newVMessNativeParser(link)
    [] link.scheme = "vless" -> newVLESSNativeParser(link)
    [] link.scheme = "trojan" -> newTrojanNativeParser(link)
    [] link.scheme = "hysteria" -> newHysteriaNativeParser(link)
    [] link.scheme \in {"hy2", "hysteria2"} -> newHysteria2NativeParser(link)
    [] OTHER -> {}

-----------------------------------------------------------------------------
(* The outbound types of option.Outbound; a sing-box document with another  *)
(* one is refused as a whole.                                               *)
OutboundTypes ==
  {"direct", "block", "dns", "socks", "http", "shadowsocks", "vmess", "trojan", "wireguard",
   "hysteria", "tor", "ssh", "shadowtls", "shadowsocksr", "vless", "tuic", "hysteria2",
   "selector", "urltest"}

\* The types overrideOutbounds has a case for.
Overridden == {"http", "socks", "tuic", "vmess", "vless", "trojan", "hysteria", "shadowtls",
               "hysteria2", "wireguard", "shadowsocks", "shadowsocksr"}

\* The dialer options overrideDialerOption copies from the override.  A given
\* domain_strategy copies udp_fragment once more, given or not.
Copied == {"bind_interface", "inet4_bind_address", "inet6_bind_address", "protect_path",
           "routing_mark", "reuse_addr", "connect_timeout", "tcp_fast_open", "tcp_multi_path",
           "udp_fragment", "fallback_delay", "store_last_ip"}

\* A detour that names no outbound of the subscription is dropped.
overrideDialerOption(o, override, tags) ==
  LET gone == (IF Field(o, "detour") \in tags THEN {} ELSE {"detour"})
                \cup (IF "domain_strategy" \in DOMAIN override THEN {"udp_fragment"} ELSE {})
      kept == [f \in DOMAIN o \ gone |-> o[f]]
      fields == (Copied \cup (IF "detour" \in DOMAIN kept THEN {} ELSE {"detour"})) \cap DOMAIN override
  IN [f \in fields |-> override[f]] @@ kept

overrideOutbounds(outbounds, override) ==
  LET tags == {Field(outbounds[i], "tag") : i \in DOMAIN outbounds}
      Tagged(o) == ("tag" :> Field(override, "tag_prefix") \o Field(o, "tag")
                                \o Field(override, "tag_suffix")) @@ o
      One(o) == IF Field(o, "type") \in Overridden
                THEN overrideDialerOption(Tagged(o), override, tags) ELSE Tagged(o)
  IN [i \in DOMAIN outbounds |-> One(outbounds[i])]

-----------------------------------------------------------------------------
SubStart(s, phase) == subScn = s /\ subAt = 0 /\ subOut = <<>> /\ subPhase = phase

SubInit == \E s \in DOMAIN SubScenarios : SubStart(s, "parse")

Scenario == SubScenarios[subScn]

\* The next entry of the document, and the outbounds it gives: an entry that
\* cannot be read costs the others nothing, except in a sing-box document.
SubClash ==
  /\ subPhase = "parse" /\ Scenario.form = "clash" /\ subAt < Len(Scenario.entries)
  /\ subOut' = subOut \o newClashParser(Scenario.entries[subAt + 1])
  /\ subAt' = subAt + 1
  /\ UNCHANGED <<subScn, subPhase>>

SubLink ==
  /\ subPhase = "parse" /\ Scenario.form = "links" /\ subAt < Len(Scenario.entries)
  /\ LET link == Scenario.entries[subAt + 1]
         results == newNativeURIParser(link)
     IN IF Panics(link) THEN subPhase' = "panic" /\ UNCHANGED subOut
        ELSE /\ IF results = {} THEN UNCHANGED subOut ELSE \E o \in results : subOut' = Append(subOut, o)
             /\ UNCHANGED subPhase
  /\ subAt' = subAt + 1
  /\ UNCHANGED subScn

SubDocument ==
  /\ subPhase = "parse" /\ Scenario.form = "sing-box" /\ subAt < Len(Scenario.entries)
  /\ LET o == Scenario.entries[subAt + 1]
     IN IF Field(o, "type") \in OutboundTypes THEN subOut' = Append(subOut, o) /\ UNCHANGED subPhase
        ELSE subOut' = <<>> /\ subPhase' = "error"
  /\ subAt' = subAt + 1
  /\ UNCHANGED subScn

SubOverride ==
  /\ subPhase = "parse" /\ subAt = Len(Scenario.entries)
  /\ subOut' = overrideOutbounds(subOut, Scenario.override)
  /\ subPhase' = "done"
  /\ UNCHANGED <<subScn, subAt>>

SubNext == SubClash \/ SubLink \/ SubDocument \/ SubOverride

-----------------------------------------------------------------------------
\* The parsers stay in the options the outbounds have: every outbound has a type
\* its constructor knows and a port of 16 bits.
SubTypeOK ==
  /\ subScn \in DOMAIN SubScenarios /\ subAt \in 0..Len(Scenario.entries)
  /\ subPhase \in {"parse", "done", "error", "panic"}
  /\ \A i \in DOMAIN subOut :
       /\ Field(subOut[i], "type") \in OutboundTypes
       /\ "port" \in DOMAIN subOut[i] => subOut[i]["port"] \in 0..65535

\* What decides where an outbound connects and how: without TLS its TLS options
\* do nothing, and a server name that is not given is the server's address.
Compared == {"type", "tag", "server", "port", "method", "password", "uuid", "security", "flow",
             "tls", "server_name", "insecure", "reality", "public_key", "short_id", "alpn",
             "transport", "ws.path", "ws.early", "ws.header", "obfs", "protocol", "auth_str",
             "tcp_fast_open", "detour"}
TLSFields == {"tls", "server_name", "insecure", "reality", "public_key", "short_id", "alpn"}
Effective(o) ==
  [f \in Compared |->
     CASE f = "port" -> IF f \in DOMAIN o THEN o[f] ELSE 0
       [] f \in TLSFields /\ Field(o, "tls") # "true" -> ""
       [] f = "server_name" /\ Field(o, f) = "" -> Field(o, "server")
       [] Field(o, f) = "false" -> ""
       [] OTHER -> Field(o, f)]

\* A node means the same outbound however the subscription writes it: read from
\* a Clash document or from a share link (newClashParser, newNativeURIParser),
\* in whatever order the parser's maps are ranged over, the outbounds are those
\* of the nodes, in their order, and a node neither form can carry is dropped
\* without a trace in the others.
SubSameNodes ==
  subPhase = "done" /\ Scenario.nodes # None =>
    /\ Len(subOut) = Len(Scenario.nodes)
    /\ \A i \in DOMAIN subOut : Effective(subOut[i]) = Effective(Scenario.nodes[i])

\* As long as tags are not renamed, every detour of an outbound that
\* overrideOutbounds has a case for leads to an outbound of the subscription or
\* is the one of the override (newSTLSClashParser's pair, dialer-proxy).
SubDetours ==
  subPhase = "done" /\ {"tag_prefix", "tag_suffix"} \cap DOMAIN Scenario.override = {} =>
    \A i \in DOMAIN subOut :
      "detour" \in DOMAIN subOut[i] /\ Field(subOut[i], "type") \in Overridden =>
      \/ \E j \in DOMAIN subOut : Field(subOut[j], "tag") = subOut[i]["detour"]
      \/ Field(Scenario.override, "detour") = subOut[i]["detour"]

\* "Override fields of outbounds in provider": a dialer field the provider's
\* outbound_override gives is the one of every outbound of a type that dials.
SubOverrideApplied ==
  subPhase = "done" =>
    \A i \in DOMAIN subOut : Field(subOut[i], "type") \in Overridden =>
      \A f \in (Copied \cup {"domain_strategy"}) \cap DOMAIN Scenario.override :
        Field(subOut[i], f) = Scenario.override[f]

-----------------------------------------------------------------------------
(* The properties above, by subject. *)

\* What the parsers of a subscription make of it: the same outbound from either form of a node, detours that
\* lead into the subscription or to the override's, and the override applied.
SubscriptionSound ==
  /\ SubTypeOK
  /\ SubSameNodes
  /\ SubDetours
  /\ SubOverrideApplied
=============================================================================
