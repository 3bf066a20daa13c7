----------------------------- MODULE MCControl ------------------------------
(* What the app hands to the service: commands over the command bus, and subscriptions.  A behaviour is one of *)
(* one of the two; the other stands still.                                                                     *)
EXTENDS CommandBus, Subscription

VARIABLE part

-----------------------------------------------------------------------------
(* The command bus: every command with a stream that shows its effect, or with another command. *)

MCSessions ==
  {<<"Group">>, <<"Group", "ServiceClose">>, <<"ClashMode", "SetClashMode">>, <<"Log">>,
   <<"Provider">>, <<"Status", "ServiceReload">>, <<"Connections", "CloseConnection">>,
   <<"SelectOutbound", "ServiceClose">>, <<"URLTest", "GroupExpand">>, <<"HealthCheck", "ProviderExpand">>,
   <<"SetSystemProxyEnabled", "GetSystemProxyStatus">>, <<"CloseConnections">>}

-----------------------------------------------------------------------------
(* Subscriptions. *)

(* Nodes, as the options of the outbound they stand for.                    *)
Basic(type, tag) == ("type" :> type) @@ ("tag" :> tag) @@ ("server" :> "s.com") @@ ("port" :> 443)

SSNode == Basic("shadowsocks", "ss") @@ ("method" :> "aes") @@ ("password" :> "pw")
SSRNode == Basic("shadowsocksr", "ssr") @@ ("method" :> "aes") @@ ("password" :> "pw")
             @@ ("obfs" :> "plain") @@ ("protocol" :> "origin") @@ ("tcp_fast_open" :> "true")
WSOptions == ("transport" :> "ws") @@ ("ws.path" :> "/p") @@ ("ws.early" :> "2048")
               @@ ("ws.header" :> "Sec-WebSocket-Protocol")
TLSChoices == {<<>>, "tls" :> "true", ("tls" :> "true") @@ ("insecure" :> "true")}
VMessNodes == {Basic("vmess", "vm") @@ ("uuid" :> "id") @@ ("security" :> "auto") @@ tls @@ ws :
                 tls \in TLSChoices, ws \in {<<>>, WSOptions}}
VLESSNodes == {Basic("vless", "vl") @@ ("uuid" :> "id") @@ tls @@ ws @@ flow :
                 tls \in TLSChoices \cup {("tls" :> "true") @@ ("reality" :> "true")
                                            @@ ("public_key" :> "k") @@ ("server_name" :> "n.com")},
                 ws \in {<<>>, WSOptions}, flow \in {<<>>, "flow" :> "xtls-rprx-vision"}}
TrojanNodes == {Basic("trojan", "tr") @@ ("password" :> "pw") @@ ("tls" :> "true") @@ sni @@ ws :
                  sni \in {<<>>, "server_name" :> "n.com"}, ws \in {<<>>, WSOptions}}
HysteriaNode == Basic("hysteria", "hy") @@ ("tls" :> "true") @@ ("auth_str" :> "pw")
                  @@ ("alpn" :> "h3") @@ ("obfs" :> "x") @@ ("server_name" :> "n.com")

(* How subscriptions write them.                                            *)
Str(x) == [t |-> "str", v |-> x]
Bool(x) == [t |-> "bool", v |-> x]
As(o, f, t, key) == Set(f \in DOMAIN o, key, [t |-> t, v |-> o[f]])
ClashType == "shadowsocks" :> "ss" @@ "shadowsocksr" :> "ssr" @@ "vmess" :> "vmess"
               @@ "vless" :> "vless" @@ "trojan" :> "trojan" @@ "hysteria" :> "hysteria"

ClashWS == "ws-opts" :> [t |-> "map", v |-> "path" :> Str([path |-> "/p", ed |-> "2048"])]

AsClash(o) ==
  Over(<<"type" :> Str(ClashType[o["type"]]), As(o, "tag", "str", "name"), As(o, "server", "str", "server"),
         As(o, "port", "int", "port"), As(o, "method", "str", "cipher"),
         As(o, "security", "str", "cipher"), As(o, "password", "str", "password"),
         As(o, "uuid", "str", "uuid"), As(o, "flow", "str", "flow"), As(o, "obfs", "str", "obfs"),
         As(o, "protocol", "str", "protocol"), As(o, "auth_str", "str", "auth-str"),
         As(o, "alpn", "list", "alpn"), As(o, "tcp_fast_open", "bool", "tfo"),
         IF o["type"] \in {"vmess", "vless"} THEN As(o, "tls", "bool", "tls") ELSE <<>>,
         As(o, "insecure", "bool", "skip-cert-verify"), As(o, "server_name", "str", "servername"),
         Set("reality" \in DOMAIN o, "reality-opts",
             [t |-> "map", v |-> "public-key" :> Str(o["public_key"])]),
         Set("transport" \in DOMAIN o, "network", Str("ws")),
         IF "transport" \in DOMAIN o THEN ClashWS ELSE <<>>>>)

Scheme == [ClashType EXCEPT !["hysteria"] = "hysteria"]
LinkPath == [path |-> "/p", ed |-> "2048"]

\* The JSON object of a vmess link and the addons of the others.
VMessJSON(o) ==
  Over(<<("ps" :> o["tag"]) @@ ("add" :> o["server"]) @@ ("port" :> o["port"])
           @@ ("id" :> o["uuid"]) @@ ("scy" :> o["security"]),
         Set("tls" \in DOMAIN o, "tls", "tls"), Set("insecure" \in DOMAIN o, "insecure", "1"),
         Set("transport" \in DOMAIN o, "net", "ws"), Set("transport" \in DOMAIN o, "path", LinkPath)>>)

Addon(c, a) == IF c THEN <<a>> ELSE <<>>
LinkAddons(o) ==
     Addon("tls" \in DOMAIN o /\ o["type"] = "vless",
           <<"security", IF "reality" \in DOMAIN o THEN "reality" ELSE "tls">>)
  \o Addon("insecure" \in DOMAIN o, <<"insecure", "1">>)
  \o (IF "server_name" \in DOMAIN o THEN <<<<"sni", o["server_name"]>>>> ELSE <<>>)
  \o (IF "public_key" \in DOMAIN o THEN <<<<"pbk", o["public_key"]>>>> ELSE <<>>)
  \o (IF "flow" \in DOMAIN o THEN <<<<"flow", o["flow"]>>>> ELSE <<>>)
  \o (IF "alpn" \in DOMAIN o THEN <<<<"alpn", o["alpn"]>>>> ELSE <<>>)
  \o (IF "auth_str" \in DOMAIN o THEN <<<<"auth", o["auth_str"]>>, <<"obfs", o["obfs"]>>>> ELSE <<>>)
  \o Addon("tcp_fast_open" \in DOMAIN o, <<"tfo">>)
  \o Addon(o["type"] = "shadowsocksr", <<"remarks", o["tag"]>>)
  \o (IF "transport" \in DOMAIN o THEN <<<<"type", "ws">>, <<"path", LinkPath>>>> ELSE <<>>)

AsLink(o) ==
  [scheme |-> Scheme[o["type"]], host |-> o["server"], port |-> o["port"], tag |-> o["tag"],
   user |-> CASE o["type"] = "shadowsocks" -> <<o["method"], o["password"]>>
              [] o["type"] = "shadowsocksr" -> <<o["protocol"], o["method"], o["obfs"], o["password"]>>
              [] o["type"] = "vless" -> <<o["uuid"]>>
              [] o["type"] = "trojan" -> <<o["password"]>>
              [] OTHER -> <<>>,
   addons |-> LinkAddons(o), json |-> IF o["type"] = "vmess" THEN VMessJSON(o) ELSE None]

(* Lists of nodes with entries among them that neither form carries.        *)
Lists == {<<SSNode, v>> : v \in VMessNodes} \cup {<<v, SSRNode>> : v \in VLESSNodes}
           \cup {<<t, HysteriaNode>> : t \in TrojanNodes}

JunkClash == <<"type" :> Str("snell") @@ "name" :> Str("j"),
               "type" :> Str("tuic") @@ "token" :> Str("t"), "name" :> Str("j")>>
JunkLinks == <<[AsLink(SSNode) EXCEPT !.tag = None], [AsLink(SSNode) EXCEPT !.scheme = "snell"],
               [AsLink(HysteriaNode) EXCEPT !.scheme = "vless", !.user = <<"u">>,
                                            !.addons = <<<<"type", "kcp">>>>]>>

Doc(form, entries, nodes, override) ==
  [form |-> form, entries |-> entries, nodes |-> nodes, override |-> override]
Between(l, junk) == <<l[1]>> \o junk \o Tail(l)

Listed(S) == FoldSet(LAMBDA x, acc : Append(acc, x), <<>>, S)

Agreement ==
     Listed({Doc("clash", Between([i \in DOMAIN l |-> AsClash(l[i])], JunkClash), l, <<>>) : l \in Lists})
  \o Listed({Doc("links", Between([i \in DOMAIN l |-> AsLink(l[i])], JunkLinks), l, <<>>) : l \in Lists})

(* Documents whose nodes only one form has, and those with detours.         *)
Shadow == AsClash(SSNode) @@ "plugin" :> Str("shadow-tls") @@ "dialer-proxy" :> Str("gone")
            @@ "plugin-opts" :> [t |-> "map", v |-> "host" :> Str("h.com")]
Chained(p, name, via) ==
  ("name" :> Str(name)) @@ ("dialer-proxy" :> Str(via)) @@ p
Plain(type) == "type" :> Str(type) @@ "name" :> Str(type) @@ "server" :> Str("s.com")
                 @@ "port" :> Str(65536 + 80) @@ "password" :> Str("pw")
Others == <<Plain("http"), Plain("socks5"), Plain("hysteria2") @@ "obfs" :> Str("salamander"),
            Plain("wireguard") @@ "ip" :> Str("10.0.0.2/32"), Plain("tuic"),
            Plain("ss") @@ "plugin" :> Str("obfs")
              @@ "plugin-opts" :> [t |-> "map", v |-> "mode" :> Str("http") @@ "host" :> Str("h.com")],
            Plain("vmess") @@ "network" :> Str("h2"), Plain("vmess") @@ "network" :> Str("http"),
            Plain("vless") @@ "network" :> Str("grpc"),
            Plain("trojan") @@ "network" :> Str("ws")
              @@ "ws-opts" :> [t |-> "map", v |-> "v2ray-http-upgrade" :> Bool("true")]>>
Detours == <<Shadow, Chained(AsClash(SSRNode), "c", "ss"), Chained(AsClash(SSRNode), "d", "lost")>>
Link(scheme, user, addons) ==
  [scheme |-> scheme, user |-> user, host |-> "s.com", port |-> 443, tag |-> "t", addons |-> addons,
   json |-> None]
OtherLinks == <<Link("tuic", <<"id", "pw">>, <<<<"udp_over_stream">>, <<"udp_relay_mode", "quic">>>>),
                [Link("hy2", <<"name", "pw">>, <<<<"insecure", "1">>>>) EXCEPT !.port = None],
                Link("vless", <<"id">>, <<<<"type", "grpc">>, <<"serviceName", "g">>, <<"sni", "n.com">>>>),
                Link("vmess", <<"id">>, <<<<"type", "http">>, <<"xudp">>, <<"packet_encoding", "packetaddr">>>>),
                Link("hysteria2", <<"pw">>, <<<<"obfs", "salamander">>>>)>>
SingBox == <<Basic("direct", "d") @@ "detour" :> "lost", SSNode @@ "detour" :> "d",
             SSRNode @@ "detour" :> "lost" @@ "udp_fragment" :> "true">>

Overrides == {<<>>, "bind_interface" :> "en0" @@ "detour" :> "up", "tag_prefix" :> "p-",
              "udp_fragment" :> "false" @@ "tcp_fast_open" :> "false"}

MCSubScenarios ==
  LET With(form, entries) == Listed({Doc(form, entries, None, o) : o \in Overrides})
  IN Agreement \o With("clash", Others) \o With("clash", Detours) \o With("links", OtherLinks)
       \o With("sing-box", SingBox) \o <<Doc("sing-box", <<SSNode, Basic("snell", "x")>>, None, <<>>)>>

-----------------------------------------------------------------------------
Init ==
  \/ part = "bus" /\ CmInit /\ SubStart(1, "error")
  \/ part = "formats" /\ CmStart(<<>>, 0) /\ SubInit
Next ==
  \/ part = "bus" /\ CmNext /\ UNCHANGED <<part, subVars>>
  \/ part = "formats" /\ SubNext /\ UNCHANGED <<part, cmVars>>

Spec == Init /\ [][Next]_<<part, cmVars, subVars>> /\ CmFairness
=============================================================================
