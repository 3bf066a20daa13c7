------------------------------- MODULE MCRoute -------------------------------
(***************************************************************************)
(* Small configurations for Routing and DNSRouting.                        *)
(***************************************************************************)
EXTENDS Routing, DNSRouting, TLC

MCGeoCountry == [a \in {"ip1", "ip2", "src"} |-> IF a = "ip1" THEN "cn" ELSE None]
MCGeositeDB == [c \in {"cn"} |-> {"a.com"}]
MCBaseName == [p \in {"/bin/x"} |-> "x"]

Head1(opts) == [kind |-> "headless", type |-> "default", opts |-> opts, invert |-> FALSE]

MCRuleSets ==
  [t \in {"site", "cidr"} |->
    IF t = "site" THEN <<Head1("domain" :> {"a.com"} @@ "port" :> {443})>>
                  ELSE <<Head1("ip_cidr" :> {"ip1"})>>]

SetOf(t, src) == [tags |-> <<t>>, matchSource |-> src, acceptEmpty |-> FALSE]

Plain(opts, invert) == [kind |-> "route", type |-> "default", opts |-> opts, invert |-> invert]
To(r, out, skip) ==
  [f \in DOMAIN r \cup {"outbound", "skip_resolve"} |->
     CASE f = "outbound" -> out [] f = "skip_resolve" -> skip [] OTHER -> r[f]]

MCRuleOf ==
  << To(Plain("domain" :> {"a.com"}, FALSE), "socks", FALSE),
    To(Plain("ip_cidr" :> {"ip1"}, FALSE), "group", FALSE),
    To(Plain("ip_cidr" :> {"ip2"}, TRUE), "socks", TRUE),
    To(Plain("geoip" :> {"cn"} @@ "port" :> {443}, FALSE), "direct", FALSE),
    To(Plain("rule_set" :> SetOf("site", FALSE) @@ "source_ip_cidr" :> {"src"}, FALSE), "direct", FALSE),
    To(Plain("rule_set" :> SetOf("cidr", FALSE) @@ "domain" :> {"b.com"}, FALSE), "missing", FALSE),
    To(Plain("protocol" :> {"tls"} @@ "fake_ip" :> TRUE, FALSE), "block", FALSE),
    To([kind |-> "route", type |-> "logical", mode |-> "and", invert |-> TRUE,
        rules |-> <<Plain("ip_cidr" :> {"ip1"}, FALSE), Plain("port" :> {443}, FALSE)>>],
       "socks", FALSE),
     To(Plain("geosite" :> {"cn"} @@ "ip_is_private" :> TRUE @@ "network" :> {"tcp"}, TRUE), "direct", FALSE),
     To(Plain("port_range" :> {[start |-> None, end |-> 80]} @@ "port" :> {443}
              @@ "source_port_range" :> {[start |-> 1, end |-> None]} @@ "process_name" :> {"x"}, FALSE),
        "socks", FALSE),
     To(Plain("rule_set" :> SetOf("cidr", TRUE) @@ "inbound" :> {"in"}, TRUE), "group", FALSE),
     To(Plain("source_geoip" :> {"private"} @@ "geoip" :> {"cn", "private"} @@ "ip_version" :> FALSE, FALSE),
        "block", FALSE) >>

RuleLists == {<<r>> : r \in 1..12} \cup ((1..12) \X (1..12))

Conn ==
  [Inbound |-> "in", Network |-> "tcp", User |-> None, Protocol |-> None, Client |-> None,
   Outbound |-> None, QueryType |-> 0, IPVersion |-> 0, DNSMode |-> None, Domain |-> None,
   SniffHost |-> None, Fqdn |-> None, Addr |-> None, Port |-> 443, SrcAddr |-> "src",
   SrcPort |-> 1, DestinationAddresses |-> <<>>, ProcessInfo |-> None,
   SourceGeoIPCode |-> None, GeoIPCode |-> None, ClashMode |-> None,
   WIFIState |-> [SSID |-> None, BSSID |-> None],
   IPCIDRMatchSource |-> FALSE, IPCIDRAcceptEmpty |-> FALSE, SrcAddrMatch |-> FALSE,
   SrcPortMatch |-> FALSE, DstAddrMatch |-> FALSE, DstPortMatch |-> FALSE, DidMatch |-> FALSE,
   IgnoreDestinationIPCIDRMatch |-> FALSE, DnsFallBack |-> FALSE, FakeIPFilter |-> FALSE,
   IsResolved |-> FALSE, InboundDetour |-> None, LastInbound |-> None,
   OriginDestination |-> None, SniffEnabled |-> FALSE, SniffOverride |-> FALSE,
   DomainStrategy |-> "as_is"]

MCWorld ==
  [magic |-> {"mux"},
   inbounds |-> [i \in {"in", "in2"} |-> [injectable |-> i = "in2", Network |-> {"tcp"}]],
   outbounds |-> [o \in {"direct", "socks", "block"} |->
                    [Type |-> o, Network |-> {"tcp", "udp"},
                     UseIP |-> CASE o = "direct" -> TRUE [] o = "socks" -> FALSE [] o = "block" -> None]],
   groups |-> [g \in {"group"} |-> <<"node", "direct">>],
   provided |-> [o \in {"node"} |-> [Type |-> "vmess", Network |-> {"tcp", "udp"}, UseIP |-> None]],
   final |-> [n \in {"tcp", "udp"} |-> "group"],
   fakeip |-> [a \in {"fake", "lost"} |-> IF a = "fake" THEN "a.com" ELSE None],
   reverse |-> [a \in {"ip2"} |-> "b.com"],
   sniffOverride |-> [i \in {"in2"} |-> <<Plain("domain" :> {"a.com"}, FALSE)>>],
   sniffable |-> {None, "a.com", "b.com"},
   alias |-> [n \in {"www.a.com"} |-> "a.com"], hosts |-> [n \in {"h.com"} |-> <<"ip2">>],
   answer |-> [n \in {"a.com", "b.com", "h.com", "www.a.com", "mux"} |-> IF n = "a.com" THEN <<"ip1">> ELSE <<"ip2">>],
   packetTo |-> [Fqdn |-> None, Addr |-> "ip1"],
   processes |-> {None, [ProcessPath |-> "/bin/x", PackageName |-> None,
                         User |-> None, UserId |-> None]}]

Conf(rules) ==
  [rules |-> rules, paused |-> FALSE, contextTag |-> None, mappingOverride |-> FALSE,
   stopAlwaysResolveUDP |-> FALSE, switched |-> {}, moving |-> FALSE]

Both(c) == {[c EXCEPT !.Network = n] : n \in {"tcp", "udp"}}

\* Every list of rules, for connections to a name and to an address.
Matching ==
  {[conf |-> Conf(rs), conn |-> c] :
     rs \in RuleLists,
     c \in Both([Conn EXCEPT !.Fqdn = "a.com"]) \cup {[Conn EXCEPT !.Fqdn = "b.com"]}
           \cup {[Conn EXCEPT !.Addr = "ip1", !.SniffEnabled = TRUE]}}

\* Every way to the rules, with one list of rules.
Arriving ==
  {[conf |-> [Conf(<<2, 7>>) EXCEPT !.mappingOverride = o], conn |-> c] :
     o \in BOOLEAN,
     c \in UNION {Both([Conn EXCEPT !.Addr = a, !.SniffEnabled = s, !.SniffOverride = s, !.Inbound = i]) :
                    a \in {"ip1", "ip2", "fake", "lost", "unspecified"}, s \in BOOLEAN, i \in {"in", "in2"}}
           \cup UNION {Both([Conn EXCEPT !.Fqdn = n, !.DomainStrategy = d]) :
                    n \in {"h.com", "www.a.com", "mux"}, d \in {"as_is", "ipv4_only"}}
           \cup UNION {Both([Conn EXCEPT !.Fqdn = "b.com", !.InboundDetour = t, !.LastInbound = l]) :
                    t \in {"in", "in2", "none"}, l \in {None, "in2"}}}

\* The Clash API, a provider and a group at work while the rules are tried.
Moving ==
  {[conf |-> [Conf(<<2, 7>>) EXCEPT !.switched = {1}, !.moving = TRUE, !.contextTag = t,
                                    !.stopAlwaysResolveUDP = st], conn |-> c] :
     c \in Both([Conn EXCEPT !.Fqdn = "a.com"]), t \in {None, "group"}, st \in BOOLEAN}
  \cup {[conf |-> [Conf(<<>>) EXCEPT !.paused = TRUE], conn |-> c] : c \in Both(Conn)}

MCScenarios == Matching \cup Arriving \cup Moving

-----------------------------------------------------------------------------
DnsPlain(opts, invert) == [kind |-> "dns", type |-> "default", opts |-> opts, invert |-> invert]
Serve(r, server, through, fallback, nocache) ==
  [f \in DOMAIN r \cup {"server", "allow_fallthrough", "fallback_rules", "disable_cache"} |->
     CASE f = "server" -> server [] f = "allow_fallthrough" -> through
       [] f = "fallback_rules" -> fallback [] f = "disable_cache" -> nocache [] OTHER -> r[f]]

Fallback(opts, accept, server) ==
  [opts |-> opts, invert |-> FALSE, matchAll |-> opts = <<>>, accept_result |-> accept,
   server |-> server, disable_cache |-> FALSE]

MCDnsRuleOf ==
  << Serve(DnsPlain("ip_cidr" :> {"ip1"}, FALSE), "one", FALSE, <<>>, FALSE),
     Serve(DnsPlain("domain" :> {"a.com"}, FALSE), "two", TRUE,
           <<Fallback("ip_cidr" :> {"ip2"}, TRUE, None), Fallback("ip_is_private" :> TRUE, FALSE, "fake"),
             Fallback("geoip" :> {"cn"}, FALSE, None)>>, FALSE),
     Serve(DnsPlain("query_type" :> {1}, FALSE), "fake", FALSE, <<>>, FALSE),
     Serve([kind |-> "dns", type |-> "logical", mode |-> "and", invert |-> FALSE,
            rules |-> <<DnsPlain("domain" :> {"a.com"}, FALSE), DnsPlain("ip_cidr" :> {"ip2"}, TRUE)>>],
           "two", FALSE, <<>>, FALSE),
     Serve(DnsPlain("rule_set" :> SetOf("cidr", FALSE) @@ "inbound" :> {"in"}, FALSE), "two", FALSE,
           <<Fallback(<<>>, FALSE, "three")>>, TRUE),
     Serve(DnsPlain("domain" :> {"b.com"} @@ "outbound" :> {"any"}, TRUE), "refuse", FALSE, <<>>, FALSE),
     Serve(DnsPlain("domain" :> {"a.com"} @@ "ip_cidr" :> {"ip1"}, FALSE), "two", FALSE, <<>>, FALSE) >>

Reply(addrs) == [err |-> FALSE, addrs |-> addrs]
Fails == [err |-> TRUE, addrs |-> <<>>]
Server(kind, strategy, replies) == [kind |-> kind, strategy |-> strategy, replies |-> replies]

MCDnsWorld ==
  [servers |-> "one" :> Server("udp", None, {Reply(<<"ip1">>), Reply(<<"ip2">>), Fails})
            @@ "two" :> Server("udp", "ipv6_only", {Reply(<<"ip1">>), Reply(<<"ip2">>), Reply(<<"src">>), Reply(<<>>)})
            @@ "three" :> Server("udp", "ipv4_only", {Reply(<<"ip2">>)})
            @@ "fake" :> Server("fakeip", None, {Reply(<<"fake">>)})
            @@ "refuse" :> Server("rcode", None, {Reply(<<>>)}),
   final |-> "three", strategy |-> "as_is",
   exclude |-> [opts |-> "domain" :> {"b.com"}],
   alias |-> [n \in {"www.a.com"} |-> "a.com"], hosts |-> [n \in {"h.com"} |-> <<"ip2">>],
   blank |-> Conn, fakes |-> {"fake"}, responses |-> {<<"ip1">>, <<"ip2">>, <<"src">>}]

Exchange(name, qtype) ==
  [kind |-> "exchange", domain |-> name, qtype |-> qtype, strategy |-> "as_is",
   meta |-> Conn]
LookUp(name, strategy) ==
  [kind |-> "lookup", domain |-> name, qtype |-> 1, strategy |-> strategy, meta |-> Conn]

DnsLists == {<<1, 5>>, <<1, 2>>, <<3, 4>>, <<6, 3>>, <<2, 5, 3>>, <<4, 1>>}

MCDnsScenarios ==
  {[rules |-> rs, rdrc |-> rs[1] \in {1, 4}, queries |-> qs] : rs \in DnsLists,
     qs \in {{Exchange("a.com", 1), LookUp("a.com", "ipv4_only")},
             {Exchange("www.a.com", 1), Exchange("b.com", 16)},
             {LookUp("h.com", "as_is"), LookUp("a.com", "as_is")}}}

\* Either a connection is routed or queries are answered.
traffic == <<rtVars, dnVars>>

TrafficInit ==
  \/ RtInit /\ DnStart(CHOOSE c \in DnsScenarios : TRUE, 0)
  \/ DnInit /\ RtStart(CHOOSE s \in Scenarios : TRUE, "closed")

TrafficNext ==
  \/ RtNext /\ UNCHANGED dnVars
  \/ DnNext /\ UNCHANGED rtVars
  \/ RtEnded /\ DnEnded /\ UNCHANGED traffic

TrafficSpec == TrafficInit /\ [][TrafficNext]_traffic

-----------------------------------------------------------------------------

\* Every step of a connection in the router and of a DNS query brings it nearer to its end, and a member's tag
\* leads to nothing only between a provider's update and its group's.
TrafficAdvances ==
  /\ RoutingAdvances
  /\ NilOnlyInWindow
  /\ DnsAdvances
=============================================================================
