------------------------------ MODULE Routing --------------------------------
(***************************************************************************)
(* Router.RouteConnection and Router.RoutePacketConnection (route/router.go) *)
(* for one connection: the destination is rewritten (fakeip, reverse       *)
(* mapping, sniffed host), a name may be resolved, the rules are tried in   *)
(* order, and the outbound that is found takes the connection over.         *)
(*                                                                         *)
(* Every lookup, packet read and sniff waits, so the connection moves in    *)
(* steps, between which the Clash API disables rules or selects another     *)
(* member of a group, and the device may be paused.                         *)
(*                                                                         *)
(* MCRoute shows the shape of the constants.                               *)
(***************************************************************************)
EXTENDS RuleDocs, Integers

CONSTANTS
  World,      \* the inbounds, outbounds, groups and what the outside answers
  RuleOf,     \* the route rules by number
  Scenarios   \* [conf, conn]: the options that vary, the connection to route

VARIABLES
  rtConf,     \* rules (their numbers in order), paused, mappingOverride, contextTag,
              \* stopAlwaysResolveUDP, switched (rules the Clash API may switch),
              \* moving (the others are at work)
  rtMeta,     \* metadata of the connection (adapter.InboundContext)
  rtStep,     \* where the connection is
  rtIndex,    \* match0: the index of the rule to look at
  rtStatus,   \* match0: resolveStatus
  rtChosen,   \* what match0 returned, [rule, tag]; rule 0 is the default outbound
  rtOverride, \* destOverride: packets are translated between the two destinations
  rtDisabled, \* rules switched off by the Clash API
  rtNow,      \* the selected member of every group
  rtProvided, \* the outbounds that the providers hold
  rtChain,    \* the chain of the connection's tracker, None while there is none
  rtSeen      \* history, for the properties

rtVars == <<rtConf, rtMeta, rtStep, rtIndex, rtStatus, rtChosen, rtOverride,
            rtDisabled, rtNow, rtProvided, rtChain, rtSeen>>

\* What the routing of the connection only reads.
rtWorld == <<rtConf, rtDisabled, rtNow, rtProvided>>

RuleAt(i) == RuleOf[rtConf.rules[i]]

Destination(m) == [Fqdn |-> m.Fqdn, Addr |-> m.Addr]

IsFqdn(m) == m.Fqdn # None

\* Destination = Socksaddr{Fqdn, the same port}, the old one is kept.
Override(m, name) ==
  [m EXCEPT !.OriginDestination = Destination(m), !.Fqdn = name, !.Addr = None]

RtStart(s, step) ==
  /\ rtConf = s.conf
  /\ rtMeta = s.conn
  /\ rtStep = step
  /\ rtIndex = 1
  /\ rtStatus = -1
  /\ rtChosen = None
  /\ rtOverride = FALSE
  /\ rtDisabled = {}
  /\ rtNow = [g \in DOMAIN World.groups |-> Head(World.groups[g])]
  /\ rtProvided = DOMAIN World.provided
  /\ rtChain = None
  /\ rtSeen = [disabled |-> {}, dest |-> Destination(s.conn), addrs |-> <<>>, ok |-> FALSE]

RtInit == \E s \in Scenarios : RtStart(s, "begin")

-----------------------------------------------------------------------------
(* Groups.  The registered outbounds and the groups are in outboundByTag,  *)
(* which never changes; the outbounds of providers are looked up after it. *)

\* Router.OutboundWithProvider.
OutboundWithProvider(tag) ==
  IF tag \in DOMAIN World.outbounds THEN World.outbounds[tag]
  ELSE IF tag \in rtProvided THEN World.provided[tag]
  ELSE None

\* RealOutboundTag: through the groups to an outbound that is none.
RECURSIVE RealOutboundTag(_)
RealOutboundTag(tag) ==
  IF tag \in DOMAIN rtNow THEN RealOutboundTag(rtNow[tag]) ELSE tag

(* detour.Network(): a group answers for its selected member, an object    *)
(* that stays usable when its provider has dropped it.                     *)
NetworkOf(tag) ==
  LET real == RealOutboundTag(tag)
  IN IF real \in DOMAIN World.outbounds THEN World.outbounds[real].Network
     ELSE World.provided[real].Network

\* Router.DefaultOutbound and the fields it reads.
DefaultOutbound(network) == World.final[network]

-----------------------------------------------------------------------------
(* The beginning of both functions: a paused device refuses, a detour      *)
(* hands the connection to another inbound, which routes it again after    *)
(* unwrapping its protocol.                                                *)

Refuse(why) ==
  /\ rtStep' = why
  /\ UNCHANGED <<rtWorld, rtMeta, rtIndex, rtStatus, rtChosen, rtOverride, rtChain, rtSeen>>

RefusePaused == rtStep = "begin" /\ rtConf.paused /\ Refuse("refused")

\* Mutant of InjectDetour: the detour is kept for the inbound that takes over.
InjectDetourAgain ==
  /\ rtStep = "begin" /\ ~rtConf.paused /\ rtMeta.InboundDetour # None
  /\ rtMeta' = [rtMeta EXCEPT !.LastInbound = rtMeta.Inbound, !.Inbound = rtMeta.InboundDetour]
  /\ UNCHANGED <<rtWorld, rtStep, rtIndex, rtStatus, rtChosen, rtOverride, rtChain, rtSeen>>

InjectDetour ==
  /\ rtStep = "begin" /\ ~rtConf.paused /\ rtMeta.InboundDetour # None
  /\ LET tag == rtMeta.InboundDetour
         ok == /\ rtMeta.LastInbound # tag
               /\ tag \in DOMAIN World.inbounds
               /\ World.inbounds[tag].injectable
               /\ rtMeta.Network \in World.inbounds[tag].Network
     IN IF ~ok THEN Refuse("refused")
        ELSE /\ rtMeta' = [rtMeta EXCEPT !.LastInbound = rtMeta.Inbound,
                                         !.Inbound = tag, !.InboundDetour = None]
             /\ UNCHANGED <<rtWorld, rtStep, rtIndex, rtStatus, rtChosen, rtOverride, rtChain, rtSeen>>

(* The address of a fakeip is replaced by its name, or the connection is   *)
(* refused when the store has lost it.  A reverse mapping gives a domain   *)
(* and, with the override option, the destination as well.  The magic      *)
(* names of the removed global multiplex are refused for streams.          *)
FindDestination ==
  /\ rtStep = "begin" /\ ~rtConf.paused /\ rtMeta.InboundDetour = None
  /\ LET fake == rtMeta.Addr \in DOMAIN World.fakeip
         missing == \/ fake /\ World.fakeip[rtMeta.Addr] = None
                    \/ rtMeta.Network = "tcp" /\ rtMeta.Fqdn \in World.magic
         m1 == IF fake THEN [Override(rtMeta, World.fakeip[rtMeta.Addr])
                               EXCEPT !.DNSMode = "fakeip"]
               ELSE rtMeta
         mapped == m1.Addr \in DOMAIN World.reverse
         m2 == [m1 EXCEPT !.Domain = World.reverse[m1.Addr], !.DNSMode = "redir-host"]
         over == mapped /\ rtConf.mappingOverride
     IN \/ missing /\ Refuse("refused")
        \/ /\ ~missing
           /\ rtMeta' = IF over THEN Override(m2, m2.Domain)
                        ELSE IF mapped THEN m2 ELSE m1
           /\ rtStep' = IF rtMeta.SniffEnabled \/ (rtMeta.Network = "udp" /\ rtMeta.Addr = "unspecified")
                        THEN "sniff" ELSE "resolve"
           /\ rtOverride' = (fake \/ over)
           /\ UNCHANGED <<rtWorld, rtIndex, rtStatus, rtChosen, rtChain, rtSeen>>

\* matchSniffOverride: TRUE without rules for the inbound.
RECURSIVE SniffRules(_, _)
SniffRules(rules, m) ==
  IF rules = <<>> THEN <<FALSE, m>>
  ELSE OrElse(Match(Head(rules), ResetRuleCache(m)), LAMBDA n : SniffRules(Tail(rules), n))

Forgetting(res) == <<res[1], ResetRuleCache(res[2])>>

MatchSniffOverride(m) ==
  IF m.Inbound \notin DOMAIN World.sniffOverride THEN <<TRUE, m>>
  ELSE Forgetting(SniffRules(World.sniffOverride[m.Inbound], m))

(* The peek gives a protocol and perhaps a host; for packets it waits for  *)
(* the first one (and a second one, when a QUIC hello is in fragments),    *)
(* whose destination replaces an unspecified one.  A read that fails ends  *)
(* the packets; a stream that cannot be read is routed all the same.       *)
Sniff(found) ==
  /\ rtStep = "sniff"
  /\ IF found.closed /\ rtMeta.Network = "udp" THEN Refuse("refused")
     ELSE LET m0 == IF rtMeta.Addr # "unspecified" THEN rtMeta
                    ELSE [rtMeta EXCEPT !.Addr = World.packetTo.Addr, !.Fqdn = World.packetTo.Fqdn]
              known == ~found.closed /\ found.protocol # None /\ rtMeta.SniffEnabled
              m1 == IF known THEN [m0 EXCEPT !.Protocol = found.protocol, !.SniffHost = found.host]
                    ELSE m0
              asked == known /\ ~IsFqdn(m1) /\ m1.SniffOverride /\ m1.SniffHost # None
          IN /\ \E res \in {IF asked THEN MatchSniffOverride(m1) ELSE <<FALSE, m1>>} :
                  /\ rtMeta' = IF res[1] THEN Override(res[2], m1.SniffHost) ELSE res[2]
                  /\ rtOverride' = (rtOverride \/ res[1])
             /\ rtSeen' = [rtSeen EXCEPT !.dest = IF rtMeta.Addr = "unspecified" THEN Destination(m0) ELSE @]
             /\ rtStep' = "resolve"
             /\ UNCHANGED <<rtWorld, rtIndex, rtStatus, rtChosen, rtChain>>

\* Mutant of Resolve: the addresses of the alias are used with the first name.
ResolveKeepsName(ok) ==
  /\ rtStep = "resolve"
  /\ LET name == IF rtMeta.Fqdn \in DOMAIN World.alias THEN World.alias[rtMeta.Fqdn] ELSE rtMeta.Fqdn
     IN rtMeta' = IF ok /\ name \in DOMAIN World.answer
                  THEN [rtMeta EXCEPT !.DestinationAddresses = World.answer[name]] ELSE rtMeta
  /\ rtStep' = "search"
  /\ UNCHANGED <<rtWorld, rtIndex, rtStatus, rtChosen, rtOverride, rtChain, rtSeen>>

(* Hosts entries: an alias replaces the name, addresses are used at once.  *)
(* Else the strategy of the inbound asks for a lookup, whose failure ends  *)
(* the connection.  ok is whether that lookup succeeds.                    *)
Resolve(ok) ==
  /\ rtStep = "resolve"
  /\ LET name == IF rtMeta.Fqdn \in DOMAIN World.alias THEN World.alias[rtMeta.Fqdn] ELSE rtMeta.Fqdn
         m1 == [rtMeta EXCEPT !.Fqdn = name]
         hosts == name \in DOMAIN World.hosts
         lookup == IsFqdn(rtMeta) /\ ~hosts /\ rtMeta.DomainStrategy # "as_is"
     IN IF lookup /\ ~ok THEN Refuse("refused")
        ELSE /\ rtMeta' = IF IsFqdn(rtMeta) /\ (hosts \/ lookup)
                          THEN [m1 EXCEPT !.DestinationAddresses =
                                  IF hosts THEN World.hosts[name] ELSE World.answer[name]]
                          ELSE IF IsFqdn(rtMeta) THEN m1
                          ELSE [rtMeta EXCEPT !.IPVersion = IF rtMeta.Addr \in IPv6 THEN 6 ELSE 4]
             /\ rtStep' = "search"
             /\ UNCHANGED <<rtWorld, rtIndex, rtStatus, rtChosen, rtOverride, rtChain, rtSeen>>

-----------------------------------------------------------------------------
(* match0.  The process is searched first (info, None when not found).     *)
SearchProcess(info) ==
  /\ rtStep = "search"
  /\ rtMeta' = [rtMeta EXCEPT !.ProcessInfo = info]
  /\ rtStatus' = IF IsFqdn(rtMeta) /\ rtMeta.DestinationAddresses = <<>> THEN 0 ELSE -1
  /\ rtSeen' = [rtSeen EXCEPT !.addrs = rtMeta.DestinationAddresses]
  /\ rtStep' = "match"
  /\ UNCHANGED <<rtWorld, rtIndex, rtChosen, rtOverride, rtChain>>

\* Rule.ContainsDestinationIPCIDRRule, for default and logical route rules.
ContainsIPRule(r) == WithAddressLimit(r)

NeedsLookup(r) == ~r.skip_resolve /\ rtStatus = 0 /\ ContainsIPRule(r)

SkipDisabled ==
  /\ rtStep = "match" /\ rtIndex \in DOMAIN rtConf.rules /\ rtIndex \in rtDisabled
  /\ rtIndex' = rtIndex + 1
  /\ rtSeen' = [rtSeen EXCEPT !.disabled = @ \cup {rtIndex}]
  /\ UNCHANGED <<rtWorld, rtMeta, rtStep, rtStatus, rtChosen, rtOverride, rtChain>>

\* The first rule that looks at addresses has the name resolved, once.
LookupForRule(ok) ==
  /\ rtStep = "match" /\ rtIndex \in DOMAIN rtConf.rules /\ rtIndex \notin rtDisabled
  /\ NeedsLookup(RuleAt(rtIndex))
  /\ rtStep' = "rule"
  /\ rtStatus' = IF ok THEN 1 ELSE 2
  /\ rtMeta' = IF ok THEN [rtMeta EXCEPT !.IsResolved = TRUE,
                                         !.DestinationAddresses = World.answer[rtMeta.Fqdn]]
               ELSE rtMeta
  /\ rtSeen' = [rtSeen EXCEPT !.ok = ok]
  /\ UNCHANGED <<rtWorld, rtIndex, rtChosen, rtOverride, rtChain>>

(* mustUseIP: whether the addresses found for the rules stay with the      *)
(* connection; None when the tag resolves to nothing and nil is used.      *)
MustUseIP(tag, network) ==
  LET detour == OutboundWithProvider(RealOutboundTag(tag))
  IN IF detour # None /\ detour.UseIP # None THEN detour.UseIP
     ELSE IF network = "tcp" \/ rtConf.stopAlwaysResolveUDP THEN FALSE
     ELSE IF detour = None THEN None
     ELSE detour.Type \notin {"block", "dns"}

(* The end of match0 and match: the deferred clearing of the addresses, the *)
(* loopback check, and the caller's check of the network.                  *)
Matched(i, tag, m) ==
  LET clear == rtStatus = 1 /\ MustUseIP(tag, m.Network) = FALSE
      nil == rtStatus = 1 /\ MustUseIP(tag, m.Network) = None
      bad == rtConf.contextTag = tag \/ m.Network \notin NetworkOf(tag)
  IN /\ rtMeta' = IF clear THEN [m EXCEPT !.DestinationAddresses = <<>>] ELSE m
     /\ rtChosen' = [rule |-> i, tag |-> tag]
     /\ rtStep' = IF nil THEN "panic" ELSE IF bad THEN "refused" ELSE "deliver"
     /\ UNCHANGED <<rtWorld, rtIndex, rtStatus, rtOverride, rtChain, rtSeen>>

TryRule ==
  /\ rtStep \in {"match", "rule"} /\ rtIndex \in DOMAIN rtConf.rules
  /\ rtStep = "match" => rtIndex \notin rtDisabled /\ ~NeedsLookup(RuleAt(rtIndex))
  /\ \E r \in {RuleAt(rtIndex)} : \E res \in {Match(r, ResetRuleCache(rtMeta))} :
        \/ /\ res[1] /\ r.outbound \in DOMAIN World.outbounds \cup DOMAIN rtNow
           /\ Matched(rtIndex, r.outbound, res[2])
        \/ /\ ~(res[1] /\ r.outbound \in DOMAIN World.outbounds \cup DOMAIN rtNow)
           /\ rtIndex' = rtIndex + 1
           /\ rtMeta' = res[2]
           /\ rtStep' = "match"
           /\ UNCHANGED <<rtWorld, rtStatus, rtChosen, rtOverride, rtChain, rtSeen>>

NoRule ==
  /\ rtStep = "match" /\ rtIndex > Len(rtConf.rules)
  /\ Matched(0, DefaultOutbound(rtMeta.Network), rtMeta)

-----------------------------------------------------------------------------
(* The chain a tracker shows: from the outbound of the rule through the    *)
(* selected members, up to an outbound that is no group or is not found.   *)
RECURSIVE ChainFrom(_)
ChainFrom(tag) ==
  IF tag \in DOMAIN rtNow THEN Append(ChainFrom(rtNow[tag]), tag) ELSE <<tag>>

\* mustResolve, for packets; None as in MustUseIP.
MustResolve(tag, m) ==
  LET detour == OutboundWithProvider(RealOutboundTag(tag))
  IN IF \/ m.IsResolved \/ rtConf.stopAlwaysResolveUDP
        \/ ~IsFqdn(m) \/ m.DestinationAddresses # <<>>
       THEN FALSE
     ELSE IF detour = None THEN None
     ELSE detour.Type \notin {"block", "dns"}

\* The tracker joins, and the outbound gets a stream at once.
DeliverConnection ==
  /\ rtStep = "deliver" /\ rtMeta.Network = "tcp"
  /\ rtChain' = ChainFrom(rtChosen.tag)
  /\ rtStep' = "open"
  /\ UNCHANGED <<rtWorld, rtMeta, rtIndex, rtStatus, rtChosen, rtOverride, rtSeen>>

\* Packets: a name is resolved first unless that was done or is switched off.
DeliverPackets(ok) ==
  /\ rtStep = "deliver" /\ rtMeta.Network = "udp"
  /\ LET must == MustResolve(rtChosen.tag, rtMeta)
         fails == must = None \/ (must = TRUE /\ ~ok)
     IN /\ rtStep' = IF must = None THEN "panic" ELSE IF fails THEN "refused" ELSE "open"
        /\ rtChain' = IF fails THEN None ELSE ChainFrom(rtChosen.tag)
        /\ rtMeta' = IF must = TRUE /\ ok
                     THEN [rtMeta EXCEPT !.DestinationAddresses = World.answer[rtMeta.Fqdn]]
                     ELSE rtMeta
        /\ UNCHANGED <<rtWorld, rtIndex, rtStatus, rtChosen, rtOverride, rtSeen>>

\* The outbound returns; the deferred Leave takes the tracker out.
Finish ==
  /\ rtStep = "open"
  /\ rtStep' = "closed"
  /\ rtChain' = None
  /\ UNCHANGED <<rtWorld, rtMeta, rtIndex, rtStatus, rtChosen, rtOverride, rtSeen>>

-----------------------------------------------------------------------------
(* The others: the Clash API switches a rule (Rule.ChangeStatus) or selects *)
(* a member; a provider drops an outbound and tells the group afterwards.   *)
rtConn == <<rtConf, rtMeta, rtStep, rtIndex, rtStatus, rtChosen, rtOverride, rtChain, rtSeen>>

RtEnded == rtStep \in {"refused", "closed", "panic"}

Busy == rtConf.moving /\ ~RtEnded

ChangeStatus(i) ==
  /\ Busy /\ i \in rtConf.switched
  /\ rtDisabled' = (rtDisabled \ {i}) \cup ({i} \ rtDisabled)
  /\ UNCHANGED <<rtConn, rtNow, rtProvided>>

SelectOutbound(g, tag) ==
  /\ Busy /\ tag \in DOMAIN World.outbounds \cup rtProvided /\ tag # rtNow[g]
  /\ \E i \in DOMAIN World.groups[g] : World.groups[g][i] = tag
  /\ rtNow' = [rtNow EXCEPT ![g] = tag]
  /\ UNCHANGED <<rtConn, rtDisabled, rtProvided>>

ProviderDrops(tag) ==
  /\ Busy /\ tag \in rtProvided
  /\ rtProvided' = rtProvided \ {tag}
  /\ UNCHANGED <<rtConn, rtDisabled, rtNow>>

\* UpdateOutbounds of the group: the first member it still has is selected.
GroupFollows(g) ==
  /\ Busy /\ rtNow[g] \notin DOMAIN World.outbounds \cup DOMAIN rtNow \cup rtProvided
  /\ LET left == SelectSeq(World.groups[g],
                           LAMBDA t : t \in DOMAIN World.outbounds \cup rtProvided)
     IN left # <<>> /\ rtNow' = [rtNow EXCEPT ![g] = Head(left)]
  /\ UNCHANGED <<rtConn, rtDisabled, rtProvided>>

-----------------------------------------------------------------------------
Sniffs ==
  {[closed |-> c, protocol |-> None, host |-> None] : c \in BOOLEAN}
    \cup {[closed |-> FALSE, protocol |-> "tls", host |-> n] : n \in World.sniffable}

RouteConnection ==
  /\ rtMeta.Network = "tcp"
  /\ \/ RefusePaused \/ InjectDetour \/ FindDestination
     \/ \E found \in Sniffs : Sniff(found)
     \/ \E ok \in BOOLEAN : Resolve(ok) \/ LookupForRule(ok)
     \/ \E info \in World.processes : SearchProcess(info)
     \/ SkipDisabled \/ TryRule \/ NoRule
     \/ DeliverConnection \/ Finish

RoutePacketConnection ==
  /\ rtMeta.Network = "udp"
  /\ \/ RefusePaused \/ InjectDetour \/ FindDestination
     \/ \E found \in Sniffs : Sniff(found)
     \/ \E ok \in BOOLEAN : Resolve(ok) \/ LookupForRule(ok) \/ DeliverPackets(ok)
     \/ \E info \in World.processes : SearchProcess(info)
     \/ SkipDisabled \/ TryRule \/ NoRule
     \/ Finish

RtOthers ==
  \/ \E i \in rtConf.switched : ChangeStatus(i)
  \/ \E g \in DOMAIN rtNow, t \in DOMAIN World.outbounds \cup DOMAIN World.provided : SelectOutbound(g, t)
  \/ \E t \in DOMAIN World.provided : ProviderDrops(t)
  \/ \E g \in DOMAIN rtNow : GroupFollows(g)

RtNext == RouteConnection \/ RoutePacketConnection \/ RtOthers

-----------------------------------------------------------------------------
\* Every step leaves the routing state in its type.
RtTypeOK ==
  /\ rtConf \in {s.conf : s \in Scenarios}
  /\ rtStep \in {"begin", "sniff", "resolve", "search", "match", "rule", "deliver",
                 "open", "closed", "refused", "panic"}
  /\ rtIndex \in 1..(Len(rtConf.rules) + 1)
  /\ rtStatus \in -1..2
  /\ rtDisabled \subseteq DOMAIN rtConf.rules
  /\ rtProvided \subseteq DOMAIN World.provided

\* match0's metadata for rule j by its specification: resolved from the first
\* enabled rule on that looks at addresses and does not skip it.
RefMeta(j) ==
  LET asks(k) == /\ k \in DOMAIN rtConf.rules \ rtSeen.disabled
                 /\ ~RuleAt(k).skip_resolve
                 /\ ContainsIPRule(RuleAt(k))
      m == [ResetRuleCache(rtMeta) EXCEPT !.DestinationAddresses = rtSeen.addrs]
  IN IF /\ IsFqdn(m) /\ m.DestinationAddresses = <<>> /\ rtSeen.ok
        /\ \E k \in 1..j : asks(k)
       THEN [m EXCEPT !.DestinationAddresses = World.answer[m.Fqdn]] ELSE m

(* match0 takes the first enabled rule that, by the documentation, matches *)
(* the connection, with the name resolved for the rules after the first    *)
(* one that needs it; the flags and codes the matching of earlier rules    *)
(* leaves in the metadata never decide, nor does a rule switched meanwhile. *)
FirstMatch ==
  rtChosen # None =>
    LET last == IF rtChosen.rule = 0 THEN Len(rtConf.rules) ELSE rtChosen.rule - 1
        usable(j) == RuleAt(j).outbound \in DOMAIN World.outbounds \cup DOMAIN rtNow
    IN /\ \A j \in 1..last : j \notin rtSeen.disabled /\ usable(j) =>
            ~DocMatch(RuleAt(j), RefMeta(j))
       /\ rtChosen.rule # 0 =>
            /\ rtChosen.rule \notin rtSeen.disabled
            /\ DocMatch(RuleAt(rtChosen.rule), RefMeta(rtChosen.rule))

(* The addresses an outbound is given to dial belong to the very name of   *)
(* the destination it is given (default.go dials metadata.Destination with *)
(* metadata.DestinationAddresses), after every override and hosts alias.   *)
AddressesOfName ==
  rtStep = "open" /\ IsFqdn(rtMeta) /\ rtMeta.DestinationAddresses # <<>> =>
    rtMeta.DestinationAddresses =
      IF rtMeta.Fqdn \in DOMAIN World.hosts THEN World.hosts[rtMeta.Fqdn]
      ELSE World.answer[rtMeta.Fqdn]

(* When a packet connection to an address is sent to a name instead, the   *)
(* NAT wrapper is installed with the destination the client used, so that  *)
(* replies come back from it.                                              *)
RepliesFromOrigin ==
  rtStep = "open" /\ rtMeta.Network = "udp" /\ rtSeen.dest.Fqdn = None =>
    rtOverride = (Destination(rtMeta) # rtSeen.dest)
      /\ (rtOverride => rtMeta.OriginDestination = rtSeen.dest)

(* mustUseIP and mustResolve look the selected member up by its tag: they  *)
(* find nothing, and use a nil outbound, only in the window in which a     *)
(* provider has dropped the outbound and its group does not know yet.      *)
NilOnlyInWindow ==
  [][rtStep' = "panic" /\ rtStep # "panic" =>
       \E g \in DOMAIN rtNow : rtNow[g] \notin DOMAIN World.outbounds \cup DOMAIN rtNow \cup rtProvided]_rtVars

RtOrder == <<"begin", "sniff", "resolve", "search", "match", "deliver", "open", "end">>

RtRank ==
  LET step == IF RtEnded THEN "end" ELSE IF rtStep = "rule" THEN "match" ELSE rtStep
  IN << CHOOSE i \in DOMAIN RtOrder : RtOrder[i] = step,
        IF rtMeta.InboundDetour = None THEN 1 ELSE 0, rtIndex,
        IF rtStep = "rule" THEN 1 ELSE 0 >>

(* No chain of detours, overrides, lookups and rules keeps a connection in *)
(* the router: every step of it comes closer to an end (and there is       *)
(* always a step: no state before an end is a deadlock).                   *)
RoutingAdvances ==
  [][rtConn' # rtConn =>
       \E i \in DOMAIN RtRank : /\ RtRank[i] < RtRank'[i]
                                /\ \A j \in 1..(i - 1) : RtRank[j] = RtRank'[j]]_rtVars


-----------------------------------------------------------------------------
(* The properties above, by subject. *)

\* What the router hands to an outbound: a destination whose addresses are those of the name asked for, and a
\* packet connection whose replies come from the address the client wrote to.
HandOverSound ==
  /\ RtTypeOK
  /\ AddressesOfName
  /\ RepliesFromOrigin
=============================================================================
