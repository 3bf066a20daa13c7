-------------------------------- MODULE Rules --------------------------------
(***************************************************************************)
(* Route rules, DNS rules and the headless rules of rule-sets: how they    *)
(* are built from their options and how they match (route/rule_*.go).      *)
(*                                                                         *)
(* A rule is a record                                                      *)
(*   [kind, type |-> "default", opts, invert]        opts: field |-> value *)
(*   [kind, type |-> "logical", mode, rules, invert]                       *)
(* with kind "route", "dns" or "headless".  Matching writes to the         *)
(* metadata, so every Match returns <<matched, the metadata afterwards>>.  *)
(***************************************************************************)
EXTENDS RuleItems

CONSTANT RuleSets  \* tag |-> the headless rules of the rule-set, in order

(***************************************************************************)
(* The constructors put the item of each option that is set into one of    *)
(* six groups.  A table lists the fields in the order the constructor      *)
(* appends them, with their group; a field it does not list is ignored.    *)
(***************************************************************************)

NewDefaultRule ==
  << <<"inbound", "items">>, <<"ip_version", "items">>, <<"network", "items">>,
     <<"auth_user", "items">>, <<"protocol", "items">>, <<"client", "items">>,
     <<"domain", "dstAddr">>, <<"domain_keyword", "dstAddr">>,
     <<"domain_regex", "dstAddr">>, <<"geosite", "dstAddr">>,
     <<"source_geoip", "srcAddr">>, <<"geoip", "dstCIDR">>,
     <<"source_ip_cidr", "srcAddr">>, <<"source_ip_is_private", "srcAddr">>,
     <<"ip_cidr", "dstCIDR">>, <<"ip_is_private", "dstCIDR">>,
     <<"source_port", "srcPort">>, <<"source_port_range", "srcPort">>,
     <<"port", "dstPort">>, <<"port_range", "dstPort">>,
     <<"process_name", "items">>, <<"process_path", "items">>,
     <<"package_name", "items">>, <<"user", "items">>, <<"user_id", "items">>,
     <<"clash_mode", "items">>, <<"wifi_ssid", "items">>,
     <<"wifi_bssid", "items">>, <<"rule_set", "items">>, <<"fake_ip", "items">> >>

NewDefaultDNSRule ==
  << <<"inbound", "items">>, <<"ip_version", "items">>,
     <<"query_type", "items">>, <<"network", "items">>,
     <<"auth_user", "items">>, <<"protocol", "items">>,
     <<"domain", "dstAddr">>, <<"domain_keyword", "dstAddr">>,
     <<"domain_regex", "dstAddr">>, <<"geosite", "dstAddr">>,
     <<"source_geoip", "srcAddr">>, <<"geoip", "dstCIDR">>,
     <<"source_ip_cidr", "srcAddr">>, <<"ip_cidr", "dstCIDR">>,
     <<"source_ip_is_private", "srcAddr">>, <<"ip_is_private", "dstCIDR">>,
     <<"source_port", "srcPort">>, <<"source_port_range", "srcPort">>,
     <<"port", "dstPort">>, <<"port_range", "dstPort">>,
     <<"process_name", "items">>, <<"process_path", "items">>,
     <<"package_name", "items">>, <<"user", "items">>, <<"user_id", "items">>,
     <<"outbound", "items">>, <<"clash_mode", "items">>,
     <<"wifi_ssid", "items">>, <<"wifi_bssid", "items">>,
     <<"rule_set", "items">> >>

\* query_type is an option of headless rules, but no item is made from it.
NewDefaultHeadlessRule ==
  << <<"network", "items">>, <<"domain", "dstAddr">>,
     <<"domain_keyword", "dstAddr">>, <<"domain_regex", "dstAddr">>,
     <<"source_ip_cidr", "srcAddr">>, <<"ip_cidr", "dstCIDR">>,
     <<"source_port", "srcPort">>, <<"source_port_range", "srcPort">>,
     <<"port", "dstPort">>, <<"port_range", "dstPort">>,
     <<"process_name", "items">>, <<"process_path", "items">>,
     <<"package_name", "items">>, <<"wifi_ssid", "items">>,
     <<"wifi_bssid", "items">>, <<"adguard_domain", "dstAddr">> >>

FieldsOf(kind) ==
  CASE kind = "route" -> NewDefaultRule
    [] kind = "dns" -> NewDefaultDNSRule
    [] kind = "headless" -> NewDefaultHeadlessRule

\* allItems, and the items of one group, as sequences of field names.
AllItems(r) ==
  SelectSeq(FieldsOf(r.kind), LAMBDA f : f[1] \in DOMAIN r.opts)

Items(r, group) == SelectSeq(AllItems(r), LAMBDA f : f[2] = group)

(***************************************************************************)
(* What NewRule, NewDNSRule and NewHeadlessRule accept.  IsValid of a      *)
(* default route or DNS rule compares a pointer with a value, so it is     *)
(* always true; the headless one compares values.  Ports, expressions and  *)
(* the rule type are taken to parse.                                       *)
(***************************************************************************)
RECURSIVE IsValid(_)
IsValid(r) ==
  IF r.type = "default"
    THEN r.kind = "headless" => DOMAIN r.opts # {}
    ELSE r.rules # <<>> /\ \A i \in DOMAIN r.rules : IsValid(r.rules[i])

-----------------------------------------------------------------------------
(* ResetRuleCache: forgets what the previous rule found out, but keeps the *)
(* GeoIP codes.                                                            *)
ResetRuleCache(m) ==
  [m EXCEPT !.IPCIDRMatchSource = FALSE, !.IPCIDRAcceptEmpty = FALSE,
            !.SrcAddrMatch = FALSE, !.SrcPortMatch = FALSE,
            !.DstAddrMatch = FALSE, !.DstPortMatch = FALSE, !.DidMatch = FALSE]

\* The items that only read the metadata.
PlainItem(field, v, m) ==
  CASE field = "inbound" -> InboundItem(v, m)
    [] field = "ip_version" -> IPVersionItem(v, m)
    [] field = "query_type" -> QueryTypeItem(v, m)
    [] field = "network" -> NetworkItem(v, m)
    [] field = "auth_user" -> AuthUserItem(v, m)
    [] field = "protocol" -> ProtocolItem(v, m)
    [] field = "client" -> ClientItem(v, m)
    [] field = "domain" -> DomainItem(v, m)
    [] field = "domain_keyword" -> DomainKeywordItem(v, m)
    [] field = "domain_regex" -> DomainRegexItem(v, m)
    [] field = "geosite" -> GeositeItem(v, m)
    [] field = "adguard_domain" -> AdGuardDomainItem(v, m)
    [] field = "source_ip_cidr" -> IPCIDRItem(TRUE, v, m)
    [] field = "ip_cidr" -> IPCIDRItem(FALSE, v, m)
    [] field = "source_ip_is_private" -> IPIsPrivateItem(TRUE, m)
    [] field = "ip_is_private" -> IPIsPrivateItem(FALSE, m)
    [] field = "source_port" -> PortItem(TRUE, v, m)
    [] field = "port" -> PortItem(FALSE, v, m)
    [] field = "source_port_range" -> PortRangeItem(TRUE, v, m)
    [] field = "port_range" -> PortRangeItem(FALSE, v, m)
    [] field = "process_name" -> ProcessItem(v, m)
    [] field = "process_path" -> ProcessPathItem(v, m)
    [] field = "package_name" -> PackageNameItem(v, m)
    [] field = "user" -> UserItem(v, m)
    [] field = "user_id" -> UserIdItem(v, m)
    [] field = "outbound" -> OutboundItem(v, m)
    [] field = "clash_mode" -> ClashModeItem(v, m)
    [] field = "wifi_ssid" -> WIFISSIDItem(v, m)
    [] field = "wifi_bssid" -> WIFIBSSIDItem(v, m)
    [] field = "fake_ip" -> FakeIPItem(m)

(* How matches are strung together: the next one sees what the one before  *)
(* left in the metadata.                                                   *)
OrElse(res, next(_)) == IF res[1] THEN res ELSE next(res[2])

AndThen(res, next(_)) == IF res[1] THEN next(res[2]) ELSE res

Inverted(res, invert) == <<res[1] # invert, res[2]>>

RECURSIVE Match(_, _)
RECURSIVE AnyItem(_, _, _)
RECURSIVE EveryItem(_, _, _)
RECURSIVE AnyRule(_, _, _)
RECURSIVE EveryRule(_, _, _)
RECURSIVE AnySet(_, _)

(* A rule-set matches when one of its headless rules does.  Nothing is     *)
(* reset between the rules.                                                *)
RuleSetMatch(rules, m) == AnyRule(rules, m, FALSE)

AnySet(tags, m) ==
  IF tags = <<>> THEN <<FALSE, m>>
  ELSE OrElse(RuleSetMatch(RuleSets[Head(tags)], m), LAMBDA n : AnySet(Tail(tags), n))

\* RuleSetItem.Match: v is [tags, matchSource, acceptEmpty].
RuleSetItem(v, m) ==
  AnySet(v.tags, [m EXCEPT !.IPCIDRMatchSource = v.matchSource,
                           !.IPCIDRAcceptEmpty = v.acceptEmpty])

FieldMatch(field, v, m) ==
  CASE field = "geoip" -> GeoIPItem(FALSE, v, m)
    [] field = "source_geoip" -> GeoIPItem(TRUE, v, m)
    [] OTHER -> <<PlainItem(field, v, m), m>>

ItemMatch(field, v, m) ==
  IF field = "rule_set" THEN RuleSetItem(v, m) ELSE FieldMatch(field, v, m)

AnyItem(r, fields, m) ==
  IF fields = <<>> THEN <<FALSE, m>>
  ELSE OrElse(ItemMatch(Head(fields)[1], r.opts[Head(fields)[1]], m),
              LAMBDA n : AnyItem(r, Tail(fields), n))

EveryItem(r, fields, m) ==
  IF fields = <<>> THEN <<TRUE, m>>
  ELSE LET field == Head(fields)[1]
           did == [m EXCEPT !.DidMatch = @ \/ field # "rule_set"]
       IN AndThen(ItemMatch(field, r.opts[field], did),
                  LAMBDA n : EveryItem(r, Tail(fields), n))

\* What a group found out goes into its flag.
Flagged(res, flag) == [res[2] EXCEPT ![flag] = res[1]]

\* Mutant of GroupMatch: the group is looked at although the flag is set.
GroupMatchAgain(r, group, flag, m) ==
  IF Items(r, group) = <<>> THEN m
  ELSE Flagged(AnyItem(r, Items(r, group), [m EXCEPT !.DidMatch = TRUE]), flag)

(* One group of alternatives: skipped when it is empty or the flag is set  *)
(* already, by this rule or by one it is merged with.                      *)
GroupMatch(r, group, flag, m) ==
  IF Items(r, group) = <<>> \/ m[flag] THEN m
  ELSE Flagged(AnyItem(r, Items(r, group), [m EXCEPT !.DidMatch = TRUE]), flag)

(* The destination CIDR group is left out while a DNS rule is matched      *)
(* before its server was asked (IgnoreDestinationIPCIDRMatch).             *)
LooksAtCIDR(r, m) == Items(r, "dstCIDR") # <<>> /\ ~m.IgnoreDestinationIPCIDRMatch

(* The groups in their order; the destination CIDR group shares the flag   *)
(* of the address group.                                                   *)
EarlyGroups(r, m) ==
  GroupMatch(r, "dstAddr", "DstAddrMatch",
    GroupMatch(r, "srcPort", "SrcPortMatch", GroupMatch(r, "srcAddr", "SrcAddrMatch", m)))

CIDRGroup(r, m) == IF LooksAtCIDR(r, m) THEN GroupMatch(r, "dstCIDR", "DstAddrMatch", m) ELSE m

Groups(r, m) == GroupMatch(r, "dstPort", "DstPortMatch", CIDRGroup(r, EarlyGroups(r, m)))

\* The end of abstractDefaultRule.Match, when the other items gave res.
Verdict(r, res) ==
  LET end == res[2]
      has(group) == Items(r, group) # <<>>
      missed == \/ ~res[1]
                \/ has("srcAddr") /\ ~end.SrcAddrMatch
                \/ has("srcPort") /\ ~end.SrcPortMatch
                \/ (LooksAtCIDR(r, end) \/ has("dstAddr")) /\ ~end.DstAddrMatch
                \/ has("dstPort") /\ ~end.DstPortMatch
  IN <<IF missed THEN r.invert ELSE end.DidMatch => ~r.invert, end>>

\* abstractDefaultRule.Match.
AbstractDefaultMatch(r, m) ==
  IF AllItems(r) = <<>> THEN <<TRUE, m>>
  ELSE Verdict(r, EveryItem(r, Items(r, "items"), Groups(r, m)))

\* abstractLogicalRule.Match: the cache is reset before every sub-rule.
AbstractLogicalMatch(r, m) ==
  Inverted(IF r.mode = "and" THEN EveryRule(r.rules, m, TRUE) ELSE AnyRule(r.rules, m, TRUE), r.invert)

AnyRule(rules, m, reset) ==
  IF rules = <<>> THEN <<FALSE, m>>
  ELSE OrElse(Match(Head(rules), IF reset THEN ResetRuleCache(m) ELSE m),
              LAMBDA n : AnyRule(Tail(rules), n, reset))

EveryRule(rules, m, reset) ==
  IF rules = <<>> THEN <<TRUE, m>>
  ELSE AndThen(Match(Head(rules), IF reset THEN ResetRuleCache(m) ELSE m),
               LAMBDA n : EveryRule(Tail(rules), n, reset))

(* DefaultHeadlessRule.Match: with DnsFallBack or FakeIPFilter only one    *)
(* group is looked at, and invert is not applied.                          *)
DefaultHeadlessMatch(r, m) ==
  IF AllItems(r) = <<>> THEN <<TRUE, m>>
  ELSE IF m.DnsFallBack THEN AnyItem(r, Items(r, "dstCIDR"), m)
  ELSE IF m.FakeIPFilter THEN AnyItem(r, Items(r, "dstAddr"), m)
  ELSE AbstractDefaultMatch(r, m)

LogicalHeadlessMatch(r, m) ==
  IF m.DnsFallBack THEN <<FALSE, m>> ELSE AbstractLogicalMatch(r, m)

(* DefaultDNSRule.Match and LogicalDNSRule.Match: the first phase, before  *)
(* a server was asked.  The flag is set only around a default rule.        *)
Regarding(res) == <<res[1], [res[2] EXCEPT !.IgnoreDestinationIPCIDRMatch = FALSE]>>

DefaultDNSMatch(r, m) ==
  Regarding(AbstractDefaultMatch(r, [m EXCEPT !.IgnoreDestinationIPCIDRMatch = TRUE]))

Match(r, m) ==
  CASE r.kind = "headless" /\ r.type = "default" -> DefaultHeadlessMatch(r, m)
    [] r.kind = "headless" /\ r.type = "logical" -> LogicalHeadlessMatch(r, m)
    [] r.kind = "dns" /\ r.type = "default" -> DefaultDNSMatch(r, m)
    [] r.kind = "route" /\ r.type = "default" -> AbstractDefaultMatch(r, m)
    [] OTHER -> AbstractLogicalMatch(r, m)

RECURSIVE MatchAddressLimit(_, _)
RECURSIVE EveryLimit(_, _)
RECURSIVE AnyLimit(_, _)

(* The second phase: the same rule with the addresses of the response.  A  *)
(* default rule goes on with the flags that its first phase left.          *)
MatchAddressLimit(r, m) ==
  IF r.type = "default" THEN AbstractDefaultMatch(r, m)
  ELSE Inverted(IF r.mode = "and" THEN EveryLimit(r.rules, m) ELSE AnyLimit(r.rules, m), r.invert)

EveryLimit(rules, m) ==
  IF rules = <<>> THEN <<TRUE, m>>
  ELSE AndThen(MatchAddressLimit(Head(rules), ResetRuleCache(m)), LAMBDA n : EveryLimit(Tail(rules), n))

AnyLimit(rules, m) ==
  IF rules = <<>> THEN <<FALSE, m>>
  ELSE OrElse(MatchAddressLimit(Head(rules), ResetRuleCache(m)), LAMBDA n : AnyLimit(Tail(rules), n))

\* hasHeadlessRule(rules, isIPCIDRHeadlessRule).
RECURSIVE ContainsIPCIDRRule(_)
ContainsIPCIDRRule(rules) ==
  \E i \in DOMAIN rules :
    IF rules[i].type = "default" THEN "ip_cidr" \in DOMAIN rules[i].opts
    ELSE ContainsIPCIDRRule(rules[i].rules)

\* RuleSetItem.ContainsDestinationIPCIDRRule.
ContainsDestinationIPCIDRRule(v) ==
  /\ ~v.matchSource
  /\ \E i \in DOMAIN v.tags : ContainsIPCIDRRule(RuleSets[v.tags[i]])

RECURSIVE WithAddressLimit(_)
WithAddressLimit(r) ==
  IF r.type = "default"
    THEN \/ Items(r, "dstCIDR") # <<>>
         \/ /\ "rule_set" \in DOMAIN r.opts
            /\ ContainsDestinationIPCIDRRule(r.opts["rule_set"])
    ELSE \E i \in DOMAIN r.rules : WithAddressLimit(r.rules[i])

(* ExcludeRule.Match and FallbackRule.Match (the item fields of an exclude *)
(* rule are domain, domain_keyword, domain_regex, geosite, rule_set; those *)
(* of a fallback rule ip_cidr, ip_is_private, geoip, rule_set, next to     *)
(* clash_mode).  fields is the constructor's order.                        *)
ExcludeFields ==
  <<"domain", "domain_keyword", "domain_regex", "geosite", "rule_set">>

FallbackFields == <<"ip_cidr", "ip_is_private", "geoip", "rule_set">>

FieldItems(r, fields) ==
  SelectSeq([i \in DOMAIN fields |-> <<fields[i], "any">>],
            LAMBDA f : f[1] \in DOMAIN r.opts)

ExcludeMatch(r, m) == AnyItem(r, FieldItems(r, ExcludeFields), m)

FallbackMatch(r, m) ==
  IF r.matchAll THEN <<TRUE, m>>
  ELSE IF "clash_mode" \in DOMAIN r.opts /\ ~ClashModeItem(r.opts["clash_mode"], m)
    THEN <<r.invert, m>>
  ELSE Inverted(AnyItem(r, FieldItems(r, FallbackFields), m), r.invert)
=============================================================================
