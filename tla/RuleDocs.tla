------------------------------ MODULE RuleDocs -------------------------------
(***************************************************************************)
(* What the documentation says a rule matches, written without any of the  *)
(* caches of the code: docs/configuration/route/rule.md, dns/rule.md and   *)
(* rule-set/headless-rule.md.                                              *)
(*                                                                         *)
(*   (domain || ... || geoip || ip_cidr) && (port || port_range) &&        *)
(*   (source_geoip || source_ip_cidr) && (source_port || ...) && others    *)
(*                                                                         *)
(* and "included rule-sets can be considered merged rather than as a       *)
(* single rule sub-item".                                                  *)
(***************************************************************************)
EXTENDS Rules

(* In a DNS rule the fields that look at the response are a group of their *)
(* own: "When the query results do not match the address filtering rule    *)
(* items, the current rule will be skipped."                               *)
DocNames ==
  {"domain", "domain_keyword", "domain_regex", "adguard_domain", "geosite"}

DocFilters == {"geoip", "ip_cidr", "ip_is_private"}

DocAlternatives(kind) ==
  { {"port", "port_range"},
    {"source_geoip", "source_ip_cidr", "source_ip_is_private"},
    {"source_port", "source_port_range"} }
  \cup (IF kind = "dns" THEN {DocNames, DocFilters} ELSE {DocNames \cup DocFilters})

\* One field on its own, looked at afresh.
DocItem(field, v, m) ==
  FieldMatch(field, v, [ResetRuleCache(m) EXCEPT
    !.GeoIPCode = None, !.SourceGeoIPCode = None,
    !.IPCIDRMatchSource = m.IPCIDRMatchSource, !.IPCIDRAcceptEmpty = m.IPCIDRAcceptEmpty])[1]

(* Merged fields: parts is a set of <<options, metadata>>, the options of   *)
(* the rule and those of the headless rule merged into it.                 *)
DocFields(kind, parts) ==
  /\ \A alt \in DocAlternatives(kind) :
       (\E p \in parts : DOMAIN p[1] \cap alt # {}) =>
         \E p \in parts : \E f \in DOMAIN p[1] \cap alt : DocItem(f, p[1][f], p[2])
  /\ \A p \in parts : \A f \in DOMAIN p[1] \ ({"rule_set"} \cup UNION DocAlternatives(kind)) :
       DocItem(f, p[1][f], p[2])

RECURSIVE DocMatch(_, _)

\* A rule together with one headless rule of a rule-set it includes.
DocMerged(r, h, m) ==
  LET v == r.opts["rule_set"]
      inner == [m EXCEPT !.IPCIDRMatchSource = v.matchSource, !.IPCIDRAcceptEmpty = v.acceptEmpty]
  IN IF h.type = "default" /\ ~h.invert
       THEN DocFields(r.kind, {<<r.opts, m>>, <<h.opts, inner>>})
       ELSE DocFields(r.kind, {<<r.opts, m>>}) /\ DocMatch(h, inner)

DocMatch(r, m) ==
  IF r.type = "logical"
    THEN (IF r.mode = "and" THEN \A i \in DOMAIN r.rules : DocMatch(r.rules[i], m)
                            ELSE \E i \in DOMAIN r.rules : DocMatch(r.rules[i], m)) # r.invert
  ELSE IF "rule_set" \in DOMAIN r.opts
    THEN (\E i \in DOMAIN r.opts["rule_set"].tags :
            LET set == RuleSets[r.opts["rule_set"].tags[i]]
            IN \E j \in DOMAIN set : DocMerged(r, set[j], m)) # r.invert
  ELSE DocFields(r.kind, {<<r.opts, m>>}) # r.invert
=============================================================================
