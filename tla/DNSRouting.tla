----------------------------- MODULE DNSRouting ------------------------------
(***************************************************************************)
(* The DNS router (route/router_dns.go): which servers a query or a lookup *)
(* is sent to, when an answer sends it on to the next rule, and what stays *)
(* in the answer cache, in the cache of rejected answers and in the        *)
(* reverse mapping.                                                        *)
(*                                                                         *)
(* Queries run concurrently in slots; they meet in the three caches.  A    *)
(* query waits for its server in step "ask".  The DNS client (sing-dns) is *)
(* external: it keeps the hosts, the answers and asks the servers.         *)
(***************************************************************************)
EXTENDS RuleDocs, Integers

CONSTANTS
  DnsWorld,     \* servers, final, strategy, exclude, alias, hosts, blank, fakes
  DnsRuleOf,    \* the DNS rules by number
  DnsScenarios, \* [rules, rdrc, queries]
  Slots,        \* queries that run at a time
  MaxQueries    \* bound on the queries of a behaviour

VARIABLES
  dnConf,    \* the scenario
  dnQ,       \* slot |-> the query that runs there
  dnCache,   \* question |-> [addrs, rule] of the client's answer cache
  dnRDRC,    \* <<server, question>> whose answers were rejected
  dnReverse, \* <<address, name>> of DNSReverseMapping
  dnUpdates, \* stale questions whose background update has not begun
  dnLeft     \* queries still to come

dnVars == <<dnConf, dnQ, dnCache, dnRDRC, dnReverse, dnUpdates, dnLeft>>

DnsRule(i) == DnsRuleOf[dnConf.rules[i]]

Idle == [step |-> "idle"]

DnStart(conf, queries) ==
  /\ dnConf = conf
  /\ dnQ = [k \in Slots |-> Idle]
  /\ dnCache = <<>>
  /\ dnRDRC = {}
  /\ dnReverse = {}
  /\ dnUpdates = {}
  /\ dnLeft = queries

DnInit == \E conf \in DnsScenarios : DnStart(conf, MaxQueries)

Name(query) ==
  IF query.domain \in DOMAIN DnsWorld.alias THEN DnsWorld.alias[query.domain]
  ELSE query.domain

Question(query) == <<query.kind, Name(query), query.qtype>>

IsAddressQuery(query) == query.qtype \in {1, 28, 65}

-----------------------------------------------------------------------------
(* The tag of a rule or fallback rule is of use when there is such a       *)
(* server; a fakeip server, when fakeip is allowed (never for a lookup)    *)
(* and the exclude rule of its store does not hold the name back.          *)
Usable(tag, query) ==
  /\ tag \in DOMAIN DnsWorld.servers
  /\ DnsWorld.servers[tag].kind = "fakeip" =>
       /\ query.kind = "exchange"
       /\ ~ExcludeMatch(DnsWorld.exclude, [DnsWorld.blank EXCEPT
              !.Domain = Name(query), !.FakeIPFilter = TRUE])[1]

IsFakeIP(tag) == DnsWorld.servers[tag].kind = "fakeip"

StrategyOf(tag) ==
  IF DnsWorld.servers[tag].strategy # None THEN DnsWorld.servers[tag].strategy
  ELSE DnsWorld.strategy

\* Rule i matched as res says: its server is asked, or the next rule is looked at.
AskOr(i, query, res, next(_)) ==
  IF res[1] /\ Usable(DnsRule(i).server, query)
    THEN [rule |-> i, server |-> DnsRule(i).server, meta |-> res[2],
          nocache |-> IsFakeIP(DnsRule(i).server) \/ DnsRule(i).disable_cache]
  ELSE next(res[2])

RECURSIVE MatchDNS(_, _, _)

\* Mutant of MatchDNS: address filters apply to every query.
MatchDNSAnyType(i, query, m) ==
  IF i > Len(dnConf.rules)
    THEN [rule |-> 0, server |-> DnsWorld.final, meta |-> m, nocache |-> FALSE]
  ELSE AskOr(i, query, Match(DnsRule(i), ResetRuleCache(m)), LAMBDA n : MatchDNS(i + 1, query, n))

\* matchDNS from rule i on; rule 0 is the default server.
MatchDNS(i, query, m) ==
  IF i > Len(dnConf.rules)
    THEN [rule |-> 0, server |-> DnsWorld.final, meta |-> m, nocache |-> FALSE]
  ELSE IF WithAddressLimit(DnsRule(i)) /\ ~IsAddressQuery(query)
    THEN MatchDNS(i + 1, query, m)
  ELSE AskOr(i, query, Match(DnsRule(i), ResetRuleCache(m)), LAMBDA n : MatchDNS(i + 1, query, n))

\* matchFallbackRules: the rule to follow, None when the answer stands.
FollowOr(r, query, res, next(_)) ==
  IF res[1] /\ r.accept_result THEN None
  ELSE IF res[1] /\ (r.server = None \/ Usable(r.server, query)) THEN r
  ELSE next(res[2])

RECURSIVE MatchFallbackRules(_, _, _)
MatchFallbackRules(rules, query, m) ==
  IF rules = <<>> THEN None
  ELSE FollowOr(Head(rules), query, FallbackMatch(Head(rules), ResetRuleCache(m)),
                LAMBDA n : MatchFallbackRules(Tail(rules), query, n))

-----------------------------------------------------------------------------
\* exchangeFunc and lookupFunc up to their loops.
NewQuery(query, update) ==
  [step |-> "match", query |-> query, update |-> update, index |-> 0,
   meta |-> [query.meta EXCEPT
      !.Fqdn = None, !.Addr = None, !.Domain = Name(query),
      !.QueryType = IF query.kind = "exchange" THEN query.qtype ELSE @,
      !.IPVersion = IF query.kind = "exchange" /\ query.qtype = 1 THEN 4
                    ELSE IF query.kind = "exchange" /\ query.qtype = 28 THEN 6 ELSE @],
   rule |-> 0, server |-> None, strategy |-> query.strategy, nocache |-> FALSE,
   fake |-> FALSE, err |-> FALSE, addrs |-> <<>>, asked |-> <<>>]

\* An answer that is there at once.
Answered(query, addrs, rule) ==
  [NewQuery(query, FALSE) EXCEPT !.step = "end", !.addrs = addrs, !.rule = rule]

(* Exchange and Lookup: hosts first, then the answer cache; a stale answer *)
(* is used and updated in the background.                                  *)
DnsBegin(k, query) ==
  /\ dnQ[k] = Idle /\ dnLeft > 0
  /\ dnLeft' = dnLeft - 1
  /\ LET hosts == IsAddressQuery(query) /\ Name(query) \in DOMAIN DnsWorld.hosts
         cached == ~hosts /\ Question(query) \in DOMAIN dnCache
     IN \/ /\ hosts
           /\ dnQ' = [dnQ EXCEPT ![k] = Answered(query, DnsWorld.hosts[Name(query)], 0)]
           /\ UNCHANGED dnUpdates
        \/ /\ cached
           /\ dnQ' = [dnQ EXCEPT ![k] = Answered(query, dnCache[Question(query)].addrs,
                                                 dnCache[Question(query)].rule)]
           /\ \E needUpdate \in BOOLEAN :
                dnUpdates' = IF needUpdate THEN dnUpdates \cup {query} ELSE dnUpdates
        \/ /\ ~hosts /\ ~cached
           /\ dnQ' = [dnQ EXCEPT ![k] = NewQuery(query, FALSE)]
           /\ UNCHANGED dnUpdates
  /\ UNCHANGED <<dnConf, dnCache, dnRDRC, dnReverse>>

DnsUpdate(k, query) ==
  /\ dnQ[k] = Idle /\ query \in dnUpdates
  /\ dnUpdates' = dnUpdates \ {query}
  /\ dnQ' = [dnQ EXCEPT ![k] = NewQuery(query, TRUE)]
  /\ UNCHANGED <<dnConf, dnCache, dnRDRC, dnReverse, dnLeft>>

(* The head of the loop.  An exchange takes the strategy of its server; a  *)
(* lookup keeps its own one, and the first it adopts.                      *)
DnsChoose(k) ==
  /\ dnQ[k].step = "match"
  /\ \E res \in {MatchDNS(dnQ[k].index + 1, dnQ[k].query, dnQ[k].meta)} :
       dnQ' = [dnQ EXCEPT ![k].step = "ask", ![k].meta = res.meta,
                 ![k].rule = res.rule, ![k].server = res.server,
                 ![k].nocache = res.nocache, ![k].fake = res.rule # 0 /\ IsFakeIP(res.server),
                 ![k].index = IF res.rule = 0 THEN @ ELSE res.rule,
                 ![k].strategy = IF @ # "as_is" /\ dnQ[k].query.kind = "lookup" THEN @
                                 ELSE StrategyOf(res.server)]
  /\ UNCHANGED <<dnConf, dnCache, dnRDRC, dnReverse, dnUpdates, dnLeft>>

\* What a lookup leaves of an answer.
Wanted(strategy, addrs) ==
  SelectSeq(addrs, LAMBDA a : /\ strategy = "ipv4_only" => a \notin IPv6
                              /\ strategy = "ipv6_only" => a \in IPv6)

Asked(q, fallback) ==
  Append(q.asked, [rule |-> q.rule, server |-> q.server, strategy |-> q.strategy,
                   fallback |-> fallback])

(* What follows the answer to a rule's server: the next rule, the fallback *)
(* rules, or the end.                                                      *)
AfterAnswer(q, rejected, err, addrs) ==
  LET limited == q.rule # 0 /\ WithAddressLimit(DnsRule(q.rule))
  IN IF \/ q.rule = 0 \/ ~IsAddressQuery(q.query) \/ q.fake
        \/ DnsWorld.servers[q.server].kind = "rcode"
       THEN "end"
     ELSE IF limited /\ rejected THEN "match"
     ELSE IF err THEN "end"
     ELSE IF addrs = <<>>
       THEN IF DnsRule(q.rule).allow_fallthrough THEN "match" ELSE "end"
     ELSE IF DnsRule(q.rule).fallback_rules = <<>> THEN "end"
     ELSE "fallback"

\* Mutant of DnsAnswer: the answer is cached before the filter looks at it.
DnsAnswerCaches(k, reply) ==
  /\ dnQ[k].step = "ask"
  /\ reply \in DnsWorld.servers[dnQ[k].server].replies
  /\ LET q == dnQ[k]
         ok == ~reply.err /\ (q.rule # 0 /\ WithAddressLimit(DnsRule(q.rule)) =>
                 MatchAddressLimit(DnsRule(q.rule), [q.meta EXCEPT !.DestinationAddresses = reply.addrs])[1])
     IN /\ dnQ' = [dnQ EXCEPT ![k].step = AfterAnswer(q, ~ok /\ ~reply.err, ~ok, reply.addrs),
                      ![k].asked = Asked(q, FALSE), ![k].err = ~ok,
                      ![k].addrs = IF ok THEN reply.addrs ELSE <<>>]
        /\ dnCache' = IF reply.err \/ q.nocache THEN dnCache
                      ELSE [x \in DOMAIN dnCache \cup {Question(q.query)} |->
                              IF x = Question(q.query) THEN [addrs |-> reply.addrs, rule |-> q.rule]
                              ELSE dnCache[x]]
  /\ UNCHANGED <<dnConf, dnRDRC, dnReverse, dnUpdates, dnLeft>>

(* The call of the client with the answer of the server: an answer that    *)
(* the address filter rejects is remembered, any other one is cached.      *)
DnsAnswer(k, reply) ==
  /\ dnQ[k].step = "ask"
  /\ reply \in DnsWorld.servers[dnQ[k].server].replies
  /\ LET q == dnQ[k]
         limited == q.rule # 0 /\ WithAddressLimit(DnsRule(q.rule))
         key == <<q.server, Question(q.query)>>
         known == limited /\ key \in dnRDRC
         addrs == IF q.query.kind = "lookup" THEN Wanted(q.strategy, reply.addrs) ELSE reply.addrs
         meta == [q.meta EXCEPT !.DestinationAddresses = addrs]
         checked == limited /\ ~known /\ ~reply.err
     IN \E res \in {IF checked THEN MatchAddressLimit(DnsRule(q.rule), meta) ELSE <<TRUE, q.meta>>} :
          LET rejected == known \/ ~res[1]
              failed == rejected \/ reply.err
              step == AfterAnswer(q, rejected, failed, addrs)
              empty == q.query.kind = "lookup" /\ addrs = <<>>
          IN /\ dnQ' = [dnQ EXCEPT ![k].step = step, ![k].meta = res[2],
                          ![k].asked = Asked(q, FALSE), ![k].err = failed \/ empty,
                          ![k].addrs = IF failed THEN <<>> ELSE addrs]
             /\ dnRDRC' = IF dnConf.rdrc /\ checked /\ rejected THEN dnRDRC \cup {key} ELSE dnRDRC
             /\ dnCache' = IF failed \/ q.nocache THEN dnCache
                           ELSE [x \in DOMAIN dnCache \cup {Question(q.query)} |->
                                   IF x = Question(q.query) THEN [addrs |-> addrs, rule |-> q.rule]
                                   ELSE dnCache[x]]
  /\ UNCHANGED <<dnConf, dnReverse, dnUpdates, dnLeft>>

(* The fallback rules look at the addresses only.  One without a server    *)
(* goes on with the next DNS rule, and its "as is" becomes the strategy of *)
(* the lookup.                                                             *)
DnsFallback(k) ==
  /\ dnQ[k].step = "fallback"
  /\ LET q == dnQ[k]
         m == [DnsWorld.blank EXCEPT !.DestinationAddresses = q.addrs, !.DnsFallBack = TRUE]
     IN \E r \in {MatchFallbackRules(DnsRule(q.rule).fallback_rules, q.query, m)} :
          \/ /\ r = None
             /\ dnQ' = [dnQ EXCEPT ![k].step = "end"]
          \/ /\ r # None /\ r.server = None
             /\ dnQ' = [dnQ EXCEPT ![k].step = "match", ![k].strategy = "as_is",
                                   ![k].fake = FALSE]
          \/ /\ r # None /\ r.server # None
             /\ dnQ' = [dnQ EXCEPT ![k].step = "askFallback", ![k].server = r.server,
                          ![k].strategy = StrategyOf(r.server), ![k].fake = IsFakeIP(r.server),
                          ![k].nocache = IsFakeIP(r.server) \/ r.disable_cache]
  /\ UNCHANGED <<dnConf, dnCache, dnRDRC, dnReverse, dnUpdates, dnLeft>>

DnsFallbackAnswer(k, reply) ==
  /\ dnQ[k].step = "askFallback"
  /\ reply \in DnsWorld.servers[dnQ[k].server].replies
  /\ LET q == dnQ[k]
         addrs == IF q.query.kind = "lookup" THEN Wanted(q.strategy, reply.addrs) ELSE reply.addrs
         key == Question(q.query)
     IN /\ dnQ' = [dnQ EXCEPT ![k].step = "end", ![k].asked = Asked(q, TRUE), ![k].rule = 0,
                     ![k].err = reply.err \/ (q.query.kind = "lookup" /\ addrs = <<>>),
                     ![k].addrs = IF reply.err THEN <<>> ELSE addrs]
        /\ dnCache' = IF reply.err \/ q.nocache THEN dnCache
                      ELSE [x \in DOMAIN dnCache \cup {key} |->
                              IF x = key THEN [addrs |-> addrs, rule |-> 0] ELSE dnCache[x]]
  /\ UNCHANGED <<dnConf, dnRDRC, dnReverse, dnUpdates, dnLeft>>

(* The deferred function of Exchange: the addresses are mapped back to the *)
(* name that was asked for, before any alias.                              *)
DnsEnd(k) ==
  /\ dnQ[k].step = "end"
  /\ dnQ' = [dnQ EXCEPT ![k] = Idle]
  /\ LET q == dnQ[k]
     IN dnReverse' = IF q.query.kind = "exchange" /\ ~q.update /\ ~q.err /\ ~q.fake
                     THEN {p \in dnReverse : \A i \in DOMAIN q.addrs : p[1] # q.addrs[i]}
                            \cup {<<q.addrs[i], q.query.domain>> : i \in DOMAIN q.addrs}
                     ELSE dnReverse
  /\ UNCHANGED <<dnConf, dnCache, dnRDRC, dnUpdates, dnLeft>>

ClearDNSCache ==
  /\ dnCache # <<>>
  /\ dnCache' = <<>>
  /\ UNCHANGED <<dnConf, dnQ, dnRDRC, dnReverse, dnUpdates, dnLeft>>

DnEnded == dnLeft = 0 /\ dnUpdates = {} /\ \A k \in Slots : dnQ[k] = Idle

DnNext ==
  \/ \E k \in Slots :
       \/ \E query \in dnConf.queries : DnsBegin(k, query)
       \/ \E query \in dnUpdates : DnsUpdate(k, query)
       \/ DnsChoose(k) \/ DnsFallback(k) \/ DnsEnd(k)
       \/ \E s \in DOMAIN DnsWorld.servers : \E reply \in DnsWorld.servers[s].replies :
            DnsAnswer(k, reply) \/ DnsFallbackAnswer(k, reply)
  \/ ClearDNSCache

-----------------------------------------------------------------------------
\* Every step leaves the queries and caches in their types.
DnTypeOK ==
  /\ \A k \in Slots : dnQ[k] # Idle =>
       /\ dnQ[k].step \in {"match", "ask", "fallback", "askFallback", "end"}
       /\ dnQ[k].index \in 0..Len(dnConf.rules)
       /\ dnQ[k].rule \in 0..Len(dnConf.rules)
  /\ dnLeft \in 0..MaxQueries
  /\ dnUpdates \subseteq dnConf.queries

\* The documented rule i for a query with these addresses in its response.
DocDNSMatch(i, query, addrs) ==
  DocMatch(DnsRule(i), [NewQuery(query, FALSE).meta EXCEPT !.DestinationAddresses = addrs])

(* matchDNS asks the server of the first rule, after the one that let the  *)
(* query go, that the documentation says some response could match; what   *)
(* the matching of rules and responses left in the metadata before (flags, *)
(* addresses) does not count.                                              *)
RightServer ==
  \A k \in Slots : dnQ[k].step = "ask" =>
    LET q == dnQ[k]
        before == IF q.asked = <<>> THEN 0 ELSE q.asked[Len(q.asked)].rule
        could(j) == \E addrs \in DnsWorld.responses : DocDNSMatch(j, q.query, addrs)
        counts(j) == /\ Usable(DnsRule(j).server, q.query)
                     /\ IsAddressQuery(q.query) \/ ~WithAddressLimit(DnsRule(j))
    IN /\ \A j \in (before + 1)..(IF q.rule = 0 THEN Len(dnConf.rules) ELSE q.rule - 1) :
            counts(j) => ~could(j)
       /\ q.rule # 0 => counts(q.rule) /\ could(q.rule)

(* docs/configuration/dns/rule.md: "When the query results do not match    *)
(* the address filtering rule items, the current rule will be skipped."    *)
(* An answer that ends a query under such a rule, from the server or from  *)
(* the cache, is one that the rule matches.                                *)
AddressFilter ==
  \A k \in Slots :
    /\ dnQ[k].step = "end" /\ ~dnQ[k].err /\ dnQ[k].rule # 0
    /\ IsAddressQuery(dnQ[k].query) /\ WithAddressLimit(DnsRule(dnQ[k].rule))
    => DocDNSMatch(dnQ[k].rule, dnQ[k].query, dnQ[k].addrs)

(* An address of the fakeip range never gets into the reverse mapping or   *)
(* into the result of a lookup, also not by the answer cache, which does   *)
(* not know where an answer came from.                                     *)
FakeNeverMapped ==
  /\ \A p \in dnReverse : p[1] \notin DnsWorld.fakes
  /\ \A k \in Slots : dnQ[k].step = "end" /\ dnQ[k].query.kind = "lookup" =>
       \A i \in DOMAIN dnQ[k].addrs : dnQ[k].addrs[i] \notin DnsWorld.fakes

(* A lookup with a strategy of its own asks the servers of the DNS rules   *)
(* with it, until a fallback rule has sent it on: that rule's "as is"      *)
(* replaces the strategy, and the next server's one is used.               *)
StrategyKept ==
  \A k \in Slots : dnQ[k] # Idle =>
    LET q == dnQ[k]
        asked == q.asked
        left(i) == /\ DnsRule(asked[i].rule).fallback_rules # <<>>
                   /\ \E j \in DOMAIN DnsRule(asked[i].rule).fallback_rules :
                        DnsRule(asked[i].rule).fallback_rules[j].server = None
    IN q.query.kind = "lookup" /\ q.query.strategy # "as_is" =>
         \A i \in DOMAIN asked :
           \/ asked[i].strategy = q.query.strategy
           \/ asked[i].fallback
           \/ \E j \in 1..(i - 1) : asked[j].rule # 0 /\ left(j)

DnRank(q) ==
  << IF q.rule = 0 /\ q.step \in {"ask", "end"} THEN Len(dnConf.rules) + 1 ELSE q.index,
     CASE q.step = "ask" -> 0 [] q.step = "fallback" -> 1 [] q.step = "match" -> 2
       [] q.step = "askFallback" -> 3 [] q.step = "end" -> 4 >>

(* Rejections, empty answers and fallback rules never send a query back:   *)
(* it goes through the rules once, and every step brings it closer to its  *)
(* end (and there is always a step).                                       *)
DnsAdvances ==
  [][\A k \in Slots : dnQ[k] # Idle /\ dnQ'[k] \notin {dnQ[k], Idle} =>
       LET a == DnRank(dnQ[k])
           b == DnRank(dnQ'[k])
       IN a[1] < b[1] \/ (a[1] = b[1] /\ a[2] < b[2])]_dnVars

-----------------------------------------------------------------------------
(* The properties above, by subject. *)

\* Whom matchDNS asks: the server of the first rule that could match, and with the strategy of the lookup until
\* a fallback rule sends it on.
AsksSound ==
  /\ DnTypeOK
  /\ RightServer
  /\ StrategyKept

\* What the DNS router answers and remembers: under an address rule only what the rule matches, and never a fake
\* address in the reverse mapping or in a lookup.
AnswersSound ==
  /\ AddressFilter
  /\ FakeNeverMapped
=============================================================================
