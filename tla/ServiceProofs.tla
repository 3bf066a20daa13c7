--------------------------- MODULE ServiceProofs ----------------------------
(* Proofs about the running service.  LifeCycle: for boxes with any number   *)
(* of inbounds, outbounds, providers, rule-sets and APIs and for any number  *)
(* of signals.  Resources: for any rule-sets, any rules that name them, any  *)
(* number of versions and crashes, and updates by the loop and the API that  *)
(* overlap in any way.                                                       *)
EXTENDS LifeCycle, Resources, TLAPS

(* A leaf that names no prover goes to Zenon, for ten seconds, then to SMT.  *)
USE ZenonT(10), SMTT(20)

-----------------------------------------------------------------------------
(* Sequences of steps.  What a sequence has is its Range; Behind is what has *)
(* been done when step pc is the next.                                       *)

Behind(steps, pc) == {steps[i] : i \in 1..(pc - 1)}
At(op, c) == [op |-> op, c |-> c]

\* The operation op on the components C.
Of(op, C) == {At(op, c) : c \in C}

\* A sequence over a set is one over a larger set.
LEMMA WiderSeq == \A S, T, s : S \subseteq T /\ s \in Seq(S) => s \in Seq(T)
OBVIOUS

\* A sequence of anything is one of its own elements.
LEMMA SeqIs == ASSUME NEW S, NEW s \in Seq(S) PROVE IsSeq(s)
<1>1. Len(s) \in Nat /\ DOMAIN s = 1..Len(s)
  OBVIOUS
<1>2. \A i \in 1..Len(s) : s[i] \in Range(s)
  BY <1>1 DEF Range
<1>3. s = [i \in 1..Len(s) |-> s[i]]
  BY <1>1
<1> QED BY <1>1, <1>2, <1>3 DEF IsSeq

\* The domain of a sequence.
LEMMA IsSeqDomain == ASSUME NEW s, IsSeq(s) PROVE Len(s) \in Nat /\ DOMAIN s = 1..Len(s)
BY DEF IsSeq

\* The steps of one operation on a sequence of components.
LEMMA DoSteps ==
  ASSUME NEW op, NEW cs, IsSeq(cs)
  PROVE  /\ IsSeq(Do(op, cs)) /\ Len(Do(op, cs)) = Len(cs)
         /\ Range(Do(op, cs)) = Of(op, Range(cs))
<1>1. DOMAIN cs = 1..Len(cs) /\ Len(cs) \in Nat
  BY IsSeqDomain
<1>2. \A i \in 1..Len(cs) : [op |-> op, c |-> cs[i]] \in Of(op, Range(cs))
  BY <1>1 DEF Of, At, Range
<1>3. Do(op, cs) \in Seq(Of(op, Range(cs))) /\ Len(Do(op, cs)) = Len(cs)
  BY <1>1, <1>2 DEF Do
<1>4. Range(Do(op, cs)) = Of(op, Range(cs))
  BY <1>1 DEF Do, Range, At, Of
<1> QED BY <1>3, <1>4, SeqIs

\* Two sequences of steps in a row.
LEMMA InARow ==
  ASSUME NEW s, NEW t, IsSeq(s), IsSeq(t)
  PROVE  /\ IsSeq(s \o t) /\ Len(s \o t) = Len(s) + Len(t)
         /\ Range(s \o t) = Range(s) \cup Range(t)
         /\ \A i \in 1..Len(s) : (s \o t)[i] = s[i]
         /\ \A i \in (Len(s) + 1)..(Len(s) + Len(t)) : (s \o t)[i] = t[i - Len(s)] /\ (s \o t)[i] \in Range(t)
<1> DEFINE S == Range(s) \cup Range(t)
<1>0. s \in Seq(S) /\ t \in Seq(S)
  BY WiderSeq DEF IsSeq
<1> HIDE DEF S
<1>1. /\ s \o t \in Seq(S) /\ Len(s \o t) = Len(s) + Len(t) /\ Len(s) \in Nat /\ Len(t) \in Nat
      /\ DOMAIN s = 1..Len(s) /\ DOMAIN t = 1..Len(t) /\ DOMAIN (s \o t) = 1..(Len(s) + Len(t))
  BY <1>0
<1>2. \A i \in 1..Len(s) : (s \o t)[i] = s[i]
  BY <1>0
<1>3. \A i \in (Len(s) + 1)..(Len(s) + Len(t)) : (s \o t)[i] = t[i - Len(s)] /\ i - Len(s) \in 1..Len(t)
  BY <1>0
<1>4. Range(s \o t) \subseteq Range(s) \cup Range(t)
  <2> SUFFICES ASSUME NEW i \in 1..(Len(s) + Len(t)) PROVE (s \o t)[i] \in Range(s) \cup Range(t)
    BY <1>1 DEF Range
  <2>1. CASE i <= Len(s)
    <3>1. i \in 1..Len(s)
      BY <1>1, <2>1
    <3> QED BY <3>1, <1>1, <1>2 DEF Range
  <2>2. CASE i > Len(s)
    <3>1. i \in (Len(s) + 1)..(Len(s) + Len(t))
      BY <1>1, <2>2
    <3>2. (s \o t)[i] = t[i - Len(s)] /\ i - Len(s) \in DOMAIN t
      BY <1>1, <1>3, <3>1
    <3> QED BY <3>2 DEF Range
  <2> QED BY <1>1, <2>1, <2>2
<1>5. Range(s) \subseteq Range(s \o t)
  BY <1>1, <1>2 DEF Range
<1>6. Range(t) \subseteq Range(s \o t)
  <2> SUFFICES ASSUME NEW j \in 1..Len(t) PROVE t[j] \in Range(s \o t)
    BY <1>1 DEF Range
  <2>1. j + Len(s) \in 1..(Len(s) + Len(t)) /\ (s \o t)[j + Len(s)] = t[j]
    BY <1>1, <1>3
  <2> QED BY <2>1, <1>1 DEF Range
<1>7. IsSeq(s \o t)
  BY <1>1, SeqIs
<1> QED BY <1>1, <1>2, <1>3, <1>4, <1>5, <1>6, <1>7 DEF Range

\* One more step is behind.
LEMMA Advance ==
  ASSUME NEW s, IsSeq(s), NEW pc \in 1..Len(s)
  PROVE  Behind(s, pc + 1) = Behind(s, pc) \cup {s[pc]}
<1>1. 1..(pc + 1 - 1) = 1..(pc - 1) \cup {pc}
  OBVIOUS
<1> QED BY <1>1 DEF Behind

\* Nothing is behind the first step, and everything behind the end.
LEMMA Ends ==
  ASSUME NEW s, IsSeq(s)
  PROVE  Behind(s, 1) = {} /\ Behind(s, Len(s) + 1) = Range(s)
<1>1. Len(s) \in Nat /\ DOMAIN s = 1..Len(s) /\ 1..(1 - 1) = {} /\ 1..(Len(s) + 1 - 1) = 1..Len(s)
  OBVIOUS
<1> QED BY <1>1 DEF Behind, Range

-----------------------------------------------------------------------------
(* Start and Close, cut where an order matters.                              *)

\* u begins with s, and the rest of it is in R.
Begins(s, u, R) ==
  /\ IsSeq(s) /\ IsSeq(u) /\ Len(s) <= Len(u)
  /\ \A i \in 1..Len(s) : u[i] = s[i]
  /\ \A i \in (Len(s) + 1)..Len(u) : u[i] \in R

\* s is a sequence of the steps A.
Has(s, A) == IsSeq(s) /\ Range(s) = A

\* A step is one operation on one component.
LEMMA OfOne == \A op, q, c, C : At(op, c) \in Of(q, C) <=> op = q /\ c \in C
BY DEF Of, At

\* A sequence begins with itself.
LEMMA BeginsSelf == ASSUME NEW s, IsSeq(s) PROVE Begins(s, s, {})
<1>1. Len(s) \in Nat /\ \A i \in (Len(s) + 1)..Len(s) : FALSE
  OBVIOUS
<1> QED BY <1>1 DEF Begins

\* What follows does not change how a sequence begins ...
LEMMA BeginsMore ==
  ASSUME NEW s, NEW u, NEW R, Begins(s, u, R), NEW t, IsSeq(t)
  PROVE  Begins(s, u \o t, R \cup Range(t))
<1>1. Len(s) \in Nat /\ Len(u) \in Nat /\ Len(t) \in Nat /\ Len(u \o t) = Len(u) + Len(t) /\ IsSeq(u \o t)
  BY IsSeqDomain, InARow DEF Begins
<1>2. \A i \in 1..Len(u) : (u \o t)[i] = u[i]
  BY InARow DEF Begins
<1>3. \A i \in (Len(u) + 1)..(Len(u) + Len(t)) : (u \o t)[i] \in Range(t)
  BY InARow DEF Begins
<1>4. ASSUME NEW i \in (Len(s) + 1)..(Len(u) + Len(t)) PROVE (u \o t)[i] \in R \cup Range(t)
  <2>1. CASE i <= Len(u)
    BY <1>1, <1>2, <2>1 DEF Begins
  <2>2. CASE i > Len(u)
    BY <1>1, <1>3, <2>2
  <2> QED BY <1>1, <2>1, <2>2
<1>5. \A i \in 1..Len(s) : (u \o t)[i] = s[i]
  BY <1>1, <1>2 DEF Begins
<1> QED BY <1>1, <1>4, <1>5 DEF Begins

\* ... and what goes before is before both.
LEMMA BeginsAfter ==
  ASSUME NEW s, NEW u, NEW R, Begins(s, u, R), NEW p, IsSeq(p)
  PROVE  Begins(p \o s, p \o u, R)
<1>1. /\ Len(s) \in Nat /\ Len(u) \in Nat /\ Len(p) \in Nat /\ IsSeq(p \o s) /\ IsSeq(p \o u)
      /\ Len(p \o s) = Len(p) + Len(s) /\ Len(p \o u) = Len(p) + Len(u) /\ Len(s) <= Len(u)
  BY IsSeqDomain, InARow DEF Begins
<1>2. ASSUME NEW i \in 1..(Len(p) + Len(s)) PROVE (p \o u)[i] = (p \o s)[i]
  <2>1. CASE i <= Len(p)
    BY <1>1, <2>1, InARow DEF Begins
  <2>2. CASE i > Len(p)
    <3>1. i \in (Len(p) + 1)..(Len(p) + Len(s)) /\ i \in (Len(p) + 1)..(Len(p) + Len(u)) /\ i - Len(p) \in 1..Len(s)
      BY <1>1, <2>2
    <3>2. (p \o s)[i] = s[i - Len(p)] /\ (p \o u)[i] = u[i - Len(p)]
      BY <3>1, InARow DEF Begins
    <3> QED BY <3>1, <3>2 DEF Begins
  <2> QED BY <1>1, <2>1, <2>2
<1>3. ASSUME NEW i \in (Len(p) + Len(s) + 1)..(Len(p) + Len(u)) PROVE (p \o u)[i] \in R
  <2>1. i \in (Len(p) + 1)..(Len(p) + Len(u)) /\ i - Len(p) \in (Len(s) + 1)..Len(u)
    BY <1>1
  <2>2. (p \o u)[i] = u[i - Len(p)]
    BY <2>1, InARow DEF Begins
  <2> QED BY <2>1, <2>2 DEF Begins
<1> QED BY <1>1, <1>2, <1>3 DEF Begins

\* What is behind a step of the beginning, and behind one after it.
LEMMA BeginsCut ==
  ASSUME NEW s, NEW u, NEW R, Begins(s, u, R), NEW pc \in 1..(Len(u) + 1)
  PROVE  /\ pc <= Len(s) + 1 => Behind(u, pc) \subseteq Range(s)
         /\ pc > Len(s) => Range(s) \subseteq Behind(u, pc)
         /\ pc > Len(s) /\ pc <= Len(u) => u[pc] \in R
<1>1. Len(s) \in Nat /\ Len(u) \in Nat /\ DOMAIN s = 1..Len(s) /\ \A i \in 1..Len(s) : u[i] = s[i]
  BY DEF Begins
<1>2. ASSUME pc <= Len(s) + 1 PROVE Behind(u, pc) \subseteq Range(s)
  <2>1. \A i \in 1..(pc - 1) : i \in 1..Len(s)
    BY <1>1, <1>2
  <2> QED BY <1>1, <2>1 DEF Behind, Range
<1>3. ASSUME pc > Len(s) PROVE Range(s) \subseteq Behind(u, pc)
  <2>1. \A i \in 1..Len(s) : i \in 1..(pc - 1)
    BY <1>1, <1>3
  <2> QED BY <1>1, <2>1 DEF Behind, Range
<1> QED BY <1>1, <1>2, <1>3 DEF Begins

\* The components of a box that are of no fixed part.
BoxParts(b) == Range(b.apis) \cup Range(b.outs) \cup Range(b.ins) \cup Range(b.provs) \cup Range(b.sets)

\* The sequences of components that a box consists of.
LEMMA BoxSequences ==
  ASSUME NEW b \in LcBoxes
  PROVE  /\ IsSeq(b.cache) /\ IsSeq(b.apis) /\ IsSeq(b.outs) /\ IsSeq(b.ins) /\ IsSeq(b.provs) /\ IsSeq(b.sets)
         /\ Range(b.cache) \subseteq {"cacheFile"}
         /\ BoxParts(b) \cap Fixed = {}
         /\ Range(b.ins) \cap (Range(b.apis) \cup Range(b.outs) \cup Range(b.provs) \cup Range(b.sets)) = {}
         /\ Range(b.outs) \cap (Range(b.apis) \cup Range(b.provs) \cup Range(b.sets)) = {}
BY LcAssumption DEF BoxParts

\* Two sequences of steps in a row have the steps of both.
LEMMA HasRow == \A s, t, A, B : Has(s, A) /\ Has(t, B) => Has(s \o t, A \cup B)
BY InARow DEF Has

\* Short lists: of one component,
LEMMA List1 == ASSUME NEW x PROVE IsSeq(<<x>>) /\ Range(<<x>>) = {x}
<1>1. DOMAIN <<x>> = {1} /\ <<x>>[1] = x
  OBVIOUS
<1>2. <<x>> \in Seq({x})
  OBVIOUS
<1> QED BY <1>1, <1>2, SeqIs, ZenonT(30) DEF Range

\* of two,
LEMMA List2 == ASSUME NEW x, NEW y PROVE IsSeq(<<x, y>>) /\ Range(<<x, y>>) = {x, y}
<1>1. DOMAIN <<x, y>> = {1, 2} /\ <<x, y>>[1] = x /\ <<x, y>>[2] = y
  OBVIOUS
<1>2. <<x, y>> \in Seq({x, y})
  OBVIOUS
<1> QED BY <1>1, <1>2, SeqIs, ZenonT(30) DEF Range

\* of three,
LEMMA List3 == ASSUME NEW x, NEW y, NEW z PROVE IsSeq(<<x, y, z>>) /\ Range(<<x, y, z>>) = {x, y, z}
<1>1. DOMAIN <<x, y, z>> = {1, 2, 3} /\ <<x, y, z>>[1] = x /\ <<x, y, z>>[2] = y /\ <<x, y, z>>[3] = z
  OBVIOUS
<1>2. <<x, y, z>> \in Seq({x, y, z})
  OBVIOUS
<1> QED BY <1>1, <1>2, SeqIs, ZenonT(30) DEF Range

\* and of six.
LEMMA List6 == ASSUME NEW u, NEW v, NEW w, NEW x, NEW y, NEW z PROVE IsSeq(<<u, v, w, x, y, z>>) /\ Range(<<u, v, w, x, y, z>>) = {u, v, w, x, y, z}
<1> DEFINE s == <<u, v, w, x, y, z>>
<1>1. s \in Seq({u, v, w, x, y, z}) /\ DOMAIN s = {1, 2, 3, 4, 5, 6}
  OBVIOUS
<1>2. s[1] = u /\ s[2] = v /\ s[3] = w /\ s[4] = x /\ s[5] = y /\ s[6] = z
  OBVIOUS
<1> HIDE DEF s
<1>3. Range(s) = {s[1], s[2], s[3], s[4], s[5], s[6]}
  BY <1>1, ZenonT(30) DEF Range
<1>4. IsSeq(s)
  BY <1>1, SeqIs, ZenonT(30)
<1> QED BY <1>2, <1>3, <1>4 DEF s

\* The steps of one operation on a list of components.
LEMMA DoList ==
  /\ \A op, cs : IsSeq(cs) => Has(Do(op, cs), Of(op, Range(cs)))
  /\ \A op, x : Has(Do(op, <<x>>), Of(op, {x}))
  /\ \A op, x, y : Has(Do(op, <<x, y>>), Of(op, {x, y}))
  /\ \A op, x, y, z : Has(Do(op, <<x, y, z>>), Of(op, {x, y, z}))
  /\ \A op, u, v, w, x, y, z : Has(Do(op, <<u, v, w, x, y, z>>), Of(op, {u, v, w, x, y, z}))
<1>1. \A op, cs : IsSeq(cs) => Has(Do(op, cs), Of(op, Range(cs)))
  BY DoSteps DEF Has
<1>2. \A op, x : Has(Do(op, <<x>>), Of(op, {x}))
  BY <1>1, List1, ZenonT(30)
<1>3. ASSUME NEW op, NEW x, NEW y PROVE Has(Do(op, <<x, y>>), Of(op, {x, y}))
  <2>1. IsSeq(<<x, y>>) /\ Range(<<x, y>>) = {x, y}
    BY List2
  <2> QED BY <1>1, <2>1
<1>4. ASSUME NEW op, NEW x, NEW y, NEW z PROVE Has(Do(op, <<x, y, z>>), Of(op, {x, y, z}))
  <2>1. IsSeq(<<x, y, z>>) /\ Range(<<x, y, z>>) = {x, y, z}
    BY List3
  <2> QED BY <1>1, <2>1
<1>5. ASSUME NEW op, NEW u, NEW v, NEW w, NEW x, NEW y, NEW z PROVE Has(Do(op, <<u, v, w, x, y, z>>), Of(op, {u, v, w, x, y, z}))
  <2>1. IsSeq(<<u, v, w, x, y, z>>) /\ Range(<<u, v, w, x, y, z>>) = {u, v, w, x, y, z}
    BY List6
  <2> QED BY <1>1, <2>1
<1> QED BY <1>1, <1>2, <1>3, <1>4, <1>5

\* The first steps: the log and the cache file,
P1(b) == Do("start", <<"log">>) \o Do("start", b.cache)
\* ... up to the router's Start,
P2(b) == P1(b) \o Do("pre", b.apis) \o RouterPreStart(b) \o Do("start", b.provs) \o Do("start", b.outs)
\* ... and up to the first inbound.
P3(b) == P2(b) \o RouterStart(b) \o Do("start", b.apis)

H1(b) == Of("start", {"log"}) \cup Of("start", Range(b.cache))
H2(b) ==
  H1(b) \cup Of("pre", Range(b.apis)) \cup Of("start", {"interfaceMonitor", "networkMonitor", "fakeIPStore"})
    \cup Of("start", Range(b.provs)) \cup Of("start", Range(b.outs))
HGeo(b) == IF b.geo THEN Of("start", {"geoIP", "geosite"}) \cup Of("close", {"geosite"}) ELSE {}
HRouter ==
  Of("start", {"powerListener", "dnsClient", "dnsRules", "sniffRules", "transports", "timeService"})
H3(b) == H2(b) \cup (HGeo(b) \cup HRouter) \cup Of("start", Range(b.apis))
HPost(b) ==
  Of("post", Range(b.outs)) \cup Of("post", Range(b.provs))
    \cup (Of("start", Range(b.sets)) \cup Of("start", {"processSearcher", "rules"}) \cup Of("post", Range(b.sets))
            \cup Of("ready", {"router"}))
    \cup Of("post", Range(b.ins))
HStart(b) == H3(b) \cup Of("start", Range(b.ins)) \cup HPost(b) \cup Of("cleanup", Range(b.sets))

\* Nothing, and a list that a condition decides on.
LEMMA HasNone == Has(<<>>, {})
<1>1. <<>> \in Seq({}) /\ DOMAIN <<>> = {}
  OBVIOUS
<1> QED BY <1>1, SeqIs DEF Has, Range

\* What the steps of Router.Start and of postStart are.
LEMMA StartParts ==
  ASSUME NEW b \in LcBoxes
  PROVE  Has(RouterStart(b), HGeo(b) \cup HRouter) /\ Has(postStart(b), HPost(b))
<1>1. Has(RouterStart(b), HGeo(b) \cup HRouter)
  <2> DEFINE G == Do("start", <<"geoIP", "geosite">>) \o Do("close", <<"geosite">>)
  <2>1. Has(G, Of("start", {"geoIP", "geosite"}) \cup Of("close", {"geosite"}))
    BY DoList, HasRow
  <2>2. Has(If(b.geo, G), HGeo(b))
    BY <2>1, HasNone DEF If, HGeo
  <2>3. Has(Do("start", <<"powerListener", "dnsClient", "dnsRules", "sniffRules", "transports", "timeService">>), HRouter)
    BY DoList DEF HRouter
  <2> QED BY <2>2, <2>3, HasRow DEF RouterStart
<1>2. Has(postStart(b), HPost(b))
  <2>1. Has(Do("start", b.sets) \o Do("start", <<"processSearcher", "rules">>),
            Of("start", Range(b.sets)) \cup Of("start", {"processSearcher", "rules"}))
    BY BoxSequences, DoList, HasRow
  <2>2. Has(Do("start", b.sets) \o Do("start", <<"processSearcher", "rules">>) \o Do("post", b.sets),
            Of("start", Range(b.sets)) \cup Of("start", {"processSearcher", "rules"}) \cup Of("post", Range(b.sets)))
    BY <2>1, BoxSequences, DoList, HasRow
  <2>3. Has(RouterPostStart(b),
            Of("start", Range(b.sets)) \cup Of("start", {"processSearcher", "rules"}) \cup Of("post", Range(b.sets))
              \cup Of("ready", {"router"}))
    BY <2>2, DoList, HasRow DEF RouterPostStart
  <2>4. Has(Do("post", b.outs) \o Do("post", b.provs), Of("post", Range(b.outs)) \cup Of("post", Range(b.provs)))
    BY BoxSequences, DoList, HasRow
  <2>5. Has(Do("post", b.outs) \o Do("post", b.provs) \o RouterPostStart(b),
            Of("post", Range(b.outs)) \cup Of("post", Range(b.provs))
              \cup (Of("start", Range(b.sets)) \cup Of("start", {"processSearcher", "rules"}) \cup Of("post", Range(b.sets))
                      \cup Of("ready", {"router"})))
    BY <2>3, <2>4, HasRow
  <2> QED BY <2>5, BoxSequences, DoList, HasRow DEF postStart, HPost
<1> QED BY <1>1, <1>2

\* What the steps of Start are, from cut to cut.
LEMMA StartHas ==
  ASSUME NEW b \in LcBoxes
  PROVE  Has(P1(b), H1(b)) /\ Has(P2(b), H2(b)) /\ Has(P3(b), H3(b)) /\ Has(start(b), HStart(b))
<1>1. Has(P1(b), H1(b))
  BY BoxSequences, DoList, HasRow DEF P1, H1
<1>2. Has(P2(b), H2(b))
  <2>1. Has(P1(b) \o Do("pre", b.apis), H1(b) \cup Of("pre", Range(b.apis)))
    BY <1>1, BoxSequences, DoList, HasRow
  <2>2. Has(RouterPreStart(b), Of("start", {"interfaceMonitor", "networkMonitor", "fakeIPStore"}))
    BY DoList DEF RouterPreStart
  <2>3. Has(P1(b) \o Do("pre", b.apis) \o RouterPreStart(b),
            H1(b) \cup Of("pre", Range(b.apis)) \cup Of("start", {"interfaceMonitor", "networkMonitor", "fakeIPStore"}))
    BY <2>1, <2>2, HasRow
  <2>4. Has(P1(b) \o Do("pre", b.apis) \o RouterPreStart(b) \o Do("start", b.provs),
            H1(b) \cup Of("pre", Range(b.apis)) \cup Of("start", {"interfaceMonitor", "networkMonitor", "fakeIPStore"})
              \cup Of("start", Range(b.provs)))
    BY <2>3, BoxSequences, DoList, HasRow
  <2> QED BY <2>4, BoxSequences, DoList, HasRow DEF P2, H2
<1>3. Has(P3(b), H3(b))
  <2>1. Has(P2(b) \o RouterStart(b), H2(b) \cup (HGeo(b) \cup HRouter))
    BY <1>2, StartParts, HasRow
  <2> QED BY <2>1, BoxSequences, DoList, HasRow DEF P3, H3
<1>4. start(b) = P3(b) \o Do("start", b.ins) \o postStart(b) \o LcCleanup(b)
  BY DEF start, preStart, P3, P2, P1
<1>5. Has(P3(b) \o Do("start", b.ins), H3(b) \cup Of("start", Range(b.ins)))
  BY <1>3, BoxSequences, DoList, HasRow
<1>6. Has(P3(b) \o Do("start", b.ins) \o postStart(b), H3(b) \cup Of("start", Range(b.ins)) \cup HPost(b))
  BY StartParts, <1>5, HasRow
<1>7. Has(start(b), HStart(b))
  BY <1>4, <1>6, BoxSequences, DoList, HasRow DEF LcCleanup, HStart
<1> QED BY <1>1, <1>2, <1>3, <1>7

\* Start begins with each of the cuts.
LEMMA StartCuts ==
  ASSUME NEW b \in LcBoxes
  PROVE  /\ IsSeq(start(b))
         /\ \E R : Begins(P1(b), start(b), R)
         /\ \E R : Begins(P2(b), start(b), R)
         /\ \E R : Begins(P3(b), start(b), R)
         /\ \A u, R : Begins(u, P2(b) \o RouterStart(b), R) =>
              Begins(u, start(b), R \cup Of("start", Range(b.apis)) \cup Of("start", Range(b.ins)) \cup HPost(b)
                                    \cup Of("cleanup", Range(b.sets)))
<1>1. IsSeq(P1(b)) /\ IsSeq(P2(b)) /\ IsSeq(P3(b)) /\ IsSeq(start(b))
  BY StartHas DEF Has
<1>2. start(b) = P3(b) \o Do("start", b.ins) \o postStart(b) \o LcCleanup(b)
  BY DEF start, preStart, P3, P2, P1
<1>3. /\ Has(Do("start", b.apis), Of("start", Range(b.apis))) /\ Has(Do("start", b.ins), Of("start", Range(b.ins)))
      /\ Has(LcCleanup(b), Of("cleanup", Range(b.sets)))
  BY BoxSequences, DoList DEF LcCleanup
<1>4. Has(postStart(b), HPost(b)) /\ Has(RouterStart(b), HGeo(b) \cup HRouter)
  BY StartParts
<1>5. ASSUME NEW u, NEW R, Begins(u, P3(b), R)
      PROVE  Begins(u, start(b), R \cup Of("start", Range(b.ins)) \cup HPost(b) \cup Of("cleanup", Range(b.sets)))
  <2>1. Begins(u, P3(b) \o Do("start", b.ins), R \cup Of("start", Range(b.ins)))
    BY <1>3, <1>5, BeginsMore DEF Has
  <2>2. Begins(u, P3(b) \o Do("start", b.ins) \o postStart(b), R \cup Of("start", Range(b.ins)) \cup HPost(b))
    BY <1>4, <2>1, BeginsMore DEF Has
  <2> QED BY <1>2, <1>3, <2>2, BeginsMore DEF Has
<1>6. ASSUME NEW u, NEW R, Begins(u, P2(b) \o RouterStart(b), R)
      PROVE  Begins(u, start(b), R \cup Of("start", Range(b.apis)) \cup Of("start", Range(b.ins)) \cup HPost(b)
                                    \cup Of("cleanup", Range(b.sets)))
  BY <1>3, <1>5, <1>6, BeginsMore DEF Has, P3
<1>7. \E R : Begins(P3(b), start(b), R)
  BY <1>1, <1>5, BeginsSelf
<1>8. ASSUME NEW u, NEW R, Begins(u, P2(b), R) PROVE \E Q : Begins(u, start(b), Q)
  BY <1>4, <1>6, <1>8, BeginsMore DEF Has
<1>9. \E R : Begins(P2(b), start(b), R)
  BY <1>1, <1>8, BeginsSelf
<1>10. \E R : Begins(P1(b), start(b), R)
  <2>1. /\ IsSeq(Do("pre", b.apis)) /\ IsSeq(RouterPreStart(b)) /\ IsSeq(Do("start", b.provs))
        /\ IsSeq(Do("start", b.outs))
    BY BoxSequences, DoList DEF RouterPreStart, Has
  <2>2. \E R : Begins(P1(b), P1(b) \o Do("pre", b.apis), R)
    <3>1. Begins(P1(b), P1(b), {})
      BY <1>1, BeginsSelf
    <3> QED BY <2>1, <3>1, BeginsMore
  <2>3. \E R : Begins(P1(b), P1(b) \o Do("pre", b.apis) \o RouterPreStart(b), R)
    BY <2>1, <2>2, BeginsMore
  <2>4. \E R : Begins(P1(b), P1(b) \o Do("pre", b.apis) \o RouterPreStart(b) \o Do("start", b.provs), R)
    BY <2>1, <2>3, BeginsMore, ZenonT(40)
  <2>5. \E R : Begins(P1(b), P2(b), R)
    <3>1. PICK R : Begins(P1(b), P1(b) \o Do("pre", b.apis) \o RouterPreStart(b) \o Do("start", b.provs), R)
      BY <2>4
    <3>2. Begins(P1(b), P2(b), R \cup Range(Do("start", b.outs)))
      BY <2>1, <3>1, BeginsMore DEF P2
    <3> QED BY <3>2
  <2> QED BY <2>5, <1>8
<1> QED BY <1>1, <1>6, <1>7, <1>9, <1>10

\* The geosite database is open between two steps that follow one another; where the router has none, there is no step
\* of it.
LEMMA GeoCuts ==
  ASSUME NEW b \in LcBoxes, b.geo
  PROVE  \E n \in Nat :
           /\ n + 3 <= Len(start(b)) /\ start(b)[n + 3] = At("close", "geosite")
           /\ \A pc \in 1..(Len(start(b)) + 1) :
                /\ pc <= n + 2 => At("start", "geosite") \notin Behind(start(b), pc)
                /\ pc <= n + 3 => At("close", "geosite") \notin Behind(start(b), pc)
                /\ pc > n + 3 => At("close", "geosite") \in Behind(start(b), pc)
                /\ pc > n + 3 /\ pc <= Len(start(b)) => start(b)[pc] # At("start", "geosite")
<1> DEFINE I == Do("start", <<"geoIP">>)
           G == Do("start", <<"geoIP", "geosite">>)
           C == Do("close", <<"geosite">>)
           Z == Do("start", <<"powerListener", "dnsClient", "dnsRules", "sniffRules", "transports", "timeService">>)
           n == Len(P2(b))
           Rest == Of("start", Range(b.apis)) \cup Of("start", Range(b.ins)) \cup HPost(b) \cup Of("cleanup", Range(b.sets))
<1>1. /\ Has(I, Of("start", {"geoIP"})) /\ Has(G, Of("start", {"geoIP", "geosite"})) /\ Has(C, Of("close", {"geosite"}))
      /\ Has(Z, HRouter) /\ Has(P2(b), H2(b))
  BY DoList, StartHas DEF HRouter
<1>2. /\ Len(I) = 1 /\ Len(G) = 2 /\ Len(C) = 1 /\ I[1] = At("start", "geoIP") /\ G[1] = At("start", "geoIP")
      /\ G[2] = At("start", "geosite") /\ C[1] = At("close", "geosite")
  BY List1, List2, DoSteps DEF Do, At
<1>3. RouterStart(b) = G \o C \o Z
  BY DEF RouterStart, If
<1>4. n \in Nat
  BY <1>1, IsSeqDomain DEF Has
<1> HIDE DEF I, G, C, Z, n, Rest
<1>5. Begins(I, G, {At("start", "geosite")})
  BY <1>1, <1>2 DEF Begins, Has
<1>6. ASSUME NEW u, NEW R, Begins(u, G \o C, R)
      PROVE  Begins(P2(b) \o u, start(b), R \cup HRouter \cup Rest)
  <2>1. Begins(u, RouterStart(b), R \cup HRouter)
    BY <1>1, <1>3, <1>6, BeginsMore DEF Has
  <2>2. Begins(P2(b) \o u, P2(b) \o RouterStart(b), R \cup HRouter)
    BY <1>1, <2>1, BeginsAfter DEF Has
  <2> DEFINE Q == R \cup HRouter
  <2>3. Begins(P2(b) \o u, start(b), Q \cup Of("start", Range(b.apis)) \cup Of("start", Range(b.ins)) \cup HPost(b)
                                    \cup Of("cleanup", Range(b.sets)))
    BY <2>2, StartCuts
  <2>4. Q \cup Of("start", Range(b.apis)) \cup Of("start", Range(b.ins)) \cup HPost(b) \cup Of("cleanup", Range(b.sets))
          = R \cup HRouter \cup Rest
    BY DEF Rest
  <2> QED BY <2>3, <2>4
<1>7. \E R : Begins(P2(b) \o I, start(b), R)
  BY <1>1, <1>5, <1>6, BeginsMore DEF Has
<1>8. \E R : Begins(P2(b) \o G, start(b), R)
  <2>1. Begins(G, G, {})
    BY <1>1, BeginsSelf DEF Has
  <2> QED BY <1>1, <1>6, <2>1, BeginsMore DEF Has
<1>9. Begins(P2(b) \o (G \o C), start(b), {} \cup HRouter \cup Rest)
  <2>1. Begins(G \o C, G \o C, {})
    BY <1>1, BeginsSelf, InARow DEF Has
  <2> QED BY <1>6, <2>1
<1>10. /\ Len(P2(b) \o I) = n + 1 /\ Len(P2(b) \o G) = n + 2 /\ Len(G \o C) = 3
       /\ IsSeq(G \o C) /\ Len(P2(b) \o (G \o C)) = n + 3
  <2>1. IsSeq(I) /\ IsSeq(G) /\ IsSeq(C) /\ IsSeq(P2(b))
    BY <1>1 DEF Has
  <2>2. IsSeq(G \o C) /\ Len(G \o C) = 3
    <3>1. IsSeq(G \o C) /\ Len(G \o C) = Len(G) + Len(C)
      BY <2>1, InARow
    <3> QED BY <1>2, <3>1
  <2>3. Len(P2(b) \o I) = n + 1 /\ Len(P2(b) \o G) = n + 2
    <3>1. Len(P2(b) \o I) = Len(P2(b)) + Len(I) /\ Len(P2(b) \o G) = Len(P2(b)) + Len(G)
      BY <2>1, InARow
    <3> QED BY <1>2, <1>4, <3>1 DEF n
  <2>4. Len(P2(b) \o (G \o C)) = n + 3
    BY <1>4, <2>1, <2>2, InARow DEF n
  <2> QED BY <2>2, <2>3, <2>4
<1>11. /\ Range(P2(b) \o I) = H2(b) \cup Of("start", {"geoIP"})
       /\ Range(P2(b) \o G) = H2(b) \cup Of("start", {"geoIP", "geosite"})
       /\ Range(P2(b) \o (G \o C)) = H2(b) \cup (Of("start", {"geoIP", "geosite"}) \cup Of("close", {"geosite"}))
  BY <1>1, InARow DEF Has
<1>12. /\ At("start", "geosite") \notin Range(P2(b) \o I) /\ At("close", "geosite") \notin Range(P2(b) \o G)
       /\ At("close", "geosite") \in Range(P2(b) \o (G \o C))
       /\ At("start", "geosite") \notin {} \cup HRouter \cup Rest
  <2>1. "geosite" \notin BoxParts(b) /\ "geosite" \notin Range(b.cache)
    BY BoxSequences DEF Fixed
  <2> QED BY <1>11, <2>1, OfOne DEF H2, H1, HRouter, HPost, Rest, BoxParts
<1>13. n + 3 <= Len(start(b)) /\ start(b)[n + 3] = At("close", "geosite")
  <2>1. n + 3 <= Len(start(b)) /\ start(b)[n + 3] = (P2(b) \o (G \o C))[n + 3]
    BY <1>4, <1>9, <1>10 DEF Begins
  <2>2. (G \o C)[3] = C[1]
    <3>1. IsSeq(G) /\ IsSeq(C) /\ 3 \in (Len(G) + 1)..(Len(G) + Len(C)) /\ 3 - Len(G) = 1
      BY <1>1, <1>2 DEF Has
    <3>2. (G \o C)[3] = C[3 - Len(G)]
      BY <3>1, InARow
    <3> QED BY <3>1, <3>2
  <2>3. (P2(b) \o (G \o C))[n + 3] = (G \o C)[3]
    BY <1>1, <1>4, <1>10, InARow DEF Has, n
  <2> QED BY <1>2, <2>1, <2>2, <2>3
<1>14. ASSUME NEW pc \in 1..(Len(start(b)) + 1)
       PROVE  /\ pc <= n + 2 => At("start", "geosite") \notin Behind(start(b), pc)
              /\ pc <= n + 3 => At("close", "geosite") \notin Behind(start(b), pc)
              /\ pc > n + 3 => At("close", "geosite") \in Behind(start(b), pc)
              /\ pc > n + 3 /\ pc <= Len(start(b)) => start(b)[pc] # At("start", "geosite")
  <2>1. pc <= n + 2 => Behind(start(b), pc) \subseteq Range(P2(b) \o I)
    <3>1. PICK R : Begins(P2(b) \o I, start(b), R)
      BY <1>7
    <3>2. pc <= Len(P2(b) \o I) + 1 => Behind(start(b), pc) \subseteq Range(P2(b) \o I)
      BY <3>1, BeginsCut
    <3> QED BY <1>4, <1>10, <3>2
  <2>2. pc <= n + 3 => Behind(start(b), pc) \subseteq Range(P2(b) \o G)
    <3>1. PICK R : Begins(P2(b) \o G, start(b), R)
      BY <1>8
    <3>2. pc <= Len(P2(b) \o G) + 1 => Behind(start(b), pc) \subseteq Range(P2(b) \o G)
      BY <3>1, BeginsCut
    <3> QED BY <1>4, <1>10, <3>2
  <2>3. /\ pc > n + 3 => Range(P2(b) \o (G \o C)) \subseteq Behind(start(b), pc)
        /\ pc > n + 3 /\ pc <= Len(start(b)) => start(b)[pc] \in {} \cup HRouter \cup Rest
    BY <1>4, <1>9, <1>10, BeginsCut
  <2> QED BY <1>12, <2>1, <2>2, <2>3
<1> QED BY <1>4, <1>13, <1>14

\* Close, cut behind the inbounds, the outbounds, the router and the services.
C1(b) == Do("close", b.ins)
C2(b) == C1(b) \o Do("close", b.outs)
C3(b) == C2(b) \o Do("close", b.provs) \o RouterClose(b)
C4(b) == C3(b) \o Do("close", b.cache) \o Do("close", b.apis)

K1(b) == Of("close", Range(b.ins))
K2(b) == K1(b) \cup Of("close", Range(b.outs))
KRouter(b) ==
  Of("close", {"rules", "dnsRules", "transports"}) \cup (IF b.geo THEN Of("close", {"geoIP"}) ELSE {})
    \cup Of("close", {"interfaceMonitor", "networkMonitor", "processSearcher", "powerListener", "timeService", "fakeIPStore"})
K3(b) == K2(b) \cup Of("close", Range(b.provs)) \cup KRouter(b)
K4(b) == K3(b) \cup Of("close", Range(b.cache)) \cup Of("close", Range(b.apis))
KClose(b) == K4(b) \cup Of("close", {"log"})

\* What the steps of Close are, from cut to cut.
LEMMA CloseHas ==
  ASSUME NEW b \in LcBoxes
  PROVE  /\ Has(C1(b), K1(b)) /\ Has(C2(b), K2(b)) /\ Has(C3(b), K3(b)) /\ Has(C4(b), K4(b))
         /\ Has(RouterClose(b), KRouter(b)) /\ Has(Close(b), KClose(b))
<1>1. Has(C1(b), K1(b)) /\ Has(C2(b), K2(b))
  BY BoxSequences, DoList, HasRow DEF C1, K1, C2, K2
<1>2. Has(RouterClose(b), KRouter(b))
  <2>1. Has(If(b.geo, Do("close", <<"geoIP">>)), IF b.geo THEN Of("close", {"geoIP"}) ELSE {})
    BY DoList, HasNone DEF If
  <2>2. Has(Do("close", <<"rules", "dnsRules", "transports">>) \o If(b.geo, Do("close", <<"geoIP">>)),
            Of("close", {"rules", "dnsRules", "transports"}) \cup (IF b.geo THEN Of("close", {"geoIP"}) ELSE {}))
    BY <2>1, DoList, HasRow
  <2> QED BY <2>2, DoList, HasRow DEF RouterClose, KRouter
<1>3. Has(C2(b) \o Do("close", b.provs), K2(b) \cup Of("close", Range(b.provs)))
  BY <1>1, BoxSequences, DoList, HasRow
<1>4. Has(C3(b), K3(b))
  BY <1>2, <1>3, HasRow DEF C3, K3
<1>5. Has(C3(b) \o Do("close", b.cache), K3(b) \cup Of("close", Range(b.cache)))
  BY <1>4, BoxSequences, DoList, HasRow
<1>6. Has(C4(b), K4(b))
  BY <1>5, BoxSequences, DoList, HasRow DEF C4, K4
<1>7. Close(b) = C4(b) \o Do("close", <<"log">>)
  BY DEF Close, C4, C3, C2, C1
<1>8. Has(Close(b), KClose(b))
  <2>1. Has(Do("close", <<"log">>), Of("close", {"log"}))
    BY DoList
  <2> QED BY <1>6, <1>7, <2>1, HasRow DEF KClose
<1> QED BY <1>1, <1>2, <1>4, <1>6, <1>8

\* Close begins with each of the cuts.
LEMMA CloseCuts ==
  ASSUME NEW b \in LcBoxes
  PROVE  /\ IsSeq(Close(b)) /\ Len(Close(b)) = Len(C4(b)) + 1
         /\ \E R : Begins(C1(b), Close(b), R)
         /\ \E R : Begins(C2(b), Close(b), R)
         /\ \E R : Begins(C3(b), Close(b), R)
         /\ \E R : Begins(C4(b), Close(b), R)
<1> DEFINE L == Do("close", <<"log">>)
           O == Do("close", b.outs)
           V == Do("close", b.provs)
           S == Do("close", b.cache)
           A == Do("close", b.apis)
<1>1. /\ IsSeq(C1(b)) /\ IsSeq(C2(b)) /\ IsSeq(C3(b)) /\ IsSeq(C4(b)) /\ IsSeq(RouterClose(b)) /\ IsSeq(Close(b))
      /\ IsSeq(L) /\ IsSeq(O) /\ IsSeq(V) /\ IsSeq(S) /\ IsSeq(A) /\ Len(L) = 1
  BY CloseHas, BoxSequences, DoList, DoSteps, List1 DEF Has
<1>2. /\ Close(b) = C4(b) \o L /\ C4(b) = C3(b) \o S \o A /\ C3(b) = C2(b) \o V \o RouterClose(b) /\ C2(b) = C1(b) \o O
  BY DEF Close, C4, C3, C2, C1
<1> HIDE DEF L, O, V, S, A
<1>3. ASSUME NEW u, NEW t, NEW s, IsSeq(t), \E R : Begins(s, u, R) PROVE \E R : Begins(s, u \o t, R)
  <2>1. PICK R : Begins(s, u, R)
    BY <1>3
  <2>2. Begins(s, u \o t, R \cup Range(t))
    BY <1>3, <2>1, BeginsMore
  <2> QED BY <2>2
<1>4. \A s : IsSeq(s) => \E R : Begins(s, s, R)
  BY BeginsSelf
<1>5. \A s : (\E R : Begins(s, C4(b), R)) => \E R : Begins(s, Close(b), R)
  BY <1>1, <1>2, <1>3
<1>6. \A s : (\E R : Begins(s, C3(b), R)) => \E R : Begins(s, C4(b), R)
  BY <1>1, <1>2, <1>3
<1>7. \A s : (\E R : Begins(s, C2(b), R)) => \E R : Begins(s, C3(b), R)
  BY <1>1, <1>2, <1>3
<1>8. \A s : (\E R : Begins(s, C1(b), R)) => \E R : Begins(s, C2(b), R)
  BY <1>1, <1>2, <1>3
<1>9. /\ \E R : Begins(C1(b), C1(b), R)
      /\ \E R : Begins(C2(b), C2(b), R)
      /\ \E R : Begins(C3(b), C3(b), R)
      /\ \E R : Begins(C4(b), C4(b), R)
  BY <1>1, <1>4
<1>10. Len(Close(b)) = Len(C4(b)) + Len(L)
  BY <1>1, <1>2, InARow
<1> QED BY <1>1, <1>5, <1>6, <1>7, <1>8, <1>9, <1>10

-----------------------------------------------------------------------------
(* The orders.                                                               *)

Pcs(b) == 1..(Len(start(b)) + 1)
Closes(b) == 0..(Len(Close(b)) + 1)

\* What is started when something else is.
LEMMA UpOrder ==
  ASSUME NEW b \in LcBoxes, NEW pc \in Pcs(b)
  PROVE  LET up(x) == At("start", x) \in Behind(start(b), pc) IN
         /\ \A x : up(x) => up("log")
         /\ \A x \in Range(b.outs) \cup {"fakeIPStore"} : up(x) => \A k \in Range(b.cache) : up(k)
         /\ \A x \in Range(b.ins) : up(x) =>
              \A k \in Range(b.outs) \cup {"dnsRules", "transports", "fakeIPStore", "log"} : up(k)
         /\ At("ready", "router") \in Behind(start(b), pc) \/ up("powerListener") =>
              \A k \in Range(b.outs) \cup Range(b.provs) : up(k)
<1> DEFINE done == Behind(start(b), pc)
<1>1. Has(P1(b), H1(b)) /\ Has(P2(b), H2(b)) /\ Has(P3(b), H3(b))
  BY StartHas
<1>2. IsSeq(start(b)) /\ Len(P1(b)) \in Nat /\ Len(P2(b)) \in Nat /\ Len(P3(b)) \in Nat /\ Len(start(b)) \in Nat
  BY <1>1, StartCuts, IsSeqDomain DEF Has
<1>3. /\ pc <= Len(P1(b)) => done \subseteq H1(b)
      /\ pc > Len(P1(b)) => H1(b) \subseteq done
  <2>1. PICK R : Begins(P1(b), start(b), R)
    BY StartCuts
  <2> QED BY <1>1, <1>2, <2>1, BeginsCut DEF Has, Pcs
<1>4. /\ pc <= Len(P2(b)) => done \subseteq H2(b)
      /\ pc > Len(P2(b)) => H2(b) \subseteq done
  <2>1. PICK R : Begins(P2(b), start(b), R)
    BY StartCuts
  <2> QED BY <1>1, <1>2, <2>1, BeginsCut DEF Has, Pcs
<1>5. /\ pc <= Len(P3(b)) => done \subseteq H3(b)
      /\ pc > Len(P3(b)) => H3(b) \subseteq done
  <2>1. PICK R : Begins(P3(b), start(b), R)
    BY StartCuts
  <2> QED BY <1>1, <1>2, <2>1, BeginsCut DEF Has, Pcs
<1>6. done \subseteq HStart(b)
  <2>1. Begins(start(b), start(b), {})
    BY <1>2, BeginsSelf
  <2>2. pc <= Len(start(b)) + 1
    BY <1>2 DEF Pcs
  <2>3. done \subseteq Range(start(b))
    BY <2>1, <2>2, BeginsCut DEF Pcs
  <2> QED BY <2>3, StartHas DEF Has
<1>7. /\ BoxParts(b) \cap Fixed = {} /\ Range(b.cache) \subseteq {"cacheFile"}
      /\ Range(b.ins) \cap (Range(b.apis) \cup Range(b.outs) \cup Range(b.provs) \cup Range(b.sets)) = {}
  BY BoxSequences
<1> HIDE DEF done
<1>8. \A x : At("start", x) \in done => At("start", "log") \in done
  <2>1. CASE pc > Len(P1(b))
    BY <1>3, <2>1, OfOne DEF H1
  <2>2. CASE pc <= Len(P1(b))
    <3>1. CASE pc = 1
      BY <1>2, <3>1, Ends DEF done
    <3>2. CASE pc > 1
      <4>1. Begins(Do("start", <<"log">>), P1(b), Range(Do("start", b.cache)))
        <5>1. IsSeq(Do("start", <<"log">>)) /\ IsSeq(Do("start", b.cache))
          BY BoxSequences, DoList DEF Has
        <5>2. Begins(Do("start", <<"log">>), P1(b), {} \cup Range(Do("start", b.cache)))
          BY <5>1, BeginsSelf, BeginsMore DEF P1
        <5> QED BY <5>2
      <4>2. Len(Do("start", <<"log">>)) = 1 /\ Do("start", <<"log">>)[1] = At("start", "log")
        BY List1, DoSteps DEF Do, At
      <4>3. P1(b)[1] = At("start", "log") /\ Len(P1(b)) >= 1
        BY <4>1, <4>2 DEF Begins
      <4>4. PICK R : Begins(P1(b), start(b), R)
        BY StartCuts
      <4>5. start(b)[1] = At("start", "log")
        BY <1>2, <4>3, <4>4 DEF Begins
      <4> QED BY <1>2, <3>2, <4>5 DEF done, Behind, Pcs
    <3> QED BY <3>1, <3>2 DEF Pcs
  <2> QED BY <1>2, <2>1, <2>2 DEF Pcs
<1>9. \A x \in Range(b.outs) \cup {"fakeIPStore"} : At("start", x) \in done =>
        \A k \in Range(b.cache) : At("start", k) \in done
  <2>1. CASE pc > Len(P1(b))
    BY <1>3, <2>1, OfOne DEF H1
  <2>2. CASE pc <= Len(P1(b))
    BY <1>3, <1>7, <2>2, OfOne DEF H1, BoxParts, Fixed
  <2> QED BY <1>2, <2>1, <2>2 DEF Pcs
<1>10. \A x \in Range(b.ins) : At("start", x) \in done =>
         \A k \in Range(b.outs) \cup {"dnsRules", "transports", "fakeIPStore", "log"} : At("start", k) \in done
  <2>1. CASE pc > Len(P3(b))
    BY <1>5, <2>1, OfOne DEF H3, H2, H1, HRouter
  <2>2. CASE pc <= Len(P3(b))
    <3>1. ASSUME NEW x \in Range(b.ins) PROVE At("start", x) \notin H3(b)
      BY <1>7, OfOne DEF H3, H2, H1, HGeo, HRouter, BoxParts, Fixed
    <3> QED BY <1>5, <2>2, <3>1
  <2> QED BY <1>2, <2>1, <2>2 DEF Pcs
<1>11. At("ready", "router") \in done \/ At("start", "powerListener") \in done =>
         \A k \in Range(b.outs) \cup Range(b.provs) : At("start", k) \in done
  <2>1. CASE pc > Len(P2(b))
    BY <1>4, <2>1, OfOne DEF H2
  <2>2. CASE pc <= Len(P2(b))
    <3>1. At("ready", "router") \notin H2(b) /\ At("start", "powerListener") \notin H2(b)
      BY <1>7, OfOne DEF H2, H1, BoxParts, Fixed
    <3> QED BY <1>4, <2>2, <3>1
  <2> QED BY <1>2, <2>1, <2>2 DEF Pcs
<1> QED BY <1>8, <1>9, <1>10, <1>11 DEF done

\* What is closed when something else is not yet; the log is the last.
LEMMA DownOrder ==
  ASSUME NEW b \in LcBoxes, NEW j \in Closes(b)
  PROVE  LET down(x) == At("close", x) \in Behind(Close(b), j) IN
         /\ \A x \in Range(b.ins) : ~down(x) =>
              \A k \in Range(b.outs) \cup {"dnsRules", "transports", "fakeIPStore", "log"} : ~down(k)
         /\ \A x \in Range(b.outs) \cup {"fakeIPStore"} : ~down(x) => \A k \in Range(b.cache) : ~down(k)
         /\ down("log") => j = Len(Close(b)) + 1
<1> DEFINE gone == Behind(Close(b), j)
<1>1. Has(C1(b), K1(b)) /\ Has(C2(b), K2(b)) /\ Has(C3(b), K3(b)) /\ Has(C4(b), K4(b))
  BY CloseHas
<1>2. /\ IsSeq(Close(b)) /\ Len(Close(b)) = Len(C4(b)) + 1 /\ Len(Close(b)) \in Nat
      /\ Len(C1(b)) \in Nat /\ Len(C2(b)) \in Nat /\ Len(C3(b)) \in Nat /\ Len(C4(b)) \in Nat
  BY <1>1, CloseCuts, IsSeqDomain DEF Has
<1>3. CASE j = 0
  <2>1. gone = {}
    BY <1>3 DEF Behind
  <2> QED BY <2>1
<1>4. CASE j # 0
  <2>0. j \in 1..(Len(Close(b)) + 1)
    BY <1>2, <1>4 DEF Closes
  <2>1. /\ j <= Len(C1(b)) => gone \subseteq K1(b)
        /\ j > Len(C1(b)) => K1(b) \subseteq gone
    <3>1. PICK R : Begins(C1(b), Close(b), R)
      BY CloseCuts
    <3> QED BY <1>1, <1>2, <2>0, <3>1, BeginsCut DEF Has
  <2>2. /\ j <= Len(C2(b)) => gone \subseteq K2(b)
        /\ j > Len(C2(b)) => K2(b) \subseteq gone
    <3>1. PICK R : Begins(C2(b), Close(b), R)
      BY CloseCuts
    <3> QED BY <1>1, <1>2, <2>0, <3>1, BeginsCut DEF Has
  <2>3. /\ j <= Len(C3(b)) => gone \subseteq K3(b)
        /\ j > Len(C3(b)) => K3(b) \subseteq gone
    <3>1. PICK R : Begins(C3(b), Close(b), R)
      BY CloseCuts
    <3> QED BY <1>1, <1>2, <2>0, <3>1, BeginsCut DEF Has
  <2>4. j <= Len(C4(b)) + 1 => gone \subseteq K4(b)
    <3>1. PICK R : Begins(C4(b), Close(b), R)
      BY CloseCuts
    <3> QED BY <1>1, <1>2, <2>0, <3>1, BeginsCut DEF Has
  <2>5. /\ BoxParts(b) \cap Fixed = {} /\ Range(b.cache) \subseteq {"cacheFile"}
        /\ Range(b.ins) \cap Range(b.outs) = {}
        /\ Range(b.outs) \cap Range(b.provs) = {}
    BY BoxSequences
  <2> HIDE DEF gone
  <2>6. ASSUME NEW x \in Range(b.ins), At("close", x) \notin gone,
               NEW k \in Range(b.outs) \cup {"dnsRules", "transports", "fakeIPStore", "log"}
        PROVE  At("close", k) \notin gone
    <3>1. j <= Len(C1(b))
      BY <1>2, <2>0, <2>1, <2>6, OfOne DEF K1
    <3>2. k \notin Range(b.ins)
      BY <2>5 DEF BoxParts, Fixed
    <3> QED BY <2>1, <3>1, <3>2, OfOne DEF K1
  <2>7. ASSUME NEW x \in Range(b.outs) \cup {"fakeIPStore"}, At("close", x) \notin gone,
               NEW k \in Range(b.cache)
        PROVE  At("close", k) \notin gone
    <3>1. k = "cacheFile" /\ k \notin BoxParts(b)
      BY <2>5 DEF Fixed
    <3>2. At("close", k) \notin K3(b)
      BY <3>1, OfOne DEF K3, K2, K1, KRouter, BoxParts
    <3>3. At("close", x) \in K3(b)
      BY OfOne DEF K3, K2, KRouter
    <3> QED BY <1>2, <2>0, <2>3, <2>7, <3>2, <3>3
  <2>8. At("close", "log") \in gone => j = Len(Close(b)) + 1
    <3>1. At("close", "log") \notin K4(b)
      BY <2>5, OfOne DEF K4, K3, K2, K1, KRouter, BoxParts, Fixed
    <3> QED BY <1>2, <2>0, <2>4, <3>1
  <2> QED BY <2>6, <2>7, <2>8 DEF gone
<1> QED BY <1>3, <1>4

\* Start closes nothing but the geosite database, which it has opened and does
\* not open again; what it starts is closed by Close, or by nothing.
LEMMA StartsAndCloses ==
  ASSUME NEW b \in LcBoxes
  PROVE  /\ \A x : At("close", x) \in HStart(b) => b.geo /\ x = "geosite"
         /\ \A x : At("start", x) \in HStart(b) =>
              x \in Unclosed(b) \/ (b.geo /\ x = "geosite") \/ At("close", x) \in KClose(b)
         /\ At("close", "geosite") \notin KClose(b)
         /\ At("ready", "router") \in HStart(b)
         /\ \A x \in Range(b.ins) : At("start", x) \in HStart(b)
<1>0. BoxParts(b) \cap Fixed = {} /\ Range(b.cache) \subseteq {"cacheFile"}
  BY BoxSequences
<1>1. \A x : At("close", x) \in HStart(b) => b.geo /\ x = "geosite"
  BY OfOne DEF HStart, H3, H2, H1, HGeo, HRouter, HPost
<1>2. ASSUME NEW x, At("start", x) \in HStart(b)
      PROVE  x \in Unclosed(b) \/ (b.geo /\ x = "geosite") \/ At("close", x) \in KClose(b)
  <2>1. \/ x \in {"log", "interfaceMonitor", "networkMonitor", "fakeIPStore", "powerListener", "dnsClient", "dnsRules",
                  "sniffRules", "transports", "timeService", "processSearcher", "rules"}
        \/ x \in Range(b.cache) \cup Range(b.provs) \cup Range(b.outs) \cup Range(b.apis) \cup Range(b.ins)
        \/ x \in Range(b.sets)
        \/ b.geo /\ x \in {"geoIP", "geosite"}
    BY <1>2, OfOne DEF HStart, H3, H2, H1, HGeo, HRouter, HPost
  <2> QED BY <2>1, OfOne DEF Unclosed, KClose, K4, K3, K2, K1, KRouter
<1>3. At("close", "geosite") \notin KClose(b)
  BY <1>0, OfOne DEF KClose, K4, K3, K2, K1, KRouter, BoxParts, Fixed
<1>4. At("ready", "router") \in HStart(b)
  BY OfOne DEF HStart, HPost
<1>5. \A x \in Range(b.ins) : At("start", x) \in HStart(b)
  BY OfOne DEF HStart
<1> QED BY <1>1, <1>2, <1>3, <1>4, <1>5

-----------------------------------------------------------------------------
(* The inductive invariant.  The sets of what is up and down are read off    *)
(* the places of Start and Close; a Close that met a running Start leaves    *)
(* only the first half of that.                                              *)

Runs ==
  [at : {"create", "starting", "wait", "reload", "stop", "ended", "fatal"}, chan : {"none", "TERM", "HUP"}, sent : Nat,
   cancelled : BOOLEAN, armed : BOOLEAN, hung : BOOLEAN]

Types ==
  /\ lcBox \in LcBoxes /\ lcPc \in Pcs(lcBox) /\ lcClose \in Closes(lcBox)
  /\ lcStart \in {"no", "running", "ok", "error"}
  /\ lcReady \in BOOLEAN /\ lcMeet \in BOOLEAN /\ lcRun \in Runs

\* Where Start is.
PlaceOfStart ==
  /\ lcStart = "no" => lcPc = 1 /\ lcClose = 0
  /\ lcStart = "running" => lcPc \in 1..Len(start(lcBox))
  /\ lcStart = "ok" => lcPc = Len(start(lcBox)) + 1
  /\ lcStart = "error" => lcPc \in 1..Len(start(lcBox)) /\ CanFail(lcBox, start(lcBox)[lcPc])
  /\ ~lcMeet /\ lcClose # 0 => lcStart \in {"ok", "error"}

UpIsBehind == \A x : x \in lcUp <=> At("start", x) \in Behind(start(lcBox), lcPc)
ReadyIsBehind == lcReady <=> At("ready", "router") \in Behind(start(lcBox), lcPc)
DownIsBehind ==
  ~lcMeet => \A x : x \in lcDown <=>
    At("close", x) \in Behind(start(lcBox), lcPc) \/ At("close", x) \in Behind(Close(lcBox), lcClose)

\* Where run() is.
PlaceOfRun ==
  /\ lcBox.driver = "run" => ~lcMeet
  /\ lcBox.driver # "run" => lcRun.at = "create" /\ ~Hung
  /\ lcRun.at = "starting" => lcStart # "no" /\ (lcStart # "error" => lcClose = 0)
  /\ lcRun.at = "wait" => lcStart = "ok" /\ lcClose = 0
  /\ lcRun.at \in {"reload", "stop"} => lcStart = "ok"
  /\ lcRun.at = "create" /\ lcBox.driver = "run" => lcStart = "no" \/ (lcStart = "ok" /\ Closed)
  /\ lcRun.at = "ended" => lcStart = "no" \/ (lcStart \in {"ok", "error"} /\ Closed)

LcInv == Types /\ PlaceOfStart /\ UpIsBehind /\ ReadyIsBehind /\ DownIsBehind /\ PlaceOfRun /\ ResetOnlyStarted

\* Start and Close have steps.
LEMMA Lengths ==
  ASSUME NEW b \in LcBoxes
  PROVE  /\ IsSeq(start(b)) /\ Len(start(b)) \in Nat /\ Len(start(b)) >= 1 /\ Range(start(b)) = HStart(b)
         /\ IsSeq(Close(b)) /\ Len(Close(b)) \in Nat /\ Len(Close(b)) >= 1 /\ Range(Close(b)) = KClose(b)
<1>1. IsSeq(start(b)) /\ Range(start(b)) = HStart(b) /\ IsSeq(Close(b)) /\ Range(Close(b)) = KClose(b)
  BY StartHas, CloseHas DEF Has
<1>2. At("start", "log") \in HStart(b) /\ At("close", "log") \in KClose(b)
  BY OfOne DEF HStart, H3, H2, H1, KClose
<1>3. Len(start(b)) \in Nat /\ DOMAIN start(b) = 1..Len(start(b)) /\ Len(Close(b)) \in Nat /\ DOMAIN Close(b) = 1..Len(Close(b))
  BY <1>1, IsSeqDomain
<1>4. Len(start(b)) # 0 /\ Len(Close(b)) # 0
  BY <1>1, <1>2, <1>3 DEF Range
<1> QED BY <1>1, <1>3, <1>4

\* A step is an operation on a component.
LEMMA StepOf ==
  ASSUME NEW b \in LcBoxes
  PROVE  /\ \A pc \in 1..Len(start(b)) : start(b)[pc] \in HStart(b) /\ start(b)[pc] = At(start(b)[pc].op, start(b)[pc].c)
         /\ \A j \in 1..Len(Close(b)) : Close(b)[j] \in KClose(b) /\ Close(b)[j] = At("close", Close(b)[j].c)
<1>1. \A pc \in 1..Len(start(b)) : start(b)[pc] \in HStart(b)
  BY Lengths, IsSeqDomain DEF Range
<1>2. \A j \in 1..Len(Close(b)) : Close(b)[j] \in KClose(b)
  BY Lengths, IsSeqDomain DEF Range
<1>3. \A s \in HStart(b) : s = At(s.op, s.c)
  BY DEF HStart, H3, H2, H1, HGeo, HRouter, HPost, Of, At
<1>4. \A s \in KClose(b) : s = At("close", s.c)
  BY DEF KClose, K4, K3, K2, K1, KRouter, Of, At
<1> QED BY <1>1, <1>2, <1>3, <1>4

\* Two steps are the same when their operation and their component are.
LEMMA AtOne == \A op, c, q, d : At(op, c) = At(q, d) <=> op = q /\ c = d
BY DEF At

\* The invariant holds of a box that was just created.
LEMMA LcInitInv == LcInit => LcInv
<1> SUFFICES ASSUME NEW b \in LcBoxes, LcStart(b, "create") PROVE LcInv
  BY DEF LcInit
<1>1. Behind(start(b), 1) = {} /\ Behind(Close(b), 0) = {}
  BY Lengths, Ends DEF Behind
<1>2. Types
  <2>1. lcRun \in Runs
    BY DEF LcStart, Runs
  <2>2. lcBox \in LcBoxes /\ lcPc \in Pcs(lcBox) /\ lcClose \in Closes(lcBox)
    BY Lengths DEF LcStart, Pcs, Closes
  <2> QED BY <2>1, <2>2 DEF Types, LcStart
<1> QED BY <1>1, <1>2 DEF LcInv, LcStart, PlaceOfStart, UpIsBehind, ReadyIsBehind, DownIsBehind, PlaceOfRun, Hung, ResetOnlyStarted

\* A step of Start.
LEMMA StartStepInv == ASSUME LcInv, StartStep PROVE LcInv'
<1> DEFINE b == lcBox
           step == start(b)[lcPc]
<1>0. Types /\ PlaceOfStart /\ UpIsBehind /\ ReadyIsBehind /\ DownIsBehind /\ PlaceOfRun /\ ResetOnlyStarted
  BY DEF LcInv
<1>1. /\ b \in LcBoxes /\ lcPc \in 1..Len(start(b)) /\ lcBox' = b /\ lcPc' = lcPc + 1 /\ lcClose' = lcClose
      /\ lcMeet' = lcMeet /\ lcRun' = lcRun /\ lcReset' = lcReset /\ lcStart = "running"
  BY <1>0 DEF StartStep, PlaceOfStart, Types
<1>2. /\ IsSeq(start(b)) /\ Len(start(b)) \in Nat /\ Len(Close(b)) \in Nat
      /\ step \in HStart(b) /\ step = At(step.op, step.c)
  BY <1>1, Lengths, StepOf
<1>3. Behind(start(b), lcPc + 1) = Behind(start(b), lcPc) \cup {step}
  BY <1>1, <1>2, Advance
<1>4. Types'
  <2>1. lcPc' \in Pcs(b)
    BY <1>1, <1>2 DEF Pcs
  <2>2. lcStart' \in {"ok", "running"} /\ lcReady' \in BOOLEAN
    BY DEF StartStep
  <2> QED BY <1>0, <1>1, <2>1, <2>2 DEF Types, Runs, Closes
<1>5. PlaceOfStart'
  <2>1. lcStart' = IF lcPc = Len(start(b)) THEN "ok" ELSE "running"
    BY DEF StartStep
  <2> QED BY <1>0, <1>1, <1>2, <2>1 DEF PlaceOfStart
<1>6. UpIsBehind'
  <2>1. lcUp' = IF step.op = "start" THEN lcUp \cup {step.c} ELSE lcUp
    BY DEF StartStep
  <2>2. ASSUME NEW x PROVE x \in lcUp' <=> At("start", x) \in Behind(start(b), lcPc) \/ At("start", x) = step
    BY <1>0, <1>2, <2>1, AtOne DEF UpIsBehind
  <2> QED BY <1>1, <1>3, <2>2 DEF UpIsBehind
<1>7. ReadyIsBehind'
  <2>1. lcReady' = (lcReady \/ step.op = "ready")
    BY DEF StartStep
  <2>2. step.op = "ready" <=> step = At("ready", "router")
    <3>1. \A c : At("ready", c) \in HStart(b) => c = "router"
      BY OfOne DEF HStart, H3, H2, H1, HGeo, HRouter, HPost
    <3> QED BY <1>2, <3>1, AtOne
  <2> QED BY <1>0, <1>1, <1>3, <2>1, <2>2 DEF ReadyIsBehind
<1>8. DownIsBehind'
  <2> SUFFICES ASSUME ~lcMeet, NEW x
               PROVE  x \in lcDown' <=> \/ At("close", x) \in Behind(start(b), lcPc) \/ At("close", x) = step
                                        \/ At("close", x) \in Behind(Close(b), lcClose)
    BY <1>1, <1>3 DEF DownIsBehind
  <2>0. lcClose = 0
    BY <1>0, <1>1 DEF PlaceOfStart
  <2>1. x \in lcDown <=> At("close", x) \in Behind(start(b), lcPc)
    BY <1>0, <2>0 DEF DownIsBehind, Behind
  <2>2. Behind(Close(b), lcClose) = {}
    BY <2>0 DEF Behind
  <2>3. CASE step.op = "start"
    <3>1. lcDown' = lcDown \ {step.c}
      BY <2>3 DEF StartStep
    <3>2. At("close", x) # step
      BY <1>2, <2>3, AtOne
    <3>3. ASSUME x = step.c, At("close", x) \in Behind(start(b), lcPc) PROVE FALSE
      <4>1. At("close", x) \in HStart(b)
        <5>1. \A i \in 1..(lcPc - 1) : start(b)[i] \in HStart(b)
          BY <1>1, <1>2, StepOf
        <5> QED BY <3>3, <5>1 DEF Behind
      <4>2. b.geo /\ x = "geosite"
        BY <1>1, <4>1, StartsAndCloses
      <4>3. PICK n \in Nat :
              \A pc \in 1..(Len(start(b)) + 1) :
                /\ pc <= n + 3 => At("close", "geosite") \notin Behind(start(b), pc)
                /\ pc > n + 3 /\ pc <= Len(start(b)) => start(b)[pc] # At("start", "geosite")
        BY <1>1, <4>2, GeoCuts
      <4>4. lcPc > n + 3
        BY <1>1, <1>2, <3>3, <4>2, <4>3
      <4>5. step # At("start", "geosite")
        BY <1>1, <1>2, <4>3, <4>4
      <4> QED BY <1>2, <2>3, <3>3, <4>2, <4>5
    <3> QED BY <2>1, <2>2, <3>1, <3>2, <3>3
  <2>4. CASE step.op = "close"
    <3>1. lcDown' = lcDown \cup {step.c}
      BY <2>4 DEF StartStep
    <3>2. At("close", x) = step <=> x = step.c
      BY <1>2, <2>4, AtOne
    <3> QED BY <2>1, <2>2, <3>1, <3>2
  <2>5. CASE step.op \notin {"start", "close"}
    <3>1. lcDown' = lcDown
      BY <2>5 DEF StartStep
    <3>2. At("close", x) # step
      BY <1>2, <2>5, AtOne
    <3> QED BY <2>1, <2>2, <3>1, <3>2
  <2> QED BY <2>3, <2>4, <2>5
<1>9. PlaceOfRun'
  <2>1. lcStart' \in {"ok", "running"}
    BY DEF StartStep
  <2> QED BY <1>0, <1>1, <2>1 DEF PlaceOfRun, Hung, Closed
<1>10. ResetOnlyStarted'
  <2>1. lcUp \subseteq lcUp'
    BY DEF StartStep
  <2> QED BY <1>0, <1>1, <2>1 DEF ResetOnlyStarted
<1> QED BY <1>4, <1>5, <1>6, <1>7, <1>8, <1>9, <1>10 DEF LcInv

\* A step of Close.
LEMMA CloseStepInv == ASSUME LcInv, CloseStep PROVE LcInv'
<1> DEFINE b == lcBox
           step == Close(b)[lcClose]
<1>0. Types /\ PlaceOfStart /\ UpIsBehind /\ ReadyIsBehind /\ DownIsBehind /\ PlaceOfRun /\ ResetOnlyStarted
  BY DEF LcInv
<1>1. /\ b \in LcBoxes /\ lcClose \in 1..Len(Close(b)) /\ lcBox' = b /\ lcPc' = lcPc /\ lcClose' = lcClose + 1
      /\ lcMeet' = lcMeet /\ lcRun' = lcRun /\ lcReset' = lcReset /\ lcStart' = lcStart /\ lcUp' = lcUp
      /\ lcReady' = lcReady /\ lcDown' = lcDown \cup {step.c}
  BY <1>0 DEF CloseStep, Types
<1>2. IsSeq(Close(b)) /\ Len(Close(b)) \in Nat /\ step = At("close", step.c)
  BY <1>1, Lengths, StepOf
<1>3. Behind(Close(b), lcClose + 1) = Behind(Close(b), lcClose) \cup {step}
  BY <1>1, <1>2, Advance
<1>4. Types'
  <2>1. lcClose' \in Closes(b)
    BY <1>1, <1>2 DEF Closes
  <2> QED BY <1>0, <1>1, <2>1 DEF Types
<1>5. PlaceOfStart'
  BY <1>0, <1>1, <1>2 DEF PlaceOfStart
<1>6. DownIsBehind'
  <2>1. ASSUME NEW x PROVE At("close", x) = step <=> x = step.c
    BY <1>2, AtOne
  <2> QED BY <1>0, <1>1, <1>3, <2>1 DEF DownIsBehind
<1>7. PlaceOfRun'
  <2>1. lcStart # "no" /\ lcClose # 0 /\ ~Closed
    BY <1>0, <1>1, <1>2 DEF PlaceOfStart, Closed
  <2> QED BY <1>0, <1>1, <1>2, <2>1 DEF PlaceOfRun, Hung, Closed
<1>8. UpIsBehind' /\ ReadyIsBehind' /\ ResetOnlyStarted'
  BY <1>0, <1>1 DEF UpIsBehind, ReadyIsBehind, ResetOnlyStarted
<1> QED BY <1>4, <1>5, <1>6, <1>7, <1>8 DEF LcInv

\* Close is called: by Start that failed, by the app, by run().
LEMMA ShutDownInv ==
  ASSUME LcInv, NEW met \in BOOLEAN, ShutDown(met), UNCHANGED <<lcBox, lcPc, lcUp, lcDown, lcReady>>
  PROVE  /\ lcClose' \in Closes(lcBox) /\ lcClose' # 0 /\ (lcClose # 0 => lcClose' = lcClose) /\ lcMeet' \in BOOLEAN
         /\ UpIsBehind' /\ ReadyIsBehind' /\ DownIsBehind'
<1>0. Types /\ UpIsBehind /\ ReadyIsBehind /\ DownIsBehind
  BY DEF LcInv
<1>1. lcBox \in LcBoxes /\ Len(Close(lcBox)) \in Nat /\ IsSeq(Close(lcBox)) /\ lcClose \in Closes(lcBox)
  BY <1>0, Lengths DEF Types
<1>2. lcClose' \in Closes(lcBox) /\ lcClose' # 0 /\ (lcClose # 0 => lcClose' = lcClose) /\ lcMeet' \in BOOLEAN /\ (~lcMeet' => ~lcMeet)
  BY <1>0, <1>1 DEF ShutDown, Closes, Types
<1>3. Behind(Close(lcBox), lcClose') = Behind(Close(lcBox), lcClose)
  <2>1. Behind(Close(lcBox), 0) = Behind(Close(lcBox), 1)
    BY <1>1, Ends DEF Behind
  <2> QED BY <2>1 DEF ShutDown
<1>4. UpIsBehind' /\ ReadyIsBehind'
  BY <1>0 DEF UpIsBehind, ReadyIsBehind
<1>5. DownIsBehind'
  BY <1>0, <1>2, <1>3 DEF DownIsBehind
<1> QED BY <1>2, <1>4, <1>5

\* Nothing of the box changes, and run() goes on in it.
LEMMA RunInv ==
  ASSUME LcInv, UNCHANGED <<lcBox, lcPc, lcStart, lcClose, lcUp, lcDown, lcReady, lcMeet>>,
         lcRun' \in Runs, PlaceOfRun', ResetOnlyStarted'
  PROVE  LcInv'
<1>1. Types' /\ PlaceOfStart' /\ UpIsBehind' /\ ReadyIsBehind'
  BY DEF LcInv, Types, PlaceOfStart, UpIsBehind, ReadyIsBehind
<1>2. DownIsBehind'
  BY DEF LcInv, DownIsBehind
<1> QED BY <1>1, <1>2 DEF LcInv

\* Every step keeps the invariant.
LEMMA LcStepInv == LcInv /\ [LcNext]_lcVars => LcInv'
<1> SUFFICES ASSUME LcInv, [LcNext]_lcVars PROVE LcInv'
  OBVIOUS
<1>0. Types /\ PlaceOfStart /\ UpIsBehind /\ ReadyIsBehind /\ DownIsBehind /\ PlaceOfRun /\ ResetOnlyStarted
  BY DEF LcInv
<1>00. /\ lcBox \in LcBoxes /\ IsSeq(start(lcBox)) /\ Len(start(lcBox)) \in Nat /\ Len(start(lcBox)) >= 1
       /\ Len(Close(lcBox)) \in Nat /\ lcClose \in Closes(lcBox)
  BY <1>0, Lengths DEF Types
<1>1. CASE StartStep
  BY <1>1, StartStepInv
<1>2. CASE CloseStep
  BY <1>2, CloseStepInv
<1>3. CASE StartFails
  <2>1. /\ lcStart = "running" /\ lcStart' = "error" /\ CanFail(lcBox, start(lcBox)[lcPc]) /\ ShutDown(FALSE)
        /\ UNCHANGED <<lcBox, lcPc, lcUp, lcDown, lcReady>> /\ lcRun' = lcRun /\ lcReset' = lcReset /\ lcMeet' = lcMeet
    BY <1>0, <1>3 DEF StartFails, ShutDown, Types
  <2>2. lcClose' \in Closes(lcBox) /\ UpIsBehind' /\ ReadyIsBehind' /\ DownIsBehind'
    BY <2>1, ShutDownInv
  <2>3. Types'
    BY <1>0, <2>1, <2>2 DEF Types
  <2>4. PlaceOfStart'
    BY <1>0, <2>1 DEF PlaceOfStart, CanFail
  <2>5. PlaceOfRun' /\ ResetOnlyStarted'
    BY <1>0, <2>1 DEF PlaceOfRun, ResetOnlyStarted, Hung
  <2> QED BY <2>2, <2>3, <2>4, <2>5 DEF LcInv
<1>4. CASE create
  <2>1. CASE lcPc' = 1 /\ lcStart' = "running" /\ lcClose' = 0 /\ lcUp' = {} /\ lcDown' = {} /\ lcReady' = FALSE /\ lcReset' = {}
             /\ lcRun' = [lcRun EXCEPT !.at = "starting", !.cancelled = FALSE, !.armed = FALSE]
    <3>1. lcBox' = lcBox /\ lcBox.driver = "run" /\ lcMeet' = lcMeet
      BY <1>4 DEF create
    <3>2. lcRun' \in Runs /\ lcRun'.at = "starting"
      BY <1>0, <2>1 DEF Types, Runs
    <3>3. Behind(start(lcBox), 1) = {} /\ Behind(Close(lcBox), 0) = {}
      BY <1>00, Ends DEF Behind
    <3>4. Types'
      <4>1. 1 \in Pcs(lcBox) /\ 0 \in Closes(lcBox)
        BY <1>00 DEF Pcs, Closes
      <4> QED BY <1>0, <2>1, <3>1, <3>2, <4>1 DEF Types
    <3>5. PlaceOfStart' /\ UpIsBehind' /\ ReadyIsBehind' /\ DownIsBehind'
      BY <1>0, <1>00, <2>1, <3>1, <3>3 DEF PlaceOfStart, UpIsBehind, ReadyIsBehind, DownIsBehind
    <3>6. PlaceOfRun' /\ ResetOnlyStarted'
      BY <1>0, <2>1, <3>1, <3>2 DEF PlaceOfRun, ResetOnlyStarted, Hung
    <3> QED BY <3>4, <3>5, <3>6 DEF LcInv
  <2>2. CASE lcRun' = [lcRun EXCEPT !.at = "ended"] /\ UNCHANGED <<lcPc, lcStart, lcClose, lcUp, lcDown, lcReady, lcReset>>
    <3>1. lcRun' \in Runs /\ lcRun'.at = "ended"
      BY <1>0, <2>2 DEF Types, Runs
    <3>2. PlaceOfRun' /\ ResetOnlyStarted'
      BY <1>0, <1>4, <2>2, <3>1 DEF create, PlaceOfRun, ResetOnlyStarted, Closed, Hung
    <3> QED BY <1>4, <2>2, <3>1, <3>2, RunInv DEF create
  <2> QED BY <1>4, <2>1, <2>2 DEF create
<1>5. CASE Created
  <2>1. lcRun' \in Runs /\ lcRun'.at = IF lcStart = "ok" THEN "wait" ELSE "ended"
    BY <1>0, <1>5 DEF Created, Types, Runs
  <2>2. PlaceOfRun' /\ ResetOnlyStarted'
    BY <1>0, <1>5, <2>1 DEF Created, Starting, PlaceOfRun, ResetOnlyStarted, Closed, Types, Hung
  <2> QED BY <1>5, <2>1, <2>2, RunInv DEF Created
<1>6. CASE TakeSignal
  <2>0. lcRun.at = "wait" /\ lcBox.driver = "run" /\ lcStart = "ok" /\ lcClose = 0 /\ ~lcMeet
    BY <1>0, <1>6 DEF TakeSignal, PlaceOfRun, Hung
  <2>1. CASE lcRun' = [lcRun EXCEPT !.chan = "none"] /\ UNCHANGED <<lcClose, lcMeet>>
    <3>1. lcRun' \in Runs /\ lcRun'.at = lcRun.at
      BY <1>0, <2>1 DEF Types, Runs
    <3>2. PlaceOfRun' /\ ResetOnlyStarted'
      BY <1>0, <1>6, <2>0, <2>1, <3>1 DEF TakeSignal, PlaceOfRun, ResetOnlyStarted, Closed, Hung
    <3> QED BY <1>6, <2>1, <3>1, <3>2, RunInv DEF TakeSignal
  <2>2. CASE /\ lcRun' = [lcRun EXCEPT !.chan = "none", !.at = IF lcRun.chan = "HUP" THEN "reload" ELSE "stop",
                                       !.cancelled = TRUE, !.armed = TRUE]
             /\ ShutDown(FALSE)
    <3>1. lcRun' \in Runs /\ lcRun'.at \in {"reload", "stop"}
      BY <1>0, <2>2 DEF Types, Runs
    <3>2. UNCHANGED <<lcBox, lcPc, lcUp, lcDown, lcReady>> /\ lcStart' = lcStart /\ lcReset' = lcReset /\ lcMeet' = lcMeet
      BY <1>0, <1>6, <2>2 DEF TakeSignal, ShutDown, Types
    <3>3. lcClose' \in Closes(lcBox) /\ UpIsBehind' /\ ReadyIsBehind' /\ DownIsBehind'
      BY <2>2, <3>2, ShutDownInv
    <3>4. Types'
      BY <1>0, <3>1, <3>2, <3>3 DEF Types
    <3>5. PlaceOfStart'
      BY <1>0, <2>0, <3>2 DEF PlaceOfStart
    <3>6. PlaceOfRun' /\ ResetOnlyStarted'
      BY <1>0, <2>0, <3>1, <3>2 DEF PlaceOfRun, ResetOnlyStarted, Hung
    <3> QED BY <3>3, <3>4, <3>5, <3>6 DEF LcInv
  <2> QED BY <1>6, <2>1, <2>2 DEF TakeSignal

<1>7. CASE run
  <2>1. lcRun' \in Runs /\ lcRun'.at \in {"create", "ended"}
    BY <1>0, <1>7 DEF run, Types, Runs
  <2>2. PlaceOfRun' /\ ResetOnlyStarted'
    BY <1>0, <1>7, <2>1 DEF run, PlaceOfRun, ResetOnlyStarted, Closed, Hung
  <2> QED BY <1>7, <2>1, <2>2, RunInv DEF run
<1>8. CASE closeMonitor
  <2>1. lcRun' \in Runs /\ lcRun'.at = "fatal"
    BY <1>0, <1>8 DEF closeMonitor, Types, Runs
  <2>2. lcBox.driver = "run"
    <3>1. Hung => lcBox.driver = "run"
      BY <1>0 DEF PlaceOfRun, Hung
    <3> QED BY <1>8, <3>1 DEF closeMonitor
  <2>3. PlaceOfRun' /\ ResetOnlyStarted'
    BY <1>0, <1>8, <2>1, <2>2 DEF closeMonitor, PlaceOfRun, ResetOnlyStarted, Closed, Hung
  <2> QED BY <1>8, <2>1, <2>3, RunInv DEF closeMonitor
<1>9. CASE AppStart
  <2>1. /\ lcBox.driver # "run" /\ lcStart = "no" /\ lcStart' = "running"
        /\ UNCHANGED <<lcBox, lcPc, lcClose, lcUp, lcDown, lcReady, lcReset, lcMeet, lcRun>>
    BY <1>9 DEF AppStart
  <2>2. Types' /\ UpIsBehind' /\ ReadyIsBehind' /\ DownIsBehind' /\ ResetOnlyStarted'
    BY <1>0, <2>1 DEF Types, UpIsBehind, ReadyIsBehind, DownIsBehind, ResetOnlyStarted
  <2>3. PlaceOfStart' /\ PlaceOfRun'
    BY <1>0, <1>00, <2>1 DEF PlaceOfStart, PlaceOfRun, Hung
  <2> QED BY <2>2, <2>3 DEF LcInv
<1>10. CASE AppClose
  <2>1. /\ lcBox.driver # "run" /\ lcStart # "no" /\ ShutDown(lcStart = "running") /\ lcStart' = lcStart
        /\ UNCHANGED <<lcBox, lcPc, lcUp, lcDown, lcReady>> /\ lcReset' = lcReset /\ lcRun' = lcRun
        /\ lcMeet' = (lcMeet \/ lcStart = "running")
    BY <1>10 DEF AppClose, ShutDown
  <2>2. lcClose' \in Closes(lcBox) /\ lcMeet' \in BOOLEAN /\ UpIsBehind' /\ ReadyIsBehind' /\ DownIsBehind'
    BY <2>1, ShutDownInv
  <2>3. Types' /\ ResetOnlyStarted'
    BY <1>0, <2>1, <2>2 DEF Types, ResetOnlyStarted
  <2>4. PlaceOfStart'
    BY <1>0, <2>1 DEF PlaceOfStart, Types
  <2>5. PlaceOfRun'
    BY <1>0, <2>1 DEF PlaceOfRun, Hung
  <2> QED BY <2>2, <2>3, <2>4, <2>5 DEF LcInv
<1>11. CASE Hang
  <2>1. lcRun' \in Runs /\ lcRun'.at = lcRun.at
    BY <1>0, <1>11 DEF Hang, Types, Runs
  <2>2. PlaceOfRun' /\ ResetOnlyStarted'
    BY <1>0, <1>11, <2>1 DEF Hang, PlaceOfRun, ResetOnlyStarted, Closed, Hung
  <2> QED BY <1>11, <2>1, <2>2, RunInv DEF Hang
<1>12. ASSUME NEW sig \in {"TERM", "HUP"}, Signal(sig) PROVE LcInv'
  <2>1. lcRun' \in Runs /\ lcRun'.at = lcRun.at
    <3>1. /\ lcRun.sent + 1 \in Nat
          /\ (IF lcRun.chan = "none" THEN sig ELSE lcRun.chan) \in {"none", "TERM", "HUP"}
          /\ (lcRun.cancelled \/ Starting) \in BOOLEAN /\ (lcRun.armed \/ Starting) \in BOOLEAN
      BY <1>0 DEF Types, Runs
    <3>2. lcRun' = [lcRun EXCEPT !.sent = lcRun.sent + 1, !.chan = IF lcRun.chan = "none" THEN sig ELSE lcRun.chan,
                                 !.cancelled = lcRun.cancelled \/ Starting, !.armed = lcRun.armed \/ Starting]
      BY <1>12 DEF Signal
    <3> HIDE DEF Starting
    <3> QED BY <1>0, <3>1, <3>2 DEF Types, Runs
  <2>2. PlaceOfRun' /\ ResetOnlyStarted'
    BY <1>0, <1>12, <2>1 DEF Signal, PlaceOfRun, ResetOnlyStarted, Closed, Hung
  <2> QED BY <1>12, <2>1, <2>2, RunInv DEF Signal
<1>13. (lcReady \/ "powerListener" \in Open) /\ ResetNetwork /\ lcUp' = lcUp => ResetOnlyStarted'
  <2>1. lcReady \/ "powerListener" \in Open => Range(lcBox.outs) \cup Range(lcBox.provs) \subseteq lcUp
    BY <1>0, UpOrder DEF Types, UpIsBehind, ReadyIsBehind, Open
  <2> QED BY <1>0, <2>1 DEF ResetNetwork, ResetOnlyStarted
<1>14. ASSUME NEW noRoute \in BOOLEAN, notifyNetworkUpdate(noRoute) PROVE LcInv'
  <2>1. ResetOnlyStarted'
    BY <1>0, <1>13, <1>14 DEF notifyNetworkUpdate, ResetOnlyStarted
  <2>2. PlaceOfRun' /\ lcRun' \in Runs
    BY <1>0, <1>14 DEF notifyNetworkUpdate, PlaceOfRun, Closed, Types, Hung
  <2> QED BY <1>14, <2>1, <2>2, RunInv DEF notifyNetworkUpdate
<1>15. CASE notifyWindowsPowerEvent
  <2>1. ResetOnlyStarted'
    BY <1>13, <1>15 DEF notifyWindowsPowerEvent
  <2>2. PlaceOfRun' /\ lcRun' \in Runs
    BY <1>0, <1>15 DEF notifyWindowsPowerEvent, PlaceOfRun, Closed, Types, Hung
  <2> QED BY <1>15, <2>1, <2>2, RunInv DEF notifyWindowsPowerEvent
<1>16. CASE UNCHANGED lcVars
  <2>1. ResetOnlyStarted' /\ PlaceOfRun' /\ lcRun' \in Runs
    BY <1>0, <1>16 DEF lcVars, ResetOnlyStarted, PlaceOfRun, Closed, Types, Hung
  <2> QED BY <1>16, <2>1, RunInv DEF lcVars
<1> QED BY <1>1, <1>2, <1>3, <1>4, <1>5, <1>6, <1>7, <1>8, <1>9, <1>10, <1>11, <1>12, <1>14, <1>15, <1>16 DEF LcNext, LcWork

\* The invariant holds.
LEMMA LcInvariant == LcSpec => []LcInv
<1>1. LcInit => LcInv
  BY LcInitInv
<1>2. LcInv /\ [LcNext]_lcVars => LcInv'
  BY LcStepInv
<1> QED BY <1>1, <1>2, PTL DEF LcSpec

-----------------------------------------------------------------------------
(* What follows.                                                             *)

\* While Close has not met Start, what was started and is not closed is what
\* Start has behind it and Close has not.
LEMMA OpenIs ==
  ASSUME LcInv, ~lcMeet, NEW x
  PROVE  x \in Open <=> /\ At("start", x) \in Behind(start(lcBox), lcPc)
                        /\ At("close", x) \notin Behind(start(lcBox), lcPc)
                        /\ At("close", x) \notin Behind(Close(lcBox), lcClose)
BY DEF LcInv, UpIsBehind, DownIsBehind, Open

\* What is behind in Start is a step of it.
LEMMA BehindStart == LcInv => Behind(start(lcBox), lcPc) \subseteq HStart(lcBox)
<1> SUFFICES ASSUME LcInv PROVE Behind(start(lcBox), lcPc) \subseteq HStart(lcBox)
  OBVIOUS
<1>1. lcBox \in LcBoxes /\ lcPc \in Pcs(lcBox)
  BY DEF LcInv, Types
<1>2. Len(start(lcBox)) \in Nat
  BY <1>1, Lengths
<1>3. \A i \in 1..(lcPc - 1) : start(lcBox)[i] \in HStart(lcBox)
  BY <1>1, <1>2, StepOf DEF Pcs
<1> QED BY <1>3 DEF Behind

\* After Close, whatever ended Start, what is open is what nothing closes.
LEMMA AfterClose ==
  ASSUME LcInv, ~lcMeet, Closed, lcStart \in {"ok", "error"}
  PROVE  Open \subseteq Unclosed(lcBox)
<1> DEFINE b == lcBox
<1>1. Types /\ PlaceOfStart
  BY DEF LcInv
<1>2. b \in LcBoxes /\ lcPc \in Pcs(b) /\ lcClose \in Closes(b)
  BY <1>1 DEF Types
<1>3. /\ IsSeq(start(b)) /\ Len(start(b)) \in Nat /\ Range(start(b)) = HStart(b)
      /\ IsSeq(Close(b)) /\ Len(Close(b)) \in Nat /\ Range(Close(b)) = KClose(b)
  BY <1>2, Lengths
<1>4. Behind(Close(b), lcClose) = KClose(b)
  <2>1. lcClose = Len(Close(b)) + 1
    BY <1>2, <1>3 DEF Closed, Closes
  <2> QED BY <1>3, <2>1, Ends
<1> SUFFICES ASSUME NEW x \in Open, x \notin Unclosed(b) PROVE FALSE
  OBVIOUS
<1>5. /\ At("start", x) \in Behind(start(b), lcPc) /\ At("close", x) \notin Behind(start(b), lcPc)
      /\ At("close", x) \notin KClose(b)
  BY <1>4, OpenIs
<1>6. b.geo /\ x = "geosite"
  BY <1>2, <1>5, BehindStart, StartsAndCloses
<1>7. PICK n \in Nat :
        /\ n + 3 <= Len(start(b)) /\ start(b)[n + 3] = At("close", "geosite")
        /\ \A pc \in 1..(Len(start(b)) + 1) :
             /\ pc <= n + 2 => At("start", "geosite") \notin Behind(start(b), pc)
             /\ pc > n + 3 => At("close", "geosite") \in Behind(start(b), pc)
  BY <1>2, <1>6, GeoCuts
<1>8. lcPc = n + 3
  BY <1>2, <1>3, <1>5, <1>6, <1>7 DEF Pcs
<1>9. lcStart = "error" /\ CanFail(b, At("close", "geosite"))
  BY <1>1, <1>3, <1>7, <1>8 DEF PlaceOfStart
<1> QED BY <1>9 DEF CanFail, At

\* An open part finds what it needs open.
LEMMA NeedsAreMet == LcInv => NeedsMet
<1> SUFFICES ASSUME LcInv, ~lcMeet, NEW c \in Open, c \notin Unclosed(lcBox), NEW k \in Needs(lcBox, c)
             PROVE  k \in Open
  BY DEF NeedsMet
<1> DEFINE b == lcBox
           up(x) == At("start", x) \in Behind(start(b), lcPc)
           down(x) == At("close", x) \in Behind(Close(b), lcClose)
<1>1. Types /\ PlaceOfStart
  BY DEF LcInv
<1>2. b \in LcBoxes /\ lcPc \in Pcs(b) /\ lcClose \in Closes(b)
  BY <1>1 DEF Types
<1>3. BoxParts(b) \cap Fixed = {} /\ Range(b.cache) \subseteq {"cacheFile"}
  BY <1>2, BoxSequences
<1>4. up(c) /\ ~down(c)
  BY OpenIs
<1>5. k \in Range(b.outs) \cup Range(b.cache) \cup {"dnsRules", "transports", "fakeIPStore", "log"}
  BY DEF Needs
<1>6. k # "geosite"
  BY <1>3, <1>5 DEF BoxParts, Fixed
<1>7. At("close", k) \notin Behind(start(b), lcPc)
  BY <1>2, <1>6, BehindStart, StartsAndCloses
<1>8. k = "log" => ~down(k)
  <2> SUFFICES ASSUME down("log") PROVE FALSE
    OBVIOUS
  <2>1. lcClose = Len(Close(b)) + 1
    BY <1>2, DownOrder
  <2>2. Len(Close(b)) \in Nat
    BY <1>2, Lengths
  <2>3. Closed /\ lcStart \in {"ok", "error"}
    BY <1>1, <2>1, <2>2 DEF Closed, PlaceOfStart
  <2> QED BY <2>3, AfterClose
<1>9. up(k) /\ ~down(k)
  <2>1. CASE c \in Range(b.ins)
    <3>0. c \notin Range(b.outs) /\ c # "fakeIPStore"
      BY <1>2, <2>1, BoxSequences DEF BoxParts, Fixed
    <3>1. k \in Range(b.outs) \cup {"dnsRules", "transports", "fakeIPStore", "log"}
      BY <2>1, <3>0 DEF Needs
    <3> QED BY <1>2, <1>4, <2>1, <3>1, UpOrder, DownOrder
  <2>2. CASE c \notin Range(b.ins) /\ c \in Range(b.outs) \cup {"fakeIPStore"}
    <3>1. k = "log" \/ k \in Range(b.cache)
      <4>1. CASE c \in Range(b.outs)
        BY <2>2, <4>1 DEF Needs
      <4>2. CASE c \notin Range(b.outs)
        BY <2>2, <4>2 DEF Needs
      <4> QED BY <4>1, <4>2
    <3>2. CASE k = "log"
      BY <1>2, <1>4, <1>8, <3>2, UpOrder
    <3>3. CASE k \in Range(b.cache)
      BY <1>2, <1>4, <2>2, <3>3, UpOrder, DownOrder
    <3> QED BY <3>1, <3>2, <3>3
  <2>3. CASE c \notin Range(b.ins) /\ c \notin Range(b.outs) \cup {"fakeIPStore"}
    <3>1. k = "log"
      BY <2>3 DEF Needs
    <3> QED BY <1>2, <1>4, <1>8, <3>1, UpOrder
  <2> QED BY <2>1, <2>2, <2>3
<1> QED BY <1>7, <1>9, OpenIs

\* While run() waits, the whole box is up and nothing of it is down.
LEMMA WaitRuns == LcInv => WaitMeansRunning
<1> SUFFICES ASSUME LcInv, lcRun.at = "wait" PROVE lcStart = "ok" /\ lcReady /\ Range(lcBox.ins) \subseteq Open
  BY DEF WaitMeansRunning
<1> DEFINE b == lcBox
<1>1. Types /\ PlaceOfStart /\ ReadyIsBehind /\ PlaceOfRun
  BY DEF LcInv
<1>2. b \in LcBoxes /\ lcStart = "ok" /\ lcClose = 0 /\ ~lcMeet /\ lcPc = Len(start(b)) + 1
  BY <1>1 DEF Types, PlaceOfRun, PlaceOfStart
<1>3. Behind(start(b), lcPc) = HStart(b) /\ Behind(Close(b), lcClose) = {}
  BY <1>2, Lengths, Ends DEF Behind
<1>4. lcReady
  BY <1>1, <1>2, <1>3, StartsAndCloses DEF ReadyIsBehind
<1>5. ASSUME NEW x \in Range(b.ins) PROVE x \in Open
  <2>1. At("start", x) \in HStart(b)
    BY <1>2, StartsAndCloses
  <2>2. x # "geosite"
    BY <1>2, BoxSequences DEF BoxParts, Fixed
  <2> QED BY <1>2, <1>3, <2>1, <2>2, StartsAndCloses, OpenIs
<1> QED BY <1>2, <1>4, <1>5

\* Box.Start, Box.Close and run(): whatever the components of a box, wherever Start fails, whenever a signal comes and
\* whoever calls Close, an open part finds what it needs open (unless Close met a running Start), no outbound or provider
\* is told of a new interface before it was started, and run() waits on a complete box.
THEOREM OrderIsKept == LcSpec => []OrderKept
<1>1. LcInv => LcTypeOK
  BY DEF LcInv, Types, Pcs, Closes, Runs, LcTypeOK
<1>2. LcInv => OrderKept
  BY <1>1, NeedsAreMet, WaitRuns DEF OrderKept, LcInv
<1> QED BY <1>2, LcInvariant, PTL

\* Box.Close: once it has gone through its components after Start returned, and when run() has returned, all that was
\* started is closed but what Router.Close leaves out.
THEOREM NothingIsLeftOpen == LcSpec => []NothingLeftOpen
<1>1. LcInv => NothingLeftOpen
  <2> SUFFICES ASSUME LcInv, (Closed /\ lcStart # "running" /\ ~lcMeet) \/ lcRun.at = "ended"
               PROVE  Open \subseteq Unclosed(lcBox)
    BY DEF NothingLeftOpen
  <2>1. Types /\ PlaceOfStart /\ UpIsBehind /\ PlaceOfRun
    BY DEF LcInv
  <2>2. CASE lcStart = "no"
    <3>1. lcPc = 1 /\ lcBox \in LcBoxes
      BY <2>1, <2>2 DEF PlaceOfStart, Types
    <3>2. Behind(start(lcBox), lcPc) = {}
      BY <3>1, Lengths, Ends
    <3> QED BY <2>1, <3>2 DEF UpIsBehind, Open
  <2>3. CASE lcStart # "no"
    <3>1. Closed /\ lcStart \in {"ok", "error"} /\ ~lcMeet
      BY <2>1, <2>3 DEF PlaceOfRun, Types
    <3> QED BY <3>1, AfterClose
  <2> QED BY <2>2, <2>3
<1> QED BY <1>1, LcInvariant, PTL

-----------------------------------------------------------------------------
(* Rule-sets, the firewall and the geo databases. *)

Versions == 0..RsVersions
Fetches == [n : rsScn.remote, by : {"loop", "api"}, step : {"sent", "load", "call", "store"},
            sent : Versions, ver : Versions]

\* The ranges; a download that has its body carries a version; nothing is
\* downloaded by an update before the rules have started.
RangeInv ==
  /\ rsScn \in RsScenarios
  /\ rsPhase \in {"geo", "geosite", "start", "rules", "tun", "cleanup", "ready", "failed"}
  /\ rsServer \in [Sets -> 1..RsVersions]
  /\ rsFile \in [Sets -> Torn..RsVersions]
  /\ rsRules \in [Sets -> Versions] /\ rsEtag \in [Sets -> Versions]
  /\ rsLast \in [Sets -> Versions] /\ rsWall \in [Sets -> Versions]
  /\ rsRefs \in [Sets -> Nat]
  /\ rsOverlap \in BOOLEAN
  /\ rsFetch \subseteq Fetches
  /\ \A f \in rsFetch : f.step # "sent" => f.ver > 0
  /\ ~Running => rsFetch = {}

\* The references counted: those of tun until PostStart, those of the rules from
\* their start on.
RefsInv ==
  /\ rsPhase \in {"geo", "geosite", "start", "rules"} =>
       \A n \in Sets : rsRefs[n] = IF n \in rsScn.tun THEN 1 ELSE 0
  /\ rsPhase = "tun" =>
       \A n \in Sets : rsRefs[n] = (IF n \in rsScn.tun THEN 1 ELSE 0) + rsScn.uses[n]
  /\ rsPhase \in {"cleanup", "ready"} => \A n \in Sets : rsRefs[n] = rsScn.uses[n]

\* Local rule-sets are loaded when they are made, remote ones by StartContext.
LoadedInv ==
  /\ rsPhase \in {"geo", "geosite", "start", "rules"} => \A n \in Local : rsRules[n] > 0
  /\ rsPhase = "rules" => \A n \in rsScn.remote : rsRules[n] > 0
  /\ InUseLoaded

\* A fetch that has loaded rules and not yet stored their ETag.
Between(n) == \E f \in rsFetch : f.n = n /\ f.step \in {"call", "store"}

\* Without overlap there is one fetch; the ETag is that of the rules except
\* while it is between loading the one and storing the other.
EtagInv ==
  ~rsOverlap =>
    /\ \A f, g \in rsFetch : f = g
    /\ \A f \in rsFetch : f.step \in {"call", "store"} => rsRules[f.n] = f.ver
    /\ \A n \in rsScn.remote : ~Between(n) /\ rsEtag[n] # 0 /\ rsRules[n] # 0 => rsEtag[n] = rsRules[n]

\* The firewall has what was loaded last, except while the callback is to come,
\* when that is still in memory; before PostStart it is in memory.
WallOf(n) ==
  /\ rsPhase \in {"rules", "tun"} => rsRules[n] = rsLast[n]
  /\ (\E f \in rsFetch : f.n = n /\ f.step = "call") => rsRules[n] = rsLast[n]
  /\ rsPhase \in {"cleanup", "ready"} =>
       rsWall[n] = rsLast[n] \/ \E f \in rsFetch : f.n = n /\ f.step = "call"
WallInv == ~rsOverlap => \A n \in rsScn.remote : rsScn.tun = {n} => WallOf(n)

\* A database is looked for before it is open, three times at most.
GeoInv ==
  /\ rsGeo \in [{"geoip", "geosite"} -> [file : {0, 1, Torn}, tries : 0..3,
                                         state : {"new", "open", "offline", "broken"}]]
  /\ \A d \in {"geoip", "geosite"} : rsGeo[d].state = "new" => rsGeo[d].tries < 3
  /\ rsPhase = "geo" => rsGeo["geoip"].state = "new"
  /\ rsPhase \in {"geo", "geosite"} => rsGeo["geosite"].state = "new"
  /\ OfflineLeavesNothing

ResourceInv == RangeInv /\ RefsInv /\ LoadedInv /\ EtagInv /\ WallInv /\ GeoInv

\* What the assumption says of the scenario in force.
LEMMA ScenarioFacts ==
  ASSUME rsScn \in RsScenarios
  PROVE  /\ RsVersions \in Nat \ {0}
         /\ rsScn.remote \subseteq Sets /\ rsScn.tun \subseteq Sets
         /\ rsScn.uses \in [Sets -> Nat] /\ rsScn.files \in [Sets -> Torn..RsVersions]
         /\ \A n \in Local : n \in Sets /\ rsScn.files[n] > 0
BY RsAssumption DEF Sets, Local

\* A start has loaded the local rule-sets, and nothing else.
LEMMA ResourceInit == RsInit => ResourceInv
<1> SUFFICES ASSUME NEW scn \in RsScenarios, RsStart(scn, "geo") PROVE ResourceInv
  BY DEF RsInit
<1>1. rsScn \in RsScenarios /\ Sets = scn.sets /\ rsScn = scn
  BY DEF RsStart, Sets
<1>2. RangeInv
  <2>1. \A n \in Sets : IF n \in rsScn.remote THEN rsRules[n] = 0
                         ELSE rsRules[n] = scn.files[n] /\ scn.files[n] > 0
    BY <1>1, ScenarioFacts DEF RsStart, Local
  <2>2. \A n \in Sets : scn.files[n] \in -1..RsVersions /\ RsVersions \in Nat \ {0}
    BY <1>1, ScenarioFacts, ZenonT(30) DEF Torn
  <2>3. \A n \in Sets : rsRules[n] \in Versions
    BY <2>1, <2>2 DEF Versions
  <2>4. rsRules \in [Sets -> Versions]
    BY <1>1, <2>3 DEF RsStart
  <2>5. 0 \in Versions /\ 1 \in 1..RsVersions
    BY <1>1, ScenarioFacts DEF Versions
  <2>6. /\ rsFetch = {} /\ rsOverlap = FALSE /\ rsPhase = "geo"
        /\ rsServer \in [Sets -> 1..RsVersions] /\ rsFile \in [Sets -> Torn..RsVersions]
        /\ rsRefs \in [Sets -> Nat]
    BY <1>1, <2>5, ScenarioFacts DEF RsStart
  <2>7. rsEtag \in [Sets -> Versions] /\ rsLast \in [Sets -> Versions] /\ rsWall \in [Sets -> Versions]
    BY <1>1, <2>5 DEF RsStart
  <2> QED BY <1>1, <2>4, <2>6, <2>7 DEF RangeInv
<1>3. RefsInv
  BY <1>1 DEF RsStart, RefsInv
<1>4. LoadedInv
  BY <1>1, ScenarioFacts DEF RsStart, LoadedInv, InUseLoaded, Running, Local
<1>5. EtagInv
  BY <1>1, ScenarioFacts DEF RsStart, EtagInv
<1>6. WallInv
  BY DEF RsStart, WallInv, WallOf
<1>7. GeoInv
  BY DEF RsStart, GeoInv, OfflineLeavesNothing
<1> QED BY <1>2, <1>3, <1>4, <1>5, <1>6, <1>7 DEF ResourceInv

\* The steps that look for a database change nothing of the rule-sets.
LEMMA GeoStep ==
  ASSUME ResourceInv, prepareGeoIPDatabase \/ prepareGeositeDatabase
  PROVE  ResourceInv'
<1> USE DEF ResourceInv
<1>1. /\ UNCHANGED <<rsScn, rsServer, rsFile, rsRules, rsEtag, rsRefs, rsFetch, rsWall, rsLast, rsOverlap>>
      /\ Sets' = Sets /\ Local' = Local /\ rsFetch = {}
  BY DEF prepareGeoIPDatabase, prepareGeositeDatabase, rsNet, rsMem, Sets, Local, RangeInv, Running
<1>2. PICK d \in {"geoip", "geosite"} :
        /\ rsPhase = IF d = "geoip" THEN "geo" ELSE "geosite"
        /\ IF rsGeo[d].file = 0 THEN downloadDatabase(d) ELSE openDatabase(d)
        /\ GeoPhase(rsGeo'[d].state, IF d = "geoip" THEN "geosite" ELSE "start")
  <2>1. CASE prepareGeoIPDatabase
    BY <2>1, ZenonT(30) DEF prepareGeoIPDatabase, downloadGeoIPDatabase
  <2>2. CASE prepareGeositeDatabase
    BY <2>2, ZenonT(30) DEF prepareGeositeDatabase, downloadGeositeDatabase
  <2> QED BY <2>1, <2>2
<1>3. rsGeo[d].state = "new" /\ rsGeo[d].tries \in 0..2
  BY <1>2 DEF GeoInv
<1>4. /\ rsGeo' \in [{"geoip", "geosite"} -> [file : {0, 1, Torn}, tries : 0..3,
                                              state : {"new", "open", "offline", "broken"}]]
      /\ \A e \in {"geoip", "geosite"} : e # d => rsGeo'[e] = rsGeo[e]
      /\ rsGeo'[d].state = "new" => rsGeo'[d].tries < 3
      /\ rsGeo'[d].state = "offline" => rsGeo'[d].file = 0
  <2>1. CASE rsGeo[d].file = 0
    BY <1>2, <1>3, <2>1 DEF GeoInv, downloadDatabase, Tried
  <2>2. CASE rsGeo[d].file # 0
    BY <1>2, <1>3, <2>2 DEF GeoInv, openDatabase
  <2> QED BY <2>1, <2>2
<1>5. /\ rsPhase' \in {rsPhase, "failed", IF d = "geoip" THEN "geosite" ELSE "start"}
      /\ rsPhase' = rsPhase => rsGeo'[d].state = "new"
  BY <1>2 DEF GeoPhase
<1>6. GeoInv'
  BY <1>2, <1>4, <1>5 DEF GeoInv, OfflineLeavesNothing
<1>7. RangeInv' /\ RefsInv' /\ LoadedInv' /\ EtagInv' /\ WallInv'
  BY <1>1, <1>2, <1>5, ZenonT(30)
     DEF RangeInv, RefsInv, LoadedInv, EtagInv, WallInv, WallOf, Running, InUseLoaded, Fetches, Between
<1> QED BY <1>6, <1>7

\* The start of the rule-sets: all remote ones are loaded, or it fails.
LEMMA RulesStartStep ==
  ASSUME ResourceInv, StartContext \/ RulesStart
  PROVE  ResourceInv'
<1> USE DEF ResourceInv
<1>0. /\ rsScn' = rsScn /\ Sets' = Sets /\ Local' = Local /\ Fetches' = Fetches
      /\ rsServer' = rsServer /\ rsGeo' = rsGeo /\ rsFetch' = rsFetch /\ rsOverlap' = rsOverlap
      /\ rsWall' = rsWall /\ rsFetch = {} /\ rsScn \in RsScenarios
      /\ rsPhase \in {"start", "rules"}
  BY DEF StartContext, RulesStart, rsNet, Sets, Local, Fetches, RangeInv, Running
<1>1. CASE StartContext
  <2> DEFINE fromFile == {n \in rsScn.remote : rsFile[n] > 0}
             fetched == rsScn.remote \ fromFile
  <2>1. PICK reach \in SUBSET rsScn.remote :
          /\ rsPhase' = IF fetched \subseteq reach THEN "rules" ELSE "failed"
          /\ rsRules' = [n \in Sets |-> IF n \in fromFile THEN rsFile[n]
                                        ELSE IF n \in fetched \cap reach THEN rsServer[n] ELSE rsRules[n]]
          /\ rsEtag' = [n \in Sets |-> IF n \in fetched \cap reach THEN rsServer[n] ELSE 0]
          /\ rsFile' = [n \in Sets |-> IF n \in fetched \cap reach THEN rsServer[n] ELSE rsFile[n]]
    BY <1>1, ZenonT(30) DEF StartContext
  <2>2. rsLast' = rsRules' /\ rsRefs' = rsRefs /\ rsPhase = "start"
    BY <1>1 DEF StartContext
  <2>3. rsRules' \in [Sets -> Versions] /\ rsEtag' \in [Sets -> Versions] /\ rsFile' \in [Sets -> Torn..RsVersions]
    BY <1>0, <2>1, ScenarioFacts DEF RangeInv, Versions, Torn
  <2>4. RangeInv'
    BY <1>0, <2>1, <2>2, <2>3 DEF RangeInv, Running, Versions
  <2>5. RefsInv'
    BY <1>0, <2>1, <2>2 DEF RefsInv
  <2>6. LoadedInv'
    <3>1. \A n \in Local : rsRules'[n] > 0
      BY <1>0, <2>1, <2>2 DEF LoadedInv, Local, Sets
    <3>2. ASSUME rsPhase' = "rules", NEW n \in rsScn.remote PROVE rsRules'[n] > 0
      BY <1>0, <2>1, <3>2, ScenarioFacts DEF RangeInv
    <3> QED BY <1>0, <2>1, <3>1, <3>2 DEF LoadedInv, InUseLoaded, Running
  <2>7. EtagInv'
    <3>1. \A n \in rsScn.remote : rsEtag'[n] # 0 => rsEtag'[n] = rsRules'[n]
      BY <1>0, <2>1, ScenarioFacts
    <3> QED BY <1>0, <3>1 DEF EtagInv
  <2>8. WallInv'
    BY <1>0, <2>1, <2>2 DEF WallInv, WallOf
  <2>9. GeoInv'
    BY <1>0, <2>1 DEF GeoInv, OfflineLeavesNothing
  <2> QED BY <2>4, <2>5, <2>6, <2>7, <2>8, <2>9
<1>2. CASE RulesStart
  <2>1. /\ rsPhase = "rules" /\ rsPhase' = "tun"
        /\ rsRefs' = [n \in Sets |-> rsRefs[n] + rsScn.uses[n]]
        /\ UNCHANGED <<rsFile, rsRules, rsEtag, rsLast>>
    BY <1>2 DEF RulesStart
  <2>2. RangeInv'
    BY <1>0, <2>1, ScenarioFacts DEF RangeInv, Running
  <2>3. RefsInv'
    BY <1>0, <2>1, ScenarioFacts DEF RefsInv, RangeInv
  <2>4. LoadedInv'
    <3>1. \A n \in Sets : rsRules[n] > 0
      BY <2>1 DEF LoadedInv, Local
    <3> QED BY <1>0, <2>1, <3>1 DEF LoadedInv, InUseLoaded
  <2>5. EtagInv' /\ WallInv'
    BY <1>0, <2>1 DEF EtagInv, WallInv, WallOf, Between
  <2>6. GeoInv'
    BY <1>0, <2>1 DEF GeoInv, OfflineLeavesNothing
  <2> QED BY <2>2, <2>3, <2>4, <2>5, <2>6
<1> QED BY <1>1, <1>2

\* Steps in which the scenario, the server and the databases stay.
Quiet ==
  /\ rsScn' = rsScn /\ rsServer' = rsServer /\ rsGeo' = rsGeo
  /\ Sets' = Sets /\ Local' = Local /\ Fetches' = Fetches

\* PostStart of tun gives its references back; Cleanup drops what nobody uses.
LEMMA ReadyStep ==
  ASSUME ResourceInv, TunPostStart \/ Cleanup
  PROVE  ResourceInv'
<1> USE DEF ResourceInv
<1>0. /\ Quiet /\ rsScn \in RsScenarios /\ rsFile' = rsFile /\ rsFetch' = rsFetch
      /\ rsEtag' = rsEtag /\ rsLast' = rsLast
      /\ rsPhase \in {"tun", "cleanup"} /\ rsPhase' \in {"cleanup", "ready"}
  BY DEF TunPostStart, Cleanup, rsNet, Quiet, Sets, Local, Fetches, RangeInv
<1>g. GeoInv'
  BY <1>0 DEF Quiet, GeoInv, OfflineLeavesNothing
<1>1. CASE TunPostStart
  <2>1. /\ rsPhase = "tun" /\ rsPhase' = "cleanup" /\ rsRules' = rsRules /\ rsOverlap' = rsOverlap
        /\ rsWall' = [n \in Sets |-> IF n \in rsScn.tun THEN rsRules[n] ELSE 0]
        /\ rsRefs' = [n \in Sets |-> IF n \in rsScn.tun THEN rsRefs[n] - 1 ELSE rsRefs[n]]
    BY <1>1 DEF TunPostStart
  <2>2. rsRefs' = [n \in Sets |-> rsScn.uses[n]]
    BY <1>0, <2>1, ScenarioFacts DEF RefsInv, RangeInv
  <2>3. rsWall' \in [Sets -> Versions]
    BY <1>0, <2>1, ScenarioFacts DEF RangeInv, Versions
  <2>4. RangeInv'
    BY <1>0, <2>1, <2>2, <2>3, ScenarioFacts DEF RangeInv, Running, Quiet, Versions
  <2>5. RefsInv' /\ LoadedInv' /\ EtagInv'
    BY <1>0, <2>1, <2>2 DEF RefsInv, LoadedInv, InUseLoaded, Running, EtagInv, Between, Quiet
  <2>6. WallInv'
    BY <1>0, <2>1, ScenarioFacts DEF WallInv, WallOf, Quiet
  <2> QED BY <1>g, <2>4, <2>5, <2>6
<1>2. CASE Cleanup
  <2>1. /\ rsPhase = "cleanup" /\ rsPhase' = "ready" /\ rsWall' = rsWall /\ rsRefs' = rsRefs
        /\ rsRules' = [n \in Sets |-> IF rsRefs[n] = 0 THEN 0 ELSE rsRules[n]]
        /\ rsOverlap' = (rsOverlap \/ rsFetch # {})
    BY <1>2, ZenonT(30) DEF Cleanup, Dropped
  <2>2. RangeInv'
    <3>1. rsRules' \in [Sets -> Versions] /\ rsOverlap' \in BOOLEAN
      BY <1>0, <2>1, ScenarioFacts DEF RangeInv, Versions
    <3> QED BY <1>0, <2>1, <3>1 DEF RangeInv, Running, Quiet, Versions
  <2>3. RefsInv'
    BY <1>0, <2>1 DEF RefsInv, Quiet
  <2>4. LoadedInv'
    BY <1>0, <2>1, ScenarioFacts DEF RefsInv, LoadedInv, InUseLoaded, Running, Quiet
  <2>5. ~rsOverlap' => ~rsOverlap /\ rsFetch = {}
    BY <2>1, ZenonT(30)
  <2>6. EtagInv'
    BY <1>0, <2>1, <2>5, ScenarioFacts DEF EtagInv, Between, Quiet
  <2>7. WallInv'
    BY <1>0, <2>1, <2>5 DEF WallInv, WallOf, Quiet
  <2> QED BY <1>g, <2>2, <2>3, <2>4, <2>6, <2>7
<1> QED BY <1>1, <1>2

\* What a fetch under way is.
LEMMA FetchFacts ==
  ASSUME RangeInv, NEW f \in rsFetch
  PROVE  /\ f \in Fetches /\ f.n \in rsScn.remote /\ f.n \in Sets /\ f.ver \in Versions
         /\ f.step # "sent" => f.ver > 0
         /\ Running /\ rsScn \in RsScenarios
BY ScenarioFacts DEF RangeInv, Fetches

\* A fetch that goes on stays one, and is another in its step and version only.
LEMMA FetchGoesOn ==
  ASSUME RangeInv, NEW f \in rsFetch, NEW step \in {"load", "call", "store"}, NEW ver \in Versions, ver > 0,
         Fetch(f, step, ver), Fetches' = Fetches
  PROVE  \E g \in Fetches : /\ g.n = f.n /\ g.step = step /\ g.ver = ver
                            /\ rsFetch' = (rsFetch \ {f}) \cup {g}
                            /\ rsFetch' \subseteq Fetches'
                            /\ \A e \in rsFetch' : e.step # "sent" => e.ver > 0
<1> DEFINE g == [f EXCEPT !.step = step, !.ver = ver]
<1>1. f \in Fetches
  BY FetchFacts
<1>2. g \in Fetches /\ g.n = f.n /\ g.step = step /\ g.ver = ver
  BY <1>1 DEF Fetches
<1>3. rsFetch' = (rsFetch \ {f}) \cup {g}
  BY DEF Fetch
<1> QED BY <1>2, <1>3 DEF RangeInv

\* A request begins a fetch; if another is under way they overlap.
LEMMA RequestStep ==
  ASSUME ResourceInv, NEW n \in Sets, NEW by \in {"loop", "api"}, Request(n, by)
  PROVE  ResourceInv'
<1> USE DEF ResourceInv
<1> DEFINE g == [n |-> n, by |-> by, step |-> "sent", sent |-> rsEtag[n], ver |-> 0]
<1>0. /\ Quiet /\ rsScn \in RsScenarios
      /\ UNCHANGED <<rsPhase, rsFile, rsRules, rsEtag, rsRefs, rsWall, rsLast>>
      /\ Running /\ n \in rsScn.remote
      /\ rsFetch' = rsFetch \cup {g} /\ rsOverlap' = (rsOverlap \/ rsFetch # {})
  BY DEF Request, rsNet, Quiet, Sets, Local, Fetches, RangeInv
<1>1. g \in Fetches
  BY <1>0, ScenarioFacts DEF RangeInv, Fetches, Versions
<1>2. ~rsOverlap' => ~rsOverlap /\ rsFetch = {}
  BY <1>0, ZenonT(30)
<1>3. RangeInv'
  <2>1. rsOverlap' \in BOOLEAN
    BY <1>0, ZenonT(30)
  <2>2. rsFetch' \subseteq Fetches' /\ \A f \in rsFetch' : f.step # "sent" => f.ver > 0
    BY <1>0, <1>1 DEF RangeInv, Quiet
  <2> QED BY <1>0, <2>1, <2>2 DEF RangeInv, Running, Quiet
<1>4. RefsInv' /\ LoadedInv'
  BY <1>0 DEF RefsInv, LoadedInv, InUseLoaded, Running, Quiet
<1>5. EtagInv'
  <2> SUFFICES ASSUME ~rsOverlap' PROVE EtagInv'
    BY DEF EtagInv
  <2>1. rsFetch' = {g} /\ rsFetch = {}
    BY <1>0, <1>2
  <2>2. \A m : ~Between(m)
    BY <2>1 DEF Between
  <2> QED BY <1>0, <1>2, <2>1, <2>2 DEF EtagInv, Quiet
<1>6. WallInv'
  BY <1>0, <1>2 DEF WallInv, WallOf, Quiet
<1>7. GeoInv'
  BY <1>0 DEF Quiet, GeoInv, OfflineLeavesNothing
<1> QED BY <1>3, <1>4, <1>5, <1>6, <1>7

\* What is given up is not in use.
LEMMA DroppedFacts ==
  ASSUME ResourceInv, Running, NEW n \in Sets
  PROVE  /\ Dropped(n, rsRules[n]) \in {0, rsRules[n]}
         /\ rsScn.uses[n] > 0 => Dropped(n, rsRules[n]) = rsRules[n]
         /\ rsPhase = "tun" /\ n \in rsScn.tun => Dropped(n, rsRules[n]) = rsRules[n]
BY ScenarioFacts DEF ResourceInv, RangeInv, RefsInv, Running, Dropped

\* A response: the body follows, or the rules are current, or it failed.
LEMMA ResponseStep ==
  ASSUME ResourceInv, NEW f \in rsFetch, Response(f)
  PROVE  ResourceInv'
<1> USE DEF ResourceInv
<1>0. /\ Quiet /\ rsScn \in RsScenarios
      /\ UNCHANGED <<rsPhase, rsFile, rsEtag, rsRefs, rsWall, rsLast, rsOverlap>>
      /\ f.step = "sent" /\ Running /\ f.n \in rsScn.remote /\ f.n \in Sets
  BY FetchFacts DEF Response, rsNet, Quiet, Sets, Local, Fetches
<1>g. RefsInv' /\ GeoInv'
  BY <1>0 DEF Quiet, RefsInv, GeoInv, OfflineLeavesNothing
<1>1. CASE rsServer[f.n] # f.sent /\ Fetch(f, "load", rsServer[f.n]) /\ UNCHANGED rsRules
  <2>1. rsServer[f.n] \in Versions /\ rsServer[f.n] > 0
    BY <1>0, ScenarioFacts DEF RangeInv, Versions
  <2>2. PICK g \in Fetches : /\ g.n = f.n /\ g.step = "load" /\ g.ver = rsServer[f.n]
                            /\ rsFetch' = (rsFetch \ {f}) \cup {g}
                            /\ rsFetch' \subseteq Fetches'
                            /\ \A e \in rsFetch' : e.step # "sent" => e.ver > 0
    BY <1>0, <1>1, <2>1, FetchGoesOn DEF Quiet
  <2>3. RangeInv'
    BY <1>0, <1>1, <2>2 DEF RangeInv, Running, Quiet
  <2>4. LoadedInv'
    BY <1>0, <1>1 DEF LoadedInv, InUseLoaded, Running, Quiet
  <2>5. \A n : Between(n)' <=> Between(n)
    BY <1>0, <2>2 DEF Between
  <2>6. EtagInv'
    BY <1>0, <1>1, <2>2, <2>5 DEF EtagInv, Quiet
  <2>7. WallInv'
    BY <1>0, <1>1, <2>2 DEF WallInv, WallOf, Quiet
  <2> QED BY <1>g, <2>3, <2>4, <2>6, <2>7
<1>2. CASE rsFetch' = rsFetch \ {f} /\ rsRules' \in {rsRules, [rsRules EXCEPT ![f.n] = Dropped(f.n, @)]}
  <2>1. /\ \A n \in Sets : rsRules'[n] \in {0, rsRules[n]} /\ (n # f.n => rsRules'[n] = rsRules[n])
        /\ rsScn.uses[f.n] > 0 => rsRules'[f.n] = rsRules[f.n]
        /\ rsPhase = "tun" /\ f.n \in rsScn.tun => rsRules'[f.n] = rsRules[f.n]
        /\ rsRules' \in [Sets -> Versions]
    <3>1. Dropped(f.n, rsRules[f.n]) \in {0, rsRules[f.n]}
      BY <1>0, DroppedFacts
    <3>2. 0 \in Versions
      BY <1>0, ScenarioFacts DEF Versions
    <3> QED BY <1>0, <1>2, <3>1, <3>2, DroppedFacts DEF RangeInv
  <2>2. RangeInv'
    BY <1>0, <1>2, <2>1 DEF RangeInv, Running, Quiet
  <2>3. LoadedInv'
    BY <1>0, <2>1 DEF LoadedInv, InUseLoaded, Running, Quiet
  <2>4. \A n : Between(n)' <=> Between(n)
    BY <1>0, <1>2 DEF Between
  <2>5. EtagInv'
    <3> SUFFICES ASSUME ~rsOverlap PROVE EtagInv'
      BY <1>0 DEF EtagInv
    <3>1. rsFetch' = {}
      BY <1>2 DEF EtagInv
    <3> QED BY <1>0, <2>1, <2>4, <3>1, ScenarioFacts DEF EtagInv, Quiet
  <2>6. WallInv'
    <3> SUFFICES ASSUME ~rsOverlap, NEW n \in rsScn.remote, rsScn.tun = {n}, WallOf(n)
                 PROVE  WallOf(n)'
      BY <1>0, ZenonT(30) DEF WallInv, Quiet
    <3>1. ~\E e \in rsFetch : e.n = n /\ e.step = "call"
      BY <1>0 DEF EtagInv
    <3>2. n \in Sets /\ rsPhase # "rules"
      BY <1>0, ScenarioFacts DEF Running
    <3>3. rsPhase = "tun" => rsRules'[n] = rsRules[n]
      BY <2>1, <3>2
    <3>4. ~\E e \in rsFetch' : e.n = n /\ e.step = "call"
      BY <1>2, <3>1
    <3> QED BY <1>0, <3>1, <3>2, <3>3, <3>4, ZenonT(30) DEF WallOf
  <2> QED BY <1>g, <2>2, <2>3, <2>5, <2>6
<1> QED BY <1>0, <1>1, <1>2 DEF Response

\* The rules are loaded.
LEMMA ReloadStep ==
  ASSUME ResourceInv, NEW f \in rsFetch, reloadRules(f)
  PROVE  ResourceInv'
<1> USE DEF ResourceInv
<1>0. /\ Quiet /\ rsScn \in RsScenarios
      /\ UNCHANGED <<rsPhase, rsFile, rsEtag, rsRefs, rsWall, rsOverlap>>
      /\ f.step = "load" /\ Running /\ f.n \in rsScn.remote /\ f.n \in Sets /\ f.ver \in Versions /\ f.ver > 0
      /\ rsRules' = [rsRules EXCEPT ![f.n] = f.ver] /\ rsLast' = [rsLast EXCEPT ![f.n] = f.ver]
  BY FetchFacts DEF reloadRules, rsNet, Quiet, Sets, Local, Fetches
<1>1. PICK g \in Fetches : /\ g.n = f.n /\ g.step = "call" /\ g.ver = f.ver
                          /\ rsFetch' = (rsFetch \ {f}) \cup {g}
                          /\ rsFetch' \subseteq Fetches'
                          /\ \A e \in rsFetch' : e.step # "sent" => e.ver > 0
  <2>1. Fetch(f, "call", f.ver) /\ Fetches' = Fetches
    BY <1>0 DEF reloadRules, Quiet
  <2> QED BY <1>0, <2>1, FetchGoesOn
<1>2. \A n \in Sets : /\ rsRules'[n] = IF n = f.n THEN f.ver ELSE rsRules[n]
                      /\ rsLast'[n] = IF n = f.n THEN f.ver ELSE rsLast[n]
  BY <1>0 DEF RangeInv
<1>3. RangeInv'
  BY <1>0, <1>1 DEF RangeInv, Running, Quiet
<1>4. RefsInv' /\ GeoInv'
  BY <1>0 DEF Quiet, RefsInv, GeoInv, OfflineLeavesNothing
<1>5. LoadedInv'
  BY <1>0, <1>2 DEF LoadedInv, InUseLoaded, Running, Quiet
<1>6. EtagInv'
  <2> SUFFICES ASSUME ~rsOverlap PROVE EtagInv'
    BY <1>0 DEF EtagInv
  <2>1. rsFetch = {f} /\ rsFetch' = {g}
    BY <1>1 DEF EtagInv
  <2>2. Between(f.n)' /\ \A n : ~Between(n)
    BY <1>0, <1>1, <2>1 DEF Between
  <2>3. \A n \in rsScn.remote : n # f.n => rsRules'[n] = rsRules[n]
    BY <1>0, <1>2, ScenarioFacts
  <2> QED BY <1>0, <1>1, <1>2, <2>1, <2>2, <2>3 DEF EtagInv, Quiet
<1>7. WallInv'
  <2> SUFFICES ASSUME ~rsOverlap, NEW n \in rsScn.remote, rsScn.tun = {n}, WallOf(n)
               PROVE  WallOf(n)'
    BY <1>0, ZenonT(30) DEF WallInv, Quiet
  <2>1. n \in Sets
    BY <1>0, ScenarioFacts
  <2>2. CASE n = f.n
    BY <1>0, <1>1, <1>2, <2>1, <2>2 DEF WallOf
  <2>3. CASE n # f.n
    <3>1. rsFetch = {f}
      BY DEF EtagInv
    <3> QED BY <1>0, <1>1, <1>2, <2>1, <2>3, <3>1 DEF WallOf
  <2> QED BY <2>2, <2>3
<1> QED BY <1>3, <1>4, <1>5, <1>6, <1>7

\* The callback sends the firewall the addresses of all of tun's rule-sets.
LEMMA CallbackStep ==
  ASSUME ResourceInv, NEW f \in rsFetch, updateRouteAddressSet(f)
  PROVE  ResourceInv'
<1> USE DEF ResourceInv
<1>0. /\ Quiet /\ rsScn \in RsScenarios
      /\ UNCHANGED <<rsPhase, rsFile, rsRules, rsEtag, rsRefs, rsLast, rsOverlap>>
      /\ f.step = "call" /\ Running /\ f.n \in rsScn.remote /\ f.n \in Sets /\ f.ver \in Versions /\ f.ver > 0
      /\ rsWall' = IF rsPhase # "tun" /\ f.n \in rsScn.tun
                   THEN [n \in Sets |-> IF n \in rsScn.tun THEN rsRules[n] ELSE 0] ELSE rsWall
  BY FetchFacts DEF updateRouteAddressSet, rsNet, Quiet, Sets, Local, Fetches
<1>1. PICK g \in Fetches : /\ g.n = f.n /\ g.step = "store" /\ g.ver = f.ver
                          /\ rsFetch' = (rsFetch \ {f}) \cup {g}
                          /\ rsFetch' \subseteq Fetches'
                          /\ \A e \in rsFetch' : e.step # "sent" => e.ver > 0
  <2>1. Fetch(f, "store", f.ver) /\ Fetches' = Fetches
    BY <1>0 DEF updateRouteAddressSet, Quiet
  <2> QED BY <1>0, <2>1, FetchGoesOn
<1>2. RangeInv'
  <2>1. rsWall' \in [Sets -> Versions]
    BY <1>0, ScenarioFacts DEF RangeInv, Versions
  <2> QED BY <1>0, <1>1, <2>1 DEF RangeInv, Running, Quiet
<1>3. RefsInv' /\ GeoInv' /\ LoadedInv'
  BY <1>0 DEF Quiet, RefsInv, GeoInv, OfflineLeavesNothing, LoadedInv, InUseLoaded, Running
<1>4. \A n : Between(n)' <=> Between(n)
  BY <1>0, <1>1 DEF Between
<1>5. EtagInv'
  BY <1>0, <1>1, <1>4 DEF EtagInv, Quiet
<1>6. WallInv'
  <2> SUFFICES ASSUME ~rsOverlap, NEW n \in rsScn.remote, rsScn.tun = {n}, WallOf(n)
               PROVE  WallOf(n)'
    BY <1>0, ZenonT(30) DEF WallInv, Quiet
  <2>1. n \in Sets /\ rsFetch = {f}
    BY <1>0, ScenarioFacts DEF EtagInv
  <2>2. CASE n = f.n
    <3>1. rsPhase # "tun" => rsWall'[n] = rsRules[n]
      BY <1>0, <2>1, <2>2
    <3>2. rsRules[n] = rsLast[n]
      BY <1>0, <2>2 DEF WallOf
    <3> QED BY <1>0, <1>1, <2>1, <3>1, <3>2 DEF WallOf
  <2>3. CASE n # f.n
    BY <1>0, <1>1, <2>1, <2>3 DEF WallOf
  <2> QED BY <2>2, <2>3
<1> QED BY <1>2, <1>3, <1>5, <1>6

\* The ETag and the file are stored, and rules not in use given up.
LEMMA StoreStep ==
  ASSUME ResourceInv, NEW f \in rsFetch, Store(f)
  PROVE  ResourceInv'
<1> USE DEF ResourceInv
<1>0. /\ Quiet /\ rsScn \in RsScenarios
      /\ UNCHANGED <<rsPhase, rsRefs, rsWall, rsLast, rsOverlap>>
      /\ f.step = "store" /\ Running /\ f.n \in rsScn.remote /\ f.n \in Sets /\ f.ver \in Versions /\ f.ver > 0
      /\ rsFetch' = rsFetch \ {f}
      /\ rsEtag' = [rsEtag EXCEPT ![f.n] = f.ver] /\ rsFile' = [rsFile EXCEPT ![f.n] = f.ver]
      /\ rsRules' = [rsRules EXCEPT ![f.n] = Dropped(f.n, @)]
  BY FetchFacts DEF Store, rsNet, Quiet, Sets, Local, Fetches
<1>1. /\ \A n \in Sets : rsRules'[n] \in {0, rsRules[n]} /\ (n # f.n => rsRules'[n] = rsRules[n])
      /\ rsScn.uses[f.n] > 0 => rsRules'[f.n] = rsRules[f.n]
      /\ rsPhase = "tun" /\ f.n \in rsScn.tun => rsRules'[f.n] = rsRules[f.n]
      /\ rsRules' \in [Sets -> Versions]
  <2>1. Dropped(f.n, rsRules[f.n]) \in {0, rsRules[f.n]}
    BY <1>0, DroppedFacts
  <2>2. 0 \in Versions
    BY <1>0, ScenarioFacts DEF Versions
  <2> QED BY <1>0, <2>1, <2>2, DroppedFacts DEF RangeInv
<1>2. RangeInv'
  <2>1. f.ver \in Torn..RsVersions
    BY <1>0, ScenarioFacts DEF Versions, Torn
  <2>2. rsFile' \in [Sets -> Torn..RsVersions] /\ rsEtag' \in [Sets -> Versions]
    BY <1>0, <2>1 DEF RangeInv
  <2> QED BY <1>0, <1>1, <2>2 DEF RangeInv, Running, Quiet
<1>3. RefsInv' /\ GeoInv'
  BY <1>0 DEF Quiet, RefsInv, GeoInv, OfflineLeavesNothing
<1>4. LoadedInv'
  BY <1>0, <1>1 DEF LoadedInv, InUseLoaded, Running, Quiet
<1>5. EtagInv'
  <2> SUFFICES ASSUME ~rsOverlap PROVE EtagInv'
    BY <1>0 DEF EtagInv
  <2>1. rsFetch = {f} /\ rsFetch' = {} /\ rsRules[f.n] = f.ver
    BY <1>0 DEF EtagInv
  <2>2. \A n \in rsScn.remote : n \in Sets /\ rsEtag'[n] = IF n = f.n THEN f.ver ELSE rsEtag[n]
    BY <1>0, ScenarioFacts DEF RangeInv
  <2>3. \A n \in rsScn.remote : n # f.n => ~Between(n)
    BY <2>1 DEF Between
  <2>4. ASSUME NEW n \in rsScn.remote, rsEtag'[n] # 0, rsRules'[n] # 0 PROVE rsEtag'[n] = rsRules'[n]
    <3>1. CASE n = f.n
      BY <1>0, <1>1, <2>1, <2>2, <2>4, <3>1
    <3>2. CASE n # f.n
      BY <1>0, <1>1, <2>2, <2>3, <2>4, <3>2 DEF EtagInv
    <3> QED BY <3>1, <3>2
  <2> QED BY <1>0, <2>1, <2>4 DEF EtagInv, Quiet
<1>6. WallInv'
  <2> SUFFICES ASSUME ~rsOverlap, NEW n \in rsScn.remote, rsScn.tun = {n}, WallOf(n)
               PROVE  WallOf(n)'
    BY <1>0, ZenonT(30) DEF WallInv, Quiet
  <2>1. ~\E e \in rsFetch : e.n = n /\ e.step = "call"
    BY <1>0 DEF EtagInv
  <2>2. n \in Sets /\ rsPhase # "rules"
    BY <1>0, ScenarioFacts DEF Running
  <2>3. rsPhase = "tun" => rsRules'[n] = rsRules[n]
    BY <1>1, <2>2
  <2>4. ~\E e \in rsFetch' : e.n = n /\ e.step = "call"
    BY <1>0, <2>1
  <2> QED BY <1>0, <2>1, <2>2, <2>3, <2>4, ZenonT(30) DEF WallOf
<1> QED BY <1>2, <1>3, <1>4, <1>5, <1>6

\* A server's new version, and a local file written anew, leave the remote
\* rule-sets' rules and ETags alone.
LEMMA OutsideStep ==
  ASSUME ResourceInv, NEW n \in Sets, Publish(n) \/ FileChanged(n)
  PROVE  ResourceInv'
<1> USE DEF ResourceInv
<1>1. CASE Publish(n)
  <2>1. /\ UNCHANGED <<rsScn, rsPhase, rsFile, rsRules, rsEtag, rsRefs, rsFetch, rsWall, rsLast, rsOverlap, rsGeo>>
        /\ Sets' = Sets /\ Local' = Local /\ Fetches' = Fetches
        /\ rsServer' = [rsServer EXCEPT ![n] = @ + 1] /\ rsServer[n] < RsVersions
    BY <1>1 DEF Publish, rsMem, Sets, Local, Fetches
  <2>2. RangeInv'
    <3>1. rsServer[n] \in 1..RsVersions /\ RsVersions \in Nat
      BY ScenarioFacts DEF RangeInv
    <3>2. rsServer[n] + 1 \in 1..RsVersions
      BY <2>1, <3>1
    <3>3. rsServer' \in [Sets -> 1..RsVersions]
      BY <2>1, <3>2 DEF RangeInv
    <3> QED BY <2>1, <3>3 DEF RangeInv, Running
  <2>3. RefsInv' /\ LoadedInv' /\ GeoInv'
    BY <2>1 DEF RefsInv, GeoInv, OfflineLeavesNothing, LoadedInv, InUseLoaded, Running
  <2>4. EtagInv' /\ WallInv'
    BY <2>1 DEF EtagInv, Between, WallInv, WallOf
  <2> QED BY <2>2, <2>3, <2>4
<1>2. CASE FileChanged(n)
  <2>1. /\ Quiet /\ rsScn \in RsScenarios /\ n \in Local /\ Running
        /\ UNCHANGED <<rsPhase, rsEtag, rsRefs, rsFetch, rsWall, rsOverlap>>
        /\ rsFile[n] \in 1..(RsVersions - 1)
    BY <1>2 DEF FileChanged, rsNet, Quiet, Sets, Local, Fetches, RangeInv
  <2>2. PICK content \in {rsFile[n] + 1, Torn} :
          /\ rsFile' = [rsFile EXCEPT ![n] = content]
          /\ rsRules' = IF content = Torn THEN rsRules ELSE [rsRules EXCEPT ![n] = content]
          /\ rsLast' = IF content = Torn THEN rsLast ELSE [rsLast EXCEPT ![n] = content]
    BY <1>2 DEF FileChanged
  <2>3. content \in Torn..RsVersions /\ (content # Torn => content \in Versions /\ content > 0)
    BY <2>1, ScenarioFacts DEF Versions, Torn
  <2>4. \A m \in Sets : /\ rsRules'[m] = rsRules[m] \/ (m = n /\ rsRules'[m] > 0)
                        /\ m \in rsScn.remote => rsRules'[m] = rsRules[m] /\ rsLast'[m] = rsLast[m]
    BY <2>1, <2>2, <2>3 DEF RangeInv, Local
  <2>5. RangeInv'
    BY <2>1, <2>2, <2>3 DEF RangeInv, Running, Quiet
  <2>6. RefsInv' /\ GeoInv'
    BY <2>1 DEF RefsInv, GeoInv, OfflineLeavesNothing, Quiet
  <2>7. LoadedInv'
    BY <2>1, <2>4 DEF LoadedInv, InUseLoaded, Running, Quiet
  <2>8. rsScn.remote \subseteq Sets
    BY <2>1, ScenarioFacts
  <2>9. EtagInv'
    <3>1. \A f \in rsFetch : f.n \in rsScn.remote
      BY FetchFacts
    <3> QED BY <2>1, <2>4, <2>8, <3>1 DEF EtagInv, Between, Quiet
  <2>10. WallInv'
    BY <2>1, <2>4, <2>8 DEF WallInv, WallOf, Quiet
  <2> QED BY <2>5, <2>6, <2>7, <2>9, <2>10
<1> QED BY <1>1, <1>2

\* A restart: nothing in memory but the local rule-sets, whatever was torn.
LEMMA CrashStep ==
  ASSUME ResourceInv, Crash
  PROVE  ResourceInv'
<1> USE DEF ResourceInv
<1>0. /\ rsScn' = rsScn /\ rsServer' = rsServer /\ rsPhase' = "geo" /\ rsScn \in RsScenarios
      /\ Sets' = Sets /\ Local' = Local /\ Fetches' = Fetches
      /\ rsFetch' = {} /\ rsOverlap' = FALSE
      /\ \A n \in Local : rsFile[n] > 0
      /\ rsRules' = [n \in Sets |-> IF n \in rsScn.remote THEN 0 ELSE rsFile[n]]
      /\ rsRefs' = [n \in Sets |-> IF n \in rsScn.tun THEN 1 ELSE 0]
      /\ rsEtag' = [n \in Sets |-> 0] /\ rsWall' = [n \in Sets |-> 0] /\ rsLast' = [n \in Sets |-> 0]
  BY DEF Crash, Launch, None0, Sets, Local, Fetches, RangeInv
<1>1. RangeInv'
  <2>1. PICK torn : rsFile' = [n \in Sets |-> IF n \in torn THEN Torn ELSE rsFile[n]]
    BY DEF Crash
  <2>2. Torn \in Torn..RsVersions /\ 0 \in Versions
    BY <1>0, ScenarioFacts DEF Torn, Versions
  <2>3. rsFile' \in [Sets -> Torn..RsVersions]
    BY <2>1, <2>2 DEF RangeInv
  <2>4. \A n \in Sets : rsFile[n] \in -1..RsVersions /\ RsVersions \in Nat
    BY <1>0, ScenarioFacts, ZenonT(30) DEF RangeInv, Torn
  <2>5. \A n \in Local : rsFile[n] \in Versions
    BY <1>0, <2>4 DEF Versions, Local
  <2>6. rsRules' \in [Sets -> Versions]
    BY <1>0, <2>2, <2>5 DEF Local
  <2>7. rsRefs' \in [Sets -> Nat]
    BY <1>0
  <2>8. rsEtag' \in [Sets -> Versions] /\ rsWall' \in [Sets -> Versions] /\ rsLast' \in [Sets -> Versions]
    BY <1>0, <2>2
  <2> QED BY <1>0, <2>3, <2>6, <2>7, <2>8 DEF RangeInv
<1>2. RefsInv'
  BY <1>0 DEF RefsInv
<1>3. LoadedInv'
  BY <1>0 DEF LoadedInv, InUseLoaded, Running, Local
<1>4. EtagInv' /\ WallInv'
  <2>1. \A n \in rsScn.remote : rsEtag'[n] = 0
    BY <1>0, ScenarioFacts
  <2>2. EtagInv'
    BY <1>0, <2>1 DEF EtagInv
  <2>3. WallInv'
    BY <1>0 DEF WallInv, WallOf
  <2> QED BY <2>2, <2>3
<1>5. GeoInv'
  <2>1. PICK torn : rsGeo' = [d \in DOMAIN rsGeo |-> GeoDB(IF d \in torn THEN Torn ELSE rsGeo[d].file)]
    BY DEF Crash
  <2>2. DOMAIN rsGeo = {"geoip", "geosite"} /\ \A d \in {"geoip", "geosite"} : rsGeo[d].file \in {0, 1, Torn}
    BY DEF GeoInv
  <2>3. /\ rsGeo' \in [{"geoip", "geosite"} -> [file : {0, 1, Torn}, tries : 0..3,
                                                state : {"new", "open", "offline", "broken"}]]
        /\ \A d \in {"geoip", "geosite"} : rsGeo'[d].state = "new" /\ rsGeo'[d].tries = 0
    BY <2>1, <2>2 DEF GeoDB
  <2>4. DOMAIN rsGeo' = {"geoip", "geosite"}
    BY <2>3
  <2> QED BY <2>3, <2>4 DEF GeoInv, OfflineLeavesNothing
<1> QED BY <1>1, <1>2, <1>3, <1>4, <1>5

\* Every step keeps the invariant.
LEMMA ResourceNext == ResourceInv /\ [RsNext]_rsVars => ResourceInv'
<1> SUFFICES ASSUME ResourceInv, [RsNext]_rsVars PROVE ResourceInv'
  OBVIOUS
<1>1. CASE prepareGeoIPDatabase \/ prepareGeositeDatabase
  BY <1>1, GeoStep
<1>2. CASE StartContext \/ RulesStart
  BY <1>2, RulesStartStep
<1>3. CASE TunPostStart \/ Cleanup
  BY <1>3, ReadyStep
<1>4. ASSUME NEW f \in rsFetch, Response(f) \/ reloadRules(f) \/ updateRouteAddressSet(f) \/ Store(f)
      PROVE  ResourceInv'
  BY <1>4, ResponseStep, ReloadStep, CallbackStep, StoreStep
<1>5. CASE Crash
  BY <1>5, CrashStep
<1>6. ASSUME NEW n \in Sets, Publish(n) \/ FileChanged(n) \/ \E by \in {"loop", "api"} : Request(n, by)
      PROVE  ResourceInv'
  BY <1>6, OutsideStep, RequestStep
<1>7. CASE UNCHANGED rsVars
  <2> USE <1>7 DEF rsVars
  <2>1. Sets' = Sets /\ Local' = Local /\ Fetches' = Fetches
    BY DEF Sets, Local, Fetches
  <2>2. RangeInv' /\ RefsInv' /\ LoadedInv' /\ GeoInv'
    BY <2>1 DEF ResourceInv, RangeInv, RefsInv, LoadedInv, InUseLoaded, GeoInv, OfflineLeavesNothing, Running
  <2>3. EtagInv' /\ WallInv'
    BY <2>1 DEF ResourceInv, EtagInv, Between, WallInv, WallOf
  <2> QED BY <2>2, <2>3 DEF ResourceInv
<1> QED BY <1>1, <1>2, <1>3, <1>4, <1>5, <1>6, <1>7 DEF RsNext, RsStep

\* The invariant holds in every behaviour of the start, the updates, the
\* clean-up and the restarts.
THEOREM ResourceInvariant == RsSpec => []ResourceInv
BY ResourceInit, ResourceNext, PTL DEF RsSpec

\* The ranges hold, and no reference count goes below zero, where
\* abstractRuleSet.DecRef would panic.
THEOREM ResourceTypes == RsSpec => []RsTypeOK
<1>1. ResourceInv => RsTypeOK
  <2> SUFFICES ASSUME ResourceInv PROVE RsTypeOK
    OBVIOUS
  <2>1. \A n \in Sets : rsRefs[n] >= 0 /\ rsRules[n] \in 0..RsVersions /\ rsFile[n] \in Torn..RsVersions
    BY DEF ResourceInv, RangeInv, Versions
  <2>2. \A d \in DOMAIN rsGeo : rsGeo[d].tries \in 0..3
    BY DEF ResourceInv, GeoInv
  <2> QED BY <2>1, <2>2 DEF ResourceInv, RangeInv, RsTypeOK
<1> QED BY <1>1, ResourceInvariant, PTL

\* A rule-set that rules name is never without rules once the rules have
\* started: the reference counts keep Cleanup and the updates from dropping them.
THEOREM RulesStayLoaded == RsSpec => []InUseLoaded
<1>1. ResourceInv => InUseLoaded
  BY DEF ResourceInv, LoadedInv
<1> QED BY <1>1, ResourceInvariant, PTL

\* The ETag fetchOnce sends is that of the rules, as long as no two updates overlap.
THEOREM EtagFollowsRules == RsSpec => []EtagOfRules
<1>1. ResourceInv => EtagOfRules
  BY DEF ResourceInv, EtagInv, EtagOfRules, Between
<1> QED BY <1>1, ResourceInvariant, PTL

\* The firewall follows tun's rule-set through every update that does not
\* overlap another or the clean-up.
THEOREM FirewallFollowsRules == RsSpec => []FirewallFollows
<1>1. ResourceInv => FirewallFollows
  BY DEF ResourceInv, WallInv, WallOf, FirewallFollows
<1> QED BY <1>1, ResourceInvariant, PTL

\* prepareGeoIPDatabase and prepareGeositeDatabase leave no file after the
\* third failure.
THEOREM OfflineRetries == RsSpec => []OfflineLeavesNothing
<1>1. ResourceInv => OfflineLeavesNothing
  BY DEF ResourceInv, GeoInv
<1> QED BY <1>1, ResourceInvariant, PTL

\* All that downloads leave behind is right at every step, whatever fails or crashes.
THEOREM DownloadsAlwaysSound == RsSpec => []DownloadsSound
<1>1. RsTypeOK /\ EtagOfRules /\ FirewallFollows /\ OfflineLeavesNothing => DownloadsSound
  BY DEF DownloadsSound
<1> QED BY <1>1, ResourceTypes, EtagFollowsRules, FirewallFollowsRules, OfflineRetries, PTL
=============================================================================
