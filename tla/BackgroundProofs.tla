-------------------------- MODULE BackgroundProofs --------------------------
(* Proofs about what brings outbounds up.  BoxStart: what runs has its      *)
(* dependencies, and the passes start exactly what can be started, for      *)
(* every number of outbounds and every dependency among them.  Provider:    *)
(* any contents, groups and number of callers.                              *)
EXTENDS BoxStart, Provider, FiniteSetTheorems, TLAPS

(* A leaf that names no prover goes to Zenon, for ten seconds, then to SMT.  *)
USE ZenonT(10), SMTT(20)

-----------------------------------------------------------------------------
(* Sequences. *)

\* What Append makes.
LEMMA AppendIs ==
  ASSUME NEW S, NEW s \in Seq(S), NEW e \in S
  PROVE  /\ Append(s, e) \in Seq(S) /\ Len(Append(s, e)) = Len(s) + 1 /\ Append(s, e) # <<>>
         /\ \A k \in 1..Len(s) : Append(s, e)[k] = s[k]
         /\ Append(s, e)[Len(s) + 1] = e
OBVIOUS

\* The first n elements of a sequence.
LEMMA FirstOf ==
  ASSUME NEW S, NEW s \in Seq(S), NEW n \in 0..Len(s)
  PROVE  /\ SubSeq(s, 1, n) \in Seq(S) /\ Len(SubSeq(s, 1, n)) = n
         /\ \A k \in 1..n : SubSeq(s, 1, n)[k] = s[k]
OBVIOUS

\* One sequence after another.
LEMMA ConcatIs ==
  ASSUME NEW S, NEW s \in Seq(S), NEW t \in Seq(S)
  PROVE  /\ s \o t \in Seq(S) /\ Len(s \o t) = Len(s) + Len(t)
         /\ \A k \in 1..(Len(s) + Len(t)) : (s \o t)[k] = IF k <= Len(s) THEN s[k] ELSE t[k - Len(s)]
OBVIOUS

\* Sequences that have the same elements are the same.
LEMMA SameSeq ==
  ASSUME NEW S, NEW s \in Seq(S), NEW t \in Seq(S), Len(s) = Len(t), \A k \in 1..Len(s) : s[k] = t[k]
  PROVE  s = t
OBVIOUS

-----------------------------------------------------------------------------
(* BoxStart. *)

Opened == {tags[k] : k \in bxOpen}

\* Nothing is started before the passes.
Early == {"tags", "providers", "duplicate", "silent"}
Late  == {"ok", "lint", "cycle", "missing"}

EarlyInv == bxAt \in Early => bxOpen = {} /\ started = {}

\* The map started and the outbounds that run say the same, unless a Start failed.
SameStarted ==
  /\ bxOpen \subseteq Own
  /\ bxAt # "failed" => started = Opened

\* Whatever has every outbound whose dependencies it has contains what is started.
Least == bxAt # "failed" => \A S \in Closed : started \subseteq S

\* A pass that has started nothing so far has met nothing it could start.
PassInv ==
  bxAt = "pass" =>
    /\ bxI \in Nat \ {0}
    /\ ~canContinue => \A m \in 1..(bxI - 1) : m \in Own => (tags[m] \in started \/ ~Ready(m))

\* When the passes are over, what is started is closed.
LateInv == bxAt \in Late => \A k \in Own : Ready(k) => tags[k] \in started

BoxInv ==
  /\ Len(tags) \in Nat
  /\ EarlyInv /\ SameStarted /\ Least /\ PassInv /\ LateInv
  /\ DependenciesFirst

\* The tags are no more than the outbounds: if as many are started, all are.
LEMMA AllStarted ==
  ASSUME Len(tags) \in Nat, started \subseteq OwnTag, Cardinality(started) = Len(tags)
  PROVE  started = OwnTag
<1>1. IsFiniteSet(Own) /\ Cardinality(Own) = Len(tags)
  <2>1. /\ IsFiniteSet(1..Len(tags))
        /\ Cardinality(1..Len(tags)) = IF 1 > Len(tags) THEN 0 ELSE Len(tags) - 1 + 1
    BY FS_Interval, 1 \in Int, Len(tags) \in Int
  <2> QED BY <2>1 DEF Own
<1>2. IsFiniteSet(OwnTag) /\ Cardinality(OwnTag) <= Len(tags)
  <2> DEFINE f == [k \in Own |-> tags[k]]
  <2>1. f \in Surjection(Own, OwnTag)
    BY DEF Surjection, OwnTag
  <2> QED BY <1>1, <2>1, FS_Surjection
<1>3. Cardinality(OwnTag) \in Nat
  BY <1>2, FS_CardinalityType
<1>4. /\ Cardinality(started) <= Cardinality(OwnTag)
      /\ Cardinality(OwnTag) = Cardinality(started) => started = OwnTag
  BY <1>2, FS_Subset
<1> QED BY <1>2, <1>3, <1>4

\* Steps that leave the outbounds and what is started alone.
LEMMA Quiet ==
  ASSUME BoxInv, UNCHANGED <<tags, deps, started, bxOpen>>,
         bxAt' # "failed" => bxAt # "failed",
         bxAt' \in Early => bxAt \in Early,
         PassInv', LateInv'
  PROVE  BoxInv'
<1>1. Len(tags)' \in Nat /\ EarlyInv' /\ SameStarted'
  BY DEF BoxInv, EarlyInv, SameStarted, Opened, Own
<1>2. Least'
  BY DEF BoxInv, Least, Closed, OwnTag, Own
<1>3. DependenciesFirst'
  BY DEF BoxInv, DependenciesFirst
<1> QED BY <1>1, <1>2, <1>3 DEF BoxInv

\* One step of startOutbounds keeps the invariant.
LEMMA BoxStep == BoxInv /\ [BxNext]_bxVars => BoxInv'
<1> SUFFICES ASSUME BoxInv, [BxNext]_bxVars PROVE BoxInv'
  OBVIOUS
<1>1. CASE SetTags
  <2>1. /\ bxOpen = {} /\ started = {} /\ bxOpen' = {} /\ started' = {}
        /\ bxAt' \in {"duplicate", "providers"}
    BY <1>1 DEF SetTags, GoesTo, BoxInv, EarlyInv, Early
  <2>2. Len(tags') \in Nat
    BY <1>1 DEF SetTags, BoxInv, Own
  <2>3. EarlyInv' /\ SameStarted' /\ Least' /\ PassInv' /\ LateInv' /\ DependenciesFirst'
    BY <2>1 DEF EarlyInv, SameStarted, Opened, Least, PassInv, LateInv, Late, DependenciesFirst
  <2> QED BY <2>2, <2>3 DEF BoxInv
<1>2. CASE ProviderOutbound
  <2>1. PassInv' /\ LateInv'
    BY <1>2 DEF ProviderOutbound, PassInv, LateInv, Late
  <2> QED BY <1>2, <2>1, Quiet DEF ProviderOutbound
<1>3. CASE ProviderFails
  <2>1. PassInv' /\ LateInv'
    BY <1>3 DEF ProviderFails, GoesTo, PassInv, LateInv, Late
  <2> QED BY <1>3, <2>1, Quiet DEF ProviderFails, GoesTo, Early
<1>4. CASE ProvidersDone
  <2>1. PassInv' /\ LateInv'
    BY <1>4 DEF ProvidersDone, GoesTo, PassInv, LateInv, Late
  <2> QED BY <1>4, <2>1, Quiet DEF ProvidersDone, GoesTo, Early
<1>5. CASE Skip
  <2>1. PassInv'
    BY <1>5 DEF Skip, BoxInv, PassInv, Ready, Own
  <2>2. LateInv'
    BY <1>5 DEF Skip, LateInv, Late
  <2> QED BY <1>5, <2>1, <2>2, Quiet DEF Skip, Early
<1>6. CASE StartOutbound
  <2>1. /\ bxI \in Own /\ deps[bxI] \subseteq started /\ started = Opened /\ bxAt = "pass" /\ bxAt' = "pass"
        /\ started' = started \cup {tags[bxI]} /\ bxOpen' = bxOpen \cup {bxI}
        /\ canContinue' /\ bxI' = bxI + 1 /\ bxI \in Nat \ {0}
        /\ UNCHANGED <<tags, deps>>
    BY <1>6 DEF StartOutbound, BoxInv, PassInv, SameStarted, Own, Ready
  <2>2. Len(tags') \in Nat /\ EarlyInv' /\ PassInv' /\ LateInv'
    BY <2>1 DEF BoxInv, EarlyInv, Early, PassInv, LateInv, Late
  <2>3. SameStarted'
    BY <2>1 DEF BoxInv, SameStarted, Opened, Own
  <2>4. Least'
    <3>1. Closed' = Closed
      BY <2>1 DEF Closed, OwnTag, Own
    <3>2. \A S \in Closed : started \subseteq S /\ tags[bxI] \in S
      BY <2>1 DEF BoxInv, Least, Closed
    <3> QED BY <2>1, <3>1, <3>2 DEF Least
  <2>5. DependenciesFirst'
    BY <2>1 DEF BoxInv, DependenciesFirst, Opened
  <2> QED BY <2>2, <2>3, <2>4, <2>5 DEF BoxInv
<1>7. CASE StartFails
  <2>1. bxAt' = "failed" /\ UNCHANGED <<tags, deps, bxOpen>>
    BY <1>7 DEF StartFails, GoesTo
  <2>2. EarlyInv' /\ Least' /\ PassInv' /\ LateInv'
    BY <2>1 DEF EarlyInv, Early, Least, PassInv, LateInv, Late
  <2>3. Len(tags') \in Nat /\ SameStarted' /\ DependenciesFirst'
    BY <2>1 DEF BoxInv, SameStarted, DependenciesFirst, Own
  <2> QED BY <2>2, <2>3 DEF BoxInv
<1>8. CASE EndPass
  <2>1. /\ bxAt = "pass" /\ bxI > Len(tags) /\ bxI \in Nat /\ Len(tags) \in Nat
        /\ UNCHANGED <<tags, deps, started, bxOpen>>
    BY <1>8 DEF EndPass, BoxInv, PassInv
  <2>2. CASE Cardinality(started) = Len(tags)
    <3>1. bxAt' = "ok"
      BY <1>8, <2>2 DEF EndPass, GoesTo
    <3>2. started \subseteq OwnTag
      BY <2>1 DEF BoxInv, SameStarted, Opened, OwnTag
    <3>3. started = OwnTag
      BY <2>1, <2>2, <3>2, AllStarted
    <3>4. LateInv' /\ PassInv'
      BY <2>1, <3>1, <3>3 DEF LateInv, PassInv, OwnTag, Own, Ready
    <3> QED BY <2>1, <3>1, <3>4, Quiet DEF Early
  <2>3. CASE Cardinality(started) # Len(tags) /\ canContinue
    <3>1. bxAt' = "pass" /\ bxI' = 1
      BY <1>8, <2>3, ZenonT(30) DEF EndPass, AgainOrLint, GoesTo
    <3>2. LateInv' /\ PassInv'
      BY <3>1 DEF LateInv, Late, PassInv
    <3> QED BY <2>1, <3>1, <3>2, Quiet DEF Early
  <2>4. CASE Cardinality(started) # Len(tags) /\ ~canContinue
    <3>1. bxAt' = "lint"
      BY <1>8, <2>4 DEF EndPass, AgainOrLint, GoesTo
    <3>2. \A m \in Own : m \in 1..(bxI - 1)
      BY <2>1 DEF Own
    <3>3. \A m \in Own : tags[m] \in started \/ ~Ready(m)
      BY <2>1, <2>4, <3>2 DEF BoxInv, PassInv
    <3>4. LateInv' /\ PassInv'
      BY <2>1, <3>1, <3>3 DEF LateInv, PassInv, Own, Ready
    <3> QED BY <2>1, <3>1, <3>4, Quiet DEF Early
  <2> QED BY <2>2, <2>3, <2>4
<1>9. CASE LintOutbound
  <2>1. bxAt = "lint" /\ bxAt' \in {"cycle", "missing", "lint"}
        /\ UNCHANGED <<tags, deps, started, bxOpen>>
    BY <1>9 DEF LintOutbound
  <2>2. LateInv' /\ PassInv'
    BY <2>1 DEF BoxInv, LateInv, Late, PassInv, Own, Ready
  <2> QED BY <2>1, <2>2, Quiet DEF Early
<1>10. CASE UNCHANGED bxVars
  <2>1. LateInv' /\ PassInv'
    BY <1>10 DEF bxVars, BoxInv, LateInv, PassInv, Own, Ready
  <2> QED BY <1>10, <2>1, Quiet DEF bxVars
<1> QED
  BY <1>1, <1>2, <1>3, <1>4, <1>5, <1>6, <1>7, <1>8, <1>9, <1>10 DEF BxNext

\* The invariant holds throughout startOutbounds.
THEOREM BoxInvariant == BxSpec => []BoxInv
<1>1. BxInit => BoxInv
  <2> SUFFICES ASSUME BxInit PROVE BoxInv
    OBVIOUS
  <2>1. Len(tags) \in Nat
    BY BoxAssumption DEF BxInit, IsTags
  <2> QED BY <2>1 DEF BxInit, BoxInv, EarlyInv, Early, SameStarted, Opened, Least, PassInv,
                      LateInv, Late, DependenciesFirst
<1> QED BY <1>1, BoxStep, PTL DEF BxSpec

\* What runs has all it depends on running.
THEOREM DependenciesAlwaysFirst == BxSpec => []DependenciesFirst
<1>1. BoxInv => DependenciesFirst
  BY DEF BoxInv
<1> QED BY <1>1, BoxInvariant, PTL

\* startOutbounds starts exactly what some order of the outbounds could start.
THEOREM AlwaysStartsWhatCan == BxSpec => []StartsWhatCan
<1>1. BoxInv => StartsWhatCan
  <2> SUFFICES ASSUME BoxInv, bxAt \in Late PROVE Opened = Startable
    BY DEF StartsWhatCan, Late, Opened
  <2>1. started = Opened /\ started \subseteq OwnTag
    BY DEF BoxInv, SameStarted, Opened, OwnTag, Late
  <2>2. started \in Closed
    BY <2>1 DEF BoxInv, LateInv, Closed, Ready
  <2>3. \A S \in Closed : started \subseteq S
    BY DEF BoxInv, Least, Late
  <2> QED BY <2>1, <2>2, <2>3 DEF Startable
<1> QED BY <1>1, BoxInvariant, PTL

-----------------------------------------------------------------------------
(* Types, and the tags that were given out.                                  *)

Walking == {"lint", "cycle", "missing"}

Shapes ==
  /\ bxAt \in {"tags", "providers", "pass", "lint"} \cup Ended
  /\ IsTags(tags) /\ IsTags(ptags)
  /\ \A k \in 1..Len(tags) : IsTag(Numbered[k])
  /\ \A k \in 1..Len(ptags) : IsTag(Labelled[k])
  /\ deps \in [Own -> SUBSET Mentioned]
  /\ bxI \in Nat \ {0} /\ canContinue \in BOOLEAN
  /\ bxAt \notin {"providers", "pass"} => bxI = 1
  /\ bxAt = "providers" => bxI <= Len(ptags) + 1
  /\ bxAt = "pass" => bxI <= Len(tags) + 1
  /\ bxAt \notin Walking => oTree = <<>>
  /\ started \subseteq OwnTag

\* Past SetTags the box's own tags are distinct.
OwnDistinct == bxAt \notin {"tags", "duplicate"} => \A k, m \in Own : tags[k] = tags[m] => k = m

\* The map of startProviderOutbounds has the tags given out so far, all with 0.
Registered ==
  bxAt = "providers" => /\ DOMAIN outboundTag = OwnTag \cup {ptags[k] : k \in 1..(bxI - 1)}
                      /\ \A t \in DOMAIN outboundTag : outboundTag[t] = 0

\* The tags given out so far, in their order, and how two of them can be equal.
Name(k) == IF k <= Len(tags) THEN tags[k] ELSE ptags[k - Len(tags)]
PlainTag(tag) == [tag EXCEPT !.counts = SubSeq(@, 1, Len(@) - 1)]
NamesApart ==
  bxAt = "providers" =>
    \A k, m \in 1..(Len(tags) + bxI - 1) :
      k < m /\ Name(k) = Name(m) =>
        Name(k).counts # <<>> /\ \E h \in 1..(Len(tags) + bxI - 1) : Name(h) = PlainTag(Name(k))

\* lintOutbound's path: each tag but a last one that ends the walk is one of the
\* box's, not started, and not on the path before.
Walked == IF bxAt = "lint" THEN Len(oTree) ELSE Len(oTree) - 1
PathInv ==
  bxAt \in Walking =>
    /\ oTree \in Seq(OwnTag \cup Mentioned) /\ Len(oTree) >= 1
    /\ \A k \in 1..Walked : oTree[k] \in OwnTag \ started
    /\ \A k, m \in 1..Walked : oTree[k] = oTree[m] => k = m
    /\ \A k \in 1..(Len(oTree) - 1) : oTree[k + 1] \in DepsOf(oTree[k]) \ started
    /\ bxAt = "missing" => oTree[Len(oTree)] \notin OwnTag
    /\ bxAt = "cycle" => \E k \in 1..(Len(oTree) - 1) : oTree[k] = oTree[Len(oTree)]

NamesInv == Shapes /\ OwnDistinct /\ Registered /\ NamesApart /\ PathInv

\* Lists of tags.
LEMMA TagList ==
  ASSUME NEW s, IsTags(s)
  PROVE  Len(s) \in Nat /\ DOMAIN s = 1..Len(s) /\ \A k \in 1..Len(s) : IsTag(s[k])
BY DEF IsTags

\* A list of tags, by its positions, is a sequence.
LEMMA MakesTagList ==
  ASSUME NEW n \in Nat, NEW s, s = [k \in 1..n |-> s[k]], \A k \in 1..n : IsTag(s[k])
  PROVE  IsTags(s) /\ Len(s) = n
<1>1. s \in Seq({s[k] : k \in 1..n}) /\ Len(s) = n /\ DOMAIN s = 1..n
  <2> DEFINE S == {s[k] : k \in 1..n}
  <2>1. \A k \in 1..n : s[k] \in S
    OBVIOUS
  <2>2. s \in [1..n -> S]
    BY <2>1
  <2> HIDE DEF S
  <2>3. s \in Seq(S) /\ Len(s) = n /\ DOMAIN s = 1..n
    BY <2>2
  <2> QED BY <2>3 DEF S
<1> QED BY <1>1 DEF IsTags

\* A count is put behind a tag, and taken off again.
LEMMA BracketedTag ==
  ASSUME NEW t, IsTag(t), NEW n \in Nat
  PROVE  /\ IsTag(Bracketed(t, n)) /\ Bracketed(t, n).counts # <<>>
         /\ PlainTag(Bracketed(t, n)) = t
<1> DEFINE c == t.counts
           d == Append(c, n)
<1>1. c \in Seq(Nat) /\ t = [base |-> t.base, counts |-> c]
  BY DEF IsTag
<1>2. d \in Seq(Nat) /\ d # <<>> /\ Len(d) = Len(c) + 1 /\ Len(c) \in Nat /\ \A k \in 1..Len(c) : d[k] = c[k]
  BY <1>1, AppendIs
<1>3. SubSeq(d, 1, Len(d) - 1) = c
  <2>1. Len(d) - 1 = Len(c)
    BY <1>2
  <2>2. \A k \in 1..Len(c) : d[k] \in Nat
    BY <1>1, <1>2
  <2> HIDE DEF c, d
  <2>3. /\ SubSeq(d, 1, Len(c)) \in Seq(Nat)
        /\ Len(SubSeq(d, 1, Len(c))) = Len(c)
        /\ \A k \in 1..Len(c) : SubSeq(d, 1, Len(c))[k] = d[k]
    <3>1. Len(c) \in 0..Len(d)
      BY <1>2
    <3> QED BY <1>2, <3>1, FirstOf
  <2>4. Len(SubSeq(d, 1, Len(c))) = Len(c) /\ \A k \in 1..Len(c) : SubSeq(d, 1, Len(c))[k] = c[k]
    BY <1>2, <2>3
  <2>5. SubSeq(d, 1, Len(c)) = c
    BY <1>1, <2>3, <2>4, SameSeq
  <2> QED BY <2>1, <2>5
<1> DEFINE e == t.base
           r == [base |-> e, counts |-> d]
<1>4. Bracketed(t, n) = [t EXCEPT !.counts = d]
  BY DEF Bracketed
<1> HIDE DEF c, d, e
<1>5. t = [base |-> e, counts |-> c]
  BY <1>1 DEF e
<1>6. Bracketed(t, n) = r
  BY <1>4, <1>5
<1>7. IsTag(r) /\ r.counts # <<>>
  BY <1>2 DEF IsTag
<1>8. r.counts = d /\ [r EXCEPT !.counts = c] = [base |-> e, counts |-> c]
  OBVIOUS
<1> HIDE DEF r
<1>9. PlainTag(r) = [r EXCEPT !.counts = SubSeq(r.counts, 1, Len(r.counts) - 1)]
  BY DEF PlainTag
<1>10. PlainTag(r) = t
  BY <1>3, <1>5, <1>8, <1>9
<1> QED BY <1>6, <1>7, <1>10

\* As many tags as outbounds: they are distinct.
LEMMA DistinctTags ==
  ASSUME NEW n \in Nat, NEW s, Cardinality({s[k] : k \in 1..n}) >= n
  PROVE  \A k, m \in 1..n : s[k] = s[m] => k = m
<1> DEFINE T == {s[k] : k \in 1..n}
           f == [k \in 1..n |-> s[k]]
<1>1. IsFiniteSet(1..n) /\ Cardinality(1..n) = n
  <2>1. IsFiniteSet(1..n) /\ Cardinality(1..n) = IF 1 > n THEN 0 ELSE n - 1 + 1
    BY FS_Interval, 1 \in Int, n \in Int
  <2> QED BY <2>1
<1>2. f \in Surjection(1..n, T)
  BY DEF Surjection
<1>3. IsFiniteSet(T) /\ Cardinality(T) <= n /\ (Cardinality(T) = n <=> f \in Injection(1..n, T))
  BY <1>1, <1>2, FS_Surjection
<1>4. Cardinality(T) \in Nat
  BY <1>3, FS_CardinalityType
<1>5. f \in Injection(1..n, T)
  BY <1>3, <1>4
<1> QED BY <1>5 DEF Injection, IsInjective

\* Distinct tags are as many as the outbounds.
LEMMA AsManyTags ==
  ASSUME Len(tags) \in Nat, \A k, m \in Own : tags[k] = tags[m] => k = m
  PROVE  IsFiniteSet(OwnTag) /\ Cardinality(OwnTag) = Len(tags)
<1> DEFINE f == [k \in Own |-> tags[k]]
<1>1. IsFiniteSet(Own) /\ Cardinality(Own) = Len(tags)
  <2>1. /\ IsFiniteSet(1..Len(tags))
        /\ Cardinality(1..Len(tags)) = IF 1 > Len(tags) THEN 0 ELSE Len(tags) - 1 + 1
    BY FS_Interval, 1 \in Int, Len(tags) \in Int
  <2> QED BY <2>1 DEF Own
<1>2. f \in Surjection(Own, OwnTag) /\ f \in Injection(Own, OwnTag)
  BY DEF Surjection, Injection, IsInjective, OwnTag
<1> QED BY <1>1, <1>2, FS_Surjection

\* The first outbound that is not started.
LEMMA FirstUnstartedIs ==
  ASSUME Len(tags) \in Nat, NEW j \in Own, tags[j] \notin started
  PROVE  FirstUnstarted \in Own /\ tags[FirstUnstarted] \notin started
<1> DEFINE T == {k \in Own : tags[k] \notin started}
<1>1. T \subseteq Nat /\ T # {}
  BY DEF Own
<1>2. PICK x \in T : \A y \in T : ~(<<y, x>> \in OpToRel(<, Nat))
  BY <1>1, NatLessThanWellFounded, WFMin
<1>3. \A y \in T : ~(y < x)
  BY <1>1, <1>2 DEF OpToRel
<1>4. x \in Own /\ tags[x] \notin started
  BY <1>2
<1>5. \A m \in 1..(x - 1) : tags[m] \in started
  BY <1>3, <1>4 DEF Own
<1> QED BY <1>4, <1>5 DEF FirstUnstarted

\* Steps that leave the tags alone and are not at the providers.
LEMMA SameTags ==
  ASSUME NamesInv, UNCHANGED <<tags, deps, ptags>>, bxAt \notin {"tags", "duplicate"}, bxAt' # "providers"
  PROVE  /\ IsTags(tags)' /\ IsTags(ptags)' /\ (\A k \in 1..Len(tags) : IsTag(Numbered[k]))'
         /\ (\A k \in 1..Len(ptags) : IsTag(Labelled[k]))' /\ (deps \in [Own -> SUBSET Mentioned])'
         /\ OwnTag' = OwnTag /\ Own' = Own
         /\ OwnDistinct' /\ Registered' /\ NamesApart'
<1>1. /\ IsTags(tags)' /\ IsTags(ptags)' /\ (\A k \in 1..Len(tags) : IsTag(Numbered[k]))'
      /\ (\A k \in 1..Len(ptags) : IsTag(Labelled[k]))'
  BY DEF NamesInv, Shapes
<1>2. OwnTag' = OwnTag /\ Own' = Own
  BY DEF OwnTag, Own
<1>3. (deps \in [Own -> SUBSET Mentioned])'
  BY <1>2 DEF NamesInv, Shapes
<1>4. OwnDistinct'
  BY <1>2 DEF NamesInv, OwnDistinct
<1>5. Registered' /\ NamesApart'
  BY DEF Registered, NamesApart
<1> QED BY <1>1, <1>2, <1>3, <1>4, <1>5

\* SetTags: the tags are numbered and compared.
LEMMA SetTagsNames == ASSUME BoxInv, NamesInv, SetTags PROVE NamesInv'
<1> DEFINE n == Len(tags)
<1>1. n \in Nat /\ DOMAIN tags = 1..n /\ (\A k \in 1..n : IsTag(tags[k]) /\ IsTag(Numbered[k]))
  BY TagList DEF NamesInv, Shapes
<1>2. tags' = [k \in 1..n |-> IF tags[k] = NoTag THEN Numbered[k] ELSE tags[k]]
  BY DEF SetTags, Own
<1>3. IsTags(tags)' /\ Len(tags') = n
  <2>1. tags' = [k \in 1..n |-> tags'[k]] /\ \A k \in 1..n : IsTag(tags'[k])
    BY <1>1, <1>2
  <2> HIDE DEF n
  <2> QED BY <1>1, <2>1, MakesTagList
<1>4. Own' = Own /\ Own = 1..n /\ OwnTag' = {tags'[k] : k \in 1..n}
  BY <1>3 DEF Own, OwnTag
<1>5. /\ bxAt' \in {"duplicate", "providers"} /\ bxI' = 1 /\ started' = {} /\ oTree' = <<>>
      /\ UNCHANGED <<deps, ptags, canContinue>>
  BY DEF SetTags, GoesTo, BoxInv, EarlyInv, Early, NamesInv, Shapes, Walking
<1>6. Shapes'
  <2>1. /\ (\A k \in 1..Len(tags) : IsTag(Numbered[k]))' /\ (\A k \in 1..Len(ptags) : IsTag(Labelled[k]))'
        /\ IsTags(ptags)' /\ (deps \in [Own -> SUBSET Mentioned])' /\ canContinue' \in BOOLEAN
    BY <1>3, <1>4, <1>5 DEF NamesInv, Shapes
  <2>2. Len(ptags') \in Nat
    BY <2>1, TagList
  <2> QED BY <1>3, <1>5, <2>1, <2>2 DEF Shapes, Ended, Walking
<1>7. bxAt' = "providers" => \A k, m \in 1..n : tags'[k] = tags'[m] => k = m
  <2> SUFFICES ASSUME bxAt' = "providers" PROVE \A k, m \in 1..n : tags'[k] = tags'[m] => k = m
    OBVIOUS
  <2> DEFINE T == {tags'[k] : k \in 1..n}
  <2>1. ~(Cardinality(T) < n)
    BY <1>4 DEF SetTags, GoesTo
  <2>2. IsFiniteSet(1..n) /\ Cardinality(1..n) = n
    <3>1. IsFiniteSet(1..n) /\ Cardinality(1..n) = IF 1 > n THEN 0 ELSE n - 1 + 1
      BY <1>1, FS_Interval, 1 \in Int, n \in Int
    <3> QED BY <1>1, <3>1
  <2>3. IsFiniteSet(T)
    <3>1. [k \in 1..n |-> tags'[k]] \in Surjection(1..n, T)
      BY DEF Surjection
    <3> QED BY <2>2, <3>1, FS_Surjection
  <2>4. Cardinality(T) \in Nat
    BY <2>3, FS_CardinalityType
  <2>5. Cardinality(T) >= n
    BY <1>1, <2>1, <2>4
  <2> HIDE DEF n
  <2> QED BY <1>1, <2>5, DistinctTags
<1>8. OwnDistinct'
  BY <1>4, <1>5, <1>7 DEF OwnDistinct
<1>9. Registered'
  <2>1. outboundTag' = [t \in {tags'[k] : k \in 1..n} |-> 0]
    BY <1>4 DEF SetTags
  <2>2. 1..(bxI' - 1) = {}
    BY <1>5
  <2> QED BY <1>4, <2>1, <2>2 DEF Registered
<1>10. NamesApart'
  <2> SUFFICES ASSUME bxAt' = "providers", NEW k \in 1..n, NEW m \in 1..n, k < m, Name(k)' = Name(m)' PROVE FALSE
    <3>1. Len(tags') + bxI' - 1 = n
      BY <1>1, <1>3, <1>5
    <3> QED BY <3>1 DEF NamesApart
  <2>1. tags'[k] = tags'[m]
    BY <1>1, <1>3 DEF Name
  <2>2. k # m
    BY <1>1
  <2> QED BY <1>7, <2>1, <2>2
<1>11. PathInv'
  BY <1>5 DEF PathInv, Walking
<1> QED BY <1>6, <1>8, <1>9, <1>10, <1>11 DEF NamesInv

\* The tag a provider's outbound gets is one, and equals another only as it may.
LEMMA RenamedTag ==
  ASSUME NamesInv, bxAt = "providers", bxI <= Len(ptags)
  PROVE  /\ IsTag(Renamed(bxI))
         /\ Renamed(bxI) \in DOMAIN outboundTag =>
              Renamed(bxI).counts # <<>> /\ PlainTag(Renamed(bxI)) \in DOMAIN outboundTag
<1> DEFINE t == IF ptags[bxI] = NoTag THEN Labelled[bxI] ELSE ptags[bxI]
<1>1. Len(ptags) \in Nat /\ bxI \in 1..Len(ptags)
  BY TagList DEF NamesInv, Shapes
<1>2. IsTag(t)
  BY <1>1, TagList DEF NamesInv, Shapes
<1>3. Renamed(bxI) = IF t \in DOMAIN outboundTag THEN Bracketed(t, outboundTag[t] + 1) ELSE t
  BY DEF Renamed
<1> HIDE DEF t
<1>4. CASE t \in DOMAIN outboundTag
  <2>1. outboundTag[t] + 1 = 1 /\ 1 \in Nat
    BY <1>4 DEF NamesInv, Registered
  <2>2. Renamed(bxI) = Bracketed(t, 1)
    BY <1>3, <1>4, <2>1
  <2>3. IsTag(Bracketed(t, 1)) /\ Bracketed(t, 1).counts # <<>> /\ PlainTag(Bracketed(t, 1)) = t
    BY <1>2, <2>1, BracketedTag
  <2> QED BY <1>4, <2>2, <2>3
<1>5. CASE t \notin DOMAIN outboundTag
  BY <1>2, <1>3, <1>5
<1> QED BY <1>4, <1>5

\* One outbound of a provider.
LEMMA ProviderOutboundNames == ASSUME NamesInv, ProviderOutbound PROVE NamesInv'
<1> DEFINE n == Len(tags)
           q == Len(ptags)
           t == Renamed(bxI)
<1>0. n \in Nat /\ q \in Nat /\ DOMAIN ptags = 1..q /\ (\A k \in 1..q : IsTag(ptags[k]) /\ IsTag(Labelled[k]))
  BY TagList DEF NamesInv, Shapes
<1>1. /\ bxAt = "providers" /\ bxAt' = bxAt /\ bxI \in 1..q /\ bxI' = bxI + 1 /\ ptags' = [ptags EXCEPT ![bxI] = t]
      /\ UNCHANGED <<tags, deps, canContinue, started, oTree>> /\ outboundTag' = Register(t)
  BY <1>0 DEF ProviderOutbound, NamesInv, Shapes
<1>2. IsTag(t) /\ (t \in DOMAIN outboundTag => t.counts # <<>> /\ PlainTag(t) \in DOMAIN outboundTag)
  BY <1>0, <1>1, RenamedTag
<1> HIDE DEF t
<1>3. ptags'[bxI] = t /\ (\A k \in 1..q : k # bxI => ptags'[k] = ptags[k]) /\ ptags' = [k \in 1..q |-> ptags'[k]]
  <2>1. IsTags(ptags)
    BY DEF NamesInv, Shapes
  <2>2. ptags = [k \in 1..q |-> ptags[k]]
    BY <1>0, <2>1 DEF IsTags
  <2> HIDE DEF q
  <2> QED BY <1>1, <2>2
<1>4. IsTags(ptags)' /\ Len(ptags') = q
  <2>1. \A k \in 1..q : IsTag(ptags'[k])
    BY <1>0, <1>2, <1>3
  <2> HIDE DEF q
  <2> QED BY <1>0, <1>3, <2>1, MakesTagList
<1>5. Own' = Own /\ OwnTag' = OwnTag
  BY <1>1 DEF Own, OwnTag
<1>6. Shapes'
  <2>1. /\ IsTags(tags)' /\ (\A k \in 1..Len(tags) : IsTag(Numbered[k]))' /\ (\A k \in 1..Len(ptags) : IsTag(Labelled[k]))'
        /\ (deps \in [Own -> SUBSET Mentioned])' /\ canContinue' \in BOOLEAN /\ started' \subseteq OwnTag'
        /\ bxAt' \in {"tags", "providers", "pass", "lint"} \cup Ended /\ (bxAt' \notin Walking => oTree' = <<>>)
    BY <1>1, <1>4, <1>5 DEF NamesInv, Shapes
  <2>2. bxI' \in Nat \ {0} /\ bxI' <= q + 1
    BY <1>0, <1>1
  <2> QED BY <1>1, <1>4, <2>1, <2>2 DEF Shapes
<1>7. OwnDistinct'
  BY <1>1, <1>5 DEF NamesInv, OwnDistinct
<1>8. Registered'
  <2>1. /\ DOMAIN outboundTag = OwnTag \cup {ptags[k] : k \in 1..(bxI - 1)}
        /\ \A x \in DOMAIN outboundTag : outboundTag[x] = 0
    BY <1>1 DEF NamesInv, Registered
  <2>2. DOMAIN outboundTag' = DOMAIN outboundTag \cup {t} /\ \A x \in DOMAIN outboundTag' : outboundTag'[x] = 0
    BY <1>1, <2>1 DEF Register
  <2>3. {ptags'[k] : k \in 1..(bxI' - 1)} = {ptags[k] : k \in 1..(bxI - 1)} \cup {t}
    <3>1. 1..(bxI' - 1) = 1..(bxI - 1) \cup {bxI} /\ bxI \notin 1..(bxI - 1) /\ 1..(bxI - 1) \subseteq 1..q
      BY <1>0, <1>1
    <3> HIDE DEF q
    <3> QED BY <1>3, <3>1
  <2> QED BY <1>5, <2>1, <2>2, <2>3 DEF Registered
<1>9. NamesApart'
  <2>0. Len(tags') + bxI' - 1 = n + bxI /\ Len(tags) + bxI - 1 = n + bxI - 1 /\ bxI - 1 < q
    BY <1>0, <1>1
  <2>1. \A k \in 1..(n + bxI - 1) : Name(k)' = Name(k)
    <3> SUFFICES ASSUME NEW k \in 1..(n + bxI - 1) PROVE Name(k)' = Name(k)
      OBVIOUS
    <3>1. CASE k <= n
      BY <1>1, <3>1 DEF Name
    <3>2. CASE ~(k <= n)
      <4>1. k - n \in 1..q /\ k - n # bxI
        BY <1>0, <1>1, <3>2
      <4>2. ptags'[k - n] = ptags[k - n]
        BY <1>3, <4>1
      <4> QED BY <1>1, <3>2, <4>2 DEF Name
    <3> QED BY <3>1, <3>2
  <2>2. ASSUME NEW m \in Nat, m = n + bxI PROVE Name(m)' = t
    <3>1. ~(m <= n) /\ m - n = bxI
      BY <1>0, <1>1, <2>2
    <3> QED BY <1>1, <1>3, <3>1 DEF Name
  <2>3. \A x \in DOMAIN outboundTag : \E h \in 1..(n + bxI - 1) : Name(h) = x
    <3>1. DOMAIN outboundTag = OwnTag \cup {ptags[k] : k \in 1..(bxI - 1)}
      BY <1>1 DEF NamesInv, Registered
    <3>2. ASSUME NEW k \in 1..n PROVE k \in 1..(n + bxI - 1) /\ Name(k) = tags[k]
      BY <1>0, <1>1, <3>2 DEF Name
    <3>3. ASSUME NEW k \in 1..(bxI - 1) PROVE n + k \in 1..(n + bxI - 1) /\ Name(n + k) = ptags[k]
      <4>1. n + k \in 1..(n + bxI - 1) /\ ~(n + k <= n) /\ n + k - n = k
        BY <1>0, <1>1
      <4> QED BY <4>1 DEF Name
    <3> HIDE DEF n
    <3> QED BY <3>1, <3>2, <3>3 DEF OwnTag, Own, n
  <2>4. \A k \in 1..(n + bxI - 1) : Name(k) \in DOMAIN outboundTag
    <3> SUFFICES ASSUME NEW k \in 1..(n + bxI - 1) PROVE Name(k) \in DOMAIN outboundTag
      OBVIOUS
    <3>1. DOMAIN outboundTag = OwnTag \cup {ptags[m] : m \in 1..(bxI - 1)}
      BY <1>1 DEF NamesInv, Registered
    <3>2. CASE k <= n
      <4>1. k \in 1..n
        BY <1>0, <1>1, <3>2
      <4> QED BY <3>1, <3>2, <4>1 DEF Name, OwnTag, Own
    <3>3. CASE ~(k <= n)
      <4>1. k - n \in 1..(bxI - 1)
        BY <1>0, <1>1, <3>3
      <4> QED BY <3>1, <3>3, <4>1 DEF Name
    <3> QED BY <3>2, <3>3
  <2> SUFFICES ASSUME NEW k \in 1..(n + bxI), NEW m \in 1..(n + bxI), k < m, Name(k)' = Name(m)'
               PROVE  /\ Name(k)'.counts # <<>>
                      /\ \E h \in 1..(n + bxI) : Name(h)' = PlainTag(Name(k)')
    BY <2>0 DEF NamesApart, PlainTag
  <2>5. k \in 1..(n + bxI - 1) /\ 1..(n + bxI - 1) \subseteq 1..(n + bxI)
    BY <1>0, <1>1
  <2>6. Name(k)' = Name(k)
    BY <2>1, <2>5
  <2>7. Name(k).counts # <<>> /\ \E h \in 1..(n + bxI - 1) : Name(h) = PlainTag(Name(k))
    <3>1. CASE m = n + bxI
      <4>0. m \in Nat
        BY <1>0, <1>1
      <4>1. Name(k) = t /\ t \in DOMAIN outboundTag
        BY <2>2, <2>4, <2>5, <2>6, <3>1, <4>0
      <4>2. t.counts # <<>> /\ PlainTag(t) \in DOMAIN outboundTag
        BY <1>2, <4>1
      <4> QED BY <2>3, <4>1, <4>2
    <3>2. CASE m # n + bxI
      <4>1. m \in 1..(n + bxI - 1)
        BY <1>0, <1>1, <3>2
      <4>2. Name(m)' = Name(m)
        BY <2>1, <4>1
      <4> QED BY <1>1, <2>0, <2>5, <2>6, <4>1, <4>2 DEF NamesInv, NamesApart
    <3> QED BY <3>1, <3>2
  <2>8. PICK h \in 1..(n + bxI - 1) : Name(h) = PlainTag(Name(k))
    BY <2>7
  <2>9. h \in 1..(n + bxI) /\ Name(h)' = PlainTag(Name(k)')
    BY <2>1, <2>5, <2>6, <2>8
  <2> QED BY <2>6, <2>7, <2>9
<1>10. PathInv'
  BY <1>1 DEF PathInv, Walking
<1> QED BY <1>6, <1>7, <1>8, <1>9, <1>10 DEF NamesInv

\* A provider's outbound does not start: its tag is set, and that is all.
LEMMA ProviderFailsNames == ASSUME NamesInv, ProviderFails PROVE NamesInv'
<1> DEFINE q == Len(ptags)
           t == Renamed(bxI)
<1>0. q \in Nat /\ DOMAIN ptags = 1..q /\ (\A k \in 1..q : IsTag(ptags[k]))
  BY TagList DEF NamesInv, Shapes
<1>1. /\ bxAt = "providers" /\ bxAt' = "silent" /\ bxI \in 1..q /\ bxI' = 1 /\ ptags' = [ptags EXCEPT ![bxI] = t]
      /\ UNCHANGED <<tags, deps, canContinue, started, oTree>>
  BY <1>0 DEF ProviderFails, GoesTo, NamesInv, Shapes
<1>2. IsTag(t)
  BY <1>0, <1>1, RenamedTag
<1> HIDE DEF t
<1>3. IsTags(ptags)' /\ Len(ptags') = q
  <2>1. IsTags(ptags)
    BY DEF NamesInv, Shapes
  <2>2. ptags = [k \in 1..q |-> ptags[k]]
    BY <1>0, <2>1 DEF IsTags
  <2> HIDE DEF q
  <2>3. ptags'[bxI] = t /\ (\A k \in 1..q : k # bxI => ptags'[k] = ptags[k]) /\ ptags' = [k \in 1..q |-> ptags'[k]]
    BY <1>1, <2>2
  <2>4. \A k \in 1..q : IsTag(ptags'[k])
    BY <1>0, <1>2, <2>3
  <2> QED BY <1>0, <2>3, <2>4, MakesTagList
<1>4. Own' = Own /\ OwnTag' = OwnTag
  BY <1>1 DEF Own, OwnTag
<1>5. Shapes'
  <2>1. /\ IsTags(tags)' /\ (\A k \in 1..Len(tags) : IsTag(Numbered[k]))' /\ (\A k \in 1..Len(ptags) : IsTag(Labelled[k]))'
        /\ (deps \in [Own -> SUBSET Mentioned])' /\ canContinue' \in BOOLEAN /\ started' \subseteq OwnTag'
    BY <1>1, <1>3, <1>4 DEF NamesInv, Shapes
  <2>2. oTree' = <<>>
    BY <1>1 DEF NamesInv, Shapes, Walking
  <2> QED BY <1>1, <1>3, <2>1, <2>2 DEF Shapes, Ended
<1>6. OwnDistinct'
  BY <1>1, <1>4 DEF NamesInv, OwnDistinct
<1>7. Registered' /\ NamesApart' /\ PathInv'
  BY <1>1 DEF Registered, NamesApart, PathInv, Walking
<1> QED BY <1>5, <1>6, <1>7 DEF NamesInv

\* The steps of a pass, and the step to the first one.
LEMMA PassNames ==
  ASSUME NamesInv, ProvidersDone \/ Skip \/ StartOutbound \/ StartFails
  PROVE  NamesInv'
<1>0. Len(tags) \in Nat
  BY TagList DEF NamesInv, Shapes
<1>1. /\ bxAt \in {"providers", "pass"} /\ bxAt' \in {"pass", "failed"} /\ UNCHANGED <<tags, deps, ptags, oTree>>
      /\ bxI' \in Nat \ {0} /\ (bxAt' # "pass" => bxI' = 1) /\ (bxAt' = "pass" => bxI' <= Len(tags) + 1)
      /\ canContinue' \in BOOLEAN
  <2>1. bxI \in Nat \ {0} /\ canContinue \in BOOLEAN
    BY DEF NamesInv, Shapes
  <2>2. CASE ProvidersDone
    BY <1>0, <2>1, <2>2 DEF ProvidersDone, GoesTo
  <2>3. CASE Skip
    BY <1>0, <2>1, <2>3 DEF Skip
  <2>4. CASE StartOutbound
    BY <1>0, <2>1, <2>4 DEF StartOutbound
  <2>5. CASE StartFails
    BY <1>0, <2>1, <2>5 DEF StartFails, GoesTo
  <2> QED BY <2>2, <2>3, <2>4, <2>5
<1>2. /\ IsTags(tags)' /\ IsTags(ptags)' /\ (\A k \in 1..Len(tags) : IsTag(Numbered[k]))'
      /\ (\A k \in 1..Len(ptags) : IsTag(Labelled[k]))' /\ (deps \in [Own -> SUBSET Mentioned])'
      /\ OwnTag' = OwnTag /\ OwnDistinct' /\ Registered' /\ NamesApart'
  BY <1>1, SameTags
<1>3. started' \subseteq OwnTag'
  <2>1. started' = started \/ (started' = started \cup {tags[bxI]} /\ bxI \in Own)
    BY <1>0 DEF ProvidersDone, Skip, StartOutbound, StartFails, Own, NamesInv, Shapes
  <2>2. started \subseteq OwnTag
    BY DEF NamesInv, Shapes
  <2> QED BY <1>2, <2>1, <2>2 DEF OwnTag
<1>4. oTree' = <<>>
  BY <1>1 DEF NamesInv, Shapes, Walking
<1>5. Shapes'
  BY <1>1, <1>2, <1>3, <1>4 DEF Shapes, Ended
<1>6. PathInv'
  BY <1>1 DEF PathInv, Walking
<1> QED BY <1>2, <1>5, <1>6 DEF NamesInv

\* The end of a pass: the lint starts at an outbound that is not started.
LEMMA EndPassNames == ASSUME NamesInv, EndPass PROVE NamesInv'
<1>0. Len(tags) \in Nat
  BY TagList DEF NamesInv, Shapes
<1>1. /\ bxAt = "pass" /\ bxAt' \in {"ok", "pass", "lint"} /\ bxI' = 1 /\ UNCHANGED <<tags, deps, ptags, started>>
      /\ canContinue' \in BOOLEAN
      /\ (bxAt' # "lint" => oTree' = oTree)
      /\ (bxAt' = "lint" => oTree' = <<tags[FirstUnstarted]>> /\ Cardinality(started) # Len(tags))
  BY DEF EndPass, AgainOrLint, GoesTo, NamesInv, Shapes
<1>2. /\ IsTags(tags)' /\ IsTags(ptags)' /\ (\A k \in 1..Len(tags) : IsTag(Numbered[k]))'
      /\ (\A k \in 1..Len(ptags) : IsTag(Labelled[k]))' /\ (deps \in [Own -> SUBSET Mentioned])'
      /\ OwnTag' = OwnTag /\ OwnDistinct' /\ Registered' /\ NamesApart'
  BY <1>1, SameTags
<1>3. Shapes'
  <2>1. oTree = <<>> /\ started' \subseteq OwnTag'
    BY <1>1, <1>2 DEF NamesInv, Shapes, Walking
  <2> QED BY <1>0, <1>1, <1>2, <2>1 DEF Shapes, Ended, Walking
<1>4. PathInv'
  <2> SUFFICES ASSUME bxAt' = "lint" PROVE PathInv'
    BY <1>1 DEF PathInv, Walking
  <2>1. \E j \in Own : tags[j] \notin started
    <3> SUFFICES ASSUME \A j \in Own : tags[j] \in started PROVE FALSE
      OBVIOUS
    <3>1. started = OwnTag
      BY DEF NamesInv, Shapes, OwnTag
    <3>2. Cardinality(OwnTag) = Len(tags)
      BY <1>0, <1>1, AsManyTags DEF NamesInv, OwnDistinct
    <3> QED BY <1>1, <3>1, <3>2
  <2>2. FirstUnstarted \in Own /\ tags[FirstUnstarted] \notin started
    BY <1>0, <2>1, FirstUnstartedIs
  <2> DEFINE x == tags[FirstUnstarted]
  <2>3. x \in OwnTag \ started
    BY <2>2 DEF OwnTag
  <2>4. oTree' = <<x>>
    BY <1>1
  <2> HIDE DEF x
  <2>5. oTree' \in Seq(OwnTag \cup Mentioned) /\ Len(oTree') = 1 /\ oTree'[1] = x
    BY <2>3, <2>4
  <2>6. \A k \in 1..1 : k = 1
    OBVIOUS
  <2>7. 1..(1 - 1) = {}
    OBVIOUS
  <2>8. Walked' = 1
    BY <2>5 DEF Walked
  <2> QED BY <1>1, <1>2, <2>3, <2>5, <2>6, <2>7, <2>8 DEF PathInv
<1> QED BY <1>2, <1>3, <1>4 DEF NamesInv

\* One call of lintOutbound: the tag it is at is not started, so a dependency of it
\* is not, for the last pass started all that could be.
LEMMA LintNames == ASSUME BoxInv, NamesInv, LintOutbound PROVE NamesInv'
<1> DEFINE n == Len(oTree)
           last == oTree[n]
<1>0. /\ bxAt = "lint" /\ bxAt' \in Walking /\ UNCHANGED <<tags, deps, ptags, bxI, canContinue, started>>
  BY DEF LintOutbound, Walking
<1>1. /\ oTree \in Seq(OwnTag \cup Mentioned) /\ n \in Nat /\ n >= 1
      /\ \A k \in 1..n : oTree[k] \in OwnTag \ started
      /\ \A k, m \in 1..n : oTree[k] = oTree[m] => k = m
      /\ \A k \in 1..(n - 1) : oTree[k + 1] \in DepsOf(oTree[k]) \ started
  BY <1>0 DEF NamesInv, PathInv, Walked, Walking
<1>2. PICK problem \in Problem(last) :
        /\ oTree' = Append(oTree, problem)
        /\ bxAt' = IF Known(problem) THEN "cycle" ELSE IF problem \notin OwnTag THEN "missing" ELSE "lint"
  BY DEF LintOutbound
<1>3. n \in 1..n /\ last \in OwnTag \ started
  BY <1>1
<1>4. problem \in DepsOf(last) \ started /\ DepsOf(last) \subseteq Mentioned
  <2>1. PICK k \in Own : tags[k] = last
    BY <1>3 DEF OwnTag
  <2> DEFINE c == CHOOSE m \in Own : tags[m] = last
  <2>2. c \in Own /\ tags[c] = last
    BY <2>1
  <2>3. DepsOf(last) = deps[c]
    BY DEF DepsOf
  <2> HIDE DEF c, last
  <2>4. ~(deps[c] \subseteq started)
    BY <1>0, <1>3, <2>2 DEF BoxInv, LateInv, Late, Ready
  <2>5. deps[c] \subseteq Mentioned
    BY <2>2 DEF NamesInv, Shapes
  <2> QED BY <1>2, <2>3, <2>4, <2>5 DEF Problem
<1> HIDE DEF last
<1>5. /\ IsTags(tags)' /\ IsTags(ptags)' /\ (\A k \in 1..Len(tags) : IsTag(Numbered[k]))'
      /\ (\A k \in 1..Len(ptags) : IsTag(Labelled[k]))' /\ (deps \in [Own -> SUBSET Mentioned])'
      /\ OwnTag' = OwnTag /\ Own' = Own /\ OwnDistinct' /\ Registered' /\ NamesApart'
  <2>1. bxAt' # "providers"
    BY <1>0 DEF Walking
  <2> QED BY <1>0, <2>1, SameTags
<1>6. Shapes'
  BY <1>0, <1>5 DEF NamesInv, Shapes, Walking, Ended
<1>7. PathInv'
  <2>1. problem \in OwnTag \cup Mentioned
    BY <1>4
  <2>2. /\ oTree' \in Seq(OwnTag \cup Mentioned) /\ Len(oTree') = n + 1
        /\ (\A k \in 1..n : oTree'[k] = oTree[k]) /\ oTree'[n + 1] = problem
    BY <1>1, <1>2, <2>1, AppendIs
  <2>3. ASSUME NEW k \in 1..n PROVE DepsOf(oTree[k])' = DepsOf(oTree[k])
    BY <1>0, <1>5, <2>2 DEF DepsOf
  <2>4. (\A k \in 1..(Len(oTree) - 1) : oTree[k + 1] \in DepsOf(oTree[k]) \ started)'
    <3> SUFFICES ASSUME NEW k \in 1..n PROVE oTree'[k + 1] \in DepsOf(oTree[k]) \ started
      <4>1. Len(oTree') - 1 = n
        BY <1>1, <2>2
      <4> QED BY <1>0, <2>3, <4>1
    <3>1. CASE k = n
      BY <1>4, <2>2, <3>1 DEF last
    <3>2. CASE k # n
      <4>1. k \in 1..(n - 1) /\ k + 1 \in 1..n
        BY <1>1, <3>2
      <4> QED BY <1>1, <2>2, <4>1
    <3> QED BY <3>1, <3>2
  <2>5. \A k \in 1..Walked' : oTree'[k] \in OwnTag' \ started'
    <3>1. CASE bxAt' = "lint"
      <4>1. Walked' = n + 1 /\ problem \in OwnTag \ started
        BY <1>2, <1>4, <2>2, <3>1 DEF Walked
      <4>2. \A k \in 1..(n + 1) : k \in 1..n \/ k = n + 1
        BY <1>1
      <4> QED BY <1>0, <1>1, <1>5, <2>2, <4>1, <4>2
    <3>2. CASE bxAt' # "lint"
      <4>1. Walked' = n
        BY <1>1, <2>2, <3>2 DEF Walked
      <4> QED BY <1>0, <1>1, <1>5, <2>2, <4>1
    <3> QED BY <3>1, <3>2
  <2>6. \A k, m \in 1..Walked' : oTree'[k] = oTree'[m] => k = m
    <3>1. CASE bxAt' = "lint"
      <4>1. Walked' = n + 1 /\ ~Known(problem)
        BY <1>2, <2>2, <3>1 DEF Walked
      <4>2. \A k \in 1..n : oTree'[k] # problem
        BY <2>2, <4>1 DEF Known
      <4>3. \A k \in 1..(n + 1) : k \in 1..n \/ k = n + 1
        BY <1>1
      <4> QED BY <1>1, <2>2, <4>1, <4>2, <4>3
    <3>2. CASE bxAt' # "lint"
      <4>1. Walked' = n
        BY <1>1, <2>2, <3>2 DEF Walked
      <4> QED BY <1>1, <2>2, <4>1
    <3> QED BY <3>1, <3>2
  <2>7. bxAt' = "missing" => oTree'[Len(oTree')] \notin OwnTag'
    BY <1>2, <1>5, <2>2
  <2>8. bxAt' = "cycle" => \E k \in 1..(Len(oTree') - 1) : oTree'[k] = oTree'[Len(oTree')]
    <3>1. Len(oTree') - 1 = n
      BY <1>1, <2>2
    <3> QED BY <1>2, <2>2, <3>1 DEF Known
  <2>9. Len(oTree') >= 1
    BY <1>1, <2>2
  <2> QED BY <1>5, <2>2, <2>4, <2>5, <2>6, <2>7, <2>8, <2>9 DEF PathInv
<1> QED BY <1>5, <1>6, <1>7 DEF NamesInv

\* Before box.New nothing has a name.
LEMMA NamesInit == BxInit => NamesInv
<1> SUFFICES ASSUME BxInit PROVE NamesInv
  OBVIOUS
<1>1. IsTags(tags) /\ (\A k \in 1..Len(tags) : IsTag(Numbered[k]))
  BY BoxAssumption DEF BxInit
<1>2. IsTags(ptags) /\ (\A k \in 1..Len(ptags) : IsTag(Labelled[k]))
  BY BoxAssumption DEF BxInit
<1>3. bxAt = "tags" /\ bxI = 1 /\ started = {} /\ oTree = <<>>
  BY DEF BxInit
<1>4. canContinue \in BOOLEAN /\ deps \in [Own -> SUBSET Mentioned]
  BY DEF BxInit
<1>5. Shapes
  BY <1>1, <1>2, <1>3, <1>4 DEF Shapes, Ended
<1>6. OwnDistinct /\ Registered /\ NamesApart /\ PathInv
  BY <1>3 DEF OwnDistinct, Registered, NamesApart, PathInv, Walking
<1> QED BY <1>5, <1>6 DEF NamesInv

\* Every step gives tags only to what has none, and keeps those it gave.
LEMMA NamesStep == BoxInv /\ NamesInv /\ [BxNext]_bxVars => NamesInv'
<1> SUFFICES ASSUME BoxInv, NamesInv, [BxNext]_bxVars PROVE NamesInv'
  OBVIOUS
<1>1. CASE UNCHANGED bxVars
  <2>1. Shapes' /\ OwnDistinct'
    BY <1>1 DEF bxVars, NamesInv, Shapes, OwnDistinct, Own, OwnTag
  <2>2. Registered' /\ NamesApart'
    BY <1>1 DEF bxVars, NamesInv, Registered, NamesApart, Name, OwnTag, Own
  <2>3. /\ bxAt' = bxAt /\ oTree' = oTree /\ started' = started /\ Walked' = Walked
        /\ OwnTag' = OwnTag /\ \A x : DepsOf(x)' = DepsOf(x)
    BY <1>1 DEF bxVars, Walked, DepsOf, OwnTag, Own
  <2>4. PathInv'
    BY <2>3 DEF NamesInv, PathInv
  <2> QED BY <2>1, <2>2, <2>4 DEF NamesInv
<1> QED
  BY <1>1, SetTagsNames, ProviderOutboundNames, ProviderFailsNames, PassNames, EndPassNames, LintNames DEF BxNext

\* The path of the lint is no longer than the list of outbounds and one tag more.
LEMMA PathShort == ASSUME NamesInv PROVE Len(oTree) <= Len(tags) + 1
<1>0. Len(tags) \in Nat
  BY TagList DEF NamesInv, Shapes
<1>1. CASE bxAt \notin Walking
  BY <1>0, <1>1 DEF NamesInv, Shapes
<1>2. CASE bxAt \in Walking
  <2> DEFINE w == Walked
             f == [k \in 1..w |-> oTree[k]]
  <2>1. Len(oTree) \in Nat /\ Len(oTree) >= 1 /\ w \in Nat /\ Len(oTree) <= w + 1
    <3>1. oTree \in Seq(OwnTag \cup Mentioned) /\ Len(oTree) >= 1
      BY <1>2 DEF NamesInv, PathInv
    <3> QED BY <3>1 DEF Walked
  <2>2. f \in Injection(1..w, OwnTag)
    BY <1>2 DEF NamesInv, PathInv, Injection, IsInjective
  <2>3. IsFiniteSet(OwnTag) /\ Cardinality(OwnTag) = Len(tags)
    <3>1. bxAt \notin {"tags", "duplicate"}
      BY <1>2 DEF Walking
    <3> QED BY <1>0, <3>1, AsManyTags DEF NamesInv, OwnDistinct
  <2>4. IsFiniteSet(1..w) /\ Cardinality(1..w) = w
    <3> HIDE DEF w
    <3>1. IsFiniteSet(1..w) /\ Cardinality(1..w) = IF 1 > w THEN 0 ELSE w - 1 + 1
      BY <2>1, FS_Interval, 1 \in Int, w \in Int
    <3> QED BY <2>1, <3>1
  <2>5. Cardinality(1..w) <= Cardinality(OwnTag)
    BY <2>2, <2>3, <2>4, FS_Injection
  <2> QED BY <1>0, <2>1, <2>3, <2>4, <2>5
<1> QED BY <1>1, <1>2

\* The tags of the box's own outbounds and the providers' so far are the names.
LEMMA NamesAreTags == ASSUME NamesInv PROVE TagsDistinct
<1> DEFINE s == SubSeq(ptags, 1, bxI - 1)
           all == tags \o s
           n == Len(tags)
           N == n + bxI - 1
<1> SUFFICES ASSUME bxAt = "providers"
             PROVE  \A k, m \in 1..Len(all) :
                      k < m /\ all[k] = all[m] =>
                        all[k].counts # <<>> /\ \E h \in 1..Len(all) : all[h] = PlainTag(all[k])
  BY DEF TagsDistinct, PlainTag
<1> DEFINE S == {tags[k] : k \in DOMAIN tags} \cup {ptags[k] : k \in DOMAIN ptags}
<1>1. /\ n \in Nat /\ Len(ptags) \in Nat /\ bxI \in Nat \ {0} /\ bxI - 1 <= Len(ptags)
      /\ DOMAIN tags = 1..n /\ DOMAIN ptags = 1..Len(ptags)
  BY TagList DEF NamesInv, Shapes
<1>2. tags \in Seq(S) /\ ptags \in Seq(S)
  <2>1. tags \in Seq({tags[k] : k \in DOMAIN tags}) /\ ptags \in Seq({ptags[k] : k \in DOMAIN ptags})
    BY DEF NamesInv, Shapes, IsTags
  <2> QED BY <2>1
<1>3. s \in Seq(S) /\ Len(s) = bxI - 1 /\ \A k \in 1..(bxI - 1) : s[k] = ptags[k]
  <2> HIDE DEF S
  <2>1. bxI - 1 \in 0..Len(ptags)
    BY <1>1
  <2> QED BY <1>2, <2>1, FirstOf
<1>4. Len(all) = N /\ \A k \in 1..N : all[k] = Name(k)
  <2> HIDE DEF S, s
  <2>1. /\ Len(all) = n + Len(s)
        /\ \A k \in 1..(n + Len(s)) : all[k] = IF k <= n THEN tags[k] ELSE s[k - n]
    BY <1>2, <1>3, ConcatIs
  <2>2. n + Len(s) = N
    BY <1>1, <1>3
  <2>3. ASSUME NEW k \in 1..N, ~(k <= n) PROVE s[k - n] = ptags[k - n]
    <3>1. k - n \in 1..(bxI - 1)
      BY <1>1, <2>3
    <3> QED BY <1>3, <3>1
  <2> HIDE DEF all
  <2> QED BY <2>1, <2>2, <2>3 DEF Name
<1> HIDE DEF all
<1> QED BY <1>4 DEF NamesInv, NamesApart

\* What startOutbounds promises, whatever is configured: nothing is started before what it depends on, the
\* message of the lint is true, and tags collide only in the one way the counts leave open.
THEOREM StartAlwaysSound == BxSpec => []StartSound
<1>1. BoxInv /\ NamesInv => StartSound
  <2> SUFFICES ASSUME BoxInv, NamesInv PROVE StartSound
    OBVIOUS
  <2>1. BxTypeOK
    <3>1. Len(tags) \in Nat /\ Len(ptags) \in Nat
      BY TagList DEF NamesInv, Shapes
    <3>2. bxI \in 1..(Len(tags) + Len(ptags) + 1)
      BY <3>1 DEF NamesInv, Shapes
    <3> QED BY <3>2, PathShort DEF NamesInv, Shapes, BoxInv, SameStarted, BxTypeOK
  <2>2. LintRight
    BY DEF LintRight, NamesInv, PathInv, Walking
  <2> QED BY <2>1, <2>2, NamesAreTags DEF BoxInv, StartSound
<1>2. BxSpec => []NamesInv
  BY NamesInit, NamesStep, BoxInvariant, PTL DEF BxSpec
<1> QED BY <1>1, <1>2, BoxInvariant, PTL

-----------------------------------------------------------------------------
(* Provider. *)

(* What the proofs need of the types. *)
State == {"idle", "fetch", "read", "parse", "start", "groups", "truncate", "write"}
Text  == Content \cup {NoContent, Empty, Torn, NoEtag}

UpdRecord == [st : State, text : Text, batch : Batch, backup : Batch, next : Int]

ShapeInv ==
  /\ upd \in [Updater -> UpdRecord]
  /\ outbounds \in Batch
  /\ gen \in Nat
  /\ pvClosed \subseteq 1..gen
  /\ lastOuts \in Content \cup {NoContent}
  /\ lastEtag \in Content \cup {NoEtag}
  /\ file \in Content \cup {NoContent, Empty, Torn}
  /\ server \in Content

(* One update at a time: this is what the flag is for. *)
OneUpdate ==
  \A u \in Updater : upd[u].st # "idle" =>
    /\ updating
    /\ \A v \in Updater : v # u => upd[v].st = "idle"

(* Generations grow: one being started is newer than the one in force, and  *)
(* one that was put in its place is newer than the one it would go back to. *)
Generations ==
  /\ outbounds.gen <= gen /\ outbounds.gen \notin pvClosed
  /\ \A u \in Updater : upd[u].st = "start" =>
       /\ upd[u].batch.gen = gen /\ gen \notin pvClosed /\ outbounds.gen < gen
       /\ upd[u].batch.content = lastOuts
  /\ \A u \in Updater : upd[u].st = "groups" =>
       /\ upd[u].batch = outbounds
       /\ upd[u].backup.gen < outbounds.gen /\ upd[u].backup.gen \notin pvClosed

(* What an update holds is a content it downloaded, and what it is about to *)
(* write parses.                                                            *)
WritesText == \A u \in Updater :
  /\ upd[u].st \in {"read", "parse"} => upd[u].text \in Content
  /\ upd[u].st \in {"start", "groups"} => upd[u].text \in Content \ Bad
  /\ upd[u].st \in {"truncate", "write"} => upd[u].text \in Content \cup {Empty, Torn}
WritesParse == WritesText /\
  \A u \in Updater : upd[u].st \in {"truncate", "write"} => upd[u].text \notin Bad

(* A service that is down has nothing but the file. *)
DownInv == pvPhase = "down" => /\ \A u \in Updater : upd[u].st = "idle"
                             /\ pvClosed = {} /\ gen = 0 /\ ~failed

ProviderInv == /\ DownInv /\ ShapeInv /\ OneUpdate /\ Generations
               /\ LastOutsInForce /\ FileParses /\ WritesParse

\* What one update does to its own record leaves the others alone.
LEMMA SetCall ==
  ASSUME ShapeInv, NEW u \in Updater, NEW r \in UpdRecord, upd' = [upd EXCEPT ![u] = r]
  PROVE  /\ upd' \in [Updater -> UpdRecord]
         /\ upd'[u] = r
         /\ \A v \in Updater : v # u => upd'[v] = upd[v]
BY DEF ShapeInv

\* A call on its way has the fields it was made with.
LEMMA CallFields ==
  ASSUME NEW st \in State, NEW text \in Text, NEW batch \in Batch, NEW backup \in Batch,
         NEW next \in Int
  PROVE  /\ Call(st, text, batch, backup, next) \in UpdRecord
         /\ Call(st, text, batch, backup, next).st = st
         /\ Call(st, text, batch, backup, next).text = text
         /\ Call(st, text, batch, backup, next).batch = batch
         /\ Call(st, text, batch, backup, next).backup = backup
BY DEF Call, UpdRecord

\* An update goes on to a state in which it holds no outbounds.
LEMMA GoesOn ==
  ASSUME ShapeInv, NEW u \in Updater, NEW st \in State, NEW text \in Text, PvGoes(u, st, text)
  PROVE  /\ upd' \in [Updater -> UpdRecord]
         /\ upd'[u].st = st /\ upd'[u].text = text
         /\ \A v \in Updater : v # u => upd'[v] = upd[v]
<1>1. NoBatch \in Batch
  BY DEF NoBatch, Batch
<1>2. 1 \in Int
  OBVIOUS
<1> DEFINE r == Call(st, text, NoBatch, NoBatch, 1)
<1>3. r \in UpdRecord /\ r.st = st /\ r.text = text
  BY <1>1, <1>2, CallFields
<1>4. upd' = [upd EXCEPT ![u] = r]
  BY DEF PvGoes
<1> HIDE DEF r
<1> QED BY <1>3, <1>4, SetCall, ZenonT(30)

\* The update that ends leaves the others idle and the flag clear.
LEMMA FinishKeeps ==
  ASSUME ShapeInv, OneUpdate, NEW u \in Updater, upd[u].st # "idle", Finish(u)
  PROVE  /\ upd' \in [Updater -> UpdRecord]
         /\ \A v \in Updater : upd'[v].st = "idle"
<1>1. Idle \in UpdRecord /\ Idle.st = "idle"
  BY DEF Idle, Call, UpdRecord, State, Text, NoBatch, Batch
<1>2. \A v \in Updater : v # u => upd[v].st = "idle"
  BY DEF OneUpdate
<1> QED BY <1>1, <1>2 DEF Finish, ShapeInv

\* With every update idle only the state in force and the file remain to be shown.
LEMMA AllIdle ==
  ASSUME upd' \in [Updater -> UpdRecord], \A v \in Updater : upd'[v].st = "idle"
  PROVE  OneUpdate' /\ WritesParse'
BY DEF OneUpdate, WritesParse, WritesText

\* While one update goes on from state to state the others stay idle.
LEMMA OneAtWork ==
  ASSUME DownInv, OneUpdate, NEW u \in Updater, upd[u].st # "idle",
         pvPhase' = pvPhase, updating' = updating,
         \A v \in Updater : v # u => upd'[v] = upd[v]
  PROVE  DownInv' /\ OneUpdate'
<1>1. updating /\ \A v \in Updater : v # u => upd[v].st = "idle"
  BY DEF OneUpdate
<1>2. pvPhase # "down"
  BY DEF DownInv
<1>3. DownInv'
  BY <1>2 DEF DownInv
<1>4. OneUpdate'
  BY <1>1 DEF OneUpdate
<1> QED BY <1>3, <1>4

\* One step of the provider keeps the invariant.
LEMMA ProviderStep == ProviderInv /\ [PvNext]_pvVars => ProviderInv'
<1> SUFFICES ASSUME ProviderInv, [PvNext]_pvVars PROVE ProviderInv'
  OBVIOUS
<1> USE DEF ProviderInv
<1>1. ASSUME NEW u \in Updater, UpdateProvider(u) PROVE ProviderInv'
  <2>1. lastEtag \in Text /\ "fetch" \in State
    BY DEF ShapeInv, Text, State, UpdRecord
  <2>2. PvGoes(u, "fetch", lastEtag)
    BY <1>1 DEF UpdateProvider
  <2>3. /\ UNCHANGED <<pvPhase, server, file, lastEtag, lastOuts, outbounds, pvClosed, gen, failed>>
        /\ updating' /\ pvPhase = "up"
    BY <1>1, ProviderAssumption DEF UpdateProvider, mem, ShapeInv
  <2>4. /\ upd' \in [Updater -> UpdRecord]
        /\ upd'[u].st = "fetch" /\ upd'[u].text = lastEtag
        /\ \A v \in Updater : v # u => upd'[v] = upd[v]
    BY <2>1, <2>2, GoesOn
  <2>5. \A v \in Updater : v # u => upd[v].st = "idle"
    BY <1>1 DEF UpdateProvider, OneUpdate
  <2>6. upd[u].st \notin {"start", "groups"}
    BY <1>1 DEF UpdateProvider
  <2>7. ShapeInv'
    BY <2>3, <2>4 DEF ShapeInv
  <2>8. DownInv' /\ OneUpdate'
    BY <1>1, <2>3, <2>4, <2>5 DEF UpdateProvider, DownInv, OneUpdate
  <2>9. Generations' /\ LastOutsInForce'
    BY <2>3, <2>4, <2>5, <2>6 DEF Generations, LastOutsInForce
  <2>10. FileParses' /\ WritesParse'
    BY <1>1, <2>3, <2>4, <2>5 DEF UpdateProvider, FileParses, WritesParse, WritesText
  <2> QED BY <2>7, <2>8, <2>9, <2>10
<1>2. ASSUME NEW u \in Updater, FetchFails(u) PROVE ProviderInv'
  <2>0. upd[u].st # "idle"
    BY <1>2 DEF FetchFails
  <2>1. /\ upd' \in [Updater -> UpdRecord]
        /\ \A v \in Updater : upd'[v].st = "idle"
    BY <1>2, <2>0, FinishKeeps DEF FetchFails
  <2>2. UNCHANGED <<pvPhase, server, file, lastEtag, lastOuts, outbounds, pvClosed, gen, failed>>
    BY <1>2 DEF FetchFails, mem
  <2>3. ShapeInv'
    BY <2>1, <2>2 DEF ShapeInv
  <2>4. DownInv' /\ Generations' /\ FileParses'
    BY <2>0, <2>1, <2>2 DEF DownInv, Generations, FileParses
  <2>5. LastOutsInForce'
    <3>1. \A v \in Updater : upd[v].st # "start"
      BY <1>2, <2>0 DEF FetchFails, OneUpdate
    <3> QED BY <2>2, <3>1 DEF LastOutsInForce
  <2> QED BY <2>1, <2>3, <2>4, <2>5, AllIdle
<1>3. ASSUME NEW u \in Updater, NotModified(u) PROVE ProviderInv'
  <2>1. upd[u].st = "fetch" /\ UNCHANGED <<pvPhase, server, changes, file, mem>>
    BY <1>3 DEF NotModified
  <2>2. CASE Finish(u)
    BY <1>2, <2>1, <2>2 DEF FetchFails
  <2>3. CASE PvGoes(u, "truncate", IF file = NoContent THEN Empty ELSE file) /\ UNCHANGED updating
    <3> DEFINE text == IF file = NoContent THEN Empty ELSE file
    <3>1. text \in Content \cup {Empty, Torn} /\ text \notin Bad
      BY ProviderAssumption DEF ShapeInv, FileParses
    <3>2. text \in Text /\ "truncate" \in State
      BY <3>1 DEF Text, State
    <3> HIDE DEF text
    <3>3. /\ upd' \in [Updater -> UpdRecord]
          /\ upd'[u].st = "truncate" /\ upd'[u].text = text
          /\ \A v \in Updater : v # u => upd'[v] = upd[v]
      BY <2>3, <3>2, GoesOn DEF text
    <3>4. \A v \in Updater : v # u => upd[v].st = "idle"
      BY <2>1 DEF OneUpdate
    <3>5. ShapeInv'
      BY <2>1, <3>3 DEF ShapeInv, mem
    <3>6. DownInv' /\ OneUpdate'
      BY <2>1, <2>3, <3>3, <3>4 DEF DownInv, OneUpdate, mem
    <3>7. Generations' /\ LastOutsInForce'
      BY <2>1, <3>3, <3>4 DEF Generations, LastOutsInForce, mem
    <3>8. FileParses' /\ WritesParse'
      BY <2>1, <3>1, <3>3, <3>4 DEF FileParses, WritesParse, WritesText
    <3> QED BY <3>5, <3>6, <3>7, <3>8
  <2> QED BY <1>3, <2>2, <2>3 DEF NotModified
<1>4. ASSUME NEW u \in Updater, Received(u) PROVE ProviderInv'
  <2>1. server \in Text /\ "read" \in State
    BY DEF ShapeInv, Text, State, UpdRecord
  <2>2. PvGoes(u, "read", server)
    BY <1>4 DEF Received
  <2>3. /\ UNCHANGED <<pvPhase, server, file, lastEtag, lastOuts, outbounds, pvClosed, gen, failed, updating>>
    BY <1>4, ProviderAssumption DEF Received, mem, ShapeInv
  <2>4. /\ upd' \in [Updater -> UpdRecord]
        /\ upd'[u].st = "read" /\ upd'[u].text = server
        /\ \A v \in Updater : v # u => upd'[v] = upd[v]
    BY <2>1, <2>2, GoesOn
  <2>5. \A v \in Updater : v # u => upd[v].st = "idle"
    BY <1>4 DEF Received, OneUpdate
  <2>6. upd[u].st \notin {"start", "groups"}
    BY <1>4 DEF Received
  <2>7. ShapeInv'
    BY <2>3, <2>4 DEF ShapeInv
  <2>8. DownInv' /\ OneUpdate'
    BY <1>4, <2>3, <2>4, <2>5 DEF Received, DownInv, OneUpdate
  <2>9. Generations' /\ LastOutsInForce'
    BY <2>3, <2>4, <2>5, <2>6 DEF Generations, LastOutsInForce
  <2>10. FileParses' /\ WritesParse'
    BY <1>4, <2>3, <2>4, <2>5 DEF Received, FileParses, WritesParse, WritesText, ShapeInv
  <2> QED BY <2>7, <2>8, <2>9, <2>10
<1>5. ASSUME NEW u \in Updater, BodyRead(u) PROVE ProviderInv'
  <2>1. upd[u].text \in Text /\ "parse" \in State
    BY DEF ShapeInv, Text, State, UpdRecord
  <2>2. PvGoes(u, "parse", upd[u].text)
    BY <1>5 DEF BodyRead, Stays
  <2>3. /\ UNCHANGED <<pvPhase, server, file, lastOuts, outbounds, pvClosed, gen, failed, updating>>
        /\ lastEtag' \in Content \cup {NoEtag}
    BY <1>5, ProviderAssumption DEF BodyRead, mem, ShapeInv
  <2>4. /\ upd' \in [Updater -> UpdRecord]
        /\ upd'[u].st = "parse" /\ upd'[u].text = upd[u].text
        /\ \A v \in Updater : v # u => upd'[v] = upd[v]
    BY <2>1, <2>2, GoesOn
  <2>5. \A v \in Updater : v # u => upd[v].st = "idle"
    BY <1>5 DEF BodyRead, OneUpdate
  <2>6. upd[u].st \notin {"start", "groups"}
    BY <1>5 DEF BodyRead
  <2>7. ShapeInv'
    BY <2>3, <2>4 DEF ShapeInv
  <2>8. DownInv' /\ OneUpdate'
    <3>1. upd[u].st # "idle"
      BY <1>5 DEF BodyRead
    <3> QED BY <2>3, <2>4, <3>1, OneAtWork, ZenonT(30)
  <2>9. Generations' /\ LastOutsInForce'
    BY <2>3, <2>4, <2>5, <2>6 DEF Generations, LastOutsInForce
  <2>10. FileParses' /\ WritesParse'
    BY <1>5, <2>3, <2>4, <2>5 DEF BodyRead, FileParses, WritesParse, WritesText
  <2> QED BY <2>7, <2>8, <2>9, <2>10
<1>6. ASSUME NEW u \in Updater, ParseFails(u) PROVE ProviderInv'
  <2>0. upd[u].st # "idle"
    BY <1>6 DEF ParseFails
  <2>1. /\ upd' \in [Updater -> UpdRecord]
        /\ \A v \in Updater : upd'[v].st = "idle"
    BY <1>6, <2>0, FinishKeeps DEF ParseFails
  <2>2. UNCHANGED <<pvPhase, server, file, lastEtag, lastOuts, outbounds, pvClosed, gen, failed>>
    BY <1>6 DEF ParseFails, mem
  <2>3. ShapeInv'
    BY <2>1, <2>2 DEF ShapeInv
  <2>4. DownInv' /\ Generations' /\ FileParses'
    BY <2>0, <2>1, <2>2 DEF DownInv, Generations, FileParses
  <2>5. LastOutsInForce'
    <3>1. \A v \in Updater : upd[v].st # "start"
      BY <1>6, <2>0 DEF ParseFails, OneUpdate
    <3> QED BY <2>2, <3>1 DEF LastOutsInForce
  <2> QED BY <2>1, <2>3, <2>4, <2>5, AllIdle
<1>7. ASSUME NEW u \in Updater, ParseSame(u) PROVE ProviderInv'
  <2>1. upd[u].text \in Text /\ "truncate" \in State
    BY DEF ShapeInv, Text, State, UpdRecord
  <2>2. PvGoes(u, "truncate", upd[u].text)
    BY <1>7 DEF ParseSame, Stays
  <2>3. /\ UNCHANGED <<pvPhase, server, file, lastEtag, lastOuts, outbounds, pvClosed, gen, failed, updating>>
    BY <1>7, ProviderAssumption DEF ParseSame, mem, ShapeInv
  <2>4. /\ upd' \in [Updater -> UpdRecord]
        /\ upd'[u].st = "truncate" /\ upd'[u].text = upd[u].text
        /\ \A v \in Updater : v # u => upd'[v] = upd[v]
    BY <2>1, <2>2, GoesOn
  <2>5. \A v \in Updater : v # u => upd[v].st = "idle"
    BY <1>7 DEF ParseSame, OneUpdate
  <2>6. upd[u].st \notin {"start", "groups"}
    BY <1>7 DEF ParseSame
  <2>7. ShapeInv'
    BY <2>3, <2>4 DEF ShapeInv
  <2>8. DownInv' /\ OneUpdate'
    BY <1>7, <2>3, <2>4, <2>5 DEF ParseSame, DownInv, OneUpdate
  <2>9. Generations' /\ LastOutsInForce'
    BY <2>3, <2>4, <2>5, <2>6 DEF Generations, LastOutsInForce
  <2>10. FileParses' /\ WritesParse'
    BY <1>7, <2>3, <2>4, <2>5 DEF ParseSame, FileParses, WritesParse, WritesText
  <2> QED BY <2>7, <2>8, <2>9, <2>10
<1>8. ASSUME NEW u \in Updater, ParseNew(u) PROVE ProviderInv'
  <2> DEFINE text == upd[u].text
  <2>1. /\ upd[u].st = "parse" /\ text \in Content \ Bad
        /\ lastOuts' = text /\ ~failed'
        /\ UNCHANGED <<pvPhase, server, file, lastEtag, outbounds, pvClosed, updating>>
    BY <1>8 DEF ParseNew, WritesParse, WritesText
  <2>2. text \in Text /\ {"truncate", "start"} \subseteq State
    BY <2>1 DEF Text, State
  <2>3. \A v \in Updater : v # u => upd[v].st = "idle"
    BY <2>1 DEF OneUpdate
  <2>4. CASE text \in Hollow
    <3>1. PvGoes(u, "truncate", text) /\ UNCHANGED gen
      BY <1>8, <2>4 DEF ParseNew, Stays
    <3> HIDE DEF text
    <3>2. /\ upd' \in [Updater -> UpdRecord]
          /\ upd'[u].st = "truncate" /\ upd'[u].text = text
          /\ \A v \in Updater : v # u => upd'[v] = upd[v]
      BY <2>2, <3>1, GoesOn
    <3>3. ShapeInv'
      BY <2>1, <3>1, <3>2 DEF ShapeInv
    <3>4. DownInv' /\ OneUpdate'
      BY <2>1, <2>3, <3>2 DEF DownInv, OneUpdate
    <3>5. Generations'
      BY <2>1, <2>3, <3>1, <3>2 DEF Generations
    <3>6. LastOutsInForce'
      BY <2>1, <2>4 DEF LastOutsInForce
    <3>7. FileParses' /\ WritesParse'
      BY <2>1, <2>3, <3>2 DEF FileParses, WritesParse, WritesText
    <3> QED BY <3>3, <3>4, <3>5, <3>6, <3>7
  <2>5. CASE text \notin Hollow
    <3> DEFINE b == [content |-> text, gen |-> gen + 1]
               r == Call("start", text, b, NoBatch, 1)
    <3>1. gen' = gen + 1 /\ upd' = [upd EXCEPT ![u] = r]
      BY <1>8, <2>5 DEF ParseNew
    <3> HIDE DEF text
    <3>2. b \in Batch /\ NoBatch \in Batch /\ b.gen = gen + 1 /\ b.content = text
      BY <2>1 DEF Batch, NoBatch, ShapeInv
    <3> HIDE DEF b
    <3>3. r \in UpdRecord /\ r.st = "start" /\ r.batch = b /\ r.text = text
      BY <2>2, <3>2, CallFields
    <3> HIDE DEF r
    <3>4. /\ upd' \in [Updater -> UpdRecord] /\ upd'[u] = r
          /\ \A v \in Updater : v # u => upd'[v] = upd[v]
      BY <3>1, <3>3, SetCall, ZenonT(30)
    <3>5. ShapeInv'
      <4>1. gen' \in Nat /\ pvClosed' \subseteq 1..gen'
        BY <2>1, <3>1 DEF ShapeInv
      <4> QED BY <2>1, <3>4, <4>1 DEF ShapeInv
    <3>6. DownInv' /\ OneUpdate'
      BY <2>1, <2>3, <3>3, <3>4 DEF DownInv, OneUpdate
    <3>7. Generations'
      <4>1. /\ outbounds.gen \in Nat /\ gen \in Nat /\ outbounds.gen <= gen
            /\ gen + 1 \notin pvClosed /\ outbounds.gen \notin pvClosed
        BY DEF ShapeInv, Generations, Batch
      <4>2. outbounds.gen < gen + 1
        BY <4>1
      <4> QED BY <2>1, <2>3, <3>1, <3>2, <3>3, <3>4, <4>1, <4>2 DEF Generations
    <3>8. LastOutsInForce'
      BY <3>3, <3>4 DEF LastOutsInForce
    <3>9. FileParses' /\ WritesParse'
      BY <2>1, <2>3, <3>3, <3>4 DEF FileParses, WritesParse, WritesText
    <3> QED BY <3>5, <3>6, <3>7, <3>8, <3>9
  <2> QED BY <2>4, <2>5
<1>9. ASSUME NEW u \in Updater, PvStartFails(u) PROVE ProviderInv'
  <2>0. upd[u].st # "idle"
    BY <1>9 DEF PvStartFails
  <2>1. /\ upd' \in [Updater -> UpdRecord]
        /\ \A v \in Updater : upd'[v].st = "idle"
    BY <1>9, <2>0, FinishKeeps DEF PvStartFails
  <2>2. failed' /\ UNCHANGED <<pvPhase, server, file, lastEtag, lastOuts, outbounds, pvClosed, gen>>
    BY <1>9 DEF PvStartFails, mem
  <2>3. ShapeInv'
    BY <2>1, <2>2 DEF ShapeInv
  <2>4. DownInv' /\ Generations' /\ FileParses'
    BY <2>0, <2>1, <2>2 DEF DownInv, Generations, FileParses
  <2>5. LastOutsInForce'
    BY <2>2 DEF LastOutsInForce
  <2> QED BY <2>1, <2>3, <2>4, <2>5, AllIdle
<1>10. ASSUME NEW u \in Updater, Started(u) PROVE ProviderInv'
  <2> DEFINE b == upd[u].batch
             r == Call("groups", upd[u].text, b, outbounds, 1)
  <2>1. /\ upd[u].st = "start" /\ outbounds' = b /\ upd' = [upd EXCEPT ![u] = r]
        /\ UNCHANGED <<pvPhase, server, file, lastEtag, lastOuts, pvClosed, gen, failed, updating>>
    BY <1>10 DEF Started
  <2>2. b \in Batch /\ outbounds \in Batch /\ upd[u].text \in Text /\ "groups" \in State
    BY DEF ShapeInv, UpdRecord, State
  <2>3. b.gen = gen /\ gen \notin pvClosed /\ outbounds.gen < gen /\ b.content = lastOuts
    BY <2>1 DEF Generations
  <2>4. r \in UpdRecord /\ r.st = "groups" /\ r.batch = b /\ r.backup = outbounds
        /\ r.text = upd[u].text
    BY <2>2 DEF Call, UpdRecord
  <2> HIDE DEF b, r
  <2>5. /\ upd' \in [Updater -> UpdRecord] /\ upd'[u] = r
        /\ \A v \in Updater : v # u => upd'[v] = upd[v]
    BY <2>1, <2>4, SetCall, ZenonT(30)
  <2>6. \A v \in Updater : v # u => upd[v].st = "idle"
    BY <2>1 DEF OneUpdate
  <2>7. ShapeInv'
    BY <2>1, <2>2, <2>5 DEF ShapeInv
  <2>8. DownInv' /\ OneUpdate'
    BY <2>1, <2>4, <2>5, <2>6 DEF DownInv, OneUpdate
  <2>9. Generations'
    <3>1. gen \in Nat /\ outbounds.gen \notin pvClosed
      BY DEF ShapeInv, Generations
    <3>2. outbounds'.gen = gen' /\ outbounds'.gen \notin pvClosed' /\ gen' \in Nat
      BY <2>1, <2>3, <3>1
    <3>3. \A v \in Updater : upd'[v].st # "start"
      BY <2>4, <2>5, <2>6
    <3>4. \A v \in Updater : upd'[v].st = "groups" => v = u
      BY <2>5, <2>6
    <3>5. /\ upd'[u].batch = outbounds'
          /\ upd'[u].backup.gen < outbounds'.gen /\ upd'[u].backup.gen \notin pvClosed'
      BY <2>1, <2>3, <2>4, <2>5, <3>1
    <3> QED BY <3>2, <3>3, <3>4, <3>5 DEF Generations
  <2>10. LastOutsInForce'
    BY <2>1, <2>3 DEF LastOutsInForce
  <2>11. FileParses' /\ WritesParse'
    BY <2>1, <2>4, <2>5, <2>6 DEF FileParses, WritesParse, WritesText
  <2> QED BY <2>7, <2>8, <2>9, <2>10, <2>11
<1>11. ASSUME NEW u \in Updater, UpdateGroup(u) PROVE ProviderInv'
  <2>1. /\ upd[u].st = "groups"
        /\ PvGoes(u, "truncate", upd[u].text) \/ NextGroup(u)
        /\ UNCHANGED <<pvPhase, server, file, lastEtag, lastOuts, outbounds, pvClosed, gen, failed,
                       updating>>
    BY <1>11 DEF UpdateGroup, Stays
  <2>2. /\ upd[u].text \in Content \ Bad /\ upd[u].text \in Text
        /\ "truncate" \in State /\ "groups" \in State
    BY <2>1 DEF WritesParse, WritesText, Text, State
  <2>3. \A v \in Updater : v # u => upd[v].st = "idle"
    BY <2>1 DEF OneUpdate
  <2>4. /\ upd' \in [Updater -> UpdRecord]
        /\ upd'[u].st \in {"truncate", "groups"} /\ upd'[u].text = upd[u].text
        /\ upd'[u].st = "groups" => /\ upd'[u].batch = upd[u].batch
                                   /\ upd'[u].backup = upd[u].backup
        /\ \A v \in Updater : v # u => upd'[v] = upd[v]
    <3>1. CASE PvGoes(u, "truncate", upd[u].text)
      BY <2>2, <3>1, GoesOn
    <3>2. CASE NextGroup(u)
      <4> DEFINE r == Call("groups", upd[u].text, upd[u].batch, upd[u].backup, upd[u].next + 1)
      <4>1. upd[u].batch \in Batch /\ upd[u].backup \in Batch /\ upd[u].next + 1 \in Int
        BY DEF ShapeInv, UpdRecord
      <4>2. /\ r \in UpdRecord /\ r.st = "groups" /\ r.text = upd[u].text
            /\ r.batch = upd[u].batch /\ r.backup = upd[u].backup
        BY <2>2, <4>1 DEF Call, UpdRecord
      <4>3. upd' = [upd EXCEPT ![u] = r]
        BY <3>2 DEF NextGroup
      <4> HIDE DEF r
      <4> QED BY <4>2, <4>3, SetCall, ZenonT(30)
    <3> QED BY <2>1, <3>1, <3>2
  <2>5. ShapeInv'
    BY <2>1, <2>4 DEF ShapeInv
  <2>6. DownInv' /\ OneUpdate'
    BY <2>1, <2>3, <2>4 DEF DownInv, OneUpdate
  <2>7. Generations'
    BY <2>1, <2>3, <2>4 DEF Generations
  <2>8. LastOutsInForce'
    BY <2>1, <2>3, <2>4 DEF LastOutsInForce
  <2>9. FileParses' /\ WritesParse'
    BY <2>1, <2>2, <2>3, <2>4 DEF FileParses, WritesParse, WritesText
  <2> QED BY <2>5, <2>6, <2>7, <2>8, <2>9
<1>12. ASSUME NEW u \in Updater, GroupRejects(u) PROVE ProviderInv'
  <2>0. upd[u].st # "idle"
    BY <1>12 DEF GroupRejects
  <2>1. /\ upd' \in [Updater -> UpdRecord]
        /\ \A v \in Updater : upd'[v].st = "idle"
    BY <1>12, <2>0, FinishKeeps DEF GroupRejects
  <2>2. /\ upd[u].batch = outbounds /\ upd[u].backup \in Batch
        /\ upd[u].backup.gen < outbounds.gen /\ upd[u].backup.gen \notin pvClosed
        /\ outbounds.gen \in Nat /\ upd[u].backup.gen \in Nat
    BY <1>12 DEF GroupRejects, Generations, ShapeInv, UpdRecord, Batch
  <2>3. /\ pvClosed' = pvClosed \cup {outbounds.gen} /\ outbounds' = upd[u].backup /\ failed'
        /\ UNCHANGED <<pvPhase, server, file, lastEtag, lastOuts, gen>>
    BY <1>12, <2>2 DEF GroupRejects
  <2>4. outbounds.gen \in 1..gen
    BY <2>2 DEF Generations, ShapeInv
  <2>5. ShapeInv'
    <3>1. pvClosed' \subseteq 1..gen'
      BY <2>3, <2>4, ZenonT(30) DEF ShapeInv
    <3> QED BY <2>1, <2>2, <2>3, <3>1 DEF ShapeInv
  <2>6. Generations'
    BY <2>1, <2>2, <2>3, <2>4 DEF Generations, ShapeInv
  <2>7. DownInv' /\ LastOutsInForce' /\ FileParses'
    BY <2>0, <2>3 DEF DownInv, LastOutsInForce, FileParses
  <2> QED BY <2>1, <2>5, <2>6, <2>7, AllIdle
<1>13. ASSUME NEW u \in Updater, Truncate(u) PROVE ProviderInv'
  <2>1. upd[u].text \in Text /\ "write" \in State
    BY DEF ShapeInv, Text, State, UpdRecord
  <2>2. PvGoes(u, "write", upd[u].text)
    BY <1>13 DEF Truncate, Stays
  <2>3. /\ UNCHANGED <<pvPhase, server, lastEtag, lastOuts, outbounds, pvClosed, gen, failed, updating>>
        /\ file' = Empty
    BY <1>13, ProviderAssumption DEF Truncate, mem, ShapeInv
  <2>4. /\ upd' \in [Updater -> UpdRecord]
        /\ upd'[u].st = "write" /\ upd'[u].text = upd[u].text
        /\ \A v \in Updater : v # u => upd'[v] = upd[v]
    BY <2>1, <2>2, GoesOn
  <2>5. \A v \in Updater : v # u => upd[v].st = "idle"
    BY <1>13 DEF Truncate, OneUpdate
  <2>6. upd[u].st \notin {"start", "groups"}
    BY <1>13 DEF Truncate
  <2>7. ShapeInv'
    BY <2>3, <2>4 DEF ShapeInv
  <2>8. DownInv' /\ OneUpdate'
    <3>1. upd[u].st # "idle"
      BY <1>13 DEF Truncate
    <3> QED BY <2>3, <2>4, <3>1, OneAtWork, ZenonT(30)
  <2>9. Generations' /\ LastOutsInForce'
    BY <2>3, <2>4, <2>5, <2>6 DEF Generations, LastOutsInForce
  <2>10. FileParses' /\ WritesParse'
    BY <1>13, <2>3, <2>4, <2>5, ProviderAssumption DEF Truncate, FileParses, WritesParse, WritesText
  <2> QED BY <2>7, <2>8, <2>9, <2>10
<1>14. ASSUME NEW u \in Updater, Write(u) PROVE ProviderInv'
  <2>0. upd[u].st # "idle"
    BY <1>14 DEF Write
  <2>1. /\ upd' \in [Updater -> UpdRecord]
        /\ \A v \in Updater : upd'[v].st = "idle"
    BY <1>14, <2>0, FinishKeeps DEF Write
  <2>2. /\ file' = upd[u].text /\ upd[u].text \notin Bad
        /\ UNCHANGED <<pvPhase, server, mem>>
    BY <1>14 DEF Write, WritesParse
  <2>3. file' \in Content \cup {NoContent, Empty, Torn}
    BY <2>2, <1>14 DEF Write, WritesParse, WritesText
  <2>4. ShapeInv'
    BY <2>1, <2>2, <2>3 DEF ShapeInv, mem
  <2>5. DownInv' /\ Generations' /\ FileParses'
    BY <2>0, <2>1, <2>2 DEF DownInv, Generations, FileParses, mem
  <2>6. LastOutsInForce'
    <3>1. \A v \in Updater : upd[v].st # "start"
      BY <1>14, <2>0 DEF Write, OneUpdate
    <3> QED BY <2>2, <3>1 DEF LastOutsInForce, mem
  <2> QED BY <2>1, <2>4, <2>5, <2>6, AllIdle
<1>15. ASSUME NEW u \in Updater, WriteFails(u) PROVE ProviderInv'
  <2>0. upd[u].st # "idle"
    BY <1>15 DEF WriteFails
  <2>1. /\ upd' \in [Updater -> UpdRecord]
        /\ \A v \in Updater : upd'[v].st = "idle"
    BY <1>15, <2>0, FinishKeeps DEF WriteFails
  <2>2. UNCHANGED <<pvPhase, server, lastEtag, lastOuts, outbounds, pvClosed, gen, failed>>
    BY <1>15 DEF WriteFails, mem
  <2>3. file' \in Content \cup {NoContent, Empty, Torn} /\ file' \notin Bad
    BY <1>15, ProviderAssumption DEF WriteFails, Left, ShapeInv, FileParses
  <2>4. ShapeInv'
    BY <2>1, <2>2, <2>3 DEF ShapeInv
  <2>5. DownInv' /\ Generations' /\ FileParses'
    BY <2>0, <2>1, <2>2, <2>3 DEF DownInv, Generations, FileParses
  <2>6. LastOutsInForce'
    <3>1. \A v \in Updater : upd[v].st # "start"
      BY <1>15, <2>0 DEF WriteFails, OneUpdate
    <3> QED BY <2>2, <3>1 DEF LastOutsInForce
  <2> QED BY <2>1, <2>4, <2>5, <2>6, AllIdle
<1>16. CASE Boot
  <2>1. \A u \in Updater : upd[u].st = "idle"
    BY <1>16 DEF Boot, DownInv
  <2>2. ShapeInv'
    BY <1>16 DEF Boot, DownInv, ShapeInv, Batch, NoBatch
  <2>3. DownInv' /\ OneUpdate' /\ WritesParse' /\ FileParses'
    BY <1>16, <2>1 DEF Boot, DownInv, OneUpdate, WritesParse, WritesText, FileParses
  <2>4. Generations'
    <3>1. /\ pvPhase = "down" /\ pvClosed' = pvClosed /\ upd' = upd
          /\ \/ outbounds'.gen = gen + 1 /\ gen' = gen + 1
             \/ outbounds'.gen = 0 /\ gen' = gen
      BY <1>16 DEF Boot, NoBatch
    <3>2. pvClosed' = {} /\ gen = 0
      BY <3>1 DEF DownInv
    <3>3. outbounds'.gen <= gen' /\ outbounds'.gen \notin pvClosed'
      BY <3>1, <3>2
    <3> QED BY <2>1, <3>1, <3>3 DEF Generations
  <2>5. LastOutsInForce'
    BY <1>16 DEF Boot, LastOutsInForce, NoBatch
  <2> QED BY <2>2, <2>3, <2>4, <2>5
<1>17. CASE PvCrash
  <2>1. Idle \in UpdRecord /\ Idle.st = "idle"
    BY DEF Idle, Call, UpdRecord, State, Text, NoBatch, Batch
  <2>2. \A u \in Updater : upd'[u].st = "idle"
    BY <1>17, <2>1 DEF PvCrash
  <2>3. file' \in Content \cup {NoContent, Empty, Torn} /\ file' \notin Bad
    BY <1>17, ProviderAssumption DEF PvCrash, Left, ShapeInv, FileParses
  <2>4. ShapeInv'
    BY <1>17, <2>1, <2>3 DEF PvCrash, ShapeInv, Batch, NoBatch
  <2>5. DownInv' /\ OneUpdate' /\ WritesParse' /\ FileParses'
    BY <1>17, <2>2, <2>3 DEF PvCrash, DownInv, OneUpdate, WritesParse, WritesText, FileParses
  <2>6. outbounds' = NoBatch /\ gen' = 0 /\ pvClosed' = {} /\ lastOuts' = NoContent
    BY <1>17 DEF PvCrash
  <2>7. outbounds'.gen <= gen' /\ outbounds'.gen \notin pvClosed'
    BY <2>6 DEF NoBatch
  <2>8. Generations'
    BY <2>2, <2>7 DEF Generations
  <2>9. LastOutsInForce'
    BY <2>6 DEF LastOutsInForce, NoBatch
  <2> QED BY <2>4, <2>5, <2>8, <2>9
<1>18. CASE ChangeServer
  BY <1>18 DEF ChangeServer, DownInv, ShapeInv, OneUpdate, Generations, LastOutsInForce, FileParses, WritesParse, WritesText, UpdRecord, Batch, mem
<1>19. CASE UNCHANGED pvVars
  BY <1>19 DEF pvVars, DownInv, ShapeInv, OneUpdate, Generations, LastOutsInForce, FileParses, WritesParse, WritesText, UpdRecord, Batch, mem
<1> QED
  BY <1>1, <1>2, <1>3, <1>4, <1>5, <1>6, <1>7, <1>8, <1>9, <1>10, <1>11, <1>12, <1>13,
     <1>14, <1>15, <1>16, <1>17, <1>18, <1>19 DEF PvNext

\* The invariant holds from the first start on.
THEOREM ProviderInvariant == PvSpec => []ProviderInv
<1>1. PvInit => ProviderInv
  <2> SUFFICES ASSUME PvInit PROVE ProviderInv
    OBVIOUS
  <2>1. Idle \in UpdRecord /\ Idle.st = "idle"
    BY DEF Idle, Call, UpdRecord, State, Text, NoBatch, Batch
  <2>2. ShapeInv
    BY <2>1, ProviderAssumption DEF PvInit, ShapeInv, Batch, NoBatch
  <2>3. DownInv /\ OneUpdate /\ WritesParse /\ FileParses
    BY <2>1, ProviderAssumption DEF PvInit, DownInv, OneUpdate, WritesParse, WritesText, FileParses
  <2>4. Generations /\ LastOutsInForce
    BY <2>1 DEF PvInit, Generations, LastOutsInForce, NoBatch
  <2> QED BY <2>2, <2>3, <2>4 DEF ProviderInv
<1> QED BY <1>1, ProviderStep, PTL DEF PvSpec

\* The provider never offers outbounds it has closed.
THEOREM ProviderAlwaysOpen == PvSpec => []ProviderOpen
<1>1. ProviderInv => ProviderOpen
  BY DEF ProviderInv, Generations, ProviderOpen
<1> QED BY <1>1, ProviderInvariant, PTL

\* lastOuts stands for what is in force, unless an update failed.
THEOREM LastOutsAlwaysInForce == PvSpec => []LastOutsInForce
<1>1. ProviderInv => LastOutsInForce
  BY DEF ProviderInv
<1> QED BY <1>1, ProviderInvariant, PTL

\* No content that does not parse reaches the file the next start reads.
THEOREM FileAlwaysParses == PvSpec => []FileParses
<1>1. ProviderInv => FileParses
  BY DEF ProviderInv
<1> QED BY <1>1, ProviderInvariant, PTL

-----------------------------------------------------------------------------
(* The groups.  While they are gone through, those that were reached have    *)
(* the new outbounds, and before the first of them all have the old ones.    *)

OnlyFirstRejects == \A m \in 2..Len(Groups) : Rejects[Groups[m]] = {}

GroupTypes ==
  /\ pvPhase \in {"down", "up"} /\ changes \in 0..MaxChanges /\ updating \in BOOLEAN /\ failed \in BOOLEAN
  /\ group \in [Group -> Batch]
  /\ \A u \in Updater : upd[u].next \in 1..Len(Groups)

FollowInv ==
  OnlyFirstRejects =>
    /\ (\A u \in Updater : upd[u].st # "groups") => \A g \in Group : group[g] = outbounds
    /\ \A u \in Updater : upd[u].st = "groups" =>
         /\ \A m \in 1..(upd[u].next - 1) : group[Groups[m]] = outbounds
         /\ upd[u].next = 1 => \A g \in Group : group[g] = upd[u].backup

GroupsInv == GroupTypes /\ FollowInv

\* The number of groups, and their members.
LEMMA GroupNumbers ==
  /\ Len(Groups) \in Nat /\ Len(Groups) >= 1
  /\ \A m \in 1..Len(Groups) : Groups[m] \in Group
BY ProviderAssumption DEF Group

\* What a call that holds no outbounds is made with.
LEMMA CallNext ==
  ASSUME NEW st, NEW text, NEW batch, NEW backup, NEW next
  PROVE  /\ Call(st, text, batch, backup, next).next = next
         /\ Call(st, text, batch, backup, next).st = st
         /\ Call(st, text, batch, backup, next).backup = backup
BY DEF Call

\* An update that is not at the groups, before or after its step, leaves them alone.
LEMMA AwayFromGroups ==
  ASSUME ProviderInv, GroupsInv, NEW u \in Updater, upd[u].st # "groups",
         NEW r, upd' = [upd EXCEPT ![u] = r], r.st # "groups", r.next = 1,
         UNCHANGED <<group, outbounds>>
  PROVE  FollowInv' /\ (\A v \in Updater : upd'[v].next \in 1..Len(Groups))
<1>1. upd' \in [Updater -> UpdRecord \cup {r}] /\ upd'[u] = r /\ \A v \in Updater : v # u => upd'[v] = upd[v]
  BY DEF ProviderInv, ShapeInv
<1>2. \A v \in Updater : upd'[v].st = "groups" <=> upd[v].st = "groups"
  BY <1>1
<1>3. \A v \in Updater : upd'[v].st = "groups" => upd'[v] = upd[v]
  BY <1>1
<1>4. \A v \in Updater : upd'[v].next \in 1..Len(Groups)
  BY <1>1, GroupNumbers DEF GroupsInv, GroupTypes
<1>5. FollowInv'
  BY <1>2, <1>3 DEF GroupsInv, FollowInv, OnlyFirstRejects
<1> QED BY <1>4, <1>5

\* The same, for the two forms of a step.
LEMMA GoesAway ==
  ASSUME ProviderInv, GroupsInv, NEW u \in Updater, upd[u].st # "groups",
         NEW st \in State \ {"groups"}, NEW text, PvGoes(u, st, text) \/ Finish(u), UNCHANGED <<group, outbounds>>
  PROVE  FollowInv' /\ (\A v \in Updater : upd'[v].next \in 1..Len(Groups))
<1>1. CASE PvGoes(u, st, text)
  <2> DEFINE r == Call(st, text, NoBatch, NoBatch, 1)
  <2>1. upd' = [upd EXCEPT ![u] = r] /\ r.st # "groups" /\ r.next = 1
    BY <1>1, CallNext DEF PvGoes
  <2> HIDE DEF r
  <2> QED BY <2>1, AwayFromGroups
<1>2. CASE Finish(u)
  <2>1. upd' = [upd EXCEPT ![u] = Idle] /\ Idle.st # "groups" /\ Idle.next = 1
    BY <1>2, CallNext DEF Finish, Idle
  <2> QED BY <2>1, AwayFromGroups
<1> QED BY <1>1, <1>2

\* One step keeps the groups in line.
LEMMA GroupsStep == ProviderInv /\ GroupsInv /\ [PvNext]_pvVars => GroupsInv'
<1> SUFFICES ASSUME ProviderInv, GroupsInv, [PvNext]_pvVars PROVE GroupsInv'
  OBVIOUS
<1>0. GroupTypes /\ FollowInv
  BY DEF GroupsInv
<1>1. ASSUME NEW u \in Updater,
             \/ UpdateProvider(u) \/ FetchFails(u) \/ NotModified(u) \/ Received(u) \/ BodyRead(u) \/ ParseFails(u)
             \/ ParseSame(u) \/ PvStartFails(u) \/ Truncate(u) \/ Write(u) \/ WriteFails(u)
      PROVE  GroupsInv'
  <2>1. upd[u].st # "groups" /\ UNCHANGED <<pvPhase, changes, group, outbounds>>
    BY <1>1 DEF UpdateProvider, FetchFails, NotModified, Received, BodyRead, ParseFails, ParseSame, PvStartFails,
                Truncate, Write, WriteFails, mem
  <2>2. updating' \in BOOLEAN /\ failed' \in BOOLEAN
    BY <1>0, <1>1 DEF UpdateProvider, FetchFails, NotModified, Received, BodyRead, ParseFails, ParseSame, PvStartFails,
                Truncate, Write, WriteFails, mem, Finish, GroupTypes
  <2>3. \E st \in State \ {"groups"} : \E text : PvGoes(u, st, text) \/ Finish(u)
    <3>1. {"fetch", "read", "parse", "truncate", "write"} \subseteq State \ {"groups"}
      BY DEF State
    <3> QED BY <1>1, <3>1 DEF UpdateProvider, FetchFails, NotModified, Received, BodyRead, ParseFails, ParseSame, PvStartFails,
                Truncate, Write, WriteFails, Stays
  <2>4. FollowInv' /\ (\A v \in Updater : upd'[v].next \in 1..Len(Groups))
    BY <2>1, <2>3, GoesAway
  <2> QED BY <1>0, <2>1, <2>2, <2>4 DEF GroupsInv, GroupTypes
<1>2. ASSUME NEW u \in Updater, ParseNew(u) PROVE GroupsInv'
  <2>1. upd[u].st # "groups" /\ UNCHANGED <<pvPhase, changes, group, outbounds, updating>> /\ failed' = FALSE
    BY <1>2 DEF ParseNew
  <2>2. FollowInv' /\ (\A v \in Updater : upd'[v].next \in 1..Len(Groups))
    <3>1. CASE upd[u].text \in Hollow
      <4>1. PvGoes(u, "truncate", upd[u].text) /\ "truncate" \in State \ {"groups"}
        BY <1>2, <3>1 DEF ParseNew, Stays, State
      <4> QED BY <2>1, <4>1, GoesAway
    <3>2. CASE upd[u].text \notin Hollow
      <4> DEFINE r == Call("start", upd[u].text, [content |-> upd[u].text, gen |-> gen + 1], NoBatch, 1)
      <4>1. upd' = [upd EXCEPT ![u] = r] /\ r.st # "groups" /\ r.next = 1
        BY <1>2, <3>2, CallNext DEF ParseNew
      <4> HIDE DEF r
      <4> QED BY <2>1, <4>1, AwayFromGroups
    <3> QED BY <3>1, <3>2
  <2> QED BY <1>0, <2>1, <2>2 DEF GroupsInv, GroupTypes
<1>3. ASSUME NEW u \in Updater, Started(u) PROVE GroupsInv'
  <2> DEFINE r == Call("groups", upd[u].text, upd[u].batch, outbounds, 1)
  <2>1. /\ upd[u].st = "start" /\ upd' = [upd EXCEPT ![u] = r]
        /\ UNCHANGED <<pvPhase, changes, group, updating, failed>>
    BY <1>3 DEF Started
  <2>2. r.st = "groups" /\ r.next = 1 /\ r.backup = outbounds
    BY CallNext
  <2> HIDE DEF r
  <2>3. \A v \in Updater : v # u => upd[v].st = "idle"
    BY <2>1 DEF ProviderInv, OneUpdate
  <2>4. upd'[u] = r /\ \A v \in Updater : v # u => upd'[v] = upd[v]
    BY <2>1 DEF ProviderInv, ShapeInv
  <2>5. FollowInv'
    <3> SUFFICES ASSUME OnlyFirstRejects
                 PROVE  /\ upd'[u].st = "groups"
                        /\ \A v \in Updater : upd'[v].st = "groups" =>
                             /\ \A m \in 1..(upd'[v].next - 1) : group'[Groups[m]] = outbounds'
                             /\ upd'[v].next = 1 => \A g \in Group : group'[g] = upd'[v].backup
      BY DEF FollowInv, OnlyFirstRejects
    <3>1. \A v \in Updater : upd[v].st # "groups"
      BY <2>1, <2>3
    <3>2. \A g \in Group : group[g] = outbounds
      BY <1>0, <3>1 DEF FollowInv
    <3>3. 1..(r.next - 1) = {}
      BY <2>2
    <3> QED BY <2>1, <2>2, <2>3, <2>4, <3>2, <3>3
  <2>6. \A v \in Updater : upd'[v].next \in 1..Len(Groups)
    BY <1>0, <2>2, <2>4, GroupNumbers DEF GroupTypes
  <2> QED BY <1>0, <2>1, <2>5, <2>6 DEF GroupsInv, GroupTypes
<1>4. ASSUME NEW u \in Updater, UpdateGroup(u) PROVE GroupsInv'
  <2> DEFINE n == upd[u].next
  <2>1. /\ upd[u].st = "groups" /\ group' = [group EXCEPT ![Groups[n]] = outbounds]
        /\ UNCHANGED <<pvPhase, changes, outbounds, updating, failed>>
    BY <1>4 DEF UpdateGroup
  <2>2. n \in 1..Len(Groups) /\ Groups[n] \in Group /\ outbounds \in Batch /\ group \in [Group -> Batch]
    BY <1>0, GroupNumbers DEF GroupTypes, ProviderInv, ShapeInv
  <2>3. \A v \in Updater : v # u => upd[v].st = "idle"
    BY <2>1 DEF ProviderInv, OneUpdate
  <2>4. group' \in [Group -> Batch] /\ group'[Groups[n]] = outbounds
        /\ \A g \in Group : g # Groups[n] => group'[g] = group[g]
    BY <2>1, <2>2
  <2>5. OnlyFirstRejects => \A m \in 1..n : group'[Groups[m]] = outbounds
    <3> SUFFICES ASSUME OnlyFirstRejects, NEW m \in 1..n PROVE group'[Groups[m]] = outbounds
      OBVIOUS
    <3>1. CASE m = n
      BY <2>4, <3>1
    <3>2. CASE m # n
      <4>1. m \in 1..(n - 1) /\ m \in 1..Len(Groups)
        BY <2>2, <3>2, GroupNumbers
      <4>2. group[Groups[m]] = outbounds /\ Groups[m] \in Group
        BY <1>0, <2>1, <4>1, GroupNumbers DEF FollowInv
      <4> QED BY <2>4, <4>2
    <3> QED BY <3>1, <3>2
  <2>6. CASE n = Len(Groups)
    <3> DEFINE r == Call("truncate", upd[u].text, NoBatch, NoBatch, 1)
    <3>1. upd' = [upd EXCEPT ![u] = r] /\ r.st = "truncate" /\ r.next = 1
      BY <1>4, <2>6, CallNext DEF UpdateGroup, Stays, PvGoes
    <3> HIDE DEF r
    <3>2. upd'[u] = r /\ \A v \in Updater : v # u => upd'[v] = upd[v]
      BY <3>1 DEF ProviderInv, ShapeInv
    <3>3. OnlyFirstRejects => \A g \in Group : group'[g] = outbounds
      BY <2>5, <2>6 DEF Group
    <3>4. \A v \in Updater : upd'[v].st # "groups"
      BY <2>3, <3>1, <3>2
    <3>5. FollowInv'
      BY <2>1, <3>3, <3>4 DEF FollowInv, OnlyFirstRejects
    <3>6. \A v \in Updater : upd'[v].next \in 1..Len(Groups)
      BY <1>0, <3>1, <3>2, GroupNumbers DEF GroupTypes
    <3> QED BY <1>0, <2>1, <2>4, <3>5, <3>6 DEF GroupsInv, GroupTypes
  <2>7. CASE n # Len(Groups)
    <3> DEFINE r == Call("groups", upd[u].text, upd[u].batch, upd[u].backup, n + 1)
    <3>1. upd' = [upd EXCEPT ![u] = r] /\ r.st = "groups" /\ r.next = n + 1
      BY <1>4, <2>7, CallNext DEF UpdateGroup, NextGroup
    <3> HIDE DEF r
    <3>2. upd'[u] = r /\ \A v \in Updater : v # u => upd'[v] = upd[v]
      BY <3>1 DEF ProviderInv, ShapeInv
    <3>3. n + 1 \in 1..Len(Groups) /\ n + 1 # 1 /\ 1..(n + 1 - 1) = 1..n
      BY <2>2, <2>7, GroupNumbers
    <3>4. FollowInv'
      <4> SUFFICES ASSUME OnlyFirstRejects
                   PROVE  /\ upd'[u].st = "groups"
                          /\ \A v \in Updater : upd'[v].st = "groups" =>
                               /\ \A m \in 1..(upd'[v].next - 1) : group'[Groups[m]] = outbounds'
                               /\ upd'[v].next = 1 => \A g \in Group : group'[g] = upd'[v].backup
        BY DEF FollowInv, OnlyFirstRejects
      <4>1. \A v \in Updater : upd'[v].st = "groups" => v = u
        BY <2>3, <3>2
      <4>2. upd'[u].st = "groups" /\ upd'[u].next = n + 1
        BY <3>1, <3>2
      <4>3. \A m \in 1..n : group'[Groups[m]] = outbounds'
        BY <2>1, <2>5
      <4>4. \A m \in 1..(upd'[u].next - 1) : group'[Groups[m]] = outbounds'
        <5>1. upd'[u].next - 1 = n
          BY <2>2, <4>2, GroupNumbers
        <5> QED BY <4>3, <5>1
      <4> HIDE DEF n
      <4> QED BY <3>3, <4>1, <4>2, <4>4
    <3>5. \A v \in Updater : upd'[v].next \in 1..Len(Groups)
      BY <1>0, <3>1, <3>2, <3>3 DEF GroupTypes
    <3> QED BY <1>0, <2>1, <2>4, <3>4, <3>5 DEF GroupsInv, GroupTypes
  <2> QED BY <2>6, <2>7

<1>5. ASSUME NEW u \in Updater, GroupRejects(u) PROVE GroupsInv'
  <2>1. /\ upd[u].st = "groups" /\ Rejecting(u) /\ outbounds' = upd[u].backup /\ failed' = TRUE /\ updating' = FALSE
        /\ upd' = [upd EXCEPT ![u] = Idle] /\ UNCHANGED <<pvPhase, changes, group>>
    BY <1>5 DEF GroupRejects, Finish
  <2>2. Idle.st = "idle" /\ Idle.next = 1
    BY CallNext DEF Idle
  <2>3. \A v \in Updater : v # u => upd[v].st = "idle"
    BY <2>1 DEF ProviderInv, OneUpdate
  <2>4. upd'[u] = Idle /\ \A v \in Updater : v # u => upd'[v] = upd[v]
    BY <2>1 DEF ProviderInv, ShapeInv
  <2>5. FollowInv'
    <3> SUFFICES ASSUME OnlyFirstRejects PROVE \A g \in Group : group'[g] = outbounds'
      BY <2>2, <2>3, <2>4 DEF FollowInv, OnlyFirstRejects
    <3>1. upd[u].next \in 1..Len(Groups)
      BY <1>0 DEF GroupTypes
    <3>2. upd[u].next = 1
      <4> SUFFICES ASSUME upd[u].next # 1 PROVE FALSE
        OBVIOUS
      <4>1. upd[u].next \in 2..Len(Groups)
        BY <3>1, GroupNumbers
      <4>2. Rejects[Groups[upd[u].next]] = {}
        BY <4>1 DEF OnlyFirstRejects
      <4> QED BY <2>1, <4>2 DEF Rejecting
    <3> QED BY <1>0, <2>1, <3>2 DEF FollowInv
  <2>6. \A v \in Updater : upd'[v].next \in 1..Len(Groups)
    BY <1>0, <2>2, <2>4, GroupNumbers DEF GroupTypes
  <2> QED BY <1>0, <2>1, <2>5, <2>6 DEF GroupsInv, GroupTypes
<1>6. CASE Boot
  <2>1. /\ \A u \in Updater : upd'[u] = upd[u] /\ upd[u].st = "idle"
        /\ \A g \in Group : group'[g] = outbounds'
    BY <1>6 DEF Boot, ProviderInv, DownInv
  <2>2. group' \in [Group -> Batch]
    <3>1. NoBatch \in Batch /\ gen \in Nat
      BY DEF ProviderInv, ShapeInv, Batch, NoBatch
    <3>2. [content |-> file, gen |-> gen + 1] \in Batch \/ file \notin Content
      BY <3>1 DEF Batch
    <3> QED BY <1>6, <3>1, <3>2 DEF Boot
  <2>3. FollowInv'
    BY <2>1 DEF FollowInv
  <2> QED BY <1>0, <1>6, <2>1, <2>2, <2>3 DEF Boot, GroupsInv, GroupTypes
<1>7. CASE PvCrash
  <2>1. /\ \A u \in Updater : upd'[u] = Idle
        /\ \A g \in Group : group'[g] = outbounds'
        /\ Idle.st = "idle" /\ Idle.next = 1
    BY <1>7, CallNext DEF PvCrash, Idle
  <2>2. group' \in [Group -> Batch]
    BY <1>7 DEF PvCrash, Batch, NoBatch
  <2>3. FollowInv'
    BY <2>1 DEF FollowInv
  <2>4. \A u \in Updater : upd'[u].next \in 1..Len(Groups)
    BY <2>1, GroupNumbers
  <2> QED BY <1>0, <1>7, <2>2, <2>3, <2>4 DEF PvCrash, GroupsInv, GroupTypes
<1>8. CASE ChangeServer
  <2>1. changes' \in 0..MaxChanges /\ UNCHANGED <<pvPhase, updating, failed, group, outbounds, upd>>
    BY <1>0, <1>8, ProviderAssumption DEF ChangeServer, mem, GroupTypes
  <2>2. FollowInv'
    BY <1>0, <2>1 DEF FollowInv
  <2> QED BY <1>0, <2>1, <2>2 DEF GroupsInv, GroupTypes
<1>9. CASE UNCHANGED pvVars
  <2>1. UNCHANGED <<changes, pvPhase, updating, failed, group, outbounds, upd>>
    BY <1>9 DEF pvVars, mem
  <2>2. FollowInv'
    BY <1>0, <2>1 DEF FollowInv
  <2> QED BY <1>0, <2>1, <2>2 DEF GroupsInv, GroupTypes
<1> QED BY <1>1, <1>2, <1>3, <1>4, <1>5, <1>6, <1>7, <1>8, <1>9 DEF PvNext

\* updateProviderFromContent and updateGroups: whatever downloads, parses and groups fail and wherever the process ends,
\* between updates the groups use what the provider offers if only the first can refuse, lastOuts is the content in
\* force unless putting it there failed, and the file the next start reads parses or is torn.
THEOREM ProviderAlwaysSound == PvSpec => []ProviderSound
<1>1. PvInit => GroupsInv
  <2> SUFFICES ASSUME PvInit PROVE GroupsInv
    OBVIOUS
  <2>1. \A u \in Updater : upd[u].st = "idle" /\ upd[u].next = 1
    BY CallNext DEF PvInit, Idle
  <2>2. GroupTypes
    <3>1. \A u \in Updater : upd[u].next \in 1..Len(Groups)
      BY <2>1, GroupNumbers
    <3>2. group \in [Group -> Batch]
      BY DEF PvInit, Batch, NoBatch
    <3>3. 0 \in 0..MaxChanges
      BY ProviderAssumption
    <3> QED BY <3>1, <3>2, <3>3 DEF PvInit, GroupTypes
  <2>3. FollowInv
    BY <2>1 DEF PvInit, FollowInv
  <2> QED BY <2>2, <2>3 DEF GroupsInv
<1>2. ProviderInv /\ GroupsInv /\ [PvNext]_pvVars => GroupsInv'
  BY GroupsStep
<1>3. ProviderInv /\ GroupsInv => ProviderSound
  <2> SUFFICES ASSUME ProviderInv, GroupsInv PROVE ProviderSound
    OBVIOUS
  <2>1. upd \in [Updater -> [st : State, text : Text, batch : Batch, backup : Batch, next : 1..Len(Groups)]]
    BY DEF ProviderInv, ShapeInv, UpdRecord, GroupsInv, GroupTypes
  <2>2. PvTypeOK
    BY <2>1 DEF ProviderInv, ShapeInv, GroupsInv, GroupTypes, PvTypeOK, State, Text
  <2>3. GroupsFollow
    BY DEF GroupsInv, FollowInv, OnlyFirstRejects, GroupsFollow
  <2> QED BY <2>2, <2>3 DEF ProviderSound, ProviderInv
<1> QED BY <1>1, <1>2, <1>3, ProviderInvariant, PTL DEF PvSpec
=============================================================================
