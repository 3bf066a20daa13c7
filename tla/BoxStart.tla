------------------------------ MODULE BoxStart ------------------------------
(* The start of the outbounds (box_outbound.go): tags, the providers'       *)
(* outbounds, and passes over the box's own outbounds that start what has   *)
(* its dependencies started, until all are or none could be.                *)
EXTENDS Integers, Sequences, FiniteSets

CONSTANTS Given,      \* the tags the configuration may give the outbounds, in order
          Provided,   \* the tags of the outbounds the providers may hold, in order
          Mentioned,  \* the tags a list of dependencies may hold
          Numbered,   \* the tag made from an outbound's index
          Labelled,   \* the tag made from a provider's tag and an index
          NoTag       \* the empty tag

VARIABLES bxAt,         \* where startOutbounds is, or how it returned
          tags,         \* the tags of s.outbounds
          deps,         \* Dependencies() of each
          ptags,        \* the tags of the providers' outbounds
          outboundTag,  \* startProviderOutbounds's map
          bxI,          \* the index of the loop under way
          canContinue,
          started,      \* the tags in the map started
          bxOpen,       \* the own outbounds whose Start returned nil
          oTree         \* lintOutbound's path

bxVars == <<bxAt, tags, deps, ptags, outboundTag, bxI, canContinue, started, bxOpen, oTree>>

\* A tag: what it was made of, and the counts put behind it in brackets.
Tag(base) == [base |-> base, counts |-> <<>>]
Bracketed(tag, count) == [tag EXCEPT !.counts = Append(@, count)]

IsTag(tag)  == tag = [base |-> tag.base, counts |-> tag.counts] /\ tag.counts \in Seq(Nat)
IsTags(all) == all \in Seq({all[k] : k \in DOMAIN all}) /\ \A k \in DOMAIN all : IsTag(all[k])

ASSUME BoxAssumption ==
  /\ \A g \in Given : /\ IsTags(g) /\ Len(g) # 0
                       /\ \A k \in 1..Len(g) : IsTag(Numbered[k]) /\ Numbered[k] # NoTag
  /\ \A g \in Provided : IsTags(g) /\ \A k \in 1..Len(g) : IsTag(Labelled[k])
  /\ NoTag \notin Mentioned

Own    == 1..Len(tags)
OwnTag == {tags[k] : k \in Own}

Ended == {"ok", "duplicate", "silent", "failed", "cycle", "missing"}

\* The states of startOutbounds; what it started are outbounds of the box.
BxTypeOK ==
  /\ bxAt \in {"tags", "providers", "pass", "lint"} \cup Ended
  /\ deps \in [Own -> SUBSET Mentioned]
  /\ bxI \in 1..(Len(tags) + Len(ptags) + 1)
  /\ canContinue \in BOOLEAN
  /\ started \subseteq OwnTag
  /\ bxOpen \subseteq Own
  /\ Len(oTree) <= Len(tags) + 1

BxInit ==
  /\ bxAt = "tags"
  /\ tags \in Given
  /\ deps \in [Own -> SUBSET Mentioned]
  /\ ptags \in Provided
  /\ outboundTag = <<>>
  /\ bxI = 1
  /\ canContinue = FALSE
  /\ started = {}
  /\ bxOpen = {}
  /\ oTree = <<>>

----------------------------------------------------------------------------
GoesTo(where) == bxAt' = where /\ bxI' = 1

\* The outbounds without a tag are numbered; two equal tags are an error.
SetTags ==
  /\ bxAt = "tags"
  /\ tags' = [k \in Own |-> IF tags[k] = NoTag THEN Numbered[k] ELSE tags[k]]
  /\ outboundTag' = [t \in {tags'[k] : k \in Own} |-> 0]
  /\ GoesTo(IF Cardinality({tags'[k] : k \in Own}) < Len(tags) THEN "duplicate" ELSE "providers")
  /\ UNCHANGED <<deps, ptags, canContinue, started, bxOpen, oTree>>

\* The tag a provider's outbound gets: its own, or its label, with the count of
\* the tag behind it if the tag is taken.
Renamed(k) ==
  LET tag == IF ptags[k] = NoTag THEN Labelled[k] ELSE ptags[k]
  IN  IF tag \in DOMAIN outboundTag THEN Bracketed(tag, outboundTag[tag] + 1) ELSE tag

\* outboundTag[tag] = count is followed by outboundTag[tag] = 0: every entry is 0.
Register(tag) ==
  [t \in DOMAIN outboundTag \cup {tag} |-> IF t = tag THEN 0 ELSE outboundTag[t]]

\* One outbound of a provider is renamed and started.
ProviderOutbound ==
  /\ bxAt = "providers"
  /\ bxI <= Len(ptags)
  /\ ptags' = [ptags EXCEPT ![bxI] = Renamed(bxI)]
  /\ outboundTag' = Register(Renamed(bxI))
  /\ bxI' = bxI + 1
  /\ UNCHANGED <<bxAt, tags, deps, canContinue, started, bxOpen, oTree>>

\* Its Start fails: startOutbounds returns nil, and nothing more is started.
ProviderFails ==
  /\ bxAt = "providers"
  /\ bxI <= Len(ptags)
  /\ ptags' = [ptags EXCEPT ![bxI] = Renamed(bxI)]
  /\ GoesTo("silent")
  /\ UNCHANGED <<tags, deps, outboundTag, canContinue, started, bxOpen, oTree>>

ProvidersDone ==
  /\ bxAt = "providers"
  /\ bxI > Len(ptags)
  /\ GoesTo("pass")
  /\ UNCHANGED <<tags, deps, ptags, outboundTag, canContinue, started, bxOpen, oTree>>

Ready(k) == deps[k] \subseteq started

Skip ==
  /\ bxAt = "pass"
  /\ bxI <= Len(tags)
  /\ tags[bxI] \in started \/ ~Ready(bxI)
  /\ bxI' = bxI + 1
  /\ UNCHANGED <<bxAt, tags, deps, ptags, outboundTag, canContinue, started, bxOpen, oTree>>

\* The outbound counts as started before its Start is called.
StartOutbound ==
  /\ bxAt = "pass"
  /\ bxI <= Len(tags)
  /\ tags[bxI] \notin started
  /\ Ready(bxI)
  /\ started' = started \cup {tags[bxI]}
  /\ bxOpen' = bxOpen \cup {bxI}
  /\ canContinue' = TRUE
  /\ bxI' = bxI + 1
  /\ UNCHANGED <<bxAt, tags, deps, ptags, outboundTag, oTree>>

StartFails ==
  /\ bxAt = "pass"
  /\ bxI <= Len(tags)
  /\ tags[bxI] \notin started
  /\ Ready(bxI)
  /\ started' = started \cup {tags[bxI]}
  /\ canContinue' = TRUE
  /\ GoesTo("failed")
  /\ UNCHANGED <<tags, deps, ptags, outboundTag, bxOpen, oTree>>

FirstUnstarted == CHOOSE k \in Own : tags[k] \notin started
                                     /\ \A m \in 1..(k - 1) : tags[m] \in started

\* Mutant of AgainOrLint: there is no second pass.
AgainOrLintOnce ==
  /\ GoesTo("lint")
  /\ oTree' = <<tags[FirstUnstarted]>>
  /\ UNCHANGED canContinue

\* Not everything is started: another pass if the last one started something.
AgainOrLint ==
  IF canContinue
  THEN /\ GoesTo("pass")
       /\ canContinue' = FALSE
       /\ UNCHANGED oTree
  ELSE /\ GoesTo("lint")
       /\ oTree' = <<tags[FirstUnstarted]>>
       /\ UNCHANGED canContinue

EndPass ==
  /\ bxAt = "pass"
  /\ bxI > Len(tags)
  /\ IF Cardinality(started) = Len(tags)
     THEN GoesTo("ok") /\ UNCHANGED <<canContinue, oTree>>
     ELSE AgainOrLint
  /\ UNCHANGED <<tags, deps, ptags, outboundTag, started, bxOpen>>

DepsOf(tag) == deps[CHOOSE k \in Own : tags[k] = tag]

\* Mutant of Problem: a dependency that is started is followed too.
ProblemAny(tag) == IF DepsOf(tag) = {} THEN {NoTag} ELSE DepsOf(tag)

\* What lintOutbound may find first among the dependencies; the empty tag if none
\* is missing.
Problem(tag) ==
  IF DepsOf(tag) \subseteq started THEN {NoTag} ELSE DepsOf(tag) \ started

Known(tag) == \E k \in 1..Len(oTree) : oTree[k] = tag

\* One call of lintOutbound.
LintOutbound ==
  /\ bxAt = "lint"
  /\ \E problem \in Problem(oTree[Len(oTree)]) :
       /\ oTree' = Append(oTree, problem)
       /\ bxAt' = IF Known(problem) THEN "cycle"
                ELSE IF problem \notin OwnTag THEN "missing" ELSE "lint"
  /\ UNCHANGED <<tags, deps, ptags, outboundTag, bxI, canContinue, started, bxOpen>>

BxNext ==
  \/ SetTags \/ ProviderOutbound \/ ProviderFails \/ ProvidersDone
  \/ Skip \/ StartOutbound \/ StartFails \/ EndPass \/ LintOutbound

BxSpec == BxInit /\ [][BxNext]_bxVars

\* startOutbounds is one sequential call: it goes on until it returns.
BxFairSpec == BxSpec /\ WF_bxVars(BxNext)

----------------------------------------------------------------------------
(* Properties. *)

\* An outbound is started only when all it depends on runs: at no time is there a
\* started outbound with a dependency that is not, or whose Start failed.
DependenciesFirst ==
  \A k \in bxOpen : \A d \in deps[k] : \E m \in bxOpen : tags[m] = d

\* The sets of tags that hold every outbound whose dependencies they hold.
Closed    == {S \in SUBSET OwnTag : \A k \in Own : deps[k] \subseteq S => tags[k] \in S}
\* What can be started in some order: the least of them.
Startable == {t \in OwnTag : \A S \in Closed : t \in S}

\* However the outbounds are listed, the passes start exactly what some order could
\* start, before startOutbounds returns nil or looks for the problem.
StartsWhatCan ==
  bxAt \in {"ok", "lint", "cycle", "missing"} => {tags[k] : k \in bxOpen} = Startable

\* lintOutbound's message is true: the path it prints follows dependencies that
\* are not started, and ends in a tag that no outbound has or that closes a cycle.
LintRight ==
  bxAt \in {"cycle", "missing"} =>
    LET n == Len(oTree)
    IN  /\ \A k \in 1..(n - 1) : oTree[k + 1] \in DepsOf(oTree[k]) \ started
        /\ bxAt = "missing" => oTree[n] \notin OwnTag
        /\ bxAt = "cycle" => \E k \in 1..(n - 1) : oTree[k] = oTree[n]

\* startProviderOutbounds keeps tags apart as far as its counts go, which are always
\* 1: two outbounds end up with one tag only if the tag has a count and a third
\* outbound has it without.
TagsDistinct ==
  LET all        == tags \o SubSeq(ptags, 1, bxI - 1)
      Plain(tag) == [tag EXCEPT !.counts = SubSeq(@, 1, Len(@) - 1)]
  IN  bxAt = "providers" =>
        \A k, m \in 1..Len(all) :
          k < m /\ all[k] = all[m] =>
            /\ all[k].counts # <<>>
            /\ \E h \in 1..Len(all) : all[h] = Plain(all[k])

\* startOutbounds returns: neither the passes nor the lint go on for ever.
Returns == <>(bxAt \in Ended)

-----------------------------------------------------------------------------
(* The properties above, by subject. *)

\* What startOutbounds promises whatever the order of the list: nothing is started before what it depends on,
\* the error names a true cause, and tags collide only in the one way its counts leave open.
StartSound ==
  /\ BxTypeOK
  /\ DependenciesFirst
  /\ LintRight
  /\ TagsDistinct
=============================================================================
