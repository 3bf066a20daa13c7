---------------------------- MODULE GroupsProofs ----------------------------
(* Proofs about the outbound groups: the selector, the choice of a URL test  *)
(* group, and its loop, for any number of connections, of callers, of        *)
(* overlapping checks and of goroutines.                                     *)
EXTENDS Selector, URLTestSelect, URLTestLoop, FiniteSetTheorems, TLAPS

(* A leaf that names no prover goes to Zenon, for ten seconds, then to SMT.  *)
USE ZenonT(10), SMTT(20)

-----------------------------------------------------------------------------
(* The selector.                                                             *)

\* A group of which no provider ever changes.
NoUpdates == MaxGen = 0

\* What the argument needs of the state's shape, and that without an update of
\* the provider only setSelected changes the selection of a running group.
ShapeInv ==
  /\ setter = [x \in Setter |-> [st |-> setter[x].st, out |-> setter[x].out]]
  /\ conn = [c \in Conn |-> [st |-> conn[c].st, via |-> conn[c].via,
                             kind |-> conn[c].kind, late |-> conn[c].late]]
  /\ phase = "down" => \A c \in Conn : conn[c] = Free
  /\ gen = 0
  /\ updater.st = "idle"

Pending == \E x \in Setter : setter[x].st \in {"store", "interrupt"}

InterruptInv == ShapeInv /\ Interrupted

\* There are no connections at the start.
LEMMA InterruptInit == Init => InterruptInv
BY DEF Init, InterruptInv, ShapeInv, Interrupted, Interruptible, Idle, Free

\* Steps that change neither the selection nor the connections, nor end a call
\* of setSelected that has yet to interrupt, keep the property.
LEMMA KeepsInterrupted ==
  ASSUME Interrupted, conn' = conn, selected' = selected, Pending => Pending'
  PROVE  Interrupted'
BY DEF Interrupted, Interruptible, Pending

\* Every step keeps connections on the selected outbound or to be interrupted.
LEMMA InterruptNext ==
  ASSUME NoUpdates, InterruptInv, [Next]_vars
  PROVE  InterruptInv'
<1> USE DEF InterruptInv
<1>1. CASE Start
  <2>1. ShapeInv'
    BY <1>1 DEF Start, ShapeInv
  <2>2. \A c \in Conn : conn'[c].st = "free"
    BY <1>1 DEF Start, ShapeInv, Free
  <2> QED BY <2>1, <2>2 DEF Interrupted, Interruptible
<1>2. ASSUME NEW a \in Api, NEW t \in Tag, SelectOutbound(a, t) PROVE InterruptInv'
  <2>1. a \in Setter
    BY DEF Setter
  <2>2. ShapeInv'
    BY <1>2, <2>1 DEF SelectOutbound, ShapeInv
  <2>3. Pending => Pending'
    BY <1>2, <2>1 DEF SelectOutbound, ShapeInv, Pending
  <2> QED BY <1>2, <2>2, <2>3, KeepsInterrupted DEF SelectOutbound
<1>3. ASSUME NEW x \in Setter, SetSelected(x) PROVE InterruptInv'
  <2>1. ShapeInv'
    BY <1>3 DEF SetSelected, ShapeInv, Idle
  <2>2. CASE selected = setter[x].out
    <3>1. Pending => Pending'
      BY <1>3, <2>2 DEF SetSelected, ShapeInv, Pending
    <3> QED BY <1>3, <2>1, <2>2, <3>1, KeepsInterrupted DEF SetSelected
  <2>3. CASE selected # setter[x].out
    <3>1. setter'[x].st \in {"store", "interrupt"}
      BY <1>3, <2>3 DEF SetSelected, ShapeInv
    <3> QED BY <2>1, <3>1 DEF Interrupted
  <2> QED BY <2>2, <2>3
<1>4. ASSUME NEW x \in Setter, StoreSelected(x) PROVE InterruptInv'
  <2>1. ShapeInv'
    BY <1>4 DEF StoreSelected, ShapeInv
  <2>2. setter'[x].st = "interrupt"
    BY <1>4 DEF StoreSelected, ShapeInv
  <2> QED BY <2>1, <2>2 DEF Interrupted
<1>5. ASSUME NEW x \in Setter, Interrupt(x) PROVE InterruptInv'
  <2>1. \A c \in Conn : conn'[c] = IF Interruptible(c) THEN Free ELSE conn[c]
    BY <1>5 DEF Interrupt
  <2>2. ShapeInv'
    BY <1>5, <2>1, ZenonT(30) DEF Interrupt, ShapeInv, Idle, Free
  <2>3. \A c \in Conn : ~Interruptible(c)'
    BY <2>1 DEF Interruptible, Free
  <2> QED BY <2>2, <2>3 DEF Interrupted
<1>6. CASE UpdateSelected \/ LoadLastHistory \/ GetMinDelayDetour
  <2>1. Health \in Setter
    BY DEF Setter
  <2>2. ShapeInv'
    BY <1>6, <2>1 DEF UpdateSelected, LoadLastHistory, GetMinDelayDetour, ShapeInv, Idle
  <2>3. Pending => Pending'
    BY <1>6, <2>1 DEF UpdateSelected, LoadLastHistory, GetMinDelayDetour, ShapeInv, Pending
  <2> QED BY <1>6, <2>2, <2>3, KeepsInterrupted
          DEF UpdateSelected, LoadLastHistory, GetMinDelayDetour
<1>7. ASSUME NEW t \in Tag, NEW d \in Delays \cup {NoDelay}, Test(t, d)
      PROVE  InterruptInv'
  BY <1>7, KeepsInterrupted DEF Test, ShapeInv, Pending
<1>8. ASSUME NEW tags \in Contents, ReplaceOutbounds(tags) PROVE FALSE
  BY <1>8 DEF ReplaceOutbounds, NoUpdates, ShapeInv
<1>9. CASE PickOutbounds \/ AssignOutbounds
  BY <1>9 DEF PickOutbounds, AssignOutbounds, ShapeInv
<1>10. ASSUME NEW c \in Conn,
              \/ \E k \in {"internal", "external"} : DialContext(c, k)
              \/ NewConn(c)
              \/ DialFails(c)
              \/ NewConnection(c)
              \/ CloseConn(c)
       PROVE  InterruptInv'
  <2>1. phase' = phase /\ selected' = selected /\ setter' = setter /\ gen' = gen
        /\ updater' = updater
    BY <1>10 DEF DialContext, NewConn, DialFails, NewConnection, CloseConn
  <2>2. phase # "down"
    <3>1. CASE \E k \in {"internal", "external"} : DialContext(c, k)
      BY <3>1, ZenonT(30) DEF DialContext
    <3>2. CASE NewConn(c)
      BY <3>2 DEF NewConn, ShapeInv, Free
    <3>3. CASE DialFails(c)
      BY <3>3 DEF DialFails, ShapeInv, Free
    <3>4. CASE NewConnection(c)
      BY <3>4, ZenonT(30) DEF NewConnection
    <3>5. CASE CloseConn(c)
      BY <3>5 DEF CloseConn, ShapeInv, Free
    <3> QED BY <1>10, <3>1, <3>2, <3>3, <3>4, <3>5, ZenonT(30)
  <2>3. ShapeInv'
    <3>1. CASE \E k \in {"internal", "external"} : DialContext(c, k)
      BY <2>1, <2>2, <3>1, ZenonT(30) DEF DialContext, ShapeInv
    <3>2. CASE NewConn(c)
      BY <2>1, <2>2, <3>2, ZenonT(30) DEF NewConn, ShapeInv
    <3>3. CASE DialFails(c) \/ CloseConn(c)
      BY <2>1, <2>2, <3>3 DEF DialFails, CloseConn, ShapeInv, Free
    <3>4. CASE NewConnection(c)
      BY <2>1, <2>2, <3>4, ZenonT(30) DEF NewConnection, ShapeInv
    <3> QED BY <1>10, <3>1, <3>2, <3>3, <3>4
  <2>4. \A e \in Conn \ {c} : conn'[e] = conn[e]
    BY <1>10 DEF DialContext, NewConn, DialFails, NewConnection, CloseConn, ShapeInv
  <2>5. Interruptible(c)' /\ ~conn'[c].late => conn'[c].via = selected
    <3>1. CASE NewConn(c)
      <4>1. conn'[c].via = conn[c].via /\ (conn'[c].late <=> conn[c].via # selected)
        BY <3>1, ZenonT(30) DEF NewConn, ShapeInv
      <4> QED BY <4>1
    <3>2. CASE ~NewConn(c)
      <4>1. conn'[c].st # "open" \/ conn'[c].kind = "inbound"
        BY <1>10, <3>2 DEF DialContext, DialFails, NewConnection, CloseConn, ShapeInv, Free
      <4> QED BY <4>1 DEF Interruptible
    <3> QED BY <3>1, <3>2
  <2> QED BY <2>1, <2>3, <2>4, <2>5 DEF Interrupted, Interruptible
<1>11. CASE Stop
  <2>1. ShapeInv'
    BY <1>11 DEF Stop, ShapeInv, Idle, Free
  <2>2. \A c \in Conn : conn'[c].st = "free"
    BY <1>11 DEF Stop, Free
  <2> QED BY <2>1, <2>2 DEF Interrupted, Interruptible
<1>12. CASE UNCHANGED vars
  BY <1>12, KeepsInterrupted DEF vars, ShapeInv, Pending
<1> QED BY <1>1, <1>2, <1>3, <1>4, <1>5, <1>6, <1>7, <1>8, <1>9, <1>10, <1>11, <1>12 DEF Next

\* In a group whose providers do not change, a connection that setSelected left
\* behind is interrupted: however calls of SelectOutbound, health checks and
\* dials interleave, a registered connection uses the selected outbound, or an
\* Interrupt is still to come, or its dial was overtaken before NewConn.
THEOREM InterruptedWithoutUpdates == NoUpdates => (Spec => []Interrupted)
<1> SUFFICES ASSUME NoUpdates PROVE Spec => []Interrupted
  OBVIOUS
<1>1. InterruptInv /\ [Next]_vars => InterruptInv'
  BY InterruptNext
<1>2. InterruptInv => Interrupted
  BY DEF InterruptInv
<1> QED BY InterruptInit, <1>1, <1>2, PTL DEF Spec

-----------------------------------------------------------------------------
(* Lists, and the positions of the outbounds that pass a filter.             *)

\* A set of numbers that is not empty has a least one.
LEMMA LeastOf ==
  ASSUME NEW S, S \subseteq Nat, S # {}
  PROVE  \E k \in S : \A j \in S : k <= j
<1>1. PICK k \in S : \A j \in S : ~(<<j, k>> \in OpToRel(<, Nat))
  BY NatLessThanWellFounded, WFMin
<1>2. \A j \in S : ~(j < k)
  BY <1>1 DEF OpToRel
<1> QED BY <1>2

\* One of numbers up to n has a greatest.
LEMMA GreatestOf ==
  ASSUME NEW n \in Nat, NEW S, S \subseteq 1..n, S # {}
  PROVE  \E k \in S : \A j \in S : j <= k
<1> DEFINE T == {m \in Nat : n - m \in S}
<1>1. \A j \in S : n - j \in T
  OBVIOUS
<1>2. T \subseteq Nat /\ T # {}
  BY <1>1
<1>3. PICK m \in T : \A l \in T : m <= l
  BY <1>2, LeastOf
<1>4. \A j \in S : m <= n - j
  BY <1>1, <1>3
<1>5. n - m \in S /\ m \in Nat
  BY <1>3
<1> QED BY <1>4, <1>5

\* There are as many n-th positions as positions: the number of positions up
\* to k grows from 0 by at most one with k.
LEMMA NthIsPosition ==
  ASSUME NEW m \in Nat, NEW at \in SUBSET (1..m), NEW n \in 1..Cardinality(at)
  PROVE  Nth(at, n) \in at
<1> DEFINE upTo(k) == {j \in at : j <= k}
           reaching == {k \in Nat : n <= Cardinality(upTo(k))}
<1>1. IsFiniteSet(at) /\ Cardinality(at) \in Nat
  BY FS_Interval, FS_Subset, FS_CardinalityType, 1 \in Int, m \in Int
<1>2. \A k : IsFiniteSet(upTo(k)) /\ Cardinality(upTo(k)) \in Nat
  <2> TAKE k
  <2>1. upTo(k) \in SUBSET at
    OBVIOUS
  <2> QED BY <1>1, <2>1, FS_Subset, FS_CardinalityType
<1>3. upTo(m) = at /\ upTo(0) = {}
  <2>1. \A j \in at : j <= m /\ ~(j <= 0)
    OBVIOUS
  <2>2. upTo(m) = at
    BY <2>1
  <2>3. upTo(0) = {}
    BY <2>1
  <2> QED BY <2>2, <2>3
<1>4. m \in reaching
  BY <1>3
<1>5. PICK k \in reaching : \A j \in reaching : k <= j
  BY <1>4, LeastOf
<1>6. k \in Nat /\ n <= Cardinality(upTo(k))
  BY <1>5
<1>7. k # 0
  BY <1>3, <1>6, FS_EmptySet
<1>8. k - 1 \in Nat /\ Cardinality(upTo(k - 1)) < n
  <2>1. k - 1 \in Nat /\ ~(k <= k - 1)
    BY <1>6, <1>7
  <2>2. k - 1 \notin reaching
    BY <1>5, <2>1
  <2>3. ~(n <= Cardinality(upTo(k - 1)))
    BY <2>1, <2>2
  <2>4. Cardinality(upTo(k - 1)) \in Nat
    BY <1>2
  <2> QED BY <2>1, <2>3, <2>4
<1>9. k \in at
  <2> SUFFICES ASSUME k \notin at PROVE FALSE
    OBVIOUS
  <2>1. \A j \in at : j <= k <=> j <= k - 1
    BY <1>6
  <2>2. upTo(k) = upTo(k - 1)
    BY <2>1
  <2> HIDE DEF upTo
  <2> QED BY <1>2, <1>6, <1>8, <2>2
<1>10. upTo(k) = upTo(k - 1) \cup {k} /\ k \notin upTo(k - 1)
  <2>1. \A j \in at : j <= k <=> (j <= k - 1 \/ j = k)
    BY <1>6
  <2>2. upTo(k) = upTo(k - 1) \cup {k}
    BY <1>9, <2>1
  <2>3. ~(k <= k - 1)
    BY <1>6
  <2> QED BY <2>2, <2>3
<1>11. Cardinality(upTo(k)) = Cardinality(upTo(k - 1)) + 1
  <2> HIDE DEF upTo
  <2> QED BY <1>2, <1>10, FS_AddElement
<1>12. Cardinality(upTo(k)) = n
  <2> HIDE DEF upTo
  <2> QED BY <1>2, <1>6, <1>8, <1>11
<1> QED BY <1>9, <1>12 DEF Nth

\* The list of the outbounds that pass the filter is one of outbounds.
LEMMA FilteredType ==
  ASSUME offered \in Seq(Outbound)
  PROVE  Filtered \in Seq(Outbound)
<1> DEFINE n == Cardinality(Passing)
<1>1. DOMAIN offered = 1..Len(offered) /\ Len(offered) \in Nat
  OBVIOUS
<1>2. Passing \in SUBSET (1..Len(offered))
  BY <1>1 DEF Passing
<1>3. n \in Nat
  BY <1>1, <1>2, FS_Interval, FS_Subset, FS_CardinalityType, 1 \in Int, Len(offered) \in Int
<1>4. \A m \in 1..n : Nth(Passing, m) \in 1..Len(offered)
  BY <1>1, <1>2, NthIsPosition
<1>5. \A m \in 1..n : offered[Nth(Passing, m)] \in Outbound
  BY <1>4
<1> HIDE DEF n
<1> QED BY <1>3, <1>5 DEF Filtered, n
-----------------------------------------------------------------------------
(* The operators on lists of outbounds. *)

\* The index by tag has an outbound of the list under each tag of the list.
LEMMA ByTagIs ==
  ASSUME NEW list \in Seq(Outbound), NEW t \in Tags(list)
  PROVE  ByTag(list, t) \in Members(list) /\ ByTag(list, t).tag = t
<1> DEFINE at == {k \in DOMAIN list : list[k].tag = t}
<1>1. DOMAIN list = 1..Len(list) /\ Len(list) \in Nat
  OBVIOUS
<1>2. at \subseteq 1..Len(list) /\ at # {}
  BY <1>1 DEF Tags, Members
<1>3. PICK k \in at : \A j \in at : j <= k
  BY <1>1, <1>2, GreatestOf
<1>4. \E l \in DOMAIN list : /\ list[l].tag = t
                             /\ \A j \in DOMAIN list : list[j].tag = t => j <= l
  BY <1>3
<1> DEFINE last == CHOOSE l \in DOMAIN list :
                     /\ list[l].tag = t
                     /\ \A j \in DOMAIN list : list[j].tag = t => j <= l
<1>5. last \in DOMAIN list /\ list[last].tag = t
  BY <1>4
<1>6. ByTag(list, t) = list[last]
  BY DEF ByTag
<1> HIDE DEF last
<1> QED BY <1>5, <1>6 DEF Members

\* Members of a list of outbounds are outbounds, with tags that have a history.
LEMMA MembersAre ==
  ASSUME NEW list \in Seq(Outbound)
  PROVE  Members(list) \subseteq Outbound
BY DEF Members

\* The outbounds made of a list of tags.
LEMMA MadeType ==
  ASSUME NEW tags \in Seq(Tag), NEW g \in 0..MaxGen
  PROVE  Made(tags, g) \in Seq(Outbound)
<1>1. \A k \in 1..Len(tags) : [tag |-> tags[k], gen |-> g] \in Outbound
  BY DEF Outbound
<1>2. DOMAIN tags = 1..Len(tags) /\ Len(tags) \in Nat
  OBVIOUS
<1> QED BY <1>1, <1>2 DEF Made

\* What pickOutbounds collects and what it makes the members.
LEMMA PickedType ==
  ASSUME offered \in Seq(Outbound)
  PROVE  Collected \in Seq(Outbound) /\ Picked \in Seq(Outbound)
<1>1. 0 \in 0..MaxGen
  BY SelectorAssumption
<1>2. Made(Static, 0) \in Seq(Outbound)
  BY <1>1, MadeType, SelectorAssumption
<1>3. Collected \in Seq(Outbound)
  BY <1>2, FilteredType DEF Collected
<1>4. outboundless \in Outbound
  BY <1>1 DEF outboundless, Outbound
<1> QED BY <1>3, <1>4 DEF Picked

\* pickOutbounds selects one of the members it picks, and the stored one where that can be honoured.
LEMMA PickSelectedIs ==
  ASSUME offered \in Seq(Outbound), ~PickFails
  PROVE  /\ PickSelected \in Members(Picked)
         /\ HasCache /\ stored \in Tags(Picked) => PickSelected.tag = stored
<1>1. Collected \in Seq(Outbound)
  BY PickedType
<1>2. CASE Collected = <<>>
  <2>1. PickSelected = outboundless /\ Picked = <<outboundless>>
    BY <1>2 DEF PickSelected, Picked
  <2>2. Members(Picked) = {outboundless}
    BY <2>1 DEF Members
  <2> QED BY <2>1, <2>2 DEF Tags
<1>3. CASE Collected # <<>>
  <2>1. Picked = Collected
    BY <1>3 DEF Picked
  <2>2. CASE Remembered
    <3>1. PickSelected = ByTag(Collected, stored) /\ stored \in Tags(Collected)
      BY <1>3, <2>2 DEF PickSelected, Remembered
    <3> QED BY <1>1, <2>1, <3>1, ByTagIs
  <2>3. CASE ~Remembered
    <3>1. ~(HasCache /\ stored \in Tags(Picked))
      BY <2>1, <2>3 DEF Remembered
    <3>2. CASE Default # NoTag
      <4>1. Default \in Tags(Collected)
        BY <1>3, <2>3, <3>2 DEF PickFails
      <4>2. PickSelected = ByTag(Collected, Default)
        BY <1>3, <2>3, <3>2 DEF PickSelected
      <4> QED BY <1>1, <2>1, <3>1, <4>1, <4>2, ByTagIs
    <3>3. CASE Default = NoTag
      <4>1. PickSelected = Collected[1]
        BY <1>3, <2>3, <3>3 DEF PickSelected
      <4>2. 1 \in DOMAIN Collected
        BY <1>1, <1>3
      <4> QED BY <2>1, <3>1, <4>1, <4>2 DEF Members
    <3> QED BY <3>2, <3>3
  <2> QED BY <2>2, <2>3
<1> QED BY <1>2, <1>3

\* Where a member has been tested, the one of least delay is a member.
LEMMA MinDelayDetourIs ==
  ASSUME outbounds \in Seq(Outbound),
         history \in [Tag \cup {Outboundless} -> Delays \cup {NoDelay}],
         \E o \in Members(outbounds) : Tested(o)
  PROVE  MinDelayDetour \in Members(outbounds)
<1> DEFINE delay(k) == history[outbounds[k].tag]
           tested == {k \in DOMAIN outbounds : Tested(outbounds[k])}
           least == {delay(k) : k \in tested}
<1>1. DOMAIN outbounds = 1..Len(outbounds) /\ Len(outbounds) \in Nat
  OBVIOUS
<1>2. \A k \in tested : delay(k) \in Nat
  <2> TAKE k \in tested
  <2>1. outbounds[k] \in Outbound
    BY <1>1
  <2>2. delay(k) \in Delays \cup {NoDelay} /\ delay(k) # NoDelay
    BY <2>1 DEF Outbound, Tested
  <2> QED BY <2>2, SelectorAssumption
<1>3. least \subseteq Nat /\ least # {}
  BY <1>2 DEF Members
<1>4. PICK d \in least : \A e \in least : d <= e
  BY <1>3, LeastOf
<1> DEFINE best == {k \in tested : delay(k) = d}
<1>5. best \subseteq Nat /\ best # {}
  BY <1>1, <1>4
<1>6. PICK k \in best : \A j \in best : k <= j
  BY <1>5, LeastOf
<1>7. \A j \in tested : delay(k) < delay(j) \/ (delay(k) = delay(j) /\ k <= j)
  <2> TAKE j \in tested
  <2>1. delay(k) = d /\ d \in Nat /\ delay(j) \in Nat /\ d <= delay(j)
    BY <1>2, <1>3, <1>4, <1>6
  <2>2. delay(j) = d => j \in best
    OBVIOUS
  <2>3. delay(j) = d => k <= j
    BY <1>6, <2>2
  <2> HIDE DEF delay
  <2> QED BY <2>1, <2>3
<1> DEFINE First(l) == /\ Tested(outbounds[l])
                       /\ \A j \in DOMAIN outbounds : Tested(outbounds[j]) =>
                            \/ history[outbounds[l].tag] < history[outbounds[j].tag]
                            \/ history[outbounds[l].tag] = history[outbounds[j].tag] /\ l <= j
           min == CHOOSE l \in DOMAIN outbounds : First(l)
<1>8. k \in DOMAIN outbounds /\ First(k)
  BY <1>6, <1>7
<1>9. MinDelayDetour = outbounds[min]
  BY DEF MinDelayDetour
<1>10. min \in DOMAIN outbounds
  <2> HIDE DEF First
  <2> QED BY <1>8
<1> HIDE DEF min
<1> QED BY <1>9, <1>10 DEF Members

-----------------------------------------------------------------------------
(* The selection, while calls do not overlap. *)

Busy(x) == setter[x].st # "idle"

\* At most one call is in progress, and none while the service is down.
OneCall ==
  /\ phase = "down" => Calm
  /\ \A x \in Setter : Busy(x) => updater.st = "idle" /\ \A y \in Setter : Busy(y) => y = x

\* The members: those UpdateOutbounds is about to assign, once it has picked them.
Current == IF updater.st = "assign" THEN updater.list ELSE outbounds

\* The selection is one of the members, and the stored one where that can be
\* honoured, at every step of a call: setSelected has the member it looked up, and
\* stores what it has selected.
InForce ==
  phase = "up" =>
    /\ selected \in Members(Current)
    /\ \A x \in Setter :
         /\ setter[x].st \in {"set", "store", "interrupt"} => setter[x].out \in Members(outbounds)
         /\ setter[x].st \in {"store", "interrupt"} => setter[x].out = selected
    /\ HasCache /\ (\A x \in Setter : setter[x].st # "store") /\ stored \in Tags(Current) =>
         selected.tag = stored

CallInv == TypeOK /\ OneCall /\ InForce

\* The groups start without members.
LEMMA CallInit == Init => CallInv
<1> SUFFICES ASSUME Init PROVE CallInv
  OBVIOUS
<1>1. 0 \in 0..MaxGen /\ 0 \in 0..MaxTests
  BY SelectorAssumption
<1>2. offered \in Seq(Outbound)
  <2>1. PICK content \in Contents : offered = Made(content, 0)
    BY DEF Init
  <2> QED BY <1>1, <2>1, MadeType, SelectorAssumption
<1>3. setter \in [Setter -> [st : {"idle", "last", "min", "set", "store", "interrupt"},
                             out : Outbound \cup {NoOutbound}]]
  BY DEF Init, Idle
<1>4. conn \in [Conn -> [st : {"free", "dialing", "open"}, via : Outbound \cup {NoOutbound},
                         kind : Kind, late : BOOLEAN]]
  BY DEF Init, Free, Kind
<1>5. updater \in [st : {"idle", "pick", "assign"}, list : Seq(Outbound)]
  BY DEF Init
<1>6. TypeOK
  BY <1>1, <1>2, <1>3, <1>4, <1>5 DEF Init, TypeOK
<1>7. OneCall /\ InForce
  BY DEF Init, OneCall, InForce, Calm, Busy, Idle
<1> QED BY <1>6, <1>7 DEF CallInv

\* The types of the calls and of the connections, for steps that touch one.
SetterType == [st : {"idle", "last", "min", "set", "store", "interrupt"}, out : Outbound \cup {NoOutbound}]
ConnType == [st : {"free", "dialing", "open"}, via : Outbound \cup {NoOutbound}, kind : Kind, late : BOOLEAN]

\* A step of one call of the group.
LEMMA SetterStep ==
  ASSUME TypeOK, NEW x \in Setter, NEW r \in SetterType, setter' = [setter EXCEPT ![x] = r]
  PROVE  /\ setter' \in [Setter -> SetterType]
         /\ setter'[x] = r
         /\ \A y \in Setter \ {x} : setter'[y] = setter[y]
BY DEF TypeOK, SetterType

\* A call begins when there is no other, and no other begins while it goes on.
LEMMA OneCallStep ==
  ASSUME TypeOK, OneCall, NEW x \in Setter, phase = "up", phase' = phase, updater' = updater,
         \A y \in Setter \ {x} : setter'[y] = setter[y],
         Busy(x) \/ Calm
  PROVE  OneCall'
<1>1. updater.st = "idle" /\ \A y \in Setter \ {x} : setter[y].st = "idle"
  BY DEF OneCall, Busy, Calm
<1> QED BY <1>1 DEF OneCall, Busy, Calm

\* A step of a call that leaves the selection and the members alone.
LEMMA InForceStep ==
  ASSUME TypeOK, InForce, NEW x \in Setter, NEW r \in SetterType, setter' = [setter EXCEPT ![x] = r],
         phase = "up", phase' = phase, updater' = updater, outbounds' = outbounds, selected' = selected,
         stored' = stored, setter[x].st # "store", r.st # "store",
         r.st \in {"set", "interrupt"} => r.out \in Members(outbounds),
         r.st = "interrupt" => r.out = selected
  PROVE  InForce'
<1>1. setter'[x] = r /\ \A y \in Setter \ {x} : setter'[y] = setter[y]
  BY SetterStep
<1>2. (\A y \in Setter : setter'[y].st # "store") <=> \A y \in Setter : setter[y].st # "store"
  BY <1>1
<1>3. Current' = Current
  BY DEF Current
<1> QED BY <1>1, <1>2, <1>3 DEF InForce, Tags, Members

\* SelectOutbound has looked up a member.
LEMMA SelectOutboundStep ==
  ASSUME ~Overlap, CallInv, NEW a \in Api, NEW t \in Tag, SelectOutbound(a, t)
  PROVE  CallInv'
<1> DEFINE r == [st |-> "set", out |-> ByTag(outbounds, t)]
<1>1. a \in Setter
  BY DEF Setter
<1>2. TypeOK /\ OneCall /\ InForce
  BY DEF CallInv
<1>3. outbounds \in Seq(Outbound)
  BY <1>2 DEF TypeOK
<1>4. ByTag(outbounds, t) \in Members(outbounds) /\ ByTag(outbounds, t) \in Outbound
  BY <1>3, ByTagIs, MembersAre DEF SelectOutbound
<1>5. r \in SetterType
  BY <1>4 DEF SetterType
<1>6. /\ setter' = [setter EXCEPT ![a] = r] /\ phase = "up" /\ Calm
      /\ UNCHANGED <<phase, offered, outbounds, selected, stored, history, updater, conn, gen, tests>>
  BY DEF SelectOutbound, MayBegin
<1>7. r.st = "set" /\ r.out \in Members(outbounds)
  BY <1>4
<1> HIDE DEF r
<1>8. setter' \in [Setter -> SetterType] /\ \A y \in Setter \ {a} : setter'[y] = setter[y]
  BY <1>1, <1>2, <1>5, <1>6, SetterStep
<1>9. TypeOK'
  BY <1>2, <1>6, <1>8 DEF TypeOK, SetterType
<1>10. OneCall'
  BY <1>1, <1>2, <1>6, <1>8, OneCallStep
<1>11. InForce'
  <2>1. setter[a].st # "store"
    BY <1>1, <1>6 DEF Calm
  <2> QED BY <1>1, <1>2, <1>5, <1>6, <1>7, <2>1, InForceStep
<1> QED BY <1>9, <1>10, <1>11 DEF CallInv

\* A call that goes on is the only one, of a running group.
LEMMA OnlyCall ==
  ASSUME TypeOK, OneCall, NEW x \in Setter, setter[x].st # "idle"
  PROVE  /\ phase = "up" /\ updater.st = "idle" /\ Current = outbounds
         /\ \A y \in Setter \ {x} : setter[y].st = "idle"
BY DEF TypeOK, OneCall, Calm, Busy, Current

\* setSelected: the selection becomes the member it was given.
LEMMA SetSelectedStep ==
  ASSUME CallInv, NEW x \in Setter, SetSelected(x)
  PROVE  CallInv'
<1>1. TypeOK /\ OneCall /\ InForce
  BY DEF CallInv
<1>2. setter[x].st = "set" /\ setter[x] \in SetterType
  BY <1>1 DEF SetSelected, TypeOK, SetterType
<1>3. /\ phase = "up" /\ updater.st = "idle" /\ Current = outbounds
      /\ \A y \in Setter \ {x} : setter[y].st = "idle"
  BY <1>1, <1>2, OnlyCall
<1>4. UNCHANGED <<phase, offered, outbounds, stored, history, updater, conn, gen, tests>>
  BY DEF SetSelected
<1>5. setter[x].out \in Members(outbounds) /\ setter[x].out \in Outbound
  BY <1>1, <1>2, <1>3, MembersAre DEF InForce, TypeOK
<1>6. CASE selected = setter[x].out
  <2>1. setter' = [setter EXCEPT ![x] = Idle] /\ selected' = selected
    BY <1>6 DEF SetSelected
  <2>2. Idle \in SetterType /\ Idle.st = "idle"
    BY DEF Idle, SetterType
  <2>3. setter' \in [Setter -> SetterType] /\ \A y \in Setter \ {x} : setter'[y] = setter[y]
    BY <1>1, <2>1, <2>2, SetterStep
  <2>4. TypeOK'
    BY <1>1, <1>4, <2>1, <2>3 DEF TypeOK, SetterType
  <2>5. OneCall'
    BY <1>1, <1>2, <1>3, <1>4, <2>3, OneCallStep DEF Busy
  <2>6. InForce'
    BY <1>1, <1>2, <1>3, <1>4, <2>1, <2>2, InForceStep
  <2> QED BY <2>4, <2>5, <2>6 DEF CallInv
<1>7. CASE selected # setter[x].out
  <2> DEFINE next == IF HasCache THEN "store" ELSE "interrupt"
             r == [st |-> next, out |-> setter[x].out]
  <2>1. setter' = [setter EXCEPT ![x].st = next] /\ selected' = setter[x].out
    BY <1>7 DEF SetSelected
  <2>2. next \in {"store", "interrupt"} /\ (HasCache => next = "store")
    OBVIOUS
  <2>3. r \in SetterType
    BY <1>2, <2>2 DEF SetterType
  <2>4. setter' = [setter EXCEPT ![x] = r]
    <3> HIDE DEF next
    <3>1. [setter[x] EXCEPT !.st = next] = r
      BY <1>2 DEF SetterType
    <3>2. setter' = [setter EXCEPT ![x] = [setter[x] EXCEPT !.st = next]]
      BY <2>1
    <3> QED BY <3>1, <3>2
  <2>5. r.st = next /\ r.out = setter[x].out
    OBVIOUS
  <2> HIDE DEF r, next
  <2>6. /\ setter' \in [Setter -> SetterType] /\ setter'[x] = r
        /\ \A y \in Setter \ {x} : setter'[y] = setter[y]
    BY <1>1, <2>3, <2>4, SetterStep
  <2>7. TypeOK'
    BY <1>1, <1>4, <1>5, <2>1, <2>6 DEF TypeOK, SetterType
  <2>8. OneCall'
    BY <1>1, <1>2, <1>3, <1>4, <2>6, OneCallStep DEF Busy
  <2>9. InForce'
    BY <1>3, <1>4, <1>5, <2>1, <2>2, <2>5, <2>6 DEF InForce, Current, Members
  <2> QED BY <2>7, <2>8, <2>9 DEF CallInv
<1> QED BY <1>6, <1>7

\* StoreSelected stores what is selected.
LEMMA StoreSelectedStep ==
  ASSUME CallInv, NEW x \in Setter, StoreSelected(x)
  PROVE  CallInv'
<1> DEFINE r == [st |-> "interrupt", out |-> setter[x].out]
<1>1. TypeOK /\ OneCall /\ InForce
  BY DEF CallInv
<1>2. setter[x].st = "store" /\ setter[x] \in SetterType
  BY <1>1 DEF StoreSelected, TypeOK, SetterType
<1>3. /\ phase = "up" /\ updater.st = "idle" /\ Current = outbounds
      /\ \A y \in Setter \ {x} : setter[y].st = "idle"
  BY <1>1, <1>2, OnlyCall
<1>4. /\ UNCHANGED <<phase, offered, outbounds, selected, history, updater, conn, gen, tests>>
      /\ stored' = setter[x].out.tag
  BY DEF StoreSelected
<1>5. setter[x].out \in Members(outbounds) /\ setter[x].out \in Outbound /\ setter[x].out = selected
  BY <1>1, <1>2, <1>3, MembersAre DEF InForce, TypeOK
<1>6. r \in SetterType
  BY <1>2 DEF SetterType
<1>7. setter' = [setter EXCEPT ![x] = r]
  <2>1. [setter[x] EXCEPT !.st = "interrupt"] = r
    BY <1>2 DEF SetterType
  <2> QED BY <2>1 DEF StoreSelected
<1>8. r.st = "interrupt" /\ r.out = setter[x].out
  OBVIOUS
<1> HIDE DEF r
<1>9. /\ setter' \in [Setter -> SetterType] /\ setter'[x] = r
      /\ \A y \in Setter \ {x} : setter'[y] = setter[y]
  BY <1>1, <1>6, <1>7, SetterStep
<1>10. TypeOK'
  BY <1>1, <1>4, <1>5, <1>9 DEF TypeOK, SetterType, Outbound
<1>11. OneCall'
  BY <1>1, <1>2, <1>3, <1>4, <1>9, OneCallStep DEF Busy
<1>12. InForce'
  BY <1>3, <1>4, <1>5, <1>8, <1>9 DEF InForce, Current, Members
<1> QED BY <1>10, <1>11, <1>12 DEF CallInv

\* Interrupt ends the call.
LEMMA InterruptStep ==
  ASSUME CallInv, NEW x \in Setter, Interrupt(x)
  PROVE  CallInv'
<1>1. TypeOK /\ OneCall /\ InForce
  BY DEF CallInv
<1>2. setter[x].st = "interrupt" /\ setter' = [setter EXCEPT ![x] = Idle]
  BY DEF Interrupt
<1>3. /\ phase = "up" /\ updater.st = "idle" /\ Current = outbounds
      /\ \A y \in Setter \ {x} : setter[y].st = "idle"
  BY <1>1, <1>2, OnlyCall
<1>4. /\ UNCHANGED <<phase, offered, outbounds, selected, stored, history, updater, gen, tests>>
      /\ conn' = [c \in Conn |-> IF Interruptible(c) THEN Free ELSE conn[c]]
  BY DEF Interrupt
<1>5. Idle \in SetterType /\ Idle.st = "idle"
  BY DEF Idle, SetterType
<1>6. setter' \in [Setter -> SetterType] /\ \A y \in Setter \ {x} : setter'[y] = setter[y]
  BY <1>1, <1>2, <1>5, SetterStep
<1>7. conn' \in [Conn -> ConnType]
  <2>1. Free \in ConnType
    BY DEF Free, ConnType, Kind
  <2> QED BY <1>1, <1>4, <2>1 DEF TypeOK, ConnType
<1>8. TypeOK'
  BY <1>1, <1>4, <1>6, <1>7 DEF TypeOK, SetterType, ConnType
<1>9. OneCall'
  BY <1>1, <1>2, <1>3, <1>4, <1>6, OneCallStep DEF Busy
<1>10. InForce'
  BY <1>1, <1>2, <1>3, <1>4, <1>5, InForceStep
<1> QED BY <1>8, <1>9, <1>10 DEF CallInv

\* UpdateSelected: the fallback, if any, is to a member.
LEMMA UpdateSelectedStep ==
  ASSUME ~Overlap, CallInv, UpdateSelected \/ LoadLastHistory \/ GetMinDelayDetour
  PROVE  CallInv'
<1>1. TypeOK /\ OneCall /\ InForce
  BY DEF CallInv
<1>2. Health \in Setter
  BY DEF Setter
<1>3. UNCHANGED <<phase, offered, outbounds, selected, stored, history, updater, conn, gen, tests>>
  BY DEF UpdateSelected, LoadLastHistory, GetMinDelayDetour
<1>4. phase = "up" /\ (Busy(Health) \/ Calm) /\ setter[Health].st # "store"
  <2>1. CASE UpdateSelected
    BY <2>1 DEF UpdateSelected, MayBegin
  <2>2. CASE LoadLastHistory \/ GetMinDelayDetour
    <3>1. setter[Health].st \in {"last", "min"}
      BY <2>2 DEF LoadLastHistory, GetMinDelayDetour
    <3> QED BY <1>1, <1>2, <3>1, OnlyCall DEF Busy
  <2> QED BY <2>1, <2>2
<1>5. PICK r \in SetterType : /\ setter' = [setter EXCEPT ![Health] = r]
                              /\ r.st \in {"idle", "last", "min", "set"}
                              /\ r.st = "set" => r.out \in Members(outbounds)
  <2>1. Idle \in SetterType /\ Idle.st = "idle"
    BY DEF Idle, SetterType
  <2>2. CASE UpdateSelected
    <3> DEFINE q == [st |-> "last", out |-> selected]
    <3>1. q \in SetterType /\ q.st = "last"
      BY <1>1 DEF TypeOK, SetterType
    <3> QED BY <2>2, <3>1 DEF UpdateSelected
  <2>3. CASE LoadLastHistory
    <3> DEFINE q == [st |-> "min", out |-> NoOutbound]
    <3>1. q \in SetterType /\ q.st = "min"
      BY DEF SetterType
    <3>2. setter' = [setter EXCEPT ![Health] = Idle] \/ setter' = [setter EXCEPT ![Health] = q]
      BY <2>3 DEF LoadLastHistory
    <3> HIDE DEF q
    <3> QED BY <2>1, <3>1, <3>2
  <2>4. CASE GetMinDelayDetour
    <3>1. CASE \E o \in Members(outbounds) : Tested(o)
      <4> DEFINE q == [st |-> "set", out |-> MinDelayDetour]
      <4>1. MinDelayDetour \in Members(outbounds) /\ MinDelayDetour \in Outbound
        BY <1>1, <3>1, MinDelayDetourIs, MembersAre DEF TypeOK
      <4>2. q \in SetterType /\ q.st = "set" /\ q.out \in Members(outbounds)
        BY <4>1 DEF SetterType
      <4>3. setter' = [setter EXCEPT ![Health] = q]
        BY <2>4, <3>1 DEF GetMinDelayDetour
      <4> HIDE DEF q
      <4> QED BY <4>2, <4>3
    <3>2. CASE ~\E o \in Members(outbounds) : Tested(o)
      <4>1. setter' = [setter EXCEPT ![Health] = Idle]
        BY <2>4, <3>2 DEF GetMinDelayDetour
      <4> QED BY <2>1, <4>1
    <3> QED BY <3>1, <3>2
  <2> QED BY <2>2, <2>3, <2>4
<1>6. setter' \in [Setter -> SetterType] /\ \A y \in Setter \ {Health} : setter'[y] = setter[y]
  BY <1>1, <1>2, <1>5, SetterStep
<1>7. TypeOK'
  BY <1>1, <1>3, <1>6 DEF TypeOK, SetterType
<1>8. OneCall'
  BY <1>1, <1>2, <1>3, <1>4, <1>6, OneCallStep
<1>9. InForce'
  BY <1>1, <1>2, <1>3, <1>4, <1>5, InForceStep
<1> QED BY <1>7, <1>8, <1>9 DEF CallInv

\* What pickOutbounds selects is an outbound.
LEMMA PickSelectedType ==
  ASSUME offered \in Seq(Outbound), ~PickFails
  PROVE  PickSelected \in Outbound
BY PickedType, PickSelectedIs, MembersAre

\* Start picks the members and the selection together.
LEMMA StartStep ==
  ASSUME CallInv, Start
  PROVE  CallInv'
<1>1. TypeOK /\ OneCall
  BY DEF CallInv
<1>2. /\ phase = "down" /\ phase' = "up" /\ ~PickFails /\ selected' = PickSelected /\ outbounds' = Picked
      /\ UNCHANGED <<offered, stored, history, setter, updater, conn, gen, tests>>
  BY DEF Start
<1>3. Calm
  BY <1>1, <1>2 DEF OneCall
<1>4. Picked \in Seq(Outbound) /\ PickSelected \in Outbound
  BY <1>1, <1>2, PickedType, PickSelectedType DEF TypeOK
<1>5. TypeOK'
  BY <1>1, <1>2, <1>4 DEF TypeOK
<1>6. OneCall'
  BY <1>2, <1>3 DEF OneCall, Calm, Busy
<1>7. /\ PickSelected \in Members(Picked)
      /\ HasCache /\ stored \in Tags(Picked) => PickSelected.tag = stored
  BY <1>1, <1>2, PickSelectedIs DEF TypeOK
<1>8. Current' = Picked
  BY <1>2, <1>3 DEF Current, Calm
<1>9. \A x \in Setter : setter'[x].st = "idle"
  BY <1>2, <1>3 DEF Calm
<1> HIDE DEF Current
<1>10. selected' \in Members(Current') /\ (HasCache /\ stored' \in Tags(Current') => selected'.tag = stored')
  BY <1>2, <1>7, <1>8
<1>11. InForce'
  BY <1>9, <1>10 DEF InForce, Tags, Members
<1> QED BY <1>5, <1>6, <1>11 DEF CallInv

\* The provider changes, UpdateOutbounds picks and assigns: the selection is
\* one of the members it is about to assign, or all is as before.
LEMMA UpdateStep ==
  ASSUME ~Overlap, CallInv,
         \/ \E tags \in Contents : ReplaceOutbounds(tags)
         \/ PickOutbounds
         \/ AssignOutbounds
  PROVE  CallInv'
<1>1. TypeOK /\ OneCall /\ InForce
  BY DEF CallInv
<1>2. ASSUME NEW tags \in Contents, ReplaceOutbounds(tags) PROVE CallInv'
  <2>1. /\ phase = "up" /\ Calm /\ gen < MaxGen /\ gen' = gen + 1 /\ offered' = Made(tags, gen + 1)
        /\ updater' = [st |-> "pick", list |-> offered]
        /\ UNCHANGED <<phase, outbounds, selected, stored, history, setter, conn, tests>>
    BY <1>2 DEF ReplaceOutbounds, MayBegin
  <2>2. gen + 1 \in 0..MaxGen
    BY <1>1, <2>1, SelectorAssumption DEF TypeOK
  <2>3. Made(tags, gen + 1) \in Seq(Outbound)
    BY <2>2, MadeType, SelectorAssumption
  <2>4. updater' \in [st : {"idle", "pick", "assign"}, list : Seq(Outbound)] /\ updater'.st = "pick"
    BY <1>1, <2>1 DEF TypeOK
  <2>5. TypeOK'
    BY <1>1, <2>1, <2>2, <2>3, <2>4 DEF TypeOK
  <2>6. OneCall'
    BY <2>1 DEF OneCall, Calm, Busy
  <2>7. InForce'
    BY <1>1, <2>1, <2>4 DEF InForce, Current, Calm, Tags, Members
  <2> QED BY <2>5, <2>6, <2>7 DEF CallInv
<1>3. CASE PickOutbounds
  <2>1. /\ updater.st = "pick"
        /\ UNCHANGED <<phase, outbounds, stored, history, setter, conn, gen, tests>>
    BY <1>3 DEF PickOutbounds
  <2>2. phase = "up" /\ \A x \in Setter : setter[x].st = "idle"
    BY <1>1, <2>1 DEF TypeOK, OneCall, Calm, Busy
  <2>3. CASE PickFails
    <3>1. offered' = updater.list /\ updater' = [st |-> "idle", list |-> <<>>] /\ selected' = selected
      BY <1>3, <2>3 DEF PickOutbounds
    <3>2. /\ updater' \in [st : {"idle", "pick", "assign"}, list : Seq(Outbound)] /\ updater'.st = "idle"
          /\ offered' \in Seq(Outbound)
      BY <1>1, <3>1 DEF TypeOK
    <3>3. TypeOK'
      BY <1>1, <2>1, <3>1, <3>2 DEF TypeOK
    <3>4. OneCall' /\ InForce'
      BY <1>1, <2>1, <2>2, <3>1, <3>2 DEF OneCall, Calm, Busy, InForce, Current, Tags, Members
    <3> QED BY <3>3, <3>4 DEF CallInv
  <2>4. CASE ~PickFails
    <3>1. offered' = offered /\ updater' = [st |-> "assign", list |-> Picked] /\ selected' = PickSelected
      BY <1>3, <2>4 DEF PickOutbounds
    <3>2. Picked \in Seq(Outbound) /\ PickSelected \in Outbound
      BY <1>1, <2>4, PickedType, PickSelectedType DEF TypeOK
    <3>3. /\ updater' \in [st : {"idle", "pick", "assign"}, list : Seq(Outbound)]
          /\ updater'.st = "assign" /\ updater'.list = Picked
      BY <3>1, <3>2
    <3>4. TypeOK'
      BY <1>1, <2>1, <3>1, <3>2, <3>3 DEF TypeOK
    <3>5. OneCall'
      BY <2>1, <2>2 DEF OneCall, Busy
    <3>6. /\ PickSelected \in Members(Picked)
          /\ HasCache /\ stored \in Tags(Picked) => PickSelected.tag = stored
      BY <1>1, <2>4, PickSelectedIs DEF TypeOK
    <3>7. Current' = Picked
      BY <3>3 DEF Current
    <3>8. selected' \in Members(Current') /\ (HasCache /\ stored' \in Tags(Current') => selected'.tag = stored')
      BY <2>1, <3>1, <3>6, <3>7
    <3>9. InForce'
      BY <2>1, <2>2, <3>8 DEF InForce, Tags, Members
    <3> QED BY <3>4, <3>5, <3>9 DEF CallInv
  <2> QED BY <2>3, <2>4
<1>4. CASE AssignOutbounds
  <2>1. /\ updater.st = "assign" /\ outbounds' = updater.list /\ updater' = [st |-> "idle", list |-> <<>>]
        /\ UNCHANGED <<phase, offered, selected, stored, history, setter, conn, gen, tests>>
    BY <1>4 DEF AssignOutbounds
  <2>2. phase = "up" /\ \A x \in Setter : setter[x].st = "idle"
    BY <1>1, <2>1 DEF TypeOK, OneCall, Calm, Busy
  <2>3. /\ updater' \in [st : {"idle", "pick", "assign"}, list : Seq(Outbound)] /\ updater'.st = "idle"
        /\ outbounds' \in Seq(Outbound)
    BY <1>1, <2>1 DEF TypeOK
  <2>4. TypeOK'
    BY <1>1, <2>1, <2>3 DEF TypeOK
  <2>5. OneCall' /\ InForce'
    BY <1>1, <2>1, <2>2, <2>3 DEF OneCall, Calm, Busy, InForce, Current, Tags, Members
  <2> QED BY <2>4, <2>5 DEF CallInv
<1> QED BY <1>2, <1>3, <1>4

\* Connections come and go under the selection.
LEMMA ConnStep ==
  ASSUME CallInv, NEW c \in Conn,
         \/ \E k \in {"internal", "external"} : DialContext(c, k)
         \/ NewConn(c)
         \/ DialFails(c)
         \/ NewConnection(c)
         \/ CloseConn(c)
  PROVE  CallInv'
<1>1. TypeOK /\ OneCall /\ InForce
  BY DEF CallInv
<1>2. UNCHANGED <<phase, offered, outbounds, selected, stored, history, setter, updater, gen, tests>>
  BY DEF DialContext, NewConn, DialFails, NewConnection, CloseConn
<1>3. conn[c] \in ConnType /\ selected \in Outbound \cup {NoOutbound}
  BY <1>1 DEF TypeOK, ConnType
<1>4. PICK r \in ConnType : conn' = [conn EXCEPT ![c] = r]
  <2>1. ASSUME NEW k \in {"internal", "external"}, DialContext(c, k)
        PROVE  \E r \in ConnType : conn' = [conn EXCEPT ![c] = r]
    <3>1. [st |-> "dialing", via |-> selected, kind |-> k, late |-> FALSE] \in ConnType
      BY <1>3 DEF ConnType, Kind
    <3> QED BY <2>1, <3>1 DEF DialContext
  <2>2. CASE NewConn(c)
    <3> DEFINE late == conn[c].via # selected
    <3>1. late \in BOOLEAN
      OBVIOUS
    <3>2. conn' = [conn EXCEPT ![c] = [st |-> "open", via |-> conn[c].via, kind |-> conn[c].kind, late |-> late]]
      BY <2>2 DEF NewConn
    <3> HIDE DEF late
    <3>3. [st |-> "open", via |-> conn[c].via, kind |-> conn[c].kind, late |-> late] \in ConnType
      BY <1>3, <3>1 DEF ConnType
    <3> QED BY <3>2, <3>3
  <2>3. CASE DialFails(c) \/ CloseConn(c)
    <3>1. Free \in ConnType
      BY DEF Free, ConnType, Kind
    <3> QED BY <2>3, <3>1 DEF DialFails, CloseConn
  <2>4. CASE NewConnection(c)
    <3>1. [st |-> "open", via |-> selected, kind |-> "inbound", late |-> FALSE] \in ConnType
      BY <1>3 DEF ConnType, Kind
    <3> QED BY <2>4, <3>1 DEF NewConnection
  <2> QED BY <2>1, <2>2, <2>3, <2>4
<1>5. conn' \in [Conn -> ConnType]
  <2>1. conn \in [Conn -> ConnType]
    BY <1>1 DEF TypeOK, ConnType
  <2> QED BY <1>4, <2>1
<1>6. TypeOK'
  BY <1>1, <1>2, <1>5 DEF TypeOK, ConnType
<1>7. OneCall' /\ InForce'
  BY <1>1, <1>2 DEF OneCall, Calm, Busy, InForce, Current, Tags, Members
<1> QED BY <1>6, <1>7 DEF CallInv

\* A delay test changes the history alone.
LEMMA TestStep ==
  ASSUME CallInv, NEW t \in Tag, NEW d \in Delays \cup {NoDelay}, Test(t, d)
  PROVE  CallInv'
<1>1. TypeOK /\ OneCall /\ InForce
  BY DEF CallInv
<1>2. /\ UNCHANGED <<phase, offered, outbounds, selected, stored, setter, updater, conn, gen>>
      /\ history' = [history EXCEPT ![t] = d] /\ tests < MaxTests /\ tests' = tests + 1
  BY DEF Test
<1>3. history' \in [Tag \cup {Outboundless} -> Delays \cup {NoDelay}]
  BY <1>1, <1>2 DEF TypeOK
<1>4. tests' \in 0..MaxTests
  BY <1>1, <1>2, SelectorAssumption DEF TypeOK
<1>5. TypeOK'
  BY <1>1, <1>2, <1>3, <1>4 DEF TypeOK
<1>6. OneCall' /\ InForce'
  BY <1>1, <1>2 DEF OneCall, Calm, Busy, InForce, Current, Tags, Members
<1> QED BY <1>5, <1>6 DEF CallInv

\* Only the cache file and the provider's outlive the process.
LEMMA StopStep ==
  ASSUME CallInv, Stop
  PROVE  CallInv'
<1>1. 0 \in 0..MaxGen /\ 0 \in 0..MaxTests
  BY SelectorAssumption
<1>2. offered' \in Seq(Outbound)
  <2>1. PICK content \in Contents : offered' = Made(content, 0)
    BY DEF Stop
  <2> QED BY <1>1, <2>1, MadeType, SelectorAssumption
<1>3. setter' \in [Setter -> SetterType]
  BY DEF Stop, Idle, SetterType
<1>4. conn' \in [Conn -> ConnType]
  BY DEF Stop, Free, Kind, ConnType
<1>5. updater' \in [st : {"idle", "pick", "assign"}, list : Seq(Outbound)]
  BY DEF Stop
<1>6. TypeOK'
  BY <1>1, <1>2, <1>3, <1>4, <1>5 DEF Stop, CallInv, TypeOK, SetterType, ConnType
<1>7. OneCall' /\ InForce'
  BY DEF Stop, OneCall, InForce, Calm, Busy, Idle
<1> QED BY <1>6, <1>7 DEF CallInv

\* While no call of the group begins before the one before it has ended, the
\* selection is always one of the members, whatever an update of the provider
\* removed or renewed, and a stored selection the group can honour is the one in
\* force, over updates, fallbacks and restarts: for any tags, filter, default
\* outbound, contents of the provider and number of callers.
THEOREM SelectorAlwaysSound == ~Overlap => (Spec => []SelectorSound)
<1> SUFFICES ASSUME ~Overlap PROVE Spec => []SelectorSound
  OBVIOUS
<1>1. CallInv /\ [Next]_vars => CallInv'
  <2> SUFFICES ASSUME CallInv, [Next]_vars PROVE CallInv'
    OBVIOUS
  <2>1. CASE Next
    BY <2>1, StartStep, SelectOutboundStep, SetSelectedStep, StoreSelectedStep, InterruptStep,
       UpdateSelectedStep, TestStep, UpdateStep, ConnStep, StopStep DEF Next
  <2>2. CASE UNCHANGED vars
    BY <2>2 DEF vars, CallInv, TypeOK, OneCall, Calm, Busy, InForce, Current, Tags, Members
  <2> QED BY <2>1, <2>2
<1>2. CallInv => SelectorSound
  BY DEF CallInv, InForce, Calm, Current, SelectorSound, SelectedIsMember, StoredChoice
<1> QED BY CallInit, <1>1, <1>2, PTL DEF Spec

-----------------------------------------------------------------------------
(* The choice of a URL test group.                                           *)

\* What the argument needs of the state's shape, and that a check about to
\* interrupt has recorded a change.
UtShapeInv ==
  /\ checker = [p \in Checker |->
       [st |-> checker[p].st, net |-> checker[p].net, out |-> checker[p].out,
        exists |-> checker[p].exists, updated |-> checker[p].updated]]
  /\ \A p \in Checker : checker[p].net \in Network /\ checker[p].updated \in BOOLEAN
  /\ utConn = [c \in UtConn |->
       [st |-> utConn[c].st, via |-> utConn[c].via, net |-> utConn[c].net,
        external |-> utConn[c].external, late |-> utConn[c].late]]
  /\ \A c \in UtConn : utConn[c].net \in Network
  /\ DOMAIN sel = Network

UtPending == \E p \in Checker : checker[p].updated

\* A check that is idle has no change left to act on.
IdleInv == \A p \in Checker : checker[p].st = "idle" => ~checker[p].updated

UtInterruptInv == UtShapeInv /\ IdleInv /\ UtInterrupted

\* There are no connections at the start.
LEMMA UtInterruptInit == UtInit => UtInterruptInv
<1> SUFFICES ASSUME UtInit PROVE UtInterruptInv
  OBVIOUS
<1>1. UtShapeInv
  BY ZenonT(30) DEF UtInit, UtShapeInv, UtIdle, UtFree, Network
<1>2. IdleInv /\ UtInterrupted
  BY DEF UtInit, IdleInv, UtInterrupted, UtInterruptible, UtIdle, UtFree
<1> QED BY <1>1, <1>2 DEF UtInterruptInv

\* Steps that leave selection and connections alone, and no check forgets a
\* change, keep the property.
LEMMA KeepsUtInterrupted ==
  ASSUME UtInterrupted, utConn' = utConn, sel' = sel, UtPending => UtPending'
  PROVE  UtInterrupted'
BY DEF UtInterrupted, UtInterruptible, UtPending

\* A step of one check keeps the shape.
LEMMA CheckerStep ==
  ASSUME UtShapeInv, NEW p \in Checker, NEW new,
         new = [st |-> new.st, net |-> new.net, out |-> new.out,
                exists |-> new.exists, updated |-> new.updated],
         new.net \in Network, new.updated \in BOOLEAN,
         checker' = [checker EXCEPT ![p] = new], utConn' = utConn, DOMAIN sel' = Network
  PROVE  /\ UtShapeInv'
         /\ checker'[p] = new
         /\ \A q \in Checker \ {p} : checker'[q] = checker[q]
<1>1. checker'[p] = new /\ \A q \in Checker \ {p} : checker'[q] = checker[q]
  BY DEF UtShapeInv
<1> QED BY <1>1, ZenonT(30) DEF UtShapeInv

\* Every step keeps connections on the selected outbound or to be interrupted.
LEMMA UtInterruptNext ==
  ASSUME UtInterruptInv, [UtNext]_utVars
  PROVE  UtInterruptInv'
<1> USE DEF UtInterruptInv
<1>1. ASSUME NEW p \in Checker,
             PerformUpdateCheck(p) \/ \E c \in UtContents : UpdateOutbounds(p, c)
      PROVE  UtInterruptInv'
  <2>1. /\ checker[p].st = "idle" /\ ~checker[p].updated
        /\ checker' = [checker EXCEPT ![p] = Selecting("tcp", FALSE)]
        /\ utConn' = utConn /\ sel' = sel
    BY <1>1, ZenonT(30) DEF PerformUpdateCheck, UpdateOutbounds, IdleInv
  <2> DEFINE new == Selecting("tcp", FALSE)
  <2>2. /\ new = [st |-> new.st, net |-> new.net, out |-> new.out,
                  exists |-> new.exists, updated |-> new.updated]
        /\ new.net \in Network /\ new.updated \in BOOLEAN /\ new.st = "select"
    BY DEF Selecting, Network
  <2>3. checker' = [checker EXCEPT ![p] = new] /\ DOMAIN sel' = Network
    BY <2>1 DEF UtShapeInv
  <2> HIDE DEF new
  <2>4. /\ UtShapeInv' /\ checker'[p] = new
        /\ \A q \in Checker \ {p} : checker'[q] = checker[q]
    BY <2>1, <2>2, <2>3, CheckerStep, ZenonT(40)
  <2>5. IdleInv' /\ (UtPending => UtPending')
    BY <2>1, <2>2, <2>4, ZenonT(30) DEF IdleInv, UtPending
  <2> QED BY <2>1, <2>4, <2>5, KeepsUtInterrupted
<1>2. ASSUME NEW p \in Checker, CheckSelect(p) PROVE UtInterruptInv'
  <2> DEFINE s == Select(checker[p].net)
             new == [st |-> "assign", net |-> checker[p].net, out |-> s.out,
                     exists |-> s.exists, updated |-> checker[p].updated]
  <2>1. checker' = [checker EXCEPT ![p] = new]
    BY <1>2 DEF CheckSelect
  <2>2. utConn' = utConn /\ sel' = sel
    BY <1>2 DEF CheckSelect
  <2>3. DOMAIN sel' = Network
    BY <2>2 DEF UtShapeInv
  <2>4. /\ new = [st |-> new.st, net |-> new.net, out |-> new.out,
                  exists |-> new.exists, updated |-> new.updated]
        /\ new.net \in Network /\ new.updated \in BOOLEAN
        /\ new.st = "assign" /\ (new.updated <=> checker[p].updated)
    BY DEF UtShapeInv
  <2> HIDE DEF new
  <2>5. /\ UtShapeInv' /\ checker'[p] = new
        /\ \A q \in Checker \ {p} : checker'[q] = checker[q]
    BY <2>1, <2>2, <2>3, <2>4, CheckerStep, ZenonT(30)
  <2>6. IdleInv' /\ (UtPending => UtPending')
    BY <2>4, <2>5 DEF IdleInv, UtPending
  <2> QED BY <2>2, <2>5, <2>6, KeepsUtInterrupted
<1>3. ASSUME NEW p \in Checker, CheckAssign(p) PROVE UtInterruptInv'
  <2> DEFINE net == checker[p].net
             o == checker[p].out
             changes == /\ o # UtNoOutbound
                        /\ \/ sel[net] = UtNoOutbound
                           \/ checker[p].exists /\ o # sel[net]
             updated == checker[p].updated \/ changes
             new == CASE net = "tcp" -> Selecting("udp", updated)
                      [] net = "udp" /\ updated -> Interrupting
                      [] OTHER -> UtIdle
  <2>1. /\ sel' = IF changes THEN [sel EXCEPT ![net] = o] ELSE sel
        /\ checker' = [checker EXCEPT ![p] = new]
        /\ utConn' = utConn
    BY <1>3 DEF CheckAssign
  <2>2. net = "tcp" \/ net = "udp"
    BY DEF UtShapeInv, Network
  <2>3. /\ new = [st |-> new.st, net |-> new.net, out |-> new.out,
                  exists |-> new.exists, updated |-> new.updated]
        /\ new.net \in Network /\ new.updated \in BOOLEAN
        /\ new.updated <=> updated
        /\ new.st = "idle" => ~updated
    BY <2>2, ZenonT(30) DEF UtIdle, Selecting, Interrupting, Network
  <2> HIDE DEF new
  <2>4. DOMAIN sel' = Network
    BY <2>1 DEF UtShapeInv
  <2>5. /\ UtShapeInv' /\ checker'[p] = new
        /\ \A q \in Checker \ {p} : checker'[q] = checker[q]
    BY <2>1, <2>3, <2>4, CheckerStep, ZenonT(30)
  <2>6. IdleInv'
    BY <2>3, <2>5 DEF IdleInv
  <2>7. CASE changes
    BY <2>3, <2>5, <2>6, <2>7 DEF UtInterrupted
  <2>8. CASE ~changes
    <3>1. UtPending => UtPending'
      BY <2>3, <2>5 DEF UtPending
    <3> QED BY <2>1, <2>5, <2>6, <2>8, <3>1, KeepsUtInterrupted
  <2> QED BY <2>7, <2>8
<1>4. ASSUME NEW p \in Checker, UtInterrupt(p) PROVE UtInterruptInv'
  <2>1. \A c \in UtConn : utConn'[c] = IF UtInterruptible(c) THEN UtFree ELSE utConn[c]
    BY <1>4 DEF UtInterrupt
  <2>2. UtShapeInv'
    BY <1>4, <2>1, ZenonT(30) DEF UtInterrupt, UtShapeInv, UtIdle, UtFree, Network
  <2>3. IdleInv'
    BY <1>4 DEF UtInterrupt, UtShapeInv, IdleInv, UtIdle
  <2>4. \A c \in UtConn : ~UtInterruptible(c)'
    BY <2>1 DEF UtInterruptible, UtFree
  <2> QED BY <2>2, <2>3, <2>4 DEF UtInterrupted
<1>5. ASSUME NEW t \in UtTag, NEW d \in UtDelays \cup {UtNoDelay}, UtTest(t, d)
      PROVE  UtInterruptInv'
  BY <1>5, KeepsUtInterrupted DEF UtTest, UtShapeInv, IdleInv, UtPending
<1>6. ASSUME NEW c \in UtConn, NEW net \in Network, NEW ext \in BOOLEAN,
             UtDialContext(c, net, ext)
      PROVE  UtInterruptInv'
  <2>1. PICK o : utConn' = [utConn EXCEPT ![c] = [st |-> "dialing", via |-> o, net |-> net,
                                              external |-> ext, late |-> FALSE]]
    BY <1>6, ZenonT(30) DEF UtDialContext
  <2>2. checker' = checker /\ sel' = sel
    BY <1>6 DEF UtDialContext
  <2>3. UtShapeInv' /\ IdleInv'
    BY <2>1, <2>2, ZenonT(30) DEF UtShapeInv, IdleInv
  <2>4. utConn'[c].st = "dialing" /\ \A e \in UtConn \ {c} : utConn'[e] = utConn[e]
    BY <2>1 DEF UtShapeInv
  <2> QED BY <2>2, <2>3, <2>4 DEF UtInterrupted, UtInterruptible
<1>7. ASSUME NEW c \in UtConn, UtNewConn(c) PROVE UtInterruptInv'
  <2>1. checker' = checker /\ sel' = sel
    BY <1>7 DEF UtNewConn
  <2>2. UtShapeInv' /\ IdleInv'
    BY <1>7, <2>1, ZenonT(30) DEF UtNewConn, UtShapeInv, IdleInv
  <2>3. /\ utConn'[c].via = utConn[c].via /\ utConn'[c].net = utConn[c].net
        /\ utConn'[c].late <=> sel[utConn[c].net] \notin {UtNoOutbound, utConn[c].via}
        /\ \A e \in UtConn \ {c} : utConn'[e] = utConn[e]
    BY <1>7, ZenonT(30) DEF UtNewConn, UtShapeInv
  <2> QED BY <2>1, <2>2, <2>3 DEF UtInterrupted, UtInterruptible
<1>8. ASSUME NEW c \in UtConn, UtDialFails(c) \/ UtCloseConn(c) PROVE UtInterruptInv'
  <2>1. utConn' = [utConn EXCEPT ![c] = UtFree] /\ checker' = checker /\ sel' = sel
    BY <1>8 DEF UtDialFails, UtCloseConn
  <2>2. UtShapeInv' /\ IdleInv'
    BY <2>1, ZenonT(30) DEF UtShapeInv, IdleInv, UtFree, Network
  <2>3. utConn'[c].st = "free" /\ \A e \in UtConn \ {c} : utConn'[e] = utConn[e]
    BY <2>1 DEF UtShapeInv, UtFree
  <2> QED BY <2>1, <2>2, <2>3 DEF UtInterrupted, UtInterruptible
<1>9. CASE UNCHANGED utVars
  BY <1>9, KeepsUtInterrupted DEF utVars, UtShapeInv, IdleInv, UtPending
<1> QED BY <1>1, <1>2, <1>3, <1>4, <1>5, <1>6, <1>7, <1>8, <1>9 DEF UtNext

\* In a URL test group, updates of its members included, a connection that a
\* change of selection left behind is interrupted: it uses the selected
\* outbound, or a performUpdateCheck has yet to interrupt, or its dial was
\* overtaken before NewConn registered it.
THEOREM AlwaysInterrupted == UtSpec => []UtInterrupted
<1>1. UtInterruptInv /\ [UtNext]_utVars => UtInterruptInv'
  BY UtInterruptNext
<1>2. UtInterruptInv => UtInterrupted
  BY DEF UtInterruptInv
<1> QED BY UtInterruptInit, <1>1, <1>2, PTL DEF UtSpec

-----------------------------------------------------------------------------
(* Select of a URL test group.                                               *)

\* The loop of Select is well defined: each turn of it works on what the one before it held.
LEMMA ScanIs ==
  ASSUME utOutbounds \in Seq(UtOutbound), NEW net
  PROVE  Scan(net) = [k \in 0..Len(utOutbounds) |->
                        IF k = 0 THEN Held(net) ELSE Better(Scan(net)[k - 1], utOutbounds[k], net)]
<1> DEFINE turn(x, k) == Better(x, utOutbounds[k], net)
           up(m, f) == f = [k \in 0..m |-> IF k = 0 THEN Held(net) ELSE turn(f[k - 1], k)]
           bad == {m \in Nat : ~\E f : up(m, f)}
<1> HIDE DEF turn
<1>1. \A m \in Nat : \E f : up(m, f)
  <2> SUFFICES ASSUME bad # {} PROVE FALSE
    OBVIOUS
  <2>1. PICK m \in bad : \A j \in bad : m <= j
    BY LeastOf
  <2>2. m # 0
    <3>1. up(0, [k \in 0..0 |-> Held(net)])
      OBVIOUS
    <3> QED BY <2>1, <3>1
  <2>3. m \in Nat /\ m - 1 \in Nat /\ m - 1 \notin bad
    <3>1. m \in Nat
      OBVIOUS
    <3>2. m - 1 \in Nat /\ ~(m <= m - 1)
      BY <2>2, <3>1
    <3> HIDE DEF bad
    <3> QED BY <2>1, <3>1, <3>2
  <2>4. PICK f : up(m - 1, f)
    BY <2>3
  <2> DEFINE g == [k \in 0..m |-> IF k = m THEN turn(f[m - 1], m) ELSE f[k]]
  <2>5. \A k \in 0..m : g[k] = IF k = 0 THEN Held(net) ELSE turn(g[k - 1], k)
    BY <2>2, <2>3, <2>4
  <2>6. up(m, g)
    BY <2>5
  <2> QED BY <2>1, <2>6
<1>2. Len(utOutbounds) \in Nat
  OBVIOUS
<1>3. \E f : up(Len(utOutbounds), f)
  BY <1>1, <1>2
<1>4. Scan(net) = CHOOSE f : up(Len(utOutbounds), f)
  BY DEF Scan, turn
<1>5. up(Len(utOutbounds), Scan(net))
  BY <1>3, <1>4
<1> QED BY <1>5 DEF turn

\* No delay is 0, which Select takes for none, and none overflows with the
\* tolerance added.
NoWrap == 0 \notin UtDelays /\ \A d \in UtDelays : d + Tolerance < Width

\* What holds of Select's loop after k turns: it has nothing, or an outbound with
\* its delay; none of the members it has seen beats that by more than the
\* tolerance, and it has left the selected outbound for more than the tolerance only.
HoldsAfter(min, k, net) ==
  /\ min.out \in UtOutbound \cup {UtNoOutbound}
  /\ min.out = UtNoOutbound => min.delay = 0
  /\ min.out # UtNoOutbound => UtTested(min.out) /\ min.delay = utHistory[min.out.tag]
  /\ \A j \in 1..k : UtTested(utOutbounds[j]) /\ Supports(utOutbounds[j], net) =>
       min.out # UtNoOutbound /\ min.delay <= utHistory[utOutbounds[j].tag] + Tolerance
  /\ sel[net] # UtNoOutbound /\ UtTested(sel[net]) =>
       /\ min.out # UtNoOutbound
       /\ min.out = sel[net] \/ min.delay + Tolerance < utHistory[sel[net].tag]

\* The delay of a tested outbound is a number other than 0, and no outbound is none.
LEMMA TestedDelay ==
  ASSUME NoWrap, UtTypeOK, NEW o \in UtOutbound, UtTested(o)
  PROVE  /\ utHistory[o.tag] \in Nat \ {0} /\ Tolerance \in Nat
         /\ (utHistory[o.tag] + Tolerance) % Width = utHistory[o.tag] + Tolerance
<1> DEFINE d == utHistory[o.tag]
<1>1. d \in UtDelays
  BY DEF UtTypeOK, UtTested, UtOutbound
<1> HIDE DEF d
<1>2. d \in Nat \ {0} /\ Tolerance \in Nat /\ Width \in Nat \ {0} /\ d + Tolerance < Width
  <2>1. d \in 0..Width - 1 /\ Tolerance \in 0..Width - 1 /\ Width \in Nat \ {0}
    BY <1>1, SelectAssumption, ZenonT(30)
  <2>2. d # 0 /\ d + Tolerance < Width
    BY <1>1, ZenonT(30) DEF NoWrap
  <2> QED BY <2>1, <2>2
<1>3. (d + Tolerance) % Width = d + Tolerance
  BY <1>2
<1> QED BY <1>2, <1>3 DEF d

\* The value for no outbound is none.
LEMMA NoneIsNoOutbound == UtNoOutbound \notin UtOutbound
BY SelectAssumption DEF UtNoOutbound, UtOutbound

\* A turn of the loop.
LEMMA TurnKeeps ==
  ASSUME NoWrap, UtTypeOK, NEW net \in Network, NEW k \in 1..Len(utOutbounds), NEW min,
         HoldsAfter(min, k - 1, net)
  PROVE  HoldsAfter(Better(min, utOutbounds[k], net), k, net)
<1> DEFINE o == utOutbounds[k]
           next == [delay |-> utHistory[o.tag], out |-> o]
<1>1. o \in UtOutbound /\ Len(utOutbounds) \in Nat
  BY DEF UtTypeOK
<1>2. \A j \in 1..k : j = k \/ j \in 1..(k - 1)
  BY <1>1
<1>3. Tolerance \in Nat
  BY SelectAssumption
<1>4. \A j \in 1..k : utOutbounds[j] \in UtOutbound
  BY <1>1 DEF UtTypeOK
<1>5. sel[net] \in UtOutbound \cup {UtNoOutbound}
  BY DEF UtTypeOK
<1>6. CASE /\ Supports(o, net) /\ UtTested(o)
           /\ min.delay = 0 \/ min.delay > (utHistory[o.tag] + Tolerance) % Width
  <2>1. Better(min, o, net) = next
    BY <1>6 DEF Better
  <2>2. next.delay = utHistory[o.tag] /\ next.out = o
    OBVIOUS
  <2>3. /\ utHistory[o.tag] \in Nat \ {0}
        /\ (utHistory[o.tag] + Tolerance) % Width = utHistory[o.tag] + Tolerance
    BY <1>1, <1>6, TestedDelay
  <2>4. next.out # UtNoOutbound
    BY <1>1, <2>2, NoneIsNoOutbound
  <2>5. CASE min.out = UtNoOutbound
    <3>1. \A j \in 1..(k - 1) : ~(UtTested(utOutbounds[j]) /\ Supports(utOutbounds[j], net))
      BY <2>5 DEF HoldsAfter
    <3>2. ~(sel[net] # UtNoOutbound /\ UtTested(sel[net]))
      BY <2>5 DEF HoldsAfter
    <3>3. \A j \in 1..k : UtTested(utOutbounds[j]) /\ Supports(utOutbounds[j], net) => j = k
      BY <1>2, <3>1
    <3>4. next.delay <= utHistory[o.tag] + Tolerance
      BY <1>3, <2>2, <2>3
    <3> HIDE DEF next
    <3> QED BY <1>1, <1>6, <2>1, <2>2, <2>4, <3>2, <3>3, <3>4 DEF HoldsAfter
  <2>6. CASE min.out # UtNoOutbound
    <3>1. min.out \in UtOutbound /\ UtTested(min.out) /\ min.delay = utHistory[min.out.tag]
      BY <2>6 DEF HoldsAfter
    <3>2. min.delay \in Nat \ {0}
      BY <3>1, TestedDelay
    <3>3. next.delay \in Nat /\ min.delay > next.delay + Tolerance
      BY <1>6, <2>2, <2>3, <3>2
    <3>4. \A j \in 1..k : UtTested(utOutbounds[j]) /\ Supports(utOutbounds[j], net) =>
            next.delay <= utHistory[utOutbounds[j].tag] + Tolerance
      <4> SUFFICES ASSUME NEW j \in 1..k, UtTested(utOutbounds[j]), Supports(utOutbounds[j], net)
                   PROVE  next.delay <= utHistory[utOutbounds[j].tag] + Tolerance
        OBVIOUS
      <4>1. utHistory[utOutbounds[j].tag] \in Nat
        BY <1>4, TestedDelay
      <4>2. CASE j = k
        BY <1>3, <2>2, <4>1, <4>2
      <4>3. CASE j \in 1..(k - 1)
        <5>1. min.delay <= utHistory[utOutbounds[j].tag] + Tolerance
          BY <4>3 DEF HoldsAfter
        <5> HIDE DEF next
        <5> QED BY <1>3, <3>2, <3>3, <4>1, <5>1
      <4> QED BY <1>2, <4>2, <4>3
    <3>5. sel[net] # UtNoOutbound /\ UtTested(sel[net]) =>
            next.delay + Tolerance < utHistory[sel[net].tag]
      <4> SUFFICES ASSUME sel[net] # UtNoOutbound, UtTested(sel[net])
                   PROVE  next.delay + Tolerance < utHistory[sel[net].tag]
        OBVIOUS
      <4>1. utHistory[sel[net].tag] \in Nat
        BY <1>5, TestedDelay
      <4>2. min.out = sel[net] \/ min.delay + Tolerance < utHistory[sel[net].tag]
        BY DEF HoldsAfter
      <4> HIDE DEF next
      <4> QED BY <1>3, <3>1, <3>2, <3>3, <4>1, <4>2
    <3> HIDE DEF next
    <3> QED BY <1>1, <1>6, <2>1, <2>2, <2>4, <3>4, <3>5 DEF HoldsAfter
  <2> QED BY <2>5, <2>6
<1>7. CASE ~(/\ Supports(o, net) /\ UtTested(o)
             /\ min.delay = 0 \/ min.delay > (utHistory[o.tag] + Tolerance) % Width)
  <2>1. Better(min, o, net) = min
    BY <1>7 DEF Better
  <2>2. Supports(o, net) /\ UtTested(o) =>
          min.out # UtNoOutbound /\ min.delay <= utHistory[o.tag] + Tolerance
    <3> SUFFICES ASSUME Supports(o, net), UtTested(o)
                 PROVE  min.out # UtNoOutbound /\ min.delay <= utHistory[o.tag] + Tolerance
      OBVIOUS
    <3>1. /\ utHistory[o.tag] \in Nat \ {0}
          /\ (utHistory[o.tag] + Tolerance) % Width = utHistory[o.tag] + Tolerance
      BY <1>1, TestedDelay
    <3>2. min.delay # 0 /\ ~(min.delay > utHistory[o.tag] + Tolerance)
      BY <1>7, <3>1
    <3>3. min.out # UtNoOutbound
      BY <3>2 DEF HoldsAfter
    <3>4. min.out \in UtOutbound /\ UtTested(min.out) /\ min.delay = utHistory[min.out.tag]
      BY <3>3 DEF HoldsAfter
    <3>5. min.delay \in Nat
      BY <3>4, TestedDelay
    <3> QED BY <1>3, <3>1, <3>2, <3>3, <3>5
  <2>3. \A j \in 1..k : UtTested(utOutbounds[j]) /\ Supports(utOutbounds[j], net) =>
          min.out # UtNoOutbound /\ min.delay <= utHistory[utOutbounds[j].tag] + Tolerance
    BY <1>2, <2>2 DEF HoldsAfter
  <2> QED BY <2>1, <2>3 DEF HoldsAfter
<1> QED BY <1>6, <1>7

\* The loop as a whole, by induction on its turns.
LEMMA ScanHolds ==
  ASSUME NoWrap, UtTypeOK, NEW net \in Network
  PROVE  HoldsAfter(Scan(net)[Len(utOutbounds)], Len(utOutbounds), net)
<1> DEFINE n == Len(utOutbounds)
           bad == {k \in 0..n : ~HoldsAfter(Scan(net)[k], k, net)}
<1>1. utOutbounds \in Seq(UtOutbound) /\ n \in Nat
  BY DEF UtTypeOK
<1>2. /\ Scan(net)[0] = Held(net)
      /\ \A k \in 1..n : Scan(net)[k] = Better(Scan(net)[k - 1], utOutbounds[k], net)
  BY <1>1, ScanIs
<1>3. HoldsAfter(Held(net), 0, net)
  <2>1. sel[net] \in UtOutbound \cup {UtNoOutbound}
    BY DEF UtTypeOK
  <2>2. \A j \in 1..0 : FALSE
    OBVIOUS
  <2>3. CASE sel[net] # UtNoOutbound /\ UtTested(sel[net])
    BY <2>1, <2>2, <2>3 DEF HoldsAfter, Held
  <2>4. CASE ~(sel[net] # UtNoOutbound /\ UtTested(sel[net]))
    BY <2>2, <2>4 DEF HoldsAfter, Held
  <2> QED BY <2>3, <2>4
<1> SUFFICES ASSUME n \in bad PROVE FALSE
  BY <1>1
<1>4. bad \subseteq Nat /\ bad # {}
  BY <1>1
<1>5. PICK k \in bad : \A j \in bad : k <= j
  BY <1>4, LeastOf
<1>6. k \in 0..n /\ ~HoldsAfter(Scan(net)[k], k, net)
  OBVIOUS
<1>7. k # 0
  BY <1>2, <1>3, <1>6
<1>8. k \in 1..n /\ k - 1 \in 0..n /\ ~(k <= k - 1)
  BY <1>1, <1>6, <1>7
<1>9. HoldsAfter(Scan(net)[k - 1], k - 1, net)
  <2>1. k - 1 \notin bad
    <3> HIDE DEF bad
    <3> QED BY <1>5, <1>8
  <2> QED BY <1>8, <2>1
<1> HIDE DEF bad, n
<1>10. HoldsAfter(Scan(net)[k], k, net)
  BY <1>2, <1>8, <1>9, TurnKeeps DEF n
<1> QED BY <1>6, <1>10

\* The first outbound of a network is one of the list, or none.
LEMMA FirstForType ==
  ASSUME NEW list \in Seq(UtOutbound), NEW net
  PROVE  FirstFor(list, net) \in UtOutbound \cup {UtNoOutbound}
<1> DEFINE at == {k \in DOMAIN list : Supports(list[k], net)}
           first == CHOOSE k \in DOMAIN list : Supports(list[k], net)
                                               /\ \A j \in 1..k - 1 : ~Supports(list[j], net)
<1>1. DOMAIN list = 1..Len(list) /\ Len(list) \in Nat
  OBVIOUS
<1>2. CASE at = {}
  BY <1>2 DEF FirstFor
<1>3. CASE at # {}
  <2> at \subseteq Nat
    BY <1>1
  <2>1. PICK k \in at : \A j \in at : k <= j
    <3> HIDE DEF at
    <3> QED BY <1>3, LeastOf
  <2>2. \A j \in 1..k - 1 : j \in DOMAIN list /\ ~(k <= j)
    <3>1. k \in 1..Len(list)
      BY <1>1
    <3> HIDE DEF at
    <3> QED BY <1>1, <3>1
  <2>3. \A j \in 1..k - 1 : ~Supports(list[j], net)
    BY <2>1, <2>2
  <2>4. first \in DOMAIN list
    BY <2>1, <2>3
  <2>5. FirstFor(list, net) = list[first]
    BY <1>3 DEF FirstFor
  <2> HIDE DEF first
  <2> QED BY <1>1, <2>4, <2>5
<1> QED BY <1>2, <1>3

\* A group is made of outbounds, of at least one.
LEMMA UtPickedType ==
  ASSUME NEW tags \in UtContents, NEW g \in 0..UtMaxGen
  PROVE  UtPicked(tags, g) \in Seq(UtOutbound) /\ UtPicked(tags, g) # <<>>
<1>1. tags \in Seq(UtTag) /\ 0 \in 0..UtMaxGen
  BY SelectAssumption
<1>2. CASE tags = <<>>
  BY <1>1, <1>2 DEF UtPicked, UtOutbound
<1>3. CASE tags # <<>>
  <2>1. \A k \in 1..Len(tags) : [tag |-> tags[k], gen |-> g] \in UtOutbound
    BY <1>1 DEF UtOutbound
  <2>2. DOMAIN tags = 1..Len(tags) /\ Len(tags) \in Nat /\ 1 \in 1..Len(tags)
    BY <1>1, <1>3
  <2>3. UtPicked(tags, g) = [k \in 1..Len(tags) |-> [tag |-> tags[k], gen |-> g]]
    BY <1>3, <2>2 DEF UtPicked
  <2>4. UtPicked(tags, g) \in Seq(UtOutbound) /\ 1 \in DOMAIN UtPicked(tags, g)
    BY <2>1, <2>2, <2>3
  <2> QED BY <2>4
<1> QED BY <1>2, <1>3

\* Select finds an outbound or none.
LEMMA SelectType ==
  ASSUME NoWrap, UtTypeOK, NEW net \in Network
  PROVE  Select(net).out \in UtOutbound \cup {UtNoOutbound} /\ Select(net).exists \in BOOLEAN
<1>1. Scan(net)[Len(utOutbounds)].out \in UtOutbound \cup {UtNoOutbound}
  BY ScanHolds DEF HoldsAfter
<1>2. FirstFor(utOutbounds, net) \in UtOutbound \cup {UtNoOutbound}
  BY FirstForType DEF UtTypeOK
<1>3. CASE Scan(net)[Len(utOutbounds)].out = UtNoOutbound
  <2>1. Select(net) = [out |-> FirstFor(utOutbounds, net), exists |-> FALSE]
    BY <1>3 DEF Select
  <2> QED BY <1>2, <2>1
<1>4. CASE Scan(net)[Len(utOutbounds)].out # UtNoOutbound
  <2>1. Select(net) = [out |-> Scan(net)[Len(utOutbounds)].out, exists |-> TRUE]
    BY <1>4 DEF Select
  <2> QED BY <1>1, <2>1
<1> QED BY <1>3, <1>4

CheckerType == [st : {"idle", "select", "assign", "interrupt"}, net : Network,
                out : UtOutbound \cup {UtNoOutbound}, exists : BOOLEAN, updated : BOOLEAN]
UtConnType == [st : {"free", "dialing", "open"}, via : UtOutbound \cup {UtNoOutbound},
               net : Network, external : BOOLEAN, late : BOOLEAN]

\* The records of the checks and connections.
LEMMA UtRecords ==
  /\ UtIdle \in CheckerType /\ Interrupting \in CheckerType /\ UtFree \in UtConnType
  /\ \A net \in Network, updated \in BOOLEAN : Selecting(net, updated) \in CheckerType
<1>1. UtIdle \in CheckerType /\ Interrupting \in CheckerType
  BY DEF UtIdle, Interrupting, CheckerType, Network
<1>2. UtFree \in UtConnType
  BY DEF UtFree, UtConnType, Network
<1>3. \A net \in Network, updated \in BOOLEAN : Selecting(net, updated) \in CheckerType
  BY DEF Selecting, CheckerType
<1> QED BY <1>1, <1>2, <1>3

\* The group starts with its outbounds, ...
LEMMA UtTypeInit == UtInit => UtTypeOK
<1> SUFFICES ASSUME UtInit PROVE UtTypeOK
  OBVIOUS
<1>1. 0 \in 0..UtMaxGen /\ 0 \in 0..UtMaxTests
  BY SelectAssumption
<1>2. utOutbounds \in Seq(UtOutbound) /\ utOutbounds # <<>>
  <2>1. PICK tags \in UtContents : utOutbounds = UtPicked(tags, 0)
    BY DEF UtInit
  <2> QED BY <1>1, <2>1, UtPickedType
<1>3. sel \in [Network -> UtOutbound \cup {UtNoOutbound}]
  BY <1>2, FirstForType DEF UtInit
<1>4. checker \in [Checker -> CheckerType] /\ utConn \in [UtConn -> UtConnType]
  BY UtRecords DEF UtInit
<1> QED BY <1>1, <1>2, <1>3, <1>4 DEF UtInit, UtTypeOK, CheckerType, UtConnType

\* The steps of a check keep the types.
LEMMA CheckTypes ==
  ASSUME NoWrap, UtTypeOK, NEW p \in Checker,
         \/ PerformUpdateCheck(p)
         \/ \E tags \in UtContents : UpdateOutbounds(p, tags)
         \/ CheckSelect(p)
         \/ CheckAssign(p)
         \/ UtInterrupt(p)
  PROVE  UtTypeOK'
<1>1. checker \in [Checker -> CheckerType] /\ utConn \in [UtConn -> UtConnType]
  BY DEF UtTypeOK, CheckerType, UtConnType
<1>2. checker[p] \in CheckerType /\ checker[p].net \in Network
  BY <1>1 DEF CheckerType
<1>3. Selecting("tcp", FALSE) \in CheckerType
  <2>1. PICK no : no = FALSE
    OBVIOUS
  <2>2. "tcp" \in Network /\ no \in BOOLEAN
    BY <2>1 DEF Network
  <2> QED BY <2>1, <2>2, UtRecords, ZenonT(30)
<1>4. CASE PerformUpdateCheck(p)
  <2>1. checker' = [checker EXCEPT ![p] = Selecting("tcp", FALSE)]
    BY <1>4 DEF PerformUpdateCheck
  <2>2. checker' \in [Checker -> CheckerType]
    BY <1>1, <1>3, <2>1
  <2> QED BY <1>4, <2>2 DEF PerformUpdateCheck, UtTypeOK, CheckerType
<1>5. ASSUME NEW tags \in UtContents, UpdateOutbounds(p, tags) PROVE UtTypeOK'
  <2>1. utGen' \in 0..UtMaxGen
    BY <1>5, SelectAssumption DEF UpdateOutbounds, UtTypeOK
  <2>2. utOutbounds' \in Seq(UtOutbound) /\ utOutbounds' # <<>>
    BY <1>5, <2>1, UtPickedType DEF UpdateOutbounds
  <2>3. checker' = [checker EXCEPT ![p] = Selecting("tcp", FALSE)]
    BY <1>5 DEF UpdateOutbounds
  <2>4. checker' \in [Checker -> CheckerType]
    BY <1>1, <1>3, <2>3
  <2> QED BY <1>5, <2>1, <2>2, <2>4 DEF UpdateOutbounds, UtTypeOK, CheckerType
<1>6. CASE CheckSelect(p)
  <2> DEFINE s == Select(checker[p].net)
             r == [st |-> "assign", net |-> checker[p].net, out |-> s.out, exists |-> s.exists,
                   updated |-> checker[p].updated]
  <2>1. s.out \in UtOutbound \cup {UtNoOutbound} /\ s.exists \in BOOLEAN
    BY <1>2, SelectType
  <2>2. checker' = [checker EXCEPT ![p] = r]
    BY <1>6 DEF CheckSelect
  <2>3. r \in CheckerType
    <3> HIDE DEF s
    <3> QED BY <1>2, <2>1 DEF CheckerType
  <2> HIDE DEF r
  <2>4. checker' \in [Checker -> CheckerType]
    BY <1>1, <2>2, <2>3
  <2> QED BY <1>6, <2>4 DEF CheckSelect, UtTypeOK, CheckerType
<1>7. CASE CheckAssign(p)
  <2> DEFINE net == checker[p].net
             o == checker[p].out
             changes == o # UtNoOutbound /\ (sel[net] = UtNoOutbound \/ (checker[p].exists /\ o # sel[net]))
             updated == checker[p].updated \/ changes
  <2>1. o \in UtOutbound \cup {UtNoOutbound} /\ updated \in BOOLEAN
    BY <1>2 DEF CheckerType
  <2>2. /\ sel' = IF changes THEN [sel EXCEPT ![net] = o] ELSE sel
        /\ checker' = [checker EXCEPT ![p] = CASE net = "tcp" -> Selecting("udp", updated)
                                               [] net = "udp" /\ updated -> Interrupting
                                               [] OTHER -> UtIdle]
    BY <1>7 DEF CheckAssign
  <2>3. sel' \in [Network -> UtOutbound \cup {UtNoOutbound}]
    BY <1>2, <2>1, <2>2 DEF UtTypeOK
  <2>4. Selecting("udp", updated) \in CheckerType
    <3>1. "udp" \in Network
      BY DEF Network
    <3> HIDE DEF updated
    <3> QED BY <2>1, <3>1, UtRecords
  <2> HIDE DEF updated, net
  <2>5. \/ checker' = [checker EXCEPT ![p] = Selecting("udp", updated)]
        \/ checker' = [checker EXCEPT ![p] = Interrupting]
        \/ checker' = [checker EXCEPT ![p] = UtIdle]
    BY <2>2
  <2>6. checker' \in [Checker -> CheckerType]
    BY <1>1, <2>4, <2>5, UtRecords
  <2> QED BY <1>7, <2>3, <2>6 DEF CheckAssign, UtTypeOK, CheckerType
<1>8. CASE UtInterrupt(p)
  <2>1. checker' \in [Checker -> CheckerType]
    BY <1>1, <1>8, UtRecords DEF UtInterrupt
  <2>2. utConn' \in [UtConn -> UtConnType]
    BY <1>1, <1>8, UtRecords DEF UtInterrupt
  <2> QED BY <1>8, <2>1, <2>2 DEF UtInterrupt, UtTypeOK, CheckerType, UtConnType
<1> QED BY <1>4, <1>5, <1>6, <1>7, <1>8

\* So do tests and connections.
LEMMA DialTypes ==
  ASSUME NoWrap, UtTypeOK, NEW c \in UtConn,
         \/ \E net \in Network, ext \in BOOLEAN : UtDialContext(c, net, ext)
         \/ UtNewConn(c)
         \/ UtDialFails(c)
         \/ UtCloseConn(c)
  PROVE  UtTypeOK'
<1>1. utConn \in [UtConn -> UtConnType] /\ utConn[c] \in UtConnType
  BY DEF UtTypeOK, UtConnType
<1>2. ASSUME NEW net \in Network, NEW ext \in BOOLEAN, UtDialContext(c, net, ext) PROVE UtTypeOK'
  <2> DEFINE o == IF sel[net] = UtNoOutbound THEN Select(net).out ELSE sel[net]
             r(late) == [st |-> "dialing", via |-> o, net |-> net, external |-> ext, late |-> late]
  <2>1. o \in UtOutbound \cup {UtNoOutbound}
    BY SelectType DEF UtTypeOK
  <2>2. utConn' = [utConn EXCEPT ![c] = r(FALSE)]
    BY <1>2, ZenonT(30) DEF UtDialContext
  <2>3. r(FALSE) \in UtConnType
    <3> HIDE DEF o
    <3>1. \A late \in BOOLEAN : r(late) \in UtConnType
      BY <2>1 DEF UtConnType
    <3> QED BY <3>1
  <2> HIDE DEF r
  <2>4. utConn' \in [UtConn -> UtConnType]
    BY <1>1, <2>2, <2>3
  <2> QED BY <1>2, <2>4 DEF UtDialContext, UtTypeOK, UtConnType
<1>3. CASE UtNewConn(c)
  <2> DEFINE late == sel[utConn[c].net] \notin {UtNoOutbound, utConn[c].via}
             r == [st |-> "open", via |-> utConn[c].via, net |-> utConn[c].net,
                   external |-> utConn[c].external, late |-> late]
  <2>1. late \in BOOLEAN
    OBVIOUS
  <2>2. utConn' = [utConn EXCEPT ![c] = r]
    BY <1>3, ZenonT(30) DEF UtNewConn
  <2>3. r \in UtConnType
    <3> HIDE DEF late
    <3> QED BY <1>1, <2>1 DEF UtConnType
  <2> HIDE DEF r
  <2>4. utConn' \in [UtConn -> UtConnType]
    BY <1>1, <2>2, <2>3
  <2> QED BY <1>3, <2>4 DEF UtNewConn, UtTypeOK, UtConnType
<1>4. CASE UtDialFails(c) \/ UtCloseConn(c)
  <2>1. utConn' = [utConn EXCEPT ![c] = UtFree]
    BY <1>4 DEF UtDialFails, UtCloseConn
  <2>2. utConn' \in [UtConn -> UtConnType]
    BY <1>1, <2>1, UtRecords
  <2>3. utHistory' \in [UtTag \cup {UtOutboundless} -> UtDelays \cup {UtNoDelay}]
    BY <1>4 DEF UtDialFails, UtCloseConn, UtTypeOK
  <2>4. UNCHANGED <<utOutbounds, sel, checker, utGen, utTests>>
    BY <1>4 DEF UtDialFails, UtCloseConn
  <2> QED BY <2>2, <2>3, <2>4 DEF UtTypeOK, UtConnType
<1> QED BY <1>2, <1>3, <1>4

\* ... and every step keeps them.
LEMMA UtTypeNext ==
  ASSUME NoWrap, UtTypeOK, [UtNext]_utVars
  PROVE  UtTypeOK'
<1>1. ASSUME NEW t \in UtTag, NEW d \in UtDelays \cup {UtNoDelay}, UtTest(t, d) PROVE UtTypeOK'
  <2>1. utHistory' \in [UtTag \cup {UtOutboundless} -> UtDelays \cup {UtNoDelay}]
    BY <1>1 DEF UtTest, UtTypeOK
  <2>2. utTests' \in 0..UtMaxTests
    BY <1>1, SelectAssumption DEF UtTest, UtTypeOK
  <2> QED BY <1>1, <2>1, <2>2 DEF UtTest, UtTypeOK
<1>2. CASE UNCHANGED utVars
  BY <1>2 DEF utVars, UtTypeOK
<1> QED BY <1>1, <1>2, CheckTypes, DialTypes DEF UtNext

\* While no delay is 0 and none overflows with the tolerance added, Select leaves
\* a tested outbound only for one faster by more than the tolerance, and no tested
\* member of the network beats what it finds by more than that: for any members in
\* any order, any tolerance and width of the delays.
THEOREM SelectAlwaysSound == NoWrap => (UtSpec => SelectSound)
<1> SUFFICES ASSUME NoWrap PROVE UtSpec => SelectSound
  OBVIOUS
<1>1. UtTypeOK /\ [UtNext]_utVars => UtTypeOK'
  BY UtTypeNext
<1> DEFINE Step(p) ==
      /\ LET old == sel[checker[p].net]
             new == checker'[p].out
         IN  old # UtNoOutbound /\ UtTested(old) /\ new # old =>
               utHistory[new.tag] + Tolerance < utHistory[old.tag]
      /\ \A o \in UtMembers : UtTested(o) /\ Supports(o, checker[p].net) =>
           /\ checker'[p].exists
           /\ utHistory[checker'[p].out.tag] <= utHistory[o.tag] + Tolerance
<1>2. ASSUME UtTypeOK, NEW p \in Checker, CheckSelect(p) PROVE Step(p)
  <2> DEFINE net == checker[p].net
             min == Scan(net)[Len(utOutbounds)]
             s == Select(net)
  <2>1. checker[p] \in CheckerType /\ net \in Network
    BY <1>2 DEF UtTypeOK, CheckerType
  <2>2. HoldsAfter(min, Len(utOutbounds), net)
    BY <1>2, <2>1, ScanHolds
  <2>3. checker'[p].out = s.out /\ checker'[p].exists = s.exists
    BY <1>2, ZenonT(30) DEF CheckSelect, UtTypeOK
  <2>6. \A o \in UtMembers : \E j \in 1..Len(utOutbounds) : o = utOutbounds[j]
    <3>1. DOMAIN utOutbounds = 1..Len(utOutbounds)
      BY <1>2 DEF UtTypeOK
    <3> QED BY <3>1 DEF UtMembers
  <2>4. CASE min.out = UtNoOutbound
    <3>1. ~(sel[net] # UtNoOutbound /\ UtTested(sel[net]))
      BY <2>2, <2>4 DEF HoldsAfter
    <3>2. \A o \in UtMembers : ~(UtTested(o) /\ Supports(o, net))
      BY <2>6, <2>2, <2>4 DEF HoldsAfter
    <3> QED BY <3>1, <3>2
  <2>5. CASE min.out # UtNoOutbound
    <3>1. s = [out |-> min.out, exists |-> TRUE]
      BY <2>5 DEF Select
    <3>2. s.out = min.out /\ s.exists
      BY <3>1
    <3>3. min.delay = utHistory[min.out.tag]
      BY <2>2, <2>5 DEF HoldsAfter
    <3>4. \A o \in UtMembers : UtTested(o) /\ Supports(o, net) => min.delay <= utHistory[o.tag] + Tolerance
      BY <2>6, <2>2 DEF HoldsAfter
    <3>5. sel[net] # UtNoOutbound /\ UtTested(sel[net]) /\ min.out # sel[net] =>
            min.delay + Tolerance < utHistory[sel[net].tag]
      BY <2>2 DEF HoldsAfter
    <3> HIDE DEF s, min, net
    <3> QED BY <2>3, <3>2, <3>3, <3>4, <3>5 DEF net
  <2> QED BY <2>4, <2>5
<1>3. UtSpec => []UtTypeOK
  BY UtTypeInit, <1>1, PTL DEF UtSpec
<1>4. UtTypeOK => [\A p \in Checker : CheckSelect(p) =>
       LET old == sel[checker[p].net]
           new == checker'[p].out
       IN  old # UtNoOutbound /\ UtTested(old) /\ new # old =>
             utHistory[new.tag] + Tolerance < utHistory[old.tag]]_utVars
  BY <1>2
<1>5. UtTypeOK => [\A p \in Checker : CheckSelect(p) =>
       \A o \in UtMembers : UtTested(o) /\ Supports(o, checker[p].net) =>
         /\ checker'[p].exists
         /\ utHistory[checker'[p].out.tag] <= utHistory[o.tag] + Tolerance]_utVars
  BY <1>2
<1>6. UtSpec => ToleranceRespected
  BY <1>3, <1>4, PTL DEF ToleranceRespected
<1>7. UtSpec => LeastWithinTolerance
  BY <1>3, <1>5, PTL DEF LeastWithinTolerance
<1> QED BY <1>3, <1>6, <1>7, PTL DEF SelectSound

-----------------------------------------------------------------------------
(* The loop of a URL test group.                                             *)

(* OneLoop is inductive as it stands: a goroutine that is alive keeps the   *)
(* ticker because no second one is there to drop it.                        *)

\* One step of the group keeps the ticker and its goroutine together.
LEMMA TickerStep == OneLoop /\ [UlNext]_ulVars => OneLoop'
<1> SUFFICES ASSUME OneLoop, [UlNext]_ulVars PROVE OneLoop'
  OBVIOUS
<1>0. Interval \in 1..Interval /\ 0 \in 0..AgeMax
  BY LoopAssumption DEF AgeMax
<1> USE DEF OneLoop, UlTypeOK, LoopOwnsTicker, TickerServed, Live
<1>1. CASE PostStart
  BY <1>0, <1>1 DEF PostStart
<1>2. ASSUME NEW t \in Toucher, Touch(t) PROVE OneLoop'
  BY <1>2 DEF Touch
<1>3. ASSUME NEW t \in Toucher, TouchActive(t) PROVE OneLoop'
  BY <1>0, <1>3 DEF TouchActive
<1>4. ASSUME NEW t \in Toucher, NEW l \in Loop, TouchLocked(t, l) PROVE OneLoop'
  <2>1. CASE ticker # "none"
    BY <1>4, <2>1 DEF TouchLocked
  <2>2. CASE ticker = "none"
    <3>1. /\ ticker' = "running" /\ tick' = FALSE /\ due' = Interval
          /\ loop' = [loop EXCEPT ![l] = "begin"]
          /\ toucher' = [toucher EXCEPT ![t] = "idle"]
          /\ UNCHANGED <<ulStarted, age, closed, paused, closer>>
      BY <1>4, <2>2 DEF TouchLocked
    <3>2. \A m \in Loop : loop[m] = "idle"
      BY <2>2
    <3>3. UlTypeOK'
      BY <1>0, <3>1, ZenonT(30)
    <3>4. LoopOwnsTicker' /\ TickerServed'
      BY <3>1, <3>2
    <3> QED BY <3>3, <3>4
  <2> QED BY <2>1, <2>2
<1>5. ASSUME NEW l \in Loop, LoopBegin(l) PROVE OneLoop'
  BY <1>0, <1>5 DEF LoopBegin
<1>6. ASSUME NEW l \in Loop, LoopChecked(l) PROVE OneLoop'
  BY <1>6 DEF LoopChecked
<1>7. ASSUME NEW l \in Loop, LoopClosed(l) PROVE OneLoop'
  BY <1>7 DEF LoopClosed
<1>8. ASSUME NEW l \in Loop, LoopTick(l) PROVE OneLoop'
  BY <1>8, ZenonT(30) DEF LoopTick
<1>9. ASSUME NEW l \in Loop, LoopIdle(l) PROVE OneLoop'
  BY <1>9 DEF LoopIdle
<1>10. ASSUME NEW l \in Loop, LoopStop(l) PROVE OneLoop'
  <2>1. \A m \in Loop : loop'[m] = "idle"
    BY <1>10 DEF LoopStop
  <2>2. UlTypeOK'
    BY <1>0, <1>10, ZenonT(30) DEF LoopStop
  <2>3. LoopOwnsTicker' /\ TickerServed'
    BY <1>10, <2>1 DEF LoopStop
  <2> QED BY <2>2, <2>3
<1>11. ASSUME NEW l \in Loop, LoopActive(l) PROVE OneLoop'
  BY <1>11 DEF LoopActive
<1>12. CASE UlClose
  BY <1>12 DEF UlClose
<1>13. CASE CloseStop
  BY <1>13 DEF CloseStop
<1>14. CASE CloseChannel
  BY <1>14 DEF CloseChannel
<1>15. CASE Pause
  BY <1>15 DEF Pause
<1>16. CASE Time
  <2>1. age' \in 0..AgeMax
    BY <1>16, LoopAssumption DEF Time, AgeMax
  <2>2. due' \in 1..Interval
    BY <1>16, LoopAssumption DEF Time
  <2>3. tick' \in BOOLEAN
    BY <1>16, ZenonT(30) DEF Time
  <2>4. UNCHANGED <<ulStarted, ticker, closed, paused, toucher, loop, closer>>
    BY <1>16 DEF Time
  <2> QED BY <2>1, <2>2, <2>3, <2>4
<1>17. CASE UNCHANGED ulVars
  BY <1>17 DEF ulVars
<1> QED
  BY <1>1, <1>2, <1>3, <1>4, <1>5, <1>6, <1>7, <1>8, <1>9, <1>10, <1>11, <1>12,
     <1>13, <1>14, <1>15, <1>16, <1>17 DEF UlNext

\* Touch, Close and the idle stop keep the goroutine of loopCheck and its ticker together, from PostStart on.
THEOREM TickerInvariant == UlSpec => []OneLoop
<1>1. UlInit => OneLoop
  <2> SUFFICES ASSUME UlInit PROVE OneLoop
    OBVIOUS
  <2>1. due \in 1..Interval /\ age \in 0..AgeMax
    BY LoopAssumption DEF UlInit, AgeMax
  <2>2. UlTypeOK
    BY <2>1, ZenonT(30) DEF UlInit, UlTypeOK, Live
  <2>3. LoopOwnsTicker /\ TickerServed
    BY DEF UlInit, LoopOwnsTicker, TickerServed
  <2> QED BY <2>2, <2>3 DEF OneLoop
<1> QED BY <1>1, TickerStep, PTL DEF UlSpec

\* loopCheck never meets a nil ticker, and never runs twice.
THEOREM LoopAlwaysOwnsTicker == UlSpec => []LoopOwnsTicker
<1>1. OneLoop => LoopOwnsTicker
  BY DEF OneLoop
<1> QED BY <1>1, TickerInvariant, PTL

\* A running ticker of an open group always has its goroutine.
THEOREM TickerAlwaysServed == UlSpec => []TickerServed
<1>1. OneLoop => TickerServed
  BY DEF OneLoop
<1> QED BY <1>1, TickerInvariant, PTL
=============================================================================
