------------------------------ MODULE Selector ------------------------------
(* The selector group (outbound/selector.go) with its interrupt group      *)
(* (common/interrupt), the outbound provider it draws members from, the    *)
(* selection kept by the cache file, and the delay history.                *)
(*                                                                          *)
(* The group has no lock.  Its fields are written by the callers of        *)
(* SelectOutbound, by health checks (UpdateSelected) and by the update of  *)
(* the provider (UpdateOutbounds), and read by dials; every one is a       *)
(* process of its own.                                                      *)
EXTENDS Integers, Sequences, FiniteSets

CONSTANTS Tag,               \* tags of outbounds
          Outboundless,      \* the tag of the OUTBOUNDLESS outbound
          NoTag,             \* no tag
          Direct,            \* tags of direct, block and dns outbounds
          Static,            \* s.tags: the outbounds named in the options
          Contents,          \* the tag lists the provider may hold
          Accepted,          \* the tags that pass OutboundFilter
          Default,           \* s.defaultTag
          Fallback,          \* s.fallbackByDelayTest
          InterruptExternal, \* s.interruptExternalConnections
          HasCache,          \* is there a cache file?
          Overlap,           \* may calls overlap an update of the group?
          MaxGen,            \* bound: updates of the provider
          Delays,            \* delays a test may measure
          NoDelay,           \* no history
          MaxTests,          \* bound: changes of the delay history
          Conn,              \* connections
          Api,               \* concurrent callers of SelectOutbound
          Health             \* the health check

VARIABLES phase,      \* "down" or "up"
          offered,    \* provider.Outbounds()
          outbounds,  \* s.outbounds, of which s.outboundByTag is the index
          selected,   \* s.selected
          stored,     \* the selection in the cache file
          history,    \* HistoryStorage.delayHistory
          setter,     \* the calls that may change the selection
          updater,    \* UpdateOutbounds
          conn,       \* connections and s.interruptGroup.connections
          gen, tests  \* how often the provider and the history changed

vars == <<phase, offered, outbounds, selected, stored, history, setter, updater,
          conn, gen, tests>>

Setter == Api \cup {Health}

\* Outbounds are told apart by identity, not by tag: an update of the provider
\* makes new ones.
Outbound    == [tag : Tag \cup {Outboundless}, gen : 0..MaxGen]
NoOutbound  == [tag |-> NoTag, gen |-> 0]
outboundless == [tag |-> Outboundless, gen |-> 0]

Made(tags, g) == [k \in DOMAIN tags |-> [tag |-> tags[k], gen |-> g]]

ASSUME SelectorAssumption ==
  /\ Outboundless \notin Tag /\ NoTag \notin Tag \cup {Outboundless}
  /\ Static \in Seq(Tag)
  /\ Contents \subseteq Seq(Tag)
  /\ Accepted \subseteq Tag /\ Direct \subseteq Tag
  /\ Default \in Tag \cup {NoTag}
  /\ {Fallback, InterruptExternal, HasCache, Overlap} \subseteq BOOLEAN
  /\ MaxGen \in Nat /\ MaxTests \in Nat
  /\ Delays \subseteq Nat /\ NoDelay \notin Delays
  /\ Health \notin Api

Free == [st |-> "free", via |-> NoOutbound, kind |-> "internal", late |-> FALSE]
Idle == [st |-> "idle", out |-> NoOutbound]
Kind == {"internal", "external", "inbound"}

\* The states of the group, its callers and its connections; members and choices are outbounds.
TypeOK ==
  /\ phase \in {"down", "up"}
  /\ offered \in Seq(Outbound)
  /\ outbounds \in Seq(Outbound)
  /\ selected \in Outbound \cup {NoOutbound}
  /\ stored \in Tag \cup {Outboundless, NoTag}
  /\ history \in [Tag \cup {Outboundless} -> Delays \cup {NoDelay}]
  /\ setter \in [Setter -> [st : {"idle", "last", "min", "set", "store", "interrupt"},
                            out : Outbound \cup {NoOutbound}]]
  /\ updater \in [st : {"idle", "pick", "assign"}, list : Seq(Outbound)]
  /\ conn \in [Conn -> [st : {"free", "dialing", "open"}, via : Outbound \cup {NoOutbound},
                        kind : Kind, late : BOOLEAN]]
  /\ gen \in 0..MaxGen
  /\ tests \in 0..MaxTests

----------------------------------------------------------------------------
Members(list) == {list[k] : k \in DOMAIN list}
Tags(list)    == {o.tag : o \in Members(list)}

\* outboundByTag: the last outbound of a tag wins.
ByTag(list, t) ==
  list[CHOOSE k \in DOMAIN list :
         /\ list[k].tag = t
         /\ \A j \in DOMAIN list : list[j].tag = t => j <= k]

OutboundFilter(o) == o.tag \in Accepted

\* The n-th of a set of positions, and the outbounds of the provider that pass the filter, in order.
Nth(at, n) == CHOOSE k \in at : Cardinality({j \in at : j <= k}) = n
Passing    == {k \in DOMAIN offered : OutboundFilter(offered[k])}
Filtered   == [n \in 1..Cardinality(Passing) |-> offered[Nth(Passing, n)]]

\* The members pickOutbounds collects, and OUTBOUNDLESS if there are none.
Collected == Made(Static, 0) \o Filtered
Picked    == IF Collected = <<>> THEN <<outboundless>> ELSE Collected

\* pickOutbounds fails when the default outbound is needed and missing.
Remembered == HasCache /\ stored \in Tags(Collected)
PickFails  == /\ Collected # <<>> /\ ~Remembered
              /\ Default # NoTag /\ Default \notin Tags(Collected)

\* The outbound pickOutbounds makes the selected one.
PickSelected ==
  IF Collected = <<>> THEN outboundless
  ELSE IF Remembered THEN ByTag(Collected, stored)
  ELSE IF Default # NoTag THEN ByTag(Collected, Default)
  ELSE Collected[1]

Calm == updater.st = "idle" /\ \A x \in Setter : setter[x].st = "idle"

\* With Overlap = FALSE a call begins only when no other is in progress.
MayBegin == phase = "up" /\ (Overlap \/ Calm)

Init ==
  /\ phase = "down"
  /\ offered \in {Made(c, 0) : c \in Contents}
  /\ outbounds = <<>>
  /\ selected = NoOutbound
  /\ stored = NoTag
  /\ history = [t \in Tag \cup {Outboundless} |-> NoDelay]
  /\ setter = [x \in Setter |-> Idle]
  /\ updater = [st |-> "idle", list |-> <<>>]
  /\ conn = [c \in Conn |-> Free]
  /\ gen = 0
  /\ tests = 0

----------------------------------------------------------------------------
(* Start.  A group that cannot pick its members keeps the service down. *)
Start ==
  /\ phase = "down"
  /\ ~PickFails
  /\ phase' = "up"
  /\ selected' = PickSelected
  /\ outbounds' = Picked
  /\ UNCHANGED <<offered, stored, history, setter, updater, conn, gen, tests>>

(* SelectOutbound, of the API: the tag is looked up, then setSelected. *)
SelectOutbound(a, t) ==
  /\ MayBegin
  /\ setter[a].st = "idle"
  /\ t \in Tags(outbounds)
  /\ setter' = [setter EXCEPT ![a] = [st |-> "set", out |-> ByTag(outbounds, t)]]
  /\ UNCHANGED <<phase, offered, outbounds, selected, stored, history, updater,
                 conn, gen, tests>>

\* setSelected changes the selection, stores it, and interrupts last.
SetSelected(x) ==
  /\ setter[x].st = "set"
  /\ IF selected = setter[x].out
     THEN /\ setter' = [setter EXCEPT ![x] = Idle]
          /\ UNCHANGED selected
     ELSE /\ setter' = [setter EXCEPT ![x].st = IF HasCache THEN "store" ELSE "interrupt"]
          /\ selected' = setter[x].out
  /\ UNCHANGED <<phase, offered, outbounds, stored, history, updater, conn, gen, tests>>

\* Mutant of StoreSelected: setSelected returns without interrupting.
StoreSelectedReturn(x) ==
  /\ setter[x].st = "store"
  /\ stored' = setter[x].out.tag
  /\ setter' = [setter EXCEPT ![x] = Idle]
  /\ UNCHANGED <<phase, offered, outbounds, selected, history, updater, conn, gen, tests>>

StoreSelected(x) ==
  /\ setter[x].st = "store"
  /\ stored' = setter[x].out.tag
  /\ setter' = [setter EXCEPT ![x].st = "interrupt"]
  /\ UNCHANGED <<phase, offered, outbounds, selected, history, updater, conn, gen, tests>>

\* The connections in the interrupt group that Interrupt closes.
Interruptible(c) == /\ conn[c].st = "open"
                    /\ \/ conn[c].kind = "internal"
                       \/ conn[c].kind = "external" /\ InterruptExternal

Interrupt(x) ==
  /\ setter[x].st = "interrupt"
  /\ conn' = [c \in Conn |-> IF Interruptible(c) THEN Free ELSE conn[c]]
  /\ setter' = [setter EXCEPT ![x] = Idle]
  /\ UNCHANGED <<phase, offered, outbounds, selected, stored, history, updater,
                 gen, tests>>

(* UpdateSelected, after a health check: the selected outbound is read,    *)
(* then its history, then the outbound of least delay is searched.         *)
UpdateSelected ==
  /\ MayBegin
  /\ Fallback
  /\ setter[Health].st = "idle"
  /\ selected.tag \notin Direct
  /\ setter' = [setter EXCEPT ![Health] = [st |-> "last", out |-> selected]]
  /\ UNCHANGED <<phase, offered, outbounds, selected, stored, history, updater,
                 conn, gen, tests>>

LoadLastHistory ==
  /\ setter[Health].st = "last"
  /\ setter' = [setter EXCEPT ![Health] =
                  IF history[@.out.tag] # NoDelay THEN Idle
                  ELSE [st |-> "min", out |-> NoOutbound]]
  /\ UNCHANGED <<phase, offered, outbounds, selected, stored, history, updater,
                 conn, gen, tests>>

Tested(o) == history[o.tag] # NoDelay

\* The first of the members with the least delay.
MinDelayDetour ==
  outbounds[CHOOSE k \in DOMAIN outbounds :
    /\ Tested(outbounds[k])
    /\ \A j \in DOMAIN outbounds : Tested(outbounds[j]) =>
         \/ history[outbounds[k].tag] < history[outbounds[j].tag]
         \/ history[outbounds[k].tag] = history[outbounds[j].tag] /\ k <= j]

GetMinDelayDetour ==
  /\ setter[Health].st = "min"
  /\ setter' = [setter EXCEPT ![Health] =
                  IF \E o \in Members(outbounds) : Tested(o)
                  THEN [st |-> "set", out |-> MinDelayDetour]
                  ELSE Idle]
  /\ UNCHANGED <<phase, offered, outbounds, selected, stored, history, updater,
                 conn, gen, tests>>

\* A test of an outbound records its delay or deletes its history.
Test(t, d) ==
  /\ phase = "up"
  /\ tests < MaxTests
  /\ history[t] # d
  /\ history' = [history EXCEPT ![t] = d]
  /\ tests' = tests + 1
  /\ UNCHANGED <<phase, offered, outbounds, selected, stored, setter, updater, conn, gen>>

----------------------------------------------------------------------------
(* An update of the provider: it replaces its outbounds and then calls     *)
(* UpdateOutbounds, taking the replacement back if that fails.             *)
ReplaceOutbounds(tags) ==
  /\ MayBegin
  /\ updater.st = "idle"
  /\ gen < MaxGen
  /\ gen' = gen + 1
  /\ offered' = Made(tags, gen + 1)
  /\ updater' = [st |-> "pick", list |-> offered]
  /\ UNCHANGED <<phase, outbounds, selected, stored, history, setter, conn, tests>>

\* Mutant of PickOutbounds: the selection is left as it is.
PickOutboundsOnly ==
  /\ updater.st = "pick"
  /\ updater' = [st |-> "assign", list |-> Picked]
  /\ UNCHANGED <<phase, offered, selected, outbounds, stored, history, setter, conn,
                 gen, tests>>

PickOutbounds ==
  /\ updater.st = "pick"
  /\ IF PickFails
     THEN /\ offered' = updater.list
          /\ updater' = [st |-> "idle", list |-> <<>>]
          /\ UNCHANGED selected
     ELSE /\ selected' = PickSelected
          /\ updater' = [st |-> "assign", list |-> Picked]
          /\ UNCHANGED offered
  /\ UNCHANGED <<phase, outbounds, stored, history, setter, conn, gen, tests>>

AssignOutbounds ==
  /\ updater.st = "assign"
  /\ outbounds' = updater.list
  /\ updater' = [st |-> "idle", list |-> <<>>]
  /\ UNCHANGED <<phase, offered, selected, stored, history, setter, conn, gen, tests>>

(* DialContext and ListenPacket: the selected outbound dials, and the      *)
(* connection is registered when that is done.                             *)
DialContext(c, k) ==
  /\ phase = "up"
  /\ conn[c].st = "free"
  /\ conn' = [conn EXCEPT ![c] = [st |-> "dialing", via |-> selected, kind |-> k,
                                  late |-> FALSE]]
  /\ UNCHANGED <<phase, offered, outbounds, selected, stored, history, setter,
                 updater, gen, tests>>

NewConn(c) ==
  /\ conn[c].st = "dialing"
  /\ conn' = [conn EXCEPT ![c] = [st |-> "open", via |-> conn[c].via, kind |-> conn[c].kind,
                                  late |-> conn[c].via # selected]]
  /\ UNCHANGED <<phase, offered, outbounds, selected, stored, history, setter,
                 updater, gen, tests>>

DialFails(c) ==
  /\ conn[c].st = "dialing"
  /\ conn' = [conn EXCEPT ![c] = Free]
  /\ UNCHANGED <<phase, offered, outbounds, selected, stored, history, setter,
                 updater, gen, tests>>

\* NewConnection and NewPacketConnection hand an inbound connection to the
\* selected outbound, which dials by itself: it is in no interrupt group.
NewConnection(c) ==
  /\ phase = "up"
  /\ conn[c].st = "free"
  /\ conn' = [conn EXCEPT ![c] = [st |-> "open", via |-> selected, kind |-> "inbound",
                                  late |-> FALSE]]
  /\ UNCHANGED <<phase, offered, outbounds, selected, stored, history, setter,
                 updater, gen, tests>>

CloseConn(c) ==
  /\ conn[c].st = "open"
  /\ conn' = [conn EXCEPT ![c] = Free]
  /\ UNCHANGED <<phase, offered, outbounds, selected, stored, history, setter,
                 updater, gen, tests>>

\* The process ends anywhere; only the cache file and the provider's file stay.
Stop ==
  /\ phase = "up"
  /\ phase' = "down"
  /\ offered' \in {Made(c, 0) : c \in Contents}
  /\ outbounds' = <<>>
  /\ selected' = NoOutbound
  /\ history' = [t \in Tag \cup {Outboundless} |-> NoDelay]
  /\ setter' = [x \in Setter |-> Idle]
  /\ updater' = [st |-> "idle", list |-> <<>>]
  /\ conn' = [c \in Conn |-> Free]
  /\ gen' = 0
  /\ tests' = 0
  /\ UNCHANGED stored

Next ==
  \/ Start
  \/ \E a \in Api, t \in Tag : SelectOutbound(a, t)
  \/ \E x \in Setter : SetSelected(x) \/ StoreSelected(x) \/ Interrupt(x)
  \/ UpdateSelected
  \/ LoadLastHistory
  \/ GetMinDelayDetour
  \/ \E t \in Tag, d \in Delays \cup {NoDelay} : Test(t, d)
  \/ \E c \in Contents : ReplaceOutbounds(c)
  \/ PickOutbounds
  \/ AssignOutbounds
  \/ \E c \in Conn :
       \/ \E k \in {"internal", "external"} : DialContext(c, k)
       \/ NewConn(c)
       \/ DialFails(c)
       \/ NewConnection(c)
       \/ CloseConn(c)
  \/ Stop

Spec == Init /\ [][Next]_vars

----------------------------------------------------------------------------
(* Properties. *)

\* While the calls do not overlap: after an update of the provider, whatever
\* it removed or renewed, the outbound the group dials is one it lists.
SelectedIsMember == phase = "up" /\ Calm => selected \in Members(outbounds)

\* While the calls do not overlap: a selection in the cache file that the group
\* can honour is the one in force, over updates, fallbacks and restarts.
StoredChoice == phase = "up" /\ Calm /\ HasCache /\ stored \in Tags(outbounds) =>
                  selected.tag = stored

\* docs/configuration/outbound/selector.md: existing connections are
\* interrupted "when the selected outbound has changed", internal ones always.
\* A connection in the interrupt group uses the selected outbound, or a call of
\* setSelected is about to interrupt it; excepted is a connection whose dial
\* was overtaken by a change of selection before NewConn registered it.
Interrupted ==
  \A c \in Conn : Interruptible(c) /\ ~conn[c].late =>
    \/ conn[c].via = selected
    \/ \E x \in Setter : setter[x].st \in {"store", "interrupt"}

(* Health checks recur and their calls run on. *)
Fairness ==
  /\ WF_vars(UpdateSelected) /\ WF_vars(LoadLastHistory) /\ WF_vars(GetMinDelayDetour)
  /\ \A x \in Setter : /\ WF_vars(SetSelected(x)) /\ WF_vars(StoreSelected(x))
                       /\ WF_vars(Interrupt(x))
  /\ WF_vars(PickOutbounds) /\ WF_vars(AssignOutbounds)

FairSpec == Spec /\ Fairness

SomeTested == \E o \in Members(outbounds) : Tested(o)

\* fallback_by_delay_test: the group does not stay on an outbound without
\* history while one of its members has been tested.
FallbackLeavesDead ==
  (phase = "up" /\ SomeTested) ~>
    (phase = "down" \/ ~SomeTested \/ Tested(selected) \/ selected.tag \in Direct)

-----------------------------------------------------------------------------
(* The properties above, by subject. *)

\* What PickOutbounds, SelectOutbound and the update of a provider leave in a selector while they do not
\* overlap: a selection the group lists, and the stored choice wherever it can be honoured.
SelectorSound ==
  /\ TypeOK
  /\ SelectedIsMember
  /\ StoredChoice
=============================================================================
