---------------------------- MODULE URLTestSelect ----------------------------
(* How a URL test group (outbound/urltest.go) chooses the outbound it dials *)
(* per network, with its interrupt group and the delay history.            *)
(*                                                                          *)
(* performUpdateCheck runs without a lock at the end of every test of the  *)
(* group, after every health check of a provider, when the API shows the   *)
(* group and when a provider has changed its members: each of these is a   *)
(* checker.  The history is shared with the providers and the API.         *)
EXTENDS Integers, Sequences

CONSTANTS UtTag,               \* tags of outbounds
          UtOutboundless,      \* the tag of the OUTBOUNDLESS outbound
          UtNoTag,             \* no tag
          Nets,              \* the networks each tag supports
          UtContents,          \* the tag lists the group may be made of
          UtDelays,            \* delays a test may measure
          UtNoDelay,           \* no history
          Tolerance,         \* g.tolerance
          Width,             \* delays are computed modulo this (65536)
          UtInterruptExternal, \* g.interruptExternalConnections
          UtMaxGen,            \* bound: updates of the members
          UtMaxTests,          \* bound: changes of the delay history
          Checker,           \* concurrent calls of performUpdateCheck
          UtConn               \* connections

VARIABLES utOutbounds,  \* g.outbounds
          sel,        \* g.selectedOutboundTCP and g.selectedOutboundUDP
          utHistory,    \* HistoryStorage.delayHistory
          checker,    \* calls of performUpdateCheck
          utConn,       \* connections, and g.interruptGroup.connections
          utGen, utTests  \* how often the members and the history changed

utVars == <<utOutbounds, sel, utHistory, checker, utConn, utGen, utTests>>

Network == {"tcp", "udp"}

\* Outbounds are told apart by identity: an update makes new ones.
UtOutbound   == [tag : UtTag \cup {UtOutboundless}, gen : 0..UtMaxGen]
UtNoOutbound == [tag |-> UtNoTag, gen |-> 0]

ASSUME SelectAssumption ==
  /\ UtOutboundless \notin UtTag /\ UtNoTag \notin UtTag \cup {UtOutboundless}
  /\ Nets \in [UtTag \cup {UtOutboundless} -> SUBSET Network]
  /\ UtContents \subseteq Seq(UtTag) /\ UtContents # {}
  /\ Width \in Nat \ {0} /\ Tolerance \in 0..Width - 1
  /\ UtDelays \subseteq 0..Width - 1 /\ UtNoDelay \notin UtDelays
  /\ UtInterruptExternal \in BOOLEAN
  /\ UtMaxGen \in Nat /\ UtMaxTests \in Nat

UtFree == [st |-> "free", via |-> UtNoOutbound, net |-> "tcp", external |-> FALSE, late |-> FALSE]
UtIdle == [st |-> "idle", net |-> "tcp", out |-> UtNoOutbound, exists |-> FALSE, updated |-> FALSE]

\* A check that is about to call Select, and one about to interrupt.
Selecting(net, updated) == [st |-> "select", net |-> net, out |-> UtNoOutbound,
                            exists |-> FALSE, updated |-> updated]
Interrupting == [st |-> "interrupt", net |-> "udp", out |-> UtNoOutbound,
                 exists |-> FALSE, updated |-> TRUE]

\* The states of the group, its checks and its connections; the group always has a member.
UtTypeOK ==
  /\ utOutbounds \in Seq(UtOutbound) /\ utOutbounds # <<>>
  /\ sel \in [Network -> UtOutbound \cup {UtNoOutbound}]
  /\ utHistory \in [UtTag \cup {UtOutboundless} -> UtDelays \cup {UtNoDelay}]
  /\ checker \in [Checker -> [st : {"idle", "select", "assign", "interrupt"},
                              net : Network, out : UtOutbound \cup {UtNoOutbound},
                              exists : BOOLEAN, updated : BOOLEAN]]
  /\ utConn \in [UtConn -> [st : {"free", "dialing", "open"}, via : UtOutbound \cup {UtNoOutbound},
                        net : Network, external : BOOLEAN, late : BOOLEAN]]
  /\ utGen \in 0..UtMaxGen
  /\ utTests \in 0..UtMaxTests

----------------------------------------------------------------------------
UtMembers == {utOutbounds[k] : k \in DOMAIN utOutbounds}

UtTested(o)        == utHistory[o.tag] # UtNoDelay
Supports(o, net) == net \in Nets[o.tag]

\* pickOutbounds: the outbounds of a content, or OUTBOUNDLESS.
UtPicked(tags, g) ==
  IF tags = <<>> THEN <<[tag |-> UtOutboundless, gen |-> 0]>>
  ELSE [k \in DOMAIN tags |-> [tag |-> tags[k], gen |-> g]]

\* The first outbound of a list that supports a network, or none.
FirstFor(list, net) ==
  IF \E k \in DOMAIN list : Supports(list[k], net)
  THEN list[CHOOSE k \in DOMAIN list :
              /\ Supports(list[k], net)
              /\ \A j \in 1..k - 1 : ~Supports(list[j], net)]
  ELSE UtNoOutbound

\* Mutant of Better: the tolerance is left out.
BetterExact(min, o, net) ==
  IF Supports(o, net) /\ UtTested(o) /\ (min.delay = 0 \/ min.delay > utHistory[o.tag])
  THEN [delay |-> utHistory[o.tag], out |-> o]
  ELSE min

\* One turn of Select's loop.  A least delay of 0 stands for none yet, and the
\* sum is one of unsigned 16-bit integers.
Better(min, o, net) ==
  IF /\ Supports(o, net) /\ UtTested(o)
     /\ min.delay = 0 \/ min.delay > (utHistory[o.tag] + Tolerance) % Width
  THEN [delay |-> utHistory[o.tag], out |-> o]
  ELSE min

\* Mutant of Select: a selected outbound is kept, tested or not.
SelectSticky(net) ==
  [out |-> IF sel[net] # UtNoOutbound THEN sel[net] ELSE FirstFor(utOutbounds, net),
   exists |-> sel[net] # UtNoOutbound]

\* Select's loop starts from the selected outbound if that has a history; Scan has what it
\* holds after each turn.
Held(net) ==
  IF sel[net] # UtNoOutbound /\ UtTested(sel[net])
  THEN [delay |-> utHistory[sel[net].tag], out |-> sel[net]]
  ELSE [delay |-> 0, out |-> UtNoOutbound]
Scan(net) ==
  LET scan[k \in 0..Len(utOutbounds)] ==
        IF k = 0 THEN Held(net) ELSE Better(scan[k - 1], utOutbounds[k], net)
  IN  scan

Select(net) ==
  LET min == Scan(net)[Len(utOutbounds)].out
  IN  IF min = UtNoOutbound THEN [out |-> FirstFor(utOutbounds, net), exists |-> FALSE]
      ELSE [out |-> min, exists |-> TRUE]

\* NewURLTestGroup selects the first outbound of each network.
UtInit ==
  /\ utOutbounds \in {UtPicked(c, 0) : c \in UtContents}
  /\ sel = [net \in Network |-> FirstFor(utOutbounds, net)]
  /\ utHistory = [t \in UtTag \cup {UtOutboundless} |-> UtNoDelay]
  /\ checker = [p \in Checker |-> UtIdle]
  /\ utConn = [c \in UtConn |-> UtFree]
  /\ utGen = 0
  /\ utTests = 0

----------------------------------------------------------------------------
(* performUpdateCheck: for tcp and then for udp Select, then the            *)
(* assignment; one interrupt at the end if either was changed.             *)
PerformUpdateCheck(p) ==
  /\ checker[p].st = "idle"
  /\ checker' = [checker EXCEPT ![p] = Selecting("tcp", FALSE)]
  /\ UNCHANGED <<utOutbounds, sel, utHistory, utConn, utGen, utTests>>

\* UpdateOutbounds replaces the members and then checks.
UpdateOutbounds(p, tags) ==
  /\ checker[p].st = "idle"
  /\ utGen < UtMaxGen
  /\ utGen' = utGen + 1
  /\ utOutbounds' = UtPicked(tags, utGen + 1)
  /\ checker' = [checker EXCEPT ![p] = Selecting("tcp", FALSE)]
  /\ UNCHANGED <<sel, utHistory, utConn, utTests>>

CheckSelect(p) ==
  /\ checker[p].st = "select"
  /\ LET s == Select(checker[p].net)
     IN  checker' = [checker EXCEPT ![p] =
           [st |-> "assign", net |-> checker[p].net, out |-> s.out, exists |-> s.exists,
            updated |-> checker[p].updated]]
  /\ UNCHANGED <<utOutbounds, sel, utHistory, utConn, utGen, utTests>>

\* Mutant of CheckAssign: the change for tcp is forgotten at udp.
CheckAssignForget(p) ==
  /\ checker[p].st = "assign"
  /\ LET net == checker[p].net
         o   == checker[p].out
         changes == /\ o # UtNoOutbound
                    /\ \/ sel[net] = UtNoOutbound
                       \/ checker[p].exists /\ o # sel[net]
     IN  /\ sel' = IF changes THEN [sel EXCEPT ![net] = o] ELSE sel
         /\ checker' = [checker EXCEPT ![p] =
              CASE net = "tcp" -> Selecting("udp", FALSE)
                [] net = "udp" /\ changes -> Interrupting
                [] OTHER -> UtIdle]
  /\ UNCHANGED <<utOutbounds, utHistory, utConn, utGen, utTests>>

CheckAssign(p) ==
  /\ checker[p].st = "assign"
  /\ LET net == checker[p].net
         o   == checker[p].out
         changes == /\ o # UtNoOutbound
                    /\ \/ sel[net] = UtNoOutbound
                       \/ checker[p].exists /\ o # sel[net]
         updated == checker[p].updated \/ changes
     IN  /\ sel' = IF changes THEN [sel EXCEPT ![net] = o] ELSE sel
         /\ checker' = [checker EXCEPT ![p] =
              CASE net = "tcp" -> Selecting("udp", updated)
                [] net = "udp" /\ updated -> Interrupting
                [] OTHER -> UtIdle]
  /\ UNCHANGED <<utOutbounds, utHistory, utConn, utGen, utTests>>

UtInterruptible(c) == utConn[c].st = "open" /\ (utConn[c].external => UtInterruptExternal)

UtInterrupt(p) ==
  /\ checker[p].st = "interrupt"
  /\ utConn' = [c \in UtConn |-> IF UtInterruptible(c) THEN UtFree ELSE utConn[c]]
  /\ checker' = [checker EXCEPT ![p] = UtIdle]
  /\ UNCHANGED <<utOutbounds, sel, utHistory, utGen, utTests>>

\* A test of an outbound, by this group, a provider or the API, records its
\* delay or deletes its history.
UtTest(t, d) ==
  /\ utTests < UtMaxTests
  /\ utHistory[t] # d
  /\ utHistory' = [utHistory EXCEPT ![t] = d]
  /\ utTests' = utTests + 1
  /\ UNCHANGED <<utOutbounds, sel, checker, utConn, utGen>>

(* DialContext and ListenPacket: the selected outbound dials, or the one   *)
(* Select finds when none is selected.                                     *)
UtDialContext(c, net, ext) ==
  /\ utConn[c].st = "free"
  /\ LET o == IF sel[net] = UtNoOutbound THEN Select(net).out ELSE sel[net]
     IN  /\ o # UtNoOutbound
         /\ utConn' = [utConn EXCEPT ![c] = [st |-> "dialing", via |-> o, net |-> net,
                                         external |-> ext, late |-> FALSE]]
  /\ UNCHANGED <<utOutbounds, sel, utHistory, checker, utGen, utTests>>

UtNewConn(c) ==
  /\ utConn[c].st = "dialing"
  /\ utConn' = [utConn EXCEPT ![c] =
       [st |-> "open", via |-> utConn[c].via, net |-> utConn[c].net,
        external |-> utConn[c].external,
        late |-> sel[utConn[c].net] \notin {UtNoOutbound, utConn[c].via}]]
  /\ UNCHANGED <<utOutbounds, sel, utHistory, checker, utGen, utTests>>

\* A dial that fails deletes the history of its outbound.
UtDialFails(c) ==
  /\ utConn[c].st = "dialing"
  /\ utHistory' = [utHistory EXCEPT ![utConn[c].via.tag] = UtNoDelay]
  /\ utConn' = [utConn EXCEPT ![c] = UtFree]
  /\ UNCHANGED <<utOutbounds, sel, checker, utGen, utTests>>

UtCloseConn(c) ==
  /\ utConn[c].st = "open"
  /\ utConn' = [utConn EXCEPT ![c] = UtFree]
  /\ UNCHANGED <<utOutbounds, sel, utHistory, checker, utGen, utTests>>

UtNext ==
  \/ \E p \in Checker :
       \/ PerformUpdateCheck(p)
       \/ \E c \in UtContents : UpdateOutbounds(p, c)
       \/ CheckSelect(p)
       \/ CheckAssign(p)
       \/ UtInterrupt(p)
  \/ \E t \in UtTag, d \in UtDelays \cup {UtNoDelay} : UtTest(t, d)
  \/ \E c \in UtConn :
       \/ \E net \in Network, ext \in BOOLEAN : UtDialContext(c, net, ext)
       \/ UtNewConn(c)
       \/ UtDialFails(c)
       \/ UtCloseConn(c)

UtSpec == UtInit /\ [][UtNext]_utVars

----------------------------------------------------------------------------
(* Properties. *)

\* docs/configuration/outbound/urltest.md: tolerance is "The test tolerance in
\* milliseconds".  Select leaves a tested outbound only for one that is faster
\* by more than the tolerance.
ToleranceRespected ==
  [][\A p \in Checker : CheckSelect(p) =>
       LET old == sel[checker[p].net]
           new == checker'[p].out
       IN  old # UtNoOutbound /\ UtTested(old) /\ new # old =>
             utHistory[new.tag] + Tolerance < utHistory[old.tag]]_utVars

\* Whatever order the members are listed and were tested in, Select finds an
\* outbound that no member of its network beats by more than the tolerance, and
\* finds one if any was tested.
LeastWithinTolerance ==
  [][\A p \in Checker : CheckSelect(p) =>
       \A o \in UtMembers : UtTested(o) /\ Supports(o, checker[p].net) =>
         /\ checker'[p].exists
         /\ utHistory[checker'[p].out.tag] <= utHistory[o.tag] + Tolerance]_utVars

\* docs/configuration/outbound/urltest.md: connections are interrupted "when the
\* selected outbound has changed".  However checks and updates of the members
\* overlap, a connection in the interrupt group uses the selected outbound of
\* its network, or a performUpdateCheck is about to interrupt it; excepted is a
\* connection whose dial was overtaken before NewConn registered it.
UtInterrupted ==
  \A c \in UtConn : UtInterruptible(c) /\ ~utConn[c].late =>
    \/ sel[utConn[c].net] \in {UtNoOutbound, utConn[c].via}
    \/ \E p \in Checker : checker[p].updated

(* Checks recur and run on. *)
UtFairness == \A p \in Checker : /\ WF_utVars(PerformUpdateCheck(p)) /\ WF_utVars(CheckSelect(p))
                               /\ WF_utVars(CheckAssign(p)) /\ WF_utVars(UtInterrupt(p))

UtFairSpec == UtSpec /\ UtFairness

UtSomeTested(net) == \E o \in UtMembers : UtTested(o) /\ Supports(o, net)

\* The group does not stay on an outbound that lost its history while another
\* member has one: a failed dial or test moves it at a later check.
DeadLeft ==
  \A net \in Network :
    UtSomeTested(net) ~> (~UtSomeTested(net) \/ (sel[net] # UtNoOutbound /\ UtTested(sel[net])))

-----------------------------------------------------------------------------
(* The properties above, by subject. *)

\* What a choice of URLTestGroup.Select may do: it leaves a tested outbound only for one faster by more than the
\* tolerance, and no member beats what it finds by more than the tolerance.
SelectSound ==
  /\ []UtTypeOK
  /\ ToleranceRespected
  /\ LeastWithinTolerance
=============================================================================
