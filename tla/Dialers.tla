------------------------------ MODULE Dialers ------------------------------
(***************************************************************************)
(* How the program opens sockets (common/dialer, common/conntrack).        *)
(*                                                                         *)
(*   - New wires a dialer from its options: the system dialer or a detour, *)
(*     with a ResolveDialer in front when a name may arrive;               *)
(*   - ResolveDialer tries the addresses of a name and, with               *)
(*     store_last_ip, first the one that last answered.  The stored        *)
(*     address is one field shared by every caller and has no lock, so a   *)
(*     reader may see it half written (Torn);                              *)
(*   - with concurrent_dial a socket is opened by three goroutines that    *)
(*     send on one channel and the first success wins;                     *)
(*   - conntrack keeps the list of open connections that the memory killer *)
(*     and the control interfaces close.                                   *)
(*                                                                         *)
(* One scenario exercises one of the three last parts.                     *)
(***************************************************************************)
EXTENDS Integers, Sequences, FiniteSets, Functions

CONSTANTS DlScenarios, \* [part, options, direct, names: caller -> destination]
          DlAnswers,   \* what a lookup of a name returns: name -> sequence of addresses
          DlRacers,    \* goroutines of one concurrent dial (3 in the code)
          DlRetries,   \* attempts of each of them (4 in the code)
          DlConns      \* connections that conntrack sees

VARIABLES dlScn,    \* the scenario
          dlPrefer, \* dialPreferIP / listenPreferIP
          dlCall,   \* what each caller of the dialer is doing
          dlRace,   \* one concurrent dial
          dlTrack   \* the list of open connections

dlVars == <<dlScn, dlPrefer, dlCall, dlRace, dlTrack>>

NoIP == "none"
Torn == "torn"
Failed == [base |-> "error"]
IsName(d) == d \in DOMAIN DlAnswers

\* Goroutines have positive numbers, and no address is a name: a list of addresses has type []netip.Addr.
ASSUME DlAssumption ==
  /\ IsFiniteSet(DlConns) /\ IsFiniteSet(DlRacers) /\ DlRacers \subseteq Nat \ {0}
  /\ \A n \in DOMAIN DlAnswers : DlAnswers[n] \in Seq(Range(DlAnswers[n]) \ DOMAIN DlAnswers)
  /\ \A scn \in DlScenarios :
       LET addresses == scn.options.addresses IN addresses \in Seq(Range(addresses) \ DOMAIN DlAnswers)

-----------------------------------------------------------------------------
(* Wiring. *)

\* The interface a socket is bound to, by precedence.
Bind(o) ==
  IF o.bindInterface THEN "interface"
  ELSE IF o.router /\ o.autoDetect THEN "auto"
  ELSE IF o.router /\ o.defaultInterface THEN "default" ELSE "none"

\* The system dialer: where its sockets are bound and how they are marked; a second mark beside
\* the one auto_redirect needs, or multi-path TCP the build does not have, is an error.
NewDefault(o) ==
  LET auto  == IF o.router /\ o.autoRedirect THEN {"redirect"} ELSE {}
      other == IF o.routingMark THEN {"own"} ELSE IF o.router /\ o.defaultMark THEN {"route"} ELSE {}
  IN IF (auto # {} /\ other # {}) \/ (o.multiPath /\ ~o.go121) THEN Failed
     ELSE [base |-> "system", bind |-> Bind(o), marks |-> auto \cup other, resolve |-> FALSE,
           parallel |-> FALSE, addresses |-> {}]

\* The places of the addresses that do not repeat an earlier one.
NewResolveDialer(addresses) ==
  {i \in DOMAIN addresses : \A j \in 1..(i - 1) : addresses[j] # addresses[i]}

DlNew(o, direct) ==
  IF o.wireGuard \/ ~o.router THEN NewDefault(o)
  ELSE LET d == IF o.detour THEN [base |-> "detour"] ELSE NewDefault(o)
       IN IF d = Failed THEN Failed
          ELSE [base      |-> d.base,
                marks     |-> IF o.detour THEN {} ELSE d.marks,
                resolve   |-> o.strategy \/ ~o.detour \/ (~direct /\ o.addresses # <<>>),
                parallel  |-> ~o.detour /\ ~o.tfo /\ o.strategy,
                addresses |-> NewResolveDialer(o.addresses)]

Dialer == DlNew(dlScn.options, dlScn.direct)
Stores == dlScn.options.storeLastIP /\ ~dlScn.direct

-----------------------------------------------------------------------------
\* list are the addresses of a call, left the places in it of those still to try, tried those tried.
NoCall == [pc |-> "call", list |-> <<>>, left |-> {}, tried |-> <<>>, got |-> NoIP]
DlWaiting == -1
NoRace == [tries |-> [g \in DlRacers |-> 0], sent |-> {}, chan |-> <<>>, taken |-> 0,
           ret |-> DlWaiting, open |-> {}, closed |-> FALSE, panic |-> FALSE]
NoTrack == [pc |-> [i \in DlConns |-> "new"], list |-> {}, len |-> 0, held |-> {}, open |-> {}]

DlStart(scn) ==
  /\ dlScn = scn /\ dlPrefer = NoIP
  /\ dlCall = [c \in DOMAIN scn.names |-> NoCall]
  /\ dlRace = NoRace /\ dlTrack = NoTrack
DlInit == \E scn \in DlScenarios : DlStart(scn)

\* Step of caller c of the resolving dialer.
At(c, pc) == dlScn.part = "resolve" /\ dlCall[c].pc = pc
Call(c, call) == dlCall' = [dlCall EXCEPT ![c] = call] /\ UNCHANGED <<dlScn, dlRace, dlTrack>>
Goes(c, pc) == Call(c, [dlCall[c] EXCEPT !.pc = pc])

\* The addresses are known: c goes on with those at the places left.
Starts(c, pc, list, left) ==
  Call(c, [pc |-> pc, list |-> list, left |-> left, tried |-> <<>>, got |-> NoIP])

\* lookup: the addresses to try, those of the options for a server or the answer for the name.
lookup(c) ==
  /\ At(c, "call")
  /\ LET d == dlScn.names[c]  addresses == dlScn.options.addresses IN
     IF Dialer = Failed THEN Goes(c, "refused")
     ELSE IF ~IsName(d) \/ ~Dialer.resolve THEN Starts(c, "dial", <<d>>, {1})
     ELSE IF ~dlScn.direct /\ addresses # <<>> THEN Starts(c, "prefer", addresses, Dialer.addresses)
     ELSE \/ Goes(c, "refused")
          \/ Starts(c, "prefer", DlAnswers[d], DOMAIN DlAnswers[d])
  /\ UNCHANGED dlPrefer

\* c tried address a, which leaves the places left: it is connected, or it fails after the last.
Connects(c, a, left, pc) ==
  Call(c, [pc |-> pc, list |-> dlCall[c].list, left |-> left, tried |-> Append(dlCall[c].tried, a), got |-> a])
Misses(c, a, left) ==
  Call(c, [pc |-> IF left = {} THEN "failed" ELSE "dial", list |-> dlCall[c].list, left |-> left,
           tried |-> Append(dlCall[c].tried, a), got |-> NoIP])

\* Mutant of Preferred: the stored address is used whatever the name resolves to.
PreferredAny(c) == Stores /\ dlPrefer \notin {NoIP, Torn}

\* The address that last answered is tried first, if it is one of the addresses.
Preferred(c) == Stores /\ \E i \in dlCall[c].left : dlCall[c].list[i] = dlPrefer

\* DialContext, ListenPacket of the ResolveDialer up to the serial attempts.
DialContext(c) ==
  /\ At(c, "prefer")
  /\ IF ~Preferred(c) THEN Goes(c, "dial")
     ELSE LET left == {i \in dlCall[c].left : dlCall[c].list[i] # dlPrefer}
          IN Connects(c, dlPrefer, left, "store") \/ Misses(c, dlPrefer, left)
  /\ UNCHANGED dlPrefer

\* dialContextWithAddr: the addresses one after another, or in parallel in any order.
dialContextWithAddr(c) ==
  /\ At(c, "dial")
  /\ \E i \in dlCall[c].left :
       /\ Dialer.parallel \/ \A j \in dlCall[c].left : i <= j
       /\ LET a == dlCall[c].list[i]  left == dlCall[c].left \ {i}
              next == IF Stores /\ Dialer.resolve /\ IsName(dlScn.names[c]) THEN "store" ELSE "up"
          IN Connects(c, a, left, next) \/ Misses(c, a, left)
  /\ UNCHANGED dlPrefer

\* The address is stored for the next caller: a write of several words.
StorePreferred(c) ==
  \/ At(c, "store") /\ dlPrefer' = Torn /\ Goes(c, "storing")
  \/ At(c, "storing") /\ dlPrefer' = dlCall[c].got /\ Goes(c, "up")

-----------------------------------------------------------------------------
(* Concurrent dial: chan holds 0 for an error and the racer's number for a connection. *)

InRace == dlScn.part = "race" /\ ~dlRace.panic
Race(r) == dlRace' = r /\ UNCHANGED <<dlScn, dlPrefer, dlCall, dlTrack>>

\* Goroutine g sends v: on a closed channel that is a panic.
Send(g, v, tries, open) ==
  Race([dlRace EXCEPT !.sent = @ \cup {g}, !.tries = tries, !.open = open, !.panic = dlRace.closed,
                      !.chan = IF dlRace.closed THEN @ ELSE Append(@, v)])

\* dialContextWithRetry in goroutine g of dialContextConcurrently.
dialContextWithRetry(g) ==
  /\ InRace /\ g \notin dlRace.sent
  /\ \/ Send(g, g, dlRace.tries, dlRace.open \cup {g})
     \/ LET n == dlRace.tries[g] + 1  tries == [dlRace.tries EXCEPT ![g] = n]
        IN IF n < DlRetries THEN Race([dlRace EXCEPT !.tries = tries])
           ELSE Send(g, 0, tries, dlRace.open)

\* The loop of getResultFromConnChan: the first connection, or the last error.
getResultFromConnChan ==
  /\ InRace /\ dlRace.ret = DlWaiting /\ dlRace.chan # <<>>
  /\ LET v == Head(dlRace.chan)  n == dlRace.taken + 1 IN
     Race([dlRace EXCEPT !.chan = Tail(@), !.taken = n,
                         !.ret = IF v # 0 THEN v ELSE IF n = Cardinality(DlRacers) THEN 0 ELSE DlWaiting])

\* One message more is received, and its connection closed.
Drops == dlRace.chan # <<>> /\ Race([dlRace EXCEPT !.chan = Tail(@), !.taken = @ + 1, !.open = @ \ {Head(dlRace.chan)}])

\* Mutant of drainConnChan: the deferred goroutine counts one message too many as received.
drainConnChanEarly ==
  /\ InRace /\ dlRace.ret # DlWaiting /\ ~dlRace.closed
  /\ IF dlRace.taken + 1 >= Cardinality(DlRacers) THEN Race([dlRace EXCEPT !.closed = TRUE]) ELSE Drops

\* The deferred goroutine: the other connections are closed, then the channel.
drainConnChan ==
  /\ InRace /\ dlRace.ret # DlWaiting /\ ~dlRace.closed
  /\ IF dlRace.taken >= Cardinality(DlRacers) THEN Race([dlRace EXCEPT !.closed = TRUE]) ELSE Drops

-----------------------------------------------------------------------------
(* conntrack: held are the elements whose Value is still set; removing an element from the   *)
(* list lowers its length whether or not Init has emptied the list meanwhile.                *)

Track(pc, list, len, held, open) ==
  /\ dlTrack' = [pc |-> pc, list |-> list, len |-> len, held |-> held, open |-> open]
  /\ UNCHANGED <<dlScn, dlPrefer, dlCall, dlRace>>
TrackAt(i, pc) == dlScn.part = "track" /\ dlTrack.pc[i] = pc
TrackGoes(i, pc) == [dlTrack.pc EXCEPT ![i] = pc]

\* i goes on and the list stays as it is.
Passes(i, pc, open) == Track(TrackGoes(i, pc), dlTrack.list, dlTrack.len, dlTrack.held, open)

NewConn(i) ==
  /\ TrackAt(i, "new")
  /\ Track(TrackGoes(i, "check"), dlTrack.list \cup {i}, dlTrack.len + 1, dlTrack.held \cup {i}, dlTrack.open \cup {i})

\* Close of the list: every connection in it, under the lock; also: what the caller closes besides.
TrackClose(pc, also) ==
  Track(pc, {}, 0, dlTrack.held \ dlTrack.list, (dlTrack.open \ dlTrack.list) \ also)

\* KillerCheck: over the limit everything is closed and the new connection refused.
KillerCheck(i) ==
  /\ TrackAt(i, "check")
  /\ Passes(i, "open", dlTrack.open) \/ TrackClose(TrackGoes(i, "gone"), {i})

\* Close of one connection: a look at the element without the lock, then under it.
ConnClose(i) ==
  \/ TrackAt(i, "open") /\ Passes(i, IF i \in dlTrack.held THEN "closing" ELSE "last", dlTrack.open)
  \/ /\ TrackAt(i, "closing")
     /\ IF i \notin dlTrack.held THEN Passes(i, "last", dlTrack.open)
        ELSE Track(TrackGoes(i, "last"), dlTrack.list \ {i}, dlTrack.len - 1, dlTrack.held \ {i}, dlTrack.open)
  \/ TrackAt(i, "last") /\ Passes(i, "gone", dlTrack.open \ {i})

\* A control interface closes everything.
CloseConnections == dlScn.part = "track" /\ dlTrack.list # {} /\ TrackClose(dlTrack.pc, {})

-----------------------------------------------------------------------------
DlNext ==
  \/ \E c \in DOMAIN dlCall :
       lookup(c) \/ DialContext(c) \/ dialContextWithAddr(c) \/ StorePreferred(c)
  \/ \E g \in DlRacers : dialContextWithRetry(g)
  \/ getResultFromConnChan
  \/ drainConnChan
  \/ \E i \in DlConns : NewConn(i) \/ KillerCheck(i) \/ ConnClose(i)
  \/ CloseConnections

DlSpec == DlInit /\ [][DlNext]_dlVars

\* The goroutines of a dial run: each attempt ends, and what is in the channel is received.
DlFairness ==
  /\ WF_dlVars(\E g \in DlRacers : dialContextWithRetry(g))
  /\ WF_dlVars(getResultFromConnChan)
  /\ WF_dlVars(drainConnChan)

-----------------------------------------------------------------------------
\* The ranges: the address kept by a resolving dialer is one some name has, or a half-written one,
\* and no more results are taken from a race than there are racers.
DlTypeOK ==
  /\ dlScn \in DlScenarios
  /\ dlPrefer \in {NoIP, Torn} \cup (UNION {Range(DlAnswers[n]) : n \in DOMAIN DlAnswers})
                  \cup Range(dlScn.options.addresses)
  /\ \A c \in DOMAIN dlCall :
       dlCall[c].pc \in {"call", "prefer", "dial", "store", "storing", "up", "failed", "refused"}
  /\ dlRace.taken \in 0..Cardinality(DlRacers)
  /\ dlTrack.len \in Int

\* Whatever other callers do to the stored address, and even when it is read half written, a name
\* is only ever connected to one of its own addresses, and each of them is tried at most once,
\* unless the answer names it twice (ResolveDialer.DialContext, ListenPacket).
OwnAddress ==
  \A c \in DOMAIN dlCall :
    /\ dlCall[c].got # NoIP => dlCall[c].got \in Range(dlCall[c].list)
    /\ \/ IsInjective(dlCall[c].tried)
       \/ IsName(dlScn.names[c]) /\ ~IsInjective(DlAnswers[dlScn.names[c]])

\* A dial fails only after every address of the name was tried.
FailsLast ==
  \A c \in DOMAIN dlCall :
    dlCall[c].pc = "failed" => Range(dlCall[c].tried) = Range(dlCall[c].list)

\* No name reaches the system dialer, which would ask the system's resolver instead of the
\* router's DNS servers, and sockets under auto_redirect carry its mark alone (new, NewDefault).
NamesResolvedHere ==
  dlScn.part = "resolve" /\ dlScn.options.router /\ ~dlScn.options.wireGuard =>
    /\ \A c \in DOMAIN dlCall :
         \A i \in DOMAIN dlCall[c].tried :
           IsName(dlCall[c].tried[i]) => Dialer.base = "detour" /\ ~dlScn.options.strategy
    /\ dlScn.options.autoRedirect /\ Dialer.base = "system" => Dialer.marks = {"redirect"}

\* Of the sockets a concurrent dial opened, all but the one it returned are closed again, and
\* no goroutine sends on the channel after it was closed (getResultFromConnChan).
OneSocketKept ==
  /\ ~dlRace.panic
  /\ dlRace.closed => dlRace.open = {dlRace.ret} \ {0}

\* A concurrent dial always comes to an end: the caller gets its answer and the goroutine that
\* closes the others ends too (getResultFromConnChan).
RaceEnds == dlScn.part = "race" ~> (dlRace.ret # DlWaiting /\ dlRace.closed)

\* The number of connections reported is the number in the list, every one of them is open, and
\* a connection closed by its user at the same time as by the memory killer is counted out once.
CountRight == dlTrack.len = Cardinality(dlTrack.list) /\ dlTrack.list \subseteq dlTrack.open

-----------------------------------------------------------------------------
(* The properties above, by subject. *)

\* What a dialer connects to: only addresses of the name it was asked for, all of them before it fails, and
\* never a name left to the system's resolver.
DialersSound ==
  /\ DlTypeOK
  /\ OwnAddress
  /\ FailsLast
  /\ NamesResolvedHere
=============================================================================
