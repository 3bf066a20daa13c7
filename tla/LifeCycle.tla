----------------------------- MODULE LifeCycle ------------------------------
(* The life of the service: box.go starts its components one after the      *)
(* other and closes all of them when one fails; cmd_run.go creates a box,   *)
(* waits for signals, and replaces the box on SIGHUP.  libbox calls Start   *)
(* and Close of the same box from the app, so that Close may meet a Start   *)
(* under way.                                                               *)
(*                                                                          *)
(* A Go function that starts or closes things is the sequence of its steps, *)
(* [op, c]: an operation on a component.                                    *)
EXTENDS Integers, Sequences, Functions

CONSTANTS LcBoxes,     \* configurations: [driver, cache, apis, outs, ins, provs, late, sets, geo]
          MaxSignals   \* bound: signals sent to the process

VARIABLES lcBox,     \* the configuration of the box under way
          lcPc,      \* the next step of Start
          lcStart,   \* Start: "no", "running", "ok" or "error"
          lcClose,   \* the next step of Close; 0: not called
          lcUp,      \* components whose start returned nil
          lcDown,    \* components closed, and not started since
          lcReady,   \* r.started
          lcPaused,  \* the network pause of the pause manager
          lcReset,   \* outbounds and transports told of a new interface
          lcMeet,    \* Close was called while Start was running
          lcRun      \* run(): where it is, the signal in its channel, the signals sent, whether
                     \* the box's context is cancelled, closeMonitor armed, a step hanging

\* The parts every box has.
Fixed ==
  {"log", "cacheFile", "interfaceMonitor", "networkMonitor", "fakeIPStore", "geoIP", "geosite", "powerListener",
   "dnsClient", "dnsRules", "sniffRules", "transports", "timeService", "processSearcher", "rules", "router"}

IsSeq(s) == s \in Seq(Range(s))

\* A component is of one kind.
ASSUME LcAssumption ==
  \A b \in LcBoxes :
    /\ b.driver \in {"run", "app"} /\ b.geo \in BOOLEAN /\ IsSeq(b.cache) /\ Range(b.cache) \subseteq {"cacheFile"}
    /\ \A cs \in {b.apis, b.outs, b.ins, b.provs, b.sets} :
         IsSeq(cs) /\ Range(cs) \cap Fixed = {}
    /\ Range(b.ins) \cap (Range(b.apis) \cup Range(b.outs) \cup Range(b.provs) \cup Range(b.sets)) = {}
    /\ Range(b.outs) \cap (Range(b.apis) \cup Range(b.provs) \cup Range(b.sets)) = {}

lcVars == <<lcBox, lcPc, lcStart, lcClose, lcUp, lcDown, lcReady, lcPaused, lcReset, lcMeet, lcRun>>

-----------------------------------------------------------------------------
(* The steps.                                                               *)
Do(op, cs) == [i \in DOMAIN cs |-> [op |-> op, c |-> cs[i]]]
If(cond, steps) == IF cond THEN steps ELSE <<>>

RouterPreStart(b) == Do("start", <<"interfaceMonitor", "networkMonitor", "fakeIPStore">>)

\* The rules are started in PostStart; the databases are read once here.
RouterStart(b) ==
  If(b.geo, Do("start", <<"geoIP", "geosite">>) \o Do("close", <<"geosite">>))
    \o Do("start", <<"powerListener", "dnsClient", "dnsRules", "sniffRules", "transports", "timeService">>)

RouterPostStart(b) ==
  Do("start", b.sets) \o Do("start", <<"processSearcher", "rules">>) \o Do("post", b.sets)
    \o Do("ready", <<"router">>)

LcCleanup(b) == Do("cleanup", b.sets)

preStart(b) ==
  Do("start", <<"log">>) \o Do("start", b.cache) \o Do("pre", b.apis)
    \o RouterPreStart(b) \o Do("start", b.provs) \o Do("start", b.outs) \o RouterStart(b)

\* The step of an outbound or inbound that is no PostStarter does nothing.
postStart(b) ==
  Do("post", b.outs) \o Do("post", b.provs) \o RouterPostStart(b) \o Do("post", b.ins)

start(b) ==
  preStart(b) \o Do("start", b.apis) \o Do("start", b.ins) \o postStart(b) \o LcCleanup(b)

\* Mutant of RouterClose: the servers are left out.
RouterCloseShort(b) ==
  Do("close", <<"rules", "dnsRules", "interfaceMonitor", "networkMonitor", "processSearcher",
                "powerListener", "timeService", "fakeIPStore">>)

\* Router.Close: neither the rule-sets nor the sniff override rules are closed.
RouterClose(b) ==
  Do("close", <<"rules", "dnsRules", "transports">>) \o If(b.geo, Do("close", <<"geoIP">>))
    \o Do("close", <<"interfaceMonitor", "networkMonitor", "processSearcher", "powerListener",
                     "timeService", "fakeIPStore">>)

\* Mutant of Close: the outbounds are closed before the inbounds.
CloseOutboundsFirst(b) ==
  Do("close", b.outs) \o Do("close", b.ins) \o Do("close", b.provs) \o RouterClose(b)
    \o Do("close", b.cache) \o Do("close", b.apis) \o Do("close", <<"log">>)

Close(b) ==
  Do("close", b.ins) \o Do("close", b.outs) \o Do("close", b.provs) \o RouterClose(b)
    \o Do("close", b.cache) \o Do("close", b.apis) \o Do("close", <<"log">>)

\* Components that hold nothing to close, and those Router.Close leaves out.
Unclosed(b) == {"dnsClient", "sniffRules", "router"} \cup Range(b.sets)

\* What a component hands its work to.
Needs(b, c) ==
  CASE c \in Range(b.ins) -> Range(b.outs) \cup {"dnsRules", "transports", "fakeIPStore", "log"}
    [] c \in Range(b.outs) -> {"log"} \cup Range(b.cache)
    [] c = "fakeIPStore" -> Range(b.cache)
    [] OTHER -> {"log"} \ {c}

Open == lcUp \ lcDown

LcStart(b, at) ==
  /\ lcBox = b /\ lcPc = 1 /\ lcStart = "no" /\ lcClose = 0 /\ lcUp = {} /\ lcDown = {}
  /\ lcReady = FALSE /\ lcPaused = FALSE /\ lcReset = {} /\ lcMeet = FALSE
  /\ lcRun = [at |-> at, chan |-> "none", sent |-> 0, cancelled |-> FALSE, armed |-> FALSE, hung |-> FALSE]

LcInit == \E b \in LcBoxes : LcStart(b, "create")

\* Box.Close, called: only the first call does anything.
ShutDown(met) ==
  /\ lcClose' = IF lcClose = 0 THEN 1 ELSE lcClose
  /\ lcMeet' = (lcMeet \/ met)

-----------------------------------------------------------------------------
(* The box.                                                                 *)
Hung == lcRun.hung

\* The next step of Start succeeds; Box.Start returns after the last.
StartStep ==
  LET steps == start(lcBox)
      step  == steps[lcPc]
  IN /\ lcStart = "running" /\ ~Hung
     /\ lcUp' = IF step.op = "start" THEN lcUp \cup {step.c} ELSE lcUp
     /\ lcDown' = CASE step.op = "start" -> lcDown \ {step.c}
                    [] step.op = "close" -> lcDown \cup {step.c}
                    [] OTHER -> lcDown
     /\ lcReady' = (lcReady \/ step.op = "ready")
     /\ lcPc' = lcPc + 1
     /\ lcStart' = IF lcPc = Len(steps) THEN "ok" ELSE "running"
     /\ UNCHANGED <<lcBox, lcClose, lcPaused, lcReset, lcMeet, lcRun>>

\* The steps whose error ends Start.
CanFail(b, step) ==
  \/ step.op = "start"
  \/ step.op = "post" /\ step.c \in b.late \cup Range(b.provs) \cup Range(b.sets)

\* It fails: the box is closed, with all that was not started.
StartFails ==
  /\ lcStart = "running" /\ ~Hung
  /\ CanFail(lcBox, start(lcBox)[lcPc])
  /\ lcStart' = "error" /\ ShutDown(FALSE)
  /\ UNCHANGED <<lcBox, lcPc, lcUp, lcDown, lcReady, lcPaused, lcReset, lcRun>>

\* Close goes through all components, whatever the errors.
CloseStep ==
  /\ lcClose \in 1..Len(Close(lcBox)) /\ ~Hung
  /\ lcDown' = lcDown \cup {Close(lcBox)[lcClose].c}
  /\ lcClose' = lcClose + 1
  /\ UNCHANGED <<lcBox, lcPc, lcStart, lcUp, lcReady, lcPaused, lcReset, lcMeet, lcRun>>

ResetNetwork == lcReset' = lcReset \cup Range(lcBox.outs) \cup Range(lcBox.provs) \cup {"transports"}

notifyNetworkUpdate(noRoute) ==
  /\ "interfaceMonitor" \in Open
  /\ lcPaused' = noRoute
  /\ IF lcReady THEN ResetNetwork ELSE UNCHANGED lcReset
  /\ UNCHANGED <<lcBox, lcPc, lcStart, lcClose, lcUp, lcDown, lcReady, lcMeet, lcRun>>

\* Not guarded by r.started.
notifyWindowsPowerEvent ==
  /\ "powerListener" \in Open
  /\ ResetNetwork
  /\ UNCHANGED <<lcBox, lcPc, lcStart, lcClose, lcUp, lcDown, lcReady, lcPaused, lcMeet, lcRun>>

\* libbox: the app calls Start, and Close when it likes.
AppStart ==
  /\ lcBox.driver = "app" /\ lcStart = "no" /\ lcStart' = "running"
  /\ UNCHANGED <<lcBox, lcPc, lcClose, lcUp, lcDown, lcReady, lcPaused, lcReset, lcMeet, lcRun>>

AppClose ==
  /\ lcBox.driver = "app" /\ lcStart # "no" /\ lcClose = 0
  /\ ShutDown(lcStart = "running")
  /\ UNCHANGED <<lcBox, lcPc, lcStart, lcUp, lcDown, lcReady, lcPaused, lcReset, lcRun>>

-----------------------------------------------------------------------------
(* run() and create() of cmd_run.go.                                        *)
Ended == lcRun.at \in {"ended", "fatal"}
Starting == lcRun.at = "starting"
Closed == lcClose > Len(Close(lcBox))

\* The channel of run() holds one signal, a second one is lost; the channel of
\* create() hears it too, while the box starts, and cancels the box's context.
Signal(sig) ==
  /\ lcBox.driver = "run" /\ ~Ended /\ lcRun.sent < MaxSignals
  /\ lcRun' = [lcRun EXCEPT !.sent = @ + 1, !.chan = IF @ = "none" THEN sig ELSE @,
                            !.cancelled = @ \/ Starting, !.armed = @ \/ Starting]
  /\ UNCHANGED <<lcBox, lcPc, lcStart, lcClose, lcUp, lcDown, lcReady, lcPaused, lcReset, lcMeet>>

\* create(): a configuration that is not accepted ends the process.
create ==
  /\ lcBox.driver = "run" /\ lcRun.at = "create"
  /\ \/ /\ lcRun' = [lcRun EXCEPT !.at = "starting", !.cancelled = FALSE, !.armed = FALSE]
        /\ lcPc' = 1 /\ lcStart' = "running" /\ lcClose' = 0 /\ lcUp' = {} /\ lcDown' = {}
        /\ lcReady' = FALSE /\ lcReset' = {}
     \/ /\ lcRun' = [lcRun EXCEPT !.at = "ended"]
        /\ UNCHANGED <<lcPc, lcStart, lcClose, lcUp, lcDown, lcReady, lcReset>>
  /\ UNCHANGED <<lcBox, lcPaused, lcMeet>>

\* Start has returned: with an error the box is closed already.
Created ==
  /\ Starting /\ lcStart # "running" /\ (lcStart = "error" => Closed)
  /\ lcRun' = [lcRun EXCEPT !.at = IF lcStart = "ok" THEN "wait" ELSE "ended", !.armed = FALSE]
  /\ UNCHANGED <<lcBox, lcPc, lcStart, lcClose, lcUp, lcDown, lcReady, lcPaused, lcReset, lcMeet>>

\* Mutant of TakeSignal: nothing watches Close.
TakeSignalUnwatched ==
  /\ lcRun.at = "wait" /\ lcRun.chan # "none"
  /\ lcRun' = [lcRun EXCEPT !.chan = "none", !.at = IF lcRun.chan = "HUP" THEN "reload" ELSE "stop",
                            !.cancelled = TRUE]
  /\ ShutDown(FALSE)
  /\ UNCHANGED <<lcBox, lcPc, lcStart, lcUp, lcDown, lcReady, lcPaused, lcReset>>

\* A signal: check() may refuse the new configuration, and the box stays;
\* otherwise it is closed, and closeMonitor watches.
TakeSignal ==
  /\ lcRun.at = "wait" /\ lcRun.chan # "none"
  /\ \/ lcRun.chan = "HUP" /\ lcRun' = [lcRun EXCEPT !.chan = "none"] /\ UNCHANGED <<lcClose, lcMeet>>
     \/ /\ lcRun' = [lcRun EXCEPT !.chan = "none", !.at = IF lcRun.chan = "HUP" THEN "reload" ELSE "stop",
                               !.cancelled = TRUE, !.armed = TRUE]
        /\ ShutDown(FALSE)
  /\ UNCHANGED <<lcBox, lcPc, lcStart, lcUp, lcDown, lcReady, lcPaused, lcReset>>

\* The box is closed: create the next one, or return.
run ==
  /\ lcRun.at \in {"reload", "stop"} /\ Closed
  /\ lcRun' = [lcRun EXCEPT !.at = IF @ = "reload" THEN "create" ELSE "ended", !.armed = FALSE]
  /\ UNCHANGED <<lcBox, lcPc, lcStart, lcClose, lcUp, lcDown, lcReady, lcPaused, lcReset, lcMeet>>

\* A step of Start or Close may never return; closeMonitor ends the process.
Hang ==
  /\ lcBox.driver = "run" /\ lcRun.at \in {"starting", "reload", "stop"} /\ ~Hung
  /\ lcRun' = [lcRun EXCEPT !.hung = TRUE]
  /\ UNCHANGED <<lcBox, lcPc, lcStart, lcClose, lcUp, lcDown, lcReady, lcPaused, lcReset, lcMeet>>

closeMonitor ==
  /\ lcRun.armed /\ Hung /\ ~Ended
  /\ lcRun' = [lcRun EXCEPT !.at = "fatal"]
  /\ UNCHANGED <<lcBox, lcPc, lcStart, lcClose, lcUp, lcDown, lcReady, lcPaused, lcReset, lcMeet>>

LcWork == StartStep \/ StartFails \/ CloseStep \/ create \/ Created \/ TakeSignal \/ run \/ closeMonitor
LcNext ==
  /\ ~Ended
  /\ \/ LcWork \/ AppStart \/ AppClose \/ Hang
     \/ \E sig \in {"TERM", "HUP"} : Signal(sig)
     \/ \E noRoute \in BOOLEAN : notifyNetworkUpdate(noRoute)
     \/ notifyWindowsPowerEvent

LcSpec == LcInit /\ [][LcNext]_lcVars

-----------------------------------------------------------------------------
(* Properties.                                                              *)

\* The states of the box and of run().
LcTypeOK ==
  /\ lcPc \in 1..(Len(start(lcBox)) + 1) /\ lcClose \in 0..(Len(Close(lcBox)) + 1)
  /\ lcStart \in {"no", "running", "ok", "error"}
  /\ lcRun.at \in {"create", "starting", "wait", "reload", "stop", "ended", "fatal"}
  /\ lcRun.chan \in {"none", "TERM", "HUP"}

\* Whatever step of Start failed, and however the box ended: what was started is
\* closed, but for the rule-sets and sniff override rules Router.Close leaves
\* out, and unless Close met a Start that went on behind it.
NothingLeftOpen ==
  (Closed /\ lcStart # "running" /\ ~lcMeet) \/ lcRun.at = "ended" => Open \subseteq Unclosed(lcBox)

\* An open inbound finds the outbounds, the DNS rules and servers, the fake-IP
\* store and the log open, an outbound the cache file: on the way up and down.
NeedsMet == ~lcMeet => \A c \in Open \ Unclosed(lcBox) : Needs(lcBox, c) \subseteq Open

\* A change of the interface or of the power state reaches no outbound and no
\* provider before it was started.
ResetOnlyStarted == lcReset \ {"transports"} \subseteq lcUp

\* While run() waits for a signal a complete box is there: a reload whose
\* configuration is refused has not touched it.
WaitMeansRunning ==
  lcRun.at = "wait" => lcStart = "ok" /\ lcReady /\ Range(lcBox.ins) \subseteq Open

Stopping == lcRun.chan = "TERM" \/ lcRun.at = "stop"

\* A SIGTERM in the channel of run(), or taken from it, ends the process, even
\* if a component hangs: but not when the Start that hangs began after it.
TermHonoured == Stopping ~> (Ended \/ (Starting /\ Hung /\ ~lcRun.armed))

-----------------------------------------------------------------------------
(* The properties above, by subject. *)

\* Start, Close and reload in order, whatever fails or signals in between: an open part finds what it needs
\* open, none is reset before it was started, and run() waits only on a complete box.
OrderKept ==
  /\ LcTypeOK
  /\ NeedsMet
  /\ ResetOnlyStarted
  /\ WaitMeansRunning
=============================================================================
