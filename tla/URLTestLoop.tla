----------------------------- MODULE URLTestLoop -----------------------------
(* The life of a URL test group's ticker and of the goroutine that serves   *)
(* it (outbound/urltest.go: PostStart, Touch, loopCheck, Close).            *)
(*                                                                          *)
(* Every dial calls Touch.  The first one makes the ticker and starts       *)
(* loopCheck; after an idle timeout loopCheck drops the ticker and ends.    *)
(* Touch and Close read the ticker without the lock.                        *)
(* Time is kept as ages: how long ago lastActive was set, and how long until *)
(* the ticker's next tick.                                                   *)
EXTENDS Integers, FiniteSets

CONSTANTS Interval,     \* g.interval
          IdleTimeout,  \* g.idleTimeout
          Toucher,      \* concurrent callers of Touch
          Loop          \* bound: goroutines of loopCheck alive at once

VARIABLES ulStarted,  \* g.started
          ticker,   \* g.ticker: "none" (nil), "running" or "stopped"
          tick,     \* is a tick waiting in g.ticker.C?
          due,      \* time until the next tick
          age,      \* time since g.lastActive, up to the bound AgeMax
          closed,   \* is g.close closed?
          paused,   \* is the pause manager pausing?
          toucher,  \* calls of Touch
          loop,     \* goroutines of loopCheck
          closer    \* the call of Close

ulVars == <<ulStarted, ticker, tick, due, age, closed, paused, toucher, loop, closer>>

ASSUME LoopAssumption == /\ Interval \in Nat \ {0} /\ IdleTimeout \in Nat
                         /\ Interval <= IdleTimeout

AgeMax == IdleTimeout + 1
Live   == {"begin", "check", "select", "ticked", "stop", "wait"}

\* The states of the group's goroutine, its ticker and the callers of Touch.
UlTypeOK ==
  /\ ulStarted \in BOOLEAN
  /\ ticker \in {"none", "running", "stopped"}
  /\ tick \in BOOLEAN
  /\ due \in 1..Interval
  /\ age \in 0..AgeMax
  /\ closed \in BOOLEAN
  /\ paused \in BOOLEAN
  /\ toucher \in [Toucher -> {"idle", "active", "lock"}]
  /\ loop \in [Loop -> Live \cup {"idle"}]
  /\ closer \in {"idle", "stop", "close", "done", "panic"}

UlInit ==
  /\ ulStarted = FALSE
  /\ ticker = "none"
  /\ tick = FALSE
  /\ due = Interval
  /\ age = 0
  /\ closed = FALSE
  /\ paused = FALSE
  /\ toucher = [t \in Toucher |-> "idle"]
  /\ loop = [l \in Loop |-> "idle"]
  /\ closer = "idle"

----------------------------------------------------------------------------
PostStart ==
  /\ ~ulStarted
  /\ ulStarted' = TRUE
  /\ age' = 0
  /\ UNCHANGED <<ticker, tick, due, closed, paused, toucher, loop, closer>>

(* Touch: a ticker means only lastActive is set; no ticker means the lock   *)
(* is taken and the ticker looked at again.                                 *)
Touch(t) ==
  /\ ulStarted
  /\ toucher[t] = "idle"
  /\ toucher' = [toucher EXCEPT ![t] = IF ticker # "none" THEN "active" ELSE "lock"]
  /\ UNCHANGED <<ulStarted, ticker, tick, due, age, closed, paused, loop, closer>>

TouchActive(t) ==
  /\ toucher[t] = "active"
  /\ age' = 0
  /\ toucher' = [toucher EXCEPT ![t] = "idle"]
  /\ UNCHANGED <<ulStarted, ticker, tick, due, closed, paused, loop, closer>>

\* Mutant: the ticker is not looked at again under the lock.
TouchLockedBlind(t, l) ==
  /\ toucher[t] = "lock"
  /\ toucher' = [toucher EXCEPT ![t] = "idle"]
  /\ loop[l] = "idle"
  /\ ticker' = "running"
  /\ tick' = FALSE
  /\ due' = Interval
  /\ loop' = [loop EXCEPT ![l] = "begin"]
  /\ UNCHANGED <<ulStarted, age, closed, paused, closer>>

TouchLocked(t, l) ==
  /\ toucher[t] = "lock"
  /\ toucher' = [toucher EXCEPT ![t] = "idle"]
  /\ IF ticker # "none"
     THEN UNCHANGED <<ticker, tick, due, loop>>
     ELSE /\ loop[l] = "idle"
          /\ ticker' = "running"
          /\ tick' = FALSE
          /\ due' = Interval
          /\ loop' = [loop EXCEPT ![l] = "begin"]
  /\ UNCHANGED <<ulStarted, age, closed, paused, closer>>

(* loopCheck.  CheckOutbounds takes its time and leaves this state alone.   *)
LoopBegin(l) ==
  /\ loop[l] = "begin"
  /\ IF age > Interval
     THEN /\ age' = 0
          /\ loop' = [loop EXCEPT ![l] = "check"]
     ELSE /\ loop' = [loop EXCEPT ![l] = "select"]
          /\ UNCHANGED age
  /\ UNCHANGED <<ulStarted, ticker, tick, due, closed, paused, toucher, closer>>

LoopChecked(l) ==
  /\ loop[l] = "check"
  /\ loop' = [loop EXCEPT ![l] = "select"]
  /\ UNCHANGED <<ulStarted, ticker, tick, due, age, closed, paused, toucher, closer>>

LoopClosed(l) ==
  /\ loop[l] = "select"
  /\ closed
  /\ loop' = [loop EXCEPT ![l] = "idle"]
  /\ UNCHANGED <<ulStarted, ticker, tick, due, age, closed, paused, toucher, closer>>

LoopTick(l) ==
  /\ loop[l] = "select"
  /\ tick
  /\ tick' = FALSE
  /\ loop' = [loop EXCEPT ![l] = "ticked"]
  /\ UNCHANGED <<ulStarted, ticker, due, age, closed, paused, toucher, closer>>

LoopIdle(l) ==
  /\ loop[l] = "ticked"
  /\ loop' = [loop EXCEPT ![l] = IF age > IdleTimeout THEN "stop" ELSE "wait"]
  /\ UNCHANGED <<ulStarted, ticker, tick, due, age, closed, paused, toucher, closer>>

\* Under the lock: the ticker is stopped and dropped, and the goroutine ends.
LoopStop(l) ==
  /\ loop[l] = "stop"
  /\ ticker' = "none"
  /\ tick' = FALSE
  /\ due' = Interval
  /\ loop' = [loop EXCEPT ![l] = "idle"]
  /\ UNCHANGED <<ulStarted, age, closed, paused, toucher, closer>>

\* Mutant: a periodic check counts as activity, as the first one does.
LoopActiveStamps(l) ==
  /\ loop[l] = "wait"
  /\ ~paused
  /\ age' = 0
  /\ loop' = [loop EXCEPT ![l] = "check"]
  /\ UNCHANGED <<ulStarted, ticker, tick, due, closed, paused, toucher, closer>>

LoopActive(l) ==
  /\ loop[l] = "wait"
  /\ ~paused
  /\ loop' = [loop EXCEPT ![l] = "check"]
  /\ UNCHANGED <<ulStarted, ticker, tick, due, age, closed, paused, toucher, closer>>

(* Close looks at the ticker, reads it again to stop it, and then closes    *)
(* the channel.  A ticker dropped in between is a nil dereference.          *)
UlClose ==
  /\ closer = "idle"
  /\ closer' = IF ticker = "none" THEN "done" ELSE "stop"
  /\ UNCHANGED <<ulStarted, ticker, tick, due, age, closed, paused, toucher, loop>>

CloseStop ==
  /\ closer = "stop"
  /\ closer' = IF ticker = "none" THEN "panic" ELSE "close"
  /\ ticker' = IF ticker = "none" THEN "none" ELSE "stopped"
  /\ UNCHANGED <<ulStarted, tick, due, age, closed, paused, toucher, loop>>

CloseChannel ==
  /\ closer = "close"
  /\ closer' = "done"
  /\ closed' = TRUE
  /\ UNCHANGED <<ulStarted, ticker, tick, due, age, paused, toucher, loop>>

Pause ==
  /\ paused' = ~paused
  /\ UNCHANGED <<ulStarted, ticker, tick, due, age, closed, toucher, loop, closer>>

\* Time passes.  A tick is dropped when one is still waiting.
Time ==
  /\ age' = IF age < AgeMax THEN age + 1 ELSE age
  /\ IF ticker = "running"
     THEN /\ due' = IF due = 1 THEN Interval ELSE due - 1
          /\ tick' = (tick \/ due = 1)
     ELSE UNCHANGED <<due, tick>>
  /\ UNCHANGED <<ulStarted, ticker, closed, paused, toucher, loop, closer>>

UlNext ==
  /\ closer # "panic"
  /\ \/ PostStart
     \/ \E t \in Toucher : \/ Touch(t)
                           \/ TouchActive(t)
                           \/ \E l \in Loop : TouchLocked(t, l)
     \/ \E l \in Loop : \/ LoopBegin(l) \/ LoopChecked(l) \/ LoopClosed(l) \/ LoopTick(l)
                        \/ LoopIdle(l) \/ LoopStop(l) \/ LoopActive(l)
     \/ UlClose \/ CloseStop \/ CloseChannel
     \/ Pause
     \/ Time

UlSpec == UlInit /\ [][UlNext]_ulVars

----------------------------------------------------------------------------
(* Properties. *)

\* loopCheck reads g.ticker without the lock: while one of its goroutines is
\* alive there is a ticker, and there is never a second goroutine that could
\* take it away.
LoopOwnsTicker ==
  \A l \in Loop : loop[l] # "idle" =>
    /\ ticker # "none"
    /\ \A m \in Loop : loop[m] # "idle" => m = l

\* Touch takes a ticker as the sign that the group is being checked: until the
\* group is closed, a running ticker has a goroutine that serves it.
TickerServed == ticker = "running" /\ ~closed => \E l \in Loop : loop[l] # "idle"

(* Goroutines run and time passes. *)
UlFairness ==
  /\ WF_ulVars(UlNext /\ Time)
  /\ \A l \in Loop : WF_ulVars(UlNext /\ (\/ LoopBegin(l) \/ LoopChecked(l) \/ LoopTick(l)
                                      \/ LoopIdle(l) \/ LoopStop(l) \/ LoopActive(l)))

UlFairSpec == UlSpec /\ UlFairness

SomeTouch == \E t \in Toucher : \/ Touch(t) \/ TouchActive(t)
                                \/ \E l \in Loop : TouchLocked(t, l)

\* A group that is dialed no more stops testing its members: the ticker goes
\* away for good, unless the service is closed or the device sleeps again and again.
StopsWhenIdle ==
  <>[][~SomeTouch]_ulVars =>
    <>[](ticker # "running") \/ <>(closer # "idle") \/ []<>paused

-----------------------------------------------------------------------------
(* The properties above, by subject. *)

\* The goroutine of loopCheck and the ticker of the URL test group come and go together under any interleaving
\* of Touch, Close and the idle stop: never two goroutines, never one without its ticker, never a ticker without
\* its goroutine.
OneLoop ==
  /\ UlTypeOK
  /\ LoopOwnsTicker
  /\ TickerServed
=============================================================================
