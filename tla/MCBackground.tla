---------------------------- MODULE MCBackground ----------------------------
(* What goes on by itself: the start of the outbounds, the loop of the URL test group and the updates of a      *)
(* provider.  A behaviour is one of one of them; the others stand still, in a state they do not leave.          *)
EXTENDS MCBoxStart, URLTestLoop, MCProvider

VARIABLE part

NoLoop ==
  /\ ulStarted = FALSE /\ ticker = "none" /\ tick = FALSE /\ due = Interval /\ age = 0 /\ closed = FALSE
  /\ paused = FALSE /\ toucher = [t \in Toucher |-> "idle"] /\ loop = [l \in Loop |-> "idle"] /\ closer = "panic"
NoUpdate == PvInit /\ server = ok /\ file = other

NoStart ==
  /\ bxAt = "duplicate" /\ tags = <<a, b, a>> /\ deps = [k \in 1..3 |-> {}] /\ ptags = <<>> /\ outboundTag = <<>>
  /\ bxI = 1 /\ canContinue = FALSE /\ started = {} /\ bxOpen = {} /\ oTree = <<>>

Init ==
  \/ part = "start" /\ BxInit /\ NoLoop /\ NoUpdate
  \/ part = "loop" /\ NoStart /\ UlInit /\ NoUpdate
  \/ part = "provider" /\ NoStart /\ NoLoop /\ PvInit
Next ==
  \/ part = "start" /\ BxNext /\ UNCHANGED <<part, ulVars, pvVars>>
  \/ part = "loop" /\ UlNext /\ UNCHANGED <<part, bxVars, pvVars>>
  \/ part = "provider" /\ PvNext /\ UNCHANGED <<part, bxVars, ulVars>>

Spec ==
  /\ Init /\ [][Next]_<<part, bxVars, ulVars, pvVars>>
  /\ WF_bxVars(BxNext) /\ UlFairness /\ PvFairness

-----------------------------------------------------------------------------

\* Work that must end does: startOutbounds returns, and the loop of a URL test group nobody uses stops.
WorkEnds ==
  /\ Returns
  /\ StopsWhenIdle
=============================================================================
