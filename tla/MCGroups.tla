------------------------------ MODULE MCGroups ------------------------------
(* The two groups of outbounds.  A behaviour is one of one of them; the other stands still.                     *)
EXTENDS MCSelector, MCURLTestSelect

VARIABLE part

NoSelector == Init /\ offered = Made(CHOOSE content \in Contents : TRUE, 0)
NoURLTest == UtInit /\ utOutbounds = UtPicked(CHOOSE content \in UtContents : TRUE, 0)

GroupsInit ==
  \/ part = "selector" /\ Init /\ NoURLTest
  \/ part = "urltest" /\ NoSelector /\ UtInit

\* A selector that misses its default outbound keeps the service down.
GroupsNext ==
  \/ part = "selector" /\ Next /\ UNCHANGED <<part, utVars>>
  \/ part = "urltest" /\ UtNext /\ UNCHANGED <<part, vars>>
  \/ part = "selector" /\ phase = "down" /\ PickFails /\ UNCHANGED <<part, vars, utVars>>

GroupsSpec == GroupsInit /\ [][GroupsNext]_<<part, vars, utVars>>
CallsSpec  == GroupsSpec /\ Fairness /\ (part = "urltest" => UtFairness)

-----------------------------------------------------------------------------

\* Neither kind of group stays on an outbound without history while another member was tested: a selector with
\* fallback_by_delay_test, and a URL test group at its next check.
LeavesDead ==
  /\ FallbackLeavesDead
  /\ DeadLeft
=============================================================================
