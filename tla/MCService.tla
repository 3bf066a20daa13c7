----------------------------- MODULE MCService ------------------------------
(* The service as a whole: the life of the box and of its drivers, what the APIs keep, and the rule-sets and *)
(* databases.  A behaviour is one of one of the three; the others stand still.                               *)
EXTENDS Traffic, LifeCycle, Resources, TLC

VARIABLE part


-----------------------------------------------------------------------------
(* The box. *)

Box(driver, geo) ==
  [driver |-> driver, cache |-> <<"cacheFile">>, apis |-> <<"clashAPI", "v2rayAPI">>,
   outs |-> <<"direct", "urltest">>, ins |-> <<"mixed", "tun">>, provs |-> <<"provider">>, late |-> {"urltest", "tun"},
   sets |-> <<"ruleSet">>, geo |-> geo]

MCBoxes == {Box("run", FALSE), Box("app", TRUE)}

-----------------------------------------------------------------------------
(* The APIs. *)

Options(enabled, default, modes) == [enabled |-> enabled, default |-> default, modes |-> modes]
NoTraffic == [part |-> "", packets |-> FALSE, dns |-> {}, options |-> Options(TRUE, "Rule", <<"Global">>),
         restarts |-> {}, meta |-> <<>>, listed |-> <<>>, patterns |-> {}, fold |-> ("" :> ""), files |-> <<>>,
         now |-> <<>>, members |-> <<>>, outbounds |-> {}, timeouts |-> {}, fallback |-> {}]
MetaOf(inbound, outbound, user) == [inbound |-> inbound, outbound |-> outbound, user |-> user]
Stats ==
  [NoTraffic EXCEPT !.part = "stats",
     !.meta = [c \in TfConns |-> IF c = 1 THEN MetaOf("in", "out", "") ELSE MetaOf("in", "direct", "sekai")],
     !.listed = [inbound |-> {"in"}, outbound |-> {"out"}, user |-> {"sekai"}],
     !.patterns = {<<>>, <<{"inbound"}>>, <<{"inbound", "user"}, {"inbound"}>>}]
Modes ==
  [NoTraffic EXCEPT !.part = "mode", !.fold = ("" :> "" @@ "Rule" :> "rule" @@ "Global" :> "global" @@ "global" :> "global"
                                          @@ "Direct" :> "direct"),
     !.restarts = {Options(TRUE, "Rule", <<"Global">>), Options(TRUE, "Direct", <<"Direct", "global">>)}]
Delays ==
  [NoTraffic EXCEPT !.part = "delay", !.now = ("g" :> "a"), !.members = ("g" :> <<"a", "b">> @@ "s" :> <<"g", "a", "b">>),
     !.outbounds = {"a", "g"}, !.timeouts = {5000, 60000}, !.fallback = {"g"}]
MCTraffics ==
  {NoTraffic, [NoTraffic EXCEPT !.part = "count"], [NoTraffic EXCEPT !.part = "count", !.packets = TRUE, !.dns = {1}], Stats, Modes, Delays}
  \union {[NoTraffic EXCEPT !.part = "ui", !.files = files] :
            files \in {<<<<"top", "index">>, <<"top", "js", "app">>>>, <<<<"index">>, <<"js", "app">>>>}}

-----------------------------------------------------------------------------
(* Rule-sets. *)

SetsOf(sets, remote, used, tun, file) ==
  [sets |-> sets, remote |-> remote, uses |-> [n \in sets |-> IF n \in used THEN 1 ELSE 0], tun |-> tun,
   files |-> [n \in sets |-> IF n \in remote THEN file ELSE 1]]
MCSets == {SetsOf({"a"}, {"a"}, {"a"}, {}, 0), SetsOf({"a"}, {"a"}, {}, {"a"}, 1), SetsOf({"a", "l"}, {"a"}, {"a", "l"}, {"a"}, 0)}

-----------------------------------------------------------------------------
NoBox == LcStart(CHOOSE b \in LcBoxes : TRUE, "ended")
NoSets == RsStart(CHOOSE scn \in RsScenarios : TRUE, "failed")

Init ==
  \/ part = "box" /\ LcInit /\ TfStart(NoTraffic) /\ NoSets
  \/ part = "traffic" /\ NoBox /\ TfInit /\ NoSets
  \/ part = "sets" /\ NoBox /\ TfStart(NoTraffic) /\ RsInit
Next ==
  \/ part = "box" /\ LcNext /\ UNCHANGED <<part, tfVars, rsVars>>
  \/ part = "traffic" /\ TfNext /\ UNCHANGED <<part, lcVars, rsVars>>
  \/ part = "sets" /\ RsNext /\ UNCHANGED <<part, lcVars, tfVars>>

Spec == Init /\ [][Next]_<<part, lcVars, tfVars, rsVars>> /\ WF_lcVars(LcWork)
=============================================================================
