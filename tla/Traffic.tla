------------------------------ MODULE Traffic ------------------------------
(***************************************************************************)
(* What the two APIs keep about the connections that are routed            *)
(* (experimental/clashapi, clashapi/trafficontrol, v2rayapi): the lists    *)
(* and the counters of the traffic manager, the counters of the statistics *)
(* service, the mode, the files of the external user interface, and the    *)
(* delays that the API measures.                                           *)
(*                                                                         *)
(* Both directions of a connection are counted the same way; one is here.  *)
(***************************************************************************)
EXTENDS Integers, Sequences, FiniteSets, Functions

CONSTANTS TfScenarios, \* see MCTraffic
          TfConns,     \* the connections
          TfBytes,     \* the most bytes of one connection
          TfClosed     \* what 1000 is to the list of closed connections

\* A sequence; the function f with x mapped to v; strings.EqualFold compares what Folded makes of a mode.
IsList(s) == s \in Seq({s[i] : i \in DOMAIN s})
Put(f, x, v) == [y \in DOMAIN f \union {x} |-> IF y = x THEN v ELSE f[y]]
Folded(scn, m) == IF m \in DOMAIN scn.fold THEN scn.fold[m] ELSE m

\* No mode is empty: CalculateClashModeList filters, and NewServer has a default.
ASSUME TfAssumption ==
  /\ TfClosed \in Nat \ {0} /\ TfBytes \in Nat /\ IsFiniteSet(TfConns)
  /\ \A scn \in TfScenarios :
       /\ IsList(scn.files)
       /\ \A options \in scn.restarts \union {scn.options} :
            /\ IsList(options.modes)
            /\ \A m \in Range(options.modes) \union {options.default} : Folded(scn, m) # Folded(scn, "")
       /\ \A g \in DOMAIN scn.members : IsList(scn.members[g])

VARIABLES tfScn, tf, tfSt, tfMd, tfUi, tfDl
tfVars == <<tfScn, tf, tfSt, tfMd, tfUi, tfDl>>

Part(name, others) == tfScn.part = name /\ UNCHANGED <<tfScn, others>>
Counting == Part("count", <<tfSt, tfMd, tfUi, tfDl>>)
Reporting == Part("stats", <<tf, tfMd, tfUi, tfDl>>)
Moding == Part("mode", <<tf, tfSt, tfUi, tfDl>>)
Showing == Part("ui", <<tf, tfSt, tfMd, tfDl>>)
Testing == Part("delay", <<tf, tfSt, tfMd, tfUi>>)

-----------------------------------------------------------------------------
(* trafficontrol.Manager.  A connection is left by the relay that ends and by the API that closes it; each Leave *)
(* is a LoadAndDelete and, when it was there, a PushBack.                                                        *)

Leavers == {"relay", "api"}

\* NewTCPTracker and NewUDPTracker: the connection is joined before it is relayed.
NewTCPTracker(c) ==
  /\ tf.conn[c] = "none" /\ ~tfScn.packets
  /\ tf' = [tf EXCEPT !.conn[c] = "open", !.active = @ \union {c}]
NewUDPTracker(c) ==
  /\ tf.conn[c] = "none" /\ tfScn.packets
  /\ tf' = [tf EXCEPT !.conn[c] = "open", !.active = @ \union {c}]

\* The CountFunc of a tracker: its own counter, then PushUploaded's two.
CountUpload(c) ==
  /\ tf.conn[c] = "open" /\ tf.push[c] = "idle" /\ tf.up[c] < TfBytes
  /\ tf' = [tf EXCEPT !.up[c] = @ + 1, !.push[c] = "temp"]
PushUploaded(c) ==
  \/ tf.push[c] = "temp" /\ tf' = [tf EXCEPT !.temp = @ + 1, !.push[c] = "total"]
  \/ tf.push[c] = "total" /\ tf' = [tf EXCEPT !.total = @ + 1, !.push[c] = "idle"]

\* Mutant of handle: the counter is read and cleared in two steps, and what came between them is lost.
handleLoses ==
  /\ ~tf.done
  /\ \/ tf.held < 0 /\ tf' = [tf EXCEPT !.held = tf.temp]
     \/ tf.held >= 0 /\ tf' = [tf EXCEPT !.blip = tf.held, !.shown = @ + tf.held, !.held = -1, !.temp = 0]

\* handle: a tick swaps the counter and then shows it.
handle ==
  /\ ~tf.done
  /\ \/ tf.held < 0 /\ tf' = [tf EXCEPT !.held = tf.temp, !.temp = 0]
     \/ tf.held >= 0 /\ tf' = [tf EXCEPT !.blip = tf.held, !.shown = @ + tf.held, !.held = -1]
ManagerClose == ~tf.done /\ tf.held < 0 /\ tf' = [tf EXCEPT !.done = TRUE]

\* Leave: its first step, ...
Leave(s, c, who) ==
  [s EXCEPT !.active = @ \ {c}, !.leave[c][who] = IF c \in s.active THEN "push" ELSE "left"]
\* ... and its second, under closedConnectionsAccess: a full list loses its oldest.
LeaveListed(c, who) ==
  /\ tf.leave[c][who] = "push"
  /\ tf' = [tf EXCEPT !.leave[c][who] = "left",
                      !.closed = Append(IF Len(@) >= TfClosed THEN Tail(@) ELSE @, c),
                      !.dropped = IF Len(tf.closed) >= TfClosed THEN @ \union {Head(tf.closed)} ELSE @]
\* TCPConn.Close and UDPConn.Close end with the connection's own.
TrackerClose(c, who) ==
  /\ tf.leave[c][who] = "left"
  /\ tf' = [tf EXCEPT !.leave[c][who] = "no", !.conn[c] = "closed",
                      !.api.left = IF who = "api" THEN @ \ {c} ELSE @]

\* The relay of a connection ends with Close, and RouteConnection with tracker.Leave.
RelayEnds(c) ==
  /\ tf.conn[c] # "none" /\ ~tf.over[c] /\ tf.leave[c]["relay"] = "no" /\ tf.push[c] = "idle"
  /\ tf' = [Leave(tf, c, "relay") EXCEPT !.over[c] = TRUE]

\* Snapshot leaves out what goes to a DNS outbound.
Snapshot == {c \in tf.active : c \notin tfScn.dns}

\* closeAllConnections: the connections of a snapshot are closed in some order, then ResetNetwork.
closeAllConnections ==
  /\ tf.api.pc = "idle" /\ ~tf.done
  /\ tf' = [tf EXCEPT !.api = [pc |-> "close", left |-> Snapshot, had |-> Snapshot]]
\* closeConnection: the one with the id, if it is still there.
closeConnection(c) ==
  /\ tf.api.pc = "idle" /\ ~tf.done /\ c \in Snapshot
  /\ tf' = [tf EXCEPT !.api = [pc |-> "close", left |-> {c}, had |-> {c}]]
ApiCloses(c) ==
  /\ tf.api.pc = "close" /\ c \in tf.api.left /\ \A o \in TfConns : tf.leave[o]["api"] = "no"
  /\ tf' = Leave(tf, c, "api")
ApiAnswers ==
  /\ tf.api.pc = "close" /\ tf.api.left = {}
  /\ tf' = [tf EXCEPT !.api.pc = "answered"]

-----------------------------------------------------------------------------
(* v2rayapi.StatsService.  A counter's name is <<kind, name>>; tfSt.open maps a connection to its counters. *)

\* NewStatsService is nil without stats, and the Server's StatsService wraps that nil.
NewStatsService(options) ==
  [nil |-> ~options.enabled, counters |-> <<>>, open |-> <<>>, bytes |-> [c \in TfConns |-> 0], pulled |-> <<>>,
   panic |-> FALSE, gets |-> 0, get |-> [pc |-> "idle", name |-> <<>>, reset |-> FALSE], query |-> <<>>, at |-> <<>>]

Meta(c) == tfScn.meta[c]
\* What is counted for a connection.
Counted(c) ==
  {<<k, Meta(c)[k]>> : k \in {x \in DOMAIN Meta(c) : Meta(c)[x] # "" /\ Meta(c)[x] \in tfScn.listed[x]}}
loadOrCreateCounter(counters, names) ==
  [n \in DOMAIN counters \union names |-> IF n \in DOMAIN counters THEN counters[n] ELSE 0]
\* A QueryStats holds the lock of the counters, which their writers do not take.
Locked == DOMAIN tfSt.query # {}

\* RoutedConnection and RoutedPacketConnection, on a nil service too when a tag is not empty.
StatsRouted(c) ==
  /\ ~tfSt.panic /\ c \notin DOMAIN tfSt.open /\ (Locked => Counted(c) = {})
  /\ tfSt' = IF tfSt.nil
             THEN [tfSt EXCEPT !.panic = \E k \in DOMAIN Meta(c) : Meta(c)[k] # "", !.open = Put(@, c, {})]
             ELSE [tfSt EXCEPT !.open = Put(@, c, Counted(c)), !.counters = loadOrCreateCounter(@, Counted(c))]
\* A byte of the connection, in each of its counters.
StatsCount(c) ==
  /\ c \in DOMAIN tfSt.open /\ tfSt.bytes[c] < TfBytes
  /\ tfSt' = [tfSt EXCEPT !.bytes[c] = @ + 1,
                          !.counters = [n \in DOMAIN @ |-> IF n \in tfSt.open[c] THEN @[n] + 1 ELSE @[n]]]

\* counter.Swap(0), whose value is given out.
Swapped(s, name) ==
  [s EXCEPT !.pulled = Put(@, name, s.counters[name] + IF name \in DOMAIN @ THEN @[name] ELSE 0), !.counters[name] = 0]
\* GetStats finds the counter under the lock, and swaps or loads it without.
GetStats(name, reset) ==
  /\ tfSt.get.pc = "idle" /\ tfSt.gets < 2 /\ ~Locked /\ name \in DOMAIN tfSt.counters
  /\ tfSt' = [tfSt EXCEPT !.get = [pc |-> "value", name |-> name, reset |-> reset], !.gets = @ + 1]
GetStatsValue ==
  /\ tfSt.get.pc = "value"
  /\ tfSt' = [(IF tfSt.get.reset THEN Swapped(tfSt, tfSt.get.name) ELSE tfSt) EXCEPT !.get.pc = "idle"]

\* QueryStats: an invalid expression is an error before any counter is touched.  With reset a name is swapped once
\* for each pattern it matches, one name after the other, while the connections go on counting; tfSt.query has how
\* often a name is still to be swapped, and tfSt.at the name that is swapped again.
Matching(patterns) ==
  LET matches(name) == IF patterns = <<>> THEN 1 ELSE Cardinality({i \in DOMAIN patterns : name[1] \in patterns[i]})
  IN [n \in {x \in DOMAIN tfSt.counters : matches(x) > 0} |-> matches(n)]
QueryStats(patterns, reset) ==
  /\ tfSt.gets < 2 /\ ~tfSt.nil /\ ~Locked
  /\ tfSt' = [tfSt EXCEPT !.gets = @ + 1, !.query = IF reset THEN Matching(patterns) ELSE @]
QueryStatsSwap(name) ==
  /\ name \in DOMAIN tfSt.query /\ tfSt.at \in {<<>>, name}
  /\ LET left == tfSt.query[name] - 1
     IN tfSt' = [Swapped(tfSt, name) EXCEPT !.at = IF left = 0 THEN <<>> ELSE name,
                   !.query = IF left = 0 THEN Restrict(@, DOMAIN @ \ {name}) ELSE Put(@, name, left)]

-----------------------------------------------------------------------------
(* The mode: Server.SetMode by two requests, and a restart. *)

Fold(m) == Folded(tfScn, m)
InList(m) == m \in Range(tfMd.list)
\* NewServer: the default mode is put in front of the list when it is not in it.
ModeList(options) ==
  IF options.default \in Range(options.modes) THEN options.modes ELSE <<options.default>> \o options.modes
\* Mutant of PreStart: the stored mode must be the default one.
PreStartDefault(list, default, stored) == default
\* PreStart: the stored mode, as it was stored, when it is a mode but for its case.
PreStart(list, default, stored) ==
  IF \E i \in DOMAIN list : Fold(list[i]) = Fold(stored) THEN stored ELSE default

\* SetMode: the mode of the list that is it, or is it but for its case; an unknown one changes nothing.
Known(m) ==
  IF InList(m) THEN m
  ELSE LET at == {i \in DOMAIN tfMd.list : Fold(tfMd.list[i]) = Fold(m)}
       IN IF at = {} THEN "" ELSE tfMd.list[CHOOSE i \in at : \A j \in at : i <= j]
SetMode(w, m) ==
  /\ tfMd.pc[w] = "idle" /\ tfMd.sets < 3
  /\ tfMd' = IF ~InList(Known(m)) \/ Known(m) = tfMd.mode THEN [tfMd EXCEPT !.sets = @ + 1]
             ELSE [tfMd EXCEPT !.pc[w] = "store", !.mode = Known(m), !.new[w] = Known(m), !.sets = @ + 1,
                               !.hook = TRUE, !.over = @ \/ \E o \in {1, 2} : tfMd.pc[o] # "idle"]
\* ClearDNSCache, then StoreMode, whose failure is only logged.
SetModeStores(w) ==
  /\ tfMd.pc[w] = "store"
  /\ \/ tfMd' = [tfMd EXCEPT !.pc[w] = "idle", !.stored = tfMd.new[w]]
     \/ tfMd' = [tfMd EXCEPT !.pc[w] = "idle", !.failed = TRUE]
\* The process ends, and the next one runs NewServer and PreStart, perhaps with another configuration.
Restart(options) ==
  /\ tfMd.starts < 3
  /\ LET list == ModeList(options)
     IN tfMd' = [tfMd EXCEPT !.list = list, !.mode = PreStart(list, options.default, tfMd.stored), !.starts = @ + 1,
                             !.pc = <<"idle", "idle">>, !.hook = FALSE, !.over = FALSE, !.failed = FALSE]

-----------------------------------------------------------------------------
(* The external user interface: server_resources.go.  A file of the archive is the sequence of its path. *)

\* zipIsInSingleDirectory, of the entries that are no directories.
zipIsInSingleDirectory(files) == \A i, j \in DOMAIN files : files[i][1] = files[j][1]
Trimmed(files) == IF zipIsInSingleDirectory(files) THEN [i \in DOMAIN files |-> Tail(files[i])] ELSE files

\* checkAndDownloadExternalUI: only an empty directory is filled.
checkAndDownloadExternalUI ==
  /\ tfUi.pc = "start"
  /\ tfUi' = [tfUi EXCEPT !.pc = IF tfUi.dir = {} THEN "download" ELSE "end"]
\* downloadExternalUI up to the archive: the detour, the request and its status, and the copy may fail.
downloadExternalUI ==
  /\ tfUi.pc = "download"
  /\ \/ tfUi' = [tfUi EXCEPT !.pc = "end"]
     \/ tfUi' = [tfUi EXCEPT !.pc = "unpack", !.at = 1]
\* downloadZIP and downloadZIPEntry: a file is created and then filled.
downloadZIP ==
  LET files == Trimmed(tfScn.files) IN
  /\ tfUi.pc = "unpack"
  /\ \/ tfUi.at > Len(files) /\ tfUi' = [tfUi EXCEPT !.pc = "end"]
     \/ /\ tfUi.at <= Len(files)
        /\ \/ tfUi' = [tfUi EXCEPT !.pc = "entry", !.dir = @ \union {<<files[tfUi.at], FALSE>>}]
           \/ tfUi' = [tfUi EXCEPT !.pc = "failed"]
downloadZIPEntry ==
  LET file == Trimmed(tfScn.files)[tfUi.at] IN
  /\ tfUi.pc = "entry"
  /\ \/ tfUi' = [tfUi EXCEPT !.pc = "unpack", !.at = @ + 1, !.dir = (@ \ {<<file, FALSE>>}) \union {<<file, TRUE>>}]
     \/ tfUi' = [tfUi EXCEPT !.pc = "failed"]
removeAllInDirectory == tfUi.pc = "failed" /\ tfUi' = [tfUi EXCEPT !.pc = "end", !.dir = {}]
\* The process is killed, and starts again.
UiCrash ==
  /\ tfUi.starts < 2
  /\ tfUi' = [tfUi EXCEPT !.pc = "start", !.starts = @ + 1, !.killed = @ \/ tfUi.pc \in {"unpack", "entry", "failed"}]

-----------------------------------------------------------------------------
(* The delays: getProxyDelay of a group whose member may change, and getGroupDelay. *)

\* RealTag.
RealTag(o) == IF o \in DOMAIN tfDl.now THEN tfDl.now[o] ELSE o

\* The parse of timeout: 16 bits for a proxy, 32 for a group.
ParseTimeout(t, bits) == t <= (IF bits = 16 THEN 32767 ELSE 2147483647)
getProxyDelay(w, o, t) ==
  /\ tfDl.pc[w] = "idle" /\ tfDl.tests < 2
  /\ tfDl' = IF ~ParseTimeout(t, 16) THEN [tfDl EXCEPT !.answer[w] = "bad request", !.tests = @ + 1]
             ELSE [tfDl EXCEPT !.pc[w] = "test", !.of[w] = o, !.through[w] = RealTag(o), !.same[w] = TRUE,
                               !.tests = @ + 1]
\* The test ends; the deferred function stores or deletes what is then the real outbound's.
ProxyDelayDone(w) ==
  LET tag == RealTag(tfDl.of[w])
      stored == Put(tfDl.history, tag, [through |-> tfDl.through[w], same |-> tfDl.same[w]])
  IN /\ tfDl.pc[w] = "test"
     /\ \/ tfDl' = [tfDl EXCEPT !.pc[w] = "idle", !.answer[w] = "delay", !.history = stored]
        \/ tfDl' = [tfDl EXCEPT !.pc[w] = "idle", !.answer[w] = "timeout", !.history = stored]
        \/ tfDl' = [tfDl EXCEPT !.pc[w] = "idle", !.answer[w] = "unavailable", !.history = stored]
        \/ \E answer \in {"timeout", "unavailable"} :
             tfDl' = [tfDl EXCEPT !.pc[w] = "idle", !.answer[w] = answer,
                                  !.history = Restrict(@, DOMAIN @ \ {tag})]

\* getGroupDelay of a selector: each real outbound is tested once, under the tag of the first that leads to it.
getGroupDelay(w, g, t) ==
  LET all == tfScn.members[g]
      first == {i \in DOMAIN all : \A j \in 1..(i - 1) : RealTag(all[j]) # RealTag(all[i])}
      real == [tag \in {all[i] : i \in first} |-> RealTag(tag)]
  IN /\ tfDl.pc[w] = "idle" /\ tfDl.tests < 2
     /\ tfDl' = IF ~ParseTimeout(t, 32) THEN [tfDl EXCEPT !.answer[w] = "bad request", !.tests = @ + 1]
                ELSE [tfDl EXCEPT !.pc[w] = "group", !.of[w] = g, !.jobs[w] = real, !.result[w] = <<>>,
                                  !.tests = @ + 1]
GroupDelayOne(w, tag) ==
  /\ tfDl.pc[w] = "group" /\ tag \in DOMAIN tfDl.jobs[w]
  /\ LET real == tfDl.jobs[w][tag]
         rest == Restrict(tfDl.jobs[w], DOMAIN tfDl.jobs[w] \ {tag})
     IN \/ tfDl' = [tfDl EXCEPT !.jobs[w] = rest, !.result[w] = Put(@, tag, real),
                                !.history = Put(@, real, [through |-> real, same |-> TRUE])]
        \/ tfDl' = [tfDl EXCEPT !.jobs[w] = rest, !.history = Restrict(@, DOMAIN @ \ {real})]
\* The member of a group becomes o; `same` goes with it for a test that runs through the group.
Switched(s, g, o) ==
  [s EXCEPT !.now[g] = o, !.same = [w \in {1, 2} |-> @[w] /\ ~(s.pc[w] = "test" /\ s.of[w] = g)]]
\* UpdateSelected(""): a group that falls back by its delay tests, and whose member has no history, takes the
\* member with the least delay; the delays are left open.
UpdateSelected(s, g) ==
  LET tested == {o \in Range(tfScn.members[g]) : o \in DOMAIN s.history}
  IN IF g \in tfScn.fallback /\ s.now[g] \notin DOMAIN s.history /\ tested # {}
     THEN {Switched(s, g, o) : o \in tested} ELSE {s}
\* All are tested; a selector then looks at its member.
GroupDelayDone(w) ==
  /\ tfDl.pc[w] = "group" /\ DOMAIN tfDl.jobs[w] = {}
  /\ tfDl' \in UpdateSelected([tfDl EXCEPT !.pc[w] = "idle", !.answer[w] = "delays"], tfDl.of[w])

\* The group changes its member.
GroupSwitches(g, o) ==
  /\ tfDl.now[g] # o /\ tfDl.switches < 2
  /\ tfDl' = [Switched(tfDl, g, o) EXCEPT !.switches = @ + 1]

-----------------------------------------------------------------------------
TfStart(scn) ==
  /\ tfScn = scn
  /\ tf = [conn |-> [c \in TfConns |-> "none"], active |-> {}, closed |-> <<>>, dropped |-> {},
           up |-> [c \in TfConns |-> 0], push |-> [c \in TfConns |-> "idle"], over |-> [c \in TfConns |-> FALSE],
           temp |-> 0, total |-> 0, held |-> -1, blip |-> 0, shown |-> 0, done |-> FALSE,
           leave |-> [c \in TfConns |-> [w \in Leavers |-> "no"]],
           api |-> [pc |-> "idle", left |-> {}, had |-> {}]]
  /\ tfSt = NewStatsService(scn.options)
  /\ tfMd = [list |-> ModeList(scn.options), mode |-> scn.options.default, stored |-> "", pc |-> <<"idle", "idle">>,
             new |-> <<"", "">>, sets |-> 0, hook |-> FALSE, over |-> FALSE, failed |-> FALSE, starts |-> 1]
  /\ tfUi = [pc |-> "start", dir |-> {}, at |-> 0, starts |-> 1, killed |-> FALSE]
  /\ tfDl = [now |-> scn.now, history |-> <<>>, pc |-> <<"idle", "idle">>, of |-> <<"", "">>,
             through |-> <<"", "">>, same |-> <<TRUE, TRUE>>, answer |-> <<"", "">>, jobs |-> <<<<>>, <<>>>>,
             result |-> <<<<>>, <<>>>>, tests |-> 0, switches |-> 0]

TfNext ==
  \/ Counting /\ \E c \in TfConns : NewTCPTracker(c)
  \/ Counting /\ \E c \in TfConns : NewUDPTracker(c)
  \/ Counting /\ \E c \in TfConns : CountUpload(c)
  \/ Counting /\ \E c \in TfConns : PushUploaded(c)
  \/ Counting /\ handle
  \/ Counting /\ ManagerClose
  \/ Counting /\ \E c \in TfConns : RelayEnds(c)
  \/ Counting /\ \E c \in TfConns, who \in Leavers : LeaveListed(c, who)
  \/ Counting /\ \E c \in TfConns, who \in Leavers : TrackerClose(c, who)
  \/ Counting /\ closeAllConnections
  \/ Counting /\ \E c \in TfConns : closeConnection(c)
  \/ Counting /\ \E c \in TfConns : ApiCloses(c)
  \/ Counting /\ ApiAnswers
  \/ Reporting /\ \E c \in TfConns : StatsRouted(c)
  \/ Reporting /\ \E c \in TfConns : StatsCount(c)
  \/ Reporting /\ \E n \in DOMAIN tfSt.counters, reset \in BOOLEAN : GetStats(n, reset)
  \/ Reporting /\ GetStatsValue
  \/ Reporting /\ \E p \in tfScn.patterns, reset \in BOOLEAN : QueryStats(p, reset)
  \/ Reporting /\ \E n \in DOMAIN tfSt.query : QueryStatsSwap(n)
  \/ Moding /\ \E w \in {1, 2}, m \in DOMAIN tfScn.fold \ {""} : SetMode(w, m)
  \/ Moding /\ \E w \in {1, 2} : SetModeStores(w)
  \/ Moding /\ \E options \in tfScn.restarts : Restart(options)
  \/ Showing /\ checkAndDownloadExternalUI
  \/ Showing /\ downloadExternalUI
  \/ Showing /\ downloadZIP
  \/ Showing /\ downloadZIPEntry
  \/ Showing /\ removeAllInDirectory
  \/ Showing /\ UiCrash
  \/ Testing /\ \E w \in {1, 2}, o \in tfScn.outbounds, t \in tfScn.timeouts : getProxyDelay(w, o, t)
  \/ Testing /\ \E w \in {1, 2} : ProxyDelayDone(w)
  \/ Testing /\ \E w \in {1, 2}, g \in DOMAIN tfScn.members, t \in tfScn.timeouts : getGroupDelay(w, g, t)
  \/ Testing /\ \E w \in {1, 2} : \E tag \in DOMAIN tfDl.jobs[w] : GroupDelayOne(w, tag)
  \/ Testing /\ \E w \in {1, 2} : GroupDelayDone(w)
  \/ Testing /\ \E g \in DOMAIN tfDl.now : \E o \in Range(tfScn.members[g]) : GroupSwitches(g, o)

TfInit == \E scn \in TfScenarios : TfStart(scn)
TfSpec == TfInit /\ [][TfNext]_tfVars

-----------------------------------------------------------------------------
\* The states of the traffic manager, the counters and the download; the list of closed connections is bounded.
TfTypeOK ==
  /\ tfScn \in TfScenarios
  /\ tf.active \subseteq TfConns /\ tf.temp \in Nat /\ tf.total \in Nat /\ Len(tf.closed) <= TfClosed
  /\ \A c \in TfConns : tf.conn[c] \in {"none", "open", "closed"} /\ tf.push[c] \in {"idle", "temp", "total"}
  /\ \A n \in DOMAIN tfSt.counters : tfSt.counters[n] \in Nat
  /\ tfUi.pc \in {"start", "download", "unpack", "entry", "failed", "end"}

\* The sum of f over S: the number of bytes, the k-th of c being <<c, k>>.
Total(f, S) == Cardinality({b \in S \X (1..TfBytes) : b[2] <= f[b[1]]})
Pushing(steps) == Cardinality({c \in TfConns : tf.push[c] \in steps})
\* The manager's total is the sum of the connections' own counters, and every byte of it is shown by exactly one
\* tick or still waits for one, with the writers of all connections and the ticker at any point of their steps
\* (PushUploaded, handle).
TotalsAgree ==
  LET all == Total(tf.up, TfConns) IN
  /\ all = tf.total + Pushing({"temp", "total"})
  /\ all = tf.shown + tf.temp + Pushing({"temp"}) + (IF tf.held < 0 THEN 0 ELSE tf.held)

\* A connection that was joined is active, being moved, listed as closed or fallen out of the full list, and only
\* one of them, although the relay and the API both leave it (Leave's LoadAndDelete).
ListedOnce ==
  \A c \in TfConns : tf.conn[c] # "none" =>
    Cardinality({w \in Leavers : tf.leave[c][w] = "push"}) + Cardinality({i \in DOMAIN tf.closed : tf.closed[i] = c})
      + (IF c \in tf.active THEN 1 ELSE 0) + (IF c \in tf.dropped THEN 1 ELSE 0) = 1

\* When closeAllConnections or closeConnection has answered, the connections of its snapshot are closed and no
\* longer active, whatever the relays did in the meantime.
ClosedWhenAnswered == tf.api.pc = "answered" => \A c \in tf.api.had : tf.conn[c] = "closed" /\ c \notin tf.active

\* No byte is reported twice or lost by requests that reset: what was given out and what is in the counter are
\* together what the connections that are counted there have moved (loadOrCreateCounter, GetStats, QueryStats).
StatsConserved ==
  \A n \in DOMAIN tfSt.counters :
    tfSt.counters[n] + (IF n \in DOMAIN tfSt.pulled THEN tfSt.pulled[n] ELSE 0)
      = Total(tfSt.bytes, {c \in DOMAIN tfSt.open : n \in tfSt.open[c]})

\* The mode is one of the list, but for its case, also after a restart with another list (SetMode, PreStart).
ModeKnown == \E i \in DOMAIN tfMd.list : Fold(tfMd.list[i]) = Fold(tfMd.mode)

\* What is stored is the mode, so that a restart keeps it, unless two SetMode overlapped, a store failed or the
\* list no longer has it.
ModeStored ==
  LET kept == \E i \in DOMAIN tfMd.list : Fold(tfMd.list[i]) = Fold(tfMd.stored) IN
  kept /\ ~tfMd.over /\ ~tfMd.failed /\ tfMd.pc = <<"idle", "idle">> => tfMd.mode = tfMd.stored

\* When the check for the user interface is over the directory is empty, so that the next start tries again, or
\* it has every file of the archive whole, unless the process was killed while it unpacked.
UIWhole ==
  tfUi.pc = "end" /\ ~tfUi.killed =>
    tfUi.dir \in {{}, {<<file, TRUE>> : file \in Range(Trimmed(tfScn.files))}}

\* A delay in the history was measured through the outbound it is stored for, unless the group switched while it
\* was tested (getProxyDelay's deferred RealTag).
DelayOfTested == \A o \in DOMAIN tfDl.history : tfDl.history[o].same => tfDl.history[o].through = o

\* No outbound is tested twice by one request for a group (getGroupDelay's checked).
TestedOnce == \A w \in {1, 2} : IsInjective(tfDl.result[w])

-----------------------------------------------------------------------------
(* The properties above, by subject. *)

\* The books the trackers keep of live traffic while it is read, reset and closed from the APIs: no byte is lost
\* or counted twice.
AccountsSound ==
  /\ TfTypeOK
  /\ TotalsAgree
  /\ StatsConserved

\* What the Clash API shows and leaves behind, each with the overlaps it admits: a connection in one list at a
\* time and closed when the answer says so, a mode of the list that a restart keeps, a user interface that is
\* whole or absent, and delays measured once, through the outbound they are stored for.
ApiSound ==
  /\ ListedOnce
  /\ ClosedWhenAnswered
  /\ ModeKnown
  /\ ModeStored
  /\ UIWhole
  /\ DelayOfTested
  /\ TestedOnce
=============================================================================
