----------------------------- MODULE Resources ------------------------------
(* What the router downloads and keeps: the rule-sets (rule_set_remote.go,  *)
(* rule_set_local.go, rule_set_abstract.go), the tun inbound that puts the  *)
(* addresses of rule-sets into the firewall (inbound/tun.go), and the geo   *)
(* databases (router_geo_resources.go).                                     *)
(*                                                                          *)
(* A content is a version: 0 is none, Torn a file cut short or a page that  *)
(* is no database.                                                          *)
EXTENDS Integers

CONSTANTS RsScenarios,  \* [sets, remote, uses, tun, files]: rule-sets, the remote ones, how many
                        \* rules name each, those of route_address_set, files left by an earlier run
          RsVersions,   \* bound: versions a server publishes
          RsCrashes     \* bound: crashes

VARIABLES rsScn, rsPhase,  \* the scenario; how far the box has started
          rsServer,        \* the version published, by rule-set
          rsFile,          \* the file at its path
          rsRules,         \* s.rules; 0 is nil
          rsEtag,          \* s.lastEtag, as the version it came with
          rsRefs,          \* s.refs
          rsFetch,         \* calls of fetchOnce under way: [n, by, step, sent, ver]
          rsWall,          \* the firewall: versions of the rule-sets its addresses are from
          rsLast,          \* the version last loaded in this run
          rsOverlap,       \* a call of fetchOnce met another one, or Cleanup
          rsGeo,           \* the geo databases: [file, tries, state]
          rsCrashed        \* crashes so far

rsVars == <<rsScn, rsPhase, rsServer, rsFile, rsRules, rsEtag, rsRefs, rsFetch, rsWall, rsLast,
            rsOverlap, rsGeo, rsCrashed>>

Torn == -1

ASSUME RsAssumption ==
  /\ RsVersions \in Nat \ {0} /\ RsCrashes \in Nat
  /\ \A scn \in RsScenarios :
       /\ scn.remote \subseteq scn.sets /\ scn.tun \subseteq scn.sets
       /\ scn.uses \in [scn.sets -> Nat] /\ scn.files \in [scn.sets -> Torn..RsVersions]
       /\ \A n \in scn.sets \ scn.remote : scn.files[n] > 0

Sets == rsScn.sets
Local == Sets \ rsScn.remote
None0 == [n \in Sets |-> 0]

\* Every start of the process: the file-based rule-sets are loaded by New, and
\* tun's New takes a reference on those it will read.
Launch(scn, files) ==
  /\ rsRules' = [n \in scn.sets |-> IF n \in scn.remote THEN 0 ELSE files[n]]
  /\ rsRefs' = [n \in scn.sets |-> IF n \in scn.tun THEN 1 ELSE 0]
  /\ rsEtag' = None0 /\ rsWall' = None0 /\ rsLast' = None0
  /\ rsFetch' = {} /\ rsOverlap' = FALSE

RsStart(scn, phase) ==
  /\ rsScn = scn /\ rsPhase = phase /\ rsServer = [n \in scn.sets |-> 1] /\ rsFile = scn.files
  /\ rsRules = [n \in scn.sets |-> IF n \in scn.remote THEN 0 ELSE scn.files[n]]
  /\ rsRefs = [n \in scn.sets |-> IF n \in scn.tun THEN 1 ELSE 0]
  /\ rsEtag = [n \in scn.sets |-> 0] /\ rsWall = [n \in scn.sets |-> 0] /\ rsLast = [n \in scn.sets |-> 0]
  /\ rsFetch = {} /\ rsOverlap = FALSE /\ rsCrashed = 0
  /\ rsGeo = [d \in {"geoip", "geosite"} |-> [file |-> 0, tries |-> 0, state |-> "new"]]

RsInit == \E scn \in RsScenarios : RsStart(scn, "geo")

rsNet == <<rsScn, rsServer, rsCrashed>>
rsMem == <<rsRules, rsEtag, rsRefs, rsFetch, rsWall, rsLast, rsOverlap>>

-----------------------------------------------------------------------------
(* Geo databases: a missing file is downloaded, three times at most.        *)
GeoDB(file) == [file |-> file, tries |-> 0, state |-> "new"]
Tried(d) == IF rsGeo[d].tries = 2 THEN "offline" ELSE "new"

\* The status of the response is not looked at; a copy that fails is removed.
downloadDatabase(d) ==
  \/ \E content \in {1, Torn} : rsGeo' = [rsGeo EXCEPT ![d].file = content]
  \/ rsGeo' = [rsGeo EXCEPT ![d].tries = @ + 1, ![d].state = Tried(d)]

downloadGeoIPDatabase == downloadDatabase("geoip")
downloadGeositeDatabase == downloadDatabase("geosite")

\* A file that does not open fails the start.  (An empty one was removed.)
openDatabase(d) == rsGeo' = [rsGeo EXCEPT ![d].state = IF rsGeo[d].file = Torn THEN "broken" ELSE "open"]
GeoPhase(state, then) ==
  rsPhase' = CASE state = "open" -> then [] state = "new" -> rsPhase [] OTHER -> "failed"

prepareGeoIPDatabase ==
  /\ rsPhase = "geo"
  /\ IF rsGeo.geoip.file = 0 THEN downloadGeoIPDatabase ELSE openDatabase("geoip")
  /\ GeoPhase(rsGeo'.geoip.state, "geosite")
  /\ UNCHANGED <<rsNet, rsFile, rsMem>>

prepareGeositeDatabase ==
  /\ rsPhase = "geosite"
  /\ IF rsGeo.geosite.file = 0 THEN downloadGeositeDatabase ELSE openDatabase("geosite")
  /\ GeoPhase(rsGeo'.geosite.state, "start")
  /\ UNCHANGED <<rsNet, rsFile, rsMem>>

-----------------------------------------------------------------------------
(* The start of the rule-sets.                                              *)

\* StartContext of a remote rule-set: its file if it can be read, else a first
\* download, which must succeed.  Local ones only start their watcher.
StartContext ==
  /\ rsPhase = "start"
  /\ \E reach \in SUBSET rsScn.remote :
       LET fromFile == {n \in rsScn.remote : rsFile[n] > 0}
           fetched  == rsScn.remote \ fromFile
       IN /\ rsPhase' = IF fetched \subseteq reach THEN "rules" ELSE "failed"
          /\ rsRules' = [n \in Sets |-> IF n \in fromFile THEN rsFile[n]
                                        ELSE IF n \in fetched \cap reach THEN rsServer[n] ELSE rsRules[n]]
          /\ rsEtag' = [n \in Sets |-> IF n \in fetched \cap reach THEN rsServer[n] ELSE 0]
          /\ rsFile' = [n \in Sets |-> IF n \in fetched \cap reach THEN rsServer[n] ELSE rsFile[n]]
  /\ rsLast' = rsRules'
  /\ UNCHANGED <<rsNet, rsRefs, rsFetch, rsWall, rsOverlap, rsGeo>>

\* RuleSetItem.Start of every rule that names a rule-set; then the update loops.
RulesStart ==
  /\ rsPhase = "rules" /\ rsPhase' = "tun"
  /\ rsRefs' = [n \in Sets |-> rsRefs[n] + rsScn.uses[n]]
  /\ UNCHANGED <<rsNet, rsFile, rsRules, rsEtag, rsFetch, rsWall, rsLast, rsOverlap, rsGeo>>

\* Tun.PostStart: the addresses go to the firewall, and the references back.
TunPostStart ==
  /\ rsPhase = "tun" /\ rsPhase' = "cleanup"
  /\ rsWall' = [n \in Sets |-> IF n \in rsScn.tun THEN rsRules[n] ELSE 0]
  /\ rsRefs' = [n \in Sets |-> IF n \in rsScn.tun THEN rsRefs[n] - 1 ELSE rsRefs[n]]
  /\ UNCHANGED <<rsNet, rsFile, rsRules, rsEtag, rsFetch, rsLast, rsOverlap, rsGeo>>

\* Mutant of Dropped: rules in use are dropped too.
DroppedAll(n, rules) == 0

\* The rules nobody refers to are given up.
Dropped(n, rules) == IF rsRefs[n] = 0 THEN 0 ELSE rules

Cleanup ==
  /\ rsPhase = "cleanup" /\ rsPhase' = "ready"
  /\ rsRules' = [n \in Sets |-> Dropped(n, rsRules[n])]
  /\ rsOverlap' = (rsOverlap \/ rsFetch # {})
  /\ UNCHANGED <<rsNet, rsFile, rsEtag, rsRefs, rsFetch, rsWall, rsLast, rsGeo>>

-----------------------------------------------------------------------------
(* Updates: fetchOnce, called by loopUpdate and by Update of the Clash API. *)
Running == rsPhase \in {"tun", "cleanup", "ready"}
Fetch(f, step, ver) == rsFetch' = (rsFetch \ {f}) \cup {[f EXCEPT !.step = step, !.ver = ver]}

\* The request carries the ETag of before.
Request(n, by) ==
  /\ Running /\ n \in rsScn.remote /\ \A f \in rsFetch : ~(f.n = n /\ f.by = by)
  /\ rsFetch' = rsFetch \cup {[n |-> n, by |-> by, step |-> "sent", sent |-> rsEtag[n], ver |-> 0]}
  /\ rsOverlap' = (rsOverlap \/ rsFetch # {})
  /\ UNCHANGED <<rsNet, rsPhase, rsFile, rsRules, rsEtag, rsRefs, rsWall, rsLast, rsGeo>>

\* 200 with the version published, 304 when it is the one of the ETag, or an
\* error, or a content that does not parse.
Response(f) ==
  /\ f.step = "sent"
  /\ \/ rsServer[f.n] # f.sent /\ Fetch(f, "load", rsServer[f.n]) /\ UNCHANGED rsRules
     \/ /\ rsServer[f.n] = f.sent /\ rsFetch' = rsFetch \ {f}
        /\ rsRules' = [rsRules EXCEPT ![f.n] = Dropped(f.n, @)]
     \/ rsFetch' = rsFetch \ {f} /\ UNCHANGED rsRules
  /\ UNCHANGED <<rsNet, rsPhase, rsFile, rsEtag, rsRefs, rsWall, rsLast, rsOverlap, rsGeo>>

reloadRules(f) ==
  /\ f.step = "load"
  /\ rsRules' = [rsRules EXCEPT ![f.n] = f.ver]
  /\ rsLast' = [rsLast EXCEPT ![f.n] = f.ver]
  /\ Fetch(f, "call", f.ver)
  /\ UNCHANGED <<rsNet, rsPhase, rsFile, rsEtag, rsRefs, rsWall, rsOverlap, rsGeo>>

\* The callbacks: once registered, tun sends the firewall the addresses of all
\* its rule-sets as they are now.
updateRouteAddressSet(f) ==
  /\ f.step = "call"
  /\ rsWall' = IF rsPhase # "tun" /\ f.n \in rsScn.tun
               THEN [n \in Sets |-> IF n \in rsScn.tun THEN rsRules[n] ELSE 0] ELSE rsWall
  /\ Fetch(f, "store", f.ver)
  /\ UNCHANGED <<rsNet, rsPhase, rsFile, rsRules, rsEtag, rsRefs, rsLast, rsOverlap, rsGeo>>

\* Mutant of Store: the new ETag is kept from the request.
StoreOldTag(f) ==
  /\ f.step = "store"
  /\ rsEtag' = [rsEtag EXCEPT ![f.n] = IF f.sent = 0 THEN f.ver ELSE f.sent]
  /\ rsFile' = [rsFile EXCEPT ![f.n] = f.ver]
  /\ rsRules' = [rsRules EXCEPT ![f.n] = Dropped(f.n, @)]
  /\ rsFetch' = rsFetch \ {f}
  /\ UNCHANGED <<rsNet, rsPhase, rsRefs, rsWall, rsLast, rsOverlap, rsGeo>>

\* The end of fetchOnce and of update: ETag, file, and the rules if unused.
Store(f) ==
  /\ f.step = "store"
  /\ rsEtag' = [rsEtag EXCEPT ![f.n] = f.ver]
  /\ rsFile' = [rsFile EXCEPT ![f.n] = f.ver]
  /\ rsRules' = [rsRules EXCEPT ![f.n] = Dropped(f.n, @)]
  /\ rsFetch' = rsFetch \ {f}
  /\ UNCHANGED <<rsNet, rsPhase, rsRefs, rsWall, rsLast, rsOverlap, rsGeo>>

Publish(n) ==
  /\ n \in rsScn.remote /\ rsServer[n] < RsVersions
  /\ rsServer' = [rsServer EXCEPT ![n] = @ + 1]
  /\ UNCHANGED <<rsScn, rsPhase, rsFile, rsMem, rsGeo, rsCrashed>>

\* The file of a local rule-set is written anew; its watcher loads it, unless
\* it cannot be read.  The rules are loaded whether or not they are in use.
FileChanged(n) ==
  /\ n \in Local /\ Running /\ rsFile[n] \in 1..(RsVersions - 1)
  /\ \E content \in {rsFile[n] + 1, Torn} :
       /\ rsFile' = [rsFile EXCEPT ![n] = content]
       /\ rsRules' = IF content = Torn THEN rsRules ELSE [rsRules EXCEPT ![n] = content]
       /\ rsLast' = IF content = Torn THEN rsLast ELSE [rsLast EXCEPT ![n] = content]
  /\ UNCHANGED <<rsNet, rsPhase, rsEtag, rsRefs, rsFetch, rsWall, rsOverlap, rsGeo>>

\* The process ends, in the middle of writing a file or not, and starts again.
Crash ==
  /\ rsCrashed < RsCrashes /\ rsCrashed' = rsCrashed + 1
  /\ \E torn \in SUBSET {f.n : f \in {g \in rsFetch : g.step = "store"}} :
       rsFile' = [n \in Sets |-> IF n \in torn THEN Torn ELSE rsFile[n]]
  /\ \A n \in Local : rsFile[n] > 0
  /\ Launch(rsScn, rsFile)
  /\ \E torn \in SUBSET {d \in DOMAIN rsGeo : rsGeo[d].state = "new" /\ rsGeo[d].file = 0} :
       rsGeo' = [d \in DOMAIN rsGeo |-> GeoDB(IF d \in torn THEN Torn ELSE rsGeo[d].file)]
  /\ rsPhase' = "geo"
  /\ UNCHANGED <<rsScn, rsServer>>

RsStep ==
  \/ prepareGeoIPDatabase \/ prepareGeositeDatabase \/ StartContext \/ RulesStart \/ TunPostStart \/ Cleanup
  \/ \E f \in rsFetch : Response(f) \/ reloadRules(f) \/ updateRouteAddressSet(f) \/ Store(f)
RsNext ==
  \/ RsStep \/ Crash
  \/ \E n \in Sets : Publish(n) \/ FileChanged(n) \/ \E by \in {"loop", "api"} : Request(n, by)

RsSpec == RsInit /\ [][RsNext]_rsVars

-----------------------------------------------------------------------------
(* Properties.                                                              *)

\* The ranges, and no reference count below zero (DecRef panics on one).
RsTypeOK ==
  /\ rsPhase \in {"geo", "geosite", "start", "rules", "tun", "cleanup", "ready", "failed"}
  /\ \A n \in Sets : rsRefs[n] >= 0 /\ rsRules[n] \in 0..RsVersions /\ rsFile[n] \in Torn..RsVersions
  /\ \A d \in DOMAIN rsGeo : rsGeo[d].tries \in 0..3

\* A rule-set some rule names has its rules, from the start of the rules on,
\* whatever updates, restarts and clean-ups come by.
InUseLoaded == Running => \A n \in Sets : rsScn.uses[n] > 0 => rsRules[n] > 0

\* The ETag sent with the next request is that of the rules in memory, unless
\* two updates overlapped: a 304 then never keeps older rules in force.
EtagOfRules ==
  Running /\ rsFetch = {} /\ ~rsOverlap =>
    \A n \in rsScn.remote : rsEtag[n] # 0 /\ rsRules[n] # 0 => rsEtag[n] = rsRules[n]

\* With a single rule-set in route_address_set the firewall has the version
\* last loaded, though the rules themselves may have been dropped since;
\* unless an update met another or the clean-up, and its callback found no rules.
FirewallFollows ==
  rsPhase = "ready" /\ rsFetch = {} /\ ~rsOverlap =>
    \A n \in rsScn.remote : rsScn.tun = {n} => rsWall[n] = rsLast[n]

\* A start that could not download a database leaves no file behind, so that
\* the next start tries again.
OfflineLeavesNothing == \A d \in DOMAIN rsGeo : rsGeo[d].state = "offline" => rsGeo[d].file = 0

-----------------------------------------------------------------------------
(* The properties above, by subject. *)

\* What downloads of rule-sets and databases leave behind over failures and crashes, unless two updates met: the
\* ETag of the rules in memory, the firewall's set of the version last loaded, and no file of a failed download.
DownloadsSound ==
  /\ RsTypeOK
  /\ EtagOfRules
  /\ FirewallFollows
  /\ OfflineLeavesNothing
=============================================================================
