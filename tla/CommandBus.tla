----------------------------- MODULE CommandBus -----------------------------
(* The command socket of libbox (experimental/libbox/command_*.go): the app *)
(* and its widgets open one connection per command to the process that      *)
(* runs the service.  A command is a byte, its arguments, and then a reply  *)
(* or a stream of messages: the two ends must agree on every one of them.   *)
(*                                                                          *)
(* A value on the wire is [t |-> its type, v |-> what it says].  Groups,    *)
(* providers and the mode are sent again when a channel of capacity one     *)
(* says that something changed; what they show is a version here.           *)
EXTENDS Integers, SequencesExt, FiniteSetsExt

CONSTANTS CmSessions,  \* sequences of commands, one connection each
          MaxVersion,  \* bound: changes of the history, of the mode, of the service, lines logged
          MaxLines,    \* savedLines keeps this many
          MaxQueue     \* bound: messages a client has not read

VARIABLES cmService,   \* s.service: 0 is nil, else the generation of the service
          cmHist,      \* version of what the groups show: service and test history
          cmMode,      \* version of the mode of each generation's Clash server
          cmLog,       \* [next, unsaved, queue, saved]: next line, emitted but not in
                       \* savedLines, emitted but not distributed, savedLines
          cmPend,      \* channels a changed component has yet to signal
          cmChan,      \* the full channels: a subset of Channels
          cmConn       \* the connections, one per command of the session

cmVars == <<cmService, cmHist, cmMode, cmLog, cmPend, cmChan, cmConn>>
cmBox  == <<cmService, cmHist, cmMode, cmLog, cmPend, cmChan>>

Channels == {"urlTestUpdate", "modeUpdate", "logReset"}
Tok(t, v) == [t |-> t, v |-> v]
Streams == {"Log", "Status", "Group", "Provider", "ClashMode", "Connections"}
Commands == Streams \cup {"SelectOutbound", "URLTest", "GroupExpand", "ProviderExpand", "SetClashMode", "HealthCheck",
                          "SetSystemProxyEnabled", "GetSystemProxyStatus", "ServiceReload", "ServiceClose",
                          "CloseConnections", "CloseConnection"}

ASSUME CmAssumption ==
  /\ \A session \in CmSessions : session \in Seq(Commands)
  /\ MaxVersion \in Nat /\ MaxLines \in Nat /\ MaxQueue \in Nat

-----------------------------------------------------------------------------
(* What the methods of CommandClient write: Connect for the streams, one    *)
(* method per command for the others.                                       *)
Connect(cmd) == IF cmd = "ClashMode" THEN <<"byte">> ELSE <<"byte", "int64">>
SelectOutbound        == <<"byte", "string", "string">>
URLTest               == <<"byte", "string">>
SetGroupExpand        == <<"byte", "string", "bool">>
SetProviderExpand     == <<"byte", "string", "bool">>

SetClashMode          == <<"byte", "string">>
HealthCheck           == <<"byte", "string">>
SetSystemProxyEnabled == <<"byte", "bool">>
GetSystemProxyStatus  == <<"byte">>
ServiceReload         == <<"byte">>
ServiceClose          == <<"byte">>
CloseConnections      == <<"byte">>
CloseConnection       == <<"string">>  \* the command itself is not written

ClientWrites(cmd) ==
  CASE cmd \in Streams -> Connect(cmd)
    [] cmd = "SelectOutbound" -> SelectOutbound
    [] cmd = "URLTest" -> URLTest
    [] cmd = "GroupExpand" -> SetGroupExpand
    [] cmd = "ProviderExpand" -> SetProviderExpand
    [] cmd = "SetClashMode" -> SetClashMode
    [] cmd = "HealthCheck" -> HealthCheck
    [] cmd = "SetSystemProxyEnabled" -> SetSystemProxyEnabled
    [] cmd = "GetSystemProxyStatus" -> GetSystemProxyStatus
    [] cmd = "ServiceReload" -> ServiceReload
    [] cmd = "ServiceClose" -> ServiceClose
    [] cmd = "CloseConnections" -> CloseConnections
    [] cmd = "CloseConnection" -> CloseConnection

(* The handlers that answer once: the types they read, and the outcomes     *)
(* they can have with the service at hand: [did, reply], the effect and     *)
(* what is written back.                                                    *)
writeError(did) == IF did THEN <<Tok("bool", FALSE)>> ELSE <<Tok("bool", TRUE), Tok("string", "error")>>
Outcome(did, reply) == [did |-> did, reply |-> reply]
Either == {Outcome(did, writeError(did)) : did \in BOOLEAN}
NotReady == {Outcome(FALSE, writeError(FALSE))}
Silent == {Outcome(FALSE, <<>>)}

handleSelectOutbound(service) ==
  [reads |-> <<"string", "string">>, outcomes |-> IF service = 0 THEN NotReady ELSE Either]
handleURLTest(service) ==
  [reads |-> <<"string">>, outcomes |-> IF service = 0 THEN Silent ELSE Either]
handleSetGroupExpand(service) ==
  [reads |-> <<"string", "bool">>, outcomes |-> IF service = 0 THEN NotReady ELSE Either]
handleSetProviderExpand(service) ==
  [reads |-> <<"string", "bool">>, outcomes |-> IF service = 0 THEN NotReady ELSE Either]
\* SetMode says nothing of a mode it does not know.
handleSetClashMode(service) ==
  [reads |-> <<"string">>,
   outcomes |-> IF service = 0 THEN NotReady ELSE {Outcome(did, writeError(TRUE)) : did \in BOOLEAN}]
\* Mutant of handleHealthCheck: answers without a service.
handleHealthCheckNil(service) ==
  [reads |-> <<"string">>, outcomes |-> IF service = 0 THEN {Outcome(FALSE, writeError(TRUE))} ELSE Either]

handleHealthCheck(service) ==
  [reads |-> <<"string">>, outcomes |-> IF service = 0 THEN Silent ELSE Either]
handleSetSystemProxyEnabled(service) == [reads |-> <<"bool">>, outcomes |-> Either]
handleGetSystemProxyStatus(service) ==
  [reads |-> <<>>, outcomes |-> {Outcome(TRUE, <<Tok("bool", FALSE)>>)}
                     \cup {Outcome(TRUE, <<Tok("bool", TRUE), Tok("bool", e)>>) : e \in BOOLEAN}]
handleServiceReload(service) == [reads |-> <<>>, outcomes |-> Either]
handleServiceClose(service) ==
  [reads |-> <<>>, outcomes |-> IF service = 0 THEN {Outcome(TRUE, <<Tok("panic", 0)>>)} ELSE Either]
handleCloseConnections(service) == [reads |-> <<>>, outcomes |-> {Outcome(TRUE, <<>>)}]
handleCloseConnection(service) ==
  [reads |-> <<"string">>, outcomes |-> IF service = 0 THEN NotReady ELSE Either]

Handler(cmd, service) ==
  CASE cmd = "SelectOutbound" -> handleSelectOutbound(service)
    [] cmd = "URLTest" -> handleURLTest(service)
    [] cmd = "GroupExpand" -> handleSetGroupExpand(service)
    [] cmd = "ProviderExpand" -> handleSetProviderExpand(service)
    [] cmd = "SetClashMode" -> handleSetClashMode(service)
    [] cmd = "HealthCheck" -> handleHealthCheck(service)
    [] cmd = "SetSystemProxyEnabled" -> handleSetSystemProxyEnabled(service)
    [] cmd = "GetSystemProxyStatus" -> handleGetSystemProxyStatus(service)
    [] cmd = "ServiceReload" -> handleServiceReload(service)
    [] cmd = "ServiceClose" -> handleServiceClose(service)
    [] cmd = "CloseConnections" -> handleCloseConnections(service)
    [] cmd = "CloseConnection" -> handleCloseConnection(service)
    [] cmd = "ClashMode" -> [reads |-> <<>>]
    [] OTHER -> [reads |-> <<"int64">>]

-----------------------------------------------------------------------------
Fresh(cmd) == [cmd |-> cmd, up |-> <<>>, down |-> <<>>, cl |-> "new", sv |-> "idle", sent |-> 0,
               got |-> 0, did |-> FALSE, from |-> 0, held |-> <<>>, sub |-> <<>>, shown |-> <<>>,
               misread |-> FALSE]

CmStart(session, service) ==
  /\ cmService = service /\ cmHist = 1 /\ cmMode = <<1>> /\ cmPend = {} /\ cmChan = {}
  /\ cmLog = [next |-> 1, unsaved |-> <<>>, queue |-> <<>>, saved |-> <<>>]
  /\ cmConn = [k \in 1..Len(session) |-> Fresh(session[k])]

CmInit == \E session \in CmSessions, service \in {0, 1} : CmStart(session, service)

Dead == -1  \* the process panicked
Patch(c, fields) == [f \in DOMAIN c |-> IF f \in DOMAIN fields THEN fields[f] ELSE c[f]]
Put(k, fields) == cmConn' = [cmConn EXCEPT ![k] = Patch(@, fields)]
Waits(k) == cmConn[k].cl \in {"reading", "more", "following"}
Room(k) == Len(cmConn[k].down) < MaxQueue
Send(k, token, fields) ==
  cmConn' = [cmConn EXCEPT ![k] = Patch(Patch(@, fields), [down |-> Append(cmConn[k].down, token)])]

-----------------------------------------------------------------------------
(* The client.  There is one client of a stream at a time: the app connects *)
(* again after it has disconnected.                                         *)
Command(k) ==
  /\ cmConn[k].cl = "new" /\ cmService # Dead
  /\ \A j \in 1..(k - 1) : cmConn[j].cmd = cmConn[k].cmd => cmConn[j].cl = "error"
  /\ Put(k, [up |-> [i \in DOMAIN ClientWrites(cmConn[k].cmd) |->
                       Tok(ClientWrites(cmConn[k].cmd)[i], cmConn[k].cmd)],
             sv |-> "accepted",
             cl |-> IF cmConn[k].cmd = "CloseConnections" THEN "ok" ELSE "reading"])
  /\ UNCHANGED cmBox

\* What the client of a stream reads next; it takes providers for groups.
ClientOf(c) ==
  CASE c.cmd \in {"Group", "Provider"} -> "groups"
    [] c.cmd = "ClashMode" -> IF c.cl = "reading" THEN "modes" ELSE "mode"
    [] OTHER -> c.cmd

\* The next message of a stream.  A client that meets a value of another type
\* fails or goes on with nonsense.
ClientStream(k) ==
  LET c == cmConn[k]
      m == Head(c.down)
      wants == ClientOf(c)
  IN /\ c.cmd \in Streams /\ Waits(k) /\ c.down # <<>>
     /\ \E state \in IF m.t # wants THEN {"error", "following"} ELSE {"following"} :
          Put(k, [down |-> Tail(c.down), cl |-> state, misread |-> c.misread \/ m.t # wants,
                  got |-> IF c.cmd = "Log" THEN c.got ELSE m.v,
                  shown |-> IF c.cmd # "Log" THEN c.shown
                            ELSE IF m.v = <<>> THEN <<>> ELSE c.shown \o m.v])
     /\ UNCHANGED cmBox

\* readError, and its copies in ServiceReload and ServiceClose: a flag, then
\* the message.  GetSystemProxyStatus reads a second flag after a true one.
readError(k) ==
  LET c == cmConn[k]
      m == Head(c.down)
      wants == IF c.cl = "more" /\ c.cmd # "GetSystemProxyStatus" THEN "string" ELSE "bool"
  IN /\ c.cmd \notin Streams /\ Waits(k) /\ c.down # <<>>
     /\ Put(k, [down |-> Tail(c.down), misread |-> c.misread \/ m.t # wants,
                cl |-> IF c.cl = "reading" THEN (IF m.v = TRUE THEN "more" ELSE "ok")
                       ELSE IF c.cmd = "GetSystemProxyStatus" THEN "ok" ELSE "error"])
     /\ UNCHANGED cmBox

\* The connection ends where a value is awaited: an error, but not for
\* ServiceClose.
ClientEOF(k) ==
  /\ Waits(k) /\ cmConn[k].down = <<>> /\ cmConn[k].sv = "closed"
  /\ Put(k, [cl |-> IF cmConn[k].cmd = "ServiceClose" THEN "ok" ELSE "error"])
  /\ UNCHANGED cmBox

Disconnect(k) ==
  /\ cmConn[k].cmd \in Streams /\ Waits(k)
  /\ Put(k, [cl |-> "error"])
  /\ UNCHANGED cmBox
-----------------------------------------------------------------------------
(* The server.                                                              *)

\* A string where the command byte should be starts with its length, which is
\* no command.
handleConnection(k) ==
  LET c == cmConn[k]
  IN /\ c.sv = "accepted" /\ c.up # <<>>
     /\ Put(k, IF Head(c.up).t = "byte" THEN [sv |-> "command", up |-> Tail(c.up)]
               ELSE [sv |-> "closed", misread |-> TRUE])
     /\ UNCHANGED cmBox

ArgumentsDiffer(k) ==
  [i \in DOMAIN cmConn[k].up |-> cmConn[k].up[i].t] # Handler(cmConn[k].cmd, cmService).reads

\* Mutant of HandleOnce: without a reply the connection stays open.
HandleOnceOpen(k) ==
  LET c == cmConn[k]
  IN /\ c.cmd \notin Streams /\ c.sv = "command"
     /\ \E o \in Handler(c.cmd, cmService).outcomes :
          Put(k, [sv |-> IF o.reply = <<>> THEN "wait" ELSE "closed", did |-> o.did,
                  down |-> SelectSeq(o.reply, LAMBDA m : m.t # "panic")])
     /\ UNCHANGED cmBox

\* A command that is answered once.  A new mode is signalled right after it is
\* set; a nil service in handleServiceClose takes the process down.
HandleOnce(k) ==
  LET c == cmConn[k]
  IN /\ c.cmd \notin Streams /\ c.sv = "command"
     /\ \E o \in Handler(c.cmd, cmService).outcomes :
          LET sets == c.cmd = "SetClashMode" /\ o.did
              panics == o.reply = <<Tok("panic", 0)>>
          IN /\ sets => cmMode[cmService] < MaxVersion
             /\ cmMode' = IF sets THEN [cmMode EXCEPT ![cmService] = @ + 1] ELSE cmMode
             /\ cmPend' = IF sets THEN cmPend \cup {"modeUpdate"} ELSE cmPend
             /\ cmService' = IF panics THEN Dead ELSE cmService
             /\ cmConn' = [j \in DOMAIN cmConn |->
                  IF j = k THEN Patch(c, [sv |-> "closed", did |-> o.did, down |-> IF panics THEN <<>> ELSE o.reply,
                                          misread |-> c.misread \/ ArgumentsDiffer(k)])
                  ELSE IF panics THEN Patch(cmConn[j], [sv |-> "closed"]) ELSE cmConn[j]]
     /\ UNCHANGED <<cmHist, cmLog, cmChan>>

\* The streams read their interval and start; the mode and the connections
\* wait for a service and keep its Clash server, the log takes savedLines.
StreamStart(k) ==
  LET c == cmConn[k]
  IN /\ c.cmd \in Streams /\ c.sv = "command"
     /\ c.cmd \in {"ClashMode", "Connections"} => cmService > 0
     /\ Put(k, [sv |-> IF c.cmd = "Log" THEN "subscribe" ELSE "write", from |-> cmService,
                held |-> IF c.cmd = "Log" THEN cmLog.saved ELSE <<>>,
                misread |-> c.misread \/ ArgumentsDiffer(k)])
     /\ UNCHANGED cmBox

\* The lists of the service of now, or a 16-bit zero, which reads as two empty
\* lists; then a tick and an update.
writeGroups    == Tok("groups", cmHist)
writeProviders == Tok("providers", cmHist)
NoService      == <<Tok("groups", cmHist), Tok("groups", cmHist)>>
FollowUpdates(k, list) ==
  LET c == cmConn[k]
  IN /\ \/ /\ c.sv = "write" /\ Room(k)
           /\ Put(k, [down |-> c.down \o (IF cmService = 0 THEN NoService ELSE <<list>>),
                      sent |-> cmHist, sv |-> "tick"])
           /\ UNCHANGED cmChan
        \/ c.sv = "tick" /\ Put(k, [sv |-> "wait"]) /\ UNCHANGED cmChan
        \/ /\ c.sv = "wait" /\ "urlTestUpdate" \in cmChan
           /\ cmChan' = cmChan \ {"urlTestUpdate"} /\ Put(k, [sv |-> "write"])
     /\ UNCHANGED <<cmService, cmHist, cmMode, cmLog, cmPend>>

handleGroupConn(k)    == cmConn[k].cmd = "Group" /\ FollowUpdates(k, writeGroups)
handleProviderConn(k) == cmConn[k].cmd = "Provider" /\ FollowUpdates(k, writeProviders)

\* handleModeConn: the list with the mode, then the mode at every update.
handleModeConn(k) ==
  LET c == cmConn[k]
  IN /\ c.cmd = "ClashMode"
     /\ \/ /\ c.sv \in {"write", "update"} /\ Room(k)
           /\ Send(k, Tok(IF c.sv = "write" THEN "modes" ELSE "mode", cmMode[c.from]),
                   [sent |-> cmMode[c.from], sv |-> "wait"])
           /\ UNCHANGED cmChan
        \/ /\ c.sv = "wait" /\ "modeUpdate" \in cmChan
           /\ cmChan' = cmChan \ {"modeUpdate"} /\ Put(k, [sv |-> "update"])
     /\ UNCHANGED <<cmService, cmHist, cmMode, cmLog, cmPend>>

\* A message at every tick.
EveryTick(k, cmd) ==
  /\ cmConn[k].cmd = cmd /\ cmConn[k].sv = "write" /\ Room(k)
  /\ Send(k, Tok(cmd, 0), [sent |-> 0])
  /\ UNCHANGED cmBox
handleStatusConn(k)      == EveryTick(k, "Status")
handleConnectionsConn(k) == EveryTick(k, "Connections")

\* handleLogConn: subscribe, clear the client if the log was reset, send what
\* was saved, and from then on resets and batches of new lines.
handleLogConn(k) ==
  LET c == cmConn[k]
      cleared == IF "logReset" \in cmChan THEN <<Tok("Log", <<>>)>> ELSE <<>>
  IN /\ c.cmd = "Log"
     /\ \/ c.sv = "subscribe" /\ Put(k, [sv |-> "saved"]) /\ UNCHANGED cmChan
        \/ /\ c.sv = "saved"
           /\ Put(k, [sv |-> "wait",
                down |-> cleared \o IF c.held = <<>> THEN <<>>
                                    ELSE <<Tok("Log", [i \in DOMAIN c.held |-> <<"saved", c.held[i]>>])>>])
           /\ cmChan' = cmChan \ {"logReset"}
        \/ /\ c.sv = "wait" /\ "logReset" \in cmChan /\ Room(k)
           /\ Send(k, Tok("Log", <<>>), [sv |-> "wait"]) /\ cmChan' = cmChan \ {"logReset"}
        \/ /\ c.sv = "wait" /\ c.sub # <<>> /\ Room(k)
           /\ \E n \in 1..Len(c.sub) :
                Send(k, Tok("Log", [i \in 1..n |-> <<"live", c.sub[i]>>]),
                     [sub |-> SubSeq(c.sub, n + 1, Len(c.sub))])
           /\ UNCHANGED cmChan
     /\ UNCHANGED <<cmService, cmHist, cmMode, cmLog, cmPend>>

\* connKeepAlive: a stream whose client is gone ends, some time later.
connKeepAlive(k) ==
  /\ cmConn[k].cmd \in Streams /\ cmConn[k].cl = "error" /\ cmConn[k].sv \notin {"closed", "accepted"}
  /\ Put(k, [sv |-> "closed", sub |-> <<>>])
  /\ UNCHANGED cmBox

-----------------------------------------------------------------------------
(* The service beside the command server.                                   *)

\* Mutant of SetService: the new service is not announced.
SetServiceQuiet ==
  /\ cmService # Dead /\ cmHist < MaxVersion
  /\ \/ cmService' = 0 /\ UNCHANGED cmMode
     \/ cmService' = Len(cmMode) + 1 /\ cmMode' = Append(cmMode, Last(cmMode))
  /\ cmHist' = cmHist + 1
  /\ UNCHANGED <<cmLog, cmPend, cmChan, cmConn>>

SetService ==
  /\ cmService # Dead /\ cmHist < MaxVersion
  /\ \/ cmService' = 0 /\ UNCHANGED cmMode
     \/ cmService' = Len(cmMode) + 1 /\ cmMode' = Append(cmMode, Last(cmMode))
  /\ cmHist' = cmHist + 1 /\ cmPend' = cmPend \cup {"urlTestUpdate"}
  /\ UNCHANGED <<cmLog, cmChan, cmConn>>

\* StoreURLTestHistory and DeleteURLTestHistory, up to notifyUpdated.
StoreURLTestHistory ==
  /\ cmService > 0 /\ cmHist < MaxVersion
  /\ cmHist' = cmHist + 1 /\ cmPend' = cmPend \cup {"urlTestUpdate"}
  /\ UNCHANGED <<cmService, cmMode, cmLog, cmChan, cmConn>>

\* The send on the hook's channel, which gives way when it is full.
notifyUpdated(ch) ==
  /\ ch \in cmPend /\ cmService # Dead
  /\ cmPend' = cmPend \ {ch} /\ cmChan' = cmChan \cup {ch}
  /\ UNCHANGED <<cmService, cmHist, cmMode, cmLog, cmConn>>

\* WriteMessage emits a line, and saves it after that: another goroutine may
\* save its own line in between.
WriteMessage ==
  /\ cmService # Dead
  /\ \/ /\ cmLog.next <= MaxVersion
        /\ cmLog' = [cmLog EXCEPT !.next = @ + 1, !.queue = Append(@, cmLog.next),
                                  !.unsaved = Append(@, cmLog.next)]
     \/ \E i \in DOMAIN cmLog.unsaved :
          cmLog' = [cmLog EXCEPT !.unsaved = RemoveAt(@, i),
                      !.saved = LET all == Append(@, cmLog.unsaved[i])
                                IN IF Len(all) > MaxLines THEN Tail(all) ELSE all]
  /\ UNCHANGED <<cmService, cmHist, cmMode, cmPend, cmChan, cmConn>>

\* The observer (sing, external) hands a line to every subscription with room.
Distribute ==
  /\ cmLog.queue # <<>>
  /\ cmLog' = [cmLog EXCEPT !.queue = Tail(@)]
  /\ cmConn' = [k \in DOMAIN cmConn |->
       IF cmConn[k].cmd = "Log" /\ cmConn[k].sv \in {"saved", "wait"} /\ Len(cmConn[k].sub) < MaxQueue
       THEN Patch(cmConn[k], [sub |-> Append(cmConn[k].sub, Head(cmLog.queue))]) ELSE cmConn[k]]
  /\ UNCHANGED <<cmService, cmHist, cmMode, cmPend, cmChan>>

ResetLog ==
  /\ cmService # Dead
  /\ cmLog' = [cmLog EXCEPT !.saved = <<>>] /\ cmChan' = cmChan \cup {"logReset"}
  /\ UNCHANGED <<cmService, cmHist, cmMode, cmPend, cmConn>>

-----------------------------------------------------------------------------
ClientStep(k) == Command(k) \/ ClientStream(k) \/ readError(k) \/ ClientEOF(k)
ServerStep(k) ==
  \/ handleConnection(k) \/ HandleOnce(k) \/ StreamStart(k) \/ handleGroupConn(k)
  \/ handleProviderConn(k) \/ handleModeConn(k) \/ handleLogConn(k) \/ connKeepAlive(k)

\* The log and the rest of the service do not touch: each moves in the sessions
\* that look at it.
CmNext ==
  \/ \E k \in DOMAIN cmConn : ClientStep(k) \/ ServerStep(k) \/ Disconnect(k)
                           \/ handleStatusConn(k) \/ handleConnectionsConn(k)
  \/ \E ch \in Channels : notifyUpdated(ch)
  \/ /\ \E k \in DOMAIN cmConn : cmConn[k].cmd # "Log"
     /\ SetService \/ StoreURLTestHistory
  \/ /\ \E k \in DOMAIN cmConn : cmConn[k].cmd = "Log"
     /\ WriteMessage \/ Distribute \/ ResetLog

CmSpec == CmInit /\ [][CmNext]_cmVars

CmFairness ==
  /\ \A k \in 1..2 : WF_cmVars(k \in DOMAIN cmConn /\ ClientStep(k))
                     /\ WF_cmVars(k \in DOMAIN cmConn /\ ServerStep(k))
  /\ \A ch \in Channels : WF_cmVars(notifyUpdated(ch))

-----------------------------------------------------------------------------
(* Properties.                                                              *)

\* The states of the two ends, and no more lines saved than maxLines.
CmTypeOK ==
  /\ cmService \in Dead..(Len(cmMode)) /\ cmChan \subseteq Channels /\ cmPend \subseteq Channels
  /\ Len(cmLog.saved) <= MaxLines
  /\ \A k \in DOMAIN cmConn :
       /\ cmConn[k].cl \in {"new", "reading", "more", "following", "ok", "error"}
       /\ cmConn[k].sv \in {"idle", "accepted", "command", "subscribe", "saved", "write", "update",
                            "tick", "wait", "closed"}

\* Both ends read the types the other one writes, for every command but two:
\* CloseConnection does not write its command and handleProviderConn of the
\* client reads the list of providers as a list of groups.
WireAgrees ==
  \A k \in DOMAIN cmConn : cmConn[k].misread => cmConn[k].cmd \in {"CloseConnection", "Provider"}

\* A method that returns nil has had its effect: no reply is taken for the
\* reply to something else, and a service that is not there is an error.
\* CloseConnections does not wait, and SetMode is silent about unknown modes.
NilMeansDone ==
  \A k \in DOMAIN cmConn :
    cmConn[k].cl = "ok" /\ cmConn[k].cmd \notin {"CloseConnections", "SetClashMode"} => cmConn[k].did

Current(k) ==
  LET c == cmConn[k]
  IN \/ c.sv \notin {"tick", "wait"} \/ c.cl = "error" \/ cmService = Dead
     \/ /\ c.cmd \in {"Group", "Provider"}
        /\ c.sent = cmHist \/ "urlTestUpdate" \in cmPend \cup cmChan
     \/ /\ c.cmd = "ClashMode"
        /\ c.from # cmService \/ c.sent = cmMode[c.from] \/ "modeUpdate" \in cmPend \cup cmChan
     \/ c.cmd \notin {"Group", "Provider", "ClashMode"}

\* A stream that lags behind what it shows is about to write, or an update is
\* in its channel or on the way: groups after a test or a new service, the
\* mode as long as the service it started with is running.
NoUpdateMissed == \A k \in DOMAIN cmConn : Current(k)

LinesOf(k, kind) == SelectSeq(cmConn[k].shown, LAMBDA x : x[1] = kind)

\* A log client is shown a line at most twice, saved and live, and the live
\* lines in the order they were logged.
LogOnce ==
  \A k \in DOMAIN cmConn :
    /\ IsInjective(LinesOf(k, "saved"))
    /\ \A i, j \in DOMAIN LinesOf(k, "live") : i < j => LinesOf(k, "live")[i][2] < LinesOf(k, "live")[j][2]

Asked(k) == k \in DOMAIN cmConn /\ cmConn[k].cmd \notin Streams /\ cmConn[k].cl \in {"reading", "more"}

\* A command that is answered once is answered, or ends in an error: no handler
\* leaves its client waiting.
EveryCommandAnswered == \A k \in 1..2 : Asked(k) ~> ~Asked(k)

-----------------------------------------------------------------------------
(* The properties above, by subject. *)

\* A command of libbox: both ends read what the other writes, but for the two commands that do not, and a method
\* that returns nil has had its effect.
CommandsSound ==
  /\ CmTypeOK
  /\ WireAgrees
  /\ NilMeansDone

\* What a subscriber of the command server sees: no change of what it shows is missed, and no line of the log
\* twice live or out of order.
StreamsCurrent ==
  /\ NoUpdateMissed
  /\ LogOnce
=============================================================================
