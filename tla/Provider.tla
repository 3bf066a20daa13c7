------------------------------ MODULE Provider ------------------------------
(* How a remote outbound provider follows its subscription (provider/       *)
(* remote.go and default.go): conditional download, comparison with the     *)
(* last content, start of the new outbounds, replacement in the provider    *)
(* and then in one group after the other, roll-back, and the file from      *)
(* which the next start of the service reads.                               *)
(*                                                                          *)
(* An update is begun by the ticker's goroutine or by the API; `updating'   *)
(* lets one through.  The time between updates is left open.                *)
EXTENDS Integers, Sequences

CONSTANTS Content,    \* what the subscription may hold
          Bad,        \* contents that do not parse
          Hollow,     \* contents none of whose outbounds can be created
          NoContent,  \* no content (nil lastOuts, no file)
          Empty,      \* the content of a file cut to nothing
          Torn,       \* a file of which only a part was written
          NoEtag,     \* no ETag
          Etagged,    \* the contents the server sends with an ETag
          Groups,     \* the groups, in the order of router.Outbounds()
          Rejects,    \* the contents each group's UpdateOutbounds refuses
          Updater,    \* concurrent callers of updateProvider
          MaxChanges  \* bound: changes of the subscription

VARIABLES pvPhase,      \* "down" or "up"
          server,     \* the subscription's content
          changes,    \* how often it changed
          file,       \* the file at p.path
          lastEtag,   \* p.lastEtag
          lastOuts,   \* p.lastOuts, by its content
          outbounds,  \* p.outbounds
          group,      \* what each group took from the provider
          pvClosed,     \* the generations of outbounds that were closed
          gen,        \* the last generation created
          updating,   \* p.updating
          upd,        \* calls of updateProvider
          failed      \* did putting lastOuts into force fail?

mem  == <<lastEtag, lastOuts, outbounds, group, pvClosed, gen, failed>>
pvVars == <<pvPhase, server, changes, file, mem, updating, upd>>

Group == {Groups[i] : i \in 1..Len(Groups)}

\* The outbounds created from one content: started, replaced and closed together.
Batch   == [content : Content \cup {NoContent}, gen : Nat]
NoBatch == [content |-> NoContent, gen |-> 0]

ASSUME ProviderAssumption ==
  /\ Bad \subseteq Content /\ Hollow \subseteq Content \ Bad
  /\ NoContent \notin Content /\ Empty \notin Content \cup {NoContent}
  /\ Torn \notin Content \cup {NoContent, Empty}
  /\ NoEtag \notin Content \cup {NoContent, Empty, Torn}
  /\ Etagged \subseteq Content
  /\ Groups \in Seq(Group) /\ Groups # <<>>
  /\ Rejects \in [Group -> SUBSET Content]
  /\ MaxChanges \in Nat

\* A call of updateProvider: where it is, what it downloaded or will write, the
\* outbounds it made and those it replaced, and the group that is next.
Call(st, text, batch, backup, next) ==
  [st |-> st, text |-> text, batch |-> batch, backup |-> backup, next |-> next]
Idle == Call("idle", NoContent, NoBatch, NoBatch, 1)

\* The states of the provider, its calls, its groups and its file.
PvTypeOK ==
  /\ pvPhase \in {"down", "up"}
  /\ server \in Content
  /\ changes \in 0..MaxChanges
  /\ file \in Content \cup {NoContent, Empty, Torn}
  /\ lastEtag \in Content \cup {NoEtag}
  /\ lastOuts \in Content \cup {NoContent}
  /\ outbounds \in Batch
  /\ group \in [Group -> Batch]
  /\ pvClosed \subseteq 1..gen
  /\ gen \in Nat
  /\ updating \in BOOLEAN
  /\ upd \in [Updater -> [st : {"idle", "fetch", "read", "parse", "start", "groups",
                                "truncate", "write"},
                          text : Content \cup {NoContent, Empty, Torn, NoEtag},
                          batch : Batch, backup : Batch, next : 1..Len(Groups)]]
  /\ failed \in BOOLEAN

PvInit ==
  /\ pvPhase = "down"
  /\ server \in Content
  /\ changes = 0
  /\ file \in (Content \ Bad) \cup {NoContent, Empty}
  /\ lastEtag = NoEtag
  /\ lastOuts = NoContent
  /\ outbounds = NoBatch
  /\ group = [g \in Group |-> NoBatch]
  /\ pvClosed = {}
  /\ gen = 0
  /\ updating = FALSE
  /\ upd = [u \in Updater |-> Idle]
  /\ failed = FALSE

----------------------------------------------------------------------------
PvGoes(u, st, text) == upd' = [upd EXCEPT ![u] = Call(st, text, NoBatch, NoBatch, 1)]
Stays(u, st)      == PvGoes(u, st, upd[u].text)

\* updateProvider returns, whatever fetchOnce returned.
Finish(u) ==
  /\ upd' = [upd EXCEPT ![u] = Idle]
  /\ updating' = FALSE

(* firstStart reads the file, and the groups start with what it holds.  A   *)
(* file that does not parse (a part of a JSON or YAML document is one), or  *)
(* a group that refuses it, keeps the service down.                         *)
Boot ==
  /\ pvPhase = "down"
  /\ file \notin Bad \cup {Torn}
  /\ file \notin Hollow => \A g \in Group : file \notin Rejects[g]
  /\ pvPhase' = "up"
  /\ LET made == file \in Content \ Hollow
         b    == IF made THEN [content |-> file, gen |-> gen + 1] ELSE NoBatch
     IN  /\ gen' = IF made THEN gen + 1 ELSE gen
         /\ outbounds' = b
         /\ group' = [g \in Group |-> b]
  /\ lastOuts' = IF file \in Content THEN file ELSE NoContent
  /\ UNCHANGED <<server, changes, file, lastEtag, pvClosed, updating, upd, failed>>

\* updateProvider sends the request, with the last ETag.
UpdateProvider(u) ==
  /\ pvPhase = "up"
  /\ upd[u].st = "idle"
  /\ ~updating
  /\ updating' = TRUE
  /\ PvGoes(u, "fetch", lastEtag)
  /\ UNCHANGED <<pvPhase, server, changes, file, mem>>

\* No connection, a status that is not 200 or 304, or a body that breaks off.
FetchFails(u) ==
  /\ upd[u].st \in {"fetch", "read"}
  /\ Finish(u)
  /\ UNCHANGED <<pvPhase, server, changes, file, mem>>

\* The server still has the content whose ETag was sent.
Fresh(u) == upd[u].text = server

\* 304: updateCacheFileModTime writes the file again if the answer has the
\* subscription's traffic information.
NotModified(u) ==
  /\ upd[u].st = "fetch"
  /\ Fresh(u)
  /\ \/ Finish(u)
     \/ /\ PvGoes(u, "truncate", IF file = NoContent THEN Empty ELSE file)
        /\ UNCHANGED updating
  /\ UNCHANGED <<pvPhase, server, changes, file, mem>>

\* Mutant of Received: the ETag is kept before the body has been read.
ReceivedEtag(u) ==
  /\ upd[u].st = "fetch"
  /\ ~Fresh(u)
  /\ PvGoes(u, "read", server)
  /\ lastEtag' = IF server \in Etagged THEN server ELSE lastEtag
  /\ UNCHANGED <<pvPhase, server, changes, file, lastOuts, outbounds, group, pvClosed, gen,
                 failed, updating>>

Received(u) ==
  /\ upd[u].st = "fetch"
  /\ ~Fresh(u)
  /\ PvGoes(u, "read", server)
  /\ UNCHANGED <<pvPhase, server, changes, file, mem, updating>>

BodyRead(u) ==
  /\ upd[u].st = "read"
  /\ lastEtag' = IF upd[u].text \in Etagged THEN upd[u].text ELSE lastEtag
  /\ Stays(u, "parse")
  /\ UNCHANGED <<pvPhase, server, changes, file, lastOuts, outbounds, group, pvClosed, gen,
                 failed, updating>>

ParseFails(u) ==
  /\ upd[u].st = "parse"
  /\ upd[u].text \in Bad
  /\ Finish(u)
  /\ UNCHANGED <<pvPhase, server, changes, file, mem>>

\* checkChange finds no change: the file is written all the same.
ParseSame(u) ==
  /\ upd[u].st = "parse"
  /\ upd[u].text \notin Bad
  /\ upd[u].text = lastOuts
  /\ Stays(u, "truncate")
  /\ UNCHANGED <<pvPhase, server, changes, file, mem, updating>>

\* lastOuts is set and the outbounds are created; none at all counts as no change.
ParseNew(u) ==
  /\ upd[u].st = "parse"
  /\ upd[u].text \notin Bad
  /\ upd[u].text # lastOuts
  /\ lastOuts' = upd[u].text
  /\ failed' = FALSE
  /\ IF upd[u].text \in Hollow
     THEN Stays(u, "truncate") /\ UNCHANGED gen
     ELSE /\ gen' = gen + 1
          /\ upd' = [upd EXCEPT ![u] =
                       Call("start", upd[u].text, [content |-> upd[u].text, gen |-> gen + 1],
                            NoBatch, 1)]
  /\ UNCHANGED <<pvPhase, server, changes, file, lastEtag, outbounds, group, pvClosed, updating>>

\* startOutbounds fails: the outbounds started before stay as they are.
PvStartFails(u) ==
  /\ upd[u].st = "start"
  /\ failed' = TRUE
  /\ Finish(u)
  /\ UNCHANGED <<pvPhase, server, changes, file, lastEtag, lastOuts, outbounds, group, pvClosed, gen>>

\* The started outbounds replace the provider's, which are kept for a roll-back.
Started(u) ==
  /\ upd[u].st = "start"
  /\ outbounds' = upd[u].batch
  /\ upd' = [upd EXCEPT ![u] = Call("groups", upd[u].text, upd[u].batch, outbounds, 1)]
  /\ UNCHANGED <<pvPhase, server, changes, file, lastEtag, lastOuts, group, pvClosed, gen, failed,
                 updating>>

NextGroup(u) ==
  upd' = [upd EXCEPT ![u] =
            Call("groups", upd[u].text, upd[u].batch, upd[u].backup, upd[u].next + 1)]

Rejecting(u) == outbounds.content \in Rejects[Groups[upd[u].next]]

\* Mutant of UpdateGroup: the loop ends after the first group.
UpdateGroupFirst(u) ==
  /\ upd[u].st = "groups"
  /\ ~Rejecting(u)
  /\ group' = [group EXCEPT ![Groups[upd[u].next]] = outbounds]
  /\ Stays(u, "truncate")
  /\ UNCHANGED <<pvPhase, server, changes, file, lastEtag, lastOuts, outbounds, pvClosed, gen,
                 failed, updating>>

\* updateGroups, one group: it takes the provider's outbounds.
UpdateGroup(u) ==
  /\ upd[u].st = "groups"
  /\ ~Rejecting(u)
  /\ group' = [group EXCEPT ![Groups[upd[u].next]] = outbounds]
  /\ IF upd[u].next = Len(Groups) THEN Stays(u, "truncate") ELSE NextGroup(u)
  /\ UNCHANGED <<pvPhase, server, changes, file, lastEtag, lastOuts, outbounds, pvClosed, gen,
                 failed, updating>>

\* Mutant of GroupRejects: the old outbounds are not put back.
GroupRejectsKept(u) ==
  /\ upd[u].st = "groups"
  /\ Rejecting(u)
  /\ pvClosed' = pvClosed \cup {upd[u].batch.gen}
  /\ failed' = TRUE
  /\ Finish(u)
  /\ UNCHANGED <<pvPhase, server, changes, file, lastEtag, lastOuts, outbounds, group, gen>>

\* A group refuses: the new outbounds are closed and the old ones put back.
GroupRejects(u) ==
  /\ upd[u].st = "groups"
  /\ Rejecting(u)
  /\ pvClosed' = pvClosed \cup {upd[u].batch.gen}
  /\ outbounds' = upd[u].backup
  /\ failed' = TRUE
  /\ Finish(u)
  /\ UNCHANGED <<pvPhase, server, changes, file, lastEtag, lastOuts, group, gen>>

(* os.WriteFile cuts the file and then writes; its error is ignored. *)
Truncate(u) ==
  /\ upd[u].st = "truncate"
  /\ file' = Empty
  /\ Stays(u, "write")
  /\ UNCHANGED <<pvPhase, server, changes, mem, updating>>

Write(u) ==
  /\ upd[u].st = "write"
  /\ file' = upd[u].text
  /\ Finish(u)
  /\ UNCHANGED <<pvPhase, server, changes, mem>>

\* What a write under way leaves when it ends before its time.
Left == IF \E u \in Updater : upd[u].st = "write" THEN {file, Torn} ELSE {file}

WriteFails(u) ==
  /\ upd[u].st \in {"truncate", "write"}
  /\ file' \in Left
  /\ Finish(u)
  /\ UNCHANGED <<pvPhase, server, changes, mem>>

\* The process ends anywhere; the file stays, or what was written of it.
PvCrash ==
  /\ pvPhase = "up"
  /\ pvPhase' = "down"
  /\ lastEtag' = NoEtag
  /\ lastOuts' = NoContent
  /\ outbounds' = NoBatch
  /\ group' = [g \in Group |-> NoBatch]
  /\ pvClosed' = {}
  /\ gen' = 0
  /\ updating' = FALSE
  /\ upd' = [u \in Updater |-> Idle]
  /\ failed' = FALSE
  /\ file' \in Left
  /\ UNCHANGED <<server, changes>>

ChangeServer ==
  /\ changes < MaxChanges
  /\ changes' = changes + 1
  /\ server' \in Content \ {server}
  /\ UNCHANGED <<pvPhase, file, mem, updating, upd>>

PvNext ==
  \/ Boot
  \/ \E u \in Updater :
       \/ UpdateProvider(u) \/ FetchFails(u) \/ NotModified(u) \/ Received(u) \/ BodyRead(u)
       \/ ParseFails(u) \/ ParseSame(u) \/ ParseNew(u) \/ PvStartFails(u) \/ Started(u)
       \/ UpdateGroup(u) \/ GroupRejects(u) \/ Truncate(u) \/ Write(u) \/ WriteFails(u)
  \/ PvCrash
  \/ ChangeServer

PvSpec == PvInit /\ [][PvNext]_pvVars

----------------------------------------------------------------------------
(* Properties. *)

\* However updates fail and are rolled back, the outbounds the provider offers
\* are never ones that updateProviderFromContent closed.
ProviderOpen == outbounds.gen \notin pvClosed

\* If only the first group refuses contents (updateGroups stops at the first
\* error and does not undo the groups before it), then between updates every
\* group uses the outbounds the provider offers.
GroupsFollow ==
  /\ \A i \in 2..Len(Groups) : Rejects[Groups[i]] = {}
  /\ \A u \in Updater : upd[u].st # "groups"
  => \A g \in Group : group[g] = outbounds

\* checkChange compares with lastOuts in place of the outbounds in force: the two
\* are the same content unless putting it into force failed or is under way.
LastOutsInForce ==
  /\ lastOuts \notin Hollow
  /\ ~failed
  /\ \A u \in Updater : upd[u].st # "start"
  => outbounds.content = lastOuts

\* Whatever was downloaded, and wherever updates or the process ended, the file is
\* no content that does not parse: only a torn write can make firstStart refuse it.
FileParses == file \notin Bad

(* The ticker's goroutine runs on, and the server is reached time and again. *)
PvFairness ==
  /\ WF_pvVars(Boot)
  /\ \A u \in Updater :
       /\ WF_pvVars(UpdateProvider(u))
       /\ SF_pvVars(NotModified(u) \/ Received(u))
       /\ SF_pvVars(BodyRead(u))
       /\ WF_pvVars(ParseFails(u) \/ ParseSame(u) \/ ParseNew(u))
       /\ WF_pvVars(PvStartFails(u) \/ Started(u))
       /\ WF_pvVars(UpdateGroup(u) \/ GroupRejects(u))
       /\ WF_pvVars(Truncate(u) \/ WriteFails(u))
       /\ WF_pvVars(Write(u) \/ WriteFails(u))

PvFairSpec == PvSpec /\ PvFairness

\* Once the subscription stays the same and the process does not end, the
\* provider offers its content for good, unless the content cannot be used or
\* putting it into force failed; lost and broken downloads do not prevent it.
Converges ==
  <>[][server' = server /\ pvPhase' = pvPhase]_pvVars =>
    <>[](\/ pvPhase = "down"
         \/ server \in Bad \cup Hollow
         \/ outbounds.content = server
         \/ failed /\ lastOuts = server)

-----------------------------------------------------------------------------
(* The properties above, by subject. *)

\* What an update of a remote provider leaves behind when downloads, parses and groups may fail in between:
\* groups that follow it if only the first can refuse, a lastOuts that is the content in force, and a file that
\* parses.
ProviderSound ==
  /\ PvTypeOK
  /\ GroupsFollow
  /\ LastOutsInForce
  /\ FileParses
=============================================================================
