---------------------------- MODULE FakeIPStore ----------------------------
(* The FakeIP store (transport/fakeip/store.go) on top of the cache file   *)
(* (experimental/cachefile/fakeip.go).                                      *)
(*                                                                          *)
(* Create is called by concurrent DNS queries and takes no lock: it is one *)
(* program per client.  FakeIPStoreAsync puts a mapping in the save* maps, *)
(* from where a goroutine (a worker) carries it into the database in a     *)
(* transaction of its own and then removes it from the maps.  The database *)
(* survives a crash, all the rest does not.                                 *)
EXTENDS FakeIPTable, FiniteSets

CONSTANTS Family,        \* the address families
          Client,        \* concurrent callers of Create
          Worker,        \* bound: goroutines of FakeIPStoreAsync alive at once
          Configs,       \* configurations the service is started with
          NoRange,       \* a family with no configured range
          NoMeta,        \* no metadata record, or no timer
          WrapInFlight,  \* may an address come round while it is being saved?
          MayCrash,      \* may the process die without closing?
          MayFlush,      \* is the flush endpoint of the API used?
          MayFail        \* may a database transaction fail?

VARIABLES phase,     \* "down", "starting", "up" or "closing"
          range,     \* inet4Range and inet6Range
          loaded,    \* the metadata Start has read
          current,   \* inet4Current and inet6Current
          client,    \* the Create each client is in
          save,      \* saveDomain (addr) and saveAddress4/6 (dom)
          worker,    \* the goroutines of FakeIPStoreAsync
          timer,     \* saveMetadataTimer and the metadata its closure holds
          db         \* the database file

vars == <<phase, range, loaded, current, client, save, worker, timer, db>>

Range == {r \in [lo : Index, hi : Index] : r.lo + 2 <= r.hi}

ASSUME StoreAssumption ==
  /\ Configs \subseteq [Family -> Range \cup {NoRange}]
  /\ NoRange \notin Range
  /\ {WrapInFlight, MayCrash, MayFlush, MayFail} \subseteq BOOLEAN

Currents == [Family -> Index \cup {NoAddr}]
Metadata == [range : Configs, current : Currents]

ASSUME MetaAssumption == NoMeta \notin Metadata

\* The buckets of the database: the address bucket, which also holds the
\* metadata, and one domain bucket per family.
Bucket == {"address"} \cup Family

IdleClient == [st |-> "idle"]
IdleWorker == [st |-> "idle"]
NoTables   == [f \in Family |-> EmptyTable]

\* The states of the store, its clients, its goroutines and the database, in which a bucket
\* may be absent.
TypeOK ==
  /\ phase \in {"down", "starting", "up", "closing"}
  /\ range \in Configs
  /\ loaded \in Metadata \cup {NoMeta}
  /\ current \in Currents
  /\ client \in [Client -> {IdleClient}
                    \cup [st : {"view", "next"}, f : Family, d : Domain]
                    \cup [st : {"store", "done"}, f : Family, d : Domain, i : Index]]
  /\ save \in [Family -> Table]
  /\ worker \in [Worker -> {IdleWorker}
                    \cup [st : {"commit", "finish"}, f : Family, d : Domain, i : Index]]
  /\ timer \in [armed : BOOLEAN, meta : Metadata \cup {NoMeta}]
  /\ db \in [tables : [Family -> Table], meta : Metadata \cup {NoMeta},
             buckets : SUBSET Bucket]

----------------------------------------------------------------------------
(* What the process holds in memory when it is not running. *)
Volatile ==
  /\ loaded' = NoMeta
  /\ current' = [f \in Family |-> NoAddr]
  /\ client' = [c \in Client |-> IdleClient]
  /\ save' = NoTables
  /\ worker' = [w \in Worker |-> IdleWorker]
  /\ timer' = [armed |-> FALSE, meta |-> NoMeta]

Init ==
  /\ phase = "down"
  /\ range \in Configs
  /\ loaded = NoMeta
  /\ current = [f \in Family |-> NoAddr]
  /\ client = [c \in Client |-> IdleClient]
  /\ save = NoTables
  /\ worker = [w \in Worker |-> IdleWorker]
  /\ timer = [armed |-> FALSE, meta |-> NoMeta]
  /\ db = [tables |-> NoTables, meta |-> NoMeta, buckets |-> {}]

\* FakeIPReset is one transaction over the three buckets.  Deleting a bucket
\* that does not exist is an error, and an error rolls everything back.
FakeIPReset(b) ==
  IF b.buckets = Bucket
  THEN [tables |-> NoTables, meta |-> NoMeta, buckets |-> {}]
  ELSE b

FakeIPSaveMetadata(b, m) ==
  [b EXCEPT !.meta = m, !.buckets = @ \cup {"address"}]

\* Mutant of NextAddress: it wraps to the first address of the range.
NextAddressFirst(r, i) == IF i + 1 \in r.lo..r.hi THEN i + 1 ELSE r.lo

\* The address after the current one, or the range's third address when that
\* is outside the range.
NextAddress(r, i) == IF i + 1 \in r.lo..r.hi THEN i + 1 ELSE r.lo + 2

\* Mutant of FakeIPLoad: the database hides the unsaved mapping.
FakeIPLoadDatabaseFirst(f, i) ==
  IF db.tables[f].addr[i] # NoDomain THEN db.tables[f].addr[i] ELSE save[f].addr[i]

\* FakeIPLoad: the maps of unsaved mappings first, then the database.
FakeIPLoad(f, i) == IF save[f].addr[i] # NoDomain THEN save[f].addr[i]
                    ELSE db.tables[f].addr[i]

----------------------------------------------------------------------------
(* Start: the metadata is read and deleted in one transaction; whether the *)
(* tables survive is decided after it.                                     *)
FakeIPMetadata(cfg) ==
  /\ phase = "down"
  /\ phase' = "starting"
  /\ range' = cfg
  /\ loaded' = db.meta
  /\ db' = [db EXCEPT !.meta = NoMeta]
  /\ UNCHANGED <<current, client, save, worker, timer>>

Start ==
  /\ phase = "starting"
  /\ phase' = "up"
  /\ loaded' = NoMeta
  /\ IF loaded # NoMeta /\ loaded.range = range
     THEN /\ current' = loaded.current
          /\ UNCHANGED db
     ELSE /\ current' = [f \in Family |-> IF range[f] = NoRange THEN NoAddr
                                          ELSE range[f].lo + 2]
          /\ db' = FakeIPReset(db)
  /\ UNCHANGED <<range, client, save, worker, timer>>

Running == phase \in {"up", "closing"}

(* Create: FakeIPLoadDomain looks in the maps, then in the database. *)
CreateLoad(c, f, d) ==
  /\ phase = "up"
  /\ client[c].st \in {"idle", "done"}
  /\ LET i == save[f].dom[d]
     IN  client' = [client EXCEPT ![c] =
           IF i # NoAddr THEN [st |-> "done", f |-> f, d |-> d, i |-> i]
           ELSE [st |-> "view", f |-> f, d |-> d]]
  /\ UNCHANGED <<phase, range, loaded, current, save, worker, timer, db>>

CreateView(c) ==
  /\ Running
  /\ client[c].st = "view"
  /\ LET f == client[c].f
         d == client[c].d
         i == db.tables[f].dom[d]
     IN  client' = [client EXCEPT ![c] =
           IF i # NoAddr THEN [st |-> "done", f |-> f, d |-> d, i |-> i]
           ELSE [st |-> "next", f |-> f, d |-> d]]
  /\ UNCHANGED <<phase, range, loaded, current, save, worker, timer, db>>

\* The next address is computed from an unsynchronised read of the current
\* one; a family without a range is an error.
CreateNext(c) ==
  /\ Running
  /\ client[c].st = "next"
  /\ LET f == client[c].f
     IN  client' = [client EXCEPT ![c] =
           IF current[f] = NoAddr THEN IdleClient
           ELSE [st |-> "store", f |-> f, d |-> client[c].d,
                 i |-> NextAddress(range[f], current[f])]]
  /\ UNCHANGED <<phase, range, loaded, current, save, worker, timer, db>>

FreeWorker(w) == worker[w] = IdleWorker

InFlight(f, i) == \E w \in Worker : /\ ~FreeWorker(w)
                                    /\ worker[w].f = f
                                    /\ worker[w].i = i

\* FakeIPSaveMetadataAsync: the first call makes the timer, whose closure
\* keeps that call's metadata; later calls only push the deadline back.
FakeIPSaveMetadataAsync(m) ==
  timer' = [armed |-> TRUE, meta |-> IF timer.meta = NoMeta THEN m ELSE timer.meta]

\* The current address moves, FakeIPStoreAsync records the mapping and starts
\* its goroutine, and the metadata is scheduled to be saved.
CreateStore(c, w) ==
  /\ Running
  /\ client[c].st = "store"
  /\ FreeWorker(w)
  /\ LET f == client[c].f
         d == client[c].d
         i == client[c].i
     IN  /\ WrapInFlight \/ ~InFlight(f, i)
         /\ current' = [current EXCEPT ![f] = i]
         /\ save' = [save EXCEPT ![f] = Put(@, i, d)]
         /\ worker' = [worker EXCEPT ![w] =
                         [st |-> "commit", f |-> f, d |-> d, i |-> i]]
         /\ FakeIPSaveMetadataAsync([range |-> range, current |-> current'])
         /\ client' = [client EXCEPT ![c].st = "done"]
  /\ UNCHANGED <<phase, range, loaded, db>>

\* Mutant of FakeIPStoreTx: the address bucket is forgotten.
FakeIPStoreTxNoAddress(w) ==
  LET f == worker[w].f
  IN  [db EXCEPT !.tables[f].dom[worker[w].d] = worker[w].i,
                 !.buckets = @ \cup {"address", f}]

(* The goroutine of FakeIPStoreAsync: FakeIPStore's transaction, which may *)
(* fail, and then the removal of the entries from the maps.                *)
FakeIPStoreTx(w) ==
  LET f == worker[w].f
  IN  [db EXCEPT !.tables[f] = Put(@, worker[w].i, worker[w].d),
                 !.buckets = @ \cup {"address", f}]

WorkerCommit(w) ==
  /\ Running
  /\ worker[w].st = "commit"
  /\ worker' = [worker EXCEPT ![w].st = "finish"]
  /\ db' \in {FakeIPStoreTx(w)} \cup (IF MayFail THEN {db} ELSE {})
  /\ UNCHANGED <<phase, range, loaded, current, client, save, timer>>

WorkerFinish(w) ==
  /\ Running
  /\ worker[w].st = "finish"
  /\ save' = [save EXCEPT ![worker[w].f] = Drop(@, worker[w].i, worker[w].d)]
  /\ worker' = [worker EXCEPT ![w] = IdleWorker]
  /\ UNCHANGED <<phase, range, loaded, current, client, timer, db>>

\* The timer saves the metadata its closure holds.
TimerFire ==
  /\ Running
  /\ timer.armed
  /\ db' = FakeIPSaveMetadata(db, timer.meta)
  /\ timer' = [timer EXCEPT !.armed = FALSE]
  /\ UNCHANGED <<phase, range, loaded, current, client, save, worker>>

\* flushFakeip of the API resets the database and nothing else.
Flush ==
  /\ MayFlush
  /\ phase = "up"
  /\ db' = FakeIPReset(db)
  /\ UNCHANGED <<phase, range, loaded, current, client, save, worker, timer>>

\* Close saves the metadata; goroutines and the timer go on until the cache
\* file is closed and the process ends.
Close ==
  /\ phase = "up"
  /\ phase' = "closing"
  /\ db' = FakeIPSaveMetadata(db, [range |-> range, current |-> current])
  /\ UNCHANGED <<range, loaded, current, client, save, worker, timer>>

Exit ==
  /\ phase = "closing"
  /\ phase' = "down"
  /\ Volatile
  /\ UNCHANGED <<range, db>>

Crash ==
  /\ MayCrash
  /\ phase # "down"
  /\ phase' = "down"
  /\ Volatile
  /\ UNCHANGED <<range, db>>

Next ==
  \/ \E cfg \in Configs : FakeIPMetadata(cfg)
  \/ Start
  \/ \E c \in Client :
       \/ \E f \in Family, d \in Domain : CreateLoad(c, f, d)
       \/ CreateView(c)
       \/ CreateNext(c)
       \/ \E w \in Worker : CreateStore(c, w)
  \/ \E w \in Worker : WorkerCommit(w) \/ WorkerFinish(w)
  \/ TimerFire
  \/ Flush
  \/ Close
  \/ Exit
  \/ Crash

Spec == Init /\ [][Next]_vars

----------------------------------------------------------------------------
(* Properties. *)

\* Whatever the order in which the goroutines of FakeIPStoreAsync commit, and
\* wherever the process dies: an address that FakeIPLoadDomain would answer
\* from the database for a domain is resolved by the database to that domain,
\* so the two buckets FakeIPStore updates never drift apart.
DatabaseResolves == \A f \in Family : Resolves(db.tables[f])

\* An entry in saveDomain or saveAddress4/6 always has a goroutine that will
\* remove it: a stale entry would hide the database from FakeIPLoad for ever.
PendingOwned ==
  \A f \in Family :
    /\ \A i \in Index : save[f].addr[i] # NoDomain =>
         \E w \in Worker : /\ ~FreeWorker(w)
                           /\ worker[w].f = f /\ worker[w].i = i
    /\ \A d \in Domain : save[f].dom[d] # NoAddr =>
         \E w \in Worker : /\ ~FreeWorker(w)
                           /\ worker[w].f = f /\ worker[w].d = d
                           /\ worker[w].i = save[f].dom[d]

\* Over restarts with other ranges, clean or not, Create allocates from the
\* third to the last address of the range configured now, and never hands out
\* the first two.
AllocatesInRange ==
  \A c \in Client : client[c].st = "store" =>
    LET f == client[c].f
    IN  /\ range[f] # NoRange
        /\ client[c].i \in range[f].lo + 2 .. range[f].hi

\* docs/configuration/dns/fakeip.md: inet4_range is the "IPv4 address range
\* for FakeIP": an address Create answers is one Contains recognises.
CreatedInRange ==
  \A c \in Client : client[c].st = "done" /\ phase = "up" =>
    LET f == client[c].f
    IN  range[f] # NoRange /\ client[c].i \in range[f].lo .. range[f].hi

Addresses  == Family \X Index
LookupMap  == [a \in Addresses |-> FakeIPLoad(a[1], a[2])]
DurableMap == [a \in Addresses |-> db.tables[a[1]].addr[a[2]]]

Contract == INSTANCE FakeIPContract WITH
  Addr <- Addresses, Value <- Domain, NoValue <- NoDomain,
  map <- LookupMap, durable <- DurableMap

\* While no address comes round before it is saved, the storage is a
\* write-behind register: Lookup answers the domain assigned last, and a crash
\* between FakeIPStoreAsync and the commit only loses what was not committed.
ContractSpec == Contract!Spec

(* The runtime schedules goroutines fairly. *)
Fairness == \A w \in Worker : WF_vars(WorkerCommit(w)) /\ WF_vars(WorkerFinish(w))

FairSpec == Spec /\ Fairness

\* An entry of saveDomain does not stay: the goroutine removes it, unless the
\* address is given to another domain or the process ends first.
PendingDrains ==
  \A f \in Family, i \in Index, d \in Domain :
    save[f].addr[i] = d ~> save[f].addr[i] # d

\* A mapping that Create answered reaches the database unless the process ends:
\* once the goroutine has started, the address is durable for its domain or
\* the process is down.
MappingBecomesDurable ==
  \A f \in Family, i \in Index, d \in Domain :
    (save[f].addr[i] = d) ~> (db.tables[f].addr[i] = d \/ phase = "down")

-----------------------------------------------------------------------------
(* The properties above, by subject. *)

\* What fakeip.Store and the cache file keep true of their tables together, through asynchronous saves, flushes
\* and crashes: the buckets resolve both ways, and a mapping still to be written is owned by the goroutine that
\* will write it.
StoreSound ==
  /\ TypeOK
  /\ DatabaseResolves
  /\ PendingOwned

\* The goroutines of FakeIPStoreAsync finish: what waits to be saved is taken off the pending maps, and a
\* mapping that stays is in the database in the end.
SavesFinish ==
  /\ PendingDrains
  /\ MappingBecomesDurable
=============================================================================
