------------------------- MODULE FakeIPStoreProofs --------------------------
(* Proofs about FakeIPStore for every set of clients, goroutines, domains,  *)
(* ranges and configurations, and for every fault the environment may have. *)
EXTENDS FakeIPStore, TLAPS

(* A leaf that names no prover goes to Zenon, for ten seconds, then to SMT.  *)
USE ZenonT(10), SMTT(20)

----------------------------------------------------------------------------
(* The table. *)

\* An empty table is a table.
LEMMA EmptyTableType == EmptyTable \in Table /\ Resolves(EmptyTable)
BY TableAssumption DEF EmptyTable, Table, Resolves

\* FakeIPStore keeps a table a table.
LEMMA PutType ==
  ASSUME NEW t \in Table, NEW i \in Index, NEW d \in Domain
  PROVE  Put(t, i, d) \in Table
BY DEF Put, Table

\* So does removing a mapping.
LEMMA DropType ==
  ASSUME NEW t \in Table, NEW i \in Index, NEW d \in Domain
  PROVE  Drop(t, i, d) \in Table
BY DEF Drop, Table

\* FakeIPStore keeps the two directions of a table together: the domain that
\* loses its address loses its entry in the same step.
LEMMA PutResolves ==
  ASSUME NEW t \in Table, NEW i \in Index, NEW d \in Domain, Resolves(t)
  PROVE  Resolves(Put(t, i, d))
<1> DEFINE p == Put(t, i, d)
<1> SUFFICES ASSUME NEW e \in Domain, p.dom[e] # NoAddr
             PROVE  p.addr[p.dom[e]] = e
  BY DEF Resolves
<1>1. CASE e = d
  BY <1>1 DEF Put, Table
<1>2. CASE e # d
  <2>1. e # t.addr[i] /\ p.dom[e] = t.dom[e]
    BY <1>2 DEF Put
  <2>2. t.dom[e] \in Index /\ t.addr[t.dom[e]] = e
    BY <2>1 DEF Resolves, Table
  <2>3. t.dom[e] # i
    BY <2>1, <2>2
  <2> QED BY <2>1, <2>2, <2>3 DEF Put, Table
<1> QED BY <1>1, <1>2

----------------------------------------------------------------------------
(* Type correctness and the allocation range.  That Create computes an     *)
(* address at all needs to know that a current address belongs to a range, *)
(* in memory and in every copy of the metadata: the record Start has read, *)
(* the one in the timer's closure and the one in the database.             *)

Consistent(r, cur) ==
  \A f \in Family : IF r[f] = NoRange THEN cur[f] = NoAddr
                    ELSE cur[f] \in r[f].lo + 2 .. r[f].hi

MetaConsistent(m) == m # NoMeta => Consistent(m.range, m.current)

RangeInv ==
  /\ Running => Consistent(range, current)
  /\ MetaConsistent(loaded) /\ MetaConsistent(timer.meta) /\ MetaConsistent(db.meta)
  /\ timer.armed => timer.meta # NoMeta
  /\ ~Running => client = [c \in Client |-> IdleClient]
  /\ AllocatesInRange

TypeInv == TypeOK /\ RangeInv

ClientType == {IdleClient}
                \cup [st : {"view", "next"}, f : Family, d : Domain]
                \cup [st : {"store", "done"}, f : Family, d : Domain, i : Index]

WorkerType == {IdleWorker}
                \cup [st : {"commit", "finish"}, f : Family, d : Domain, i : Index]

\* The address after one of a range is an address of the range, and never one
\* of its first two.
LEMMA NextAddressRange ==
  ASSUME NEW r \in Range, NEW i \in r.lo + 2 .. r.hi
  PROVE  /\ NextAddress(r, i) \in r.lo + 2 .. r.hi
         /\ NextAddress(r, i) \in Index
BY TableAssumption DEF Range, NextAddress, Index

\* Resetting and saving metadata keep the database well formed.
LEMMA DbOps ==
  ASSUME TypeOK, NEW m \in Metadata
  PROVE  /\ FakeIPReset(db) \in [tables : [Family -> Table],
                                 meta : Metadata \cup {NoMeta}, buckets : SUBSET Bucket]
         /\ FakeIPSaveMetadata(db, m) \in [tables : [Family -> Table],
                                 meta : Metadata \cup {NoMeta}, buckets : SUBSET Bucket]
         /\ FakeIPReset(db).meta \in {db.meta, NoMeta}
         /\ FakeIPSaveMetadata(db, m).meta = m
BY EmptyTableType, ZenonT(30) DEF TypeOK, FakeIPReset, FakeIPSaveMetadata, NoTables, Bucket

\* NewStore and an empty cache file satisfy the type and range invariants.
LEMMA TypeInvInit == Init => TypeInv
<1> SUFFICES ASSUME Init PROVE TypeInv
  OBVIOUS
<1>1. TypeOK
  BY EmptyTableType, StoreAssumption DEF Init, TypeOK, NoTables, Currents
<1>2. RangeInv
  BY DEF Init, RangeInv, Running, MetaConsistent, AllocatesInRange, IdleClient
<1> QED BY <1>1, <1>2 DEF TypeInv

\* So does every step from a state that does.
LEMMA TypeInvNext == TypeInv /\ [Next]_vars => TypeInv'
<1> SUFFICES ASSUME TypeInv, [Next]_vars PROVE TypeInv'
  OBVIOUS
<1> USE DEF TypeInv
<1>1. ASSUME NEW cfg \in Configs, FakeIPMetadata(cfg) PROVE TypeInv'
  BY <1>1 DEF FakeIPMetadata, TypeOK, RangeInv, Running, AllocatesInRange, MetaConsistent, IdleClient
<1>2. CASE Start
  <2>1. CASE loaded # NoMeta /\ loaded.range = range
    BY <1>2, <2>1, ZenonT(30) DEF Start, TypeOK, RangeInv, Running, AllocatesInRange, MetaConsistent, Metadata, Consistent, IdleClient
  <2>2. CASE ~(loaded # NoMeta /\ loaded.range = range)
    <3>1. \A f \in Family : range[f] # NoRange => range[f] \in Range
      BY StoreAssumption DEF TypeOK
    <3>2. /\ \A f \in Family : range[f] # NoRange => range[f].lo + 2 \in range[f].lo + 2 .. range[f].hi
          /\ \A f \in Family : range[f] # NoRange => range[f].lo + 2 \in Index
      BY <3>1, TableAssumption DEF Range, Index
    <3>3. current' \in Currents /\ Consistent(range', current')
      BY <1>2, <2>2, <3>2 DEF Start, Currents, Consistent
    <3>4. TypeOK'
      BY <1>2, <2>2, <3>3, EmptyTableType DEF Start, TypeOK, FakeIPReset, NoTables
    <3>5. RangeInv'
      BY <1>2, <2>2, <3>3 DEF Start, RangeInv, Running, AllocatesInRange, MetaConsistent, IdleClient, FakeIPReset
    <3> QED BY <3>4, <3>5
  <2> QED BY <2>1, <2>2
<1>3. ASSUME NEW c \in Client, NEW f \in Family, NEW d \in Domain, CreateLoad(c, f, d)
      PROVE  TypeInv'
  <2>1. TypeOK'
    BY <1>3 DEF CreateLoad, TypeOK, Table
  <2>2. RangeInv'
    BY <1>3, ZenonT(30) DEF CreateLoad, TypeOK, RangeInv, Running, AllocatesInRange, MetaConsistent
  <2> QED BY <2>1, <2>2
<1>4. ASSUME NEW c \in Client, CreateView(c) PROVE TypeInv'
  <2>1. client[c] \in [st : {"view", "next"}, f : Family, d : Domain]
    BY <1>4 DEF CreateView, TypeOK, IdleClient
  <2>2. TypeOK'
    <3>1. db.tables[client[c].f].dom[client[c].d] # NoAddr =>
            db.tables[client[c].f].dom[client[c].d] \in Index
      BY <2>1 DEF TypeOK, Table
    <3>2. client' \in [Client -> ClientType]
      <4>1. \E x \in ClientType : client' = [client EXCEPT ![c] = x]
        BY <1>4, <2>1, <3>1, ZenonT(30) DEF CreateView, ClientType
      <4>2. client \in [Client -> ClientType]
        BY ZenonT(30) DEF TypeOK, ClientType
      <4> QED BY <4>1, <4>2
    <3> QED BY <1>4, <3>2, ZenonT(30) DEF CreateView, TypeOK, ClientType
  <2>3. RangeInv'
    BY <1>4, ZenonT(30) DEF CreateView, TypeOK, RangeInv, Running, AllocatesInRange, MetaConsistent
  <2> QED BY <2>2, <2>3
<1>5. ASSUME NEW c \in Client, CreateNext(c) PROVE TypeInv'
  <2>1. client[c] \in [st : {"view", "next"}, f : Family, d : Domain]
    BY <1>5 DEF CreateNext, TypeOK, IdleClient
  <2> DEFINE f == client[c].f
  <2>2. current[f] # NoAddr =>
          /\ range[f] # NoRange
          /\ NextAddress(range[f], current[f]) \in range[f].lo + 2 .. range[f].hi
          /\ NextAddress(range[f], current[f]) \in Index
    BY <1>5, <2>1, NextAddressRange, StoreAssumption
       DEF CreateNext, TypeOK, RangeInv, Consistent
  <2>3. TypeOK'
    BY <1>5, <2>1, <2>2, ZenonT(30) DEF CreateNext, TypeOK
  <2>4. RangeInv'
    BY <1>5, <2>1, <2>2, ZenonT(30)
       DEF CreateNext, TypeOK, RangeInv, Running, AllocatesInRange, MetaConsistent, IdleClient
  <2> QED BY <2>3, <2>4
<1>6. ASSUME NEW c \in Client, NEW w \in Worker, CreateStore(c, w) PROVE TypeInv'
  <2>1. client[c] \in [st : {"store", "done"}, f : Family, d : Domain, i : Index]
    BY <1>6 DEF CreateStore, TypeOK, IdleClient
  <2> DEFINE m == [range |-> range, current |-> current']
  <2>2. current' \in Currents
    BY <1>6, <2>1 DEF CreateStore, TypeOK, Currents
  <2>3. Consistent(range, current')
    BY <1>6, <2>1, ZenonT(30) DEF CreateStore, TypeOK, RangeInv, Consistent, AllocatesInRange, Currents
  <2>4. m \in Metadata /\ MetaConsistent(m) /\ m # NoMeta
    BY <2>2, <2>3, MetaAssumption DEF Metadata, MetaConsistent, TypeOK
  <2>5. timer' \in [armed : BOOLEAN, meta : Metadata \cup {NoMeta}] /\ MetaConsistent(timer'.meta)
        /\ timer'.meta # NoMeta
    <3>. HIDE DEF m
    <3>1. timer' = [armed |-> TRUE, meta |-> IF timer.meta = NoMeta THEN m ELSE timer.meta]
      BY <1>6 DEF CreateStore, FakeIPSaveMetadataAsync, m
    <3> QED BY <3>1, <2>4 DEF TypeOK, RangeInv
  <2>6. save' \in [Family -> Table]
    BY <1>6, <2>1, PutType DEF CreateStore, TypeOK
  <2>7. TypeOK'
    BY <1>6, <2>1, <2>2, <2>5, <2>6 DEF CreateStore, TypeOK
  <2>8. RangeInv'
    BY <1>6, <2>1, <2>3, <2>5, ZenonT(30)
       DEF CreateStore, TypeOK, RangeInv, Running, AllocatesInRange, MetaConsistent
  <2> QED BY <2>7, <2>8
<1>7. ASSUME NEW w \in Worker, WorkerCommit(w) PROVE TypeInv'
  <2>1. worker[w] \in [st : {"commit", "finish"}, f : Family, d : Domain, i : Index]
    BY <1>7 DEF WorkerCommit, TypeOK, IdleWorker
  <2>2. FakeIPStoreTx(w) \in [tables : [Family -> Table], meta : Metadata \cup {NoMeta},
                              buckets : SUBSET Bucket]
    BY <2>1, PutType, ZenonT(30) DEF FakeIPStoreTx, TypeOK, Bucket
  <2>3. db' \in {FakeIPStoreTx(w), db}
    BY <1>7 DEF WorkerCommit
  <2>4. TypeOK'
    BY <1>7, <2>1, <2>2, <2>3 DEF WorkerCommit, TypeOK
  <2>5. db'.meta = db.meta
    BY <2>3, ZenonT(30) DEF FakeIPStoreTx, TypeOK
  <2>6. RangeInv'
    BY <1>7, <2>5 DEF WorkerCommit, RangeInv, Running, AllocatesInRange, MetaConsistent
  <2> QED BY <2>4, <2>6
<1>8. ASSUME NEW w \in Worker, WorkerFinish(w) PROVE TypeInv'
  <2>1. worker[w] \in [st : {"commit", "finish"}, f : Family, d : Domain, i : Index]
    BY <1>8 DEF WorkerFinish, TypeOK, IdleWorker
  <2>2. save' \in [Family -> Table]
    BY <1>8, <2>1, DropType DEF WorkerFinish, TypeOK
  <2>3. TypeOK'
    BY <1>8, <2>1, <2>2 DEF WorkerFinish, TypeOK
  <2>4. RangeInv'
    BY <1>8 DEF WorkerFinish, RangeInv, Running, AllocatesInRange, MetaConsistent
  <2> QED BY <2>3, <2>4
<1>9. CASE TimerFire
  <2>1. timer.meta \in Metadata
    BY <1>9 DEF TimerFire, TypeOK, RangeInv
  <2>2. TypeOK'
    BY <1>9, <2>1, DbOps, ZenonT(30) DEF TimerFire, TypeOK
  <2>3. RangeInv'
    BY <1>9, <2>1, DbOps
       DEF TimerFire, TypeOK, RangeInv, Running, AllocatesInRange, MetaConsistent
  <2> QED BY <2>2, <2>3
<1>10. CASE Flush
  <2>1. /\ db' \in [tables : [Family -> Table], meta : Metadata \cup {NoMeta},
                    buckets : SUBSET Bucket]
        /\ db'.meta \in {db.meta, NoMeta}
    BY <1>10, EmptyTableType DEF Flush, FakeIPReset, TypeOK, NoTables, Bucket
  <2> QED BY <1>10, <2>1
          DEF Flush, TypeOK, RangeInv, Running, AllocatesInRange, MetaConsistent
<1>11. CASE Close
  <2> DEFINE m == [range |-> range, current |-> current]
  <2>1. m \in Metadata /\ MetaConsistent(m)
    BY <1>11 DEF Close, Metadata, MetaConsistent, TypeOK, RangeInv, Running
  <2>2. TypeOK'
    BY <1>11, <2>1, DbOps DEF Close, TypeOK
  <2>3. RangeInv'
    BY <1>11, <2>1, DbOps DEF Close, RangeInv, Running, AllocatesInRange, MetaConsistent
  <2> QED BY <2>2, <2>3
<1>12. CASE Exit \/ Crash
  <2>1. TypeOK'
    <3>1. /\ phase' = "down" /\ range' = range /\ db' = db
          /\ Volatile
      BY <1>12 DEF Exit, Crash
    <3>2. current' \in Currents /\ save' \in [Family -> Table]
      BY <3>1, EmptyTableType DEF Volatile, NoTables, Currents
    <3> QED BY <3>1, <3>2 DEF Volatile, TypeOK
  <2>2. RangeInv'
    <3>1. /\ ~Running' /\ db' = db /\ client' = [c \in Client |-> IdleClient]
          /\ loaded' = NoMeta /\ timer' = [armed |-> FALSE, meta |-> NoMeta]
      BY <1>12 DEF Exit, Crash, Volatile, Running
    <3>2. AllocatesInRange'
      BY <3>1 DEF AllocatesInRange, IdleClient
    <3> QED BY <3>1, <3>2 DEF RangeInv, MetaConsistent
  <2> QED BY <2>1, <2>2
<1>13. CASE UNCHANGED vars
  BY <1>13 DEF vars, TypeOK, RangeInv, Running, AllocatesInRange, MetaConsistent
<1> QED BY <1>1, <1>2, <1>3, <1>4, <1>5, <1>6, <1>7, <1>8, <1>9, <1>10, <1>11, <1>12, <1>13
        DEF Next

\* Every variable keeps its type, whatever the environment does.
THEOREM TypeCorrect == Spec => []TypeOK
<1>1. TypeInv => TypeOK BY DEF TypeInv
<1> QED BY TypeInvInit, TypeInvNext, <1>1, PTL DEF Spec

\* Create never allocates outside the usable part of the range configured now:
\* not after a crash, not from a stale metadata record, not after a restart
\* with another range.
THEOREM AllocationRange == Spec => []AllocatesInRange
<1>1. TypeInv => AllocatesInRange BY DEF TypeInv, RangeInv
<1> QED BY TypeInvInit, TypeInvNext, <1>1, PTL DEF Spec

----------------------------------------------------------------------------
(* The database.  Only three steps write the tables: a commit, a reset and *)
(* the reset at start.                                                      *)

\* A reset leaves the tables as they are or empty.
LEMMA ResetResolves ==
  ASSUME DatabaseResolves
  PROVE  \A f \in Family : Resolves(FakeIPReset(db).tables[f])
BY EmptyTableType DEF DatabaseResolves, FakeIPReset, NoTables

\* Every step keeps the two directions of the stored table together.
LEMMA DatabaseNext == TypeInv /\ DatabaseResolves /\ [Next]_vars => DatabaseResolves'
<1> SUFFICES ASSUME TypeInv, DatabaseResolves, [Next]_vars PROVE DatabaseResolves'
  OBVIOUS
<1>1. CASE db'.tables = db.tables
  BY <1>1 DEF DatabaseResolves
<1>2. CASE db' = FakeIPReset(db)
  BY <1>2, ResetResolves DEF DatabaseResolves
<1>3. ASSUME NEW w \in Worker, WorkerCommit(w) PROVE DatabaseResolves'
  <2>1. worker[w] \in [st : {"commit", "finish"}, f : Family, d : Domain, i : Index]
    BY <1>3 DEF WorkerCommit, TypeInv, TypeOK, IdleWorker
  <2>2. \A f \in Family : Resolves(FakeIPStoreTx(w).tables[f])
    <3> SUFFICES ASSUME NEW f \in Family PROVE Resolves(FakeIPStoreTx(w).tables[f])
      OBVIOUS
    <3>1. FakeIPStoreTx(w).tables =
            [db.tables EXCEPT ![worker[w].f] = Put(@, worker[w].i, worker[w].d)]
      BY <2>1 DEF FakeIPStoreTx, TypeInv, TypeOK
    <3>2. db.tables \in [Family -> Table] /\ Resolves(db.tables[f])
      BY DEF TypeInv, TypeOK, DatabaseResolves
    <3> QED BY <2>1, <3>1, <3>2, PutResolves
  <2>3. db' \in {FakeIPStoreTx(w), db}
    BY <1>3 DEF WorkerCommit
  <2> QED BY <2>2, <2>3 DEF DatabaseResolves
<1>4. ASSUME NEW cfg \in Configs, FakeIPMetadata(cfg) PROVE db'.tables = db.tables
  BY <1>4 DEF FakeIPMetadata, TypeInv, TypeOK
<1>5. CASE TimerFire \/ Close
  BY <1>1, <1>5, ZenonT(30) DEF TimerFire, Close, FakeIPSaveMetadata, TypeInv, TypeOK
<1>6. CASE Start \/ Flush
  BY <1>1, <1>2, <1>6 DEF Start, Flush
<1>7. ASSUME NEW c \in Client,
             \/ \E f \in Family, d \in Domain : CreateLoad(c, f, d)
             \/ CreateView(c)
             \/ CreateNext(c)
             \/ \E w \in Worker : CreateStore(c, w)
      PROVE  DatabaseResolves'
  BY <1>1, <1>7, ZenonT(30) DEF CreateLoad, CreateView, CreateNext, CreateStore
<1>8. ASSUME NEW w \in Worker, WorkerFinish(w) PROVE DatabaseResolves'
  BY <1>1, <1>8 DEF WorkerFinish
<1>9. CASE Exit \/ Crash \/ UNCHANGED vars
  BY <1>1, <1>9 DEF Exit, Crash, vars
<1> QED BY <1>1, <1>3, <1>4, <1>5, <1>6, <1>7, <1>8, <1>9 DEF Next

\* The two buckets of a family never drift apart: not when goroutines commit
\* out of order, not when a transaction fails, not when the process dies, not
\* when a reset is rolled back.
THEOREM DatabaseAlwaysResolves == Spec => []DatabaseResolves
<1>1. Init => DatabaseResolves
  BY EmptyTableType DEF Init, DatabaseResolves, NoTables
<1> QED BY TypeInvInit, TypeInvNext, <1>1, DatabaseNext, PTL DEF Spec

----------------------------------------------------------------------------
(* The maps of unsaved mappings. *)

\* Every step leaves each unsaved entry with a goroutine.
LEMMA PendingNext == TypeInv /\ PendingOwned /\ [Next]_vars => PendingOwned'
<1> SUFFICES ASSUME TypeInv, PendingOwned, [Next]_vars PROVE PendingOwned'
  OBVIOUS
<1>1. CASE UNCHANGED <<save, worker>>
  BY <1>1 DEF PendingOwned, FreeWorker
<1>2. ASSUME NEW c \in Client, NEW w \in Worker, CreateStore(c, w) PROVE PendingOwned'
  <2> DEFINE g == client[c].f
             j == client[c].i
             e == client[c].d
  <2>1. client[c] \in [st : {"store", "done"}, f : Family, d : Domain, i : Index]
    BY <1>2 DEF CreateStore, TypeInv, TypeOK, IdleClient
  <2>2. /\ save' = [save EXCEPT ![g] = Put(@, j, e)]
        /\ worker' = [worker EXCEPT ![w] = [st |-> "commit", f |-> g, d |-> e, i |-> j]]
        /\ worker[w] = IdleWorker
    BY <1>2 DEF CreateStore, FreeWorker
  <2>3. save \in [Family -> Table] /\ worker \in [Worker -> WorkerType]
    BY DEF TypeInv, TypeOK, WorkerType
  <2>4. \A v \in Worker : worker[v] # IdleWorker => worker'[v] = worker[v]
    BY <2>2, <2>3
  <2>5. worker'[w] = [st |-> "commit", f |-> g, d |-> e, i |-> j] /\ worker'[w] # IdleWorker
    BY <2>2, <2>3 DEF IdleWorker
  <2>6. ASSUME NEW f \in Family, NEW i \in Index, save'[f].addr[i] # NoDomain
        PROVE  \E v \in Worker : worker'[v] # IdleWorker /\ worker'[v].f = f /\ worker'[v].i = i
    <3>1. CASE f = g /\ i = j
      BY <2>5, <3>1
    <3>2. CASE ~(f = g /\ i = j)
      <4>1. save'[f].addr[i] = save[f].addr[i]
        BY <2>1, <2>2, <2>3, <3>2, ZenonT(30) DEF Put, Table
      <4> QED BY <2>4, <2>6, <4>1 DEF PendingOwned, FreeWorker
    <3> QED BY <3>1, <3>2
  <2>7. ASSUME NEW f \in Family, NEW d \in Domain, save'[f].dom[d] # NoAddr
        PROVE  \E v \in Worker : /\ worker'[v] # IdleWorker /\ worker'[v].f = f
                                 /\ worker'[v].d = d /\ worker'[v].i = save'[f].dom[d]
    <3>1. CASE f = g /\ d = e
      <4>1. save'[f].dom[d] = j
        BY <2>1, <2>2, <2>3, <3>1, ZenonT(30) DEF Put, Table
      <4> QED BY <2>5, <3>1, <4>1
    <3>2. CASE ~(f = g /\ d = e)
      <4>1. save'[f].dom[d] = save[f].dom[d]
        BY <2>1, <2>2, <2>3, <2>7, <3>2, ZenonT(30) DEF Put, Table
      <4> QED BY <2>4, <2>7, <4>1 DEF PendingOwned, FreeWorker
    <3> QED BY <3>1, <3>2
  <2> QED BY <2>6, <2>7 DEF PendingOwned, FreeWorker
<1>3. ASSUME NEW w \in Worker, WorkerCommit(w) PROVE PendingOwned'
  <2>1. worker[w] \in [st : {"commit", "finish"}, f : Family, d : Domain, i : Index]
    BY <1>3 DEF WorkerCommit, TypeInv, TypeOK, IdleWorker
  <2>2. \A v \in Worker : /\ worker[v] # IdleWorker => worker'[v] # IdleWorker
                          /\ worker[v] # IdleWorker => /\ worker'[v].f = worker[v].f
                                                       /\ worker'[v].d = worker[v].d
                                                       /\ worker'[v].i = worker[v].i
    BY <1>3, <2>1 DEF WorkerCommit, TypeInv, TypeOK, IdleWorker
  <2>3. save' = save
    BY <1>3 DEF WorkerCommit
  <2> QED BY <2>2, <2>3 DEF PendingOwned, FreeWorker
<1>4. ASSUME NEW w \in Worker, WorkerFinish(w) PROVE PendingOwned'
  <2>1. worker[w] \in [st : {"commit", "finish"}, f : Family, d : Domain, i : Index]
    BY <1>4 DEF WorkerFinish, TypeInv, TypeOK, IdleWorker
  <2>2. /\ save' = [save EXCEPT ![worker[w].f] = Drop(@, worker[w].i, worker[w].d)]
        /\ worker' = [worker EXCEPT ![w] = IdleWorker]
    BY <1>4 DEF WorkerFinish
  <2>3. save \in [Family -> Table] /\ worker \in [Worker -> WorkerType]
    BY DEF TypeInv, TypeOK, WorkerType
  <2>4. \A v \in Worker : v # w => worker'[v] = worker[v]
    BY <2>2, <2>3
  <2>5. ASSUME NEW f \in Family, NEW i \in Index, save'[f].addr[i] # NoDomain
        PROVE  \E v \in Worker : worker'[v] # IdleWorker /\ worker'[v].f = f /\ worker'[v].i = i
    <3>1. save[f].addr[i] # NoDomain /\ ~(f = worker[w].f /\ i = worker[w].i)
      BY <2>1, <2>2, <2>3, <2>5 DEF Drop, Table
    <3> QED BY <2>4, <3>1 DEF PendingOwned, FreeWorker
  <2>6. ASSUME NEW f \in Family, NEW d \in Domain, save'[f].dom[d] # NoAddr
        PROVE  \E v \in Worker : /\ worker'[v] # IdleWorker /\ worker'[v].f = f
                                 /\ worker'[v].d = d /\ worker'[v].i = save'[f].dom[d]
    <3>1. save'[f].dom[d] = save[f].dom[d] /\ ~(f = worker[w].f /\ d = worker[w].d)
      BY <2>1, <2>2, <2>3, <2>6 DEF Drop, Table
    <3> QED BY <2>4, <2>6, <3>1 DEF PendingOwned, FreeWorker
  <2> QED BY <2>5, <2>6 DEF PendingOwned, FreeWorker
<1>5. CASE Exit \/ Crash
  <2>1. save' = NoTables
    BY <1>5 DEF Exit, Crash, Volatile
  <2> QED BY <2>1 DEF PendingOwned, NoTables, EmptyTable
<1> QED BY <1>1, <1>2, <1>3, <1>4, <1>5, ZenonT(30)
        DEF Next, FakeIPMetadata, Start, CreateLoad, CreateView, CreateNext,
            TimerFire, Flush, Close, vars

\* No entry of the maps is left without the goroutine that removes it.
THEOREM PendingAlwaysOwned == Spec => []PendingOwned
<1>1. Init => PendingOwned
  BY DEF Init, PendingOwned, NoTables, EmptyTable
<1> QED BY TypeInvInit, TypeInvNext, <1>1, PendingNext, PTL DEF Spec

----------------------------------------------------------------------------
(* The contract.  It rests on the timing assumption that an address is not *)
(* handed out again while it is being saved, and on a database that does   *)
(* not fail and is not flushed under the goroutines.                       *)

Assumptions == ~WrapInFlight /\ ~MayFlush /\ ~MayFail

\* At most one goroutine per address; the maps still hold the mapping it saves,
\* and once it has committed so does the database.
FlightInv ==
  /\ ~Running => save = NoTables /\ worker = [w \in Worker |-> IdleWorker]
  /\ \A w \in Worker : ~FreeWorker(w) =>
       /\ save[worker[w].f].addr[worker[w].i] = worker[w].d
       /\ worker[w].st = "finish" =>
            db.tables[worker[w].f].addr[worker[w].i] = worker[w].d
       /\ \A v \in Worker : ~FreeWorker(v) /\ v # w =>
            ~(worker[v].f = worker[w].f /\ worker[v].i = worker[w].i)

\* Put and Drop change the address direction at one address only.
LEMMA PutDropAddr ==
  ASSUME NEW t \in Table, NEW i \in Index, NEW d \in Domain, NEW j \in Index
  PROVE  /\ Put(t, i, d).addr[j] = IF j = i THEN d ELSE t.addr[j]
         /\ Drop(t, i, d).addr[j] = IF j = i THEN NoDomain ELSE t.addr[j]
BY DEF Put, Drop, Table

PutAt(T, g, j, e) == [T EXCEPT ![g] = Put(@, j, e)]

DropAt(T, g, j, e) == [T EXCEPT ![g] = Drop(@, j, e)]

\* Among the tables of the families only that address of that family changes.
LEMMA PutAtAddr ==
  ASSUME NEW T \in [Family -> Table], NEW g \in Family, NEW j \in Index, NEW e \in Domain
  PROVE  \A f \in Family, i \in Index :
           PutAt(T, g, j, e)[f].addr[i] = IF f = g /\ i = j THEN e ELSE T[f].addr[i]
<1> SUFFICES ASSUME NEW f \in Family, NEW i \in Index
             PROVE  PutAt(T, g, j, e)[f].addr[i] = IF f = g /\ i = j THEN e ELSE T[f].addr[i]
  OBVIOUS
<1>1. CASE f = g
  BY <1>1, PutDropAddr DEF PutAt
<1>2. CASE f # g
  BY <1>2 DEF PutAt
<1> QED BY <1>1, <1>2, ZenonT(30)

\* So it is when a mapping is removed.
LEMMA DropAtAddr ==
  ASSUME NEW T \in [Family -> Table], NEW g \in Family, NEW j \in Index, NEW e \in Domain
  PROVE  \A f \in Family, i \in Index :
           DropAt(T, g, j, e)[f].addr[i] = IF f = g /\ i = j THEN NoDomain ELSE T[f].addr[i]
<1> SUFFICES ASSUME NEW f \in Family, NEW i \in Index
             PROVE  DropAt(T, g, j, e)[f].addr[i] =
                      IF f = g /\ i = j THEN NoDomain ELSE T[f].addr[i]
  OBVIOUS
<1>1. CASE f = g
  BY <1>1, PutDropAddr DEF DropAt
<1>2. CASE f # g
  BY <1>2 DEF DropAt
<1> QED BY <1>1, <1>2, ZenonT(30)

\* Every step keeps at most one goroutine per address.
LEMMA FlightNext ==
  ASSUME Assumptions, TypeInv, FlightInv, [Next]_vars
  PROVE  FlightInv'
<1> DEFINE Busy == [st : {"commit", "finish"}, f : Family, d : Domain, i : Index]
<1>0. /\ save \in [Family -> Table]
      /\ worker \in [Worker -> WorkerType]
      /\ db.tables \in [Family -> Table]
      /\ \A w \in Worker : ~FreeWorker(w) <=> worker[w] \in Busy
  BY DEF TypeInv, TypeOK, WorkerType, FreeWorker, IdleWorker
<1>00. \A w \in Worker : ~FreeWorker(w) =>
          worker[w].f \in Family /\ worker[w].i \in Index /\ worker[w].d \in Domain
  BY <1>0
<1>1. ASSUME UNCHANGED <<save, worker>>, Running' <=> Running, db'.tables = db.tables
      PROVE  FlightInv'
  BY <1>1, ZenonT(30) DEF FlightInv, FreeWorker
<1>2. ASSUME NEW cfg \in Configs, FakeIPMetadata(cfg) PROVE FlightInv'
  <2>1. db'.tables = db.tables
    BY <1>2 DEF FakeIPMetadata, TypeInv, TypeOK
  <2> QED BY <1>1, <1>2, <2>1 DEF FakeIPMetadata, Running
<1>3. CASE Start
  <2>1. \A w \in Worker : FreeWorker(w)
    BY <1>3 DEF Start, FlightInv, Running, FreeWorker
  <2> QED BY <1>3, <2>1, ZenonT(30) DEF Start, FlightInv, Running, FreeWorker
<1>4. ASSUME NEW c \in Client,
             \/ \E f \in Family, d \in Domain : CreateLoad(c, f, d)
             \/ CreateView(c)
             \/ CreateNext(c)
      PROVE  FlightInv'
  BY <1>1, <1>4, ZenonT(30) DEF CreateLoad, CreateView, CreateNext, Running
<1>5. ASSUME NEW c \in Client, NEW w \in Worker, CreateStore(c, w) PROVE FlightInv'
  <2> DEFINE g == client[c].f
             j == client[c].i
             e == client[c].d
  <2>1. client[c] \in [st : {"store", "done"}, f : Family, d : Domain, i : Index]
    BY <1>5 DEF CreateStore, TypeInv, TypeOK, IdleClient
  <2>2. /\ save' = PutAt(save, g, j, e)
        /\ worker' = [worker EXCEPT ![w] = [st |-> "commit", f |-> g, d |-> e, i |-> j]]
        /\ FreeWorker(w) /\ ~InFlight(g, j)
        /\ db' = db /\ Running /\ Running'
    BY <1>5 DEF CreateStore, Assumptions, Running, PutAt
  <2>3. \A v \in Worker \ {w} : /\ worker'[v] = worker[v]
                                /\ ~FreeWorker(v) => ~(worker[v].f = g /\ worker[v].i = j)
    BY <2>2, <1>0 DEF InFlight
  <2>4. worker'[w] = [st |-> "commit", f |-> g, d |-> e, i |-> j]
    BY <2>2, <1>0
  <2>5. /\ g \in Family /\ j \in Index
        /\ \A f \in Family, i \in Index :
             save'[f].addr[i] = IF f = g /\ i = j THEN e ELSE save[f].addr[i]
    <3>1. g \in Family /\ j \in Index /\ e \in Domain
      BY <2>1
    <3> QED BY <2>2, <3>1, <1>0, PutAtAddr
  <2>6. \A v \in Worker \ {w} : ~FreeWorker(v) =>
          save'[worker[v].f].addr[worker[v].i] = save[worker[v].f].addr[worker[v].i]
    BY <2>3, <2>5, <1>00, ZenonT(30)
  <2>7. \A v \in Worker \ {w} : ~FreeWorker(v)' => ~FreeWorker(v)
    BY <2>3 DEF FreeWorker
  <2>8. ASSUME NEW v \in Worker, ~FreeWorker(v)'
        PROVE  /\ save'[worker'[v].f].addr[worker'[v].i] = worker'[v].d
               /\ worker'[v].st = "finish" =>
                    db'.tables[worker'[v].f].addr[worker'[v].i] = worker'[v].d
               /\ \A u \in Worker : ~FreeWorker(u)' /\ u # v =>
                    ~(worker'[u].f = worker'[v].f /\ worker'[u].i = worker'[v].i)
    <3>1. CASE v = w
      BY <2>3, <2>4, <2>5, <2>7, <3>1
    <3>2. CASE v # w
      <4>1. ~FreeWorker(v) /\ worker'[v] = worker[v] /\ db' = db
        BY <2>2, <2>3, <2>7, <2>8, <3>2
      <4>2. /\ save[worker[v].f].addr[worker[v].i] = worker[v].d
            /\ worker[v].st = "finish" =>
                 db.tables[worker[v].f].addr[worker[v].i] = worker[v].d
            /\ \A u \in Worker : ~FreeWorker(u) /\ u # v =>
                 ~(worker[u].f = worker[v].f /\ worker[u].i = worker[v].i)
        BY <4>1, ZenonT(30) DEF FlightInv
      <4>3. save'[worker'[v].f].addr[worker'[v].i] = worker'[v].d
        BY <2>6, <3>2, <4>1, <4>2, ZenonT(30)
      <4>4. ASSUME NEW u \in Worker, ~FreeWorker(u)', u # v
            PROVE  ~(worker'[u].f = worker'[v].f /\ worker'[u].i = worker'[v].i)
        <5>1. CASE u = w
          BY <2>3, <2>4, <3>2, <4>1, <5>1
        <5>2. CASE u # w
          BY <2>3, <2>7, <4>1, <4>2, <4>4, <5>2, ZenonT(30)
        <5> QED BY <5>1, <5>2
      <4> QED BY <4>1, <4>2, <4>3, <4>4, ZenonT(30)
    <3> QED BY <3>1, <3>2, ZenonT(30)
  <2> QED BY <2>2, <2>8, ZenonT(30) DEF FlightInv
<1>6. ASSUME NEW w \in Worker, WorkerCommit(w) PROVE FlightInv'
  <2>1. worker[w] \in Busy
    BY <1>6, <1>0 DEF WorkerCommit, FreeWorker, IdleWorker
  <2>2. /\ worker' = [worker EXCEPT ![w].st = "finish"]
        /\ db' = FakeIPStoreTx(w) /\ save' = save /\ Running' = Running /\ Running
    BY <1>6 DEF WorkerCommit, Assumptions, Running
  <2>3. db'.tables = PutAt(db.tables, worker[w].f, worker[w].i, worker[w].d)
    BY <2>1, <2>2 DEF FakeIPStoreTx, TypeInv, TypeOK, PutAt
  <2>4. /\ ~FreeWorker(w)
        /\ \A f \in Family, i \in Index :
             db'.tables[f].addr[i] = IF f = worker[w].f /\ i = worker[w].i THEN worker[w].d
                                     ELSE db.tables[f].addr[i]
    <3>1. ~FreeWorker(w)
      BY <2>1, <1>0, ZenonT(30)
    <3>2. /\ worker[w].f \in Family /\ worker[w].i \in Index /\ worker[w].d \in Domain
          /\ db.tables \in [Family -> Table]
      BY <3>1, <1>00, <1>0, ZenonT(30)
    <3> QED BY <2>3, <3>1, <3>2, PutAtAddr
  <2>5. \A v \in Worker \ {w} : ~FreeWorker(v) =>
          db'.tables[worker[v].f].addr[worker[v].i] = db.tables[worker[v].f].addr[worker[v].i]
    BY <2>4, <1>00, ZenonT(30) DEF FlightInv
  <2>6. /\ \A v \in Worker \ {w} : worker'[v] = worker[v]
        /\ worker'[w].f = worker[w].f /\ worker'[w].i = worker[w].i
        /\ worker'[w].d = worker[w].d
    BY <2>1, <2>2, <1>0
  <2>7. \A v \in Worker : ~FreeWorker(v)' => ~FreeWorker(v)
    BY <2>1, <2>6, <1>0 DEF FreeWorker
  <2>8. ASSUME NEW v \in Worker, ~FreeWorker(v)'
        PROVE  /\ save'[worker'[v].f].addr[worker'[v].i] = worker'[v].d
               /\ worker'[v].st = "finish" =>
                    db'.tables[worker'[v].f].addr[worker'[v].i] = worker'[v].d
               /\ \A u \in Worker : ~FreeWorker(u)' /\ u # v =>
                    ~(worker'[u].f = worker'[v].f /\ worker'[u].i = worker'[v].i)
    <3>1. /\ save[worker[v].f].addr[worker[v].i] = worker[v].d
          /\ \A u \in Worker : ~FreeWorker(u) /\ u # v =>
               ~(worker[u].f = worker[v].f /\ worker[u].i = worker[v].i)
      BY <2>7, <2>8, ZenonT(30) DEF FlightInv
    <3>2. \A u \in Worker : /\ worker'[u].f = worker[u].f
                            /\ worker'[u].i = worker[u].i /\ worker'[u].d = worker[u].d
      BY <2>6
    <3>3. CASE v = w
      <4>1. db'.tables[worker[w].f].addr[worker[w].i] = worker[w].d
        BY <2>4, <1>00, ZenonT(30)
      <4> QED BY <2>2, <2>7, <3>1, <3>2, <3>3, <4>1, ZenonT(30)
    <3>4. CASE v # w
      <4>1. ~FreeWorker(v) /\ worker'[v] = worker[v] /\ save' = save
        BY <2>2, <2>6, <2>7, <2>8, <3>4, ZenonT(30)
      <4>2. worker[v].st = "finish" =>
              db.tables[worker[v].f].addr[worker[v].i] = worker[v].d
        BY <4>1, ZenonT(30) DEF FlightInv
      <4>3. worker'[v].st = "finish" =>
              db'.tables[worker'[v].f].addr[worker'[v].i] = worker'[v].d
        BY <2>5, <3>4, <4>1, <4>2, ZenonT(30)
      <4>4. \A u \in Worker : ~FreeWorker(u)' /\ u # v =>
              ~(worker'[u].f = worker'[v].f /\ worker'[u].i = worker'[v].i)
        BY <2>7, <3>1, <3>2, ZenonT(30)
      <4> QED BY <3>1, <4>1, <4>3, <4>4, ZenonT(30)
    <3> QED BY <3>3, <3>4, ZenonT(30)
  <2> QED BY <2>2, <2>8, ZenonT(30) DEF FlightInv
<1>7. ASSUME NEW w \in Worker, WorkerFinish(w) PROVE FlightInv'
  <2>1. worker[w] \in Busy
    BY <1>7, <1>0 DEF WorkerFinish, FreeWorker, IdleWorker
  <2>2. /\ save' = DropAt(save, worker[w].f, worker[w].i, worker[w].d)
        /\ worker' = [worker EXCEPT ![w] = IdleWorker]
        /\ db' = db /\ Running /\ Running'
    BY <1>7 DEF WorkerFinish, Running, DropAt
  <2>3. \A v \in Worker \ {w} : ~FreeWorker(v) =>
          save'[worker[v].f].addr[worker[v].i] = save[worker[v].f].addr[worker[v].i]
    <3>1. ~FreeWorker(w)
      BY <2>1, <1>0, ZenonT(30)
    <3>2. \A f \in Family, i \in Index :
            save'[f].addr[i] = IF f = worker[w].f /\ i = worker[w].i THEN NoDomain
                               ELSE save[f].addr[i]
      BY <2>2, <3>1, <1>00, <1>0, DropAtAddr
    <3> QED BY <3>1, <3>2, <1>00, ZenonT(30) DEF FlightInv
  <2>4. worker'[w] = IdleWorker /\ \A v \in Worker \ {w} : worker'[v] = worker[v]
    BY <2>2, <1>0
  <2>5. ASSUME NEW v \in Worker, ~FreeWorker(v)'
        PROVE  v # w /\ ~FreeWorker(v) /\ worker'[v] = worker[v]
    BY <2>4, <2>5, ZenonT(30) DEF FreeWorker
  <2>6. ASSUME NEW v \in Worker, ~FreeWorker(v)'
        PROVE  /\ save'[worker'[v].f].addr[worker'[v].i] = worker'[v].d
               /\ worker'[v].st = "finish" =>
                    db'.tables[worker'[v].f].addr[worker'[v].i] = worker'[v].d
               /\ \A u \in Worker : ~FreeWorker(u)' /\ u # v =>
                    ~(worker'[u].f = worker'[v].f /\ worker'[u].i = worker'[v].i)
    <3>1. /\ save[worker[v].f].addr[worker[v].i] = worker[v].d
          /\ worker[v].st = "finish" =>
               db.tables[worker[v].f].addr[worker[v].i] = worker[v].d
          /\ \A u \in Worker : ~FreeWorker(u) /\ u # v =>
               ~(worker[u].f = worker[v].f /\ worker[u].i = worker[v].i)
      BY <2>5, <2>6, ZenonT(30) DEF FlightInv
    <3>2. save'[worker[v].f].addr[worker[v].i] = save[worker[v].f].addr[worker[v].i]
      BY <2>3, <2>5, <2>6, ZenonT(30)
    <3> QED BY <2>2, <2>5, <2>6, <3>1, <3>2, ZenonT(30)
  <2> QED BY <2>2, <2>6, ZenonT(30) DEF FlightInv
<1>8. CASE TimerFire \/ Close
  <2>1. db'.tables = db.tables
    BY <1>8, ZenonT(30) DEF TimerFire, Close, FakeIPSaveMetadata, TypeInv, TypeOK
  <2>2. UNCHANGED <<save, worker>> /\ (Running' <=> Running)
    BY <1>8 DEF TimerFire, Close, Running
  <2> QED BY <1>1, <2>1, <2>2
<1>9. CASE Flush
  BY <1>9 DEF Flush, Assumptions
<1>10. CASE Exit \/ Crash
  <2>1. save' = NoTables /\ worker' = [w \in Worker |-> IdleWorker]
    BY <1>10 DEF Exit, Crash, Volatile
  <2>2. \A w \in Worker : FreeWorker(w)'
    BY <2>1 DEF FreeWorker
  <2> QED BY <2>1, <2>2 DEF FlightInv
<1>11. CASE UNCHANGED vars
  BY <1>1, <1>11 DEF vars, Running
<1> QED BY <1>2, <1>3, <1>4, <1>5, <1>6, <1>7, <1>8, <1>9, <1>10, <1>11 DEF Next

\* An address of the contract is a family and an offset.
LEMMA AddressParts ==
  ASSUME NEW a \in Addresses
  PROVE  /\ a[1] \in Family /\ a[2] \in Index
         /\ \A g \in Family, j \in Index : a = <<g, j>> <=> a[1] = g /\ a[2] = j
BY DEF Addresses

\* Every step of the store is a step of the contract or leaves it as it is.
LEMMA ContractNext ==
  ASSUME Assumptions, TypeInv, FlightInv, [Next]_vars
  PROVE  [Contract!Next]_<<LookupMap, DurableMap>>
<1>0. /\ save \in [Family -> Table] /\ db.tables \in [Family -> Table]
      /\ TypeOK'
  BY TypeInvNext DEF TypeInv, TypeOK
<1>1. ASSUME save' = save, db'.tables = db.tables
      PROVE  UNCHANGED <<LookupMap, DurableMap>>
  BY <1>1 DEF LookupMap, DurableMap, FakeIPLoad
<1>2. ASSUME NEW cfg \in Configs, FakeIPMetadata(cfg) PROVE UNCHANGED <<LookupMap, DurableMap>>
  BY <1>1, <1>2 DEF FakeIPMetadata, TypeInv, TypeOK
<1>3. CASE Start
  <2>1. save = NoTables /\ save' = save
    BY <1>3 DEF Start, FlightInv, Running
  <2>2. LookupMap = DurableMap
    BY <2>1, AddressParts DEF LookupMap, DurableMap, FakeIPLoad, NoTables, EmptyTable
  <2>3. CASE db'.tables = db.tables
    BY <1>1, <2>1, <2>3
  <2>4. CASE db'.tables = NoTables
    <3>1. DurableMap' = Contract!Nothing /\ LookupMap' = Contract!Nothing
      BY <2>1, <2>4 DEF LookupMap, DurableMap, FakeIPLoad, NoTables, EmptyTable,
                        Contract!Nothing, Addresses
    <3> QED BY <2>2, <3>1 DEF Contract!Next, Contract!Reset
  <2> QED BY <1>3, <2>3, <2>4 DEF Start, FakeIPReset
<1>4. ASSUME NEW c \in Client,
             \/ \E f \in Family, d \in Domain : CreateLoad(c, f, d)
             \/ CreateView(c)
             \/ CreateNext(c)
      PROVE  UNCHANGED <<LookupMap, DurableMap>>
  BY <1>1, <1>4, ZenonT(30) DEF CreateLoad, CreateView, CreateNext
<1>5. ASSUME NEW c \in Client, NEW w \in Worker, CreateStore(c, w)
      PROVE  Contract!Next
  <2> DEFINE g == client[c].f
             j == client[c].i
             e == client[c].d
  <2>1. client[c] \in [st : {"store", "done"}, f : Family, d : Domain, i : Index]
    BY <1>5 DEF CreateStore, TypeInv, TypeOK, IdleClient
  <2>2. save' = PutAt(save, g, j, e) /\ db' = db
    BY <1>5 DEF CreateStore, PutAt
  <2>3. \A f \in Family, i \in Index :
          save'[f].addr[i] = IF f = g /\ i = j THEN e ELSE save[f].addr[i]
    <3>1. g \in Family /\ j \in Index /\ e \in Domain
      BY <2>1
    <3> QED BY <2>2, <3>1, <1>0, PutAtAddr
  <2>4. LookupMap' = [LookupMap EXCEPT ![<<g, j>>] = e]
    <3>1. ASSUME NEW a \in Addresses
          PROVE  FakeIPLoad(a[1], a[2])' = IF a = <<g, j>> THEN e ELSE FakeIPLoad(a[1], a[2])
      <4>1. /\ a[1] \in Family /\ a[2] \in Index
            /\ a = <<g, j>> <=> a[1] = g /\ a[2] = j
        BY <2>1, AddressParts
      <4>2. e # NoDomain
        BY <2>1, TableAssumption
      <4>3. save'[a[1]].addr[a[2]] = IF a = <<g, j>> THEN e ELSE save[a[1]].addr[a[2]]
        BY <2>3, <4>1, ZenonT(30)
      <4>4. CASE a = <<g, j>>
        BY <4>2, <4>3, <4>4, ZenonT(30) DEF FakeIPLoad
      <4>5. CASE a # <<g, j>>
        <5>1. save'[a[1]].addr[a[2]] = save[a[1]].addr[a[2]]
          BY <4>3, <4>5, ZenonT(30)
        <5> QED BY <2>2, <4>5, <5>1, ZenonT(30) DEF FakeIPLoad
      <4> QED BY <4>4, <4>5, ZenonT(30)
    <3> QED BY <3>1, ZenonT(30) DEF LookupMap
  <2>5. DurableMap' = DurableMap
    BY <2>2 DEF DurableMap
  <2>6. <<g, j>> \in Addresses /\ e \in Domain
    BY <2>1 DEF Addresses
  <2> QED BY <2>4, <2>5, <2>6, ZenonT(30) DEF Contract!Next, Contract!Assign
<1>6. ASSUME NEW w \in Worker, WorkerCommit(w) PROVE Contract!Next
  <2> DEFINE g == worker[w].f
             j == worker[w].i
             e == worker[w].d
  <2>1. worker[w] \in [st : {"commit", "finish"}, f : Family, d : Domain, i : Index]
    BY <1>6 DEF WorkerCommit, TypeInv, TypeOK, IdleWorker
  <2>2. db' = FakeIPStoreTx(w) /\ save' = save
    BY <1>6 DEF WorkerCommit, Assumptions
  <2>3. db'.tables = PutAt(db.tables, g, j, e)
    BY <2>1, <2>2 DEF FakeIPStoreTx, TypeInv, TypeOK, PutAt
  <2>4. \A f \in Family, i \in Index :
          db'.tables[f].addr[i] = IF f = g /\ i = j THEN e ELSE db.tables[f].addr[i]
    <3>1. g \in Family /\ j \in Index /\ e \in Domain
      BY <2>1
    <3> QED BY <2>3, <3>1, <1>0, PutAtAddr
  <2>5. save[g].addr[j] = e /\ e # NoDomain
    BY <1>6, <2>1, TableAssumption DEF FlightInv, WorkerCommit, FreeWorker, IdleWorker
  <2>6. <<g, j>> \in Addresses /\ LookupMap[<<g, j>>] = e
    BY <2>1, <2>5, ZenonT(30) DEF Addresses, LookupMap, FakeIPLoad
  <2>7. LookupMap' = LookupMap
    <3>1. ASSUME NEW a \in Addresses PROVE FakeIPLoad(a[1], a[2])' = FakeIPLoad(a[1], a[2])
      <4>1. a[1] \in Family /\ a[2] \in Index
        BY AddressParts
      <4>2. CASE a[1] = g /\ a[2] = j
        BY <2>2, <2>5, <4>2, ZenonT(30) DEF FakeIPLoad
      <4>3. CASE ~(a[1] = g /\ a[2] = j)
        <5>1. db'.tables[a[1]].addr[a[2]] = db.tables[a[1]].addr[a[2]]
          BY <2>4, <4>1, <4>3, ZenonT(30)
        <5> QED BY <2>2, <5>1, ZenonT(30) DEF FakeIPLoad
      <4> QED BY <4>2, <4>3, ZenonT(30)
    <3> QED BY <3>1, ZenonT(30) DEF LookupMap
  <2>8. DurableMap' = [DurableMap EXCEPT ![<<g, j>>] = LookupMap[<<g, j>>]]
    <3>1. ASSUME NEW a \in Addresses
          PROVE  db'.tables[a[1]].addr[a[2]] =
                   IF a = <<g, j>> THEN LookupMap[<<g, j>>] ELSE db.tables[a[1]].addr[a[2]]
      BY <2>1, <2>4, <2>6, AddressParts
    <3> QED BY <3>1, ZenonT(30) DEF DurableMap
  <2> QED BY <2>5, <2>6, <2>7, <2>8, ZenonT(30) DEF Contract!Next, Contract!Persist
<1>7. ASSUME NEW w \in Worker, WorkerFinish(w) PROVE UNCHANGED <<LookupMap, DurableMap>>
  <2> DEFINE g == worker[w].f
             j == worker[w].i
             e == worker[w].d
  <2>1. worker[w] \in [st : {"commit", "finish"}, f : Family, d : Domain, i : Index]
    BY <1>7 DEF WorkerFinish, TypeInv, TypeOK, IdleWorker
  <2>2. save' = DropAt(save, g, j, e) /\ db' = db
    BY <1>7 DEF WorkerFinish, DropAt
  <2>3. \A f \in Family, i \in Index :
          save'[f].addr[i] = IF f = g /\ i = j THEN NoDomain ELSE save[f].addr[i]
    <3>1. g \in Family /\ j \in Index /\ e \in Domain
      BY <2>1
    <3> QED BY <2>2, <3>1, <1>0, DropAtAddr
  <2>4. save[g].addr[j] = e /\ db.tables[g].addr[j] = e
    BY <1>7, <2>1 DEF FlightInv, WorkerFinish, FreeWorker, IdleWorker
  <2>5. ASSUME NEW a \in Addresses
        PROVE  FakeIPLoad(a[1], a[2])' = FakeIPLoad(a[1], a[2])
    <3>1. a[1] \in Family /\ a[2] \in Index
      BY AddressParts
    <3>2. CASE a[1] = g /\ a[2] = j
      <4>1. e # NoDomain /\ save'[g].addr[j] = NoDomain
        BY <2>1, <2>3, TableAssumption
      <4> QED BY <2>2, <2>4, <3>2, <4>1, ZenonT(30) DEF FakeIPLoad
    <3>3. CASE ~(a[1] = g /\ a[2] = j)
      <4>1. save'[a[1]].addr[a[2]] = save[a[1]].addr[a[2]]
        BY <2>3, <3>1, <3>3
      <4> QED BY <2>2, <4>1, ZenonT(30) DEF FakeIPLoad
    <3> QED BY <3>2, <3>3
  <2> QED BY <2>2, <2>5 DEF LookupMap, DurableMap
<1>8. CASE TimerFire \/ Close
  BY <1>1, <1>8, ZenonT(30) DEF TimerFire, Close, FakeIPSaveMetadata, TypeInv, TypeOK
<1>9. CASE Exit \/ Crash
  <2>1. save' = NoTables /\ db' = db
    BY <1>9 DEF Exit, Crash, Volatile
  <2>2. LookupMap' = DurableMap /\ DurableMap' = DurableMap
    BY <2>1 DEF LookupMap, DurableMap, FakeIPLoad, NoTables, EmptyTable, Addresses
  <2> QED BY <2>2 DEF Contract!Next, Contract!Restart
<1>10. CASE UNCHANGED vars
  BY <1>1, <1>10 DEF vars
<1> QED BY <1>2, <1>3, <1>4, <1>5, <1>6, <1>7, <1>8, <1>9, <1>10 DEF Next, Flush, Assumptions

\* Under the assumptions the cache file implements the contract: Lookup answers
\* the domain assigned last to an address, only that domain is made durable,
\* and the end of the process, clean or not, falls back to what is durable.
THEOREM ImplementsContract == Assumptions => (Spec => ContractSpec)
<1> SUFFICES ASSUME Assumptions PROVE Spec => ContractSpec
  OBVIOUS
<1>1. Init => FlightInv
  BY DEF Init, FlightInv, FreeWorker
<1>2. Init => Contract!Init
  BY DEF Init, Contract!Init, Contract!Nothing, LookupMap, DurableMap, FakeIPLoad,
         NoTables, EmptyTable, Addresses
<1>3. TypeInv /\ FlightInv /\ [Next]_vars => FlightInv'
  BY FlightNext
<1>4. TypeInv /\ FlightInv /\ [Next]_vars => [Contract!Next]_<<LookupMap, DurableMap>>
  BY ContractNext
<1> QED BY TypeInvInit, TypeInvNext, <1>1, <1>2, <1>3, <1>4, PTL
        DEF Spec, ContractSpec, Contract!Spec

\* Whatever fails or crashes between them, the saves keep the two buckets of the store each other's inverse and
\* leave no pending mapping without the goroutine that writes it.
THEOREM StoreAlwaysSound == Spec => []StoreSound
<1>1. TypeOK /\ DatabaseResolves /\ PendingOwned => StoreSound
  BY DEF StoreSound
<1> QED BY <1>1, TypeCorrect, DatabaseAlwaysResolves, PendingAlwaysOwned, PTL
=============================================================================
