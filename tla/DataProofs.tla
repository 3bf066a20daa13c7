----------------------------- MODULE DataProofs -----------------------------
(* Proofs about the data path: the connections that outbounds and DNS        *)
(* transports share, for any number of users, of connections made and of     *)
(* network changes; and the dialers, for any callers, names and addresses,   *)
(* goroutines of a concurrent dial and tracked connections.                  *)
EXTENDS Sessions, Dialers, FiniteSetTheorems, TLAPS

(* A leaf that names no prover goes to Zenon, for ten seconds, then to SMT.  *)
USE ZenonT(10), SMTT(20)

-----------------------------------------------------------------------------
(* SSH. *)

SshFields == {"client", "conn", "lock", "alive", "waits", "made", "updates", "pc", "got"}

\* The lock is held while a client is made, and then there is none; a client
\* has a goroutine that waits for its end.
SshInv ==
  /\ DOMAIN seSsh = SshFields
  /\ seSsh.made \in 0..SeMax /\ seSsh.client \in 0..SeMax
  /\ seSsh.pc \in [SeUsers -> {"idle", "lock", "connect", "dial"}]
  /\ seSsh.lock \in SeUsers \cup {Free}
  /\ \A u \in SeUsers : seSsh.pc[u] = "connect" <=> seSsh.lock = u
  /\ seSsh.lock # Free => seSsh.client = Nil
  /\ Nil \notin seSsh.alive /\ OneClient

\* At the start there is no client.
LEMMA SshStart == ASSUME SeInit PROVE SshInv
<1>1. seSsh = NoSsh
  BY DEF SeInit, SeStart
<1> QED BY <1>1, SeAssumption DEF NoSsh, SshInv, SshFields, OneClient, Nil, Free

\* What a step leaves alone, and the fields it writes.
SshKeeps(names) == DOMAIN seSsh' = SshFields /\ \A x \in SshFields \ names : seSsh'[x] = seSsh[x]

\* A user who does not hold the lock goes on.
LEMMA SshIdle ==
  ASSUME SshInv, NEW u \in SeUsers, NEW r, Ssh(r), DOMAIN r \subseteq {"pc", "got"}, "pc" \in DOMAIN r,
         NEW s \in {"idle", "lock", "dial"}, r["pc"] = SshPc(u, s), seSsh.pc[u] # "connect"
  PROVE  SshInv'
<1>1. /\ SshKeeps({"pc", "got"}) /\ seSsh'.pc = r["pc"]
  BY DEF Ssh, SshInv, SshFields, SshKeeps
<1>2. seSsh'.pc \in [SeUsers -> {"idle", "lock", "connect", "dial"}]
  BY <1>1 DEF SshInv, SshPc
<1>3. \A w \in SeUsers : seSsh'.pc[w] = IF w = u THEN s ELSE seSsh.pc[w]
  BY <1>1 DEF SshInv, SshPc
<1>4. /\ seSsh'.client = seSsh.client /\ seSsh'.conn = seSsh.conn /\ seSsh'.lock = seSsh.lock
      /\ seSsh'.alive = seSsh.alive /\ seSsh'.waits = seSsh.waits /\ seSsh'.made = seSsh.made
  BY <1>1 DEF SshKeeps, SshFields
<1>5. OneClient'
  BY <1>4 DEF SshInv, OneClient
<1> QED BY <1>1, <1>2, <1>3, <1>4, <1>5 DEF SshInv, SshKeeps


\* A user looks at the client, without the lock and with it, or dials with it.
LEMMA SshLook ==
  ASSUME SshInv, NEW u \in SeUsers, connect(u) \/ connectLocked(u) \/ SshDial(u)
  PROVE  SshInv'
<1>1. CASE connect(u)
  <2>1. seSsh.pc[u] # "connect"
    BY <1>1 DEF connect, SshAt
  <2>2. CASE Ssh([got |-> SshHas(u), pc |-> SshPc(u, "dial")])
    BY <2>1, <2>2, SshIdle
  <2>3. CASE Ssh([pc |-> SshPc(u, "lock")])
    BY <2>1, <2>3, SshIdle
  <2> QED BY <1>1, <2>2, <2>3 DEF connect
<1>2. CASE connectLocked(u)
  <2>1. seSsh.pc[u] = "lock" /\ seSsh.lock = Free
    BY <1>2 DEF connectLocked, SshAt
  <2>2. CASE Ssh([got |-> SshHas(u), pc |-> SshPc(u, "dial")])
    BY <2>1, <2>2, SshIdle
  <2>3. CASE seSsh.client = Nil /\ Ssh([lock |-> u, pc |-> SshPc(u, "connect")])
    <3>1. /\ SshKeeps({"pc", "lock"}) /\ seSsh'.lock = u /\ seSsh'.pc = SshPc(u, "connect")
      BY <2>3 DEF Ssh, SshInv, SshFields, SshKeeps
    <3>2. /\ seSsh'.client = seSsh.client /\ seSsh'.conn = seSsh.conn
          /\ seSsh'.alive = seSsh.alive /\ seSsh'.waits = seSsh.waits /\ seSsh'.made = seSsh.made
      BY <3>1 DEF SshKeeps, SshFields
    <3>3. /\ seSsh'.pc \in [SeUsers -> {"idle", "lock", "connect", "dial"}]
          /\ \A w \in SeUsers : seSsh'.pc[w] = IF w = u THEN "connect" ELSE seSsh.pc[w]
      BY <3>1 DEF SshInv, SshPc
    <3>4. OneClient'
      BY <3>2 DEF SshInv, OneClient
    <3>5. \A w \in SeUsers : seSsh.pc[w] # "connect"
      BY <2>1, SeAssumption DEF SshInv, Free
    <3> QED BY <2>3, <3>1, <3>2, <3>3, <3>4, <3>5 DEF SshInv, SshKeeps
  <2> QED BY <1>2, <2>2, <2>3 DEF connectLocked
<1>3. CASE SshDial(u)
  <2>1. seSsh.pc[u] # "connect" /\ Ssh([pc |-> SshPc(u, "idle"), got |-> [seSsh.got EXCEPT ![u] = Nil]])
    BY <1>3 DEF SshDial, SshAt
  <2> QED BY <2>1, SshIdle
<1> QED BY <1>1, <1>2, <1>3

\* The user who holds the lock has connected, or failed to.
LEMMA SshConnected ==
  ASSUME SshInv, NEW u \in SeUsers, connectDone(u)
  PROVE  SshInv'
<1>1. /\ seSsh.pc[u] = "connect" /\ seSsh.lock = u /\ seSsh.client = Nil /\ seSsh.lock # Free
      /\ \A w \in SeUsers : seSsh.pc[w] = "connect" => w = u
  BY SeAssumption DEF connectDone, SshAt, SshInv, Free
<1>2. CASE Ssh([lock |-> Free, pc |-> SshPc(u, "idle")])
  <2>1. SshKeeps({"pc", "lock"}) /\ seSsh'.lock = Free /\ seSsh'.pc = SshPc(u, "idle")
    BY <1>2 DEF Ssh, SshInv, SshFields, SshKeeps
  <2>2. /\ seSsh'.client = seSsh.client /\ seSsh'.conn = seSsh.conn
        /\ seSsh'.alive = seSsh.alive /\ seSsh'.waits = seSsh.waits /\ seSsh'.made = seSsh.made
    BY <2>1 DEF SshKeeps, SshFields
  <2>3. /\ seSsh'.pc \in [SeUsers -> {"idle", "lock", "connect", "dial"}]
        /\ \A w \in SeUsers : seSsh'.pc[w] = IF w = u THEN "idle" ELSE seSsh.pc[w]
    BY <2>1 DEF SshInv, SshPc
  <2>4. OneClient'
    BY <2>2 DEF SshInv, OneClient
  <2> QED BY <1>1, <2>1, <2>2, <2>3, <2>4, SeAssumption DEF SshInv, SshKeeps, Free
<1>3. CASE seSsh.made < SeMax
           /\ LET id == seSsh.made + 1 IN
              Ssh([made |-> id, client |-> id, conn |-> id, alive |-> seSsh.alive \cup {id},
                   waits |-> seSsh.waits \cup {id}, lock |-> Free,
                   got |-> [seSsh.got EXCEPT ![u] = id], pc |-> SshPc(u, "dial")])
  <2> DEFINE id == seSsh.made + 1
  <2>1. /\ DOMAIN seSsh' = SshFields /\ seSsh'.lock = Free /\ seSsh'.pc = SshPc(u, "dial")
        /\ seSsh'.made = id /\ seSsh'.client = id /\ seSsh'.conn = id
        /\ seSsh'.alive = seSsh.alive \cup {id} /\ seSsh'.waits = seSsh.waits \cup {id}
    BY <1>3 DEF Ssh, SshInv, SshFields
  <2>2. id \in 1..SeMax
    BY <1>3, SeAssumption DEF SshInv
  <2>3. /\ seSsh'.pc \in [SeUsers -> {"idle", "lock", "connect", "dial"}]
        /\ \A w \in SeUsers : seSsh'.pc[w] = IF w = u THEN "dial" ELSE seSsh.pc[w]
    BY <2>1 DEF SshInv, SshPc
  <2>4. seSsh.alive = {} /\ seSsh.waits = {}
    BY <1>1 DEF SshInv, OneClient
  <2>5. OneClient'
    BY <2>1, <2>2, <2>4 DEF OneClient, Nil
  <2> QED BY <1>1, <2>1, <2>2, <2>3, <2>5, SeAssumption DEF SshInv, Free, Nil
<1> QED BY <1>2, <1>3 DEF connectDone

\* The connection is closed, and its goroutine forgets the client.
LEMMA SshGone ==
  ASSUME SshInv, InterfaceUpdated \/ \E id \in 1..SeMax : SshWait(id)
  PROVE  SshInv'
<1>1. CASE InterfaceUpdated
  <2>1. /\ SshKeeps({"alive", "updates"}) /\ seSsh'.alive = seSsh.alive \ {seSsh.conn}
    BY <1>1 DEF InterfaceUpdated, Ssh, SshInv, SshFields, SshKeeps
  <2>2. /\ seSsh'.client = seSsh.client /\ seSsh'.conn = seSsh.conn /\ seSsh'.lock = seSsh.lock
        /\ seSsh'.pc = seSsh.pc /\ seSsh'.waits = seSsh.waits /\ seSsh'.made = seSsh.made
    BY <2>1 DEF SshKeeps, SshFields
  <2> QED BY <2>1, <2>2 DEF SshInv, OneClient, SshKeeps
<1>2. ASSUME NEW id \in 1..SeMax, SshWait(id) PROVE SshInv'
  <2>1. /\ id \in seSsh.waits \ seSsh.alive /\ seSsh.lock = Free
        /\ SshKeeps({"waits", "client", "conn"}) /\ seSsh'.waits = seSsh.waits \ {id}
        /\ seSsh'.client = Nil /\ seSsh'.conn = Nil
    BY <1>2 DEF SshWait, Ssh, SshInv, SshFields, SshKeeps
  <2>2. /\ seSsh'.lock = seSsh.lock /\ seSsh'.pc = seSsh.pc /\ seSsh'.alive = seSsh.alive /\ seSsh'.made = seSsh.made
    BY <2>1 DEF SshKeeps, SshFields
  <2>3. seSsh.alive = {} /\ seSsh'.waits = {}
    BY <2>1 DEF SshInv, OneClient
  <2> QED BY <2>1, <2>2, <2>3, SeAssumption DEF SshInv, OneClient, SshKeeps, Nil
<1> QED BY <1>1, <1>2

-----------------------------------------------------------------------------
(* The socket of a WireGuard bind. *)

BindFields == {"done", "conn", "open", "lock", "made", "cycle", "resets", "pc", "use"}

\* The lock is held while a socket is made, and then none is open; done is
\* closed from the moment Close begins.
BindInv ==
  /\ DOMAIN seBind = BindFields
  /\ seBind.made \in 0..SeMax /\ seBind.conn \in 0..SeMax
  /\ seBind.cycle \in {"open", "closing", "closed"}
  /\ seBind.pc \in [SeUsers -> {"idle", "lock", "socket", "use"}]
  /\ seBind.lock \in SeUsers \cup {Free}
  /\ \A u \in SeUsers : seBind.pc[u] = "socket" <=> seBind.lock = u
  /\ seBind.open \subseteq {seBind.conn} \ {Nil}
  /\ seBind.lock # Free => seBind.open = {}
  /\ seBind.cycle # "open" => seBind.done
  /\ seBind.cycle = "closed" => seBind.lock = Free /\ seBind.open = {}
BindKeeps(names) == DOMAIN seBind' = BindFields /\ \A x \in BindFields \ names : seBind'[x] = seBind[x]

\* At the start there is no socket.
LEMMA BindStart == ASSUME SeInit PROVE BindInv
<1>1. seBind = NoBind
  BY DEF SeInit, SeStart
<1> QED BY <1>1, SeAssumption DEF NoBind, BindInv, BindFields, Nil, Free

\* A user goes on without the lock.
LEMMA BindIdle ==
  ASSUME BindInv, NEW u \in SeUsers, NEW r, Wg(r), DOMAIN r \subseteq {"pc", "use", "open"}, "pc" \in DOMAIN r,
         NEW s \in {"idle", "lock", "use"}, r["pc"] = WgPc(u, s), seBind.pc[u] # "socket",
         "open" \in DOMAIN r => r["open"] \subseteq seBind.open
  PROVE  BindInv'
<1>1. /\ BindKeeps({"pc", "use", "open"}) /\ seBind'.pc = r["pc"] /\ seBind'.open \subseteq seBind.open
  BY DEF Wg, BindInv, BindFields, BindKeeps
<1>2. /\ seBind'.pc \in [SeUsers -> {"idle", "lock", "socket", "use"}]
      /\ \A w \in SeUsers : seBind'.pc[w] = IF w = u THEN s ELSE seBind.pc[w]
  BY <1>1 DEF BindInv, WgPc
<1>3. /\ seBind'.done = seBind.done /\ seBind'.conn = seBind.conn /\ seBind'.lock = seBind.lock
      /\ seBind'.made = seBind.made /\ seBind'.cycle = seBind.cycle
  BY <1>1 DEF BindKeeps, BindFields
<1> QED BY <1>1, <1>2, <1>3 DEF BindInv, BindKeeps

\* A user takes the socket, or the lock to make one, or is done with it.
LEMMA BindUse ==
  ASSUME BindInv, NEW u \in SeUsers, wgConnect(u) \/ wgConnectLocked(u) \/ Receive(u)
  PROVE  BindInv'
<1>1. CASE wgConnect(u)
  <2>1. seBind.pc[u] # "socket"
    BY <1>1 DEF wgConnect, WgAt
  <2>2. CASE WgUse(u, seBind.conn)
    BY <2>1, <2>2, BindIdle DEF WgUse
  <2>3. CASE Wg([pc |-> WgPc(u, "lock")])
    BY <2>1, <2>3, BindIdle
  <2> QED BY <1>1, <2>2, <2>3 DEF wgConnect
<1>2. CASE wgConnectLocked(u)
  <2>1. seBind.pc[u] = "lock" /\ seBind.lock = Free
    BY <1>2 DEF wgConnectLocked, WgAt
  <2>2. CASE WgUse(u, seBind.conn)
    BY <2>1, <2>2, BindIdle DEF WgUse
  <2>3. CASE Wg([pc |-> WgPc(u, "idle")])
    BY <2>1, <2>3, BindIdle
  <2>4. CASE ~seBind.done /\ ~WgAlive /\ Wg([lock |-> u, pc |-> WgPc(u, "socket")])
    <3>1. BindKeeps({"pc", "lock"}) /\ seBind'.lock = u /\ seBind'.pc = WgPc(u, "socket")
      BY <2>4 DEF Wg, BindInv, BindFields, BindKeeps
    <3>2. /\ seBind'.done = seBind.done /\ seBind'.conn = seBind.conn /\ seBind'.open = seBind.open
          /\ seBind'.made = seBind.made /\ seBind'.cycle = seBind.cycle
      BY <3>1 DEF BindKeeps, BindFields
    <3>3. /\ seBind'.pc \in [SeUsers -> {"idle", "lock", "socket", "use"}]
          /\ \A w \in SeUsers : seBind'.pc[w] = IF w = u THEN "socket" ELSE seBind.pc[w]
      BY <3>1 DEF BindInv, WgPc
    <3>4. \A w \in SeUsers : seBind.pc[w] # "socket"
      BY <2>1, SeAssumption DEF BindInv, Free
    <3>5. seBind.open = {} /\ seBind.cycle = "open"
      BY <2>4 DEF WgAlive, BindInv
    <3> QED BY <3>1, <3>2, <3>3, <3>4, <3>5 DEF BindInv, BindKeeps
  <2> QED BY <1>2, <2>2, <2>3, <2>4 DEF wgConnectLocked
<1>3. CASE Receive(u)
  <2>1. seBind.pc[u] # "socket"
    BY <1>3 DEF Receive, WgAt
  <2>2. CASE Wg([pc |-> WgPc(u, "idle")])
    BY <2>1, <2>2, BindIdle
  <2>3. CASE Wg([pc |-> WgPc(u, "idle"), open |-> seBind.open \ {seBind.use[u]}])
    BY <2>1, <2>3, BindIdle
  <2> QED BY <1>3, <2>2, <2>3 DEF Receive
<1> QED BY <1>1, <1>2, <1>3

\* The user who holds the lock has made a socket, or failed to.
LEMMA BindMade ==
  ASSUME BindInv, NEW u \in SeUsers, wgConnectDone(u)
  PROVE  BindInv'
<1>1. /\ seBind.pc[u] = "socket" /\ seBind.lock = u /\ seBind.lock # Free
      /\ seBind.open = {} /\ seBind.cycle # "closed"
      /\ \A w \in SeUsers : seBind.pc[w] = "socket" => w = u
  BY SeAssumption DEF wgConnectDone, WgAt, BindInv, Free
<1>2. CASE Wg([lock |-> Free, pc |-> WgPc(u, "idle")])
  <2>1. BindKeeps({"pc", "lock"}) /\ seBind'.lock = Free /\ seBind'.pc = WgPc(u, "idle")
    BY <1>2 DEF Wg, BindInv, BindFields, BindKeeps
  <2>2. /\ seBind'.done = seBind.done /\ seBind'.conn = seBind.conn /\ seBind'.open = seBind.open
        /\ seBind'.made = seBind.made /\ seBind'.cycle = seBind.cycle
    BY <2>1 DEF BindKeeps, BindFields
  <2>3. /\ seBind'.pc \in [SeUsers -> {"idle", "lock", "socket", "use"}]
        /\ \A w \in SeUsers : seBind'.pc[w] = IF w = u THEN "idle" ELSE seBind.pc[w]
    BY <2>1 DEF BindInv, WgPc
  <2> QED BY <1>1, <2>1, <2>2, <2>3, SeAssumption DEF BindInv, BindKeeps, Free
<1>3. CASE seBind.made < SeMax
           /\ LET id == seBind.made + 1 IN
              Wg([made |-> id, conn |-> id, open |-> seBind.open \cup {id}, lock |-> Free,
                  pc |-> WgPc(u, "use"), use |-> [seBind.use EXCEPT ![u] = id]])
  <2> DEFINE id == seBind.made + 1
  <2>1. /\ DOMAIN seBind' = BindFields /\ seBind'.lock = Free /\ seBind'.pc = WgPc(u, "use")
        /\ seBind'.made = id /\ seBind'.conn = id /\ seBind'.open = seBind.open \cup {id}
        /\ seBind'.done = seBind.done /\ seBind'.cycle = seBind.cycle
    BY <1>3 DEF Wg, BindInv, BindFields
  <2>2. id \in 1..SeMax
    BY <1>3, SeAssumption DEF BindInv
  <2>3. /\ seBind'.pc \in [SeUsers -> {"idle", "lock", "socket", "use"}]
        /\ \A w \in SeUsers : seBind'.pc[w] = IF w = u THEN "use" ELSE seBind.pc[w]
    BY <2>1 DEF BindInv, WgPc
  <2>4. seBind'.open \subseteq {seBind'.conn} \ {Nil}
    BY <1>1, <2>1, <2>2 DEF Nil
  <2> QED BY <1>1, <2>1, <2>2, <2>3, <2>4, SeAssumption DEF BindInv, Free, Nil
<1> QED BY <1>2, <1>3 DEF wgConnectDone

\* Close and Open of the bind.
LEMMA BindCycle ==
  ASSUME BindInv, BindClose \/ Open
  PROVE  BindInv'
<1>1. CASE Wg([cycle |-> "closing", done |-> TRUE, resets |-> seBind.resets + 1])
  <2>1. /\ BindKeeps({"cycle", "done", "resets"}) /\ seBind'.cycle = "closing" /\ seBind'.done = TRUE
    BY <1>1 DEF Wg, BindInv, BindFields, BindKeeps
  <2>2. /\ seBind'.conn = seBind.conn /\ seBind'.lock = seBind.lock /\ seBind'.open = seBind.open
        /\ seBind'.made = seBind.made /\ seBind'.pc = seBind.pc
    BY <2>1 DEF BindKeeps, BindFields
  <2> QED BY <2>1, <2>2 DEF BindInv, BindKeeps
<1>2. CASE seBind.cycle = "closing" /\ seBind.lock = Free
           /\ Wg([cycle |-> "closed", open |-> seBind.open \ {seBind.conn}])
  <2>1. /\ BindKeeps({"cycle", "open"}) /\ seBind'.cycle = "closed" /\ seBind'.open = seBind.open \ {seBind.conn}
    BY <1>2 DEF Wg, BindInv, BindFields, BindKeeps
  <2>2. /\ seBind'.conn = seBind.conn /\ seBind'.lock = seBind.lock /\ seBind'.done = seBind.done
        /\ seBind'.made = seBind.made /\ seBind'.pc = seBind.pc
    BY <2>1 DEF BindKeeps, BindFields
  <2>3. seBind'.open = {}
    BY <2>1 DEF BindInv
  <2> QED BY <1>2, <2>1, <2>2, <2>3 DEF BindInv, BindKeeps
<1>3. CASE Open
  <2>0. Wg([cycle |-> "open", done |-> FALSE])
    BY <1>3 DEF Open
  <2>1. /\ BindKeeps({"cycle", "done"}) /\ seBind'.cycle = "open"
    BY <2>0 DEF Wg, BindInv, BindFields, BindKeeps
  <2>2. /\ seBind'.conn = seBind.conn /\ seBind'.lock = seBind.lock /\ seBind'.open = seBind.open
        /\ seBind'.made = seBind.made /\ seBind'.pc = seBind.pc
    BY <2>1 DEF BindKeeps, BindFields
  <2> QED BY <2>1, <2>2 DEF BindInv, BindKeeps
<1> QED BY <1>1, <1>2, <1>3 DEF BindClose

-----------------------------------------------------------------------------
(* The upstreams of the DHCP transport. *)

DhcpFields == {"iface", "ups", "of", "open", "made", "fresh", "missed", "overlap", "fetch"}
Callers == {"query", "update"}

\* Unless two fetches met, one at most is under way, for the interface that is
\* the default, and replaces the upstreams in force.
AloneInv ==
  /\ ~(Busy("query") /\ Busy("update"))
  /\ \A f \in Callers : Busy(f) => seDhcp.fetch[f].iface = seDhcp.iface
  /\ \A f \in Callers : seDhcp.fetch[f].pc = "swap" => seDhcp.fetch[f].old = seDhcp.ups
  /\ seDhcp.open \subseteq {seDhcp.ups} \cup {seDhcp.fetch[f].new : f \in Callers}
  /\ ~seDhcp.missed /\ ~Busy("update") /\ seDhcp.ups # Nil => seDhcp.of = seDhcp.iface
Fetched == [Callers -> [pc : {"none", "offer", "swap"}, iface : 0..SeMax,
                        old : 0..(SeMax + 2), new : 0..(SeMax + 2)]]
DhcpInv ==
  /\ DOMAIN seDhcp = DhcpFields
  /\ seDhcp.iface \in 0..SeMax /\ seDhcp.of \in 0..SeMax
  /\ seDhcp.ups \in 0..(SeMax + 2) /\ seDhcp.made \in 0..(SeMax + 2)
  /\ seDhcp.overlap \in BOOLEAN /\ seDhcp.missed \in BOOLEAN /\ seDhcp.fetch \in Fetched
  /\ \A f \in Callers : seDhcp.fetch[f].pc # "swap" => seDhcp.fetch[f].new = Nil
  /\ Nil \notin seDhcp.open
  /\ ~seDhcp.overlap => AloneInv
DhcpKeeps(names) == DOMAIN seDhcp' = DhcpFields /\ \A x \in DhcpFields \ names : seDhcp'[x] = seDhcp[x]

\* At the start there are no upstreams.
LEMMA DhcpStart == ASSUME SeInit PROVE DhcpInv
<1>1. seDhcp = NoDhcp
  BY DEF SeInit, SeStart
<1> QED BY <1>1, SeAssumption DEF NoDhcp, NoFetch, DhcpInv, DhcpFields, Callers, Busy, AloneInv, Fetched, Nil

\* A fetch begins, for a query or after a change of the interface.
LEMMA DhcpBegin ==
  ASSUME DhcpInv, fetchServers \/ interfaceUpdated
  PROVE  DhcpInv'
<1>1. CASE fetchServers
  <2>1. /\ DhcpKeeps({"fetch", "overlap"}) /\ ~Busy("query")
        /\ seDhcp'.overlap = (seDhcp.overlap \/ Busy("update"))
        /\ seDhcp'.fetch = Fetch("query", [pc |-> "offer", iface |-> seDhcp.iface])
    BY <1>1 DEF fetchServers, Dhcp, DhcpInv, DhcpFields, DhcpKeeps
  <2>2. /\ seDhcp'.iface = seDhcp.iface /\ seDhcp'.of = seDhcp.of /\ seDhcp'.ups = seDhcp.ups
        /\ seDhcp'.made = seDhcp.made /\ seDhcp'.missed = seDhcp.missed /\ seDhcp'.open = seDhcp.open
    BY <2>1 DEF DhcpKeeps, DhcpFields
  <2> DEFINE g == [pc |-> "offer", iface |-> seDhcp.iface, old |-> seDhcp.fetch["query"].old,
                   new |-> seDhcp.fetch["query"].new]
  <2>3. /\ seDhcp'.fetch = [f \in Callers |-> IF f = "query" THEN g ELSE seDhcp.fetch[f]]
    BY <2>1 DEF DhcpInv, Fetched, Fetch, Callers
  <2>4. g.new = Nil /\ seDhcp'.fetch \in Fetched
    BY <2>1, <2>3 DEF DhcpInv, Callers, Busy, Fetched
  <2>5. seDhcp'.overlap \in BOOLEAN
    BY <2>1, ZenonT(30)
  <2>6. \A f \in Callers : seDhcp'.fetch[f].pc # "swap" => seDhcp'.fetch[f].new = Nil
    BY <2>3, <2>4 DEF DhcpInv
  <2>7. ASSUME ~seDhcp'.overlap PROVE AloneInv'
    <3>1. ~seDhcp.overlap /\ ~Busy("update") /\ AloneInv
      BY <2>1, <2>7, ZenonT(30) DEF DhcpInv
    <3>2. /\ \A f \in Callers : seDhcp'.fetch[f].new = seDhcp.fetch[f].new
          /\ seDhcp'.fetch["query"].iface = seDhcp.iface /\ seDhcp'.fetch["query"].pc = "offer"
          /\ seDhcp'.fetch["update"].pc = "none"
      BY <2>3, <3>1 DEF Callers, Busy
    <3>3. {seDhcp'.fetch[f].new : f \in Callers} = {seDhcp.fetch[f].new : f \in Callers}
      BY <3>2
    <3> QED BY <2>2, <3>1, <3>2, <3>3 DEF AloneInv, Callers, Busy
  <2> QED BY <2>1, <2>2, <2>4, <2>5, <2>6, <2>7 DEF DhcpInv, DhcpKeeps
<1>2. CASE interfaceUpdated
  <2>1. /\ DhcpKeeps({"fetch", "overlap", "iface"}) /\ ~Busy("update") /\ seDhcp.iface < SeMax
        /\ seDhcp'.iface = seDhcp.iface + 1 /\ seDhcp'.overlap = (seDhcp.overlap \/ Busy("query"))
        /\ seDhcp'.fetch = Fetch("update", [pc |-> "offer", iface |-> seDhcp.iface + 1])
    BY <1>2 DEF interfaceUpdated, Dhcp, DhcpInv, DhcpFields, DhcpKeeps
  <2>2. /\ seDhcp'.of = seDhcp.of /\ seDhcp'.ups = seDhcp.ups
        /\ seDhcp'.made = seDhcp.made /\ seDhcp'.missed = seDhcp.missed /\ seDhcp'.open = seDhcp.open
    BY <2>1 DEF DhcpKeeps, DhcpFields
  <2> DEFINE g == [pc |-> "offer", iface |-> seDhcp.iface + 1, old |-> seDhcp.fetch["update"].old,
                   new |-> seDhcp.fetch["update"].new]
  <2>3. seDhcp'.fetch = [f \in Callers |-> IF f = "update" THEN g ELSE seDhcp.fetch[f]]
    BY <2>1 DEF DhcpInv, Fetched, Fetch, Callers
  <2>4. seDhcp'.iface \in 0..SeMax
    BY <2>1, SeAssumption DEF DhcpInv
  <2>5. g.new = Nil /\ seDhcp'.fetch \in Fetched
    BY <2>1, <2>3, <2>4 DEF DhcpInv, Callers, Busy, Fetched
  <2>6. seDhcp'.overlap \in BOOLEAN
    BY <2>1, ZenonT(30)
  <2>7. \A f \in Callers : seDhcp'.fetch[f].pc # "swap" => seDhcp'.fetch[f].new = Nil
    BY <2>3, <2>5 DEF DhcpInv
  <2>8. ASSUME ~seDhcp'.overlap PROVE AloneInv'
    <3>1. ~seDhcp.overlap /\ ~Busy("query") /\ AloneInv
      BY <2>1, <2>8, ZenonT(30) DEF DhcpInv
    <3>2. /\ \A f \in Callers : seDhcp'.fetch[f].new = seDhcp.fetch[f].new
          /\ seDhcp'.fetch["update"].iface = seDhcp'.iface /\ seDhcp'.fetch["update"].pc = "offer"
          /\ seDhcp'.fetch["query"].pc = "none"
      BY <2>1, <2>3, <3>1 DEF Callers, Busy
    <3>3. {seDhcp'.fetch[f].new : f \in Callers} = {seDhcp.fetch[f].new : f \in Callers}
      BY <3>2
    <3> QED BY <2>2, <3>1, <3>2, <3>3 DEF AloneInv, Callers, Busy
  <2> QED BY <2>1, <2>2, <2>4, <2>5, <2>6, <2>7, <2>8 DEF DhcpInv, DhcpKeeps
<1> QED BY <1>1, <1>2

\* A fetch has its offer, and has made the new upstreams; or it failed.
LEMMA DhcpOffer ==
  ASSUME DhcpInv, NEW f \in Callers, fetchServersResponse(f)
  PROVE  DhcpInv'
<1>1. seDhcp.fetch[f].pc = "offer" /\ seDhcp.fetch[f].new = Nil /\ Busy(f)
  BY DEF fetchServersResponse, DhcpInv, Busy
<1>2. CASE Dhcp([fetch |-> Fetch(f, NoFetch), missed |-> seDhcp.missed \/ f = "update"])
  <2>1. /\ DhcpKeeps({"fetch", "missed"}) /\ seDhcp'.missed = (seDhcp.missed \/ f = "update")
        /\ seDhcp'.fetch = Fetch(f, NoFetch)
    BY <1>2 DEF Dhcp, DhcpInv, DhcpFields, DhcpKeeps
  <2>2. /\ seDhcp'.iface = seDhcp.iface /\ seDhcp'.of = seDhcp.of /\ seDhcp'.ups = seDhcp.ups
        /\ seDhcp'.made = seDhcp.made /\ seDhcp'.overlap = seDhcp.overlap /\ seDhcp'.open = seDhcp.open
    BY <2>1 DEF DhcpKeeps, DhcpFields
  <2>3. seDhcp'.fetch = [h \in Callers |-> IF h = f THEN NoFetch ELSE seDhcp.fetch[h]]
    BY <2>1 DEF DhcpInv, Fetched, Fetch, Callers, NoFetch
  <2>4. seDhcp'.fetch \in Fetched
    BY <2>3, SeAssumption DEF DhcpInv, Callers, Fetched, NoFetch, Nil
  <2>5. seDhcp'.missed \in BOOLEAN
    BY <2>1, ZenonT(30)
  <2>6. \A h \in Callers : seDhcp'.fetch[h].pc # "swap" => seDhcp'.fetch[h].new = Nil
    BY <2>3 DEF DhcpInv, NoFetch
  <2>7. ASSUME ~seDhcp'.overlap PROVE AloneInv'
    <3>1. AloneInv
      BY <2>2, <2>7 DEF DhcpInv
    <3>2. /\ \A h \in Callers : seDhcp'.fetch[h].new = seDhcp.fetch[h].new
          /\ \A h \in Callers : h # f => seDhcp'.fetch[h] = seDhcp.fetch[h]
          /\ seDhcp'.fetch[f].pc = "none"
      BY <1>1, <2>3 DEF Callers, NoFetch
    <3>3. {seDhcp'.fetch[h].new : h \in Callers} = {seDhcp.fetch[h].new : h \in Callers}
      BY <3>2
    <3>4. ~seDhcp'.missed => ~seDhcp.missed /\ f = "query"
      BY <2>1, ZenonT(30) DEF Callers
    <3>5. \A h \in Callers : (Busy(h))' => Busy(h) /\ h # f
      BY <3>2 DEF Busy
    <3> QED BY <2>2, <3>1, <3>2, <3>3, <3>4, <3>5 DEF AloneInv, Callers, Busy
  <2> QED BY <2>1, <2>2, <2>4, <2>5, <2>6, <2>7 DEF DhcpInv, DhcpKeeps
<1>3. CASE seDhcp.made < SeMax + 2
           /\ LET id == seDhcp.made + 1 IN
              Dhcp([made |-> id, open |-> seDhcp.open \cup {id},
                    fetch |-> Fetch(f, [pc |-> "swap", new |-> id, old |-> seDhcp.ups])])
  <2> DEFINE id == seDhcp.made + 1
  <2>1. /\ DhcpKeeps({"fetch", "made", "open"}) /\ seDhcp'.made = id /\ seDhcp'.open = seDhcp.open \cup {id}
        /\ seDhcp'.fetch = Fetch(f, [pc |-> "swap", new |-> id, old |-> seDhcp.ups])
    BY <1>3 DEF Dhcp, DhcpInv, DhcpFields, DhcpKeeps
  <2>2. /\ seDhcp'.iface = seDhcp.iface /\ seDhcp'.of = seDhcp.of /\ seDhcp'.ups = seDhcp.ups
        /\ seDhcp'.missed = seDhcp.missed /\ seDhcp'.overlap = seDhcp.overlap
    BY <2>1 DEF DhcpKeeps, DhcpFields
  <2> DEFINE g == [pc |-> "swap", iface |-> seDhcp.fetch[f].iface, old |-> seDhcp.ups, new |-> id]
  <2>3. seDhcp'.fetch = [h \in Callers |-> IF h = f THEN g ELSE seDhcp.fetch[h]]
    BY <2>1 DEF DhcpInv, Fetched, Fetch, Callers
  <2>4. id \in 0..(SeMax + 2) /\ Nil \notin seDhcp'.open
    BY <1>3, <2>1, SeAssumption DEF DhcpInv, Nil
  <2>5. seDhcp'.fetch \in Fetched
    BY <2>3, <2>4 DEF DhcpInv, Callers, Fetched
  <2>6. \A h \in Callers : seDhcp'.fetch[h].pc # "swap" => seDhcp'.fetch[h].new = Nil
    BY <2>3 DEF DhcpInv
  <2>7. ASSUME ~seDhcp'.overlap PROVE AloneInv'
    <3>1. AloneInv
      BY <2>2, <2>7 DEF DhcpInv
    <3>2. /\ \A h \in Callers : h # f => seDhcp'.fetch[h] = seDhcp.fetch[h]
          /\ seDhcp'.fetch[f] = g
      BY <2>3 DEF Callers
    <3>3. \A h \in Callers : (Busy(h))' <=> Busy(h)
      BY <1>1, <3>2 DEF Busy
    <3>4. seDhcp'.open \subseteq {seDhcp'.ups} \cup {seDhcp'.fetch[h].new : h \in Callers}
      <4>1. \A h \in Callers : ~Busy(h) \/ h = f
        BY <1>1, <3>1 DEF AloneInv, Callers
      <4>2. \A h \in Callers : seDhcp.fetch[h].new = Nil
        BY <1>1, <4>1 DEF Busy, DhcpInv
      <4>3. seDhcp.open \subseteq {seDhcp.ups}
        BY <3>1, <4>2 DEF AloneInv, DhcpInv
      <4> QED BY <2>1, <2>2, <3>2, <4>3
    <3> QED BY <2>2, <3>1, <3>2, <3>3, <3>4 DEF AloneInv, Callers, Busy
  <2> QED BY <2>1, <2>2, <2>4, <2>5, <2>6, <2>7 DEF DhcpInv, DhcpKeeps
<1> QED BY <1>2, <1>3 DEF fetchServersResponse


\* The new upstreams take the place of those in force; time passes.
LEMMA DhcpSwap ==
  ASSUME DhcpInv, Expire \/ \E f \in Callers : recreateServers(f)
  PROVE  DhcpInv'
<1>1. CASE Expire
  <2>1. DhcpKeeps({"fresh"})
    BY <1>1 DEF Expire, Dhcp, DhcpInv, DhcpFields, DhcpKeeps
  <2>2. /\ seDhcp'.iface = seDhcp.iface /\ seDhcp'.of = seDhcp.of /\ seDhcp'.ups = seDhcp.ups
        /\ seDhcp'.made = seDhcp.made /\ seDhcp'.overlap = seDhcp.overlap /\ seDhcp'.open = seDhcp.open
        /\ seDhcp'.missed = seDhcp.missed /\ seDhcp'.fetch = seDhcp.fetch
    BY <2>1 DEF DhcpKeeps, DhcpFields
  <2>3. AloneInv => AloneInv'
    BY <2>2 DEF AloneInv, Busy
  <2> QED BY <2>1, <2>2, <2>3 DEF DhcpInv, DhcpKeeps
<1>2. ASSUME NEW f \in Callers, recreateServers(f) PROVE DhcpInv'
  <2>1. /\ seDhcp.fetch[f].pc = "swap" /\ DhcpKeeps({"fetch", "open", "ups", "of", "fresh"})
        /\ seDhcp'.open = seDhcp.open \ {seDhcp.fetch[f].old} /\ seDhcp'.ups = seDhcp.fetch[f].new
        /\ seDhcp'.of = seDhcp.fetch[f].iface /\ seDhcp'.fetch = Fetch(f, NoFetch)
    BY <1>2 DEF recreateServers, Dhcp, DhcpInv, DhcpFields, DhcpKeeps
  <2>2. /\ seDhcp'.iface = seDhcp.iface /\ seDhcp'.made = seDhcp.made
        /\ seDhcp'.missed = seDhcp.missed /\ seDhcp'.overlap = seDhcp.overlap
    BY <2>1 DEF DhcpKeeps, DhcpFields
  <2>3. seDhcp'.fetch = [h \in Callers |-> IF h = f THEN NoFetch ELSE seDhcp.fetch[h]]
    BY <2>1 DEF DhcpInv, Fetched, Fetch, Callers, NoFetch
  <2>4. seDhcp'.fetch \in Fetched
    BY <2>3, SeAssumption DEF DhcpInv, Callers, Fetched, NoFetch, Nil
  <2>5. seDhcp'.ups \in 0..(SeMax + 2) /\ seDhcp'.of \in 0..SeMax
    BY <2>1 DEF DhcpInv, Fetched
  <2>6. \A h \in Callers : seDhcp'.fetch[h].pc # "swap" => seDhcp'.fetch[h].new = Nil
    BY <2>3 DEF DhcpInv, NoFetch
  <2>7. ASSUME ~seDhcp'.overlap PROVE AloneInv'
    <3>1. AloneInv
      BY <2>2, <2>7 DEF DhcpInv
    <3>2. /\ \A h \in Callers : h # f => seDhcp'.fetch[h] = seDhcp.fetch[h]
          /\ seDhcp'.fetch[f].pc = "none"
      BY <2>3 DEF Callers, NoFetch
    <3>3. \A h \in Callers : ~Busy(h) \/ h = f
      BY <2>1, <3>1 DEF AloneInv, Callers, Busy
    <3>4. \A h \in Callers : ~(Busy(h))'
      BY <3>2, <3>3 DEF Busy
    <3>5. \A h \in Callers : h # f => seDhcp.fetch[h].new = Nil
      BY <3>3 DEF Busy, DhcpInv
    <3>6. seDhcp.open \subseteq {seDhcp.ups, seDhcp.fetch[f].new}
      BY <3>1, <3>5 DEF AloneInv, DhcpInv
    <3>7. seDhcp'.open \subseteq {seDhcp'.ups} /\ seDhcp'.of = seDhcp'.iface
      BY <2>1, <2>2, <3>1, <3>6 DEF AloneInv, Busy
    <3>8. \A h \in Callers : seDhcp'.fetch[h].pc # "swap"
      BY <3>4 DEF Busy
    <3> QED BY <3>4, <3>7, <3>8 DEF AloneInv, Callers
  <2> QED BY <2>1, <2>2, <2>4, <2>5, <2>6, <2>7 DEF DhcpInv, DhcpKeeps
<1> QED BY <1>1, <1>2

-----------------------------------------------------------------------------
(* The packet session of the DNS outbound. *)

DnsFields == {"st", "from", "dest", "replies", "causes", "ended"}

\* A goroutine has its own destination, and has replied only to a query read.
DnsInv ==
  /\ DOMAIN seDns = DnsFields
  /\ seDns.st \in [Queries -> {"none", "asked", "written", "failed", "bad"}]
  /\ seDns.from \in [Queries -> SeUsers \cup {Nil}] /\ seDns.dest = seDns.from
  /\ \A r \in seDns.replies : r[1] \in Queries /\ seDns.st[r[1]] # "none"
  /\ ReplyToSender

\* At the start no query has been read.
LEMMA DnsStart == ASSUME SeInit PROVE DnsInv
<1>1. seDns = NoDns
  BY DEF SeInit, SeStart
<1> QED BY <1>1 DEF NoDns, DnsInv, DnsFields, ReplyToSender

\* A packet is read.
LEMMA DnsRead ==
  ASSUME DnsInv, ReadPacket
  PROVE  DnsInv'
<1>1. PICK q \in Queries :
        /\ seDns.st[q] = "none"
        /\ \/ \E u \in SeUsers :
                Dns([st |-> [seDns.st EXCEPT ![q] = "asked"], from |-> [seDns.from EXCEPT ![q] = u],
                     dest |-> [seDns.dest EXCEPT ![q] = u]])
           \/ Dns([causes |-> cancel("read"), st |-> [seDns.st EXCEPT ![q] = "bad"]])
  BY DEF ReadPacket, Unread
<1>2. ASSUME NEW u \in SeUsers,
             Dns([st |-> [seDns.st EXCEPT ![q] = "asked"], from |-> [seDns.from EXCEPT ![q] = u],
                  dest |-> [seDns.dest EXCEPT ![q] = u]])
      PROVE  DnsInv'
  <2>1. /\ DOMAIN seDns' = DnsFields /\ seDns'.st = [seDns.st EXCEPT ![q] = "asked"]
        /\ seDns'.from = [seDns.from EXCEPT ![q] = u] /\ seDns'.dest = [seDns.dest EXCEPT ![q] = u]
        /\ seDns'.replies = seDns.replies
    BY <1>2 DEF Dns, DnsInv, DnsFields
  <2>2. \A r \in seDns.replies : r[1] # q
    BY <1>1 DEF DnsInv
  <2>3. \A r \in seDns'.replies : r[1] \in Queries /\ seDns'.st[r[1]] # "none" /\ r[2] = seDns'.from[r[1]]
    BY <2>1, <2>2 DEF DnsInv, ReplyToSender
  <2> QED BY <2>1, <2>3 DEF DnsInv, ReplyToSender
<1>3. CASE Dns([causes |-> cancel("read"), st |-> [seDns.st EXCEPT ![q] = "bad"]])
  <2>1. /\ DOMAIN seDns' = DnsFields /\ seDns'.st = [seDns.st EXCEPT ![q] = "bad"]
        /\ seDns'.from = seDns.from /\ seDns'.dest = seDns.dest /\ seDns'.replies = seDns.replies
    BY <1>3 DEF Dns, DnsInv, DnsFields
  <2> QED BY <2>1 DEF DnsInv, ReplyToSender
<1> QED BY <1>1, <1>2, <1>3

\* A goroutine replies or fails.
LEMMA DnsExchange ==
  ASSUME DnsInv, NEW q \in Queries, Exchange(q)
  PROVE  DnsInv'
<1>1. seDns.st[q] = "asked"
  BY DEF Exchange
<1>2. ASSUME NEW cause, Dns([causes |-> cause, st |-> [seDns.st EXCEPT ![q] = "failed"]])
      PROVE  DnsInv'
  <2>1. /\ DOMAIN seDns' = DnsFields /\ seDns'.st = [seDns.st EXCEPT ![q] = "failed"]
        /\ seDns'.from = seDns.from /\ seDns'.dest = seDns.dest /\ seDns'.replies = seDns.replies
    BY <1>2 DEF Dns, DnsInv, DnsFields
  <2> QED BY <2>1 DEF DnsInv, ReplyToSender
<1>3. CASE Dns([st |-> [seDns.st EXCEPT ![q] = "written"], replies |-> seDns.replies \cup {<<q, seDns.dest[q]>>}])
  <2>1. /\ DOMAIN seDns' = DnsFields /\ seDns'.st = [seDns.st EXCEPT ![q] = "written"]
        /\ seDns'.from = seDns.from /\ seDns'.dest = seDns.dest
        /\ seDns'.replies = seDns.replies \cup {<<q, seDns.dest[q]>>}
    BY <1>3 DEF Dns, DnsInv, DnsFields
  <2>2. \A r \in seDns'.replies : r[1] \in Queries /\ seDns'.st[r[1]] # "none" /\ r[2] = seDns'.from[r[1]]
    BY <2>1 DEF DnsInv, ReplyToSender
  <2> QED BY <2>1, <2>2 DEF DnsInv, ReplyToSender
<1> QED BY <1>2, <1>3 DEF Exchange

\* The session times out and ends.
LEMMA DnsEnd ==
  ASSUME DnsInv, Timeout \/ SessionEnds
  PROVE  DnsInv'
<1>1. /\ DOMAIN seDns' = DnsFields /\ seDns'.st = seDns.st
      /\ seDns'.from = seDns.from /\ seDns'.dest = seDns.dest /\ seDns'.replies = seDns.replies
  BY DEF Timeout, SessionEnds, Dns, DnsInv, DnsFields
<1> QED BY <1>1 DEF DnsInv, ReplyToSender

-----------------------------------------------------------------------------
(* The start of Tor and WireGuard. *)

BootFields == {"phase", "step", "open", "devices"}

\* The device is made by Start or by PostStart.
BootInv ==
  /\ DOMAIN seBoot = BootFields
  /\ seScn \in SeScenarios
  /\ seBoot.devices \in 0..1
  /\ seBoot.phase = "new" => seBoot.devices = 0
  /\ seBoot.phase = "started" /\ seScn.unresolved => seBoot.devices = 0
  /\ BootGivesBack

\* At the start there is no device.
LEMMA BootBegin == ASSUME SeInit PROVE BootInv
<1>1. seBoot = NoBoot /\ seScn \in SeScenarios
  BY DEF SeInit, SeStart
<1> QED BY <1>1 DEF NoBoot, BootInv, BootFields, BootGivesBack

\* A start goes on or fails, and what has started is closed.
LEMMA BootStep ==
  ASSUME BootInv, TorStart \/ WgStart \/ WgPostStart \/ BootClose
  PROVE  BootInv'
<1>1. seScn' = seScn /\ seScn \in SeScenarios /\ seScn.unresolved \in BOOLEAN
  BY SeAssumption DEF BootInv, TorStart, WgStart, WgPostStart, BootClose, wgStart, Boot
<1>2. CASE TorStart
  <2>1. IsTor /\ ~IsWg /\ seBoot.phase = "new" /\ seBoot.devices = 0
    BY <1>2 DEF TorStart, BootInv, IsTor, IsWg
  <2>2. CASE Boot([phase |-> "failed", open |-> seBoot.open \cap TorClose])
    <3>1. DOMAIN seBoot' = BootFields /\ seBoot'.phase = "failed" /\ seBoot'.open = {} /\ seBoot'.devices = seBoot.devices
      BY <2>2 DEF Boot, BootInv, BootFields, TorClose
    <3> QED BY <1>1, <2>1, <3>1 DEF BootInv, BootGivesBack
  <2>3. ASSUME NEW s, Boot([step |-> s, phase |-> IF s = Len(TorSteps) THEN "up" ELSE "new",
                           open |-> seBoot.open \cup ({TorSteps[s]} \cap {"instance", "events", "proxy"})])
        PROVE  BootInv'
    <3>1. DOMAIN seBoot' = BootFields /\ seBoot'.phase \in {"up", "new"} /\ seBoot'.devices = seBoot.devices
      BY <2>3 DEF Boot, BootInv, BootFields
    <3> QED BY <1>1, <2>1, <3>1 DEF BootInv, BootGivesBack
  <2> QED BY <1>2, <2>2, <2>3 DEF TorStart
<1>3. ASSUME NEW phase \in {"started", "up"}, wgStart(phase), IsWg, seBoot.devices = 0,
             phase = "started" => ~seScn.unresolved
      PROVE  BootInv'
  <2>1. /\ DOMAIN seBoot' = BootFields /\ seBoot'.phase \in {"failed", phase}
        /\ seBoot'.devices \in {seBoot.devices, seBoot.devices + 1}
    BY <1>3 DEF wgStart, Boot, BootInv, BootFields
  <2>2. ~IsTor'
    BY <1>1, <1>3 DEF IsTor, IsWg, Part
  <2> QED BY <1>1, <1>3, <2>1, <2>2 DEF BootInv, BootGivesBack
<1>4. ASSUME NEW phase \in {"started", "up"}, Boot([phase |-> phase]), phase = "started" => seBoot.devices = 0
      PROVE  BootInv'
  <2>1. DOMAIN seBoot' = BootFields /\ seBoot'.phase = phase /\ seBoot'.devices = seBoot.devices
    BY <1>4 DEF Boot, BootInv, BootFields
  <2> QED BY <1>1, <1>4, <2>1 DEF BootInv, BootGivesBack
<1>5. CASE WgStart
  BY <1>1, <1>3, <1>4, <1>5 DEF WgStart, BootInv
<1>6. CASE WgPostStart
  <2>1. CASE seScn.unresolved /\ wgStart("up")
    BY <1>3, <1>6, <2>1 DEF WgPostStart, BootInv
  <2>2. CASE Boot([phase |-> "up"])
    BY <1>4, <2>2
  <2> QED BY <1>6, <2>1, <2>2 DEF WgPostStart
<1>7. CASE BootClose
  <2>1. /\ DOMAIN seBoot' = BootFields /\ seBoot'.phase = "closed" /\ seBoot'.devices = seBoot.devices
        /\ seBoot'.open = {}
    BY <1>7 DEF BootClose, Boot, BootInv, BootFields, TorClose
  <2> QED BY <1>1, <2>1 DEF BootInv, BootGivesBack
<1> QED BY <1>2, <1>5, <1>6, <1>7

-----------------------------------------------------------------------------
SessionInv == SshInv /\ BindInv /\ DhcpInv /\ DnsInv /\ BootInv

\* An invariant of one part is kept by the steps of the others.
LEMMA OthersStand ==
  /\ SshInv /\ seSsh' = seSsh => SshInv'
  /\ BindInv /\ seBind' = seBind => BindInv'
  /\ DhcpInv /\ seDhcp' = seDhcp => DhcpInv'
  /\ DnsInv /\ seDns' = seDns => DnsInv'
  /\ BootInv /\ seBoot' = seBoot /\ seScn' = seScn => BootInv'
<1>1. SshInv /\ seSsh' = seSsh => SshInv'
  BY DEF SshInv, OneClient
<1>2. BindInv /\ seBind' = seBind => BindInv'
  BY DEF BindInv
<1>3. DhcpInv /\ seDhcp' = seDhcp => DhcpInv'
  BY DEF DhcpInv, AloneInv, Busy
<1>4. DnsInv /\ seDns' = seDns => DnsInv'
  BY DEF DnsInv, ReplyToSender
<1>5. BootInv /\ seBoot' = seBoot /\ seScn' = seScn => BootInv'
  BY DEF BootInv, BootGivesBack, IsTor, Part
<1> QED BY <1>1, <1>2, <1>3, <1>4, <1>5

\* Every step keeps the invariant.
LEMMA SessionNext == SessionInv /\ [SeNext]_seVars => SessionInv'
<1> SUFFICES ASSUME SessionInv, [SeNext]_seVars PROVE SessionInv'
  OBVIOUS
<1> USE DEF SessionInv
<1>1. ASSUME NEW u \in SeUsers, connect(u) \/ connectLocked(u) \/ connectDone(u) \/ SshDial(u)
      PROVE  SessionInv'
  <2>1. UNCHANGED <<seScn, seBind, seDhcp, seDns, seBoot>>
    BY <1>1 DEF connect, connectLocked, connectDone, SshDial, Ssh
  <2> QED BY <1>1, <2>1, SshLook, SshConnected, OthersStand
<1>2. CASE InterfaceUpdated \/ \E id \in 1..SeMax : SshWait(id)
  <2>1. UNCHANGED <<seScn, seBind, seDhcp, seDns, seBoot>>
    BY <1>2 DEF InterfaceUpdated, SshWait, Ssh
  <2> QED BY <1>2, <2>1, SshGone, OthersStand
<1>3. ASSUME NEW u \in SeUsers, wgConnect(u) \/ wgConnectLocked(u) \/ wgConnectDone(u) \/ Receive(u)
      PROVE  SessionInv'
  <2>1. UNCHANGED <<seScn, seSsh, seDhcp, seDns, seBoot>>
    BY <1>3 DEF wgConnect, wgConnectLocked, wgConnectDone, Receive, WgUse, Wg
  <2> QED BY <1>3, <2>1, BindUse, BindMade, OthersStand
<1>4. CASE BindClose \/ Open
  <2>1. UNCHANGED <<seScn, seSsh, seDhcp, seDns, seBoot>>
    BY <1>4 DEF BindClose, Open, Wg
  <2> QED BY <1>4, <2>1, BindCycle, OthersStand
<1>5. CASE fetchServers \/ interfaceUpdated \/ Expire
           \/ \E f \in {"query", "update"} : fetchServersResponse(f) \/ recreateServers(f)
  <2>1. UNCHANGED <<seScn, seSsh, seBind, seDns, seBoot>>
    BY <1>5 DEF fetchServers, interfaceUpdated, Expire, fetchServersResponse, recreateServers, Dhcp
  <2>2. DhcpInv'
    BY <1>5, DhcpBegin, DhcpOffer, DhcpSwap DEF Callers
  <2> QED BY <2>1, <2>2, OthersStand
<1>6. CASE ReadPacket \/ Timeout \/ SessionEnds \/ \E q \in Queries : Exchange(q)
  <2>1. UNCHANGED <<seScn, seSsh, seBind, seDhcp, seBoot>>
    BY <1>6 DEF ReadPacket, Timeout, SessionEnds, Exchange, Dns
  <2>2. DnsInv'
    BY <1>6, DnsRead, DnsExchange, DnsEnd
  <2> QED BY <2>1, <2>2, OthersStand
<1>7. CASE TorStart \/ WgStart \/ WgPostStart \/ BootClose
  <2>1. UNCHANGED <<seScn, seSsh, seBind, seDhcp, seDns>>
    BY <1>7 DEF TorStart, WgStart, WgPostStart, wgStart, BootClose, Boot
  <2> QED BY <1>7, <2>1, BootStep, OthersStand
<1>8. CASE UNCHANGED seVars
  BY <1>8, OthersStand DEF seVars
<1> QED BY <1>1, <1>2, <1>3, <1>4, <1>5, <1>6, <1>7, <1>8 DEF SeNext

\* The invariants of all five parts hold in every behaviour.
THEOREM SessionInvariant == SeSpec => []SessionInv
<1>1. SeInit => SessionInv
  BY SshStart, BindStart, DhcpStart, DnsStart, BootBegin DEF SessionInv
<1> QED BY <1>1, SessionNext, PTL DEF SeSpec

\* The ranges hold, and a WireGuard outbound makes one device at most.
THEOREM SessionTypes == SeSpec => []SeTypeOK
<1>1. SessionInv => SeTypeOK
  <2> SUFFICES ASSUME SessionInv PROVE SeTypeOK
    OBVIOUS
  <2>1. /\ seScn \in SeScenarios /\ seBoot.devices \in 0..1
        /\ seSsh.client \in 0..SeMax /\ seSsh.conn \in 0..SeMax /\ seSsh.lock \in SeUsers \cup {Free}
    BY DEF SessionInv, BootInv, SshInv, OneClient
  <2>2. seBind.conn \in 0..SeMax /\ seBind.open \subseteq 1..SeMax /\ seBind.lock \in SeUsers \cup {Free}
    BY SeAssumption DEF SessionInv, BindInv, Nil
  <2>3. /\ seDhcp.ups \in 0..(SeMax + 2) /\ seDhcp.of \in 0..SeMax
        /\ \A q \in Queries : seDns.st[q] \in {"none", "asked", "written", "failed", "bad"}
    BY DEF SessionInv, DhcpInv, DnsInv
  <2> QED BY <2>1, <2>2, <2>3 DEF SeTypeOK
<1> QED BY <1>1, SessionInvariant, PTL

\* SSH.connect and its goroutine keep one client, for any number of users.
THEOREM OneSSHClient == SeSpec => []OneClient
<1>1. SessionInv => OneClient
  BY DEF SessionInv, SshInv
<1> QED BY <1>1, SessionInvariant, PTL

\* ClientBind has one socket at most, and none between Close and Open.
THEOREM BindIsQuiet == SeSpec => []BindQuiet
<1>1. SessionInv => BindQuiet
  <2> SUFFICES ASSUME BindInv PROVE BindQuiet
    BY DEF SessionInv
  <2>1. seBind.open = {} \/ seBind.open = {seBind.conn}
    BY DEF BindInv
  <2> QED BY <2>1 DEF BindInv, BindQuiet
<1> QED BY <1>1, SessionInvariant, PTL

\* The DHCP transport's upstreams follow the default interface, as long as no
\* two fetches meet.
THEOREM UpstreamsFollowInterface == SeSpec => []UpstreamsFollow
<1>1. SessionInv => UpstreamsFollow
  BY DEF SessionInv, DhcpInv, AloneInv, Callers, UpstreamsFollow
<1> QED BY <1>1, SessionInvariant, PTL

\* A reply goes to the sender of its query, for any number of queries.
THEOREM RepliesToSenders == SeSpec => []ReplyToSender
<1>1. SessionInv => ReplyToSender
  BY DEF SessionInv, DnsInv
<1> QED BY <1>1, SessionInvariant, PTL

\* A closed outbound and a failed start of Tor hold nothing.
THEOREM BootReturnsAll == SeSpec => []BootGivesBack
<1>1. SessionInv => BootGivesBack
  BY DEF SessionInv, BootInv
<1> QED BY <1>1, SessionInvariant, PTL

\* The shared connections keep all their promises under every interleaving of their users.
THEOREM SessionsAlwaysSound == SeSpec => []SessionsSound
<1>1. SeTypeOK /\ OneClient /\ BindQuiet /\ UpstreamsFollow /\ ReplyToSender /\ BootGivesBack => SessionsSound
  BY DEF SessionsSound
<1> QED BY <1>1, SessionTypes, OneSSHClient, BindIsQuiet, UpstreamsFollowInterface, RepliesToSenders, BootReturnsAll, PTL

-----------------------------------------------------------------------------
(* Dialers: the inductive invariant has a part for each variable.            *)

CallPcs == {"call", "prefer", "dial", "store", "storing", "up", "failed", "refused"}

\* The addresses a place of the list still holds.
Left(k) == {k.list[i] : i \in k.left}
Repeats(d) == IsName(d) /\ ~IsInjective(DlAnswers[d])

\* A call for destination d of a dialer with the given addresses that resolves names or not.
CallOk(k, d, addresses, resolve) ==
  /\ k = [pc |-> k.pc, list |-> k.list, left |-> k.left, tried |-> k.tried, got |-> k.got]
  /\ k.pc \in CallPcs
  /\ k.tried \in Seq(Range(k.list)) /\ k.left \subseteq DOMAIN k.list
  /\ k.got \in Range(k.list) \cup {NoIP}
  /\ k.pc \in {"call", "refused"} => k.list = <<>>
  /\ k.pc \in {"call", "prefer"} => k.tried = <<>>
  /\ k.pc \in {"call", "prefer", "dial"} => k.got = NoIP
  /\ k.pc \notin {"call", "refused"} =>
       /\ \/ k.list = <<d>> /\ (IsName(d) => ~resolve) /\ k.pc \notin {"prefer", "store", "storing"}
          \/ k.list = addresses
          \/ IsName(d) /\ k.list = DlAnswers[d]
       /\ Range(k.list) = Left(k) \cup Range(k.tried)
  /\ k.pc \in {"store", "storing"} => k.got \in Range(k.list)
  /\ k.pc = "failed" => k.left = {}
  /\ \/ Repeats(d)
     \/ /\ IsInjective(k.tried)
        /\ \A i, j \in k.left : k.list[i] = k.list[j] => i = j
        /\ Left(k) \cap Range(k.tried) = {}

CallsInv ==
  /\ dlScn \in DlScenarios
  /\ dlPrefer \in {NoIP, Torn} \cup (UNION {Range(DlAnswers[n]) : n \in DOMAIN DlAnswers})
                  \cup Range(dlScn.options.addresses)
  /\ dlCall = [c \in DOMAIN dlScn.names |-> dlCall[c]]
  /\ \A c \in DOMAIN dlScn.names : CallOk(dlCall[c], dlScn.names[c], dlScn.options.addresses, Dialer.resolve)
  /\ Dialer = Failed => \A c \in DOMAIN dlScn.names : dlCall[c].pc \in {"call", "refused"}

\* The connections in the channel.
Sent == {i \in DOMAIN dlRace.chan : dlRace.chan[i] # 0}

RaceInv ==
  /\ dlRace = [tries |-> dlRace.tries, sent |-> dlRace.sent, chan |-> dlRace.chan, taken |-> dlRace.taken,
               ret |-> dlRace.ret, open |-> dlRace.open, closed |-> dlRace.closed, panic |-> dlRace.panic]
  /\ dlRace.sent \subseteq DlRacers
  /\ dlRace.chan \in Seq(dlRace.sent \cup {0})
  /\ dlRace.taken \in Nat /\ dlRace.taken + Len(dlRace.chan) = Cardinality(dlRace.sent)
  /\ dlRace.ret \in dlRace.sent \cup {0, DlWaiting}
  /\ \A i, j \in Sent : dlRace.chan[i] = dlRace.chan[j] => i = j
  /\ \A i \in Sent : dlRace.chan[i] # dlRace.ret
  /\ dlRace.open = {dlRace.chan[i] : i \in Sent} \cup ({dlRace.ret} \ {0, DlWaiting})
  /\ dlRace.closed = FALSE \/ (dlRace.closed = TRUE /\ dlRace.ret # DlWaiting
                               /\ dlRace.taken >= Cardinality(DlRacers))
  /\ dlRace.panic = FALSE

TrackInv ==
  /\ dlTrack = [pc |-> dlTrack.pc, list |-> dlTrack.list, len |-> dlTrack.len, held |-> dlTrack.held,
                open |-> dlTrack.open]
  /\ dlTrack.pc = [i \in DlConns |-> dlTrack.pc[i]]
  /\ dlTrack.list \subseteq DlConns /\ dlTrack.held = dlTrack.list
  /\ \A i \in dlTrack.list : dlTrack.pc[i] \in {"check", "open", "closing"}
  /\ CountRight

-----------------------------------------------------------------------------
(* conntrack. *)

\* Adding and removing one connection.
LEMMA OneConn ==
  ASSUME NEW S, IsFiniteSet(S), NEW x
  PROVE  /\ IsFiniteSet(S \cup {x}) /\ IsFiniteSet(S \ {x})
         /\ x \notin S => Cardinality(S \cup {x}) = Cardinality(S) + 1
         /\ x \in S => Cardinality(S \ {x}) = Cardinality(S) - 1
         /\ Cardinality(S) \in Nat
BY FS_AddElement, FS_RemoveElement, FS_CardinalityType

\* At the start nothing is listed.
LEMMA TrackStart == ASSUME DlInit PROVE TrackInv
<1>1. dlTrack = NoTrack
  BY DEF DlInit, DlStart
<1> QED BY <1>1, FS_EmptySet DEF NoTrack, TrackInv, CountRight

\* What a step of conntrack leaves behind.
LEMMA TrackStep ==
  ASSUME NEW pc, NEW list, NEW len, NEW held, NEW open, Track(pc, list, len, held, open),
         pc = [i \in DlConns |-> pc[i]], list \subseteq DlConns, held = list, list \subseteq open,
         \A i \in list : pc[i] \in {"check", "open", "closing"}, len = Cardinality(list)
  PROVE  TrackInv'
BY DEF Track, TrackInv, CountRight

\* Every step of conntrack keeps the count right.
LEMMA TrackNext ==
  ASSUME TrackInv, NEW i \in DlConns, NewConn(i) \/ KillerCheck(i) \/ ConnClose(i)
  PROVE  TrackInv'
<1> DEFINE L == dlTrack.list
<1>1. IsFiniteSet(L) /\ L \subseteq DlConns /\ dlTrack.held = L /\ L \subseteq dlTrack.open
      /\ dlTrack.len = Cardinality(L) /\ \A j \in L : dlTrack.pc[j] \in {"check", "open", "closing"}
  BY DlAssumption, FS_Subset DEF TrackInv, CountRight
<1>2. \A pc : TrackGoes(i, pc) = [j \in DlConns |-> TrackGoes(i, pc)[j]]
              /\ TrackGoes(i, pc)[i] = pc /\ \A j \in DlConns \ {i} : TrackGoes(i, pc)[j] = dlTrack.pc[j]
  BY DEF TrackInv, TrackGoes
<1>3. CASE NewConn(i)
  <2>1. i \notin L
    BY <1>1, <1>3 DEF NewConn, TrackAt
  <2>2. Cardinality(L \cup {i}) = dlTrack.len + 1
    BY <1>1, <2>1, OneConn
  <2> HIDE DEF L
  <2>3. \A j \in L \cup {i} : TrackGoes(i, "check")[j] \in {"check", "open", "closing"}
    BY <1>1, <1>2
  <2> QED BY <1>1, <1>2, <1>3, <2>2, <2>3, TrackStep DEF NewConn, L
<1>4. CASE KillerCheck(i)
  <2>1. CASE Passes(i, "open", dlTrack.open)
    <3>1. \A j \in L : TrackGoes(i, "open")[j] \in {"check", "open", "closing"}
      BY <1>1, <1>2
    <3> QED BY <1>1, <1>2, <2>1, <3>1, TrackStep DEF Passes
  <2>2. CASE TrackClose(TrackGoes(i, "gone"), {i})
    BY <1>1, <1>2, <2>2, TrackStep, FS_EmptySet DEF TrackClose
  <2> QED BY <1>4, <2>1, <2>2 DEF KillerCheck
<1>5. CASE ConnClose(i)
  <2>1. CASE TrackAt(i, "open") /\ Passes(i, IF i \in dlTrack.held THEN "closing" ELSE "last", dlTrack.open)
    <3>1. \A j \in L : TrackGoes(i, IF i \in dlTrack.held THEN "closing" ELSE "last")[j] \in {"check", "open", "closing"}
      BY <1>1, <1>2
    <3> QED BY <1>1, <1>2, <2>1, <3>1, TrackStep DEF Passes
  <2>2. CASE TrackAt(i, "closing") /\ i \notin L /\ Passes(i, "last", dlTrack.open)
    <3>1. \A j \in L : TrackGoes(i, "last")[j] \in {"check", "open", "closing"}
      BY <1>1, <1>2, <2>2
    <3> QED BY <1>1, <1>2, <2>2, <3>1, TrackStep DEF Passes
  <2>3. CASE i \in L /\ Track(TrackGoes(i, "last"), L \ {i}, dlTrack.len - 1, dlTrack.held \ {i}, dlTrack.open)
    <3>1. Cardinality(L \ {i}) = dlTrack.len - 1
      BY <1>1, <2>3, OneConn
    <3>2. \A j \in L \ {i} : TrackGoes(i, "last")[j] \in {"check", "open", "closing"}
      BY <1>1, <1>2
    <3> HIDE DEF L
    <3> QED BY <1>1, <1>2, <2>3, <3>1, <3>2, TrackStep
  <2>4. CASE TrackAt(i, "last") /\ Passes(i, "gone", dlTrack.open \ {i})
    <3>1. i \notin L
      BY <1>1, <2>4 DEF TrackAt
    <3>2. \A j \in L : TrackGoes(i, "gone")[j] \in {"check", "open", "closing"}
      BY <1>1, <1>2, <3>1
    <3> QED BY <1>1, <1>2, <2>4, <3>1, <3>2, TrackStep DEF Passes
  <2> QED BY <1>1, <1>5, <2>1, <2>2, <2>3, <2>4 DEF ConnClose
<1> QED BY <1>3, <1>4, <1>5

\* So does closing everything.
LEMMA TrackCloseAll == ASSUME TrackInv, CloseConnections PROVE TrackInv'
BY TrackStep, FS_EmptySet DEF CloseConnections, TrackClose, TrackInv

-----------------------------------------------------------------------------
(* The concurrent dial. *)

\* A subset of the goroutines, and one goroutine more.
LEMMA Racers ==
  ASSUME NEW S \in SUBSET DlRacers
  PROVE  /\ IsFiniteSet(S) /\ Cardinality(S) \in Nat /\ Cardinality(DlRacers) \in Nat
         /\ Cardinality(S) <= Cardinality(DlRacers)
         /\ Cardinality(S) = Cardinality(DlRacers) => S = DlRacers
         /\ \A g \in DlRacers \ S : Cardinality(S \cup {g}) = Cardinality(S) + 1
BY DlAssumption, FS_Subset, FS_CardinalityType, FS_AddElement

\* At the start nobody has dialled.
LEMMA RaceStart == ASSUME DlInit PROVE RaceInv
<1>1. dlRace = NoRace
  BY DEF DlInit, DlStart
<1>2. Sent = {}
  BY <1>1 DEF Sent, NoRace
<1> QED BY <1>1, <1>2, FS_EmptySet DEF NoRace, RaceInv, DlWaiting

\* What is left of the channel after its first message.
LEMMA TailOf ==
  ASSUME NEW S, NEW s \in Seq(S), s # <<>>
  PROVE  /\ Len(s) \in Nat \ {0} /\ Head(s) = s[1] /\ Head(s) \in S /\ Tail(s) \in Seq(S)
         /\ Len(Tail(s)) = Len(s) - 1 /\ \A i \in 1..(Len(s) - 1) : Tail(s)[i] = s[i + 1]
         /\ DOMAIN s = 1..Len(s) /\ DOMAIN Tail(s) = 1..(Len(s) - 1)
OBVIOUS

\* Another message in it.
LEMMA AppendOf ==
  ASSUME NEW S, NEW s \in Seq(S), NEW v, NEW T, S \subseteq T, v \in T
  PROVE  /\ Len(s) \in Nat /\ DOMAIN s = 1..Len(s) /\ Append(s, v) \in Seq(T)
         /\ DOMAIN Append(s, v) = 1..(Len(s) + 1) /\ Len(Append(s, v)) = Len(s) + 1
         /\ Append(s, v)[Len(s) + 1] = v /\ \A i \in 1..Len(s) : Append(s, v)[i] = s[i]
<1>1. s \in Seq(T)
  OBVIOUS
<1> QED BY <1>1

\* A goroutine that has sent nothing sends its connection or an error.
LEMMA SendKeeps ==
  ASSUME RaceInv, NEW g \in DlRacers \ dlRace.sent, NEW v, NEW tries, NEW open, Send(g, v, tries, open),
         (v = 0 /\ open = dlRace.open) \/ (v = g /\ open = dlRace.open \cup {g})
  PROVE  RaceInv'
<1> DEFINE n == Len(dlRace.chan) + 1
<1>1. dlRace.sent \in SUBSET DlRacers /\ g \in Nat \ {0}
  BY DlAssumption DEF RaceInv
<1>2. dlRace.closed = FALSE
  BY <1>1, Racers DEF RaceInv
<1>3. dlRace' = [tries |-> tries, sent |-> dlRace.sent \cup {g}, chan |-> Append(dlRace.chan, v),
                 taken |-> dlRace.taken, ret |-> dlRace.ret, open |-> open, closed |-> FALSE, panic |-> FALSE]
  BY <1>2 DEF RaceInv, Send, Race
<1>4. /\ n \in Nat \ {0} /\ DOMAIN dlRace.chan = 1..(n - 1)
      /\ dlRace'.chan \in Seq(dlRace'.sent \cup {0})
      /\ DOMAIN dlRace'.chan = 1..n /\ Len(dlRace'.chan) = n /\ dlRace'.chan[n] = v
      /\ \A i \in 1..(n - 1) : dlRace'.chan[i] = dlRace.chan[i]
  <2>1. dlRace.chan \in Seq(dlRace.sent \cup {0})
    BY DEF RaceInv
  <2>2. v \in dlRace.sent \cup {g} \cup {0}
    OBVIOUS
  <2> QED BY <1>3, <2>1, <2>2, AppendOf
<1>5. \A i \in 1..(n - 1) : dlRace.chan[i] \in dlRace.sent \cup {0}
  BY <1>4 DEF RaceInv
<1>6. \A i : i \in Sent' <=> i \in Sent \/ (i = n /\ v # 0)
  BY <1>4 DEF Sent
<1> HIDE DEF n
<1>7. dlRace'.taken + Len(dlRace'.chan) = Cardinality(dlRace'.sent)
  <2>1. Cardinality(dlRace.sent \cup {g}) = Cardinality(dlRace.sent) + 1
    BY <1>1, Racers
  <2> QED BY <1>3, <1>4, <2>1 DEF RaceInv, n
<1>8. \A i \in Sent : i \in 1..(n - 1) /\ dlRace.chan[i] # g /\ dlRace'.chan[i] = dlRace.chan[i]
  BY <1>1, <1>4, <1>5 DEF Sent
<1>9. \A i, j \in Sent' : dlRace'.chan[i] = dlRace'.chan[j] => i = j
  <2>1. \A i, j \in Sent : dlRace'.chan[i] = dlRace'.chan[j] => i = j
    BY <1>8 DEF RaceInv
  <2>2. \A i \in Sent : v # 0 => dlRace'.chan[i] # dlRace'.chan[n]
    BY <1>4, <1>8
  <2> QED BY <1>6, <2>1, <2>2
<1>10. \A i \in Sent' : dlRace'.chan[i] # dlRace'.ret
  <2>1. g # dlRace.ret
    BY <1>1 DEF RaceInv, DlWaiting
  <2> QED BY <1>3, <1>4, <1>6, <1>8, <2>1 DEF RaceInv
<1>11. dlRace'.open = {dlRace'.chan[i] : i \in Sent'} \cup ({dlRace'.ret} \ {0, DlWaiting})
  <2>1. {dlRace'.chan[i] : i \in Sent'} = {dlRace.chan[i] : i \in Sent} \cup ({v} \ {0})
    BY <1>4, <1>6, <1>8
  <2> QED BY <1>1, <1>3, <2>1 DEF RaceInv
<1>12. dlRace'.sent \subseteq DlRacers /\ dlRace'.taken \in Nat /\ dlRace'.ret \in dlRace'.sent \cup {0, DlWaiting}
  BY <1>1, <1>3 DEF RaceInv
<1>13. dlRace' = [tries |-> dlRace'.tries, sent |-> dlRace'.sent, chan |-> dlRace'.chan, taken |-> dlRace'.taken,
                  ret |-> dlRace'.ret, open |-> dlRace'.open, closed |-> dlRace'.closed, panic |-> dlRace'.panic]
       /\ dlRace'.closed = FALSE /\ dlRace'.panic = FALSE
  BY <1>3
<1> QED BY <1>4, <1>7, <1>9, <1>10, <1>11, <1>12, <1>13 DEF RaceInv

\* A message is received, and returned or dropped.
LEMMA ReceiveKeeps ==
  ASSUME RaceInv, dlRace.chan # <<>>, NEW ret, NEW open,
         Race([dlRace EXCEPT !.chan = Tail(@), !.taken = @ + 1, !.ret = ret, !.open = open]),
         \/ dlRace.ret = DlWaiting /\ open = dlRace.open /\ ret \in {Head(dlRace.chan), DlWaiting}
            /\ (Head(dlRace.chan) # 0 => ret = Head(dlRace.chan))
         \/ ret = dlRace.ret /\ open = dlRace.open \ {Head(dlRace.chan)}
  PROVE  RaceInv'
<1> DEFINE n == Len(dlRace.chan)
<1>1. dlRace.sent \in SUBSET DlRacers /\ DlRacers \subseteq Nat \ {0}
  BY DlAssumption DEF RaceInv
<1>2. /\ n \in Nat \ {0} /\ DOMAIN dlRace.chan = 1..n /\ Head(dlRace.chan) = dlRace.chan[1]
      /\ dlRace.chan[1] \in dlRace.sent \cup {0}
      /\ Tail(dlRace.chan) \in Seq(dlRace.sent \cup {0}) /\ Len(Tail(dlRace.chan)) = n - 1
      /\ DOMAIN Tail(dlRace.chan) = 1..(n - 1)
      /\ \A i \in 1..(n - 1) : Tail(dlRace.chan)[i] = dlRace.chan[i + 1]
  BY TailOf DEF RaceInv
<1>3. dlRace' = [tries |-> dlRace.tries, sent |-> dlRace.sent, chan |-> Tail(dlRace.chan),
                 taken |-> dlRace.taken + 1, ret |-> ret, open |-> open, closed |-> dlRace.closed, panic |-> FALSE]
  BY DEF RaceInv, Race
<1> HIDE DEF n
<1>4. \A i : i \in Sent' <=> i \in 1..(n - 1) /\ i + 1 \in Sent
  BY <1>2, <1>3 DEF Sent
<1>5. \A i \in Sent' : i \in 1..(n - 1) /\ dlRace'.chan[i] = dlRace.chan[i + 1]
  BY <1>2, <1>3, <1>4
<1>6. \A i \in Sent : i = 1 \/ (i \in 2..n /\ i - 1 \in Sent' /\ dlRace'.chan[i - 1] = dlRace.chan[i])
  <2> SUFFICES ASSUME NEW i \in Sent, i # 1 PROVE i \in 2..n /\ i - 1 \in Sent' /\ dlRace'.chan[i - 1] = dlRace.chan[i]
    OBVIOUS
  <2>1. i \in 1..n
    BY <1>2 DEF Sent
  <2>2. i \in 2..n /\ i - 1 \in 1..(n - 1) /\ (i - 1) + 1 = i
    BY <1>2, <2>1
  <2> QED BY <1>2, <1>3, <1>4, <2>2
<1>7. dlRace'.taken + Len(dlRace'.chan) = Cardinality(dlRace'.sent) /\ dlRace'.taken \in Nat
  BY <1>2, <1>3 DEF RaceInv, n
<1>8. \A i, j \in Sent' : dlRace'.chan[i] = dlRace'.chan[j] => i = j
  <2> SUFFICES ASSUME NEW i \in Sent', NEW j \in Sent', dlRace'.chan[i] = dlRace'.chan[j] PROVE i = j
    OBVIOUS
  <2>1. i + 1 = j + 1
    BY <1>4, <1>5 DEF RaceInv
  <2> QED BY <1>2, <1>4, <2>1
<1>9. \A i \in Sent' : i + 1 \in Sent /\ i + 1 # 1 /\ dlRace'.chan[i] \in dlRace.sent \cup {0} /\ dlRace'.chan[i] # 0
  <2> SUFFICES ASSUME NEW i \in Sent'
               PROVE i + 1 \in Sent /\ i + 1 # 1 /\ dlRace'.chan[i] \in dlRace.sent \cup {0} /\ dlRace'.chan[i] # 0
    OBVIOUS
  <2>1. i \in 1..(n - 1) /\ i + 1 \in Sent
    BY <1>4
  <2> QED BY <1>2, <1>3, <1>5, <2>1 DEF Sent
<1>10. \A i \in Sent' : dlRace'.chan[i] # dlRace.chan[1]
  <2>1. dlRace.chan[1] # 0 => 1 \in Sent
    BY <1>2 DEF Sent
  <2> QED BY <1>5, <1>9, <2>1 DEF RaceInv
<1>11. \A i \in Sent' : dlRace'.chan[i] # dlRace'.ret
  <2>1. \A i \in Sent' : dlRace'.chan[i] # dlRace.ret
    BY <1>5, <1>9 DEF RaceInv
  <2>2. dlRace'.ret \in {dlRace.chan[1], dlRace.ret}
    BY <1>2, <1>3
  <2> QED BY <1>10, <2>1, <2>2
<1>12. {dlRace.chan[i] : i \in Sent} = {dlRace'.chan[i] : i \in Sent'} \cup ({dlRace.chan[1]} \ {0})
  <2>1. \A i \in Sent' : dlRace'.chan[i] \in {dlRace.chan[j] : j \in Sent}
    BY <1>5, <1>9
  <2>2. \A i \in Sent : dlRace.chan[i] \in {dlRace'.chan[j] : j \in Sent'} \cup ({dlRace.chan[1]} \ {0})
    BY <1>6 DEF Sent
  <2>3. dlRace.chan[1] # 0 => 1 \in Sent
    BY <1>2 DEF Sent
  <2> QED BY <2>1, <2>2, <2>3
<1>13. dlRace'.open = {dlRace'.chan[i] : i \in Sent'} \cup ({dlRace'.ret} \ {0, DlWaiting})
  <2>1. dlRace.open = {dlRace.chan[i] : i \in Sent} \cup ({dlRace.ret} \ {0, DlWaiting})
    BY DEF RaceInv
  <2>2. dlRace.chan[1] # DlWaiting /\ (dlRace.chan[1] # 0 => dlRace.chan[1] # dlRace.ret)
    BY <1>1, <1>2 DEF RaceInv, DlWaiting, Sent
  <2>3. CASE dlRace.ret = DlWaiting /\ open = dlRace.open /\ ret \in {dlRace.chan[1], DlWaiting}
             /\ (dlRace.chan[1] # 0 => ret = dlRace.chan[1])
    BY <1>3, <1>12, <2>1, <2>2, <2>3
  <2>4. CASE ret = dlRace.ret /\ open = dlRace.open \ {dlRace.chan[1]}
    <3>1. dlRace.chan[1] \notin {dlRace'.chan[i] : i \in Sent'}
      BY <1>10
    <3>2. dlRace'.open = dlRace.open \ {dlRace.chan[1]} /\ dlRace'.ret = dlRace.ret
      BY <1>3, <2>4
    <3> QED BY <1>12, <2>1, <2>2, <3>1, <3>2
  <2> QED BY <1>2, <2>3, <2>4
<1>14. dlRace'.ret \in dlRace'.sent \cup {0, DlWaiting}
  BY <1>2, <1>3 DEF RaceInv
<1>15. dlRace'.closed = FALSE \/ (dlRace'.closed = TRUE /\ dlRace'.ret # DlWaiting
                                  /\ dlRace'.taken >= Cardinality(DlRacers))
  <2>1. Cardinality(DlRacers) \in Nat
    BY <1>1, Racers
  <2> QED BY <1>3, <2>1 DEF RaceInv
<1>16. dlRace' = [tries |-> dlRace'.tries, sent |-> dlRace'.sent, chan |-> dlRace'.chan, taken |-> dlRace'.taken,
                  ret |-> dlRace'.ret, open |-> dlRace'.open, closed |-> dlRace'.closed, panic |-> dlRace'.panic]
       /\ dlRace'.sent \subseteq DlRacers /\ dlRace'.chan \in Seq(dlRace'.sent \cup {0}) /\ dlRace'.panic = FALSE
  BY <1>1, <1>2, <1>3
<1> QED BY <1>7, <1>8, <1>11, <1>13, <1>14, <1>15, <1>16 DEF RaceInv

\* Every step of a concurrent dial.
LEMMA RaceNext ==
  ASSUME RaceInv, (\E g \in DlRacers : dialContextWithRetry(g)) \/ getResultFromConnChan \/ drainConnChan
  PROVE  RaceInv'
<1>1. CASE \E g \in DlRacers : dialContextWithRetry(g)
  <2>1. PICK g \in DlRacers : dialContextWithRetry(g)
    BY <1>1
  <2>2. CASE \E tries : Race([dlRace EXCEPT !.tries = tries])
    <3>1. PICK tries : Race([dlRace EXCEPT !.tries = tries])
      BY <2>2
    <3>2. dlRace' = [tries |-> tries, sent |-> dlRace.sent, chan |-> dlRace.chan, taken |-> dlRace.taken,
                     ret |-> dlRace.ret, open |-> dlRace.open, closed |-> dlRace.closed, panic |-> dlRace.panic]
      BY <3>1 DEF Race, RaceInv
    <3>3. Sent' = Sent
      BY <3>2 DEF Sent
    <3> QED BY <3>2, <3>3 DEF RaceInv
  <2>3. CASE \E tries : Send(g, 0, tries, dlRace.open)
    BY <2>1, <2>3, SendKeeps DEF dialContextWithRetry
  <2>4. CASE Send(g, g, dlRace.tries, dlRace.open \cup {g})
    BY <2>1, <2>4, SendKeeps DEF dialContextWithRetry
  <2> QED BY <2>1, <2>2, <2>3, <2>4 DEF dialContextWithRetry
<1>2. CASE getResultFromConnChan
  <2> DEFINE v == Head(dlRace.chan)
             ret == IF v # 0 THEN v ELSE IF dlRace.taken + 1 = Cardinality(DlRacers) THEN 0 ELSE DlWaiting
  <2>1. dlRace.chan # <<>> /\ dlRace.ret = DlWaiting
    BY <1>2 DEF getResultFromConnChan
  <2>2. Race([dlRace EXCEPT !.chan = Tail(@), !.taken = @ + 1, !.ret = ret, !.open = dlRace.open])
    BY <1>2 DEF getResultFromConnChan, Race, RaceInv
  <2>3. ret \in {v, DlWaiting} /\ (v # 0 => ret = v)
    OBVIOUS
  <2> HIDE DEF ret
  <2> QED BY <2>1, <2>2, <2>3, ReceiveKeeps
<1>3. CASE drainConnChan
  <2>1. CASE dlRace.taken >= Cardinality(DlRacers) /\ Race([dlRace EXCEPT !.closed = TRUE])
    <3>1. dlRace' = [tries |-> dlRace.tries, sent |-> dlRace.sent, chan |-> dlRace.chan, taken |-> dlRace.taken,
                     ret |-> dlRace.ret, open |-> dlRace.open, closed |-> TRUE, panic |-> dlRace.panic]
      BY <2>1 DEF Race, RaceInv
    <3>2. Sent' = Sent /\ dlRace.ret # DlWaiting
      BY <1>3, <3>1 DEF Sent, drainConnChan
    <3> QED BY <2>1, <3>1, <3>2 DEF RaceInv
  <2>2. CASE Drops
    <3>1. Race([dlRace EXCEPT !.chan = Tail(@), !.taken = @ + 1, !.ret = dlRace.ret,
                              !.open = dlRace.open \ {Head(dlRace.chan)}])
      BY <2>2 DEF Drops, Race, RaceInv
    <3> QED BY <2>2, <3>1, ReceiveKeeps DEF Drops
  <2> QED BY <1>3, <2>1, <2>2 DEF drainConnChan
<1> QED BY <1>1, <1>2, <1>3

\* What the invariant says when the channel is closed: all have sent, and nothing is left to receive.
LEMMA RaceGives == ASSUME RaceInv PROVE OneSocketKept /\ dlRace.taken \in 0..Cardinality(DlRacers)
<1>1. dlRace.sent \in SUBSET DlRacers
  BY DEF RaceInv
<1>2. Len(dlRace.chan) \in Nat /\ DOMAIN dlRace.chan = 1..Len(dlRace.chan)
  BY DEF RaceInv
<1>3. dlRace.taken \in 0..Cardinality(DlRacers)
  BY <1>1, <1>2, Racers DEF RaceInv
<1>4. ASSUME dlRace.closed PROVE dlRace.open = {dlRace.ret} \ {0}
  <2>1. Len(dlRace.chan) = 0
    BY <1>1, <1>2, <1>4, Racers DEF RaceInv
  <2>2. Sent = {} /\ dlRace.ret # DlWaiting
    BY <1>2, <1>4, <2>1 DEF Sent, RaceInv
  <2> QED BY <2>2 DEF RaceInv
<1> QED BY <1>3, <1>4 DEF OneSocketKept, RaceInv

-----------------------------------------------------------------------------
(* The resolving dialer. *)

\* A set of numbers has a least one.
LEMMA LeastPlace ==
  ASSUME NEW S, S \subseteq Nat, S # {}
  PROVE  \E k \in S : \A j \in S : k <= j
<1>1. PICK k \in S : \A j \in S : ~(<<j, k>> \in OpToRel(<, Nat))
  BY NatLessThanWellFounded, WFMin
<1>2. \A j \in S : ~(j < k)
  BY <1>1 DEF OpToRel
<1> QED BY <1>2

\* The places NewResolveDialer keeps hold every address once.
LEMMA KeepsAll ==
  ASSUME NEW T, NEW s \in Seq(T)
  PROVE  /\ NewResolveDialer(s) \subseteq DOMAIN s
         /\ \A i, j \in NewResolveDialer(s) : s[i] = s[j] => i = j
         /\ Range(s) = {s[i] : i \in NewResolveDialer(s)}
<1>1. Len(s) \in Nat /\ DOMAIN s = 1..Len(s)
  OBVIOUS
<1>2. \A i, j \in NewResolveDialer(s) : s[i] = s[j] => i = j
  <2> SUFFICES ASSUME NEW i \in NewResolveDialer(s), NEW j \in NewResolveDialer(s), s[i] = s[j] PROVE i = j
    OBVIOUS
  <2>1. i \in 1..Len(s) /\ j \in 1..Len(s)
    BY <1>1 DEF NewResolveDialer
  <2>2. ~(i < j) /\ ~(j < i)
    BY <1>1, <2>1 DEF NewResolveDialer
  <2> QED BY <2>1, <2>2
<1>3. \A i \in DOMAIN s : \E j \in NewResolveDialer(s) : s[j] = s[i]
  <2> SUFFICES ASSUME NEW i \in DOMAIN s PROVE \E j \in NewResolveDialer(s) : s[j] = s[i]
    OBVIOUS
  <2> DEFINE S == {j \in 1..Len(s) : s[j] = s[i]}
  <2>1. S \subseteq Nat /\ S # {}
    BY <1>1
  <2>2. PICK k \in S : \A j \in S : k <= j
    BY <2>1, LeastPlace
  <2>3. k \in 1..Len(s) /\ s[k] = s[i]
    BY <2>2
  <2>4. \A j \in 1..(k - 1) : j \in 1..Len(s) /\ ~(k <= j)
    BY <1>1, <2>3
  <2>5. \A j \in 1..(k - 1) : s[j] # s[k]
    BY <2>2, <2>3, <2>4
  <2> QED BY <1>1, <2>3, <2>5 DEF NewResolveDialer
<1> QED BY <1>2, <1>3 DEF NewResolveDialer, Range

\* The addresses of an answer and of the options.
LEMMA Addresses ==
  /\ \A n \in DOMAIN DlAnswers : DlAnswers[n] \in Seq(Range(DlAnswers[n]))
                                 /\ \A a \in Range(DlAnswers[n]) : ~IsName(a)
  /\ \A scn \in DlScenarios : scn.options.addresses \in Seq(Range(scn.options.addresses))
                              /\ \A a \in Range(scn.options.addresses) : ~IsName(a)
<1>1. ASSUME NEW s, s \in Seq(Range(s) \ DOMAIN DlAnswers)
      PROVE s \in Seq(Range(s)) /\ \A a \in Range(s) : ~IsName(a)
  <2> DEFINE S == Range(s)
  <2>1. \A i \in DOMAIN s : s[i] \in S \ DOMAIN DlAnswers
    <3> HIDE DEF S
    <3> QED BY <1>1 DEF S
  <2>2. \A a \in Range(s) : ~IsName(a)
    BY <2>1 DEF Range, IsName
  <2>3. s \in Seq(S)
    <3> HIDE DEF S
    <3> QED BY <1>1 DEF S
  <2> QED BY <2>2, <2>3
<1> QED BY <1>1, DlAssumption

\* One address more was tried.
LEMMA OneMoreTried ==
  ASSUME NEW S, NEW s \in Seq(S), NEW a \in S
  PROVE  /\ Append(s, a) \in Seq(S) /\ Range(Append(s, a)) = Range(s) \cup {a}
         /\ IsInjective(s) /\ a \notin Range(s) => IsInjective(Append(s, a))
<1>1. /\ Len(s) \in Nat /\ DOMAIN s = 1..Len(s) /\ Append(s, a) \in Seq(S)
      /\ DOMAIN Append(s, a) = 1..(Len(s) + 1)
      /\ Append(s, a)[Len(s) + 1] = a /\ \A i \in 1..Len(s) : Append(s, a)[i] = s[i]
  BY AppendOf
<1>2. \A i \in 1..(Len(s) + 1) : i \in 1..Len(s) \/ i = Len(s) + 1
  BY <1>1
<1>3. Len(s) + 1 \in 1..(Len(s) + 1) /\ \A i \in 1..Len(s) : i \in 1..(Len(s) + 1)
  BY <1>1
<1>4. Range(Append(s, a)) = Range(s) \cup {a}
  BY <1>1, <1>2, <1>3 DEF Range
<1>5. IsInjective(s) /\ a \notin Range(s) => IsInjective(Append(s, a))
  BY <1>1, <1>2 DEF Range, IsInjective
<1> QED BY <1>1, <1>4, <1>5

\* A new call.
LEMMA CallNew == ASSUME NEW d, NEW addresses, NEW resolve PROVE CallOk(NoCall, d, addresses, resolve)
<1>1. Range(<<>>) = {} /\ IsInjective(<<>>) /\ <<>> \in Seq({})
  BY DEF Range, IsInjective
<1>2. Left(NoCall) = {}
  BY DEF Left, NoCall
<1> QED BY <1>1, <1>2 DEF CallOk, NoCall, CallPcs

\* A call that knows its addresses.
LEMMA CallStarts ==
  ASSUME NEW d, NEW addresses, NEW resolve, NEW pc, NEW list, NEW left, NEW k,
         k = [pc |-> pc, list |-> list, left |-> left, tried |-> <<>>, got |-> NoIP],
         pc \in {"prefer", "dial"}, left \subseteq DOMAIN list, Range(list) = {list[i] : i \in left},
         Repeats(d) \/ \A i, j \in left : list[i] = list[j] => i = j,
         \/ list = <<d>> /\ (IsName(d) => ~resolve) /\ pc # "prefer"
         \/ list = addresses
         \/ IsName(d) /\ list = DlAnswers[d]
  PROVE  CallOk(k, d, addresses, resolve)
<1>1. Range(<<>>) = {} /\ IsInjective(<<>>)
  BY DEF Range, IsInjective
<1>2. Left(k) = {list[i] : i \in left}
  BY DEF Left
<1>3. k.tried \in Seq(Range(k.list)) /\ k.tried = <<>>
  OBVIOUS
<1>4. \/ Repeats(d)
      \/ /\ IsInjective(k.tried)
         /\ \A i, j \in k.left : k.list[i] = k.list[j] => i = j
         /\ Left(k) \cap Range(k.tried) = {}
  BY <1>1, <1>3
<1> QED BY <1>1, <1>2, <1>3, <1>4 DEF CallOk, CallPcs

\* A call that goes on with nothing tried.
LEMMA CallGoes ==
  ASSUME NEW d, NEW addresses, NEW resolve, NEW pc, NEW k, CallOk(k, d, addresses, resolve), NEW t,
         t = [k EXCEPT !.pc = pc],
         <<k.pc, pc>> \in {<<"call", "refused">>, <<"prefer", "dial">>, <<"store", "storing">>, <<"storing", "up">>}
  PROVE  CallOk(t, d, addresses, resolve)
<1>1. t = [pc |-> pc, list |-> k.list, left |-> k.left, tried |-> k.tried, got |-> k.got]
  BY DEF CallOk
<1>2. Left(t) = Left(k)
  BY <1>1 DEF Left
<1> QED BY <1>1, <1>2 DEF CallOk, CallPcs

\* A call that tried address a.
LEMMA CallTries ==
  ASSUME NEW d, NEW addresses, NEW resolve, NEW k, CallOk(k, d, addresses, resolve),
         NEW a, NEW left, NEW pc, NEW got, NEW t,
         t = [pc |-> pc, list |-> k.list, left |-> left, tried |-> Append(k.tried, a), got |-> got],
         k.pc \in {"prefer", "dial"}, left \subseteq k.left, Left(k) = {k.list[j] : j \in left} \cup {a},
         Repeats(d) \/ a \notin {k.list[j] : j \in left},
         \/ pc = "failed" /\ got = NoIP /\ left = {}
         \/ pc = "dial" /\ got = NoIP
         \/ pc = "up" /\ got = a
         \/ pc = "store" /\ got = a /\ (k.pc = "prefer" \/ (IsName(d) /\ resolve))
  PROVE  CallOk(t, d, addresses, resolve)
<1> DEFINE L == {k.list[j] : j \in left}
<1>1. Left(t) = L /\ a \in Left(k) /\ Left(k) \subseteq Range(k.list)
  <2>1. k.left \subseteq DOMAIN k.list
    BY DEF CallOk
  <2>2. Left(t) = L /\ a \in Left(k)
    BY DEF Left
  <2>3. Left(k) \subseteq Range(k.list)
    BY <2>1 DEF Left, Range
  <2> QED BY <2>2, <2>3
<1>2. a \in Range(k.list) /\ k.tried \in Seq(Range(k.list))
  BY <1>1 DEF CallOk
<1>3. /\ t.tried \in Seq(Range(k.list)) /\ Range(t.tried) = Range(k.tried) \cup {a}
      /\ IsInjective(k.tried) /\ a \notin Range(k.tried) => IsInjective(t.tried)
  BY <1>2, OneMoreTried
<1>4. Range(t.list) = Left(t) \cup Range(t.tried)
  BY <1>1, <1>3 DEF CallOk
<1>5. \/ Repeats(d)
      \/ /\ IsInjective(t.tried)
         /\ \A i, j \in t.left : t.list[i] = t.list[j] => i = j
         /\ Left(t) \cap Range(t.tried) = {}
  <2> SUFFICES ASSUME ~Repeats(d)
               PROVE IsInjective(t.tried) /\ (\A i, j \in t.left : t.list[i] = t.list[j] => i = j)
                     /\ Left(t) \cap Range(t.tried) = {}
    OBVIOUS
  <2>1. IsInjective(k.tried) /\ (\A i, j \in k.left : k.list[i] = k.list[j] => i = j)
        /\ Left(k) \cap Range(k.tried) = {}
    BY DEF CallOk
  <2>2. L \subseteq Left(k) /\ a \notin L /\ a \notin Range(k.tried)
    BY <1>1, <2>1
  <2>3. \A i, j \in t.left : t.list[i] = t.list[j] => i = j
    BY <2>1
  <2> HIDE DEF L
  <2> QED BY <1>1, <1>3, <2>1, <2>2, <2>3
<1>6. \/ t.list = <<d>> /\ (IsName(d) => ~resolve) /\ t.pc \notin {"prefer", "store", "storing"}
      \/ t.list = addresses
      \/ IsName(d) /\ t.list = DlAnswers[d]
  <2>1. \/ k.list = <<d>> /\ (IsName(d) => ~resolve) /\ k.pc \notin {"prefer", "store", "storing"}
        \/ k.list = addresses
        \/ IsName(d) /\ k.list = DlAnswers[d]
    BY DEF CallOk
  <2> QED BY <2>1
<1>7. t.pc \in CallPcs \ {"call", "prefer", "refused", "storing"} /\ t.left \subseteq DOMAIN t.list
  BY DEF CallOk, CallPcs
<1>8. t = [pc |-> t.pc, list |-> t.list, left |-> t.left, tried |-> t.tried, got |-> t.got]
      /\ t.got \in Range(t.list) \cup {NoIP} /\ (t.pc = "dial" => t.got = NoIP)
      /\ (t.pc = "store" => t.got \in Range(t.list)) /\ (t.pc = "failed" => t.left = {})
  BY <1>2
<1>9. t.tried \in Seq(Range(t.list))
  BY <1>3
<1> HIDE DEF L
<1> QED BY <1>4, <1>5, <1>6, <1>7, <1>8, <1>9 DEF CallOk

\* What New wires: without a ResolveDialer names go to a detour, and auto_redirect's mark is alone.
LEMMA WiresRight ==
  ASSUME NEW o, NEW direct, o.router, ~o.wireGuard, DlNew(o, direct) # Failed
  PROVE  /\ ~DlNew(o, direct).resolve => DlNew(o, direct).base = "detour" /\ ~o.strategy
         /\ DlNew(o, direct).addresses = NewResolveDialer(o.addresses)
         /\ o.autoRedirect /\ DlNew(o, direct).base = "system" => DlNew(o, direct).marks = {"redirect"}
<1> DEFINE d == IF o.detour THEN [base |-> "detour"] ELSE NewDefault(o)
<1>1. d # Failed /\ DlNew(o, direct) =
        [base      |-> d.base,
         marks     |-> IF o.detour THEN {} ELSE d.marks,
         resolve   |-> o.strategy \/ ~o.detour \/ (~direct /\ o.addresses # <<>>),
         parallel  |-> ~o.detour /\ ~o.tfo /\ o.strategy,
         addresses |-> NewResolveDialer(o.addresses)]
  BY DEF DlNew
<1>2. ~o.detour /\ o.autoRedirect => d.marks = {"redirect"}
  BY <1>1 DEF NewDefault
<1>3. o.detour => d.base = "detour"
  OBVIOUS
<1> HIDE DEF d
<1>4. PICK r : r = DlNew(o, direct)
  OBVIOUS
<1>5. r.base = d.base /\ r.addresses = NewResolveDialer(o.addresses)
      /\ r.marks = IF o.detour THEN {} ELSE d.marks
  BY <1>1, <1>4
<1>6. ~r.resolve => o.detour /\ ~o.strategy
  <2>1. r.resolve = (o.strategy \/ ~o.detour \/ (~direct /\ o.addresses # <<>>))
    BY <1>1, <1>4
  <2> QED BY <2>1, ZenonT(30)
<1>7. o.autoRedirect /\ r.base = "system" => r.marks = {"redirect"}
  BY <1>2, <1>3, <1>5
<1> QED BY <1>3, <1>4, <1>5, <1>6, <1>7

\* At the start nobody calls.
LEMMA CallsStart == ASSUME DlInit PROVE CallsInv
<1>1. dlScn \in DlScenarios /\ dlPrefer = NoIP /\ dlCall = [c \in DOMAIN dlScn.names |-> NoCall]
  BY DEF DlInit, DlStart
<1>2. \A c \in DOMAIN dlScn.names : dlCall[c] = NoCall /\ dlCall[c].pc = "call"
  BY <1>1 DEF NoCall
<1> QED BY <1>1, <1>2, CallNew DEF CallsInv

\* A step of one call.
LEMMA CallStep ==
  ASSUME CallsInv, NEW c \in DOMAIN dlScn.names, NEW t, Call(c, t),
         CallOk(t, dlScn.names[c], dlScn.options.addresses, Dialer.resolve),
         Dialer = Failed => t.pc = "refused",
         dlPrefer' \in {NoIP, Torn} \cup (UNION {Range(DlAnswers[n]) : n \in DOMAIN DlAnswers})
                       \cup Range(dlScn.options.addresses)
  PROVE  CallsInv'
<1>1. dlScn' = dlScn /\ Dialer' = Dialer /\ dlCall' = [dlCall EXCEPT ![c] = t]
  BY DEF Call, Dialer
<1>2. dlCall = [x \in DOMAIN dlScn.names |-> dlCall[x]]
  BY DEF CallsInv
<1>3. dlCall' = [x \in DOMAIN dlScn.names |-> dlCall'[x]] /\ dlCall'[c] = t
      /\ \A x \in DOMAIN dlScn.names \ {c} : dlCall'[x] = dlCall[x]
  BY <1>1, <1>2
<1>4. \A x \in DOMAIN dlScn.names : CallOk(dlCall'[x], dlScn.names[x], dlScn.options.addresses, Dialer.resolve)
  BY <1>3 DEF CallsInv
<1>5. Dialer = Failed => \A x \in DOMAIN dlScn.names : dlCall'[x].pc \in {"call", "refused"}
  BY <1>3 DEF CallsInv
<1> QED BY <1>1, <1>3, <1>4, <1>5 DEF CallsInv

\* The three ways a lookup ends.
LEMMA LookupKeeps == ASSUME CallsInv, NEW c \in DOMAIN dlScn.names, lookup(c) PROVE CallsInv'
<1> DEFINE d == dlScn.names[c]
           k == dlCall[c]
           addresses == dlScn.options.addresses
<1>1. CallOk(k, d, addresses, Dialer.resolve) /\ k.pc = "call" /\ dlScn \in DlScenarios
  BY DEF lookup, At, CallsInv
<1>2. dlPrefer' \in {NoIP, Torn} \cup (UNION {Range(DlAnswers[n]) : n \in DOMAIN DlAnswers}) \cup Range(addresses)
  BY DEF lookup, CallsInv
<1>3. CASE Goes(c, "refused")
  <2>1. PICK t : t = [k EXCEPT !.pc = "refused"] /\ Call(c, t)
    BY <1>3 DEF Goes
  <2>2. CallOk(t, d, addresses, Dialer.resolve)
    <3> HIDE DEF k, d, addresses
    <3> QED BY <1>1, <2>1, CallGoes
  <2>3. t.pc = "refused"
    BY <1>1, <2>1 DEF CallOk
  <2> QED BY <1>2, <2>1, <2>2, <2>3, CallStep
<1>4. CASE Dialer # Failed /\ (~IsName(d) \/ ~Dialer.resolve) /\ Starts(c, "dial", <<d>>, {1})
  <2>1. PICK t : t = [pc |-> "dial", list |-> <<d>>, left |-> {1}, tried |-> <<>>, got |-> NoIP] /\ Call(c, t)
    BY <1>4 DEF Starts
  <2>2. DOMAIN <<d>> = {1} /\ Range(<<d>>) = {<<d>>[i] : i \in {1}}
    BY DEF Range
  <2>3. CallOk(t, d, addresses, Dialer.resolve)
    <3> HIDE DEF d, addresses
    <3> QED BY <1>4, <2>1, <2>2, CallStarts
  <2> QED BY <1>2, <1>4, <2>1, <2>3, CallStep
<1>5. CASE Dialer # Failed /\ IsName(d) /\ Dialer.resolve /\ addresses # <<>>
           /\ Starts(c, "prefer", addresses, Dialer.addresses)
  <2>1. PICK t : t = [pc |-> "prefer", list |-> addresses, left |-> Dialer.addresses, tried |-> <<>>, got |-> NoIP]
                 /\ Call(c, t)
    BY <1>5 DEF Starts
  <2>2. addresses \in Seq(Range(addresses))
    BY <1>1, Addresses
  <2>3. Dialer.addresses = NewResolveDialer(addresses)
    BY <1>5 DEF Dialer, DlNew, NewDefault
  <2>4. CallOk(t, d, addresses, Dialer.resolve)
    <3>1. Dialer.addresses \subseteq DOMAIN addresses
          /\ (\A i, j \in Dialer.addresses : addresses[i] = addresses[j] => i = j)
          /\ Range(addresses) = {addresses[i] : i \in Dialer.addresses}
      BY <2>2, <2>3, KeepsAll
    <3> HIDE DEF d, addresses
    <3> QED BY <2>1, <3>1, CallStarts
  <2> QED BY <1>2, <1>5, <2>1, <2>4, CallStep
<1>6. CASE Dialer # Failed /\ IsName(d) /\ Starts(c, "prefer", DlAnswers[d], DOMAIN DlAnswers[d])
  <2>1. PICK t : t = [pc |-> "prefer", list |-> DlAnswers[d], left |-> DOMAIN DlAnswers[d], tried |-> <<>>, got |-> NoIP]
                 /\ Call(c, t)
    BY <1>6 DEF Starts
  <2>2. CallOk(t, d, addresses, Dialer.resolve)
    <3>1. Range(DlAnswers[d]) = {DlAnswers[d][i] : i \in DOMAIN DlAnswers[d]}
      BY DEF Range
    <3>2. Repeats(d) \/ \A i, j \in DOMAIN DlAnswers[d] : DlAnswers[d][i] = DlAnswers[d][j] => i = j
      BY <1>6 DEF Repeats, IsInjective
    <3> HIDE DEF d, addresses
    <3> QED BY <1>6, <2>1, <3>1, <3>2, CallStarts
  <2> QED BY <1>2, <1>6, <2>1, <2>2, CallStep
<1> QED BY <1>3, <1>4, <1>5, <1>6 DEF lookup

\* An attempt that leaves the places left, with its two outcomes.
LEMMA AttemptKeeps ==
  ASSUME CallsInv, NEW c \in DOMAIN dlScn.names, NEW a, NEW left, NEW pc,
         Connects(c, a, left, pc) \/ Misses(c, a, left), UNCHANGED dlPrefer,
         dlCall[c].pc \in {"prefer", "dial"}, left \subseteq dlCall[c].left,
         Left(dlCall[c]) = {dlCall[c].list[j] : j \in left} \cup {a},
         Repeats(dlScn.names[c]) \/ a \notin {dlCall[c].list[j] : j \in left},
         pc = "up" \/ (pc = "store" /\ (dlCall[c].pc = "prefer" \/ (IsName(dlScn.names[c]) /\ Dialer.resolve)))
  PROVE  CallsInv'
<1> DEFINE d == dlScn.names[c]
           k == dlCall[c]
           addresses == dlScn.options.addresses
<1>1. CallOk(k, d, addresses, Dialer.resolve) /\ Dialer # Failed
  BY DEF CallsInv
<1>2. dlPrefer' \in {NoIP, Torn} \cup (UNION {Range(DlAnswers[n]) : n \in DOMAIN DlAnswers}) \cup Range(addresses)
  BY DEF CallsInv
<1>3. PICK t, at, got :
        /\ t = [pc |-> at, list |-> k.list, left |-> left, tried |-> Append(k.tried, a), got |-> got] /\ Call(c, t)
        /\ \/ at = "failed" /\ got = NoIP /\ left = {}
           \/ at = "dial" /\ got = NoIP
           \/ at = pc /\ got = a
  <2>1. CASE Connects(c, a, left, pc)
    BY <2>1 DEF Connects
  <2>2. CASE Misses(c, a, left)
    BY <2>2 DEF Misses
  <2> QED BY <2>1, <2>2
<1>4. CallOk(t, d, addresses, Dialer.resolve)
  <2>1. /\ k.pc \in {"prefer", "dial"} /\ left \subseteq k.left /\ Left(k) = {k.list[j] : j \in left} \cup {a}
        /\ Repeats(d) \/ a \notin {k.list[j] : j \in left}
    OBVIOUS
  <2>2. \/ at = "failed" /\ got = NoIP /\ left = {}
        \/ at = "dial" /\ got = NoIP
        \/ at = "up" /\ got = a
        \/ at = "store" /\ got = a /\ (k.pc = "prefer" \/ (IsName(d) /\ Dialer.resolve))
    BY <1>3
  <2> HIDE DEF k, d, addresses
  <2> QED BY <1>1, <1>3, <2>1, <2>2, CallTries
<1> QED BY <1>1, <1>2, <1>3, <1>4, CallStep

\* The preferred address, or the next ones.
LEMMA DialKeeps ==
  ASSUME CallsInv, NEW c \in DOMAIN dlScn.names, DialContext(c) \/ dialContextWithAddr(c)
  PROVE  CallsInv'
<1> DEFINE d == dlScn.names[c]
           k == dlCall[c]
           addresses == dlScn.options.addresses
<1>1. CallOk(k, d, addresses, Dialer.resolve) /\ UNCHANGED dlPrefer /\ k.pc \in {"prefer", "dial"}
  BY DEF CallsInv, DialContext, dialContextWithAddr, At
<1>2. dlPrefer' \in {NoIP, Torn} \cup (UNION {Range(DlAnswers[n]) : n \in DOMAIN DlAnswers}) \cup Range(addresses)
  BY <1>1 DEF CallsInv
<1>3. CASE k.pc = "prefer" /\ Goes(c, "dial")
  <2>1. PICK t : t = [k EXCEPT !.pc = "dial"] /\ Call(c, t)
    BY <1>3 DEF Goes
  <2>2. CallOk(t, d, addresses, Dialer.resolve)
    <3> HIDE DEF k, d, addresses
    <3> QED BY <1>1, <1>3, <2>1, CallGoes
  <2>3. Dialer # Failed
    BY <1>3 DEF CallsInv
  <2> QED BY <1>2, <2>1, <2>2, <2>3, CallStep
<1>4. CASE DialContext(c) /\ Preferred(c)
  <2> DEFINE left == {i \in k.left : k.list[i] # dlPrefer}
  <2>1. k.pc = "prefer" /\ (Connects(c, dlPrefer, left, "store") \/ Misses(c, dlPrefer, left))
    BY <1>4 DEF DialContext, At
  <2>2. left \subseteq k.left /\ Left(k) = {k.list[j] : j \in left} \cup {dlPrefer}
        /\ dlPrefer \notin {k.list[j] : j \in left}
    BY <1>4 DEF Left, Preferred
  <2> HIDE DEF left
  <2> QED BY <1>1, <2>1, <2>2, AttemptKeeps
<1>5. CASE dialContextWithAddr(c)
  <2> DEFINE next == IF Stores /\ Dialer.resolve /\ IsName(d) THEN "store" ELSE "up"
  <2>1. PICK i \in k.left : Connects(c, k.list[i], k.left \ {i}, next) \/ Misses(c, k.list[i], k.left \ {i})
    BY <1>5 DEF dialContextWithAddr
  <2>2. Left(k) = {k.list[j] : j \in k.left \ {i}} \cup {k.list[i]}
    BY DEF Left
  <2>3. Repeats(d) \/ k.list[i] \notin {k.list[j] : j \in k.left \ {i}}
    BY <1>1 DEF CallOk
  <2>4. next = "up" \/ (next = "store" /\ IsName(d) /\ Dialer.resolve)
    OBVIOUS
  <2>5. PICK a, left : a = k.list[i] /\ left = k.left \ {i}
    OBVIOUS
  <2>6. /\ Connects(c, a, left, next) \/ Misses(c, a, left)
        /\ left \subseteq k.left /\ Left(k) = {k.list[j] : j \in left} \cup {a}
        /\ Repeats(d) \/ a \notin {k.list[j] : j \in left}
    BY <2>1, <2>2, <2>3, <2>5
  <2> HIDE DEF next
  <2> QED BY <1>1, <2>4, <2>6, AttemptKeeps
<1> QED BY <1>3, <1>4, <1>5 DEF DialContext, At

\* The stored address is one of the call's.
LEMMA StoreKeeps == ASSUME CallsInv, NEW c \in DOMAIN dlScn.names, StorePreferred(c) PROVE CallsInv'
<1> DEFINE d == dlScn.names[c]
           k == dlCall[c]
           addresses == dlScn.options.addresses
<1>1. CallOk(k, d, addresses, Dialer.resolve) /\ k.pc \in {"store", "storing"}
  BY DEF CallsInv, StorePreferred, At
<1>2. PICK t, pc : t = [k EXCEPT !.pc = pc] /\ Call(c, t) /\ dlPrefer' \in {Torn, k.got}
                   /\ <<k.pc, pc>> \in {<<"store", "storing">>, <<"storing", "up">>}
  BY DEF StorePreferred, At, Goes
<1>3. CallOk(t, d, addresses, Dialer.resolve)
  <2> HIDE DEF k, d, addresses
  <2> QED BY <1>1, <1>2, CallGoes
<1>4. k.got \in Range(k.list) /\ (k.list = addresses \/ (IsName(d) /\ k.list = DlAnswers[d]))
  BY <1>1 DEF CallOk
<1>5. dlPrefer' \in {NoIP, Torn} \cup (UNION {Range(DlAnswers[n]) : n \in DOMAIN DlAnswers}) \cup Range(addresses)
  BY <1>2, <1>4 DEF IsName
<1>6. Dialer # Failed
  BY <1>1 DEF CallsInv
<1> QED BY <1>2, <1>3, <1>5, <1>6, CallStep

-----------------------------------------------------------------------------
DlInv == CallsInv /\ RaceInv /\ TrackInv

\* At the start all three hold.
LEMMA DlInvStart == DlInit => DlInv
BY CallsStart, RaceStart, TrackStart DEF DlInv

\* Each step belongs to one of the three parts.
LEMMA DlInvNext == DlInv /\ [DlNext]_dlVars => DlInv'
<1> SUFFICES ASSUME DlInv, [DlNext]_dlVars PROVE DlInv'
  OBVIOUS
<1> USE DEF DlInv
<1>1. UNCHANGED <<dlScn, dlPrefer, dlCall>> => CallsInv'
  BY DEF CallsInv, Dialer
<1>2. UNCHANGED dlRace => RaceInv'
  BY DEF RaceInv, Sent
<1>3. UNCHANGED dlTrack => TrackInv'
  BY DEF TrackInv, CountRight
<1>4. DOMAIN dlCall = DOMAIN dlScn.names
  BY DEF CallsInv
<1>5. ASSUME NEW c \in DOMAIN dlCall, lookup(c) \/ DialContext(c) \/ dialContextWithAddr(c) \/ StorePreferred(c)
      PROVE DlInv'
  <2>1. CallsInv'
    BY <1>4, <1>5, LookupKeeps, DialKeeps, StoreKeeps
  <2>2. UNCHANGED <<dlRace, dlTrack>>
    BY <1>5 DEF lookup, DialContext, dialContextWithAddr, StorePreferred, Goes, Starts, Connects, Misses, Call
  <2> QED BY <1>2, <1>3, <2>1, <2>2
<1>6. ASSUME (\E g \in DlRacers : dialContextWithRetry(g)) \/ getResultFromConnChan \/ drainConnChan
      PROVE DlInv'
  <2>1. UNCHANGED <<dlScn, dlPrefer, dlCall, dlTrack>>
    BY <1>6 DEF dialContextWithRetry, getResultFromConnChan, drainConnChan, Drops, Send, Race
  <2> QED BY <1>1, <1>3, <1>6, <2>1, RaceNext
<1>7. ASSUME (\E i \in DlConns : NewConn(i) \/ KillerCheck(i) \/ ConnClose(i)) \/ CloseConnections
      PROVE DlInv'
  <2>1. UNCHANGED <<dlScn, dlPrefer, dlCall, dlRace>>
    BY <1>7 DEF NewConn, KillerCheck, ConnClose, CloseConnections, TrackClose, Passes, Track
  <2> QED BY <1>1, <1>2, <1>7, <2>1, TrackNext, TrackCloseAll
<1>8. CASE UNCHANGED dlVars
  BY <1>1, <1>2, <1>3, <1>8 DEF dlVars
<1> QED BY <1>5, <1>6, <1>7, <1>8 DEF DlNext

\* What the invariant says of the names.
LEMMA CallsGive == ASSUME CallsInv PROVE OwnAddress /\ FailsLast /\ NamesResolvedHere
<1>1. \A c \in DOMAIN dlCall : CallOk(dlCall[c], dlScn.names[c], dlScn.options.addresses, Dialer.resolve)
      /\ DOMAIN dlCall = DOMAIN dlScn.names /\ dlScn \in DlScenarios
  BY DEF CallsInv
<1>2. OwnAddress
  BY <1>1 DEF OwnAddress, CallOk, Repeats
<1>3. FailsLast
  <2> SUFFICES ASSUME NEW c \in DOMAIN dlCall, dlCall[c].pc = "failed"
               PROVE Range(dlCall[c].tried) = Range(dlCall[c].list)
    BY DEF FailsLast
  <2> DEFINE k == dlCall[c]
  <2>1. k.left = {} /\ Range(k.list) = Left(k) \cup Range(k.tried)
    BY <1>1 DEF CallOk
  <2>2. Left(k) = {}
    BY <2>1 DEF Left
  <2> QED BY <2>1, <2>2
<1>4. NamesResolvedHere
  <2> SUFFICES ASSUME dlScn.options.router, ~dlScn.options.wireGuard
               PROVE /\ \A c \in DOMAIN dlCall : \A i \in DOMAIN dlCall[c].tried :
                          IsName(dlCall[c].tried[i]) => Dialer.base = "detour" /\ ~dlScn.options.strategy
                     /\ dlScn.options.autoRedirect /\ Dialer.base = "system" => Dialer.marks = {"redirect"}
    BY DEF NamesResolvedHere
  <2>1. Dialer.base = "system" => Dialer # Failed
    BY DEF Failed
  <2>2. Dialer # Failed =>
          /\ ~Dialer.resolve => Dialer.base = "detour" /\ ~dlScn.options.strategy
          /\ dlScn.options.autoRedirect /\ Dialer.base = "system" => Dialer.marks = {"redirect"}
    BY WiresRight DEF Dialer
  <2>3. ASSUME NEW c \in DOMAIN dlCall, NEW i \in DOMAIN dlCall[c].tried, IsName(dlCall[c].tried[i])
        PROVE Dialer # Failed /\ ~Dialer.resolve
    <3> DEFINE k == dlCall[c]
               a == dlCall[c].tried[i]
               d == dlScn.names[c]
    <3>1. CallOk(k, d, dlScn.options.addresses, Dialer.resolve)
      BY <1>1
    <3>2. a \in Range(k.list)
      BY <3>1 DEF CallOk
    <3>3. k.pc \notin {"call", "refused"}
      BY <3>1, <3>2 DEF CallOk, Range
    <3>4. Dialer # Failed
      BY <1>1, <3>3 DEF CallsInv
    <3>5. k.list # dlScn.options.addresses /\ ~(IsName(d) /\ k.list = DlAnswers[d])
      BY <1>1, <2>3, <3>2, Addresses DEF IsName
    <3>6. k.list = <<d>> /\ (IsName(d) => ~Dialer.resolve)
      BY <3>1, <3>3, <3>5 DEF CallOk
    <3>7. a = d
      BY <3>2, <3>6 DEF Range
    <3> QED BY <2>3, <3>4, <3>6, <3>7
  <2> QED BY <2>1, <2>2, <2>3
<1> QED BY <1>2, <1>3, <1>4

\* A resolving dialer connects a name only to the name's own addresses, whatever other callers store and however
\* the unlocked address is read; it fails only after all of them; and names never reach the system's resolver.
THEOREM DialersAlwaysSound == DlSpec => []DialersSound
<1>1. DlInv => DialersSound
  <2> SUFFICES ASSUME DlInv PROVE DialersSound
    OBVIOUS
  <2>1. OwnAddress /\ FailsLast /\ NamesResolvedHere
    BY CallsGive DEF DlInv
  <2>2. dlRace.taken \in 0..Cardinality(DlRacers)
    BY RaceGives DEF DlInv
  <2>3. dlTrack.len \in Int
    <3>1. IsFiniteSet(dlTrack.list)
      BY DlAssumption, FS_Subset DEF DlInv, TrackInv
    <3> QED BY <3>1, FS_CardinalityType DEF DlInv, TrackInv, CountRight
  <2>4. DlTypeOK
    BY <2>2, <2>3 DEF DlInv, CallsInv, CallOk, CallPcs, DlTypeOK
  <2> QED BY <2>1, <2>4 DEF DialersSound
<1> QED BY <1>1, DlInvStart, DlInvNext, PTL DEF DlSpec

\* Of the sockets that any number of goroutines dial at once exactly the returned one is left open, and none of
\* them sends on the closed channel (getResultFromConnChan).
THEOREM RaceKeepsOneSocket == DlSpec => []OneSocketKept
<1>1. DlInv => OneSocketKept
  BY RaceGives DEF DlInv
<1> QED BY <1>1, DlInvStart, DlInvNext, PTL DEF DlSpec

\* The connections conntrack counts are those in its list, and they are open (conntrack.Count, Close).
THEOREM CountAlwaysRight == DlSpec => []CountRight
<1>1. DlInv => CountRight
  BY DEF DlInv, TrackInv
<1> QED BY <1>1, DlInvStart, DlInvNext, PTL DEF DlSpec
=============================================================================
