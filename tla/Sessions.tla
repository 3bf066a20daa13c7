------------------------------ MODULE Sessions -----------------------------
(***************************************************************************)
(* Connections that outbounds and DNS transports open when first needed    *)
(* and share between their users:                                          *)
(*                                                                         *)
(*   ssh   the SSH client of outbound/ssh.go, with the goroutine that      *)
(*         forgets it when it ends;                                        *)
(*   bind  the UDP socket under a WireGuard device, ClientBind of          *)
(*         transport/wireguard, used by the device's receive and send      *)
(*         goroutines while BindUpdate closes and reopens it;              *)
(*   dhcp  the upstreams that the DHCP transport creates from an offer,    *)
(*         for the interface that is the default at the time;              *)
(*   dns   the packet session of the DNS outbound;                         *)
(*   boot  the start of the Tor and WireGuard outbounds, step by step.     *)
(*                                                                         *)
(* A scenario names the part it exercises.  Objects are numbered in the    *)
(* order in which they are created, up to SeMax.                           *)
(***************************************************************************)
EXTENDS Integers, Sequences, FiniteSets

CONSTANTS SeScenarios, \* [part, and for boot: type, unresolved]
          SeUsers,     \* concurrent users of a shared connection
          SeMax        \* bound on objects created, network changes and queries

VARIABLES seScn, seSsh, seBind, seDhcp, seDns, seBoot
seVars == <<seScn, seSsh, seBind, seDhcp, seDns, seBoot>>

Nil == 0
Free == Nil

ASSUME SeAssumption == SeMax \in Nat /\ Nil \notin SeUsers /\ \A scn \in SeScenarios : scn.unresolved \in BOOLEAN

Part(p) == seScn.part = p

-----------------------------------------------------------------------------
(* SSH: client and conn are the fields, alive the clients whose connection stands, waits the *)
(* goroutines blocked in client.Wait; user u holds the client got[u].                        *)

NoSsh == [client |-> Nil, conn |-> Nil, lock |-> Free, alive |-> {}, waits |-> {}, made |-> 0,
          updates |-> 0, pc |-> [u \in SeUsers |-> "idle"], got |-> [u \in SeUsers |-> Nil]]

Ssh(r) == seSsh' = [x \in DOMAIN seSsh |-> IF x \in DOMAIN r THEN r[x] ELSE seSsh[x]]
          /\ UNCHANGED <<seScn, seBind, seDhcp, seDns, seBoot>>
SshPc(u, pc) == [seSsh.pc EXCEPT ![u] = pc]
SshAt(u, pc) == Part("ssh") /\ seSsh.pc[u] = pc
SshHas(u) == [seSsh.got EXCEPT ![u] = seSsh.client]

\* Mutant of connectLocked: the client is not looked at again under the lock.
connectLockedBlind(u) ==
  /\ SshAt(u, "lock") /\ seSsh.lock = Free
  /\ Ssh([lock |-> u, pc |-> SshPc(u, "connect")])

\* The check of s.client that connect makes without the lock.
connect(u) ==
  /\ SshAt(u, "idle")
  /\ IF seSsh.client # Nil THEN Ssh([got |-> SshHas(u), pc |-> SshPc(u, "dial")])
     ELSE Ssh([pc |-> SshPc(u, "lock")])

connectLocked(u) ==
  /\ SshAt(u, "lock") /\ seSsh.lock = Free
  /\ IF seSsh.client # Nil THEN Ssh([got |-> SshHas(u), pc |-> SshPc(u, "dial")])
     ELSE Ssh([lock |-> u, pc |-> SshPc(u, "connect")])

\* The server is dialled and the handshake made, under the lock.
connectDone(u) ==
  /\ SshAt(u, "connect")
  /\ \/ Ssh([lock |-> Free, pc |-> SshPc(u, "idle")])
     \/ /\ seSsh.made < SeMax
        /\ LET id == seSsh.made + 1 IN
           Ssh([made |-> id, client |-> id, conn |-> id, alive |-> seSsh.alive \cup {id},
                waits |-> seSsh.waits \cup {id}, lock |-> Free,
                got |-> [seSsh.got EXCEPT ![u] = id], pc |-> SshPc(u, "dial")])

\* client.Dial: fails on a client whose connection is gone.
SshDial(u) == SshAt(u, "dial") /\ Ssh([pc |-> SshPc(u, "idle"), got |-> [seSsh.got EXCEPT ![u] = Nil]])

\* InterfaceUpdated, or the server ends the connection.
InterfaceUpdated ==
  /\ Part("ssh") /\ seSsh.updates < SeMax /\ seSsh.conn # Nil
  /\ Ssh([alive |-> seSsh.alive \ {seSsh.conn}, updates |-> seSsh.updates + 1])

\* The goroutine behind client id: client.Wait returned.
SshWait(id) ==
  /\ Part("ssh") /\ id \in seSsh.waits \ seSsh.alive /\ seSsh.lock = Free
  /\ Ssh([waits |-> seSsh.waits \ {id}, client |-> Nil, conn |-> Nil])

-----------------------------------------------------------------------------
(* ClientBind: done is the channel of the bind, open the sockets not closed. *)

NoBind == [done |-> FALSE, conn |-> Nil, open |-> {}, lock |-> Free, made |-> 0, cycle |-> "open",
           resets |-> 0, pc |-> [u \in SeUsers |-> "idle"], use |-> [u \in SeUsers |-> Nil]]
Wg(r) == seBind' = [x \in DOMAIN seBind |-> IF x \in DOMAIN r THEN r[x] ELSE seBind[x]]
         /\ UNCHANGED <<seScn, seSsh, seDhcp, seDns, seBoot>>
WgPc(u, pc) == [seBind.pc EXCEPT ![u] = pc]
WgAt(u, pc) == Part("bind") /\ seBind.pc[u] = pc
WgUse(u, id) == Wg([pc |-> WgPc(u, "use"), use |-> [seBind.use EXCEPT ![u] = id]])
WgAlive == seBind.conn # Nil /\ seBind.conn \in seBind.open

\* connect before the lock.
wgConnect(u) ==
  /\ WgAt(u, "idle") /\ seBind.cycle # "closed"
  /\ IF WgAlive THEN WgUse(u, seBind.conn) ELSE Wg([pc |-> WgPc(u, "lock")])

wgConnectLocked(u) ==
  /\ WgAt(u, "lock") /\ seBind.lock = Free
  /\ IF seBind.done THEN Wg([pc |-> WgPc(u, "idle")])
     ELSE IF WgAlive THEN WgUse(u, seBind.conn)
     ELSE Wg([lock |-> u, pc |-> WgPc(u, "socket")])

\* The socket is made, unless the dialer fails.
wgConnectDone(u) ==
  /\ WgAt(u, "socket")
  /\ \/ Wg([lock |-> Free, pc |-> WgPc(u, "idle")])
     \/ /\ seBind.made < SeMax
        /\ LET id == seBind.made + 1 IN
           Wg([made |-> id, conn |-> id, open |-> seBind.open \cup {id}, lock |-> Free,
               pc |-> WgPc(u, "use"), use |-> [seBind.use EXCEPT ![u] = id]])

\* receive and Send: an error closes the socket that was used.
Receive(u) ==
  /\ WgAt(u, "use")
  /\ \/ Wg([pc |-> WgPc(u, "idle")])
     \/ Wg([pc |-> WgPc(u, "idle"), open |-> seBind.open \ {seBind.use[u]}])

\* Close: done first, then, under the lock, the socket.
BindClose ==
  \/ /\ Part("bind") /\ seBind.cycle = "open" /\ seBind.resets < SeMax
     /\ Wg([cycle |-> "closing", done |-> TRUE, resets |-> seBind.resets + 1])
  \/ /\ Part("bind") /\ seBind.cycle = "closing" /\ seBind.lock = Free
     /\ Wg([cycle |-> "closed", open |-> seBind.open \ {seBind.conn}])

\* Open, when the device reopens its bind.
Open ==
  /\ Part("bind") /\ seBind.cycle = "closed"
  /\ \A u \in SeUsers : seBind.pc[u] = "idle"
  /\ Wg([cycle |-> "open", done |-> FALSE])

-----------------------------------------------------------------------------
(* DHCP: iface counts the changes of the default interface, of is the one the upstreams ups   *)
(* are bound to; missed and overlap record that the fetch after a change failed, and that two *)
(* fetches met.                                                                               *)

NoFetch == [pc |-> "none", iface |-> 0, old |-> Nil, new |-> Nil]
NoDhcp == [iface |-> 0, ups |-> Nil, of |-> 0, open |-> {}, made |-> 0, fresh |-> FALSE, missed |-> FALSE,
           overlap |-> FALSE, fetch |-> [f \in {"query", "update"} |-> NoFetch]]
Dhcp(r) == seDhcp' = [x \in DOMAIN seDhcp |-> IF x \in DOMAIN r THEN r[x] ELSE seDhcp[x]]
           /\ UNCHANGED <<seScn, seSsh, seBind, seDns, seBoot>>
Fetch(f, r) == [seDhcp.fetch EXCEPT ![f] = [x \in DOMAIN @ |-> IF x \in DOMAIN r THEN r[x] ELSE @[x]]]
Busy(f) == seDhcp.fetch[f].pc # "none"

\* fetchServers of a query: the servers are old, and another query is not fetching them.
fetchServers ==
  /\ Part("dhcp") /\ ~seDhcp.fresh /\ ~Busy("query")
  /\ Dhcp([fetch |-> Fetch("query", [pc |-> "offer", iface |-> seDhcp.iface]),
           overlap |-> seDhcp.overlap \/ Busy("update")])

\* The default interface changes: interfaceUpdated fetches at once, and takes no lock.
interfaceUpdated ==
  /\ Part("dhcp") /\ seDhcp.iface < SeMax /\ ~Busy("update")
  /\ Dhcp([iface |-> seDhcp.iface + 1, overlap |-> seDhcp.overlap \/ Busy("query"),
           fetch |-> Fetch("update", [pc |-> "offer", iface |-> seDhcp.iface + 1])])

\* fetchServers0, fetchServersResponse: an offer arrives, or none in time, or without servers.
fetchServersResponse(f) ==
  /\ Part("dhcp") /\ seDhcp.fetch[f].pc = "offer"
  /\ \/ Dhcp([fetch |-> Fetch(f, NoFetch), missed |-> seDhcp.missed \/ f = "update"])
     \/ /\ seDhcp.made < SeMax + 2
        /\ LET id == seDhcp.made + 1 IN
           Dhcp([made |-> id, open |-> seDhcp.open \cup {id},
                 fetch |-> Fetch(f, [pc |-> "swap", new |-> id, old |-> seDhcp.ups])])

\* recreateServers: the upstreams read before are closed and the new ones take their place.
recreateServers(f) ==
  /\ Part("dhcp") /\ seDhcp.fetch[f].pc = "swap"
  /\ Dhcp([open |-> seDhcp.open \ {seDhcp.fetch[f].old}, ups |-> seDhcp.fetch[f].new,
           of |-> seDhcp.fetch[f].iface, fresh |-> TRUE, fetch |-> Fetch(f, NoFetch)])

\* DHCPTTL passes.
Expire == Part("dhcp") /\ seDhcp.fresh /\ Dhcp([fresh |-> FALSE])
-----------------------------------------------------------------------------
(* The DNS outbound: query q was read from the packet session, sent by from[q]; replies are  *)
(* the packets written.                                                                      *)

Queries == 1..SeMax
NoDns == [st |-> [q \in Queries |-> "none"], from |-> [q \in Queries |-> Nil],
          dest |-> [q \in Queries |-> Nil], replies |-> {}, causes |-> <<>>, ended |-> FALSE]
Dns(r) == seDns' = [x \in DOMAIN seDns |-> IF x \in DOMAIN r THEN r[x] ELSE seDns[x]]
          /\ UNCHANGED <<seScn, seSsh, seBind, seDhcp, seBoot>>
Unread(q) == seDns.st[q] = "none" /\ \A p \in 1..(q - 1) : seDns.st[p] # "none"
cancel(cause) == Append(seDns.causes, cause)

\* The loop of newPacketConnection: a packet is read and its query handed to a goroutine; a
\* packet that is not a query cancels the session.
ReadPacket ==
  /\ Part("dns") /\ ~seDns.ended
  /\ \E q \in Queries :
       /\ Unread(q)
       /\ \/ \E u \in SeUsers :
               Dns([st |-> [seDns.st EXCEPT ![q] = "asked"], from |-> [seDns.from EXCEPT ![q] = u],
                    dest |-> [seDns.dest EXCEPT ![q] = u]])
          \/ /\ Len(seDns.causes) < SeMax
             /\ Dns([causes |-> cancel("read"), st |-> [seDns.st EXCEPT ![q] = "bad"]])

\* Mutant of Exchange: a failed exchange is dropped.
ExchangeQuiet(q) ==
  /\ Part("dns") /\ seDns.st[q] = "asked"
  /\ \/ Dns([st |-> [seDns.st EXCEPT ![q] = "failed"]])
     \/ Dns([st |-> [seDns.st EXCEPT ![q] = "written"],
             replies |-> seDns.replies \cup {<<q, seDns.dest[q]>>}])

\* The goroutine of query q: the router answers and the reply is written to where the query came
\* from; an error of either cancels the whole session.
Exchange(q) ==
  /\ Part("dns") /\ seDns.st[q] = "asked"
  /\ \/ Dns([causes |-> cancel("exchange"), st |-> [seDns.st EXCEPT ![q] = "failed"]])
     \/ IF seDns.ended THEN Dns([causes |-> cancel("write"), st |-> [seDns.st EXCEPT ![q] = "failed"]])
        ELSE Dns([st |-> [seDns.st EXCEPT ![q] = "written"],
                  replies |-> seDns.replies \cup {<<q, seDns.dest[q]>>}])

\* C.DNSTimeout passed without a packet or an answer.
Timeout == Part("dns") /\ ~seDns.ended /\ seDns.causes = <<>> /\ Dns([causes |-> cancel("timeout")])

\* The group ends: the session is closed and the first cause returned.
SessionEnds == Part("dns") /\ ~seDns.ended /\ seDns.causes # <<>> /\ Dns([ended |-> TRUE])

-----------------------------------------------------------------------------
(* Tor and WireGuard. *)

NoBoot == [phase |-> "new", step |-> 0, open |-> {}, devices |-> 0]
Boot(r) == seBoot' = [x \in DOMAIN seBoot |-> IF x \in DOMAIN r THEN r[x] ELSE seBoot[x]]
           /\ UNCHANGED <<seScn, seSsh, seBind, seDhcp, seDns>>
IsTor == Part("boot") /\ seScn.type = "tor"
IsWg == Part("boot") /\ seScn.type = "wireguard"

\* What each step of Tor.start leaves open.
TorSteps == <<"instance", "events", "proxy", "conf", "options", "network", "socks">>

\* What Tor.Close leaves of it.
TorClose == {}

\* Tor.Start: start, and Close when a step fails.
TorStart ==
  /\ IsTor /\ seBoot.phase = "new"
  /\ LET s == seBoot.step + 1 IN
     \/ Boot([phase |-> "failed", open |-> seBoot.open \cap TorClose])
     \/ Boot([step |-> s, phase |-> IF s = Len(TorSteps) THEN "up" ELSE "new",
              open |-> seBoot.open \cup ({TorSteps[s]} \cap {"instance", "events", "proxy"})])

\* WireGuard's start: peers resolved, device made and configured, then its tunnel started.
wgStart(phase) ==
  \/ Boot([phase |-> "failed"])
  \/ Boot([phase |-> "failed", devices |-> seBoot.devices + 1])
  \/ Boot([phase |-> phase, devices |-> seBoot.devices + 1, open |-> seBoot.open \cup {"device", "callback"}])

\* Start: left to PostStart when a peer is named by a domain.
WgStart == IsWg /\ seBoot.phase = "new"
           /\ IF seScn.unresolved THEN Boot([phase |-> "started"]) ELSE wgStart("started")

WgPostStart == IsWg /\ seBoot.phase = "started"
               /\ IF seScn.unresolved THEN wgStart("up") ELSE Boot([phase |-> "up"])

\* Close, after a failed start too.
BootClose ==
  /\ Part("boot") /\ seBoot.phase \in {"started", "up", "failed"}
  /\ Boot([phase |-> "closed", open |-> IF IsTor THEN seBoot.open \cap TorClose ELSE {}])

-----------------------------------------------------------------------------
SeStart(scn) ==
  /\ seScn = scn /\ seSsh = NoSsh /\ seBind = NoBind /\ seDhcp = NoDhcp /\ seDns = NoDns
  /\ seBoot = NoBoot
SeInit == \E scn \in SeScenarios : SeStart(scn)

SeNext ==
  \/ \E u \in SeUsers : \/ connect(u) \/ connectLocked(u) \/ connectDone(u) \/ SshDial(u)
                         \/ wgConnect(u) \/ wgConnectLocked(u) \/ wgConnectDone(u) \/ Receive(u)
  \/ \E id \in 1..SeMax : SshWait(id)
  \/ InterfaceUpdated
  \/ BindClose
  \/ Open
  \/ fetchServers
  \/ interfaceUpdated
  \/ \E f \in {"query", "update"} : fetchServersResponse(f) \/ recreateServers(f)
  \/ Expire
  \/ ReadPacket
  \/ \E q \in Queries : Exchange(q)
  \/ Timeout
  \/ SessionEnds
  \/ TorStart
  \/ WgStart
  \/ WgPostStart
  \/ BootClose

\* The goroutines run: client.Wait returns when the connection is gone, and exchanges end (the
\* router's transports have their own timeouts).
SeFairness ==
  /\ \A id \in 1..SeMax : WF_seVars(SshWait(id))
  /\ \A u \in SeUsers : WF_seVars(connectDone(u))
  /\ \A q \in Queries : WF_seVars(Exchange(q))
  /\ WF_seVars(SessionEnds)

SeSpec == SeInit /\ [][SeNext]_seVars

-----------------------------------------------------------------------------
(* Properties.                                                               *)

\* The ranges of what the shared connections keep; in them, that a start makes one WireGuard
\* device whether Start or PostStart makes it (WireGuard.start).
SeTypeOK ==
  /\ seScn \in SeScenarios
  /\ seSsh.client \in 0..SeMax /\ seSsh.conn \in 0..SeMax /\ seSsh.lock \in SeUsers \cup {Free}
  /\ seBind.conn \in 0..SeMax /\ seBind.open \subseteq 1..SeMax /\ seBind.lock \in SeUsers \cup {Free}
  /\ seDhcp.ups \in 0..(SeMax + 2) /\ seDhcp.of \in 0..SeMax
  /\ \A q \in Queries : seDns.st[q] \in {"none", "asked", "written", "failed", "bad"}
  /\ seBoot.devices \in 0..1

\* There is one SSH connection at a time: the fields name the same client, a live client is the
\* one in the field, and no goroutine of an earlier client can still clear the field
\* (SSH.connect and the goroutine it starts).
OneClient ==
  /\ seSsh.conn = seSsh.client
  /\ seSsh.alive \subseteq {seSsh.client}
  /\ seSsh.waits = {seSsh.client} \ {Nil}

\* A dead SSH client does not stay: it is forgotten, so the next dial connects anew.
DeadForgotten ==
  \A id \in 1..SeMax : (seSsh.client = id /\ id \notin seSsh.alive) ~> seSsh.client # id

\* After ClientBind.Close has returned no socket of the bind is open and none is opened before
\* the bind is, and at no time are two sockets open (connect, Close, Open).
BindQuiet == (\A s, t \in seBind.open : s = t) /\ (seBind.cycle = "closed" => seBind.open = {})

\* Unless two fetches met, the DHCP transport's upstreams are the only ones open, and after a
\* change of the default interface whose fetch succeeded they are bound to the new interface
\* (interfaceUpdated, recreateServers).
UpstreamsFollow ==
  ~seDhcp.overlap =>
    /\ seDhcp.open \subseteq {seDhcp.ups} \cup {seDhcp.fetch[f].new : f \in {"query", "update"}}
    /\ ~seDhcp.missed /\ ~Busy("update") /\ seDhcp.ups # Nil => seDhcp.of = seDhcp.iface

\* Each reply of the DNS outbound goes to the sender of its own query, however the goroutines of
\* several queries interleave (newPacketConnection).
ReplyToSender == \A r \in seDns.replies : r[2] = seDns.from[r[1]]

\* Every query the DNS outbound has read is answered, or the session is closed so that its
\* sender need not wait for ever.
QueryEnds == \A q \in Queries : (seDns.st[q] = "asked") ~> (seDns.st[q] = "written" \/ seDns.ended)

\* A closed outbound, and one whose start failed, holds nothing: tor's process, its listener and
\* the event channel, WireGuard's device and pause callback (Tor.Close, WireGuard.Close).
BootGivesBack == seBoot.phase = "closed" \/ (IsTor /\ seBoot.phase = "failed") => seBoot.open = {}

-----------------------------------------------------------------------------
(* The properties above, by subject. *)

\* Connections shared by many callers: one SSH client, a WireGuard bind that is quiet once closed, DHCP
\* upstreams of the interface in force unless two fetches met, each DNS reply to its own sender, and nothing
\* held after a failed start.
SessionsSound ==
  /\ SeTypeOK
  /\ OneClient
  /\ BindQuiet
  /\ UpstreamsFollow
  /\ ReplyToSender
  /\ BootGivesBack
=============================================================================
