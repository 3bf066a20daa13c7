--------------------------- MODULE InboundsProofs ---------------------------
(* Proofs about the inbounds of every type, for any configurations, clients, *)
(* requests, packets and streams.                                            *)
EXTENDS Inbounds, WellFoundedInduction, TLAPS

(* A leaf that names no prover goes to Zenon, for ten seconds, then to SMT.  *)
USE ZenonT(10), SMTT(20)

\* What Start may open, and the two steps that open nothing.
Given(c) == CloseOf(c) \cup Unclosed(c) \cup {"options", "nil"}

\* The metadata of a connection of c's client.
Metadata(c, client, dest, user) ==
  [inbound |-> c.tag, type |-> c.type, source |-> client.src, dest |-> dest, user |-> user]

\* The steps of Start that remain and what is open are the configuration's own.
OpenInv ==
  /\ inConf \in InConfigs
  /\ inPhase \in {"new", "starting", "up", "failed", "closed", "rejected", "panic"}
  /\ inLoop \in {None, "accept", "broken", "ended"}
  /\ inTodo \in Seq(Given(inConf))
  /\ inOpen \subseteq CloseOf(inConf) \cup Unclosed(inConf)
  /\ InboundGivesBack

\* An accepted connection has the metadata createMetadata gave it.
ConnInv ==
  /\ inConn = [step |-> inConn.step, client |-> inConn.client, md |-> inConn.md,
               query |-> inConn.query, reply |-> inConn.reply]
  /\ inConn.step = "accepted" =>
       /\ inConn.client \in InClients
       /\ inConn.md = Metadata(inConf, inConn.client, inConn.client.local, None)
  /\ ConnectionRight /\ DnsReplyRight

\* The queued packets go on where those handed over end; only a handler that
\* retains packets has any queued.
UdpInv ==
  /\ inUdp = [in |-> inUdp.in, out |-> inUdp.out, closed |-> inUdp.closed, buf |-> inUdp.buf,
              queue |-> inUdp.queue, got |-> inUdp.got, writer |-> inUdp.writer]
  /\ inUdp.queue \in Seq(Nat) /\ inUdp.got \in Seq(Nat)
  /\ ~inConf.retains => inUdp.queue = <<>>
  /\ \A j \in 1..Len(inUdp.queue) : inUdp.queue[j] = Len(inUdp.got) + j
  /\ PacketsIntact

TpInv ==
  /\ inTp = [conn |-> inTp.conn, open |-> inTp.open, failed |-> inTp.failed, last |-> inTp.last]
  /\ inTp.last \in Nat /\ inTp.failed \in BOOLEAN
  /\ OneReplySocket

\* Without an overlap the destination in the shared metadata is that of the one
\* stream between its two steps.
MuxInv ==
  /\ inMux \in [dest : {"mux"} \cup {InStreams[i] : i \in DOMAIN InStreams},
                stream : [DOMAIN InStreams -> {"new", "set", "routed"}],
                routed : [DOMAIN InStreams -> {"none", "mux"} \cup {InStreams[i] : i \in DOMAIN InStreams}],
                overlap : BOOLEAN]
  /\ ~inMux.overlap => \A i \in Between : inMux.dest = InStreams[i]
  /\ StreamsApart

InInv == OpenInv /\ ConnInv /\ UdpInv /\ TpInv /\ MuxInv

-----------------------------------------------------------------------------
\* Setting one field of a connection's metadata leaves the others.
LEMMA SetDest ==
  ASSUME NEW c, NEW client, NEW dest, NEW user, NEW x, NEW md, NEW r,
         md = Metadata(c, client, dest, user), r = [md EXCEPT !.dest = x]
  PROVE  r = Metadata(c, client, x, user)
BY DEF Metadata

\* The same for the user.
LEMMA SetUser ==
  ASSUME NEW c, NEW client, NEW dest, NEW user, NEW x, NEW md, NEW r,
         md = Metadata(c, client, dest, user), r = [md EXCEPT !.user = x]
  PROVE  r = Metadata(c, client, dest, x)
BY DEF Metadata

\* The fields of that metadata.
LEMMA MetadataFields ==
  ASSUME NEW c, NEW client, NEW dest, NEW user, NEW md, md = Metadata(c, client, dest, user)
  PROVE  /\ md.inbound = c.tag /\ md.source = client.src
         /\ md.dest = dest /\ md.user = user
BY DEF Metadata

\* createMetadata gives a connection without a destination that of its socket.
LEMMA CreatedMetadata ==
  ASSUME NEW c, NEW client, NEW dest, NEW md, NEW r,
         NEW source \in {None, client.src},
         md = [inbound |-> None, type |-> None, source |-> source, dest |-> dest, user |-> None],
         r = createMetadata(c, client, md)
  PROVE  r = Metadata(c, client, IF dest = NoAddr THEN client.local ELSE dest, None)
<1>1. /\ md.source = source /\ md.dest = dest
      /\ (IF md.source = None THEN client.src ELSE md.source) = client.src
  OBVIOUS
<1>2. r = [md EXCEPT !.inbound = c.tag, !.type = c.type, !.source = client.src,
                     !.dest = IF dest = NoAddr THEN client.local ELSE dest]
  BY <1>1 DEF createMetadata
<1>3. QED BY <1>2 DEF Metadata

\* Where a client that names a destination or none goes.
Asked(client, dest) == IF dest = NoAddr THEN client.local ELSE dest
\* The name of the user whose key the client has.
UserOf(c, client) == c.users[client.user + 1]

\* The name of the user goes into the metadata.
LEMMA UserByIndexIs ==
  ASSUME NEW c, NEW client, NEW dest, NEW md, NEW r,
         md = Metadata(c, client, dest, None), r = UserByIndex(c, md, client)
  PROVE  r = Metadata(c, client, dest, UserOf(c, client))
<1>1. CASE UserOf(c, client) = None
  BY <1>1 DEF UserByIndex, UserOf
<1>2. CASE UserOf(c, client) # None
  <2>1. r = [md EXCEPT !.user = UserOf(c, client)] BY <1>2 DEF UserByIndex, UserOf
  <2>2. QED BY <2>1, SetUser
<1>3. QED BY <1>1, <1>2

\* What the service found out goes into the metadata.
LEMMA UpstreamIs ==
  ASSUME NEW c, NEW client, NEW md, NEW r,
         md = Metadata(c, client, client.local, None), NEW dest, r = Upstream(md, dest)
  PROVE  r = Metadata(c, client, Asked(client, dest), None)
<1>1. md.dest = client.local BY MetadataFields
<1>2. r = [md EXCEPT !.dest = Asked(client, dest)] BY <1>1 DEF Upstream, Asked
<1>3. QED BY <1>2, SetDest

\* An authenticated client is routed under the name of its user.
LEMMA AuthenticatedIs ==
  ASSUME NEW c, NEW client, NEW md, NEW r,
         md = Metadata(c, client, client.local, None), NEW dest,
         r = AuthenticatedTo(c, md, client, dest), r # Refused
  PROVE  /\ client.auth
         /\ r = Metadata(c, client, Asked(client, dest), UserOf(c, client))
<1>1. client.auth BY DEF AuthenticatedTo
<1>2. PICK m : m = Upstream(md, dest) OBVIOUS
<1>3. m = Metadata(c, client, Asked(client, dest), None) BY <1>2, UpstreamIs
<1>4. r = UserByIndex(c, m, client) BY <1>1, <1>2 DEF AuthenticatedTo
<1>5. QED BY <1>1, <1>3, <1>4, UserByIndexIs

\* A packet connection to the magic address is routed without a destination.
LEMMA PacketAddrIs ==
  ASSUME NEW c, NEW client, NEW dest, NEW user, NEW md, NEW r,
         md = Metadata(c, client, dest, user), r = PacketAddr(md, client)
  PROVE  r = Metadata(c, client, IF client.net = "udp" /\ dest[1] = "packetaddr" THEN NoAddr ELSE dest, user)
<1>1. md.dest = dest BY MetadataFields
<1>2. CASE client.net = "udp" /\ dest[1] = "packetaddr"
  <2>1. r = [md EXCEPT !.dest = NoAddr] BY <1>1, <1>2 DEF PacketAddr
  <2>2. QED BY <1>2, <2>1, SetDest
<1>3. CASE ~(client.net = "udp" /\ dest[1] = "packetaddr")
  BY <1>1, <1>3 DEF PacketAddr
<1>4. QED BY <1>2, <1>3

\* VMess and VLESS: the service's user and destination, or the magic address.
LEMMA V2RayRight ==
  ASSUME NEW c, NEW client, NEW md, NEW r,
         md = Metadata(c, client, client.local, None),
         c.type \in {"vmess", "vless"},
         r = VMessConnection(c, md, client), r # Refused
  PROVE  RightFor(c, client, r)
<1>1. PICK m : m = AuthenticatedTo(c, md, client, client.dest) OBVIOUS
<1>2. r = PacketAddr(m, client) BY <1>1 DEF VMessConnection, Authenticated
<1>3. m # Refused
  <2>1. Refused.dest[1] # "packetaddr" BY DEF Refused, NoMd, NoAddr, None
  <2>2. QED BY <1>2, <2>1 DEF PacketAddr
<1>4. client.auth /\ m = Metadata(c, client, Asked(client, client.dest), UserOf(c, client))
  BY <1>1, <1>3, AuthenticatedIs
<1>5. PICK to : to = IF client.net = "udp" /\ Asked(client, client.dest)[1] = "packetaddr" THEN NoAddr ELSE Asked(client, client.dest)
  OBVIOUS
<1>6. r = Metadata(c, client, to, UserOf(c, client)) BY <1>2, <1>4, <1>5, PacketAddrIs
<1>7. /\ r.inbound = c.tag /\ r.source = client.src
      /\ r.dest = to /\ r.user = UserOf(c, client)
  BY <1>6, MetadataFields
<1>8. QED BY <1>4, <1>5, <1>7 DEF RightFor, Asked, UserOf

\* The QUIC protocols, Shadowsocks with users, Naive and ShadowTLS: the user
\* and the destination of the session.
LEMMA NamedRight ==
  ASSUME NEW c, NEW client, NEW r,
         c.type \in {"hysteria", "hysteria2", "tuic", "multi", "naive", "shadowtls"},
         client.auth, r = Metadata(c, client, Asked(client, client.dest), UserOf(c, client))
  PROVE  RightFor(c, client, r)
<1>1. /\ r.inbound = c.tag /\ r.source = client.src
      /\ r.dest = Asked(client, client.dest) /\ r.user = UserOf(c, client)
  BY MetadataFields
<1>2. QED BY <1>1 DEF RightFor, Asked, UserOf

\* The session of a QUIC protocol starts from empty metadata.
LEMMA QUICIs ==
  ASSUME NEW c, NEW client, NEW md, NEW r, r = QUICConnection(c, md, client), r # Refused
  PROVE  client.auth /\ r = Metadata(c, client, Asked(client, client.dest), UserOf(c, client))
<1>1. client.auth BY DEF QUICConnection
<1>2. PICK e : e = Upstream(NoMd, client.dest) OBVIOUS
<1>3. e = [inbound |-> None, type |-> None, source |-> None, dest |-> client.dest, user |-> None]
  <2>1. NoMd.dest = NoAddr BY DEF NoMd
  <2>2. (IF client.dest = NoAddr THEN NoMd.dest ELSE client.dest) = client.dest BY <2>1
  <2>3. e = [NoMd EXCEPT !.dest = client.dest] BY <1>2, <2>2 DEF Upstream
  <2>4. QED BY <2>3 DEF NoMd
<1>4. PICK m : m = createMetadata(c, client, e) OBVIOUS
<1>5. m = Metadata(c, client, Asked(client, client.dest), None)
  <2>1. m = Metadata(c, client, IF client.dest = NoAddr THEN client.local ELSE client.dest, None)
    BY <1>3, <1>4, CreatedMetadata
  <2>2. QED BY <2>1 DEF Asked
<1>6. r = UserByIndex(c, m, client) BY <1>2, <1>4 DEF QUICConnection
<1>7. QED BY <1>1, <1>5, <1>6, UserByIndexIs

\* A Naive request starts from its source and its destination.
LEMMA NaiveIs ==
  ASSUME NEW c, NEW client, NEW md, NEW r, r = NaiveConnection(c, md, client), r # Refused
  PROVE  client.auth /\ r = Metadata(c, client, Asked(client, client.dest), UserOf(c, client))
<1>1. client.auth BY DEF NaiveConnection
<1>2. PICK e : e = [NoMd EXCEPT !.source = client.src, !.dest = client.dest] OBVIOUS
<1>3. e = [inbound |-> None, type |-> None, source |-> client.src, dest |-> client.dest, user |-> None]
  BY <1>2 DEF NoMd
<1>4. PICK m : m = createMetadata(c, client, e) OBVIOUS
<1>5. m = Metadata(c, client, Asked(client, client.dest), None)
  <2>1. m = Metadata(c, client, IF client.dest = NoAddr THEN client.local ELSE client.dest, None)
    BY <1>3, <1>4, CreatedMetadata
  <2>2. QED BY <2>1 DEF Asked
<1>6. r = UserByIndex(c, m, client) BY <1>1, <1>2, <1>4 DEF NaiveConnection
<1>7. QED BY <1>1, <1>5, <1>6, UserByIndexIs

\* Trojan: the client's user and destination, or a configured fallback.
LEMMA TrojanRight ==
  ASSUME NEW c, NEW client, NEW md, NEW r,
         md = Metadata(c, client, client.local, None), c.type = "trojan",
         r = TrojanConnection(c, md, client), r # Refused
  PROVE  RightFor(c, client, r)
<1>1. CASE client.auth
  <2>1. r = AuthenticatedTo(c, md, client, client.dest) BY <1>1 DEF TrojanConnection, Authenticated
  <2>2. r = Metadata(c, client, Asked(client, client.dest), UserOf(c, client)) BY <2>1, AuthenticatedIs
  <2>3. /\ r.inbound = c.tag /\ r.source = client.src
        /\ r.dest = Asked(client, client.dest) /\ r.user = UserOf(c, client)
    BY <2>2, MetadataFields
  <2>4. QED BY <1>1, <2>3 DEF RightFor, Asked, UserOf
<1>2. CASE ~client.auth
  <2>1. r = fallbackConnection(c, md, client) BY <1>2 DEF TrojanConnection
  <2>2. PICK to : to = IF ~(DOMAIN c.fallbackALPN # {} /\ client.alpn # None) THEN c.fallback
                       ELSE IF client.alpn \in DOMAIN c.fallbackALPN THEN c.fallbackALPN[client.alpn] ELSE NoAddr
    OBVIOUS
  <2>3. to # NoAddr /\ r = [md EXCEPT !.dest = to] BY <2>1, <2>2 DEF fallbackConnection
  <2>4. to \in {c.fallback} \cup {c.fallbackALPN[p] : p \in DOMAIN c.fallbackALPN} BY <2>2, <2>3
  <2>5. r = Metadata(c, client, to, None) BY <2>3, SetDest
  <2>6. /\ r.inbound = c.tag /\ r.source = client.src
        /\ r.dest = to /\ r.user = None
    BY <2>5, MetadataFields
  <2>7. QED BY <1>2, <2>4, <2>6 DEF RightFor
<1>3. QED BY <1>1, <1>2

\* A Shadowsocks relay: the destination of the user.
LEMMA RelayRight ==
  ASSUME NEW c, NEW client, NEW md, NEW r,
         md = Metadata(c, client, client.local, None), c.type = "relay",
         r = ShadowsocksRelayConnection(c, md, client), r # Refused
  PROVE  RightFor(c, client, r)
<1>1. PICK to : to = c.relay[client.user + 1] OBVIOUS
<1>2. r = AuthenticatedTo(c, md, client, to) BY <1>1 DEF ShadowsocksRelayConnection
<1>3. client.auth /\ r = Metadata(c, client, Asked(client, to), UserOf(c, client)) BY <1>2, AuthenticatedIs
<1>4. /\ r.inbound = c.tag /\ r.source = client.src
      /\ r.dest = Asked(client, to) /\ r.user = UserOf(c, client)
  BY <1>3, MetadataFields
<1>5. QED BY <1>1, <1>3, <1>4 DEF RightFor, Asked, UserOf

\* HTTP, SOCKS and mixed ask for a user when any are configured.
LEMMA UserRight ==
  ASSUME NEW c, NEW client, NEW md, NEW r,
         md = Metadata(c, client, client.local, None),
         c.type \in {"http", "mixed"},
         r = UserConnection(c, md, client), r # Refused
  PROVE  RightFor(c, client, r)
<1>1. CASE c.users = <<>>
  <2>1. r = Upstream(md, client.dest) BY <1>1 DEF UserConnection
  <2>2. r = Metadata(c, client, Asked(client, client.dest), None) BY <2>1, UpstreamIs
  <2>3. /\ r.inbound = c.tag /\ r.source = client.src
        /\ r.dest = Asked(client, client.dest) /\ r.user = None
    BY <2>2, MetadataFields
  <2>4. QED BY <1>1, <2>3 DEF RightFor, Asked
<1>2. CASE c.users # <<>>
  <2>1. r = AuthenticatedTo(c, md, client, client.dest) BY <1>2 DEF UserConnection, Authenticated
  <2>2. client.auth /\ r = Metadata(c, client, Asked(client, client.dest), UserOf(c, client))
    BY <2>1, AuthenticatedIs
  <2>3. /\ r.inbound = c.tag /\ r.source = client.src
        /\ r.dest = Asked(client, client.dest) /\ r.user = UserOf(c, client)
    BY <2>2, MetadataFields
  <2>4. QED BY <2>2, <2>3 DEF RightFor, Asked, UserOf
<1>3. QED BY <1>1, <1>2

\* Shadowsocks with one key: the destination of a client that has it.
LEMMA ShadowsocksRight ==
  ASSUME NEW c, NEW client, NEW md, NEW r,
         md = Metadata(c, client, client.local, None),
         c.type = "shadowsocks", client.auth, r = Upstream(md, client.dest)
  PROVE  RightFor(c, client, r)
<1>1. r = Metadata(c, client, Asked(client, client.dest), None) BY UpstreamIs
<1>2. /\ r.inbound = c.tag /\ r.source = client.src
      /\ r.dest = Asked(client, client.dest) /\ r.user = None
  BY <1>1, MetadataFields
<1>3. QED BY <1>2 DEF RightFor, Asked

\* The tunnel, and the addresses redirect, tproxy and tun find at the socket.
LEMMA SocketRight ==
  ASSUME NEW c, NEW client, NEW md, NEW r,
         md = Metadata(c, client, client.local, None), IsPair(c.to), IsPair(client.local),
         \/ c.type = "direct" /\ r = DirectConnection(c, md, client)
         \/ c.type \in {"redirect", "tproxy", "tun"} /\ r = RedirectConnection(c, md, client),
         r # Refused
  PROVE  RightFor(c, client, r)
<1>1. CASE c.type = "direct" /\ r = DirectConnection(c, md, client)
  <2>1. md.dest = client.local BY MetadataFields
  <2>2. PICK to : to = Overridden(c, client.local) OBVIOUS
  <2>3. r = [md EXCEPT !.dest = to] BY <1>1, <2>1, <2>2 DEF DirectConnection
  <2>4. r = Metadata(c, client, to, None) BY <2>3, SetDest
  <2>5. /\ r.inbound = c.tag /\ r.source = client.src
        /\ r.dest = to /\ r.user = None
    BY <2>4, MetadataFields
  <2>6. to = <<IF c.over \in {1, 2} THEN c.to[1] ELSE client.local[1],
               IF c.over \in {1, 3} THEN c.to[2] ELSE client.local[2]>>
    BY <2>2 DEF Overridden, IsPair
  <2>7. QED BY <1>1, <2>5, <2>6 DEF RightFor
<1>2. CASE c.type \in {"redirect", "tproxy", "tun"} /\ r = RedirectConnection(c, md, client)
  <2>1. r = [md EXCEPT !.dest = client.local] BY <1>2 DEF RedirectConnection
  <2>2. r = Metadata(c, client, client.local, None) BY <2>1, SetDest
  <2>3. /\ r.inbound = c.tag /\ r.source = client.src
        /\ r.dest = client.local /\ r.user = None
    BY <2>2, MetadataFields
  <2>4. QED BY <1>2, <2>3 DEF RightFor
<1>3. QED BY <1>1, <1>2

\* Whatever its type, an inbound routes a client only as RightFor says.
LEMMA HandlerRight ==
  ASSUME NEW c \in InConfigs, NEW client \in InClients, NEW md, NEW r,
         md = Metadata(c, client, client.local, None),
         r = NewConnection(c, md, client), r # Refused
  PROVE  RightFor(c, client, r)
<1>1. IsPair(c.to) /\ IsPair(client.local) BY InAssumption
<1>2. CASE c.type = "vmess"
  <2>1. r = VMessConnection(c, md, client) BY <1>2 DEF NewConnection
  <2>2. QED BY <1>2, <2>1, V2RayRight
<1>3. CASE c.type = "vless"
  <2>1. r = VLESSConnection(c, md, client) BY <1>3 DEF NewConnection
  <2>2. r = VMessConnection(c, md, client) BY <2>1 DEF VLESSConnection, VMessConnection
  <2>3. QED BY <1>3, <2>2, V2RayRight
<1>4. CASE c.type = "trojan"
  <2>1. r = TrojanConnection(c, md, client) BY <1>4 DEF NewConnection
  <2>2. QED BY <1>4, <2>1, TrojanRight
<1>5. CASE c.type \in {"hysteria", "hysteria2", "tuic"}
  <2>1. r = QUICConnection(c, md, client)
    BY <1>5 DEF NewConnection, HysteriaConnection, Hysteria2Connection, TUICConnection
  <2>2. client.auth /\ r = Metadata(c, client, Asked(client, client.dest), UserOf(c, client)) BY <2>1, QUICIs
  <2>3. QED BY <1>5, <2>2, NamedRight
<1>6. CASE c.type = "shadowsocks"
  <2>1. r = IF client.auth THEN Upstream(md, client.dest) ELSE Refused BY <1>6 DEF NewConnection
  <2>2. client.auth /\ r = Upstream(md, client.dest) BY <2>1
  <2>3. QED BY <1>6, <2>2, ShadowsocksRight
<1>7. CASE c.type \in {"multi", "shadowtls"}
  <2>1. r = AuthenticatedTo(c, md, client, client.dest)
    BY <1>7 DEF NewConnection, ShadowsocksMultiConnection, ShadowTLSConnection, Authenticated
  <2>2. client.auth /\ r = Metadata(c, client, Asked(client, client.dest), UserOf(c, client))
    BY <2>1, AuthenticatedIs
  <2>3. QED BY <1>7, <2>2, NamedRight
<1>8. CASE c.type = "relay"
  <2>1. r = ShadowsocksRelayConnection(c, md, client) BY <1>8 DEF NewConnection
  <2>2. QED BY <1>8, <2>1, RelayRight
<1>9. CASE c.type = "naive"
  <2>1. r = NaiveConnection(c, md, client) BY <1>9 DEF NewConnection
  <2>2. client.auth /\ r = Metadata(c, client, Asked(client, client.dest), UserOf(c, client)) BY <2>1, NaiveIs
  <2>3. QED BY <1>9, <2>2, NamedRight
<1>10. CASE c.type = "http"
  <2>1. r = HTTPConnection(c, md, client) BY <1>10 DEF NewConnection
  <2>2. r = UserConnection(c, md, client) BY <2>1 DEF HTTPConnection
  <2>3. QED BY <1>10, <2>2, UserRight
<1>11. CASE c.type = "mixed"
  <2>1. r = UserConnection(c, md, client) BY <1>11 DEF NewConnection
  <2>2. QED BY <1>11, <2>1, UserRight
<1>12. CASE c.type = "direct"
  <2>1. r = DirectConnection(c, md, client) BY <1>12 DEF NewConnection
  <2>2. QED BY <1>1, <1>12, <2>1, SocketRight
<1>13. CASE c.type \in {"tproxy", "redirect", "tun"}
  <2>1. r = RedirectConnection(c, md, client) BY <1>13 DEF NewConnection
  <2>2. QED BY <1>1, <1>13, <2>1, SocketRight
<1>14. CASE c.type \notin {"vmess", "vless", "trojan", "hysteria", "hysteria2", "tuic", "shadowsocks", "multi",
                           "relay", "shadowtls", "naive", "http", "mixed", "direct", "tproxy", "redirect", "tun"}
  BY <1>14 DEF NewConnection
<1>15. QED
  BY <1>2, <1>3, <1>4, <1>5, <1>6, <1>7, <1>8, <1>9, <1>10, <1>11, <1>12, <1>13, <1>14

\* A set of numbers has a least one.
LEMMA LeastPlace ==
  ASSUME NEW S, S \subseteq Nat, S # {}
  PROVE  \E k \in S : \A j \in S : k <= j
<1>1. PICK k \in S : \A j \in S : ~(<<j, k>> \in OpToRel(<, Nat))
  BY NatLessThanWellFounded, WFMin
<1>2. \A j \in S : ~(j < k)
  BY <1>1 DEF OpToRel
<1> QED BY <1>2

\* The lifetime of an answer is at most that of each of its records.
LEMMA LeastTTLRight ==
  ASSUME NEW ttls, ttls \subseteq Nat
  PROVE  \A t \in ttls : LeastTTL(ttls) <= t /\ LeastTTL(ttls) >= 0
<1> SUFFICES ASSUME NEW t \in ttls PROVE LeastTTL(ttls) <= t /\ LeastTTL(ttls) >= 0
  OBVIOUS
<1>1. \E m \in ttls : \A u \in ttls : m <= u BY LeastPlace
<1>2. LeastTTL(ttls) \in ttls /\ \A u \in ttls : LeastTTL(ttls) <= u
  <2>1. ttls # {} OBVIOUS
  <2>2. PICK m : m = LeastTTL(ttls) OBVIOUS
  <2>3. m = CHOOSE x \in ttls : \A u \in ttls : x <= u BY <2>1, <2>2 DEF LeastTTL
  <2>4. QED BY <1>1, <2>2, <2>3
<1>3. PICK m : m = LeastTTL(ttls) OBVIOUS
<1>4. m \in Nat /\ m <= t BY <1>2, <1>3
<1>5. m >= 0 BY <1>4
<1>6. QED BY <1>3, <1>4, <1>5

\* What a DNS client is told, for either protocol.
AnswerRight(type, q, r) ==
  /\ r.status = 200 <=>
       /\ q.message = "query" /\ q.answer # "error"
       /\ IF type = "doq" THEN q.id = 0 ELSE q.method = "GET" \/ (q.method = "POST" /\ q.media)
  /\ type = "doh" /\ r.status = 200 => \A t \in q.ttls : r.maxAge <= t /\ r.maxAge >= 0

\* queryRouter and handleStream answer so.
LEMMA ReplyRight ==
  ASSUME NEW q \in InQueries, NEW type \in {"doh", "doq"}, NEW r,
         r = IF type = "doh" THEN queryRouter(q) ELSE handleStream(q)
  PROVE  AnswerRight(type, q, r)
<1>1. \A t \in q.ttls : LeastTTL(q.ttls) <= t /\ LeastTTL(q.ttls) >= 0
  BY InAssumption, LeastTTLRight
<1>2. CASE type = "doq"
  <2>1. r = handleStream(q) BY <1>2
  <2>2. r.status = IF q.message = "query" /\ q.id = 0 /\ q.answer # "error" THEN 200 ELSE 0
    BY <2>1 DEF handleStream, Reply
  <2>3. QED BY <1>2, <2>2 DEF AnswerRight
<1>3. CASE type = "doh"
  <2>1. r = queryRouter(q) BY <1>3
  <2>2. PICK least : least = LeastTTL(q.ttls) OBVIOUS
  <2>3. PICK h : h = handleDNSMessage(q) OBVIOUS
  <2>4. h = IF q.message # "query" \/ q.answer = "error"
            THEN [status |-> 400, maxAge |-> -1] ELSE [status |-> 200, maxAge |-> least]
    BY <2>2, <2>3 DEF handleDNSMessage, Reply
  <2>5. /\ h.status = 200 <=> q.message = "query" /\ q.answer # "error"
        /\ h.status = 200 => h.maxAge = least
    BY <2>4
  <2>6. CASE q.method = "GET"
    <3>1. r = IF q.message \in {"none", "base64"} THEN [status |-> 400, maxAge |-> -1] ELSE h
      BY <2>1, <2>3, <2>6 DEF queryRouter, getMethodQueryResult, Reply
    <3>2. r.status = 200 <=> q.message = "query" /\ q.answer # "error" BY <2>5, <3>1
    <3>3. r.status = 200 => r.maxAge = least BY <2>5, <3>1
    <3>4. QED BY <1>1, <1>3, <2>2, <2>6, <3>2, <3>3 DEF AnswerRight
  <2>7. CASE q.method = "POST"
    <3>1. r = IF ~q.media THEN [status |-> 415, maxAge |-> -1] ELSE h
      BY <2>1, <2>3, <2>7 DEF queryRouter, postMethodQueryResult, Reply
    <3>2. r.status = 200 <=> q.media /\ q.message = "query" /\ q.answer # "error" BY <2>5, <3>1
    <3>3. r.status = 200 => r.maxAge = least BY <2>5, <3>1
    <3>4. QED BY <1>1, <1>3, <2>2, <2>7, <3>2, <3>3 DEF AnswerRight
  <2>8. CASE q.method \notin {"GET", "POST"}
    <3>1. \/ r = [status |-> 400, maxAge |-> -1]
          \/ r = [status |-> 501, maxAge |-> -1]
      BY <2>1, <2>8 DEF queryRouter, Reply
    <3>2. r.status # 200 BY <3>1
    <3>3. QED BY <1>3, <2>8, <3>2 DEF AnswerRight
  <2>9. QED BY <2>6, <2>7, <2>8
<1>4. QED BY <1>2, <1>3

\* Sequences of steps put together from steps.
LEMMA StepsTogether ==
  ASSUME NEW S
  PROVE  /\ <<>> \in Seq(S)
         /\ \A a \in S : <<a>> \in Seq(S)
         /\ \A a, b \in S : <<a, b>> \in Seq(S)
         /\ \A a, b, e \in S : <<a, b, e>> \in Seq(S)
         /\ \A s, t \in Seq(S) : s \o t \in Seq(S)
OBVIOUS

\* Start opens nothing that is neither closed by Close nor known to stay open.
LEMMA StartGiven ==
  ASSUME NEW c \in InConfigs
  PROVE  Start(c) \in Seq(Given(c))
<1>1. c.transport \in {None, "tcp", "udp"} BY InAssumption
<1>2. CASE c.type \in {"naive"}
  <2>1. {"tls", "tcp", "udp", "quic"} \subseteq Given(c)
    BY <1>2 DEF Given, CloseOf, Unclosed, NaiveClose, AdapterClose
  <2>2. Start(c) = NaiveStart(c) BY <1>2 DEF Start
  <2>3. NaiveStart(c) \in Seq(Given(c))
    BY <2>1, StepsTogether DEF NaiveStart, StartTLS, If
  <2>4. QED BY <2>2, <2>3
<1>3. CASE c.type = "doh"
  <2>1. {"tls", "http", "packet", "quic"} \subseteq Given(c)
    BY <1>3 DEF Given, CloseOf, Unclosed, DoHClose
  <2>2. Start(c) = DoHStart(c) BY <1>3 DEF Start
  <2>3. DoHStart(c) \in Seq(Given(c))
    BY <2>1, StepsTogether DEF DoHStart, If
  <2>4. QED BY <2>2, <2>3
<1>4. CASE c.type = "doq"
  <2>1. {"tls", "packet", "quic", "nil"} \subseteq Given(c)
    BY <1>4 DEF Given, CloseOf, Unclosed, DoQClose
  <2>2. Start(c) = DoQStart(c) BY <1>4 DEF Start
  <2>3. DoQStart(c) \in Seq(Given(c))
    BY <2>1, StepsTogether DEF DoQStart
  <2>4. QED BY <2>2, <2>3
<1>5. CASE c.type = "tun"
  <2>1. {"interface", "stack"} \subseteq Given(c)
    BY <1>5 DEF Given, CloseOf, Unclosed, TunClose
  <2>2. Start(c) = <<"interface", "stack">> BY <1>5 DEF Start, TunStart
  <2>3. QED BY <2>1, <2>2
<1>6. CASE c.type \notin {"naive", "doh", "doq", "tun"}
  <2> DEFINE S == Given(c)
  <2>1. {"tcp", "udp", "system proxy", "tls", "service", "options"} \subseteq S
    BY <1>6 DEF Given, CloseOf, Unclosed, V2RayClose, AdapterClose
  <2> HIDE DEF S
  <2>6. /\ <<>> \in Seq(S)
        /\ \A a \in S : <<a>> \in Seq(S)
        /\ \A a, b \in S : <<a, b>> \in Seq(S)
        /\ \A s, t \in Seq(S) : s \o t \in Seq(S)
    BY StepsTogether
  <2>2. AdapterStart(c) \in Seq(S) BY <2>1, <2>6 DEF AdapterStart, If
  <2>3. StartTLS(c) \in Seq(S) BY <2>1, <2>6 DEF StartTLS, If
  <2>4. <<c.transport>> \in Seq(S) \/ c.transport = None BY <1>1, <2>1, <2>6
  <2>5. /\ <<"service">> \in Seq(S) /\ <<"options">> \in Seq(S)
        /\ <<"udp", "service">> \in Seq(S)
    BY <2>1, <2>6
  <2>7. V2RayStart(c) \in Seq(S) BY <2>2, <2>3, <2>4, <2>6 DEF V2RayStart
  <2>8. \/ Start(c) = <<"service">> \o V2RayStart(c)
        \/ Start(c) = V2RayStart(c)
        \/ Start(c) = StartTLS(c) \o <<"udp", "service">>
        \/ Start(c) = StartTLS(c) \o AdapterStart(c)
        \/ Start(c) = AdapterStart(c) \o <<"options">>
        \/ Start(c) = AdapterStart(c)
    BY <1>6 DEF Start, VMessStart, VLESSStart, TrojanStart, HysteriaStart, Hysteria2Start, TUICStart,
                DirectStart, HTTPStart, TProxyStart
  <2>9. Start(c) \in Seq(S) BY <2>2, <2>3, <2>5, <2>6, <2>7, <2>8
  <2>10. QED BY <2>9 DEF S
<1>7. QED BY <1>2, <1>3, <1>4, <1>5, <1>6

-----------------------------------------------------------------------------
\* An inbound starts sound.
LEMMA InboundInit == InInit => InInv
<1> SUFFICES ASSUME InInit PROVE InInv
  OBVIOUS
<1>1. PICK c \in InConfigs : InStart(c, "new") BY DEF InInit
<1>2. OpenInv
  BY <1>1, StepsTogether DEF InStart, OpenInv, InboundGivesBack, None
<1>3. ConnInv
  BY <1>1 DEF InStart, NoConn, ConnInv, ConnectionRight, DnsReplyRight, None
<1>4. UdpInv
  BY <1>1 DEF InStart, NoUdp, UdpInv, PacketsIntact
<1>5. TpInv
  BY <1>1 DEF InStart, NoTp, TpInv, OneReplySocket
<1>6. MuxInv
  BY <1>1 DEF InStart, NoMux, MuxInv, StreamsApart, Between
<1>7. QED BY <1>2, <1>3, <1>4, <1>5, <1>6 DEF InInv

\* Start and Close: what is open stays the configuration's own, and after Close
\* only what no Close gives back is left.
LEMMA OpenStep ==
  ASSUME OpenInv, Create \/ StartStep \/ Started \/ Close \/ AcceptError \/ LoopEnd
  PROVE  OpenInv'
<1>1. CASE Create
  <2>1. inTodo' \in Seq(Given(inConf)) BY <1>1, StartGiven DEF Create, OpenInv
  <2>2. QED BY <1>1, <2>1 DEF Create, OpenInv, InboundGivesBack
<1>2. CASE StartStep
  <2>1. PICK what : what = Head(inTodo) OBVIOUS
  <2>2. inTodo # <<>> /\ inPhase = "starting" BY <1>2 DEF StartStep
  <2>3. what \in Given(inConf) /\ Tail(inTodo) \in Seq(Given(inConf)) /\ <<>> \in Seq(Given(inConf))
    BY <2>1, <2>2, StepsTogether DEF OpenInv
  <2>4. /\ inConf' = inConf /\ inPhase' \in {"starting", "failed", "panic"}
        /\ inTodo' \in {Tail(inTodo), <<>>} /\ inLoop' \in {inLoop, "accept"}
    BY <1>2, <2>2 DEF StartStep
  <2>5. inOpen' \subseteq inOpen \cup ({what} \ {"options", "nil"})
    BY <1>2, <2>1 DEF StartStep
  <2>6. inOpen' \subseteq CloseOf(inConf) \cup Unclosed(inConf)
    BY <2>3, <2>5 DEF OpenInv, Given
  <2>7. QED BY <2>3, <2>4, <2>6 DEF OpenInv, InboundGivesBack
<1>3. CASE Started
  BY <1>3 DEF Started, OpenInv, InboundGivesBack
<1>4. CASE Close
  BY <1>4 DEF Close, OpenInv, InboundGivesBack
<1>5. CASE AcceptError
  BY <1>5 DEF AcceptError, OpenInv, InboundGivesBack
<1>6. CASE LoopEnd
  BY <1>6 DEF LoopEnd, OpenInv, InboundGivesBack
<1>7. QED BY <1>1, <1>2, <1>3, <1>4, <1>5, <1>6

\* A connection: accepted with its metadata, then routed as RightFor says; a
\* DNS request: answered as AnswerRight says.
LEMMA ConnStep ==
  ASSUME OpenInv, ConnInv, injectTCP \/ newTransportConnection \/ Query \/ Route
  PROVE  ConnInv'
<1>1. inConf \in InConfigs BY DEF OpenInv
<1>2. ASSUME NEW client \in InClients, NEW md, NEW source \in {None, client.src},
             md = [inbound |-> None, type |-> None, source |-> source, dest |-> NoAddr, user |-> None],
             inConf' = inConf,
             inConn' = [inConn EXCEPT !.step = "accepted", !.client = client,
                                      !.md = createMetadata(inConf, client, md)]
      PROVE  ConnInv'
  <2>1. PICK m : m = createMetadata(inConf, client, md) OBVIOUS
  <2>2. m = Metadata(inConf, client, client.local, None)
    <3>1. m = Metadata(inConf, client, IF NoAddr = NoAddr THEN client.local ELSE NoAddr, None)
      BY <1>2, <2>1, CreatedMetadata
    <3>2. QED BY <3>1
  <2>3. inConn' = [inConn EXCEPT !.step = "accepted", !.client = client, !.md = m] BY <1>2, <2>1
  <2>4. inConn' = [step |-> "accepted", client |-> client, md |-> m,
                   query |-> inConn.query, reply |-> inConn.reply]
    BY <2>3 DEF ConnInv
  <2>5. /\ inConn'.step = "accepted" /\ inConn'.client = client /\ inConn'.md = m
        /\ inConn' = [step |-> inConn'.step, client |-> inConn'.client, md |-> inConn'.md,
                      query |-> inConn'.query, reply |-> inConn'.reply]
    BY <2>4
  <2>6. ConnectionRight' /\ DnsReplyRight' BY <2>5 DEF ConnectionRight, DnsReplyRight
  <2>7. inConn'.md = Metadata(inConf', inConn'.client, inConn'.client.local, None) BY <1>2, <2>2, <2>5
  <2>8. QED BY <1>2, <2>5, <2>6, <2>7 DEF ConnInv
<1>3. CASE injectTCP
  <2>1. PICK client \in InClients :
          inConn' = [inConn EXCEPT !.step = "accepted", !.client = client,
                                   !.md = createMetadata(inConf, client, NoMd)]
    BY <1>3 DEF injectTCP
  <2>2. inConf' = inConf BY <1>3 DEF injectTCP
  <2>3. NoMd = [inbound |-> None, type |-> None, source |-> None, dest |-> NoAddr, user |-> None]
    BY DEF NoMd
  <2>4. PICK md : md = NoMd OBVIOUS
  <2>5. None \in {None, client.src} OBVIOUS
  <2>6. inConn' = [inConn EXCEPT !.step = "accepted", !.client = client,
                                 !.md = createMetadata(inConf, client, md)]
    BY <2>1, <2>4
  <2>7. QED BY <1>2, <2>2, <2>3, <2>4, <2>5, <2>6
<1>4. CASE newTransportConnection
  <2>1. PICK client \in InClients :
          inConn' = [inConn EXCEPT !.step = "accepted", !.client = client,
                                   !.md = createMetadata(inConf, client, [NoMd EXCEPT !.source = client.src])]
    BY <1>4 DEF newTransportConnection
  <2>2. inConf' = inConf BY <1>4 DEF newTransportConnection
  <2>3. PICK md : md = [NoMd EXCEPT !.source = client.src] OBVIOUS
  <2>4. md = [inbound |-> None, type |-> None, source |-> client.src, dest |-> NoAddr, user |-> None]
    BY <2>3 DEF NoMd
  <2>5. QED BY <1>2, <2>1, <2>2, <2>3, <2>4
<1>5. CASE Query
  <2>1. PICK q \in InQueries :
          inConn' = [inConn EXCEPT !.step = "answered", !.query = q,
                       !.reply = IF inConf.type = "doh" THEN queryRouter(q) ELSE handleStream(q)]
    BY <1>5 DEF Query
  <2>2. inConf' = inConf /\ inConf.type \in {"doh", "doq"} BY <1>5 DEF Query
  <2>3. PICK r : r = IF inConf.type = "doh" THEN queryRouter(q) ELSE handleStream(q) OBVIOUS
  <2>4. AnswerRight(inConf.type, q, r) BY <2>2, <2>3, ReplyRight
  <2>5. inConn' = [inConn EXCEPT !.step = "answered", !.query = q, !.reply = r] BY <2>1, <2>3
  <2>6. inConn' = [step |-> "answered", client |-> inConn.client, md |-> inConn.md,
                   query |-> q, reply |-> r]
    BY <2>5 DEF ConnInv
  <2>7. /\ inConn'.step = "answered" /\ inConn'.query = q /\ inConn'.reply = r
        /\ inConn' = [step |-> inConn'.step, client |-> inConn'.client, md |-> inConn'.md,
                      query |-> inConn'.query, reply |-> inConn'.reply]
    BY <2>6
  <2>8. DnsReplyRight' BY <2>2, <2>4, <2>7 DEF DnsReplyRight, AnswerRight
  <2>9. QED BY <2>7, <2>8 DEF ConnInv, ConnectionRight
<1>6. CASE Route
  <2>1. inConn.step = "accepted" /\ inConf' = inConf BY <1>6 DEF Route
  <2>2. PICK r : r = NewConnection(inConf, inConn.md, inConn.client) OBVIOUS
  <2>3. inConn' = [inConn EXCEPT !.md = r, !.step = IF r = Refused THEN "refused" ELSE "routed"]
    BY <1>6, <2>2 DEF Route
  <2>4. inConn' = [step |-> IF r = Refused THEN "refused" ELSE "routed", client |-> inConn.client,
                   md |-> r, query |-> inConn.query, reply |-> inConn.reply]
    BY <2>3 DEF ConnInv
  <2>5. r # Refused => RightFor(inConf, inConn.client, r)
    BY <1>1, <2>1, <2>2, HandlerRight DEF ConnInv
  <2>6. /\ inConn'.step = (IF r = Refused THEN "refused" ELSE "routed")
        /\ inConn'.client = inConn.client /\ inConn'.md = r
        /\ inConn' = [step |-> inConn'.step, client |-> inConn'.client, md |-> inConn'.md,
                      query |-> inConn'.query, reply |-> inConn'.reply]
    BY <2>4
  <2>7. ConnectionRight' BY <2>1, <2>5, <2>6 DEF ConnectionRight
  <2>8. QED BY <2>6, <2>7 DEF ConnInv, DnsReplyRight
<1>7. QED BY <1>3, <1>4, <1>5, <1>6

\* The head of a queue leaves and the others move up.
LEMMA QueueTail ==
  ASSUME NEW q \in Seq(Nat), q # <<>>
  PROVE  /\ Head(q) = q[1] /\ 1 \in 1..Len(q)
         /\ Tail(q) \in Seq(Nat) /\ Len(Tail(q)) = Len(q) - 1 /\ Len(q) \in Nat
         /\ \A j \in 1..(Len(q) - 1) : Tail(q)[j] = q[j + 1]
OBVIOUS

\* A packet joins the end of a queue.
LEMMA QueueAppend ==
  ASSUME NEW q \in Seq(Nat), NEW p \in Nat
  PROVE  /\ Append(q, p) \in Seq(Nat) /\ Len(Append(q, p)) = Len(q) + 1 /\ Len(q) \in Nat
         /\ DOMAIN Append(q, p) = 1..(Len(q) + 1)
         /\ \A j \in 1..Len(q) : Append(q, p)[j] = q[j]
         /\ Append(q, p)[Len(q) + 1] = p
OBVIOUS

\* The UDP loops: the packets read are handed over in the order they came.
LEMMA UdpStep ==
  ASSUME UdpInv, loopUDPIn \/ SessionReads
  PROVE  UdpInv'
<1>a. PICK q : q = inUdp.queue OBVIOUS
<1>b. PICK g : g = inUdp.got OBVIOUS
<1>1. /\ q \in Seq(Nat) /\ g \in Seq(Nat) /\ Len(q) \in Nat /\ Len(g) \in Nat
      /\ \A j \in 1..Len(q) : q[j] = Len(g) + j
      /\ DOMAIN g = 1..Len(g) /\ \A i \in 1..Len(g) : g[i] = i
      /\ ~inConf.retains => q = <<>>
  BY <1>a, <1>b DEF UdpInv, PacketsIntact
<1>2. inConf' = inConf BY DEF loopUDPIn, SessionReads, inRest
<1>3. ASSUME NEW buf, NEW queue \in Seq(Nat), NEW got \in Seq(Nat),
             ~inConf.retains => queue = <<>>,
             \A j \in 1..Len(queue) : queue[j] = Len(got) + j,
             \A i \in 1..Len(got) : got[i] = i,
             inUdp' = [in |-> inUdp.in, out |-> inUdp.out, closed |-> inUdp.closed, buf |-> buf,
                       queue |-> queue, got |-> got, writer |-> inUdp.writer]
      PROVE  UdpInv'
  <2>1. /\ inUdp'.queue = queue /\ inUdp'.got = got /\ DOMAIN got = 1..Len(got)
        /\ inUdp' = [in |-> inUdp'.in, out |-> inUdp'.out, closed |-> inUdp'.closed, buf |-> inUdp'.buf,
                     queue |-> inUdp'.queue, got |-> inUdp'.got, writer |-> inUdp'.writer]
    BY <1>3
  <2>2. QED BY <1>2, <1>3, <2>1 DEF UdpInv, PacketsIntact
<1>4. CASE loopUDPIn /\ inConf.retains
  <2>1. PICK p : p = Len(q) + Len(g) + 1 OBVIOUS
  <2>2. p \in Nat BY <1>1, <2>1
  <2>3. PICK queue : queue = Append(q, p) OBVIOUS
  <2>4. inUdp' = [inUdp EXCEPT !.queue = queue] BY <1>a, <1>b, <1>4, <2>1, <2>3 DEF loopUDPIn, Read
  <2>5. inUdp' = [in |-> inUdp.in, out |-> inUdp.out, closed |-> inUdp.closed, buf |-> inUdp.buf,
                  queue |-> queue, got |-> g, writer |-> inUdp.writer]
    BY <1>a, <1>b, <2>4 DEF UdpInv
  <2>6. /\ queue \in Seq(Nat) /\ Len(queue) = Len(q) + 1
        /\ \A j \in 1..Len(q) : queue[j] = q[j]
        /\ queue[Len(q) + 1] = p
    BY <1>1, <2>2, <2>3, QueueAppend
  <2>7. \A j \in 1..Len(queue) : queue[j] = Len(g) + j
    <3> SUFFICES ASSUME NEW j \in 1..Len(queue) PROVE queue[j] = Len(g) + j
      OBVIOUS
    <3>1. CASE j \in 1..Len(q) BY <1>1, <2>6, <3>1
    <3>2. CASE j = Len(q) + 1
      <4>1. queue[j] = p BY <2>6, <3>2
      <4>2. p = Len(g) + j BY <1>1, <2>1, <3>2
      <4>3. QED BY <4>1, <4>2
    <3>3. QED BY <1>1, <2>6, <3>1, <3>2
  <2>8. QED BY <1>1, <1>3, <1>4, <2>5, <2>6, <2>7
<1>5. CASE loopUDPIn /\ ~inConf.retains
  <2>1. PICK p : p = Len(q) + Len(g) + 1 OBVIOUS
  <2>2. q = <<>> /\ Len(q) = 0 /\ p = Len(g) + 1 /\ p \in Nat BY <1>1, <1>5, <2>1
  <2>3. PICK got : got = Append(g, p) OBVIOUS
  <2>4. inUdp' = [inUdp EXCEPT !.buf = p, !.got = got] BY <1>a, <1>b, <1>5, <2>1, <2>3 DEF loopUDPIn, Read
  <2>5. inUdp' = [in |-> inUdp.in, out |-> inUdp.out, closed |-> inUdp.closed, buf |-> p,
                  queue |-> q, got |-> got, writer |-> inUdp.writer]
    BY <1>a, <1>b, <2>4 DEF UdpInv
  <2>6. /\ got \in Seq(Nat) /\ Len(got) = Len(g) + 1
        /\ \A j \in 1..Len(g) : got[j] = g[j]
        /\ got[Len(g) + 1] = p
    BY <1>1, <2>2, <2>3, QueueAppend
  <2>7. \A i \in 1..Len(got) : got[i] = i
    <3> SUFFICES ASSUME NEW i \in 1..Len(got) PROVE got[i] = i
      OBVIOUS
    <3>1. CASE i \in 1..Len(g) BY <1>1, <2>6, <3>1
    <3>2. CASE i = Len(g) + 1 BY <2>2, <2>6, <3>2
    <3>3. QED BY <1>1, <2>6, <3>1, <3>2
  <2>8. \A j \in 1..Len(q) : q[j] = Len(got) + j BY <2>2
  <2>9. QED BY <1>1, <1>3, <2>2, <2>5, <2>6, <2>7, <2>8
<1>6. CASE SessionReads
  <2>1. q # <<>> BY <1>a, <1>6 DEF SessionReads
  <2>2. /\ Head(q) = q[1] /\ 1 \in 1..Len(q)
        /\ Tail(q) \in Seq(Nat) /\ Len(Tail(q)) = Len(q) - 1
        /\ \A j \in 1..(Len(q) - 1) : Tail(q)[j] = q[j + 1]
    BY <1>1, <2>1, QueueTail
  <2>3. PICK p : p = Head(q) OBVIOUS
  <2>4. p = Len(g) + 1 /\ p \in Nat /\ p # 0 BY <1>1, <2>2, <2>3
  <2>5. PICK got : got = Append(g, p) OBVIOUS
  <2>6. PICK queue : queue = Tail(q) OBVIOUS
  <2>7. inUdp' = [inUdp EXCEPT !.queue = queue, !.got = got]
    BY <1>a, <1>b, <1>6, <2>3, <2>4, <2>5, <2>6 DEF SessionReads
  <2>8. inUdp' = [in |-> inUdp.in, out |-> inUdp.out, closed |-> inUdp.closed, buf |-> inUdp.buf,
                  queue |-> queue, got |-> got, writer |-> inUdp.writer]
    BY <1>a, <1>b, <2>7 DEF UdpInv
  <2>9. /\ got \in Seq(Nat) /\ Len(got) = Len(g) + 1
        /\ \A j \in 1..Len(g) : got[j] = g[j]
        /\ got[Len(g) + 1] = p
    BY <1>1, <2>4, <2>5, QueueAppend
  <2>10. \A i \in 1..Len(got) : got[i] = i
    <3> SUFFICES ASSUME NEW i \in 1..Len(got) PROVE got[i] = i
      OBVIOUS
    <3>1. CASE i \in 1..Len(g) BY <1>1, <2>9, <3>1
    <3>2. CASE i = Len(g) + 1 BY <2>4, <2>9, <3>2
    <3>3. QED BY <1>1, <2>9, <3>1, <3>2
  <2>11. \A j \in 1..Len(queue) : queue[j] = Len(got) + j
    <3> SUFFICES ASSUME NEW j \in 1..Len(queue) PROVE queue[j] = Len(got) + j
      OBVIOUS
    <3>1. j \in 1..(Len(q) - 1) /\ j + 1 \in 1..Len(q) BY <1>1, <2>2, <2>6
    <3>2. queue[j] = q[j + 1] BY <2>2, <2>6, <3>1
    <3>3. q[j + 1] = Len(g) + (j + 1) BY <1>1, <3>1
    <3>4. QED BY <1>1, <2>9, <3>1, <3>2, <3>3
  <2>12. inConf.retains BY <1>1, <2>1
  <2>13. PICK buf : buf = inUdp.buf OBVIOUS
  <2>14. queue \in Seq(Nat) BY <2>2, <2>6
  <2>15. inUdp' = [in |-> inUdp.in, out |-> inUdp.out, closed |-> inUdp.closed, buf |-> buf,
                   queue |-> queue, got |-> got, writer |-> inUdp.writer]
    BY <2>8, <2>13
  <2>16. QED BY <1>3, <2>9, <2>10, <2>11, <2>12, <2>14, <2>15
<1>7. QED BY <1>4, <1>5, <1>6

\* The other steps of the UDP loops leave the packets alone.
LEMMA UdpKept ==
  ASSUME UdpInv, inConf' = inConf,
         \/ inUdp' = inUdp
         \/ inUdp' = [inUdp EXCEPT !.in = "run", !.out = "run"]
         \/ inUdp' = [inUdp EXCEPT !.in = "ended", !.closed = TRUE]
         \/ \E w \in {"waiting", "closed", "written", "dropped"} : inUdp' = [inUdp EXCEPT !.writer = w]
         \/ \E o \in {"drain", "ended"} : inUdp' = [inUdp EXCEPT !.out = o]
  PROVE  UdpInv'
<1>1. /\ inUdp'.queue = inUdp.queue /\ inUdp'.got = inUdp.got
      /\ inUdp' = [in |-> inUdp'.in, out |-> inUdp'.out, closed |-> inUdp'.closed, buf |-> inUdp'.buf,
                   queue |-> inUdp'.queue, got |-> inUdp'.got, writer |-> inUdp'.writer]
  BY DEF UdpInv
<1>2. QED BY <1>1 DEF UdpInv, PacketsIntact

\* tproxy: the socket it keeps is the one it has open until a write fails.
LEMMA TpStep ==
  ASSUME TpInv, NEW first \in BOOLEAN, tproxyWritePacket(first)
  PROVE  TpInv'
<1>1. PICK fd : fd = inTp.last + 1 OBVIOUS
<1>2. fd \in Nat /\ fd # 0 BY <1>1 DEF TpInv
<1>3. CASE first /\ inTp.conn # 0
  <2>1. PICK ok \in BOOLEAN :
          inTp' = [inTp EXCEPT !.last = fd, !.conn = IF ok THEN inTp.conn ELSE 0, !.failed = inTp.failed \/ ~ok]
    BY <1>1, <1>3 DEF tproxyWritePacket
  <2>2. CASE ok
    <3>1. inTp' = [conn |-> inTp.conn, open |-> inTp.open, failed |-> inTp.failed, last |-> fd]
      BY <2>1, <2>2 DEF TpInv
    <3>2. /\ inTp'.conn = inTp.conn /\ inTp'.open = inTp.open /\ inTp'.failed = inTp.failed /\ inTp'.last = fd
          /\ inTp' = [conn |-> inTp'.conn, open |-> inTp'.open, failed |-> inTp'.failed, last |-> inTp'.last]
      BY <3>1
    <3>3. QED BY <1>2, <3>2 DEF TpInv, OneReplySocket
  <2>3. CASE ~ok
    <3>1. inTp' = [conn |-> 0, open |-> inTp.open, failed |-> TRUE, last |-> fd]
      BY <2>1, <2>3 DEF TpInv
    <3>2. /\ inTp'.failed = TRUE /\ inTp'.last = fd
          /\ inTp' = [conn |-> inTp'.conn, open |-> inTp'.open, failed |-> inTp'.failed, last |-> inTp'.last]
      BY <3>1
    <3>3. QED BY <1>2, <3>2 DEF TpInv, OneReplySocket
  <2>4. QED BY <2>2, <2>3
<1>4. CASE ~(first /\ inTp.conn # 0)
  <2>1. inTp' = [inTp EXCEPT !.last = fd, !.conn = IF first THEN fd ELSE inTp.conn,
                             !.open = IF first THEN inTp.open \cup {fd} ELSE inTp.open]
    BY <1>1, <1>4 DEF tproxyWritePacket
  <2>2. inTp' = [conn |-> IF first THEN fd ELSE inTp.conn,
                 open |-> IF first THEN inTp.open \cup {fd} ELSE inTp.open,
                 failed |-> inTp.failed, last |-> fd]
    BY <2>1 DEF TpInv
  <2>3. /\ inTp'.conn = (IF first THEN fd ELSE inTp.conn)
        /\ inTp'.open = (IF first THEN inTp.open \cup {fd} ELSE inTp.open)
        /\ inTp'.failed = inTp.failed /\ inTp'.last = fd
        /\ inTp' = [conn |-> inTp'.conn, open |-> inTp'.open, failed |-> inTp'.failed, last |-> inTp'.last]
    BY <2>2
  <2>4. OneReplySocket'
    <3>1. CASE first
      <4>1. inTp.conn = 0 BY <1>4, <3>1
      <4>2. ~inTp.failed => inTp.open = {} BY <4>1 DEF TpInv, OneReplySocket
      <4>3. QED BY <1>2, <2>3, <3>1, <4>2 DEF OneReplySocket
    <3>2. CASE ~first
      BY <2>3, <3>2 DEF TpInv, OneReplySocket
    <3>3. QED BY <3>1, <3>2
  <2>5. QED BY <1>2, <2>3, <2>4 DEF TpInv
<1>5. QED BY <1>3, <1>4

\* The streams of a multiplexed connection: without an overlap, the shared
\* destination is that of the one stream about to be routed.
LEMMA MuxStep ==
  ASSUME MuxInv, NEW i \in DOMAIN InStreams, StreamSets(i) \/ StreamRoutes(i)
  PROVE  MuxInv'
<1> DEFINE D == {InStreams[j] : j \in DOMAIN InStreams}
<1>1. /\ inMux.dest \in {"mux"} \cup D /\ inMux.overlap \in BOOLEAN
      /\ inMux.stream \in [DOMAIN InStreams -> {"new", "set", "routed"}]
      /\ inMux.routed \in [DOMAIN InStreams -> {"none", "mux"} \cup D]
      /\ inMux = [dest |-> inMux.dest, stream |-> inMux.stream, routed |-> inMux.routed, overlap |-> inMux.overlap]
  BY DEF MuxInv
<1>2. CASE StreamSets(i)
  <2>1. PICK stream : stream = [inMux.stream EXCEPT ![i] = "set"] OBVIOUS
  <2>2. PICK overlap : overlap = (inMux.overlap \/ Between # {}) OBVIOUS
  <2>3. inMux' = [inMux EXCEPT !.dest = InStreams[i], !.stream = stream, !.overlap = overlap]
    BY <1>1, <1>2, <2>1, <2>2 DEF StreamSets
  <2>4. inMux' = [dest |-> InStreams[i], stream |-> stream, routed |-> inMux.routed, overlap |-> overlap]
    BY <1>1, <2>3
  <2>5. /\ inMux'.dest = InStreams[i] /\ inMux'.stream = stream /\ inMux'.routed = inMux.routed
        /\ inMux'.overlap = overlap
    BY <2>4
  <2>6. overlap \in BOOLEAN /\ stream \in [DOMAIN InStreams -> {"new", "set", "routed"}]
    BY <1>1, <2>1, <2>2
  <2>7. inMux' \in [dest : {"mux"} \cup D, stream : [DOMAIN InStreams -> {"new", "set", "routed"}],
                    routed : [DOMAIN InStreams -> {"none", "mux"} \cup D], overlap : BOOLEAN]
    BY <1>1, <2>4, <2>6
  <2>8. ~overlap => ~inMux.overlap /\ Between = {} BY <1>1, <2>2
  <2>9. /\ stream[i] = "set"
        /\ \A j \in DOMAIN InStreams : j # i => stream[j] = inMux.stream[j]
    BY <1>1, <2>1
  <2>10. ~inMux'.overlap => \A j \in Between' : inMux'.dest = InStreams[j]
    BY <2>5, <2>8, <2>9 DEF Between
  <2>11. StreamsApart'
    BY <2>5, <2>8, <2>9 DEF MuxInv, StreamsApart
  <2>12. QED BY <2>7, <2>10, <2>11 DEF MuxInv
<1>3. CASE StreamRoutes(i)
  <2>1. PICK stream : stream = [inMux.stream EXCEPT ![i] = "routed"] OBVIOUS
  <2>2. PICK routed : routed = [inMux.routed EXCEPT ![i] = inMux.dest] OBVIOUS
  <2>3. inMux' = [inMux EXCEPT !.routed = routed, !.stream = stream] /\ inMux.stream[i] = "set"
    BY <1>1, <1>3, <2>1, <2>2 DEF StreamRoutes
  <2>4. inMux' = [dest |-> inMux.dest, stream |-> stream, routed |-> routed, overlap |-> inMux.overlap]
    BY <1>1, <2>3
  <2>5. /\ inMux'.dest = inMux.dest /\ inMux'.stream = stream /\ inMux'.routed = routed
        /\ inMux'.overlap = inMux.overlap
    BY <2>4
  <2>6. /\ stream \in [DOMAIN InStreams -> {"new", "set", "routed"}]
        /\ routed \in [DOMAIN InStreams -> {"none", "mux"} \cup D]
    BY <1>1, <2>1, <2>2
  <2>7. inMux' \in [dest : {"mux"} \cup D, stream : [DOMAIN InStreams -> {"new", "set", "routed"}],
                    routed : [DOMAIN InStreams -> {"none", "mux"} \cup D], overlap : BOOLEAN]
    BY <1>1, <2>4, <2>6
  <2>8. /\ stream[i] = "routed" /\ routed[i] = inMux.dest
        /\ \A j \in DOMAIN InStreams : j # i => stream[j] = inMux.stream[j] /\ routed[j] = inMux.routed[j]
    BY <1>1, <2>1, <2>2
  <2>9. ~inMux.overlap => inMux.dest = InStreams[i] BY <2>3 DEF MuxInv, Between
  <2>10. ~inMux'.overlap => \A j \in Between' : inMux'.dest = InStreams[j]
    BY <2>5, <2>8 DEF Between, MuxInv
  <2>11. StreamsApart'
    BY <2>5, <2>8, <2>9 DEF MuxInv, StreamsApart
  <2>12. QED BY <2>7, <2>10, <2>11 DEF MuxInv
<1>4. QED BY <1>2, <1>3

\* Steps that leave a part alone.
LEMMA InboundKeeps ==
  /\ OpenInv /\ UNCHANGED <<inConf, inPhase, inTodo, inOpen, inLoop>> => OpenInv'
  /\ ConnInv /\ UNCHANGED <<inConf, inConn>> => ConnInv'
  /\ UdpInv /\ UNCHANGED <<inConf, inUdp>> => UdpInv'
  /\ TpInv /\ UNCHANGED inTp => TpInv'
  /\ MuxInv /\ UNCHANGED inMux => MuxInv'
<1>1. OpenInv /\ UNCHANGED <<inConf, inPhase, inTodo, inOpen, inLoop>> => OpenInv'
  BY DEF OpenInv, InboundGivesBack
<1>2. ConnInv /\ UNCHANGED <<inConf, inConn>> => ConnInv'
  BY DEF ConnInv, ConnectionRight, DnsReplyRight
<1>3. UdpInv /\ UNCHANGED <<inConf, inUdp>> => UdpInv'
  BY DEF UdpInv, PacketsIntact
<1>4. TpInv /\ UNCHANGED inTp => TpInv'
  BY DEF TpInv, OneReplySocket
<1>5. MuxInv /\ UNCHANGED inMux => MuxInv'
  BY DEF MuxInv, StreamsApart, Between
<1>6. QED BY <1>1, <1>2, <1>3, <1>4, <1>5

\* Every step of an inbound keeps the invariant.
LEMMA InboundStep ==
  ASSUME InInv, [InNext]_inVars
  PROVE  InInv'
<1>1. OpenInv /\ ConnInv /\ UdpInv /\ TpInv /\ MuxInv BY DEF InInv
<1>2. CASE Create \/ Started \/ Close \/ AcceptError \/ LoopEnd
  <2>1. UNCHANGED <<inConf, inConn, inUdp, inTp, inMux>>
    BY <1>2 DEF Create, Started, Close, AcceptError, LoopEnd, inParts
  <2>2. OpenInv' BY <1>1, <1>2, OpenStep
  <2>3. QED BY <1>1, <2>1, <2>2, InboundKeeps DEF InInv
<1>3. CASE StartStep
  <2>1. UNCHANGED <<inConf, inConn, inTp, inMux>> BY <1>3 DEF StartStep
  <2>2. inUdp' = inUdp \/ inUdp' = [inUdp EXCEPT !.in = "run", !.out = "run"] BY <1>3 DEF StartStep
  <2>3. OpenInv' BY <1>1, <1>3, OpenStep
  <2>4. UdpInv' BY <1>1, <2>1, <2>2, UdpKept
  <2>5. QED BY <1>1, <2>1, <2>3, <2>4, InboundKeeps DEF InInv
<1>4. CASE injectTCP \/ newTransportConnection \/ Query \/ Route
  <2>1. UNCHANGED <<inConf, inPhase, inTodo, inOpen, inLoop, inUdp, inTp, inMux>>
    BY <1>4 DEF injectTCP, newTransportConnection, Query, Route
  <2>2. ConnInv' BY <1>1, <1>4, ConnStep
  <2>3. QED BY <1>1, <2>1, <2>2, InboundKeeps DEF InInv
<1>5. CASE InUdpStep
  <2>1. UNCHANGED <<inConf, inPhase, inTodo, inOpen, inLoop, inConn, inTp, inMux>>
    BY <1>5 DEF InUdpStep, loopUDPIn, SessionReads, loopUDPInEnds, WritePacket, WritePacketClosed, loopUDPOut, inRest
  <2>4. UdpInv'
    <3>1. CASE loopUDPIn \/ SessionReads
      BY <1>1, <3>1, UdpStep
    <3>2. CASE loopUDPInEnds \/ WritePacket \/ WritePacketClosed \/ loopUDPOut
      <4>1. \/ inUdp' = [inUdp EXCEPT !.in = "ended", !.closed = TRUE]
            \/ \E w \in {"waiting", "closed", "written", "dropped"} : inUdp' = [inUdp EXCEPT !.writer = w]
            \/ \E o \in {"drain", "ended"} : inUdp' = [inUdp EXCEPT !.out = o]
        BY <3>2 DEF loopUDPInEnds, WritePacket, WritePacketClosed, loopUDPOut
      <4>2. QED BY <1>1, <2>1, <4>1, UdpKept
    <3>3. QED BY <1>5, <3>1, <3>2 DEF InUdpStep
  <2>5. QED BY <1>1, <2>1, <2>4, InboundKeeps DEF InInv
<1>6. CASE \E first \in BOOLEAN : tproxyWritePacket(first)
  <2>1. UNCHANGED <<inConf, inPhase, inTodo, inOpen, inLoop, inConn, inUdp, inMux>>
    BY <1>6 DEF tproxyWritePacket, inTpRest
  <2>2. TpInv' BY <1>1, <1>6, TpStep
  <2>3. QED BY <1>1, <2>1, <2>2, InboundKeeps DEF InInv
<1>7. CASE \E i \in DOMAIN InStreams : StreamSets(i) \/ StreamRoutes(i)
  <2>1. UNCHANGED <<inConf, inPhase, inTodo, inOpen, inLoop, inConn, inUdp, inTp>>
    BY <1>7 DEF StreamSets, StreamRoutes, inMuxRest
  <2>2. MuxInv' BY <1>1, <1>7, MuxStep
  <2>3. QED BY <1>1, <2>1, <2>2, InboundKeeps DEF InInv
<1>8. CASE UNCHANGED inVars
  <2>1. UNCHANGED <<inConf, inPhase, inTodo, inOpen, inLoop, inConn, inUdp, inTp, inMux>> BY <1>8 DEF inVars
  <2>2. QED BY <1>1, <2>1, InboundKeeps DEF InInv
<1>9. QED BY <1>2, <1>3, <1>4, <1>5, <1>6, <1>7, <1>8 DEF InNext

\* What is open is what an inbound knows.
LEMMA OpenKnown == OpenInv => InTypeOK
<1> SUFFICES ASSUME OpenInv PROVE InTypeOK
  OBVIOUS
<1>1. CloseOf(inConf) \cup Unclosed(inConf)
        \subseteq {"tcp", "udp", "tls", "service", "system proxy", "quic", "http", "packet", "interface", "stack"}
  BY DEF CloseOf, Unclosed, NaiveClose, DoHClose, DoQClose, TunClose, V2RayClose, AdapterClose
<1>2. QED BY <1>1 DEF OpenInv, InTypeOK

\* For every configuration of every type of inbound, every client, DNS request
\* and number of streams and packets: a connection is routed only for a client
\* that authenticated, under its user's name and to where it asked; a DNS client
\* is answered exactly when its request is well-formed, with a lifetime none of
\* the records is below; a UDP session gets its packets as and in the order they
\* came; streams that do not overlap go to their own destinations.
THEOREM InboundsAlwaysSound == InSpec => []InboundsSound
<1>1. InInv => InboundsSound
  BY OpenKnown DEF InInv, ConnInv, UdpInv, MuxInv, InboundsSound
<1>2. QED BY InboundInit, InboundStep, <1>1, PTL DEF InSpec

\* The parts of NothingLeaks that are the inbounds': whatever step of Start
\* failed, Close leaves open only what no Close gives back, and a tproxy session
\* has the one reply socket it keeps while no write has failed.
THEOREM InboundsGiveBack == InSpec => [](InboundGivesBack /\ OneReplySocket)
<1>1. InInv => InboundGivesBack /\ OneReplySocket
  BY DEF InInv, OpenInv, TpInv
<1>2. QED BY InboundInit, InboundStep, <1>1, PTL DEF InSpec
=============================================================================
