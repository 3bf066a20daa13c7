------------------------------ MODULE Framing ------------------------------
(***************************************************************************)
(* What the transports put around a stream of bytes (transport/v2ray*,     *)
(* simple-obfs, clashssr, trojan, and inbound/naive.go): the heads that    *)
(* are exchanged first, the frames, and the readers that take them apart   *)
(* again from reads of any size.                                           *)
(*                                                                         *)
(* End 1 is the client and end 2 the server.  wire[d] is what end d has    *)
(* sent and the other has not read; it is a sequence of cells              *)
(* <<tag, number, extra>>: "b" is the number-th byte that this end's user  *)
(* wrote, every other tag is a piece of a head.  Where one end is not      *)
(* under src/ (the servers of the obfuscations, the naive client) it is    *)
(* Peer..., external.                                                      *)
(***************************************************************************)
EXTENDS Integers, Sequences, SequencesExt, FiniteSetsExt, TLC

CONSTANTS FrScenarios, \* see MCFrame
          FrBuffer,    \* the largest read buffer, in bytes
          FrWrite,     \* the most bytes of one Write
          FrFirst      \* kFirstPaddings, and the frames after which it is 0

VARIABLES frScn, fr, frPk, frLen
frVars == <<frScn, fr, frPk, frLen>>

Kind == frScn.kind
Other(d) == 3 - d
End == [out |-> FALSE, in |-> FALSE, remain |-> 0, pad |-> 0, n |-> 0, m |-> 0, cache |-> <<>>,
        send |-> <<>>, under |-> <<>>, status |-> 0, err |-> FALSE]
Cell(tag, number, extra) == <<tag, number, extra>>
IsByte(c) == c[1] = "b"
Bytes(s, d, n) == [i \in 1..n |-> Cell("b", s.wrote[d] + i, 0)]
Numbers(cells) == [i \in DOMAIN cells |-> cells[i][2]]
Take(q, k) == SubSeq(q, 1, k)
Drop(q, k) == SubSeq(q, k + 1, Len(q))
Least(S) == Min(S)

\* What Conn.Write, Conn.Read and io.ReadFull do to the wire.
Put(s, d, cells) == [s EXCEPT !.wire[d] = @ \o cells]
In(s, d) == s.wire[Other(d)]
Use(s, d, k) == [s EXCEPT !.wire[Other(d)] = Drop(@, k)]
Deliver(s, d, cells) == [s EXCEPT !.got[d] = @ \o Numbers(cells)]
Fail(s, d) == [s EXCEPT !.e[d].err = TRUE]
\* The copy of at most b bytes of what the wire holds, of which k happen to be there.
Copy(s, d, b, k) ==
  LET n == Least({b, k, Len(In(s, d))}) IN
  IF \A i \in 1..n : IsByte(In(s, d)[i]) THEN Use(Deliver(s, d, Take(In(s, d), n)), d, n) ELSE Fail(s, d)
\* The read of a frame's payload, of which remain bytes are left.
Remaining(s, d, b, k) ==
  LET n == Least({b, k, s.e[d].remain, Len(In(s, d))})
  IN [Copy(s, d, n, n) EXCEPT !.e[d].remain = @ - n]
\* bytes.Buffer.Read of what was decoded or cached.
Cached(s, d, b) ==
  LET n == Least({b, Len(s.e[d].cache)})
  IN [Deliver(s, d, Take(s.e[d].cache, n)) EXCEPT !.e[d].cache = Drop(@, n)]

-----------------------------------------------------------------------------
(* transport/v2raygrpclite/conn.go, transport/v2raygrpc/conn.go. *)

GunWrite(s, d, bs) == Put(s, d, <<Cell("len", Len(bs), 0)>> \o bs)

\* The client's reader waits in create until the response is there.
GunReadable(s, d) ==
  s.e[d].in /\ In(s, d) # <<>> /\ (s.e[d].remain = 0 => (Len(In(s, d)) > 1 \/ In(s, d)[1][2] = 0))
GunRead(s, d, b, k) ==
  IF s.e[d].remain > 0 THEN Remaining(s, d, b, k)
  ELSE Remaining([Use(s, d, 1) EXCEPT !.e[d].remain = In(s, d)[1][2]], d, b, k)

GRPCWrite(s, d, bs) == Put(s, d, <<Cell("len", Len(bs), 0)>> \o bs)
GRPCReadable(s, d) ==
  s.e[d].cache # <<>> \/ (In(s, d) # <<>> /\ Len(In(s, d)) > In(s, d)[1][2])
\* Mutant of GRPCRead: the whole hunk is kept, with the bytes that were copied.
GRPCReadAll(s, d, b, k) ==
  LET hunk == SubSeq(In(s, d), 2, In(s, d)[1][2] + 1) IN
  IF s.e[d].cache # <<>> THEN Cached(s, d, b)
  ELSE [Deliver(Use(s, d, Len(hunk) + 1), d, Take(hunk, Least({b, Len(hunk)}))) EXCEPT !.e[d].cache = hunk]

GRPCRead(s, d, b, k) ==
  LET hunk == SubSeq(In(s, d), 2, In(s, d)[1][2] + 1) IN
  IF s.e[d].cache # <<>> THEN Cached(s, d, b)
  ELSE Cached([Use(s, d, Len(hunk) + 1) EXCEPT !.e[d].cache = hunk], d, b)

-----------------------------------------------------------------------------
(* transport/v2raywebsocket.  The request carries the early data in its path or in a header. *)

WsWrite(s, d, bs) == Put(s, d, <<Cell("len", Len(bs), 0)>> \o bs)
WsReadable(s, d) == s.e[d].in /\ (s.e[d].cache # <<>> \/ In(s, d) # <<>>)
\* Read goes on with the next message at the end of one.
WsRead(s, d, b, k) ==
  IF s.e[d].cache # <<>> THEN Cached(s, d, b)
  ELSE IF s.e[d].remain > 0 THEN Remaining(s, d, b, k)
  ELSE [Use(s, d, 1) EXCEPT !.e[d].remain = In(s, d)[1][2]]

\* EarlyWebsocketConn.writeRequest: the request with the early data; the rest waits for the response.
EarlyRequest(s, bs) ==
  LET n == Least({frScn.early, Len(bs)})
  IN [Put(s, 1, <<Cell("req", n, 0)>> \o Take(bs, n)) EXCEPT !.e[1].out = TRUE, !.hold.w = Drop(bs, n),
                                                          !.pc.w = "dial"]
EarlyWrite(s, bs) == IF s.e[1].in THEN WsWrite(s, 1, bs) ELSE EarlyRequest(s, bs)

\* Client.DialContext with no early data.
WsDial(s) == [Put(s, 1, <<Cell("req", 0, 0)>>) EXCEPT !.e[1].out = TRUE, !.pc.w = "dial"]

\* The end of the handshake: the connection is there, then the late data is sent.
WsDialed(s) ==
  LET r == [Use(s, 1, 1) EXCEPT !.pc.w = "idle", !.hold.w = <<>>] IN
  IF In(s, 1)[1][2] # 200 THEN Fail(r, 1)
  ELSE LET c == [r EXCEPT !.e[1].in = TRUE] IN IF s.hold.w = <<>> THEN c ELSE WsWrite(c, 1, s.hold.w)

\* Server.ServeHTTP: the early data is in the path when the server's configuration names no header.
WsServe(s) ==
  LET n == In(s, 2)[1][2]
      exact == frScn.serverEarly = 0 \/ frScn.serverName
      path == frScn.badPath \/ (n > 0 /\ ~frScn.name)
      data == IF frScn.name = frScn.serverName THEN SubSeq(In(s, 2), 2, n + 1) ELSE <<>>
      r == Use(s, 2, n + 1)
  IN IF (exact /\ path) \/ frScn.badPath THEN Put(Fail(r, 2), 2, <<Cell("head", 404, 0)>>)
     ELSE [Put(r, 2, <<Cell("head", 200, 0)>>) EXCEPT !.e[2].in = TRUE, !.e[2].out = TRUE, !.e[2].cache = data]

-----------------------------------------------------------------------------
(* transport/v2rayhttp and v2rayhttpupgrade.  k is how much of what follows a head was read with it. *)

\* HTTPConn.Write and writeRequest; a client with Content-Length is not this one.
HTTPWrite(s, bs) ==
  IF s.e[1].out THEN Put(s, 1, bs)
  ELSE [Put(s, 1, <<Cell("req", IF frScn.length THEN Len(bs) ELSE 0, 0)>> \o bs) EXCEPT !.e[1].out = TRUE]

\* HTTPConn.Read.
HTTPRead(s, b, k) ==
  IF ~s.e[1].in
  THEN IF In(s, 1)[1][2] # 200 THEN Fail(s, 1)
       ELSE LET n == Least({k, Len(In(s, 1)) - 1}) IN
            [Use(s, 1, n + 1) EXCEPT !.e[1].in = TRUE, !.e[1].cache = SubSeq(In(s, 1), 2, n + 1)]
  ELSE IF s.e[1].cache # <<>> THEN Cached(s, 1, b)
  ELSE Copy(s, 1, b, k)

\* Server.ServeHTTP over HTTP/1: the body, then what the hijacked reader holds, then the connection.
HTTPServable(s) == In(s, 2) # <<>> /\ Len(In(s, 2)) > In(s, 2)[1][2]

HTTPServe(s, k) ==
  LET n == In(s, 2)[1][2] + Least({k, Len(In(s, 2)) - 1 - In(s, 2)[1][2]}) IN
  IF frScn.badPath THEN Put(Fail(s, 2), 2, <<Cell("head", 404, 0)>>)
  ELSE [Put(Use(s, 2, n + 1), 2, <<Cell("head", 200, 0)>>)
        EXCEPT !.e[2].in = TRUE, !.e[2].out = TRUE, !.e[2].cache = SubSeq(In(s, 2), 2, n + 1)]

\* Server.ServeHTTP over HTTP/2: the connection is the request's body and the writer.
StreamServe(s) ==
  IF frScn.badPath THEN Put(Fail(Use(s, 2, 1), 2), 2, <<Cell("head", 404, 0)>>)
  ELSE [Put(Use(s, 2, 1), 2, <<Cell("head", 200, 0)>>) EXCEPT !.e[2].in = TRUE, !.e[2].out = TRUE]

\* The same in v2raygrpclite.
GunServe(s) == StreamServe(s)

\* The HTTP2ConnWrapper around the server's connection: nothing is written once the handler has returned.
WrapperWrite(s, cells) ==
  IF s.closed THEN s ELSE [Put(s, 2, cells) EXCEPT !.touched = @ \/ s.returned]

CloseWrapper(s) == [s EXCEPT !.closed = TRUE]

\* Client.dialHTTP2, and v2raygrpclite's DialContext: the request goes out at once, with the pipe as its body.
StreamDial(s) == [Put(s, 1, <<Cell("req", 0, 0)>>) EXCEPT !.e[1].out = TRUE]
GunDial(s) == StreamDial(s)
\* HTTP2Conn.Read, once create is closed.
HTTP2Read(s, d, b, k) == Copy(s, d, b, k)

\* Mutant of Setup: create is not closed.
SetupQuiet(s) == [s EXCEPT !.e[1].out = TRUE]

\* Setup: the answer to the request, or its failure, releases the reader.
Setup(s) ==
  IF In(s, 1)[1][2] # 200 THEN Fail(Use(s, 1, 1), 1) ELSE [Use(s, 1, 1) EXCEPT !.e[1].in = TRUE]

\* v2rayhttpupgrade: ServeHTTP leaves what the hijacked reader holds ...
UpgradeServe(s, k) ==
  LET n == Least({k, Len(In(s, 2)) - 1}) IN
  IF frScn.badPath THEN Put(Fail(Use(s, 2, 1), 2), 2, <<Cell("head", 404, 0)>>)
  ELSE [Put(Use(s, 2, n + 1), 2, <<Cell("head", 200, 0)>>) EXCEPT !.e[2].in = TRUE, !.e[2].out = TRUE]
\* ... and DialContext reads buffer.Len() = 0 bytes of what its own reader holds.
UpgradeDial(s) == [Put(s, 1, <<Cell("req", 0, 0)>>) EXCEPT !.e[1].out = TRUE, !.pc.w = "dial"]
UpgradeDialed(s, k) ==
  LET n == Least({k, Len(In(s, 1)) - 1}) r == [s EXCEPT !.pc.w = "idle"] IN
  IF In(s, 1)[1][2] # 200 THEN Fail(r, 1) ELSE [Use(r, 1, n + 1) EXCEPT !.e[1].in = TRUE]

-----------------------------------------------------------------------------
(* inbound/naive.go: the first frames of each direction carry padding. *)

Padding(p) == [i \in 1..p |-> Cell("pad", 0, 0)]
NaiveFrame(s, d, bs, sent) ==
  IF s.e[d].n < FrFirst
  THEN [Put(s, d, <<Cell("len", Len(bs), sent.announced)>> \o bs \o Padding(sent.padding))
        EXCEPT !.e[d].n = @ + 1]
  ELSE Put(s, d, bs)

\* naiveH1Conn.WriteBuffer, and Write, whose frames announce a padding that they do not have.
NaiveWriteBuffer(s, bs, p) == NaiveFrame(s, 2, bs, [announced |-> p, padding |-> p])
NaiveWrite(s, bs, p) ==
  IF bs = <<>> THEN s ELSE NaiveFrame(s, 2, bs, [announced |-> p, padding |-> 0])
\* naiveH2Conn: the same over a stream that is flushed after each write.
NaiveH2WriteBuffer(s, bs, p) == NaiveWriteBuffer(s, bs, p)
NaiveH2Write(s, bs, p) == NaiveWrite(s, bs, p)

\* The read that finds no rest of a frame: it needs the padding, the head and a byte of the frame.
NaiveReadable(s) ==
  LET e == s.e[2]
      at == e.pad + 1
  IN IF e.remain > 0 THEN In(s, 2) # <<>>
     ELSE Len(In(s, 2)) >= at /\ (e.m < FrFirst => (Len(In(s, 2)) > at \/ In(s, 2)[at][2] = 0))

NaiveRead(s, b, k) ==
  LET e == s.e[2]
      r == [Use(s, 2, e.pad) EXCEPT !.e[2].pad = 0]
      h == In(r, 2)[1]
  IN IF e.remain > 0 THEN Remaining(s, 2, b, k)
     ELSE IF e.m < FrFirst
     THEN IF h[1] # "len" THEN Fail(s, 2)
          ELSE Remaining([Use(r, 2, 1) EXCEPT !.e[2].m = @ + 1, !.e[2].remain = h[2],
                                              !.e[2].pad = h[3]], 2, b, k)
     ELSE Copy(r, 2, b, k)
NaiveH2Read(s, b, k) == NaiveRead(s, b, k)

-----------------------------------------------------------------------------
(* transport/trojan: the request in front of the first bytes. *)

Request == <<Cell("key", 1, 0), Cell("key", 2, 0), Cell("cmd", 0, 0), Cell("addr", 0, 0)>>

\* ClientConn.Write with ClientHandshake; all is what was sent so far.
TrojanWrite(s, bs) ==
  LET cells == IF s.e[1].out THEN bs ELSE Request \o bs
  IN [Put(s, 1, cells) EXCEPT !.e[1].out = TRUE, !.all = @ \o cells]
\* ClientConn.WriteBuffer with ClientHandshakeBuffer: the same in the payload's own headroom.
TrojanWriteBuffer(s, bs) == TrojanWrite(s, bs)

\* Service.NewConnection: the key is one read; without it, or with another's, the fallback gets what was read.
TrojanServe(s, k) ==
  LET n == Least({k, 2, Len(In(s, 2))}) IN
  IF n < 2 \/ frScn.badPath
  THEN [Use(s, 2, n) EXCEPT !.e[2].in = TRUE, !.e[2].cache = Take(In(s, 2), n), !.fallback = TRUE]
  ELSE [Use(s, 2, 4) EXCEPT !.e[2].in = TRUE]
\* fallback: the CachedConn's user reads the cache, then the connection.
Fallback(s, b, k) ==
  LET n == Least({b, k, Len(In(s, 2))}) IN
  IF s.e[2].cache # <<>>
  THEN LET c == Least({b, Len(s.e[2].cache)}) IN
       [s EXCEPT !.raw = @ \o Take(s.e[2].cache, c), !.e[2].cache = Drop(@, c)]
  ELSE [Use(s, 2, n) EXCEPT !.raw = @ \o Take(In(s, 2), n)]

-----------------------------------------------------------------------------
(* transport/simple-obfs and the HTTP obfuscation of clashssr; FrChunk bytes are a TLS chunk. *)

FrChunk == 1
Pieces(bs) == [i \in 1..Len(bs) |-> <<bs[i]>>]

\* HTTPObfs.Write; httpConn.Write, which puts some of the first bytes in the path.
HTTPObfsWrite(s, bs) ==
  IF s.e[1].out THEN Put(s, 1, bs)
  ELSE [Put(s, 1, <<Cell("req", Len(bs), 0)>> \o bs) EXCEPT !.e[1].out = TRUE]
SsrHTTPWrite(s, bs) ==
  LET n == Least({FrChunk, Len(bs)}) IN
  IF s.e[1].out THEN Put(s, 1, bs)
  ELSE [Put(s, 1, <<Cell("req", n, 0)>> \o bs) EXCEPT !.e[1].out = TRUE]

\* The first read must hold the whole head: without its end it is reported as the end of the stream.
AfterHead(s, b, k) ==
  LET q == Take(In(s, 1), Least({k, Len(In(s, 1))})) IN
  IF \E i \in DOMAIN q : q[i][1] = "head"
  THEN Cached([Use(s, 1, Len(q)) EXCEPT !.e[1].in = TRUE, !.e[1].cache = SelectSeq(q, IsByte)], 1, b)
  ELSE Fail(Use(s, 1, Len(q)), 1)
HTTPObfsRead(s, b, k) ==
  IF s.e[1].cache # <<>> THEN Cached(s, 1, b)
  ELSE IF ~s.e[1].in THEN AfterHead(s, b, k)
  ELSE Copy(s, 1, b, k)
SsrHTTPRead(s, b, k) ==
  IF s.e[1].cache # <<>> THEN Cached(s, 1, b)
  ELSE IF s.e[1].in THEN Copy(s, 1, b, k)
  ELSE AfterHead(s, b, k)

\* TLSObfs.write: the first chunk is in the hello's session ticket.
tlsWrite(s, bs) ==
  [Put(s, 1, <<Cell(IF s.e[1].out THEN "len" ELSE "hello", Len(bs), 0)>> \o bs) EXCEPT !.e[1].out = TRUE]
TLSObfsWrite(s, bs) == FoldLeft(tlsWrite, s, Pieces(bs))

\* TLSObfs.read and Read: io.ReadFull, except for the first part of a frame that is longer than the buffer.
TLSFrame(s) == IF s.e[1].in THEN s ELSE [Use(s, 1, 1) EXCEPT !.e[1].in = TRUE]
TLSObfsReadable(s, b) ==
  LET q == In(TLSFrame(s), 1) IN
  IF s.e[1].remain > 0 THEN Len(q) >= Least({b, s.e[1].remain})
  ELSE Len(In(s, 1)) > (IF s.e[1].in THEN 0 ELSE 1) /\ (IF q[1][2] > b THEN Len(q) > 1 ELSE Len(q) > q[1][2])
TLSObfsRead(s, b, k) ==
  LET n == In(TLSFrame(s), 1)[1][2] r == Use(TLSFrame(s), 1, 1) IN
  IF s.e[1].remain > 0 THEN Remaining(s, 1, b, b)
  ELSE IF n > b THEN Remaining([r EXCEPT !.e[1].remain = n], 1, b, k)
  ELSE Copy(r, 1, n, n)

-----------------------------------------------------------------------------
(* clashssr/protocol: Conn over a Protocol.  sha1 is auth_sha1_v4, aes auth_aes128_*, chain auth_chain_*. *)

Framed1(s, bs, id) == [Put(s, 1, <<Cell("frame", Len(bs), id)>> \o bs) EXCEPT !.e[1].n = @ + 1]
Headed(s, bs) == Put(s, 1, <<Cell("auth", Len(bs), 0)>> \o bs)

\* packData: the frames of auth_sha1_v4 have no number, those of the others count up.
Sha1PackData(s, bs) == Framed1(s, bs, 0)
AesPackData(s, bs) == Framed1(s, bs, s.e[1].n + 1)
ChainPackData(s, bs) == Framed1(s, bs, s.e[1].n + 1)
\* packAuthData: auth_aes128 has none for an empty write; the chain's header is followed by a frame of its own.
Sha1PackAuthData(s, bs) == Headed(s, bs)
AesPackAuthData(s, bs) == IF bs = <<>> THEN s ELSE Headed(s, bs)
ChainPackAuthData(s, bs) == ChainPackData(Headed(s, <<>>), bs)

\* getDataLength: how many of the first bytes go with the header.
getDataLength(bs) == Least({FrChunk, Len(bs)})
EncodeWith(s, bs, PackAuth(_, _), Pack(_, _)) ==
  LET n == IF s.e[1].out THEN 0 ELSE getDataLength(bs)
      r == IF s.e[1].out THEN s ELSE [PackAuth(s, Take(bs, n)) EXCEPT !.e[1].out = TRUE]
  IN FoldLeft(Pack, r, Pieces(Drop(bs, n)))
Sha1Encode(s, bs) == EncodeWith(s, bs, Sha1PackAuthData, Sha1PackData)
AesEncode(s, bs) == EncodeWith(s, bs, AesPackAuthData, AesPackData)
ChainEncode(s, bs) == EncodeWith(s, bs, ChainPackAuthData, ChainPackData)
\* Conn.Write.
SsrWrite(s, bs) ==
  CASE frScn.auth = "sha1" -> Sha1Encode(s, bs)
    [] frScn.auth = "aes" -> AesEncode(s, bs)
    [] frScn.auth = "chain" -> ChainEncode(s, bs)

\* Decode's loop, and that of tls12TicketConn.Read: the frames that are complete; a wrong number, checksum or
\* magic drops what was read.  The chain's first frame has two bytes that are not data.
FrameOf(q) == SubSeq(q, 2, q[1][2] + 1)
Complete(q) == q # <<>> /\ (Len(q) > q[1][2] \/ q[1][1] \notin {"frame", "len"})
RECURSIVE DecodeWith(_, _, _)
DecodeWith(e, numbered, skip) ==
  LET q == e.under
      data == IF e.m = 0 THEN Drop(FrameOf(q), skip) ELSE FrameOf(q)
  IN IF ~Complete(q) THEN e
     ELSE IF q[1][1] \notin {"frame", "len"} \/ q[1][3] # (IF numbered THEN e.m + 1 ELSE 0)
     THEN [e EXCEPT !.under = <<>>, !.err = TRUE]
     ELSE DecodeWith([e EXCEPT !.under = Drop(q, q[1][2] + 1), !.cache = @ \o data, !.m = @ + 1],
                     numbered, skip)
Sha1Decode(e) == DecodeWith(e, FALSE, 0)
AesDecode(e) == DecodeWith(e, TRUE, 0)
ChainDecode(e) == DecodeWith(e, TRUE, 2)
Decode(e) ==
  CASE frScn.auth = "sha1" -> Sha1Decode(e)
    [] frScn.auth = "aes" -> AesDecode(e)
    [] frScn.auth = "chain" -> ChainDecode(e)
\* Conn.Read.
SsrRead(s, b, k) ==
  LET n == Least({k, Len(In(s, 1))})
      e == Decode([s.e[1] EXCEPT !.under = @ \o Take(In(s, 1), n)])
      r == [Use(s, 1, n) EXCEPT !.e[1] = e]
  IN IF s.e[1].cache # <<>> THEN Cached(s, 1, b) ELSE IF e.err THEN r ELSE Cached(r, 1, b)

-----------------------------------------------------------------------------
(* clashssr/obfs: random_head and tls1.2_ticket_auth.  Read ends the handshake with a Write(nil) of its own *)
(* ("r") that may overlap a Write ("w"); neither takes a lock.                                               *)

FrBusy(s, t) == s.pc[t] # "idle"
Twin(t) == IF t = "w" THEN "r" ELSE "w"
Begin(s, t) == [s EXCEPT !.over = @ \/ FrBusy(s, Twin(t))]

\* randomHeadConn.Write: the bytes are kept until the server's head is there; append reads and then writes c.buf.
HeadWrite(s, t, bs) ==
  IF s.e[1].status = 8 THEN Put(Begin(s, t), 1, bs)
  ELSE [Begin(s, t) EXCEPT !.pc[t] = "append", !.hold[t] = s.e[1].send \o bs]
HeadAppend(s, t) ==
  LET r == [s EXCEPT !.e[1].send = s.hold[t], !.pc[t] = "idle", !.hold[t] = <<>>] IN
  IF ~s.e[1].out THEN [Put(r, 1, <<Cell("rhead", 0, 0)>>) EXCEPT !.e[1].out = TRUE]
  ELSE IF s.e[1].in THEN [r EXCEPT !.pc[t] = "send", !.hold[t] = s.hold[t]]
  ELSE r
HeadSend(s, t) == [Put(s, 1, s.hold[t]) EXCEPT !.pc[t] = "sent", !.hold[t] = <<>>]
HeadSent(s, t) == [s EXCEPT !.pc[t] = "idle", !.e[1].send = <<>>, !.e[1].status = 8]

\* randomHeadConn.Read: whatever the first read holds is dropped.
HeadRead(s, b, k) ==
  LET n == Least({k, Len(In(s, 1))}) IN
  IF s.e[1].in THEN Copy(s, 1, b, k)
  ELSE HeadWrite([Use(s, 1, n) EXCEPT !.e[1].in = TRUE], "r", <<>>)

\* tls12TicketConn.Write: looks at the status; packs the bytes; the end of the handshake takes what is packed.
TicketFrames(bs) == IF bs = <<>> THEN <<>> ELSE <<Cell("len", Len(bs), 0)>> \o bs
TicketWrite(s, t, bs) ==
  IF s.e[1].status = 8 THEN Put(Begin(s, t), 1, TicketFrames(bs))
  ELSE [Begin(s, t) EXCEPT !.pc[t] = "pack", !.hold[t] = TicketFrames(bs)]
TicketPack(s, t) ==
  LET e == s.e[1]
      r == [s EXCEPT !.e[1].send = @ \o s.hold[t], !.pc[t] = "idle", !.hold[t] = <<>>]
  IN IF e.status = 0 THEN [Put(r, 1, <<Cell("hello", 0, 0)>>) EXCEPT !.e[1].status = 1]
     ELSE IF e.status = 1 /\ s.hold[t] = <<>>
     THEN [r EXCEPT !.e[1].status = 8, !.e[1].send = <<>>, !.pc[t] = "send",
                    !.hold[t] = <<Cell("fin", 0, 0)>> \o e.send]
     ELSE r
TicketSend(s, t) == [Put(s, 1, s.hold[t]) EXCEPT !.pc[t] = "idle", !.hold[t] = <<>>]
\* tls12TicketConn.Read: the server's hello must come whole.
TicketRead(s, b, k) ==
  LET n == Least({k, Len(In(s, 1))})
      r == Use(s, 1, n)
      e == DecodeWith([s.e[1] EXCEPT !.under = @ \o Take(In(s, 1), n)], FALSE, 0)
  IN IF s.e[1].cache # <<>> THEN Cached(s, 1, b)
     ELSE IF s.e[1].status = 8
     THEN IF e.err THEN [r EXCEPT !.e[1] = e] ELSE Cached([r EXCEPT !.e[1] = e], 1, b)
     ELSE IF n < 2 THEN Fail(r, 1)
     ELSE TicketWrite([r EXCEPT !.e[1].in = TRUE], "r", <<>>)

-----------------------------------------------------------------------------
(* The ends that are not under src/: they follow the framing, and answer the client's first cell. *)

PeerWrite(s, d, bs, p) ==
  CASE Kind \in {"tlsobfs", "ssrtls"} -> Put(s, d, <<Cell("len", Len(bs), 0)>> \o bs)
    [] Kind = "ssrauth" ->
         LET skip == IF frScn.auth = "chain" /\ s.e[d].n = 0 THEN Padding(2) ELSE <<>>
             id == IF frScn.auth = "sha1" THEN 0 ELSE IF frScn.corrupt /\ s.e[d].n = 1 THEN 9 ELSE s.e[d].n + 1
         IN [Put(s, d, <<Cell("frame", Len(bs) + Len(skip), id)>> \o skip \o bs) EXCEPT !.e[d].n = @ + 1]
    [] Kind \in {"naive", "naiveh2"} -> NaiveFrame(s, d, bs, [announced |-> p, padding |-> p])
    [] OTHER -> Put(s, d, bs)

PeerAnswer(s) ==
  LET hello ==
        CASE Kind \in {"httpobfs", "ssrhttp"} -> <<Cell("start", 0, 0), Cell("head", 200, 0)>>
          [] Kind = "ssrtls" -> <<Cell("hello", 1, 0), Cell("hello", 2, 0)>>
          [] Kind = "tlsobfs" -> <<Cell("hello", 0, 0)>>
          [] Kind = "ssrhead" -> <<Cell("rhead", 0, 0)>>
          [] OTHER -> <<>>
  IN [Put(s, 2, hello) EXCEPT !.e[2].out = TRUE]

\* One cell at a time; a cell that the framing does not allow there is an error.
Framed(s, d) ==
  Kind \in {"tlsobfs", "ssrtls", "ssrauth"} \/ (Kind \in {"naive", "naiveh2"} /\ s.e[d].m < FrFirst)
PeerRead(s, d) ==
  LET c == In(s, d)[1]
      e == s.e[d]
      r == Use(s, d, 1)
      numbered == c[1] = "frame" /\ frScn.auth # "sha1"
  IN IF e.remain > 0
     THEN IF IsByte(c) THEN [Deliver(r, d, <<c>>) EXCEPT !.e[d].remain = @ - 1] ELSE Fail(s, d)
     ELSE IF e.pad > 0
     THEN IF c[1] = "pad" THEN [r EXCEPT !.e[d].pad = @ - 1] ELSE Fail(s, d)
     ELSE IF IsByte(c) THEN IF Framed(s, d) THEN Fail(s, d) ELSE Deliver(r, d, <<c>>)
     ELSE IF numbered /\ c[3] # e.m + 1 THEN Fail(s, d)
     ELSE [r EXCEPT !.e[d].remain = c[2], !.e[d].m = @ + 1,
                    !.e[d].pad = IF Kind \in {"naive", "naiveh2"} THEN c[3] ELSE 0]

-----------------------------------------------------------------------------
(* One connection. *)

FrStart(scn) ==
  /\ frScn = scn
  /\ fr = [wrote |-> <<0, 0>>, wire |-> <<<<>>, <<>>>>, got |-> <<<<>>, <<>>>>, e |-> <<End, End>>,
           pc |-> [w |-> "idle", r |-> "idle"], hold |-> [w |-> <<>>, r |-> <<>>], over |-> FALSE,
           zero |-> <<0, 0>>, closed |-> FALSE, returned |-> FALSE, touched |-> FALSE, fallback |-> FALSE,
           all |-> <<>>, raw |-> <<>>]
  /\ frPk = [pc |-> <<"idle", "idle">>, lock |-> 0, written |-> FALSE, wire |-> <<>>, left |-> <<2, 2>>,
             got |-> <<>>, head |-> FALSE]
  /\ frLen \in IF scn.part = "length" THEN scn.lengths ELSE {[codec |-> "", n |-> 0, rand |-> 0]}

Streaming == frScn.part = "stream" /\ UNCHANGED <<frScn, frPk, frLen>>
Alive(d) == ~fr.e[d].err

\* The client's dial, and the answer to it.
Dial ==
  /\ Alive(1) /\ ~fr.e[1].out
  /\ \/ Kind = "gun" /\ fr' = GunDial(fr)
     \/ Kind = "http2" /\ fr' = StreamDial(fr)
     \/ Kind = "upgrade" /\ fr' = UpgradeDial(fr)
     \/ Kind = "ws" /\ frScn.early = 0 /\ fr' = WsDial(fr)
Dialed(k) ==
  /\ Alive(1) /\ ~fr.e[1].in /\ In(fr, 1) # <<>>
  /\ \/ Kind \in {"gun", "http2"} /\ k = 1 /\ fr' = Setup(fr)
     \/ Kind = "upgrade" /\ fr.pc.w = "dial" /\ fr' = UpgradeDialed(fr, k)
     \/ Kind = "ws" /\ fr.pc.w = "dial" /\ k = 1 /\ fr' = WsDialed(fr)

\* The server's handler for the request; the naive server has its CONNECT before.
Serve(k) ==
  /\ Alive(2) /\ ~fr.e[2].in /\ In(fr, 2) # <<>>
  /\ \/ Kind = "gun" /\ k = 1 /\ fr' = GunServe(fr)
     \/ Kind = "http2" /\ k = 1 /\ fr' = StreamServe(fr)
     \/ Kind = "upgrade" /\ fr' = UpgradeServe(fr, k)
     \/ Kind = "ws" /\ k = 1 /\ Len(In(fr, 2)) > In(fr, 2)[1][2] /\ fr' = WsServe(fr)
     \/ Kind = "http" /\ HTTPServable(fr) /\ fr' = HTTPServe(fr, k)
     \/ Kind = "trojan" /\ fr' = TrojanServe(fr, k)
     \/ Kind \in {"httpobfs", "ssrhttp", "tlsobfs", "ssrtls", "ssrhead", "ssrauth"} /\ k = 1 /\ ~fr.e[2].out
          /\ fr' = PeerAnswer(fr)

\* The server's handler ends: CloseWrapper, then ServeHTTP returns and the writer is no longer to be used.
HandlerEnds ==
  /\ Kind \in {"gun", "http2"} /\ frScn.ends /\ fr.e[2].in
  /\ \/ ~fr.closed /\ fr' = CloseWrapper(fr)
     \/ fr.closed /\ ~fr.returned /\ fr' = [fr EXCEPT !.returned = TRUE]

MayWrite(d) ==
  /\ Alive(d)
  /\ d = 1 => fr.pc.w = "idle" /\ (Kind \in {"gun", "http2"} => fr.e[1].out)
              /\ (Kind = "upgrade" \/ (Kind = "ws" /\ frScn.early = 0) => fr.e[1].in)
  /\ d = 2 => /\ Kind \in {"gun", "http2", "ws", "upgrade", "http", "trojan"} => fr.e[2].in
              /\ ~fr.fallback
              /\ Kind \in {"httpobfs", "ssrhttp", "tlsobfs", "ssrtls", "ssrhead", "ssrauth"} => fr.e[2].out
              /\ frScn.first \/ fr.got[2] # <<>>
Write(d, n, p) ==
  LET bs == Bytes(fr, d, n)
      wrote == [fr EXCEPT !.wrote[d] = @ + n, !.zero[d] = IF n = 0 THEN @ + 1 ELSE @]
  IN /\ MayWrite(d) /\ fr.wrote[d] + n <= frScn.max[d] /\ (n = 0 => fr.zero[d] < frScn.zeros[d])
     /\ p = 1 => Kind \in {"naive", "naiveh2"}
     /\ fr' = CASE Kind = "gun" /\ d = 1 -> GunWrite(wrote, 1, bs)
                [] Kind = "gun" /\ d = 2 -> WrapperWrite(wrote, <<Cell("len", n, 0)>> \o bs)
                [] Kind = "http2" /\ d = 1 -> Put(wrote, 1, bs)
                [] Kind = "http2" /\ d = 2 -> WrapperWrite(wrote, bs)
                [] Kind = "grpc" -> GRPCWrite(wrote, d, bs)
                [] Kind = "ws" /\ d = 1 -> EarlyWrite(wrote, bs)
                [] Kind = "ws" /\ d = 2 -> WsWrite(wrote, 2, bs)
                [] Kind = "http" /\ d = 1 -> HTTPWrite(wrote, bs)
                [] Kind = "trojan" /\ d = 1 ->
                     IF frScn.buffers THEN TrojanWriteBuffer(wrote, bs) ELSE TrojanWrite(wrote, bs)
                [] Kind = "httpobfs" /\ d = 1 -> HTTPObfsWrite(wrote, bs)
                [] Kind = "ssrhttp" /\ d = 1 -> SsrHTTPWrite(wrote, bs)
                [] Kind = "tlsobfs" /\ d = 1 -> TLSObfsWrite(wrote, bs)
                [] Kind = "ssrauth" /\ d = 1 -> SsrWrite(wrote, bs)
                [] Kind = "ssrhead" /\ d = 1 -> HeadWrite(wrote, "w", bs)
                [] Kind = "ssrtls" /\ d = 1 -> TicketWrite(wrote, "w", bs)
                [] Kind = "naive" /\ d = 2 ->
                     IF frScn.buffers THEN NaiveWriteBuffer(wrote, bs, p) ELSE NaiveWrite(wrote, bs, p)
                [] Kind = "naiveh2" /\ d = 2 ->
                     IF frScn.buffers THEN NaiveH2WriteBuffer(wrote, bs, p) ELSE NaiveH2Write(wrote, bs, p)
                [] OTHER -> PeerWrite(wrote, d, bs, p)

\* The rest of a Write without a lock.
Rest(t) ==
  /\ Kind \in {"ssrhead", "ssrtls"} /\ FrBusy(fr, t)
  /\ fr' = CASE Kind = "ssrhead" /\ fr.pc[t] = "append" -> HeadAppend(fr, t)
             [] Kind = "ssrhead" /\ fr.pc[t] = "send" -> HeadSend(fr, t)
             [] Kind = "ssrhead" /\ fr.pc[t] = "sent" -> HeadSent(fr, t)
             [] Kind = "ssrtls" /\ fr.pc[t] = "pack" -> TicketPack(fr, t)
             [] Kind = "ssrtls" /\ fr.pc[t] = "send" -> TicketSend(fr, t)

Waiting(d) == In(fr, d) # <<>> \/ fr.e[d].cache # <<>>
ReadClient(b, k) ==
  /\ Alive(1) /\ Waiting(1)
  /\ \/ Kind = "gun" /\ GunReadable(fr, 1) /\ fr' = GunRead(fr, 1, b, k)
     \/ Kind = "http2" /\ fr.e[1].in /\ fr' = HTTP2Read(fr, 1, b, k)
     \/ Kind = "grpc" /\ GRPCReadable(fr, 1) /\ k = 1 /\ fr' = GRPCRead(fr, 1, b, k)
     \/ Kind = "ws" /\ WsReadable(fr, 1) /\ fr' = WsRead(fr, 1, b, k)
     \/ Kind = "upgrade" /\ fr.e[1].in /\ fr' = Copy(fr, 1, b, k)
     \/ Kind = "http" /\ fr' = HTTPRead(fr, b, k)
     \/ Kind = "trojan" /\ fr' = Copy(fr, 1, b, k)
     \/ Kind \in {"naive", "naiveh2"} /\ b = 1 /\ k = 1 /\ fr' = PeerRead(fr, 1)
     \/ Kind = "httpobfs" /\ fr' = HTTPObfsRead(fr, b, k)
     \/ Kind = "ssrhttp" /\ fr' = SsrHTTPRead(fr, b, k)
     \/ Kind = "tlsobfs" /\ In(fr, 1) # <<>> /\ TLSObfsReadable(fr, b) /\ fr' = TLSObfsRead(fr, b, k)
     \/ Kind = "ssrauth" /\ fr' = SsrRead(fr, b, k)
     \/ Kind = "ssrhead" /\ ~FrBusy(fr, "r") /\ fr' = HeadRead(fr, b, k)
     \/ Kind = "ssrtls" /\ ~FrBusy(fr, "r") /\ fr' = TicketRead(fr, b, k)
ReadServer(b, k) ==
  /\ Alive(2) /\ Waiting(2)
  /\ \/ Kind = "gun" /\ GunReadable(fr, 2) /\ fr' = GunRead(fr, 2, b, k)
     \/ Kind = "http2" /\ fr.e[2].in /\ fr' = HTTP2Read(fr, 2, b, k)
     \/ Kind = "upgrade" /\ fr.e[2].in /\ fr' = Copy(fr, 2, b, k)
     \/ Kind = "grpc" /\ GRPCReadable(fr, 2) /\ k = 1 /\ fr' = GRPCRead(fr, 2, b, k)
     \/ Kind = "ws" /\ WsReadable(fr, 2) /\ fr' = WsRead(fr, 2, b, k)
     \/ /\ Kind = "http" /\ fr.e[2].in
        /\ fr' = IF fr.e[2].cache # <<>> THEN Cached(fr, 2, b) ELSE Copy(fr, 2, b, k)
     \/ Kind = "trojan" /\ fr.e[2].in /\ fr' = (IF fr.fallback THEN Fallback(fr, b, k) ELSE Copy(fr, 2, b, k))
     \/ Kind = "naive" /\ NaiveReadable(fr) /\ fr' = NaiveRead(fr, b, k)
     \/ Kind = "naiveh2" /\ NaiveReadable(fr) /\ fr' = NaiveH2Read(fr, b, k)
     \/ Kind \in {"httpobfs", "ssrhttp", "tlsobfs", "ssrtls", "ssrhead", "ssrauth"} /\ b = 1 /\ k = 1
          /\ In(fr, 2) # <<>> /\ fr.e[2].out /\ fr' = PeerRead(fr, 2)

-----------------------------------------------------------------------------
(* Two writers of one trojan packet connection. *)

Packing == frScn.part = "packet" /\ UNCHANGED <<frScn, fr, frLen>>
Writers == {1, 2}
PkPut(q, cells) == [q EXCEPT !.wire = @ \o cells]

\* WritePacket: headerWritten is looked at without the lock, and again under it.
FrWritePacket(w) ==
  \/ /\ frPk.pc[w] = "idle" /\ frPk.left[w] > 0
     /\ frPk' = [frPk EXCEPT !.pc[w] = IF frPk.written THEN "write" ELSE "lock", !.left[w] = @ - 1]
  \/ /\ frPk.pc[w] = "lock" /\ frPk.lock = 0
     /\ frPk' = IF frPk.written THEN [frPk EXCEPT !.pc[w] = "write"]
                ELSE [frPk EXCEPT !.pc[w] = "head", !.lock = w]
  \/ /\ frPk.pc[w] = "write"
     /\ frPk' = [PkPut(frPk, <<Cell("packet", w, 0)>>) EXCEPT !.pc[w] = "idle"]
\* ClientHandshakePacket: a payload without headroom is a write of its own.
ClientHandshakePacket(w) ==
  \/ /\ frPk.pc[w] = "head"
     /\ \/ frPk' = [PkPut(frPk, <<Cell("head", w, 0)>>) EXCEPT !.pc[w] = "payload"]
        \/ frPk' = [PkPut(frPk, <<Cell("head", w, 0), Cell("payload", w, 0)>>)
                    EXCEPT !.pc[w] = "idle", !.written = TRUE, !.lock = 0]
  \/ /\ frPk.pc[w] = "payload"
     /\ frPk' = [PkPut(frPk, <<Cell("payload", w, 0)>>) EXCEPT !.pc[w] = "idle", !.written = TRUE, !.lock = 0]
\* The service, then ReadPacket.
FrReadPacket ==
  /\ frPk.wire # <<>>
  /\ LET c == frPk.wire[1]
         ok == (c[1] = "head") = ~frPk.head /\ (c[1] = "payload" <=> frPk.got # <<>> /\ Last(frPk.got)[1] = "head")
     IN frPk' = [frPk EXCEPT !.wire = Tail(@), !.head = TRUE,
                             !.got = Append(@, IF ok THEN c ELSE Cell("bad", 0, 0))]

-----------------------------------------------------------------------------
(* The lengths that the headers carry, at the widths they have. *)

U16(x) == x % 65536

\* v2raywebsocket.Writer.WriteBuffer: the second byte, the bytes of the length after it, and the header's size.
WsHeader(n, isServer) ==
  LET bits == IF n < 126 THEN 1 ELSE IF n < 65536 THEN 3 ELSE 9
  IN [code |-> IF n < 126 THEN n ELSE IF n < 65536 THEN 126 ELSE 127,
      ext |-> IF n < 126 THEN 0 ELSE IF n < 65536 THEN U16(n) ELSE n,
      size |-> 1 + bits + (IF isServer THEN 0 ELSE 4)]
WsParse(h, isServer) == \* the websocket library
  [n |-> IF h.code < 126 THEN h.code ELSE h.ext,
   size |-> (IF h.code < 126 THEN 2 ELSE IF h.code = 126 THEN 4 ELSE 10) + (IF isServer THEN 0 ELSE 4)]

\* packRandData: how long the filling is, and what its first byte or two after it say.
packRandData(rand) ==
  IF rand < 128 THEN [size |-> 1 + rand, pos |-> rand + 1] ELSE [size |-> 3 + rand, pos |-> U16(rand + 3)]
\* packData of auth_sha1_v4, whose frames Decode takes apart again.
PackedLength(n, rand) == 2 + 2 + 3 + rand + n + 4 - (IF rand < 128 THEN 2 ELSE 0)
Sha1Frame(n, rand) == [length |-> U16(PackedLength(n, rand)), rand |-> packRandData(rand),
                       size |-> 4 + packRandData(rand).size + n + 4]
Sha1Unpack(f) == IF f.length >= 8192 \/ f.length < 7 THEN -1 ELSE f.length - 4 - (f.rand.pos + 4)
\* getRandDataLength, and auth_aes128's getRandDataLengthForPackData: the largest filling.
Sha1Rand(n) == IF n > 1200 THEN 0 ELSE IF n > 400 THEN 255 ELSE 511
AesRand(n, full) ==
  LET rev == 1460 - n - 9 IN
  IF full >= 32 * 1024 - 9 \/ rev = 0 THEN 0
  ELSE IF rev < 0 THEN IF rev > -1460 THEN rev + 1459 ELSE 31
  ELSE rev - 1
\* auth_chain_a's getRandLength and Decode.
LongFilling(n) == IF n > 1300 THEN 30 ELSE IF n > 900 THEN 126 ELSE IF n > 400 THEN 520 ELSE 1020
ChainRand(n) == IF n > 1440 THEN 0 ELSE LongFilling(n)
ChainUnpack(n, rand) == IF n + rand >= 4096 THEN -1 ELSE n
\* auth_chain_b's getRandLength: the fillings that the random numbers may choose, with the two sorted size lists.
Search(list, x) == Cardinality({i \in DOMAIN list : list[i] < x})
ChainBRands(n, overhead, lists) ==
  LET at(list) == Search(list, n + overhead) .. Search(list, n + overhead) + Len(list) - 1
      fill(list) == {list[p + 1] - n - overhead : p \in {q \in at(list) : q < Len(list)}}
      second == lists[2]
      beyond == {p \in at(second) : p >= Len(second)}
  IN IF n >= 1440 THEN {0}
     ELSE fill(lists[1])
          \union (IF \E p \in at(lists[1]) : p >= Len(lists[1])
                  THEN fill(second)
                       \union {0 : p \in beyond \ {Search(second, n + overhead) + Len(second) - 1}}
                       \union (IF Search(second, n + overhead) + Len(second) - 1 \in beyond
                               THEN 0..LongFilling(n)
                               ELSE {})
                  ELSE {})
\* makeClientHelloMsg with data of n bytes and a name of 20: its lengths, and what is in it.
ClientHello(n, name) ==
  [record |-> U16(212 + n + name), hello |-> U16(208 + n + name), extensions |-> U16(79 + n + name),
   ticket |-> U16(n),
   body |-> 2 + 4 + 28 + 1 + 32 + 2 + 56 + 2 + 2 + (4 + n) + (9 + name) + 8 + 14 + 36 + 4 + 4]

\* The frame that the codec makes of n bytes is taken apart to n bytes again.
Parsed(codec, n, rand) ==
  CASE codec = "ws client" -> WsParse(WsHeader(n, FALSE), FALSE) = [n |-> n, size |-> WsHeader(n, FALSE).size]
    [] codec = "ws server" -> WsParse(WsHeader(n, TRUE), TRUE) = [n |-> n, size |-> WsHeader(n, TRUE).size]
    [] codec = "sha1" -> LET r == Least({rand, Sha1Rand(n)}) IN
                         Sha1Unpack(Sha1Frame(n, r)) = n /\ Sha1Frame(n, r).size = Sha1Frame(n, r).length
    [] codec = "aes" -> LET r == Least({rand, AesRand(n, n)}) IN
                        Sha1Unpack(Sha1Frame(n, r)) = n /\ Sha1Frame(n, r).size = Sha1Frame(n, r).length
    [] codec = "chain" -> ChainUnpack(n, Least({rand, ChainRand(n)})) = n
    [] codec = "chain b" -> \A lists \in frScn.sizes : \A r \in ChainBRands(n, rand, lists) :
                              r >= 0 /\ ChainUnpack(n, r) = n
    [] codec = "hello" -> LET h == ClientHello(n, rand) IN
                          h.hello = h.body /\ h.record = h.body + 4 /\ h.ticket = n /\ h.extensions = h.body - 129

-----------------------------------------------------------------------------
FrNext ==
  \/ Streaming /\ Dial
  \/ Streaming /\ \E k \in 0..FrBuffer : Dialed(k)
  \/ Streaming /\ \E k \in 0..FrBuffer : Serve(k)
  \/ Streaming /\ HandlerEnds
  \/ Streaming /\ \E d \in {1, 2}, n \in 0..FrWrite, p \in {0, 1} : Write(d, n, p)
  \/ Streaming /\ \E t \in {"w", "r"} : Rest(t)
  \/ Streaming /\ \E b, k \in 1..FrBuffer : ReadClient(b, k)
  \/ Streaming /\ \E b, k \in 1..FrBuffer : ReadServer(b, k)
  \/ Packing /\ \E w \in Writers : FrWritePacket(w)
  \/ Packing /\ \E w \in Writers : ClientHandshakePacket(w)
  \/ Packing /\ FrReadPacket

\* Readers go on reading, servers answer, and a Write that has begun goes on.
FrFairness ==
  /\ WF_frVars(Streaming /\ Dial)
  /\ WF_frVars(Streaming /\ \E k \in 0..FrBuffer : Dialed(k))
  /\ WF_frVars(Streaming /\ \E k \in 0..FrBuffer : Serve(k))
  /\ WF_frVars(Streaming /\ \E t \in {"w", "r"} : Rest(t))
  /\ WF_frVars(Streaming /\ \E b, k \in 1..FrBuffer : ReadClient(b, k))
  /\ WF_frVars(Streaming /\ \E b, k \in 1..FrBuffer : ReadServer(b, k))

Counted(n) == [i \in 1..n |-> i]

\* Every part is of its type: no frame has more left than was written, no two ends are past their heads early.
FrTypeOK ==
  /\ frScn \in FrScenarios
  /\ \A d \in {1, 2} : /\ fr.wrote[d] \in 0..frScn.max[d]
                       /\ fr.e[d].remain \in 0..FrWrite /\ fr.e[d].pad \in 0..1
                       /\ fr.e[d].status \in {0, 1, 8}
  /\ \A t \in {"w", "r"} : fr.pc[t] \in {"idle", "dial", "append", "pack", "send", "sent"}
  /\ \A w \in Writers : frPk.pc[w] \in {"idle", "lock", "head", "payload", "write"}
  /\ frPk.lock \in {0} \union Writers

\* The readers of the client's connections (GunConn, GRPCConn, WebsocketConn, HTTPConn, HTTPObfs, TLSObfs, Conn
\* and the other obfuscations) hand on the server's bytes in order, none lost, doubled or made of a head, however
\* the frames are cut by the reads and the buffers.  The upgrade's client keeps this only because no server
\* speaks before it has heard the client.
DownIntact == IsPrefix(fr.got[1], Counted(fr.wrote[2]))

\* The same for the client's bytes at the server, with early data, bytes read along with a head and bytes that
\* waited for a handshake; a Write that overlaps the end of a handshake of clashssr's obfuscations is not
\* protected, so what follows one is left out.
UpIntact == ~fr.over => IsPrefix(fr.got[2], Counted(fr.wrote[1]))

\* ServeHTTP's ResponseWriter is not written to once ServeHTTP has returned, although the handler's other
\* goroutines still hold the connection (HTTP2ConnWrapper).
WriterReleased == ~fr.touched

\* A connection that trojan's service does not accept reaches the fallback whole: what was read of it first,
\* then the rest.
FallbackWhole ==
  fr.fallback => fr.raw \o fr.e[2].cache \o fr.wire[1] = fr.all

\* The packets of two writers follow one request, which is directly followed by the packet it announces
\* (ClientPacketConn.WritePacket).
OneRequest == \A i \in DOMAIN frPk.got : frPk.got[i][1] # "bad"

\* The lengths in the headers of the frames are those that the other end takes out of them, up to the largest
\* frame, with the largest filling (Writer.WriteBuffer, packData, makeClientHelloMsg).
LengthsKept == frScn.part = "length" => Parsed(frLen.codec, frLen.n, frLen.rand)

\* What the server has written is read, unless an end reports an error: no byte stays in a buffer, and no reader
\* waits in create after the answer to the request has come.
Delivered == \A n \in 1..2 :
  (frScn.part = "stream" /\ fr.wrote[2] >= n)
    ~> (Len(fr.got[1]) >= n \/ fr.e[1].err \/ fr.e[2].err \/ fr.closed)

\* What the client has written reaches the server's user, unless an end reports an error or two writes overlap.
Uploaded == \A n \in 1..2 :
  (frScn.part = "stream" /\ fr.wrote[1] >= n)
    ~> (Len(fr.got[2]) >= n \/ fr.e[1].err \/ fr.e[2].err \/ fr.over \/ fr.fallback)

-----------------------------------------------------------------------------
(* The properties above, by subject. *)

\* What framing leaves of a stream: the bytes of either direction in order and none of a head, lengths both ends
\* agree on, one request before the packets of two writers, a fallback that gets all that was read, and no write
\* to a response that has ended.
FramingSound ==
  /\ FrTypeOK
  /\ DownIntact
  /\ UpIntact
  /\ WriterReleased
  /\ FallbackWhole
  /\ OneRequest
  /\ LengthsKept

\* What either end of a framed stream has written is read at the other, unless an end reports an error or two
\* writes overlap.
StreamsDelivered ==
  /\ Delivered
  /\ Uploaded
=============================================================================
