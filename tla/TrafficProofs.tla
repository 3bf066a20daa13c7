--------------------------- MODULE TrafficProofs ----------------------------
(* Proofs about Traffic, for every number of connections, of bytes and every *)
(* configuration: what the Clash API shows and leaves behind, and the books  *)
(* of the bytes.                                                             *)
EXTENDS Traffic, FiniteSetTheorems, TLAPS

(* A leaf that names no prover goes to Zenon, for ten seconds, then to SMT.  *)
USE ZenonT(10), SMTT(20)

Requests == {1, 2}

-----------------------------------------------------------------------------
(* The invariants, one of each part. *)

\* The connections.
TfTypes ==
  tf \in [conn : [TfConns -> {"none", "open", "closed"}], active : SUBSET TfConns, closed : Seq(TfConns),
          dropped : SUBSET TfConns, up : [TfConns -> Nat], push : [TfConns -> {"idle", "temp", "total"}],
          over : [TfConns -> BOOLEAN], temp : Nat, total : Nat, held : Int, blip : Nat, shown : Nat,
          done : BOOLEAN, leave : [TfConns -> [Leavers -> {"no", "push", "left"}]],
          api : [pc : {"idle", "close", "answered"}, left : SUBSET TfConns, had : SUBSET TfConns]]

Moves(c) == \E w \in Leavers : tf.leave[c][w] = "push"
Listed(c) == \E i \in 1..Len(tf.closed) : tf.closed[i] = c
\* A connection that was not joined is nowhere, one that was is somewhere, and none is in two places.
InOnePlace ==
  /\ \A c \in TfConns :
       /\ tf.conn[c] = "none" <=> ~(c \in tf.active \/ Moves(c) \/ Listed(c) \/ c \in tf.dropped)
       /\ c \in tf.active => ~Moves(c) /\ ~Listed(c) /\ c \notin tf.dropped
       /\ Moves(c) => ~Listed(c) /\ c \notin tf.dropped
       /\ Listed(c) => c \notin tf.dropped
       /\ tf.leave[c]["relay"] = "push" => tf.leave[c]["api"] # "push"
       /\ \A w \in Leavers : tf.leave[c][w] # "no" => tf.conn[c] # "none" /\ c \notin tf.active
  /\ \A i, j \in 1..Len(tf.closed) : tf.closed[i] = tf.closed[j] => i = j
\* The request that closes is through with the connections it no longer has to close.
Through ==
  /\ tf.api.pc # "idle" => \A c \in tf.api.had : tf.conn[c] # "none"
  /\ tf.api.pc # "idle" => \A c \in tf.api.had \ tf.api.left : tf.conn[c] = "closed" /\ c \notin tf.active
  /\ tf.api.pc = "answered" => tf.api.left = {}
  /\ tf.api.left \subseteq tf.api.had

\* The mode.
MdShape ==
  /\ tfMd = [list |-> tfMd.list, mode |-> tfMd.mode, stored |-> tfMd.stored, pc |-> tfMd.pc, new |-> tfMd.new,
             sets |-> tfMd.sets, hook |-> tfMd.hook, over |-> tfMd.over, failed |-> tfMd.failed, starts |-> tfMd.starts]
  /\ tfMd.pc \in [Requests -> {"idle", "store"}]
  /\ DOMAIN tfMd.new = Requests
  /\ tfMd.over \in BOOLEAN /\ tfMd.failed \in BOOLEAN
\* Unless two overlapped, the request that is about to store stores the mode.
StoresMode ==
  ~tfMd.over => \A w \in Requests : tfMd.pc[w] = "store" => tfMd.new[w] = tfMd.mode
                                                            /\ \A o \in Requests : o # w => tfMd.pc[o] = "idle"

\* The files.
UiShape ==
  /\ tfUi = [pc |-> tfUi.pc, dir |-> tfUi.dir, at |-> tfUi.at, starts |-> tfUi.starts, killed |-> tfUi.killed]
  /\ tfUi.pc \in {"start", "download", "unpack", "entry", "failed", "end"}
  /\ tfUi.at \in Nat /\ tfUi.killed \in BOOLEAN
Files == Trimmed(tfScn.files)
Whole(n) == {<<Files[i], TRUE>> : i \in 1..n}
Unpacked ==
  /\ tfUi.pc \in {"start", "end"} /\ ~tfUi.killed => tfUi.dir \in {{}, Whole(Len(Files))}
  /\ tfUi.pc = "download" => tfUi.dir = {}
  /\ tfUi.pc = "unpack" => tfUi.at \in 1..(Len(Files) + 1) /\ tfUi.dir = Whole(tfUi.at - 1)
  /\ tfUi.pc = "entry" => tfUi.at \in 1..Len(Files) /\ tfUi.dir = Whole(tfUi.at - 1) \union {<<Files[tfUi.at], FALSE>>}

\* The delays.
DlShape ==
  /\ tfDl = [now |-> tfDl.now, history |-> tfDl.history, pc |-> tfDl.pc, of |-> tfDl.of, through |-> tfDl.through,
             same |-> tfDl.same, answer |-> tfDl.answer, jobs |-> tfDl.jobs, result |-> tfDl.result,
             tests |-> tfDl.tests, switches |-> tfDl.switches]
  /\ tfDl.pc \in [Requests -> {"idle", "test", "group"}] /\ tfDl.same \in [Requests -> BOOLEAN]
  /\ DOMAIN tfDl.of = Requests /\ DOMAIN tfDl.through = Requests /\ DOMAIN tfDl.answer = Requests
  /\ DOMAIN tfDl.jobs = Requests /\ DOMAIN tfDl.result = Requests
\* A test runs through the real outbound, unless the group switched.
RunsThrough == \A w \in Requests : tfDl.pc[w] = "test" /\ tfDl.same[w] => tfDl.through[w] = RealTag(tfDl.of[w])
\* The tests of a group that are to be made and those that were made are of different outbounds.
EachOnce ==
  \A w \in Requests :
    /\ \A x, y \in DOMAIN tfDl.jobs[w] : tfDl.jobs[w][x] = tfDl.jobs[w][y] => x = y
    /\ \A x, y \in DOMAIN tfDl.result[w] : tfDl.result[w][x] = tfDl.result[w][y] => x = y
    /\ \A x \in DOMAIN tfDl.jobs[w], y \in DOMAIN tfDl.result[w] : x # y /\ tfDl.jobs[w][x] # tfDl.result[w][y]

ConnInv == TfTypes /\ InOnePlace /\ Through
ModeInv == MdShape /\ IsList(tfMd.list) /\ ModeKnown /\ ModeStored /\ StoresMode
FilesInv == UiShape /\ Unpacked
DelayInv == DlShape /\ RunsThrough /\ EachOnce /\ DelayOfTested
ApiInv == tfScn \in TfScenarios /\ ConnInv /\ ModeInv /\ FilesInv /\ DelayInv

-----------------------------------------------------------------------------
(* Lists and pairs. *)

\* A list whose members are in a set is a sequence over it.
LEMMA ListOf ==
  ASSUME NEW s, IsList(s), NEW S, \A i \in DOMAIN s : s[i] \in S
  PROVE  s \in Seq(S) /\ Len(s) \in Nat /\ DOMAIN s = 1..Len(s)
BY DEF IsList

\* A sequence is a list.
LEMMA MakesList ==
  ASSUME NEW S, NEW s \in Seq(S)
  PROVE  IsList(s)
<1> DEFINE T == {s[i] : i \in DOMAIN s}
<1>1. Len(s) \in Nat /\ DOMAIN s = 1..Len(s) /\ s = [i \in 1..Len(s) |-> s[i]]
  OBVIOUS
<1>2. \A i \in 1..Len(s) : s[i] \in T
  BY <1>1
<1> HIDE DEF T
<1>3. s \in Seq(T)
  BY <1>1, <1>2
<1> QED BY <1>3 DEF IsList, T

\* What Append makes.
LEMMA AppendIs ==
  ASSUME NEW S, NEW s \in Seq(S), NEW e \in S
  PROVE  /\ Append(s, e) \in Seq(S) /\ Len(Append(s, e)) = Len(s) + 1
         /\ \A i \in 1..Len(s) : Append(s, e)[i] = s[i]
         /\ Append(s, e)[Len(s) + 1] = e
OBVIOUS

\* What Tail leaves.
LEMMA TailIs ==
  ASSUME NEW S, NEW s \in Seq(S), s # <<>>
  PROVE  /\ Tail(s) \in Seq(S) /\ Len(Tail(s)) = Len(s) - 1
         /\ \A i \in 1..Len(Tail(s)) : Tail(s)[i] = s[i + 1]
OBVIOUS

\* One sequence after another.
LEMMA ConcatIs ==
  ASSUME NEW S, NEW s \in Seq(S), NEW t \in Seq(S)
  PROVE  /\ s \o t \in Seq(S) /\ Len(s \o t) = Len(s) + Len(t)
         /\ \A i \in 1..(Len(s) + Len(t)) : (s \o t)[i] = IF i <= Len(s) THEN s[i] ELSE t[i - Len(s)]
OBVIOUS

\* What the two requests have, as a function.
LEMMA Pair ==
  ASSUME NEW a, NEW b, NEW S, a \in S, b \in S
  PROVE  <<a, b>> \in [Requests -> S] /\ DOMAIN <<a, b>> = Requests /\ <<a, b>>[1] = a /\ <<a, b>>[2] = b
<1>1. Requests = 1..2
  BY DEF Requests
<1>2. <<a, b>> \in Seq(S) /\ Len(<<a, b>>) = 2 /\ <<a, b>>[1] = a /\ <<a, b>>[2] = b
  OBVIOUS
<1>3. DOMAIN <<a, b>> = 1..2 /\ <<a, b>> \in [1..2 -> S]
  BY <1>2
<1> QED BY <1>1, <1>2, <1>3

-----------------------------------------------------------------------------
(* The mode. *)

\* The pairs that are both idle.
LEMMA BothIdle ==
  ASSUME NEW f \in [Requests -> {"idle", "store"}]
  PROVE  f = <<"idle", "idle">> <=> \A w \in Requests : f[w] = "idle"
BY DEF Requests

\* The default mode is in the list that NewServer makes, and none of the list is empty.
LEMMA DefaultListed ==
  ASSUME tfScn \in TfScenarios, NEW options \in tfScn.restarts \union {tfScn.options}
  PROVE  /\ IsList(ModeList(options))
         /\ \E i \in DOMAIN ModeList(options) : ModeList(options)[i] = options.default
         /\ \A i \in DOMAIN ModeList(options) : Fold(ModeList(options)[i]) # Fold("")
<1> DEFINE m == options.modes
           d == options.default
           S == Range(m) \union {d}
<1>1. IsList(m) /\ \A x \in S : Fold(x) # Fold("")
  BY TfAssumption DEF Fold
<1>2. m \in Seq(S) /\ Len(m) \in Nat /\ DOMAIN m = 1..Len(m)
  <2>1. \A i \in DOMAIN m : m[i] \in S
    BY DEF Range
  <2> HIDE DEF S, m
  <2> QED BY <1>1, <2>1, ListOf
<1>3. CASE d \in Range(m)
  <2>1. ModeList(options) = m
    BY <1>3 DEF ModeList
  <2>2. \A i \in DOMAIN m : m[i] \in S
    BY <1>2
  <2> QED BY <1>1, <1>3, <2>1, <2>2 DEF Range
<1>4. CASE d \notin Range(m)
  <2> DEFINE l == <<d>> \o m
  <2>1. ModeList(options) = l
    BY <1>4 DEF ModeList
  <2> HIDE DEF d, m, S
  <2>2. <<d>> \in Seq(S) /\ Len(<<d>>) = 1 /\ <<d>>[1] = d
    BY DEF S
  <2>3. /\ l \in Seq(S) /\ Len(l) = 1 + Len(m)
        /\ \A i \in 1..(1 + Len(m)) : l[i] = IF i <= 1 THEN <<d>>[i] ELSE m[i - 1]
    BY <1>2, <2>2, ConcatIs
  <2>4. DOMAIN l = 1..(1 + Len(m)) /\ 1 \in 1..(1 + Len(m)) /\ l[1] = d
    BY <1>2, <2>2, <2>3
  <2>5. \A i \in DOMAIN l : l[i] \in S
    BY <2>3
  <2>6. IsList(l)
    <3> HIDE DEF l
    <3> QED BY <2>3, MakesList
  <2>7. /\ \E i \in DOMAIN l : l[i] = d
        /\ \A i \in DOMAIN l : Fold(l[i]) # Fold("")
    <3> HIDE DEF l
    <3> QED BY <1>1, <2>4, <2>5
  <2> HIDE DEF l
  <2> QED BY <2>1, <2>6, <2>7 DEF d
<1> QED BY <1>3, <1>4

\* The mode a server starts with is its default, which is in its list.
LEMMA ModeStart == ASSUME NEW scn \in TfScenarios, TfStart(scn) PROVE ModeInv
<1> DEFINE l == ModeList(scn.options)
           d == scn.options.default
<1>1. tfScn = scn /\ tfScn \in TfScenarios /\ scn.options \in tfScn.restarts \union {tfScn.options}
  BY DEF TfStart
<1>2. /\ IsList(l) /\ (\E i \in DOMAIN l : l[i] = d) /\ \A i \in DOMAIN l : Fold(l[i]) # Fold("")
  BY <1>1, DefaultListed
<1> HIDE DEF l, d
<1>3. tfMd = [list |-> l, mode |-> d, stored |-> "", pc |-> <<"idle", "idle">>,
              new |-> <<"", "">>, sets |-> 0, hook |-> FALSE, over |-> FALSE, failed |-> FALSE, starts |-> 1]
  BY DEF TfStart, l, d
<1>4. tfMd.list = l /\ tfMd.mode = d /\ tfMd.stored = "" /\ tfMd.pc = <<"idle", "idle">>
  BY <1>3
<1>5. MdShape
  <2>1. <<"idle", "idle">> \in [Requests -> {"idle", "store"}] /\ DOMAIN <<"", "">> = Requests
    BY Pair
  <2> QED BY <1>3, <2>1 DEF MdShape
<1>6. ModeKnown /\ ModeStored
  BY <1>2, <1>4 DEF ModeKnown, ModeStored
<1>7. StoresMode
  <2>1. \A w \in Requests : tfMd.pc[w] = "idle"
    BY <1>4, <1>5, BothIdle DEF MdShape
  <2> QED BY <2>1 DEF StoresMode
<1> QED BY <1>2, <1>4, <1>5, <1>6, <1>7 DEF ModeInv

\* SetMode takes a mode as the list writes it, and is about to store it.
LEMMA SetModeKeeps ==
  ASSUME ModeInv, UNCHANGED tfScn, NEW w \in Requests, NEW m, SetMode(w, m)
  PROVE  ModeInv'
<1> DEFINE k == Known(m)
<1>1. tfMd.pc[w] = "idle"
  BY DEF SetMode
<1>2. CASE ~InList(k) \/ k = tfMd.mode
  <2>1. tfMd' = [tfMd EXCEPT !.sets = tfMd.sets + 1]
    BY <1>2 DEF SetMode
  <2>2. /\ MdShape' /\ tfMd'.list = tfMd.list /\ tfMd'.mode = tfMd.mode /\ tfMd'.stored = tfMd.stored
        /\ tfMd'.pc = tfMd.pc /\ tfMd'.new = tfMd.new /\ tfMd'.over = tfMd.over /\ tfMd'.failed = tfMd.failed
    BY <2>1 DEF ModeInv, MdShape
  <2>3. ModeKnown' /\ ModeStored' /\ StoresMode' /\ IsList(tfMd.list)'
    BY <2>2 DEF ModeInv, ModeKnown, ModeStored, StoresMode, Fold
  <2> QED BY <2>2, <2>3 DEF ModeInv
<1>3. CASE InList(k) /\ k # tfMd.mode
  <2> DEFINE o == tfMd.over \/ \E x \in Requests : tfMd.pc[x] # "idle"
  <2> HIDE DEF k
  <2>1. tfMd' = [tfMd EXCEPT !.pc = [tfMd.pc EXCEPT ![w] = "store"], !.mode = k, !.new = [tfMd.new EXCEPT ![w] = k],
                             !.sets = tfMd.sets + 1, !.hook = TRUE, !.over = o]
    BY <1>3 DEF SetMode, k, Requests
  <2>2. o \in BOOLEAN
    BY DEF ModeInv, MdShape
  <2> HIDE DEF o
  <2>3. /\ tfMd'.list = tfMd.list /\ tfMd'.mode = k /\ tfMd'.stored = tfMd.stored
        /\ tfMd'.pc = [tfMd.pc EXCEPT ![w] = "store"] /\ tfMd'.new = [tfMd.new EXCEPT ![w] = k] /\ tfMd'.over = o
        /\ tfMd'.failed = tfMd.failed
        /\ tfMd' = [list |-> tfMd'.list, mode |-> tfMd'.mode, stored |-> tfMd'.stored, pc |-> tfMd'.pc, new |-> tfMd'.new,
             sets |-> tfMd'.sets, hook |-> tfMd'.hook, over |-> tfMd'.over, failed |-> tfMd'.failed, starts |-> tfMd'.starts]
    BY <2>1 DEF ModeInv, MdShape
  <2>4. MdShape'
    BY <2>2, <2>3 DEF ModeInv, MdShape
  <2>5. ModeKnown' /\ IsList(tfMd.list)'
    BY <1>3, <2>3 DEF ModeInv, ModeKnown, InList, Range, Fold
  <2>6. tfMd'.pc[w] = "store" /\ tfMd'.new[w] = k /\ \A x \in Requests : x # w => tfMd'.pc[x] = tfMd.pc[x]
    BY <2>3 DEF ModeInv, MdShape
  <2>7. ModeStored'
    <3>1. tfMd'.pc # <<"idle", "idle">>
      BY <2>4, <2>6, BothIdle DEF MdShape
    <3> QED BY <3>1 DEF ModeStored
  <2>8. StoresMode'
    <3> SUFFICES ASSUME ~o PROVE \A x \in Requests : tfMd'.pc[x] = "store" =>
                                   tfMd'.new[x] = tfMd'.mode /\ \A y \in Requests : y # x => tfMd'.pc[y] = "idle"
      BY <2>3 DEF StoresMode
    <3>1. \A x \in Requests : tfMd.pc[x] = "idle"
      BY DEF o
    <3> QED BY <2>3, <2>6, <3>1
  <2> QED BY <2>4, <2>5, <2>7, <2>8 DEF ModeInv
<1> QED BY <1>2, <1>3

\* The store of SetMode, which may fail.
LEMMA SetModeStoresKeeps ==
  ASSUME ModeInv, UNCHANGED tfScn, NEW w \in Requests, SetModeStores(w)
  PROVE  ModeInv'
<1> DEFINE p == [tfMd.pc EXCEPT ![w] = "idle"]
<1>0. tfMd.pc[w] = "store"
  BY DEF SetModeStores
<1>1. p \in [Requests -> {"idle", "store"}] /\ p[w] = "idle" /\ \A x \in Requests : x # w => p[x] = tfMd.pc[x]
  BY DEF ModeInv, MdShape
<1> HIDE DEF p
<1>2. CASE tfMd' = [tfMd EXCEPT !.pc = p, !.stored = tfMd.new[w]]
  <2>1. /\ tfMd'.list = tfMd.list /\ tfMd'.mode = tfMd.mode /\ tfMd'.stored = tfMd.new[w]
        /\ tfMd'.pc = p /\ tfMd'.new = tfMd.new /\ tfMd'.over = tfMd.over /\ tfMd'.failed = tfMd.failed
        /\ tfMd' = [list |-> tfMd'.list, mode |-> tfMd'.mode, stored |-> tfMd'.stored, pc |-> tfMd'.pc, new |-> tfMd'.new,
             sets |-> tfMd'.sets, hook |-> tfMd'.hook, over |-> tfMd'.over, failed |-> tfMd'.failed, starts |-> tfMd'.starts]
    BY <1>2 DEF ModeInv, MdShape
  <2>2. MdShape'
    BY <1>1, <2>1 DEF ModeInv, MdShape
  <2>3. ModeKnown' /\ IsList(tfMd.list)'
    BY <2>1 DEF ModeInv, ModeKnown, Fold
  <2>4. ModeStored'
    BY <1>0, <2>1 DEF ModeInv, ModeStored, StoresMode
  <2>5. StoresMode'
    BY <1>1, <2>1 DEF ModeInv, StoresMode
  <2> QED BY <2>2, <2>3, <2>4, <2>5 DEF ModeInv
<1>3. CASE tfMd' = [tfMd EXCEPT !.pc = p, !.failed = TRUE]
  <2>1. /\ tfMd'.list = tfMd.list /\ tfMd'.mode = tfMd.mode /\ tfMd'.stored = tfMd.stored
        /\ tfMd'.pc = p /\ tfMd'.new = tfMd.new /\ tfMd'.over = tfMd.over /\ tfMd'.failed = TRUE
        /\ tfMd' = [list |-> tfMd'.list, mode |-> tfMd'.mode, stored |-> tfMd'.stored, pc |-> tfMd'.pc, new |-> tfMd'.new,
             sets |-> tfMd'.sets, hook |-> tfMd'.hook, over |-> tfMd'.over, failed |-> tfMd'.failed, starts |-> tfMd'.starts]
    BY <1>3 DEF ModeInv, MdShape
  <2>2. MdShape'
    BY <1>1, <2>1 DEF ModeInv, MdShape
  <2>3. ModeKnown' /\ IsList(tfMd.list)'
    BY <2>1 DEF ModeInv, ModeKnown, Fold
  <2>4. ModeStored'
    BY <2>1 DEF ModeStored
  <2>5. StoresMode'
    BY <1>1, <2>1 DEF ModeInv, StoresMode
  <2> QED BY <2>2, <2>3, <2>4, <2>5 DEF ModeInv
<1> QED BY <1>2, <1>3 DEF SetModeStores, p

\* A restart, with what was stored if its list has that and with its default otherwise.
LEMMA RestartKeeps ==
  ASSUME tfScn \in TfScenarios, ModeInv, UNCHANGED tfScn, NEW options \in tfScn.restarts, Restart(options)
  PROVE  ModeInv'
<1> DEFINE l == ModeList(options)
           d == options.default
           q == PreStart(l, d, tfMd.stored)
<1>1. IsList(l) /\ (\E i \in DOMAIN l : l[i] = d)
  BY DefaultListed
<1>2. tfMd' = [tfMd EXCEPT !.list = l, !.mode = q, !.starts = tfMd.starts + 1,
                           !.pc = <<"idle", "idle">>, !.hook = FALSE, !.over = FALSE, !.failed = FALSE]
  BY DEF Restart
<1>3. q = IF \E i \in DOMAIN l : Fold(l[i]) = Fold(tfMd.stored) THEN tfMd.stored ELSE d
  BY DEF PreStart
<1> HIDE DEF l, d, q
<1>4. /\ tfMd'.list = l /\ tfMd'.mode = q /\ tfMd'.stored = tfMd.stored
      /\ tfMd'.pc = <<"idle", "idle">> /\ tfMd'.new = tfMd.new /\ tfMd'.over = FALSE /\ tfMd'.failed = FALSE
      /\ tfMd' = [list |-> tfMd'.list, mode |-> tfMd'.mode, stored |-> tfMd'.stored, pc |-> tfMd'.pc, new |-> tfMd'.new,
             sets |-> tfMd'.sets, hook |-> tfMd'.hook, over |-> tfMd'.over, failed |-> tfMd'.failed, starts |-> tfMd'.starts]
  BY <1>2 DEF ModeInv, MdShape
<1>5. MdShape'
  <2>1. <<"idle", "idle">> \in [Requests -> {"idle", "store"}]
    BY Pair
  <2>2. tfMd'.over \in BOOLEAN /\ tfMd'.failed \in BOOLEAN
    BY <1>4
  <2> QED BY <1>4, <2>1, <2>2 DEF ModeInv, MdShape
<1>6. ModeKnown' /\ ModeStored' /\ IsList(tfMd.list)'
  BY <1>1, <1>3, <1>4 DEF ModeKnown, ModeStored, Fold
<1>7. StoresMode'
  <2>1. \A w \in Requests : tfMd'.pc[w] = "idle"
    BY <1>4, <1>5, BothIdle DEF MdShape
  <2> QED BY <2>1 DEF StoresMode
<1> QED BY <1>5, <1>6, <1>7 DEF ModeInv

-----------------------------------------------------------------------------
(* The files of the user interface. *)

\* The files of the archive, trimmed, are a list.
LEMMA FilesList ==
  ASSUME tfScn \in TfScenarios
  PROVE  Len(Files) \in Nat /\ DOMAIN Files = 1..Len(Files)
<1> DEFINE s == tfScn.files
<1>1. IsList(s)
  BY TfAssumption
<1>2. Len(s) \in Nat /\ DOMAIN s = 1..Len(s)
  <2>1. \A i \in DOMAIN s : s[i] \in {s[j] : j \in DOMAIN s}
    OBVIOUS
  <2> HIDE DEF s
  <2> QED BY <1>1, <2>1, ListOf
<1>3. CASE zipIsInSingleDirectory(s)
  <2> DEFINE T == {Tail(s[i]) : i \in DOMAIN s}
  <2>1. Files = [i \in 1..Len(s) |-> Tail(s[i])]
    BY <1>2, <1>3 DEF Files, Trimmed
  <2>2. \A i \in 1..Len(s) : Tail(s[i]) \in T
    BY <1>2
  <2> HIDE DEF s, T
  <2>3. Files \in [1..Len(s) -> T]
    BY <2>1, <2>2
  <2> QED BY <1>2, <2>3
<1>4. CASE ~zipIsInSingleDirectory(s)
  BY <1>2, <1>4 DEF Files, Trimmed
<1> QED BY <1>3, <1>4

\* The directory is empty at the start.
LEMMA FilesStart == ASSUME NEW scn \in TfScenarios, TfStart(scn) PROVE FilesInv
<1>1. tfUi = [pc |-> "start", dir |-> {}, at |-> 0, starts |-> 1, killed |-> FALSE]
  BY DEF TfStart
<1>2. tfUi.killed \in BOOLEAN
  BY <1>1
<1>3. tfUi.pc = "start" /\ tfUi.dir = {} /\ tfUi.at = 0
  BY <1>1
<1>4. tfUi = [pc |-> tfUi.pc, dir |-> tfUi.dir, at |-> tfUi.at, starts |-> tfUi.starts, killed |-> tfUi.killed]
  BY <1>1
<1> QED BY <1>2, <1>3, <1>4 DEF FilesInv, UiShape, Unpacked

\* What one step does to the record.
LEMMA UiStep ==
  ASSUME FilesInv, NEW p, NEW d, NEW n, NEW k, tfUi' = [tfUi EXCEPT !.pc = p, !.dir = d, !.at = n, !.killed = k]
  PROVE  /\ tfUi'.pc = p /\ tfUi'.dir = d /\ tfUi'.at = n /\ tfUi'.killed = k
         /\ (p \in {"start", "download", "unpack", "entry", "failed", "end"} /\ n \in Nat /\ k \in BOOLEAN) => UiShape'
<1>1. tfUi = [pc |-> tfUi.pc, dir |-> tfUi.dir, at |-> tfUi.at, starts |-> tfUi.starts, killed |-> tfUi.killed]
  BY DEF FilesInv, UiShape
<1>2. tfUi' = [pc |-> p, dir |-> d, at |-> n, starts |-> tfUi.starts, killed |-> k]
  BY <1>1
<1> QED BY <1>2 DEF UiShape

\* Every step of the download, of its clean-up and of the kill leaves the directory as Unpacked has it.
LEMMA FilesKept ==
  ASSUME tfScn \in TfScenarios, FilesInv, UNCHANGED tfScn,
         \/ checkAndDownloadExternalUI \/ downloadExternalUI \/ downloadZIP
         \/ downloadZIPEntry \/ removeAllInDirectory \/ UiCrash
  PROVE  FilesInv'
<1> DEFINE L == Len(Files)
           u == tfUi
<1>0. L \in Nat /\ DOMAIN Files = 1..L /\ Files' = Files /\ L' = L
  BY FilesList DEF Files
<1>1. tfUi = [pc |-> u.pc, dir |-> u.dir, at |-> u.at, starts |-> u.starts, killed |-> u.killed]
      /\ u.at \in Nat /\ u.killed \in BOOLEAN /\ u.pc \in {"start", "download", "unpack", "entry", "failed", "end"}
  BY DEF FilesInv, UiShape
<1>w. \A n : Whole(n)' = Whole(n)
  BY <1>0 DEF Whole
<1>2. CASE checkAndDownloadExternalUI
  <2>1. u.pc = "start" /\ tfUi' = [tfUi EXCEPT !.pc = IF u.dir = {} THEN "download" ELSE "end", !.dir = u.dir, !.at = u.at, !.killed = u.killed]
    BY <1>1, <1>2 DEF checkAndDownloadExternalUI
  <2>2. /\ tfUi'.pc = (IF u.dir = {} THEN "download" ELSE "end") /\ tfUi'.dir = u.dir /\ tfUi'.at = u.at
        /\ tfUi'.killed = u.killed /\ UiShape'
    BY <1>1, <2>1, UiStep
  <2> QED BY <1>0, <1>w, <2>1, <2>2 DEF FilesInv, Unpacked
<1>3. CASE downloadExternalUI
  <2>1. u.pc = "download" /\ u.dir = {}
    BY <1>3 DEF downloadExternalUI, FilesInv, Unpacked
  <2>2. CASE tfUi' = [tfUi EXCEPT !.pc = "end"]
    <3>1. tfUi' = [tfUi EXCEPT !.pc = "end", !.dir = u.dir, !.at = u.at, !.killed = u.killed]
      BY <1>1, <2>2
    <3>2. tfUi'.pc = "end" /\ tfUi'.dir = u.dir /\ UiShape'
      BY <1>1, <3>1, UiStep
    <3> QED BY <2>1, <3>2 DEF FilesInv, Unpacked
  <2>3. CASE tfUi' = [tfUi EXCEPT !.pc = "unpack", !.at = 1]
    <3>1. tfUi' = [tfUi EXCEPT !.pc = "unpack", !.dir = u.dir, !.at = 1, !.killed = u.killed]
      BY <1>1, <2>3
    <3>2. tfUi'.pc = "unpack" /\ tfUi'.dir = {} /\ tfUi'.at = 1 /\ UiShape'
      BY <1>1, <2>1, <3>1, UiStep, 1 \in Nat
    <3>3. 1 \in 1..(L + 1) /\ tfUi'.at - 1 = 0
      BY <1>0, <3>2
    <3>4. Whole(0) = {}
      <4>1. 1..0 = {}
        OBVIOUS
      <4> QED BY <4>1 DEF Whole
    <3>5. Whole(tfUi.at - 1)' = {}
      BY <1>0, <3>3, <3>4 DEF Whole
    <3> QED BY <1>0, <3>2, <3>3, <3>5 DEF FilesInv, Unpacked
  <2> QED BY <1>3, <2>2, <2>3 DEF downloadExternalUI
<1>4. CASE downloadZIP
  <2>1. u.pc = "unpack" /\ u.at \in 1..(L + 1) /\ u.dir = Whole(u.at - 1)
    BY <1>4 DEF downloadZIP, FilesInv, Unpacked
  <2>2. CASE u.at > L /\ tfUi' = [tfUi EXCEPT !.pc = "end"]
    <3>1. tfUi' = [tfUi EXCEPT !.pc = "end", !.dir = u.dir, !.at = u.at, !.killed = u.killed]
      BY <1>1, <2>2
    <3>2. tfUi'.pc = "end" /\ tfUi'.dir = u.dir /\ UiShape'
      BY <1>1, <3>1, UiStep
    <3>3. u.at - 1 = L
      BY <1>0, <2>1, <2>2
    <3> QED BY <1>0, <1>w, <2>1, <3>2, <3>3 DEF FilesInv, Unpacked
  <2>3. CASE u.at <= L /\ tfUi' = [tfUi EXCEPT !.pc = "entry", !.dir = u.dir \union {<<Files[u.at], FALSE>>}]
    <3>1. tfUi' = [tfUi EXCEPT !.pc = "entry", !.dir = u.dir \union {<<Files[u.at], FALSE>>}, !.at = u.at, !.killed = u.killed]
      BY <1>1, <2>3
    <3>2. tfUi'.pc = "entry" /\ tfUi'.dir = u.dir \union {<<Files[u.at], FALSE>>} /\ tfUi'.at = u.at /\ UiShape'
      BY <1>1, <3>1, UiStep
    <3>3. u.at \in 1..L
      BY <1>0, <2>1, <2>3
    <3> QED BY <1>0, <1>w, <2>1, <3>2, <3>3 DEF FilesInv, Unpacked
  <2>4. CASE tfUi' = [tfUi EXCEPT !.pc = "failed"]
    <3>1. tfUi' = [tfUi EXCEPT !.pc = "failed", !.dir = u.dir, !.at = u.at, !.killed = u.killed]
      BY <1>1, <2>4
    <3>2. tfUi'.pc = "failed" /\ UiShape'
      BY <1>1, <3>1, UiStep
    <3> QED BY <3>2 DEF FilesInv, Unpacked
  <2> QED BY <1>4, <2>2, <2>3, <2>4 DEF downloadZIP, Files
<1>5. CASE downloadZIPEntry
  <2> DEFINE f == Files[u.at]
             n == u.at
  <2>1. u.pc = "entry" /\ n \in 1..L /\ u.dir = Whole(n - 1) \union {<<f, FALSE>>}
    BY <1>5 DEF downloadZIPEntry, FilesInv, Unpacked
  <2>2. CASE tfUi' = [tfUi EXCEPT !.pc = "unpack", !.at = n + 1, !.dir = (u.dir \ {<<f, FALSE>>}) \union {<<f, TRUE>>}]
    <3>1. tfUi' = [tfUi EXCEPT !.pc = "unpack", !.dir = (u.dir \ {<<f, FALSE>>}) \union {<<f, TRUE>>}, !.at = n + 1,
                               !.killed = u.killed]
      BY <1>1, <2>2
    <3>2. tfUi'.pc = "unpack" /\ tfUi'.dir = (u.dir \ {<<f, FALSE>>}) \union {<<f, TRUE>>} /\ tfUi'.at = n + 1 /\ UiShape'
      <4> DEFINE e == (u.dir \ {<<f, FALSE>>}) \union {<<f, TRUE>>}
                 m == n + 1
      <4>1. m \in Nat /\ u.killed \in BOOLEAN
        BY <1>1
      <4>2. tfUi' = [tfUi EXCEPT !.pc = "unpack", !.dir = e, !.at = m, !.killed = u.killed]
        BY <3>1
      <4> HIDE DEF e, m
      <4>3. tfUi'.pc = "unpack" /\ tfUi'.dir = e /\ tfUi'.at = m /\ UiShape'
        BY <4>1, <4>2, UiStep, ZenonT(40)
      <4> QED BY <4>3 DEF e, m
    <3>3. n + 1 \in 1..(L + 1) /\ n + 1 - 1 = n /\ 1..n = 1..(n - 1) \union {n}
      BY <1>0, <2>1
    <3>4. Whole(n) = Whole(n - 1) \union {<<f, TRUE>>}
      <4> DEFINE A == 1..(n - 1)
                 B == 1..n
      <4>1. B = A \union {n}
        BY <3>3
      <4> HIDE DEF A, B
      <4>2. {<<Files[i], TRUE>> : i \in B} = {<<Files[i], TRUE>> : i \in A} \union {<<f, TRUE>>}
        BY <4>1
      <4> QED BY <4>2 DEF Whole, A, B
    <3>5. \A x : <<x, TRUE>> # <<f, FALSE>>
      OBVIOUS
    <3>6. <<f, FALSE>> \notin Whole(n - 1)
      <4> SUFFICES ASSUME NEW i \in 1..(n - 1), <<Files[i], TRUE>> = <<f, FALSE>> PROVE FALSE
        BY DEF Whole
      <4> HIDE DEF f
      <4> QED BY <3>5
    <3>7. tfUi'.dir = Whole(n)
      BY <2>1, <3>2, <3>4, <3>6
    <3>8. tfUi'.at - 1 = n
      BY <1>1, <3>2
    <3>9. Whole(tfUi.at - 1)' = Whole(n)
      BY <1>0, <3>8 DEF Whole
    <3> QED BY <1>0, <3>2, <3>3, <3>7, <3>9 DEF FilesInv, Unpacked
  <2>3. CASE tfUi' = [tfUi EXCEPT !.pc = "failed"]
    <3>1. tfUi' = [tfUi EXCEPT !.pc = "failed", !.dir = u.dir, !.at = u.at, !.killed = u.killed]
      BY <1>1, <2>3
    <3>2. tfUi'.pc = "failed" /\ UiShape'
      BY <1>1, <3>1, UiStep
    <3> QED BY <3>2 DEF FilesInv, Unpacked
  <2> QED BY <1>5, <2>2, <2>3 DEF downloadZIPEntry, Files
<1>6. CASE removeAllInDirectory
  <2>1. tfUi' = [tfUi EXCEPT !.pc = "end", !.dir = {}, !.at = u.at, !.killed = u.killed]
    BY <1>1, <1>6 DEF removeAllInDirectory
  <2>2. tfUi'.pc = "end" /\ tfUi'.dir = {} /\ UiShape'
    BY <1>1, <2>1, UiStep
  <2> QED BY <2>2 DEF FilesInv, Unpacked
<1>7. CASE UiCrash
  <2> DEFINE k == u.killed \/ u.pc \in {"unpack", "entry", "failed"}
  <2>1. tfUi' = [tfUi EXCEPT !.pc = "start", !.starts = tfUi.starts + 1, !.killed = k]
    BY <1>7 DEF UiCrash
  <2>2. k \in BOOLEAN /\ (~k => ~u.killed /\ u.pc \in {"start", "download", "end"})
    BY <1>1
  <2> HIDE DEF k
  <2>3. tfUi' = [pc |-> "start", dir |-> u.dir, at |-> u.at, starts |-> u.starts + 1, killed |-> k]
    BY <1>1, <2>1
  <2>4. tfUi'.pc = "start" /\ tfUi'.dir = u.dir /\ tfUi'.killed = k /\ UiShape'
    BY <1>1, <2>2, <2>3 DEF UiShape
  <2>5. ~k => u.dir \in {{}, Whole(L)}
    BY <2>2 DEF FilesInv, Unpacked
  <2> QED BY <1>0, <1>w, <2>4, <2>5 DEF FilesInv, Unpacked
<1> QED BY <1>2, <1>3, <1>4, <1>5, <1>6, <1>7

-----------------------------------------------------------------------------
(* The delays, by the fields of their record. *)

Real(now, o) == IF o \in DOMAIN now THEN now[o] ELSE o
Runs(now, pc, same, through, of) ==
  \A w \in Requests : pc[w] = "test" /\ same[w] => through[w] = Real(now, of[w])
Once(jobs, result) ==
  /\ \A x, y \in DOMAIN jobs : jobs[x] = jobs[y] => x = y
  /\ \A x, y \in DOMAIN result : result[x] = result[y] => x = y
  /\ \A x \in DOMAIN jobs, y \in DOMAIN result : x # y /\ jobs[x] # result[y]
Measured(history) == \A o \in DOMAIN history : history[o].same => history[o].through = o

\* The invariant of the delays, field by field, now and in the next state.
LEMMA DelayFields ==
  /\ DelayInv <=> /\ DlShape /\ Runs(tfDl.now, tfDl.pc, tfDl.same, tfDl.through, tfDl.of)
                  /\ (\A w \in Requests : Once(tfDl.jobs[w], tfDl.result[w])) /\ Measured(tfDl.history)
  /\ DelayInv' <=> /\ DlShape' /\ Runs(tfDl'.now, tfDl'.pc, tfDl'.same, tfDl'.through, tfDl'.of)
                   /\ (\A w \in Requests : Once(tfDl'.jobs[w], tfDl'.result[w])) /\ Measured(tfDl'.history)
<1>1. RunsThrough <=> Runs(tfDl.now, tfDl.pc, tfDl.same, tfDl.through, tfDl.of)
  BY DEF RunsThrough, Runs, RealTag, Real
<1>2. RunsThrough' <=> Runs(tfDl'.now, tfDl'.pc, tfDl'.same, tfDl'.through, tfDl'.of)
  BY DEF RunsThrough, Runs, RealTag, Real
<1>3. EachOnce <=> \A w \in Requests : Once(tfDl.jobs[w], tfDl.result[w])
  BY DEF EachOnce, Once
<1>4. EachOnce' <=> \A w \in Requests : Once(tfDl'.jobs[w], tfDl'.result[w])
  BY DEF EachOnce, Once
<1>5. (DelayOfTested <=> Measured(tfDl.history)) /\ (DelayOfTested' <=> Measured(tfDl'.history))
  BY DEF DelayOfTested, Measured
<1> QED BY <1>1, <1>2, <1>3, <1>4, <1>5 DEF DelayInv

\* The next record, field by field.
LEMMA DelayNext ==
  ASSUME NEW now, NEW history, NEW pc, NEW of, NEW through, NEW same, NEW answer, NEW jobs, NEW result, NEW tests,
         NEW switches,
         tfDl' = [now |-> now, history |-> history, pc |-> pc, of |-> of, through |-> through,
                  same |-> same, answer |-> answer, jobs |-> jobs, result |-> result,
                  tests |-> tests, switches |-> switches],
         pc \in [Requests -> {"idle", "test", "group"}], same \in [Requests -> BOOLEAN],
         DOMAIN of = Requests, DOMAIN through = Requests, DOMAIN answer = Requests,
         DOMAIN jobs = Requests, DOMAIN result = Requests,
         Runs(now, pc, same, through, of), \A w \in Requests : Once(jobs[w], result[w]), Measured(history)
  PROVE  DelayInv'
<1>1. /\ tfDl'.now = now /\ tfDl'.history = history /\ tfDl'.pc = pc /\ tfDl'.of = of /\ tfDl'.through = through
      /\ tfDl'.same = same /\ tfDl'.answer = answer /\ tfDl'.jobs = jobs /\ tfDl'.result = result
      /\ tfDl'.tests = tests /\ tfDl'.switches = switches
  OBVIOUS
<1>2. DlShape'
  BY <1>1 DEF DlShape
<1> QED BY <1>1, <1>2, DelayFields

\* Nothing was tested at the start.
LEMMA DelayStart == ASSUME NEW scn \in TfScenarios, TfStart(scn) PROVE DelayInv
<1> DEFINE n == scn.now
<1>1. tfDl = [now |-> n, history |-> <<>>, pc |-> <<"idle", "idle">>, of |-> <<"", "">>,
              through |-> <<"", "">>, same |-> <<TRUE, TRUE>>, answer |-> <<"", "">>, jobs |-> <<<<>>, <<>>>>,
              result |-> <<<<>>, <<>>>>, tests |-> 0, switches |-> 0]
  BY DEF TfStart
<1> HIDE DEF n
<1>2. /\ tfDl = [now |-> tfDl.now, history |-> tfDl.history, pc |-> tfDl.pc, of |-> tfDl.of, through |-> tfDl.through,
             same |-> tfDl.same, answer |-> tfDl.answer, jobs |-> tfDl.jobs, result |-> tfDl.result,
             tests |-> tfDl.tests, switches |-> tfDl.switches]
      /\ tfDl.history = <<>> /\ tfDl.pc = <<"idle", "idle">> /\ tfDl.of = <<"", "">> /\ tfDl.through = <<"", "">>
      /\ tfDl.same = <<TRUE, TRUE>> /\ tfDl.answer = <<"", "">> /\ tfDl.jobs = <<<<>>, <<>>>> /\ tfDl.result = <<<<>>, <<>>>>
  BY <1>1
<1>3. <<"idle", "idle">> \in [Requests -> {"idle", "test", "group"}] /\ <<"idle", "idle">>[1] = "idle" /\ <<"idle", "idle">>[2] = "idle"
  BY Pair
<1>4. <<TRUE, TRUE>> \in [Requests -> BOOLEAN]
  <2>1. TRUE \in BOOLEAN
    OBVIOUS
  <2> QED BY <2>1, Pair
<1>5. DOMAIN <<"", "">> = Requests
  BY Pair
<1>6. DOMAIN <<<<>>, <<>>>> = Requests /\ <<<<>>, <<>>>>[1] = <<>> /\ <<<<>>, <<>>>>[2] = <<>>
  <2>1. <<>> \in {<<>>}
    OBVIOUS
  <2> QED BY <2>1, Pair
<1>7. DlShape
  BY <1>2, <1>3, <1>4, <1>5, <1>6 DEF DlShape
<1>8. Runs(tfDl.now, tfDl.pc, tfDl.same, tfDl.through, tfDl.of)
  BY <1>2, <1>3 DEF Runs, Requests
<1>e. \A f : f = <<>> => DOMAIN f = {}
  OBVIOUS
<1>9. \A w \in Requests : Once(tfDl.jobs[w], tfDl.result[w])
  <2>1. \A w \in Requests : tfDl.jobs[w] = <<>> /\ tfDl.result[w] = <<>>
    BY <1>2, <1>6 DEF Requests
  <2>2. \A w \in Requests : DOMAIN tfDl.jobs[w] = {} /\ DOMAIN tfDl.result[w] = {}
    BY <1>e, <2>1
  <2> QED BY <2>2 DEF Once
<1>10. Measured(tfDl.history)
  BY <1>e, <1>2 DEF Measured
<1> QED BY <1>7, <1>8, <1>9, <1>10, DelayFields

\* The record, its fields and what is known of them.
LEMMA DelayNow ==
  ASSUME DelayInv
  PROVE  /\ tfDl = [now |-> tfDl.now, history |-> tfDl.history, pc |-> tfDl.pc, of |-> tfDl.of, through |-> tfDl.through,
                    same |-> tfDl.same, answer |-> tfDl.answer, jobs |-> tfDl.jobs, result |-> tfDl.result,
                    tests |-> tfDl.tests, switches |-> tfDl.switches]
         /\ tfDl.pc \in [Requests -> {"idle", "test", "group"}] /\ tfDl.same \in [Requests -> BOOLEAN]
         /\ DOMAIN tfDl.of = Requests /\ DOMAIN tfDl.through = Requests /\ DOMAIN tfDl.answer = Requests
         /\ DOMAIN tfDl.jobs = Requests /\ DOMAIN tfDl.result = Requests
         /\ Runs(tfDl.now, tfDl.pc, tfDl.same, tfDl.through, tfDl.of)
         /\ (\A w \in Requests : Once(tfDl.jobs[w], tfDl.result[w])) /\ Measured(tfDl.history)
BY DelayFields DEF DlShape

\* A request for the delay of one outbound starts its test, or is refused.
LEMMA ProxyDelayKeeps ==
  ASSUME DelayInv, NEW w \in Requests, NEW o, NEW t, getProxyDelay(w, o, t)
  PROVE  DelayInv'
<1> USE DelayNow
<1>1. CASE ~ParseTimeout(t, 16)
  <2> DEFINE a == [tfDl.answer EXCEPT ![w] = "bad request"]
             e == tfDl.tests + 1
  <2>1. tfDl' = [tfDl EXCEPT !.answer = a, !.tests = e]
    BY <1>1 DEF getProxyDelay
  <2>2. DOMAIN a = Requests
    OBVIOUS
  <2> HIDE DEF a, e
  <2>3. tfDl' = [now |-> tfDl.now, history |-> tfDl.history, pc |-> tfDl.pc, of |-> tfDl.of, through |-> tfDl.through,
                 same |-> tfDl.same, answer |-> a, jobs |-> tfDl.jobs, result |-> tfDl.result, tests |-> e,
                 switches |-> tfDl.switches]
    BY <2>1
  <2> QED BY <2>2, <2>3, DelayNext
<1>2. CASE ParseTimeout(t, 16)
  <2> DEFINE p == [tfDl.pc EXCEPT ![w] = "test"]
             f == [tfDl.of EXCEPT ![w] = o]
             r == [tfDl.through EXCEPT ![w] = Real(tfDl.now, o)]
             s == [tfDl.same EXCEPT ![w] = TRUE]
             e == tfDl.tests + 1
  <2>1. tfDl' = [tfDl EXCEPT !.pc = p, !.of = f, !.through = r, !.same = s, !.tests = e]
    BY <1>2 DEF getProxyDelay, RealTag, Real
  <2>2. p \in [Requests -> {"idle", "test", "group"}] /\ s \in [Requests -> BOOLEAN] /\ DOMAIN f = Requests /\ DOMAIN r = Requests
    OBVIOUS
  <2>3. Runs(tfDl.now, p, s, r, f)
    <3> SUFFICES ASSUME NEW v \in Requests, p[v] = "test", s[v] PROVE r[v] = Real(tfDl.now, f[v])
      BY DEF Runs
    <3>1. CASE v = w
      BY <3>1
    <3>2. CASE v # w
      BY <3>2 DEF Runs
    <3> QED BY <3>1, <3>2
  <2> HIDE DEF p, f, r, s, e
  <2>4. tfDl' = [now |-> tfDl.now, history |-> tfDl.history, pc |-> p, of |-> f, through |-> r,
                 same |-> s, answer |-> tfDl.answer, jobs |-> tfDl.jobs, result |-> tfDl.result, tests |-> e,
                 switches |-> tfDl.switches]
    BY <2>1
  <2> QED BY <2>2, <2>3, <2>4, DelayNext
<1> QED BY <1>1, <1>2

\* The test ends, and its delay is stored for the real outbound of that moment.
LEMMA ProxyDelayDoneKeeps ==
  ASSUME DelayInv, NEW w \in Requests, ProxyDelayDone(w)
  PROVE  DelayInv'
<1> USE DelayNow
<1> DEFINE tag == Real(tfDl.now, tfDl.of[w])
           record == [through |-> tfDl.through[w], same |-> tfDl.same[w]]
           stored == Put(tfDl.history, tag, record)
           removed == Restrict(tfDl.history, DOMAIN tfDl.history \ {tag})
           p == [tfDl.pc EXCEPT ![w] = "idle"]
<1>1. tfDl.pc[w] = "test" /\ \E h \in {stored, removed}, x \in {"delay", "timeout", "unavailable"} :
        tfDl' = [tfDl EXCEPT !.pc = p, !.answer = [tfDl.answer EXCEPT ![w] = x], !.history = h]
  BY DEF ProxyDelayDone, RealTag, Real
<1>2. PICK h \in {stored, removed}, x \in {"delay", "timeout", "unavailable"} :
        tfDl' = [tfDl EXCEPT !.pc = p, !.answer = [tfDl.answer EXCEPT ![w] = x], !.history = h]
  BY <1>1
<1>3. Measured(h)
  <2>1. record.same = tfDl.same[w] /\ record.through = tfDl.through[w]
    OBVIOUS
  <2>2. record.same => record.through = tag
    BY <1>1, <2>1 DEF Runs
  <2> HIDE DEF record, tag
  <2>3. Measured(stored)
    BY <2>2 DEF Measured, Put
  <2>4. Measured(removed)
    BY DEF Measured, Restrict
  <2> QED BY <2>3, <2>4
<1>4. p \in [Requests -> {"idle", "test", "group"}]
  OBVIOUS
<1>5. Runs(tfDl.now, p, tfDl.same, tfDl.through, tfDl.of)
  BY DEF Runs
<1> DEFINE a == [tfDl.answer EXCEPT ![w] = x]
<1>6. DOMAIN a = Requests
  OBVIOUS
<1> HIDE DEF a, p
<1>7. tfDl' = [now |-> tfDl.now, history |-> h, pc |-> p, of |-> tfDl.of, through |-> tfDl.through,
               same |-> tfDl.same, answer |-> a, jobs |-> tfDl.jobs, result |-> tfDl.result, tests |-> tfDl.tests,
               switches |-> tfDl.switches]
  BY <1>2 DEF a
<1> QED BY <1>3, <1>4, <1>5, <1>6, <1>7, DelayNext

\* A request for the delays of a group: one test for each real outbound.
LEMMA GroupDelayKeeps ==
  ASSUME tfScn \in TfScenarios, DelayInv, NEW w \in Requests, NEW g \in DOMAIN tfScn.members, NEW t, getGroupDelay(w, g, t)
  PROVE  DelayInv'
<1> USE DelayNow
<1> DEFINE all == tfScn.members[g]
           first == {i \in DOMAIN all : \A j \in 1..(i - 1) : RealTag(all[j]) # RealTag(all[i])}
           real == [tag \in {all[i] : i \in first} |-> RealTag(tag)]
<1>1. Len(all) \in Nat /\ DOMAIN all = 1..Len(all)
  <2>1. IsList(all)
    BY TfAssumption
  <2>2. \A i \in DOMAIN all : all[i] \in {all[j] : j \in DOMAIN all}
    OBVIOUS
  <2> HIDE DEF all
  <2> QED BY <2>1, <2>2, ListOf
<1>2. CASE ~ParseTimeout(t, 32)
  <2> DEFINE a == [tfDl.answer EXCEPT ![w] = "bad request"]
             e == tfDl.tests + 1
  <2>1. tfDl' = [tfDl EXCEPT !.answer = a, !.tests = e]
    BY <1>2 DEF getGroupDelay
  <2>2. DOMAIN a = Requests
    OBVIOUS
  <2> HIDE DEF a, e
  <2>3. tfDl' = [now |-> tfDl.now, history |-> tfDl.history, pc |-> tfDl.pc, of |-> tfDl.of, through |-> tfDl.through,
                 same |-> tfDl.same, answer |-> a, jobs |-> tfDl.jobs, result |-> tfDl.result, tests |-> e,
                 switches |-> tfDl.switches]
    BY <2>1
  <2> QED BY <2>2, <2>3, DelayNext
<1>3. CASE ParseTimeout(t, 32)
  <2> DEFINE p == [tfDl.pc EXCEPT ![w] = "group"]
             f == [tfDl.of EXCEPT ![w] = g]
             j == [tfDl.jobs EXCEPT ![w] = real]
             r == [tfDl.result EXCEPT ![w] = <<>>]
             e == tfDl.tests + 1
  <2>1. tfDl' = [tfDl EXCEPT !.pc = p, !.of = f, !.jobs = j, !.result = r, !.tests = e]
    BY <1>3 DEF getGroupDelay
  <2>2. p \in [Requests -> {"idle", "test", "group"}] /\ DOMAIN f = Requests /\ DOMAIN j = Requests /\ DOMAIN r = Requests
    OBVIOUS
  <2>3. Runs(tfDl.now, p, tfDl.same, tfDl.through, f)
    BY DEF Runs
  <2>4. \A x, y \in DOMAIN real : real[x] = real[y] => x = y
    <3> SUFFICES ASSUME NEW a \in first, NEW b \in first, RealTag(all[a]) = RealTag(all[b]) PROVE a = b
      OBVIOUS
    <3> HIDE DEF all
    <3>1. a \in Nat /\ b \in Nat /\ a >= 1 /\ b >= 1
      BY <1>1
    <3>2. a < b => FALSE
      BY <3>1
    <3>3. b < a => FALSE
      BY <3>1
    <3> QED BY <3>1, <3>2, <3>3
  <2>5. \A v \in Requests : Once(j[v], r[v])
    <3> SUFFICES ASSUME NEW v \in Requests PROVE Once(j[v], r[v])
      OBVIOUS
    <3> HIDE DEF real
    <3>1. CASE v = w
      <4>1. j[v] = real /\ r[v] = <<>>
        BY <3>1
      <4>2. \A x : x = <<>> => DOMAIN x = {}
        OBVIOUS
      <4>3. DOMAIN r[v] = {}
        BY <4>1, <4>2
      <4> QED BY <2>4, <4>1, <4>3 DEF Once
    <3>2. CASE v # w
      BY <3>2
    <3> QED BY <3>1, <3>2
  <2> HIDE DEF p, f, r, j, e
  <2>6. tfDl' = [now |-> tfDl.now, history |-> tfDl.history, pc |-> p, of |-> f, through |-> tfDl.through,
                 same |-> tfDl.same, answer |-> tfDl.answer, jobs |-> j, result |-> r, tests |-> e,
                 switches |-> tfDl.switches]
    BY <2>1
  <2> QED BY <2>2, <2>3, <2>5, <2>6, DelayNext
<1> QED BY <1>2, <1>3

\* One of the tests of a group ends.
LEMMA GroupDelayOneKeeps ==
  ASSUME DelayInv, NEW w \in Requests, NEW tag, GroupDelayOne(w, tag)
  PROVE  DelayInv'
<1> USE DelayNow
<1> DEFINE real == tfDl.jobs[w][tag]
           rest == Restrict(tfDl.jobs[w], DOMAIN tfDl.jobs[w] \ {tag})
           j == [tfDl.jobs EXCEPT ![w] = rest]
           record == [through |-> real, same |-> TRUE]
<1>1. tag \in DOMAIN tfDl.jobs[w] /\ DOMAIN j = Requests
  BY DEF GroupDelayOne
<1>2. DOMAIN rest = DOMAIN tfDl.jobs[w] \ {tag} /\ \A x \in DOMAIN rest : rest[x] = tfDl.jobs[w][x]
  BY DEF Restrict
<1>3. Once(tfDl.jobs[w], tfDl.result[w])
  OBVIOUS
<1> HIDE DEF rest
<1>4. CASE tfDl' = [tfDl EXCEPT !.jobs = j, !.result = [tfDl.result EXCEPT ![w] = Put(tfDl.result[w], tag, real)],
                                !.history = Put(tfDl.history, real, record)]
  <2> DEFINE q == Put(tfDl.result[w], tag, real)
             r == [tfDl.result EXCEPT ![w] = q]
             h == Put(tfDl.history, real, record)
  <2>1. DOMAIN r = Requests
    OBVIOUS
  <2>2. Once(rest, q)
    <3>1. DOMAIN q = DOMAIN tfDl.result[w] \union {tag} /\ q[tag] = real
          /\ \A x \in DOMAIN tfDl.result[w] : x # tag => q[x] = tfDl.result[w][x]
      BY DEF Put
    <3>2. tag \notin DOMAIN tfDl.result[w]
      BY <1>1, <1>3 DEF Once
    <3> HIDE DEF q
    <3> QED BY <1>1, <1>2, <1>3, <3>1, <3>2 DEF Once
  <2>3. \A v \in Requests : Once(j[v], r[v])
    <3> HIDE DEF q
    <3> QED BY <2>2
  <2>4. Measured(h)
    <3>1. record.same = TRUE /\ record.through = real
      OBVIOUS
    <3> HIDE DEF record, real
    <3> QED BY <3>1 DEF Measured, Put
  <2> HIDE DEF r, h
  <2>5. tfDl' = [tfDl EXCEPT !.jobs = j, !.result = r, !.history = h]
    BY <1>4 DEF r, h
  <2> HIDE DEF j
  <2>6. tfDl' = [now |-> tfDl.now, history |-> h, pc |-> tfDl.pc, of |-> tfDl.of, through |-> tfDl.through,
                 same |-> tfDl.same, answer |-> tfDl.answer, jobs |-> j, result |-> r, tests |-> tfDl.tests,
                 switches |-> tfDl.switches]
    BY <2>5
  <2> QED BY <1>1, <2>1, <2>3, <2>4, <2>6, DelayNext
<1>5. CASE tfDl' = [tfDl EXCEPT !.jobs = j, !.history = Restrict(tfDl.history, DOMAIN tfDl.history \ {real})]
  <2> DEFINE h == Restrict(tfDl.history, DOMAIN tfDl.history \ {real})
  <2>1. Once(rest, tfDl.result[w])
    BY <1>2, <1>3 DEF Once
  <2>2. \A v \in Requests : Once(j[v], tfDl.result[v])
    BY <2>1
  <2>3. Measured(h)
    BY DEF Measured, Restrict
  <2> HIDE DEF h, j
  <2>4. tfDl' = [now |-> tfDl.now, history |-> h, pc |-> tfDl.pc, of |-> tfDl.of, through |-> tfDl.through,
                 same |-> tfDl.same, answer |-> tfDl.answer, jobs |-> j, result |-> tfDl.result, tests |-> tfDl.tests,
                 switches |-> tfDl.switches]
    BY <1>5 DEF h
  <2> QED BY <1>1, <2>2, <2>3, <2>4, DelayNext
<1> QED BY <1>4, <1>5 DEF GroupDelayOne, rest

\* A group that switches: the tests that run through it no longer count as of its member.
LEMMA SwitchKeeps ==
  ASSUME DelayInv, NEW p \in [Requests -> {"idle", "test", "group"}], NEW a, DOMAIN a = Requests, NEW n, NEW g, NEW o,
         \A w \in Requests : p[w] = "test" => tfDl.pc[w] = "test"
  PROVE  LET s == [w \in Requests |-> tfDl.same[w] /\ ~(p[w] = "test" /\ tfDl.of[w] = g)]
         IN  /\ s \in [Requests -> BOOLEAN]
             /\ Runs([tfDl.now EXCEPT ![g] = o], p, s, tfDl.through, tfDl.of)
             /\ Runs(tfDl.now, p, tfDl.same, tfDl.through, tfDl.of)
<1> USE DelayNow
<1> DEFINE s == [w \in Requests |-> tfDl.same[w] /\ ~(p[w] = "test" /\ tfDl.of[w] = g)]
           m == [tfDl.now EXCEPT ![g] = o]
<1>1. \A x : x # g => Real(m, x) = Real(tfDl.now, x)
  BY DEF Real
<1>2. s \in [Requests -> BOOLEAN]
  OBVIOUS
<1>3. Runs(m, p, s, tfDl.through, tfDl.of)
  <2> SUFFICES ASSUME NEW w \in Requests, p[w] = "test", s[w] PROVE tfDl.through[w] = Real(m, tfDl.of[w])
    BY DEF Runs
  <2>1. tfDl.pc[w] = "test" /\ tfDl.same[w] /\ tfDl.of[w] # g
    OBVIOUS
  <2>2. tfDl.through[w] = Real(tfDl.now, tfDl.of[w])
    BY <2>1 DEF Runs
  <2> HIDE DEF m
  <2> QED BY <1>1, <2>1, <2>2
<1>4. Runs(tfDl.now, p, tfDl.same, tfDl.through, tfDl.of)
  BY DEF Runs
<1> QED BY <1>2, <1>3, <1>4

\* The request for a group is answered, and the group may switch.
LEMMA GroupDelayDoneKeeps ==
  ASSUME DelayInv, NEW w \in Requests, GroupDelayDone(w)
  PROVE  DelayInv'
<1> USE DelayNow
<1> DEFINE p == [tfDl.pc EXCEPT ![w] = "idle"]
           a == [tfDl.answer EXCEPT ![w] = "delays"]
           b == [tfDl EXCEPT !.pc = p, !.answer = a]
           g == tfDl.of[w]
<1>1. p \in [Requests -> {"idle", "test", "group"}] /\ DOMAIN a = Requests /\ \A v \in Requests : p[v] = "test" => tfDl.pc[v] = "test"
  OBVIOUS
<1>2. tfDl' \in UpdateSelected(b, g)
  BY DEF GroupDelayDone
<1>b. b = [tfDl EXCEPT !.pc = p, !.answer = a]
  OBVIOUS
<1> HIDE DEF p, a, b, g
<1>3. b = [now |-> tfDl.now, history |-> tfDl.history, pc |-> p, of |-> tfDl.of, through |-> tfDl.through,
           same |-> tfDl.same, answer |-> a, jobs |-> tfDl.jobs, result |-> tfDl.result, tests |-> tfDl.tests,
           switches |-> tfDl.switches]
  BY <1>b
<1>4. CASE tfDl' = b
  <2>1. Runs(tfDl.now, p, tfDl.same, tfDl.through, tfDl.of)
    BY <1>1, SwitchKeeps
  <2> QED BY <1>1, <1>3, <1>4, <2>1, DelayNext
<1>5. ASSUME NEW o, tfDl' = Switched(b, g, o) PROVE DelayInv'
  <2> DEFINE m == [tfDl.now EXCEPT ![g] = o]
             s == [v \in Requests |-> tfDl.same[v] /\ ~(p[v] = "test" /\ tfDl.of[v] = g)]
  <2>1. b.now = tfDl.now /\ b.same = tfDl.same /\ b.pc = p /\ b.of = tfDl.of
    BY <1>3
  <2>2. tfDl' = [b EXCEPT !.now = m, !.same = s]
    BY <1>3, <1>5, <2>1 DEF Switched, Requests
  <2>3. s \in [Requests -> BOOLEAN] /\ Runs(m, p, s, tfDl.through, tfDl.of)
    BY <1>1, SwitchKeeps
  <2> HIDE DEF m, s
  <2>4. tfDl' = [now |-> m, history |-> tfDl.history, pc |-> p, of |-> tfDl.of, through |-> tfDl.through,
                 same |-> s, answer |-> a, jobs |-> tfDl.jobs, result |-> tfDl.result, tests |-> tfDl.tests,
                 switches |-> tfDl.switches]
    BY <1>3, <2>2
  <2> QED BY <1>1, <2>3, <2>4, DelayNext
<1> QED BY <1>2, <1>4, <1>5 DEF UpdateSelected

\* A group switches while tests of it are under way.
LEMMA GroupSwitchesKeeps ==
  ASSUME DelayInv, NEW g, NEW o, GroupSwitches(g, o)
  PROVE  DelayInv'
<1> USE DelayNow
<1> DEFINE m == [tfDl.now EXCEPT ![g] = o]
           s == [v \in Requests |-> tfDl.same[v] /\ ~(tfDl.pc[v] = "test" /\ tfDl.of[v] = g)]
           q == [tfDl EXCEPT !.now = m, !.same = s]
           e == tfDl.switches + 1
<1>1. Switched(tfDl, g, o) = q
  BY DEF Switched, Requests
<1>2. s \in [Requests -> BOOLEAN] /\ Runs(m, tfDl.pc, s, tfDl.through, tfDl.of)
  BY SwitchKeeps
<1>q. q = [tfDl EXCEPT !.now = m, !.same = s]
  OBVIOUS
<1> HIDE DEF m, s, q
<1>3. q = [now |-> m, history |-> tfDl.history, pc |-> tfDl.pc, of |-> tfDl.of, through |-> tfDl.through,
           same |-> s, answer |-> tfDl.answer, jobs |-> tfDl.jobs, result |-> tfDl.result, tests |-> tfDl.tests,
           switches |-> tfDl.switches]
  BY <1>q
<1>4. tfDl' = [q EXCEPT !.switches = q.switches + 1]
  BY <1>1 DEF GroupSwitches
<1>5. tfDl' = [q EXCEPT !.switches = e]
  BY <1>3, <1>4
<1> HIDE DEF e
<1>6. tfDl' = [now |-> m, history |-> tfDl.history, pc |-> tfDl.pc, of |-> tfDl.of, through |-> tfDl.through,
               same |-> s, answer |-> tfDl.answer, jobs |-> tfDl.jobs, result |-> tfDl.result, tests |-> tfDl.tests,
               switches |-> e]
  BY <1>3, <1>5
<1> QED BY <1>2, <1>6, DelayNext

-----------------------------------------------------------------------------
(* The connections. *)

\* No connection at the start.
LEMMA ConnStart == ASSUME NEW scn \in TfScenarios, TfStart(scn) PROVE ConnInv
<1>1. tf = [conn |-> [c \in TfConns |-> "none"], active |-> {}, closed |-> <<>>, dropped |-> {},
            up |-> [c \in TfConns |-> 0], push |-> [c \in TfConns |-> "idle"], over |-> [c \in TfConns |-> FALSE],
            temp |-> 0, total |-> 0, held |-> -1, blip |-> 0, shown |-> 0, done |-> FALSE,
            leave |-> [c \in TfConns |-> [w \in Leavers |-> "no"]],
            api |-> [pc |-> "idle", left |-> {}, had |-> {}]]
  BY DEF TfStart
<1>2. /\ tf.conn = [c \in TfConns |-> "none"] /\ tf.active = {} /\ tf.closed = <<>> /\ tf.dropped = {}
      /\ tf.leave = [c \in TfConns |-> [w \in Leavers |-> "no"]] /\ tf.api.pc = "idle" /\ tf.api.left = {}
  BY <1>1
<1>3. TfTypes
  <2> DEFINE k == [c \in TfConns |-> "none"]
             u == [c \in TfConns |-> 0]
             p == [c \in TfConns |-> "idle"]
             o == [c \in TfConns |-> FALSE]
             l == [c \in TfConns |-> [w \in Leavers |-> "no"]]
             a == [pc |-> "idle", left |-> {}, had |-> {}]
             t == [conn |-> k, active |-> {}, closed |-> <<>>, dropped |-> {}, up |-> u, push |-> p, over |-> o,
                   temp |-> 0, total |-> 0, held |-> -1, blip |-> 0, shown |-> 0, done |-> FALSE, leave |-> l, api |-> a]
  <2>1. k \in [TfConns -> {"none", "open", "closed"}] /\ u \in [TfConns -> Nat] /\ p \in [TfConns -> {"idle", "temp", "total"}]
    OBVIOUS
  <2>2. o \in [TfConns -> BOOLEAN] /\ FALSE \in BOOLEAN
    OBVIOUS
  <2>3. l \in [TfConns -> [Leavers -> {"no", "push", "left"}]]
    OBVIOUS
  <2>4. a \in [pc : {"idle", "close", "answered"}, left : SUBSET TfConns, had : SUBSET TfConns] /\ <<>> \in Seq(TfConns)
    OBVIOUS
  <2>5. tf = t
    BY <1>1
  <2> HIDE DEF k, u, p, o, l, a
  <2> QED BY <2>1, <2>2, <2>3, <2>4, <2>5 DEF TfTypes
<1>4. \A c \in TfConns : ~Moves(c) /\ ~Listed(c)
  <2>1. Len(tf.closed) = 0 /\ 1..0 = {}
    BY <1>2
  <2> QED BY <1>2, <2>1 DEF Moves, Listed
<1>5. InOnePlace
  <2>1. 1..Len(tf.closed) = {}
    BY <1>2
  <2> QED BY <1>2, <1>4, <2>1 DEF InOnePlace, Leavers
<1>6. Through
  BY <1>2 DEF Through
<1> QED BY <1>3, <1>5, <1>6 DEF ConnInv

\* Steps that leave the lists alone.
LEMMA ListsSame ==
  ASSUME ConnInv, TfTypes', tf'.conn = tf.conn, tf'.active = tf.active, tf'.closed = tf.closed,
         tf'.dropped = tf.dropped, tf'.leave = tf.leave
  PROVE  InOnePlace' /\ (tf'.api = tf.api => Through')
<1>1. \A c \in TfConns : (Moves(c)' <=> Moves(c)) /\ (Listed(c)' <=> Listed(c))
  BY DEF Moves, Listed
<1>2. InOnePlace'
  BY <1>1 DEF ConnInv, InOnePlace
<1>3. tf'.api = tf.api => Through'
  BY DEF ConnInv, Through
<1> QED BY <1>2, <1>3

\* The manager as a record of its fields, each of its type.
LEMMA ConnNow ==
  ASSUME TfTypes
  PROVE  /\ tf = [conn |-> tf.conn, active |-> tf.active, closed |-> tf.closed, dropped |-> tf.dropped, up |-> tf.up,
                  push |-> tf.push, over |-> tf.over, temp |-> tf.temp, total |-> tf.total, held |-> tf.held,
                  blip |-> tf.blip, shown |-> tf.shown, done |-> tf.done, leave |-> tf.leave, api |-> tf.api]
         /\ tf.conn \in [TfConns -> {"none", "open", "closed"}] /\ tf.active \in SUBSET TfConns
         /\ tf.closed \in Seq(TfConns) /\ tf.dropped \in SUBSET TfConns /\ tf.up \in [TfConns -> Nat]
         /\ tf.push \in [TfConns -> {"idle", "temp", "total"}] /\ tf.over \in [TfConns -> BOOLEAN]
         /\ tf.temp \in Nat /\ tf.total \in Nat /\ tf.held \in Int /\ tf.blip \in Nat /\ tf.shown \in Nat
         /\ tf.done \in BOOLEAN /\ tf.leave \in [TfConns -> [Leavers -> {"no", "push", "left"}]]
         /\ tf.api \in [pc : {"idle", "close", "answered"}, left : SUBSET TfConns, had : SUBSET TfConns]
BY DEF TfTypes

\* The writers, the ticker and Manager.Close leave the lists alone.
LEMMA CountsKeep ==
  ASSUME ConnInv, NEW c, (c \in TfConns /\ (CountUpload(c) \/ PushUploaded(c))) \/ handle \/ ManagerClose
  PROVE  ConnInv'
<1>0. TfTypes
  BY DEF ConnInv
<1>1. /\ TfTypes' /\ tf'.conn = tf.conn /\ tf'.active = tf.active /\ tf'.closed = tf.closed
      /\ tf'.dropped = tf.dropped /\ tf'.leave = tf.leave /\ tf'.api = tf.api
  <2> DEFINE N(up, push, temp, total, held, blip, shown) ==
               [conn |-> tf.conn, active |-> tf.active, closed |-> tf.closed, dropped |-> tf.dropped, up |-> up,
                push |-> push, over |-> tf.over, temp |-> temp, total |-> total, held |-> held,
                blip |-> blip, shown |-> shown, done |-> tf.done, leave |-> tf.leave, api |-> tf.api]
  <2>0. /\ tf.conn \in [TfConns -> {"none", "open", "closed"}] /\ tf.active \in SUBSET TfConns
        /\ tf.closed \in Seq(TfConns) /\ tf.dropped \in SUBSET TfConns /\ tf.up \in [TfConns -> Nat]
        /\ tf.push \in [TfConns -> {"idle", "temp", "total"}] /\ tf.over \in [TfConns -> BOOLEAN]
        /\ tf.temp \in Nat /\ tf.total \in Nat /\ tf.held \in Int /\ tf.blip \in Nat /\ tf.shown \in Nat
        /\ tf.done \in BOOLEAN /\ tf.leave \in [TfConns -> [Leavers -> {"no", "push", "left"}]]
        /\ tf.api \in [pc : {"idle", "close", "answered"}, left : SUBSET TfConns, had : SUBSET TfConns]
    BY <1>0, ConnNow
  <2>r. tf = [conn |-> tf.conn, active |-> tf.active, closed |-> tf.closed, dropped |-> tf.dropped, up |-> tf.up,
              push |-> tf.push, over |-> tf.over, temp |-> tf.temp, total |-> tf.total, held |-> tf.held,
              blip |-> tf.blip, shown |-> tf.shown, done |-> tf.done, leave |-> tf.leave, api |-> tf.api]
    BY <1>0, ConnNow
  <2>1. CASE c \in TfConns /\ CountUpload(c)
    <3> DEFINE u == [tf.up EXCEPT ![c] = tf.up[c] + 1]
               p == [tf.push EXCEPT ![c] = "temp"]
    <3>1. u \in [TfConns -> Nat] /\ p \in [TfConns -> {"idle", "temp", "total"}]
      BY <2>0, <2>1
    <3>2. tf' = [tf EXCEPT !.up = u, !.push = p]
      BY <2>1 DEF CountUpload
    <3> HIDE DEF u, p
    <3>3. tf' = N(u, p, tf.temp, tf.total, tf.held, tf.blip, tf.shown)
      BY <2>r, <3>2
    <3> QED BY <2>0, <3>1, <3>3 DEF TfTypes
  <2>2. CASE c \in TfConns /\ PushUploaded(c)
    <3>1. CASE tf' = [tf EXCEPT !.temp = tf.temp + 1, !.push = [tf.push EXCEPT ![c] = "total"]]
      <4> DEFINE p == [tf.push EXCEPT ![c] = "total"]
                 t == tf.temp + 1
      <4>1. t \in Nat /\ p \in [TfConns -> {"idle", "temp", "total"}] /\ tf' = [tf EXCEPT !.temp = t, !.push = p]
        BY <2>0, <2>2, <3>1
      <4> HIDE DEF t, p
      <4>2. tf' = N(tf.up, p, t, tf.total, tf.held, tf.blip, tf.shown)
        BY <2>r, <4>1
      <4> QED BY <2>0, <4>1, <4>2 DEF TfTypes
    <3>2. CASE tf' = [tf EXCEPT !.total = tf.total + 1, !.push = [tf.push EXCEPT ![c] = "idle"]]
      <4> DEFINE p == [tf.push EXCEPT ![c] = "idle"]
                 t == tf.total + 1
      <4>1. t \in Nat /\ p \in [TfConns -> {"idle", "temp", "total"}] /\ tf' = [tf EXCEPT !.total = t, !.push = p]
        BY <2>0, <2>2, <3>2
      <4> HIDE DEF t, p
      <4>2. tf' = N(tf.up, p, tf.temp, t, tf.held, tf.blip, tf.shown)
        BY <2>r, <4>1
      <4> QED BY <2>0, <4>1, <4>2 DEF TfTypes
    <3> QED BY <2>2, <3>1, <3>2 DEF PushUploaded
  <2>3. CASE handle
    <3>1. CASE tf' = [tf EXCEPT !.held = tf.temp, !.temp = 0]
      <4>1. tf' = N(tf.up, tf.push, 0, tf.total, tf.temp, tf.blip, tf.shown)
        BY <2>0, <2>r, <3>1
      <4> QED BY <2>0, <4>1, 0 \in Nat, tf.temp \in Int DEF TfTypes
    <3>2. CASE tf.held >= 0 /\ tf' = [tf EXCEPT !.blip = tf.held, !.shown = tf.shown + tf.held, !.held = -1]
      <4> DEFINE t == tf.shown + tf.held
                 h == -1
      <4>1. t \in Nat /\ h \in Int /\ tf.held \in Nat /\ tf' = [tf EXCEPT !.blip = tf.held, !.shown = t, !.held = h]
        BY <2>0, <2>r, <3>2
      <4> HIDE DEF t, h
      <4>2. tf' = N(tf.up, tf.push, tf.temp, tf.total, h, tf.held, t)
        BY <2>r, <4>1
      <4> QED BY <2>0, <4>1, <4>2 DEF TfTypes
    <3> QED BY <2>3, <3>1, <3>2 DEF handle
  <2>4. CASE ManagerClose
    <3> DEFINE d == TRUE
    <3>1. d \in BOOLEAN /\ tf' = [tf EXCEPT !.done = d]
      BY <2>4 DEF ManagerClose
    <3> HIDE DEF d
    <3>2. tf' = [conn |-> tf.conn, active |-> tf.active, closed |-> tf.closed, dropped |-> tf.dropped, up |-> tf.up,
                 push |-> tf.push, over |-> tf.over, temp |-> tf.temp, total |-> tf.total, held |-> tf.held,
                 blip |-> tf.blip, shown |-> tf.shown, done |-> d, leave |-> tf.leave, api |-> tf.api]
      BY <2>r, <3>1
    <3> QED BY <2>0, <3>1, <3>2 DEF TfTypes
  <2> QED BY <2>1, <2>2, <2>3, <2>4
<1> QED BY <1>1, ListsSame DEF ConnInv

\* closeAllConnections, closeConnection and the answer.
LEMMA RequestsKeep ==
  ASSUME ConnInv, closeAllConnections \/ (\E c \in TfConns : closeConnection(c)) \/ ApiAnswers
  PROVE  ConnInv'
<1>0. TfTypes
  BY DEF ConnInv
<1>1. CASE ApiAnswers
  <2>1. /\ TfTypes' /\ tf'.conn = tf.conn /\ tf'.active = tf.active /\ tf'.closed = tf.closed
        /\ tf'.dropped = tf.dropped /\ tf'.leave = tf.leave
        /\ tf'.api.pc = "answered" /\ tf'.api.left = tf.api.left /\ tf'.api.had = tf.api.had
        /\ tf.api.pc = "close" /\ tf.api.left = {}
    BY <1>0, <1>1 DEF ApiAnswers, TfTypes
  <2>2. Through'
    BY <2>1 DEF ConnInv, Through
  <2> QED BY <2>1, <2>2, ListsSame DEF ConnInv
<1>2. ASSUME NEW S \in SUBSET tf.active, tf' = [tf EXCEPT !.api = [pc |-> "close", left |-> S, had |-> S]]
      PROVE  ConnInv'
  <2> DEFINE a == [pc |-> "close", left |-> S, had |-> S]
  <2>1. a \in [pc : {"idle", "close", "answered"}, left : SUBSET TfConns, had : SUBSET TfConns]
        /\ a.pc = "close" /\ a.left = S /\ a.had = S
    BY <1>0, <1>2 DEF TfTypes
  <2>2. tf' = [tf EXCEPT !.api = a]
    BY <1>2
  <2> HIDE DEF a
  <2>3. /\ TfTypes' /\ tf'.conn = tf.conn /\ tf'.active = tf.active /\ tf'.closed = tf.closed
        /\ tf'.dropped = tf.dropped /\ tf'.leave = tf.leave /\ tf'.api = a
    BY <1>0, <2>1, <2>2 DEF TfTypes
  <2>4. Through'
    BY <1>0, <2>1, <2>3 DEF ConnInv, Through, InOnePlace, TfTypes
  <2> QED BY <2>3, <2>4, ListsSame DEF ConnInv
<1>3. Snapshot \subseteq tf.active
  BY DEF Snapshot
<1>4. CASE closeAllConnections
  BY <1>2, <1>3, <1>4 DEF closeAllConnections
<1>5. ASSUME NEW c \in TfConns, closeConnection(c) PROVE ConnInv'
  <2>1. {c} \in SUBSET tf.active
    BY <1>3, <1>5 DEF closeConnection
  <2> QED BY <1>2, <1>5, <2>1 DEF closeConnection
<1> QED BY <1>1, <1>4, <1>5

\* A connection is joined.
LEMMA NewTrackerKeeps ==
  ASSUME ConnInv, NEW c \in TfConns, NewTCPTracker(c) \/ NewUDPTracker(c)
  PROVE  ConnInv'
<1>t. /\ tf.conn \in [TfConns -> {"none", "open", "closed"}] /\ tf.active \in SUBSET TfConns
      /\ tf.closed \in Seq(TfConns) /\ tf.dropped \in SUBSET TfConns /\ tf.up \in [TfConns -> Nat]
      /\ tf.push \in [TfConns -> {"idle", "temp", "total"}] /\ tf.over \in [TfConns -> BOOLEAN]
      /\ tf.temp \in Nat /\ tf.total \in Nat /\ tf.held \in Int /\ tf.blip \in Nat /\ tf.shown \in Nat
      /\ tf.done \in BOOLEAN /\ tf.leave \in [TfConns -> [Leavers -> {"no", "push", "left"}]]
      /\ tf.api \in [pc : {"idle", "close", "answered"}, left : SUBSET TfConns, had : SUBSET TfConns]
  BY ConnNow DEF ConnInv
<1>r. tf = [conn |-> tf.conn, active |-> tf.active, closed |-> tf.closed, dropped |-> tf.dropped, up |-> tf.up,
            push |-> tf.push, over |-> tf.over, temp |-> tf.temp, total |-> tf.total, held |-> tf.held,
            blip |-> tf.blip, shown |-> tf.shown, done |-> tf.done, leave |-> tf.leave, api |-> tf.api]
  BY ConnNow DEF ConnInv
<1> DEFINE k == [tf.conn EXCEPT ![c] = "open"]
           a == tf.active \union {c}
<1>0. tf.conn[c] = "none" /\ k \in [TfConns -> {"none", "open", "closed"}] /\ a \in SUBSET TfConns
      /\ k[c] = "open" /\ \A x \in TfConns : x # c => k[x] = tf.conn[x]
  BY <1>t DEF NewTCPTracker, NewUDPTracker
<1>1. tf' = [tf EXCEPT !.conn = k, !.active = a]
  BY DEF NewTCPTracker, NewUDPTracker
<1> HIDE DEF k, a
<1>2. tf' = [conn |-> k, active |-> a, closed |-> tf.closed, dropped |-> tf.dropped, up |-> tf.up,
             push |-> tf.push, over |-> tf.over, temp |-> tf.temp, total |-> tf.total, held |-> tf.held,
             blip |-> tf.blip, shown |-> tf.shown, done |-> tf.done, leave |-> tf.leave, api |-> tf.api]
  BY <1>r, <1>1
<1>3. /\ TfTypes' /\ tf'.conn = k /\ tf'.active = a /\ tf'.closed = tf.closed
      /\ tf'.dropped = tf.dropped /\ tf'.leave = tf.leave /\ tf'.api = tf.api
  BY <1>t, <1>0, <1>2 DEF TfTypes
<1>4. \A x \in TfConns : (Moves(x)' <=> Moves(x)) /\ (Listed(x)' <=> Listed(x))
  BY <1>3 DEF Moves, Listed
<1>5. InOnePlace'
  BY <1>0, <1>3, <1>4 DEF ConnInv, InOnePlace, a
<1>6. Through'
  BY <1>t, <1>0, <1>3 DEF ConnInv, Through, a
<1> QED BY <1>3, <1>5, <1>6 DEF ConnInv

\* The first step of Leave, by the relay or by the API.
LEMMA LeaveKeeps ==
  ASSUME ConnInv, NEW c \in TfConns, NEW who \in Leavers, NEW over \in [TfConns -> BOOLEAN],
         tf.conn[c] # "none", tf.leave[c][who] = "no"
  PROVE  tf' = [Leave(tf, c, who) EXCEPT !.over = over] => ConnInv'
<1>h. SUFFICES ASSUME tf' = [Leave(tf, c, who) EXCEPT !.over = over] PROVE ConnInv'
  OBVIOUS
<1>t. /\ tf.conn \in [TfConns -> {"none", "open", "closed"}] /\ tf.active \in SUBSET TfConns
      /\ tf.closed \in Seq(TfConns) /\ tf.dropped \in SUBSET TfConns /\ tf.up \in [TfConns -> Nat]
      /\ tf.push \in [TfConns -> {"idle", "temp", "total"}] /\ tf.over \in [TfConns -> BOOLEAN]
      /\ tf.temp \in Nat /\ tf.total \in Nat /\ tf.held \in Int /\ tf.blip \in Nat /\ tf.shown \in Nat
      /\ tf.done \in BOOLEAN /\ tf.leave \in [TfConns -> [Leavers -> {"no", "push", "left"}]]
      /\ tf.api \in [pc : {"idle", "close", "answered"}, left : SUBSET TfConns, had : SUBSET TfConns]
  BY ConnNow DEF ConnInv
<1>r. tf = [conn |-> tf.conn, active |-> tf.active, closed |-> tf.closed, dropped |-> tf.dropped, up |-> tf.up,
            push |-> tf.push, over |-> tf.over, temp |-> tf.temp, total |-> tf.total, held |-> tf.held,
            blip |-> tf.blip, shown |-> tf.shown, done |-> tf.done, leave |-> tf.leave, api |-> tf.api]
  BY ConnNow DEF ConnInv
<1> DEFINE a == tf.active \ {c}
           v == IF c \in tf.active THEN "push" ELSE "left"
           l == [tf.leave EXCEPT ![c] = [tf.leave[c] EXCEPT ![who] = v]]
<1>u. a \in SUBSET TfConns /\ l \in [TfConns -> [Leavers -> {"no", "push", "left"}]] /\ over \in [TfConns -> BOOLEAN]
  BY <1>t
<1>0. /\ l[c][who] = v
      /\ \A w \in Leavers : w # who => l[c][w] = tf.leave[c][w]
      /\ \A x \in TfConns : x # c => l[x] = tf.leave[x]
  BY <1>t
<1>1. tf' = [[tf EXCEPT !.active = a, !.leave = l] EXCEPT !.over = over]
  BY <1>h DEF Leave
<1> HIDE DEF a, v, l
<1>2. tf' = [conn |-> tf.conn, active |-> a, closed |-> tf.closed, dropped |-> tf.dropped, up |-> tf.up,
             push |-> tf.push, over |-> over, temp |-> tf.temp, total |-> tf.total, held |-> tf.held,
             blip |-> tf.blip, shown |-> tf.shown, done |-> tf.done, leave |-> l, api |-> tf.api]
  BY <1>r, <1>1
<1>3. /\ TfTypes' /\ tf'.conn = tf.conn /\ tf'.active = a /\ tf'.closed = tf.closed
      /\ tf'.dropped = tf.dropped /\ tf'.leave = l /\ tf'.api = tf.api
  <2>1. /\ tf'.conn = tf.conn /\ tf'.active = a /\ tf'.closed = tf.closed
        /\ tf'.dropped = tf.dropped /\ tf'.leave = l /\ tf'.api = tf.api
    BY <1>2
  <2>2. TfTypes'
    BY <1>t, <1>u, <1>2 DEF TfTypes
  <2> QED BY <2>1, <2>2
<1>4. \A x \in TfConns : /\ (Moves(x)' <=> Moves(x) \/ (x = c /\ c \in tf.active))
                         /\ (Listed(x)' <=> Listed(x))
  <2> SUFFICES ASSUME NEW x \in TfConns PROVE Moves(x)' <=> Moves(x) \/ (x = c /\ c \in tf.active)
    BY <1>3 DEF Listed
  <2>1. CASE x # c
    BY <1>0, <1>3, <2>1 DEF Moves
  <2>2. CASE x = c /\ c \in tf.active
    BY <1>0, <1>3, <2>2 DEF Moves, v
  <2>3. CASE x = c /\ c \notin tf.active
    <3>1. l[c][who] # "push" /\ tf.leave[c][who] # "push"
      BY <1>0, <2>3 DEF v
    <3>2. \A w \in Leavers : l[c][w] = "push" <=> tf.leave[c][w] = "push"
      BY <1>0, <3>1
    <3> QED BY <1>3, <2>3, <3>2 DEF Moves
  <2> QED BY <2>1, <2>2, <2>3
<1>5. InOnePlace'
  <2>1. \A x \in TfConns : l[x]["relay"] = "push" => l[x]["api"] # "push"
    <3> SUFFICES ASSUME NEW x \in TfConns PROVE l[x]["relay"] = "push" => l[x]["api"] # "push"
      OBVIOUS
    <3>1. tf.leave[x]["relay"] = "push" => tf.leave[x]["api"] # "push"
      BY DEF ConnInv, InOnePlace
    <3>2. CASE x # c
      BY <1>0, <3>1, <3>2
    <3>3. CASE x = c /\ c \in tf.active
      <4>1. \A w \in Leavers : tf.leave[c][w] # "push"
        BY <3>3 DEF ConnInv, InOnePlace, Moves
      <4> QED BY <1>0, <3>3, <4>1 DEF Leavers
    <3>4. CASE x = c /\ c \notin tf.active
      <4>1. l[c][who] # "push"
        BY <1>0, <3>4 DEF v
      <4> QED BY <1>0, <3>1, <3>4, <4>1 DEF Leavers
    <3> QED BY <3>2, <3>3, <3>4
  <2>2. \A x \in TfConns : \A w \in Leavers : l[x][w] # "no" => tf.conn[x] # "none" /\ x \notin a
    BY <1>0 DEF ConnInv, InOnePlace, a
  <2>3. \A x \in TfConns :
       /\ tf.conn[x] = "none" <=> ~(x \in a \/ Moves(x)' \/ Listed(x)' \/ x \in tf.dropped)
       /\ x \in a => ~Moves(x)' /\ ~Listed(x)' /\ x \notin tf.dropped
       /\ Moves(x)' => ~Listed(x)' /\ x \notin tf.dropped
       /\ Listed(x)' => x \notin tf.dropped
    BY <1>4 DEF ConnInv, InOnePlace, a
  <2>4. \A i, j \in 1..Len(tf.closed) : tf.closed[i] = tf.closed[j] => i = j
    BY DEF ConnInv, InOnePlace
  <2> QED BY <1>3, <2>1, <2>2, <2>3, <2>4 DEF InOnePlace
<1>6. Through'
  BY <1>3 DEF ConnInv, Through, a
<1> QED BY <1>3, <1>5, <1>6 DEF ConnInv

\* The first step of Leave, as the relay and as the request take it.
LEMMA LeavesKeep ==
  ASSUME ConnInv, NEW c \in TfConns, RelayEnds(c) \/ ApiCloses(c)
  PROVE  ConnInv'
<1> USE ConnNow DEF ConnInv
<1>1. CASE RelayEnds(c)
  <2> DEFINE o == [tf.over EXCEPT ![c] = TRUE]
  <2>1. o \in [TfConns -> BOOLEAN] /\ "relay" \in Leavers
    BY DEF Leavers
  <2>2. Leave(tf, c, "relay").over = tf.over
    BY DEF Leave
  <2>3. tf.conn[c] # "none" /\ tf.leave[c]["relay"] = "no" /\ tf' = [Leave(tf, c, "relay") EXCEPT !.over = o]
    BY <1>1, <2>2 DEF RelayEnds
  <2> HIDE DEF o
  <2> QED BY <2>1, <2>3, LeaveKeeps
<1>2. CASE ApiCloses(c)
  <2>1. tf.conn[c] # "none" /\ tf.leave[c]["api"] = "no" /\ tf' = Leave(tf, c, "api") /\ "api" \in Leavers
    BY <1>2 DEF ApiCloses, Through, Leavers
  <2> DEFINE a == tf.active \ {c}
             l == [tf.leave EXCEPT ![c] = [tf.leave[c] EXCEPT !["api"] = IF c \in tf.active THEN "push" ELSE "left"]]
  <2>2. Leave(tf, c, "api") = [tf EXCEPT !.active = a, !.leave = l]
    BY DEF Leave
  <2>r. tf = [conn |-> tf.conn, active |-> tf.active, closed |-> tf.closed, dropped |-> tf.dropped, up |-> tf.up,
              push |-> tf.push, over |-> tf.over, temp |-> tf.temp, total |-> tf.total, held |-> tf.held,
              blip |-> tf.blip, shown |-> tf.shown, done |-> tf.done, leave |-> tf.leave, api |-> tf.api]
    OBVIOUS
  <2> HIDE DEF a, l
  <2> DEFINE b == [conn |-> tf.conn, active |-> a, closed |-> tf.closed, dropped |-> tf.dropped, up |-> tf.up,
                   push |-> tf.push, over |-> tf.over, temp |-> tf.temp, total |-> tf.total, held |-> tf.held,
                   blip |-> tf.blip, shown |-> tf.shown, done |-> tf.done, leave |-> l, api |-> tf.api]
  <2>3. Leave(tf, c, "api") = b
    BY <2>2, <2>r
  <2>4. b = [b EXCEPT !.over = tf.over]
    OBVIOUS
  <2>5. tf' = [Leave(tf, c, "api") EXCEPT !.over = tf.over]
    BY <2>1, <2>3, <2>4
  <2>6. tf.over \in [TfConns -> BOOLEAN]
    OBVIOUS
  <2> QED BY <2>1, <2>5, <2>6, LeaveKeeps
<1> QED BY <1>1, <1>2

\* Close ends: the connection is closed, and its request is through with it.
LEMMA TrackerCloseKeeps ==
  ASSUME ConnInv, NEW c \in TfConns, NEW who \in Leavers, TrackerClose(c, who)
  PROVE  ConnInv'
<1>t. /\ tf.conn \in [TfConns -> {"none", "open", "closed"}] /\ tf.active \in SUBSET TfConns
      /\ tf.closed \in Seq(TfConns) /\ tf.dropped \in SUBSET TfConns /\ tf.up \in [TfConns -> Nat]
      /\ tf.push \in [TfConns -> {"idle", "temp", "total"}] /\ tf.over \in [TfConns -> BOOLEAN]
      /\ tf.temp \in Nat /\ tf.total \in Nat /\ tf.held \in Int /\ tf.blip \in Nat /\ tf.shown \in Nat
      /\ tf.done \in BOOLEAN /\ tf.leave \in [TfConns -> [Leavers -> {"no", "push", "left"}]]
      /\ tf.api \in [pc : {"idle", "close", "answered"}, left : SUBSET TfConns, had : SUBSET TfConns]
  BY ConnNow DEF ConnInv
<1>r. tf = [conn |-> tf.conn, active |-> tf.active, closed |-> tf.closed, dropped |-> tf.dropped, up |-> tf.up,
            push |-> tf.push, over |-> tf.over, temp |-> tf.temp, total |-> tf.total, held |-> tf.held,
            blip |-> tf.blip, shown |-> tf.shown, done |-> tf.done, leave |-> tf.leave, api |-> tf.api]
  BY ConnNow DEF ConnInv
<1> DEFINE k == [tf.conn EXCEPT ![c] = "closed"]
           l == [tf.leave EXCEPT ![c] = [tf.leave[c] EXCEPT ![who] = "no"]]
           p == [tf.api EXCEPT !.left = IF who = "api" THEN tf.api.left \ {c} ELSE tf.api.left]
<1>0. /\ k \in [TfConns -> {"none", "open", "closed"}] /\ k[c] = "closed" /\ \A x \in TfConns : x # c => k[x] = tf.conn[x]
  BY <1>t
<1>1. /\ l \in [TfConns -> [Leavers -> {"no", "push", "left"}]] /\ l[c][who] = "no"
      /\ \A w \in Leavers : w # who => l[c][w] = tf.leave[c][w]
      /\ \A x \in TfConns : x # c => l[x] = tf.leave[x]
  BY <1>t
<1>2. /\ p \in [pc : {"idle", "close", "answered"}, left : SUBSET TfConns, had : SUBSET TfConns]
      /\ p.pc = tf.api.pc /\ p.had = tf.api.had /\ p.left \subseteq tf.api.left /\ \A x \in tf.api.left : x # c => x \in p.left
  BY <1>t
<1>3. tf.leave[c][who] = "left" /\ tf' = [tf EXCEPT !.conn = k, !.leave = l, !.api = p]
  BY DEF TrackerClose
<1> HIDE DEF k, l, p
<1>4. tf' = [conn |-> k, active |-> tf.active, closed |-> tf.closed, dropped |-> tf.dropped, up |-> tf.up,
             push |-> tf.push, over |-> tf.over, temp |-> tf.temp, total |-> tf.total, held |-> tf.held,
             blip |-> tf.blip, shown |-> tf.shown, done |-> tf.done, leave |-> l, api |-> p]
  BY <1>r, <1>3
<1>5. /\ TfTypes' /\ tf'.conn = k /\ tf'.active = tf.active /\ tf'.closed = tf.closed
      /\ tf'.dropped = tf.dropped /\ tf'.leave = l /\ tf'.api = p
  BY <1>t, <1>0, <1>1, <1>2, <1>4 DEF TfTypes
<1>6. tf.conn[c] # "none" /\ c \notin tf.active
  BY <1>3 DEF ConnInv, InOnePlace
<1>7. \A x \in TfConns : \A w \in Leavers : (l[x][w] = "push" <=> tf.leave[x][w] = "push") /\ (l[x][w] # "no" => tf.leave[x][w] # "no")
  <2> SUFFICES ASSUME NEW x \in TfConns, NEW w \in Leavers
               PROVE  (l[x][w] = "push" <=> tf.leave[x][w] = "push") /\ (l[x][w] # "no" => tf.leave[x][w] # "no")
    OBVIOUS
  <2>1. CASE x = c /\ w = who
    BY <1>1, <1>3, <2>1
  <2>2. CASE x = c /\ w # who
    BY <1>1, <2>2
  <2>3. CASE x # c
    BY <1>1, <2>3
  <2> QED BY <2>1, <2>2, <2>3
<1>8. \A x \in TfConns : (Moves(x)' <=> Moves(x)) /\ (Listed(x)' <=> Listed(x)) /\ (k[x] = "none" <=> tf.conn[x] = "none")
  BY <1>0, <1>5, <1>6, <1>7 DEF Moves, Listed
<1>9. InOnePlace'
  <2>1. "relay" \in Leavers /\ "api" \in Leavers
    BY DEF Leavers
  <2>2. \A x \in TfConns : l[x]["relay"] = "push" => l[x]["api"] # "push"
    BY <1>7, <2>1 DEF ConnInv, InOnePlace
  <2>3. \A x \in TfConns : \A w \in Leavers : l[x][w] # "no" => k[x] # "none" /\ x \notin tf.active
    BY <1>7, <1>8 DEF ConnInv, InOnePlace
  <2>4. \A x \in TfConns :
          /\ k[x] = "none" <=> ~(x \in tf.active \/ Moves(x)' \/ Listed(x)' \/ x \in tf.dropped)
          /\ x \in tf.active => ~Moves(x)' /\ ~Listed(x)' /\ x \notin tf.dropped
          /\ Moves(x)' => ~Listed(x)' /\ x \notin tf.dropped
          /\ Listed(x)' => x \notin tf.dropped
    BY <1>8 DEF ConnInv, InOnePlace
  <2>5. \A i, j \in 1..Len(tf.closed) : tf.closed[i] = tf.closed[j] => i = j
    BY DEF ConnInv, InOnePlace
  <2> QED BY <1>5, <2>2, <2>3, <2>4, <2>5 DEF InOnePlace
<1>10. Through'
  BY <1>t, <1>0, <1>2, <1>5, <1>6, <1>8 DEF ConnInv, Through
<1> QED BY <1>5, <1>9, <1>10 DEF ConnInv

\* The list of closed connections with one more, and what falls out of it.
LEMMA ClosedNext ==
  ASSUME TfTypes, NEW c \in TfConns,
         \A i, j \in 1..Len(tf.closed) : tf.closed[i] = tf.closed[j] => i = j, ~Listed(c)
  PROVE  LET full == Len(tf.closed) >= TfClosed
             s == Append(IF full THEN Tail(tf.closed) ELSE tf.closed, c)
             d == IF full THEN tf.dropped \union {Head(tf.closed)} ELSE tf.dropped
             In(x) == \E i \in 1..Len(s) : s[i] = x
         IN  /\ s \in Seq(TfConns) /\ d \in SUBSET TfConns /\ tf.dropped \subseteq d
             /\ \A i, j \in 1..Len(s) : s[i] = s[j] => i = j
             /\ In(c)
             /\ \A x \in TfConns : In(x) => x = c \/ Listed(x)
             /\ \A x \in TfConns : Listed(x) => In(x) \/ x \in d
             /\ \A x \in d : x \in tf.dropped \/ (Listed(x) /\ ~In(x))
<1> DEFINE q == tf.closed
           full == Len(q) >= TfClosed
           b == IF full THEN Tail(q) ELSE q
           s == Append(b, c)
           d == IF full THEN tf.dropped \union {Head(q)} ELSE tf.dropped
           In(x) == \E i \in 1..Len(s) : s[i] = x
<1>1. q \in Seq(TfConns) /\ Len(q) \in Nat /\ TfClosed \in Nat \ {0} /\ tf.dropped \in SUBSET TfConns
  <2>1. tf.closed \in Seq(TfConns) /\ tf.dropped \in SUBSET TfConns
    BY ConnNow
  <2>2. TfClosed \in Nat \ {0}
    BY TfAssumption, ZenonT(30)
  <2>3. Len(tf.closed) \in Nat
    BY <2>1
  <2> QED BY <2>1, <2>2, <2>3
<1>2. full => q # <<>> /\ Len(q) >= 1 /\ 1 \in 1..Len(q) /\ Head(q) = q[1]
  BY <1>1
<1>3. full => Tail(q) \in Seq(TfConns) /\ Len(Tail(q)) = Len(q) - 1 /\ \A i \in 1..Len(Tail(q)) : Tail(q)[i] = q[i + 1]
  BY <1>1, <1>2, TailIs
<1>4. b \in Seq(TfConns) /\ Len(b) \in Nat
  BY <1>1, <1>3
<1>5. \A i \in 1..Len(b) : b[i] = IF full THEN q[i + 1] ELSE q[i]
  BY <1>3
<1>6. \A i \in 1..Len(b) : (full => i + 1 \in 1..Len(q)) /\ (~full => i \in 1..Len(q))
  BY <1>1, <1>3
<1> HIDE DEF b
<1>7. s \in Seq(TfConns) /\ Len(s) = Len(b) + 1 /\ (\A i \in 1..Len(b) : s[i] = b[i]) /\ s[Len(b) + 1] = c
  BY <1>4, AppendIs
<1> HIDE DEF s
<1>8. \A i \in 1..Len(s) : i \in 1..Len(b) \/ i = Len(b) + 1
  BY <1>4, <1>7
<1>9. \A i \in 1..Len(b) : s[i] # c /\ Listed(s[i])
  <2> SUFFICES ASSUME NEW i \in 1..Len(b) PROVE s[i] # c /\ Listed(s[i])
    OBVIOUS
  <2>1. \E j \in 1..Len(q) : q[j] = s[i]
    BY <1>5, <1>6, <1>7
  <2> QED BY <2>1 DEF Listed
<1>10. \A i, j \in 1..Len(b) : s[i] = s[j] => i = j
  <2> SUFFICES ASSUME NEW i \in 1..Len(b), NEW j \in 1..Len(b), s[i] = s[j] PROVE i = j
    OBVIOUS
  <2>1. CASE full
    <3>1. i + 1 \in 1..Len(q) /\ j + 1 \in 1..Len(q) /\ q[i + 1] = q[j + 1]
      BY <1>5, <1>6, <1>7, <2>1
    <3>2. i + 1 = j + 1
      BY <3>1
    <3> QED BY <3>2
  <2>2. CASE ~full
    BY <1>5, <1>6, <1>7, <2>2
  <2> QED BY <2>1, <2>2
<1>11. \A i, j \in 1..Len(s) : s[i] = s[j] => i = j
  BY <1>7, <1>8, <1>9, <1>10
<1>12. In(c)
  <2>1. Len(b) + 1 \in 1..Len(s)
    BY <1>4, <1>7
  <2> QED BY <1>7, <2>1
<1>13. \A x \in TfConns : In(x) => x = c \/ Listed(x)
  BY <1>7, <1>8, <1>9
<1>14. ASSUME NEW x \in TfConns, Listed(x) PROVE In(x) \/ x \in d
  <2>1. PICK j \in 1..Len(q) : q[j] = x
    BY <1>14 DEF Listed
  <2>2. CASE ~full
    <3>1. j \in 1..Len(b) /\ b[j] = x
      BY <2>1, <2>2 DEF b
    <3>2. j \in 1..Len(s)
      BY <1>4, <1>7, <3>1
    <3> QED BY <1>7, <3>1, <3>2
  <2>3. CASE full /\ j = 1
    BY <1>2, <2>1, <2>3
  <2>4. CASE full /\ j # 1
    <3>1. Len(b) = Len(q) - 1
      BY <1>3, <2>4 DEF b
    <3>2. j - 1 \in 1..Len(b) /\ j - 1 + 1 = j /\ j - 1 \in 1..Len(s)
      BY <1>1, <1>4, <1>7, <2>4, <3>1
    <3>3. s[j - 1] = x
      BY <1>5, <1>7, <2>1, <2>4, <3>2
    <3> QED BY <3>2, <3>3
  <2> QED BY <2>2, <2>3, <2>4
<1>15. ASSUME NEW x \in d, x \notin tf.dropped PROVE Listed(x) /\ ~In(x)
  <2>1. full /\ x = q[1]
    BY <1>2, <1>15
  <2>2. Listed(x)
    BY <1>2, <2>1 DEF Listed
  <2>3. ASSUME NEW i \in 1..Len(s), s[i] = x PROVE FALSE
    <3>1. x # c
      BY <2>2
    <3>2. i \in 1..Len(b)
      BY <1>7, <1>8, <2>3, <3>1
    <3>3. q[i + 1] = q[1] /\ i + 1 \in 1..Len(q)
      BY <1>5, <1>6, <1>7, <2>1, <2>3, <3>2
    <3>4. i + 1 = 1
      BY <1>2, <2>1, <3>3
    <3> QED BY <3>2, <3>4
  <2> QED BY <2>2, <2>3
<1>16. d \in SUBSET TfConns /\ tf.dropped \subseteq d
  BY <1>1, <1>2
<1> QED BY <1>7, <1>11, <1>12, <1>13, <1>14, <1>15, <1>16 DEF s, b

\* The second step of Leave: the connection goes to the list of the closed, and one may fall out of it.
LEMMA LeaveListedKeeps ==
  ASSUME ConnInv, NEW c \in TfConns, NEW who \in Leavers
  PROVE  LeaveListed(c, who) => ConnInv'
<1>h. SUFFICES ASSUME LeaveListed(c, who) PROVE ConnInv'
  OBVIOUS
<1>t. /\ tf.conn \in [TfConns -> {"none", "open", "closed"}] /\ tf.active \in SUBSET TfConns
      /\ tf.closed \in Seq(TfConns) /\ tf.dropped \in SUBSET TfConns /\ tf.up \in [TfConns -> Nat]
      /\ tf.push \in [TfConns -> {"idle", "temp", "total"}] /\ tf.over \in [TfConns -> BOOLEAN]
      /\ tf.temp \in Nat /\ tf.total \in Nat /\ tf.held \in Int /\ tf.blip \in Nat /\ tf.shown \in Nat
      /\ tf.done \in BOOLEAN /\ tf.leave \in [TfConns -> [Leavers -> {"no", "push", "left"}]]
      /\ tf.api \in [pc : {"idle", "close", "answered"}, left : SUBSET TfConns, had : SUBSET TfConns]
  BY ConnNow DEF ConnInv
<1>r. tf = [conn |-> tf.conn, active |-> tf.active, closed |-> tf.closed, dropped |-> tf.dropped, up |-> tf.up,
            push |-> tf.push, over |-> tf.over, temp |-> tf.temp, total |-> tf.total, held |-> tf.held,
            blip |-> tf.blip, shown |-> tf.shown, done |-> tf.done, leave |-> tf.leave, api |-> tf.api]
  BY ConnNow DEF ConnInv
<1> DEFINE full == Len(tf.closed) >= TfClosed
           s == Append(IF full THEN Tail(tf.closed) ELSE tf.closed, c)
           d == IF full THEN tf.dropped \union {Head(tf.closed)} ELSE tf.dropped
           l == [tf.leave EXCEPT ![c] = [tf.leave[c] EXCEPT ![who] = "left"]]
           In(x) == \E i \in 1..Len(s) : s[i] = x
<1>0. tf.leave[c][who] = "push"
  BY <1>h DEF LeaveListed
<1>1. /\ l \in [TfConns -> [Leavers -> {"no", "push", "left"}]] /\ l[c][who] = "left"
      /\ \A w \in Leavers : w # who => l[c][w] = tf.leave[c][w]
      /\ \A x \in TfConns : x # c => l[x] = tf.leave[x]
  BY <1>t
<1>2. TfTypes /\ Moves(c) /\ ~Listed(c) /\ c \notin tf.dropped /\ c \notin tf.active /\ tf.conn[c] # "none"
  BY <1>0 DEF ConnInv, InOnePlace, Moves
<1>3. \A i, j \in 1..Len(tf.closed) : tf.closed[i] = tf.closed[j] => i = j
  BY DEF ConnInv, InOnePlace
<1>4. /\ s \in Seq(TfConns) /\ d \in SUBSET TfConns /\ tf.dropped \subseteq d
      /\ \A i, j \in 1..Len(s) : s[i] = s[j] => i = j
      /\ In(c)
      /\ \A x \in TfConns : In(x) => x = c \/ Listed(x)
      /\ \A x \in TfConns : Listed(x) => In(x) \/ x \in d
      /\ \A x \in d : x \in tf.dropped \/ (Listed(x) /\ ~In(x))
  BY <1>2, <1>3, ClosedNext
<1>5. tf' = [tf EXCEPT !.leave = l, !.closed = s, !.dropped = d]
  BY <1>h DEF LeaveListed
<1> HIDE DEF full, s, d, l
<1>6. tf' = [conn |-> tf.conn, active |-> tf.active, closed |-> s, dropped |-> d, up |-> tf.up,
             push |-> tf.push, over |-> tf.over, temp |-> tf.temp, total |-> tf.total, held |-> tf.held,
             blip |-> tf.blip, shown |-> tf.shown, done |-> tf.done, leave |-> l, api |-> tf.api]
  BY <1>r, <1>5
<1>u. s \in Seq(TfConns) /\ d \in SUBSET TfConns /\ l \in [TfConns -> [Leavers -> {"no", "push", "left"}]]
  BY <1>1, <1>4
<1>7. TfTypes'
  BY <1>t, <1>u, <1>6 DEF TfTypes
<1>8. /\ tf'.conn = tf.conn /\ tf'.active = tf.active /\ tf'.closed = s
      /\ tf'.dropped = d /\ tf'.leave = l /\ tf'.api = tf.api
  BY <1>6
<1>9. \A w \in Leavers : l[c][w] # "push"
  <2>1. tf.leave[c]["relay"] = "push" => tf.leave[c]["api"] # "push"
    BY DEF ConnInv, InOnePlace
  <2> QED BY <1>0, <1>1, <2>1 DEF Leavers
<1>10. ASSUME NEW x \in TfConns
       PROVE  (Moves(x)' <=> Moves(x) /\ x # c) /\ (Listed(x)' <=> In(x))
  <2>1. Listed(x)' <=> In(x)
    BY <1>8 DEF Listed
  <2>2. CASE x = c
    BY <1>8, <1>9, <2>1, <2>2 DEF Moves
  <2>3. CASE x # c
    BY <1>1, <1>8, <2>1, <2>3 DEF Moves
  <2> QED BY <2>2, <2>3
<1> HIDE DEF In
<1>11. InOnePlace'
  <2>1. \A x \in TfConns : l[x]["relay"] = "push" => l[x]["api"] # "push"
    <3>1. \A x \in TfConns : tf.leave[x]["relay"] = "push" => tf.leave[x]["api"] # "push"
      BY DEF ConnInv, InOnePlace
    <3> QED BY <1>1, <1>9, <3>1 DEF Leavers
  <2>2. \A x \in TfConns : \A w \in Leavers : l[x][w] # "no" => tf.conn[x] # "none" /\ x \notin tf.active
    <3>1. \A x \in TfConns : \A w \in Leavers : tf.leave[x][w] # "no" => tf.conn[x] # "none" /\ x \notin tf.active
      BY DEF ConnInv, InOnePlace
    <3> QED BY <1>1, <1>2, <3>1
  <2>3. ASSUME NEW x \in TfConns
        PROVE  /\ tf.conn[x] = "none" <=> ~(x \in tf.active \/ Moves(x)' \/ Listed(x)' \/ x \in d)
               /\ x \in tf.active => ~Moves(x)' /\ ~Listed(x)' /\ x \notin d
               /\ Moves(x)' => ~Listed(x)' /\ x \notin d
               /\ Listed(x)' => x \notin d
    <3>1. /\ tf.conn[x] = "none" <=> ~(x \in tf.active \/ Moves(x) \/ Listed(x) \/ x \in tf.dropped)
          /\ x \in tf.active => ~Moves(x) /\ ~Listed(x) /\ x \notin tf.dropped
          /\ Moves(x) => ~Listed(x) /\ x \notin tf.dropped
          /\ Listed(x) => x \notin tf.dropped
      BY DEF ConnInv, InOnePlace
    <3>2. CASE x = c
      <4>1. In(x) /\ x \notin d
        BY <1>2, <1>4, <3>2
      <4> QED BY <1>2, <1>10, <3>2, <4>1
    <3>3. CASE x # c
      <4>1. (In(x) => Listed(x)) /\ (Listed(x) => In(x) \/ x \in d) /\ (x \in tf.dropped => x \in d)
            /\ (x \in d => x \in tf.dropped \/ (Listed(x) /\ ~In(x)))
        BY <1>4, <3>3
      <4>2. (Moves(x)' <=> Moves(x)) /\ (Listed(x)' <=> In(x))
        BY <1>10, <3>3
      <4> QED BY <3>1, <4>1, <4>2
    <3> QED BY <3>2, <3>3
  <2>4. \A i, j \in 1..Len(s) : s[i] = s[j] => i = j
    BY <1>4
  <2> QED BY <1>8, <2>1, <2>2, <2>3, <2>4 DEF InOnePlace
<1>12. Through'
  BY <1>8 DEF ConnInv, Through
<1> QED BY <1>7, <1>11, <1>12 DEF ConnInv

-----------------------------------------------------------------------------
(* The whole. *)

\* Each part reads its own variable, and the configuration: the connections.
LEMMA ConnKept == ASSUME ConnInv, UNCHANGED tf PROVE ConnInv'
BY DEF ConnInv, TfTypes, InOnePlace, Through, Moves, Listed

\* The mode and its list.
LEMMA ModeKept == ASSUME ModeInv, UNCHANGED <<tfScn, tfMd>> PROVE ModeInv'
BY DEF ModeInv, MdShape, IsList, ModeKnown, ModeStored, StoresMode, Fold, Folded

\* The directory of the user interface.
LEMMA UiKept == ASSUME FilesInv, UNCHANGED <<tfScn, tfUi>> PROVE FilesInv'
BY DEF FilesInv, UiShape, Unpacked, Whole, Files

\* The delays.
LEMMA DelaysKept == ASSUME DelayInv, UNCHANGED tfDl PROVE DelayInv'
<1>1. tfDl' = tfDl
  OBVIOUS
<1>2. DlShape'
  BY <1>1 DEF DelayInv, DlShape
<1> QED BY <1>1, <1>2, DelayFields

\* What connections do.
LEMMA CountingKeeps ==
  ASSUME ConnInv,
         \/ \E c \in TfConns : NewTCPTracker(c) \/ NewUDPTracker(c) \/ CountUpload(c) \/ PushUploaded(c)
         \/ handle \/ ManagerClose
         \/ \E c \in TfConns : RelayEnds(c)
         \/ \E c \in TfConns, who \in Leavers : LeaveListed(c, who) \/ TrackerClose(c, who)
         \/ closeAllConnections \/ (\E c \in TfConns : closeConnection(c)) \/ (\E c \in TfConns : ApiCloses(c)) \/ ApiAnswers
  PROVE  ConnInv'
<1>1. CASE \E c \in TfConns : NewTCPTracker(c) \/ NewUDPTracker(c)
  BY <1>1, NewTrackerKeeps
<1>2. CASE (\E c \in TfConns : CountUpload(c) \/ PushUploaded(c)) \/ handle \/ ManagerClose
  BY <1>2, CountsKeep
<1>3. CASE \E c \in TfConns : RelayEnds(c) \/ ApiCloses(c)
  BY <1>3, LeavesKeep
<1>4. CASE \E c \in TfConns, who \in Leavers : LeaveListed(c, who)
  BY <1>4, LeaveListedKeeps
<1>5. CASE \E c \in TfConns, who \in Leavers : TrackerClose(c, who)
  BY <1>5, TrackerCloseKeeps
<1>6. CASE closeAllConnections \/ (\E c \in TfConns : closeConnection(c)) \/ ApiAnswers
  BY <1>6, RequestsKeep
<1> QED BY <1>1, <1>2, <1>3, <1>4, <1>5, <1>6

\* Every step keeps the invariant of its part and leaves the others alone.
LEMMA ApiStep == ASSUME ApiInv, [TfNext]_tfVars PROVE ApiInv'
<1>0. tfScn \in TfScenarios /\ ConnInv /\ ModeInv /\ FilesInv /\ DelayInv
  BY DEF ApiInv
<1>1. CASE UNCHANGED tfVars
  <2>1. UNCHANGED <<tfScn, tf, tfMd, tfUi, tfDl>>
    BY <1>1 DEF tfVars
  <2> QED BY <1>0, <2>1, ConnKept, ModeKept, UiKept, DelaysKept DEF ApiInv
<1>2. CASE /\ Counting
           /\ \/ \E c \in TfConns : NewTCPTracker(c) \/ NewUDPTracker(c) \/ CountUpload(c) \/ PushUploaded(c)
              \/ handle \/ ManagerClose
              \/ \E c \in TfConns : RelayEnds(c)
              \/ \E c \in TfConns, who \in Leavers : LeaveListed(c, who) \/ TrackerClose(c, who)
              \/ closeAllConnections \/ (\E c \in TfConns : closeConnection(c)) \/ (\E c \in TfConns : ApiCloses(c))
              \/ ApiAnswers
  <2>1. UNCHANGED <<tfScn, tfMd, tfUi, tfDl>>
    BY <1>2 DEF Counting, Part
  <2>2. ConnInv'
    BY <1>0, <1>2, CountingKeeps
  <2> QED BY <1>0, <2>1, <2>2, ModeKept, UiKept, DelaysKept DEF ApiInv
<1>3. CASE Reporting
  <2>1. UNCHANGED <<tfScn, tf, tfMd, tfUi, tfDl>>
    BY <1>3 DEF Reporting, Part
  <2> QED BY <1>0, <2>1, ConnKept, ModeKept, UiKept, DelaysKept DEF ApiInv
<1>4. CASE /\ Moding
           /\ \/ \E w \in {1, 2}, m \in DOMAIN tfScn.fold \ {""} : SetMode(w, m)
              \/ \E w \in {1, 2} : SetModeStores(w)
              \/ \E options \in tfScn.restarts : Restart(options)
  <2>1. UNCHANGED <<tfScn, tf, tfUi, tfDl>> /\ UNCHANGED tfScn
    BY <1>4 DEF Moding, Part
  <2>2. ModeInv'
    <3>1. CASE \E w \in {1, 2}, m \in DOMAIN tfScn.fold \ {""} : SetMode(w, m)
      BY <1>0, <2>1, <3>1, SetModeKeeps DEF Requests
    <3>2. CASE \E w \in {1, 2} : SetModeStores(w)
      BY <1>0, <2>1, <3>2, SetModeStoresKeeps DEF Requests
    <3>3. CASE \E options \in tfScn.restarts : Restart(options)
      BY <1>0, <2>1, <3>3, RestartKeeps
    <3> QED BY <1>4, <3>1, <3>2, <3>3
  <2> QED BY <1>0, <2>1, <2>2, ConnKept, UiKept, DelaysKept DEF ApiInv
<1>5. CASE /\ Showing
           /\ \/ checkAndDownloadExternalUI \/ downloadExternalUI \/ downloadZIP
              \/ downloadZIPEntry \/ removeAllInDirectory \/ UiCrash
  <2>1. UNCHANGED <<tfScn, tf, tfMd, tfDl>> /\ UNCHANGED tfScn
    BY <1>5 DEF Showing, Part
  <2>2. FilesInv'
    BY <1>0, <1>5, <2>1, FilesKept
  <2> QED BY <1>0, <2>1, <2>2, ConnKept, ModeKept, DelaysKept DEF ApiInv
<1>6. CASE /\ Testing
           /\ \/ \E w \in {1, 2}, o \in tfScn.outbounds, t \in tfScn.timeouts : getProxyDelay(w, o, t)
              \/ \E w \in {1, 2} : ProxyDelayDone(w)
              \/ \E w \in {1, 2}, g \in DOMAIN tfScn.members, t \in tfScn.timeouts : getGroupDelay(w, g, t)
              \/ \E w \in {1, 2} : \E tag \in DOMAIN tfDl.jobs[w] : GroupDelayOne(w, tag)
              \/ \E w \in {1, 2} : GroupDelayDone(w)
              \/ \E g \in DOMAIN tfDl.now : \E o \in Range(tfScn.members[g]) : GroupSwitches(g, o)
  <2>1. UNCHANGED <<tfScn, tf, tfMd, tfUi>>
    BY <1>6 DEF Testing, Part
  <2>2. DelayInv'
    <3>1. CASE \E w \in {1, 2}, o \in tfScn.outbounds, t \in tfScn.timeouts : getProxyDelay(w, o, t)
      BY <1>0, <3>1, ProxyDelayKeeps DEF Requests
    <3>2. CASE \E w \in {1, 2} : ProxyDelayDone(w)
      BY <1>0, <3>2, ProxyDelayDoneKeeps DEF Requests
    <3>3. CASE \E w \in {1, 2}, g \in DOMAIN tfScn.members, t \in tfScn.timeouts : getGroupDelay(w, g, t)
      BY <1>0, <3>3, GroupDelayKeeps DEF Requests
    <3>4. CASE \E w \in {1, 2} : \E tag \in DOMAIN tfDl.jobs[w] : GroupDelayOne(w, tag)
      BY <1>0, <3>4, GroupDelayOneKeeps DEF Requests
    <3>5. CASE \E w \in {1, 2} : GroupDelayDone(w)
      BY <1>0, <3>5, GroupDelayDoneKeeps DEF Requests
    <3>6. CASE \E g \in DOMAIN tfDl.now : \E o \in Range(tfScn.members[g]) : GroupSwitches(g, o)
      BY <1>0, <3>6, GroupSwitchesKeeps
    <3> QED BY <1>6, <3>1, <3>2, <3>3, <3>4, <3>5, <3>6
  <2> QED BY <1>0, <2>1, <2>2, ConnKept, ModeKept, UiKept DEF ApiInv
<1> QED BY <1>1, <1>2, <1>3, <1>4, <1>5, <1>6 DEF TfNext

\* The invariant holds from the start, for every scenario.
THEOREM ApiInvariant == TfSpec => []ApiInv
<1>1. TfInit => ApiInv
  <2> SUFFICES ASSUME NEW scn \in TfScenarios, TfStart(scn) PROVE ApiInv
    BY DEF TfInit
  <2>1. tfScn \in TfScenarios
    BY DEF TfStart
  <2> QED BY <2>1, ConnStart, ModeStart, FilesStart, DelayStart DEF ApiInv
<1>2. ApiInv /\ [TfNext]_tfVars => ApiInv'
  BY ApiStep
<1> QED BY <1>1, <1>2, PTL DEF TfSpec

\* A connection that is somewhere is in exactly one place, counted as ListedOnce counts it.
LEMMA OncePlaced == ASSUME ConnInv PROVE ListedOnce
<1> SUFFICES ASSUME NEW c \in TfConns, tf.conn[c] # "none"
             PROVE  Cardinality({w \in Leavers : tf.leave[c][w] = "push"})
                      + Cardinality({i \in DOMAIN tf.closed : tf.closed[i] = c})
                      + (IF c \in tf.active THEN 1 ELSE 0) + (IF c \in tf.dropped THEN 1 ELSE 0) = 1
  BY DEF ListedOnce
<1> DEFINE M == {w \in Leavers : tf.leave[c][w] = "push"}
           P == {i \in DOMAIN tf.closed : tf.closed[i] = c}
<1>1. DOMAIN tf.closed = 1..Len(tf.closed)
  <2>1. tf.closed \in Seq(TfConns)
    BY ConnNow DEF ConnInv
  <2> QED BY <2>1
<1>2. Cardinality(M) = IF Moves(c) THEN 1 ELSE 0
  <2>1. CASE Moves(c)
    <3>1. \E w \in Leavers : M = {w}
      BY <2>1 DEF ConnInv, InOnePlace, Moves, Leavers
    <3> QED BY <2>1, <3>1, FS_Singleton
  <2>2. CASE ~Moves(c)
    <3>1. M = {}
      BY <2>2 DEF Moves
    <3> QED BY <2>2, <3>1, FS_EmptySet
  <2> QED BY <2>1, <2>2
<1>3. Cardinality(P) = IF Listed(c) THEN 1 ELSE 0
  <2>1. CASE Listed(c)
    <3>1. PICK i \in 1..Len(tf.closed) : tf.closed[i] = c
      BY <2>1 DEF Listed
    <3>2. P = {i}
      BY <1>1, <3>1 DEF ConnInv, InOnePlace
    <3> QED BY <2>1, <3>2, FS_Singleton
  <2>2. CASE ~Listed(c)
    <3>1. P = {}
      BY <1>1, <2>2 DEF Listed
    <3> QED BY <2>2, <3>1, FS_EmptySet
  <2> QED BY <2>1, <2>2
<1> HIDE DEF M, P
<1>4. /\ c \in tf.active \/ Moves(c) \/ Listed(c) \/ c \in tf.dropped
      /\ c \in tf.active => ~Moves(c) /\ ~Listed(c) /\ c \notin tf.dropped
      /\ Moves(c) => ~Listed(c) /\ c \notin tf.dropped
      /\ Listed(c) => c \notin tf.dropped
  BY DEF ConnInv, InOnePlace
<1>5. Cardinality(M) + Cardinality(P) + (IF c \in tf.active THEN 1 ELSE 0) + (IF c \in tf.dropped THEN 1 ELSE 0) = 1
  BY <1>2, <1>3, <1>4
<1> QED BY <1>5 DEF M, P

\* The invariant says what ApiSound says.
LEMMA ApiInvSound == ASSUME ApiInv PROVE ApiSound
<1>0. tfScn \in TfScenarios /\ ConnInv /\ ModeInv /\ FilesInv /\ DelayInv
  BY DEF ApiInv
<1>1. ListedOnce
  BY <1>0, OncePlaced
<1>2. ClosedWhenAnswered
  BY <1>0 DEF ConnInv, Through, ClosedWhenAnswered
<1>3. ModeKnown /\ ModeStored
  BY <1>0 DEF ModeInv
<1>4. UIWhole
  <2>1. {<<file, TRUE>> : file \in Range(Files)} = Whole(Len(Files))
    BY <1>0, FilesList DEF Whole, Range
  <2> QED BY <1>0, <2>1 DEF FilesInv, Unpacked, UIWhole, Files
<1>5. DelayOfTested
  BY <1>0 DEF DelayInv
<1>6. TestedOnce
  <2>1. \A w \in Requests : \A x, y \in DOMAIN tfDl.result[w] : tfDl.result[w][x] = tfDl.result[w][y] => x = y
    BY <1>0 DEF DelayInv, EachOnce
  <2> QED BY <2>1 DEF TestedOnce, IsInjective, Requests
<1> QED BY <1>1, <1>2, <1>3, <1>4, <1>5, <1>6 DEF ApiSound

\* ApiSound, for every number of connections, every size of the closed list and every configuration: whatever
\* relays, requests and restarts overlap, each connection is in exactly one list, an answered close has closed all
\* of its snapshot, the mode is one of the list and the one stored, the user interface is whole or absent, and no
\* outbound is tested twice or gets another's delay (trafficontrol.Manager and the handlers of clashapi).
THEOREM ApiAlwaysSound == TfSpec => []ApiSound
<1>1. ApiInv => ApiSound
  BY ApiInvSound
<1> QED BY <1>1, ApiInvariant, PTL

-----------------------------------------------------------------------------
(* The books: what AccountsSound counts. *)

\* The bytes of the sum.
Bytes(f, S) == {b \in S \X (1..TfBytes) : b[2] <= f[b[1]]}
InStep(steps) == {c \in TfConns : tf.push[c] \in steps}

CountInv ==
  /\ \A c \in TfConns : tf.up[c] <= TfBytes
  /\ Len(tf.closed) <= TfClosed
  /\ TotalsAgree

\* The statistics: every name in use has a counter, and a connection that was not routed has moved nothing.
StShape ==
  /\ tfSt = [nil |-> tfSt.nil, counters |-> tfSt.counters, open |-> tfSt.open, bytes |-> tfSt.bytes,
             pulled |-> tfSt.pulled, panic |-> tfSt.panic, gets |-> tfSt.gets, get |-> tfSt.get,
             query |-> tfSt.query, at |-> tfSt.at]
  /\ tfSt.get = [pc |-> tfSt.get.pc, name |-> tfSt.get.name, reset |-> tfSt.get.reset]
  /\ tfSt.counters \in [DOMAIN tfSt.counters -> Nat]
  /\ tfSt.pulled \in [DOMAIN tfSt.pulled -> Nat] /\ DOMAIN tfSt.pulled \subseteq DOMAIN tfSt.counters
  /\ tfSt.bytes \in [TfConns -> 0..TfBytes]
  /\ tfSt.open \in [DOMAIN tfSt.open -> SUBSET DOMAIN tfSt.counters] /\ DOMAIN tfSt.open \subseteq TfConns
StKnown ==
  /\ tfSt.get.pc = "value" => tfSt.get.name \in DOMAIN tfSt.counters
  /\ DOMAIN tfSt.query \subseteq DOMAIN tfSt.counters
  /\ \A c \in TfConns \ DOMAIN tfSt.open : tfSt.bytes[c] = 0

StatsInv == StShape /\ StKnown /\ StatsConserved
BooksInv == ApiInv /\ CountInv /\ StatsInv

\* What the sums take from the assumption.
LEMMA BooksAssume == TfClosed \in Nat \ {0} /\ TfBytes \in Nat /\ IsFiniteSet(TfConns)
BY TfAssumption

\* The bytes of finitely many connections are finitely many.
LEMMA BytesFinite == ASSUME NEW S \in SUBSET TfConns, NEW f PROVE IsFiniteSet(Bytes(f, S))
<1>1. IsFiniteSet(S) /\ IsFiniteSet(1..TfBytes)
  BY BooksAssume, FS_Subset, FS_Interval
<1>2. IsFiniteSet(S \X (1..TfBytes))
  BY <1>1, FS_Product
<1>3. Bytes(f, S) \subseteq S \X (1..TfBytes)
  BY DEF Bytes
<1> QED BY <1>2, <1>3, FS_Subset

\* A sum is a number, and depends on the values in S alone.
LEMMA TotalNat == ASSUME NEW S \in SUBSET TfConns, NEW f PROVE Total(f, S) \in Nat
<1>1. Cardinality(Bytes(f, S)) \in Nat
  BY BytesFinite, FS_CardinalityType
<1> QED BY <1>1 DEF Total, Bytes

\* One byte more of a connection of S is one more in the sum.
LEMMA TotalOneMore ==
  ASSUME NEW S \in SUBSET TfConns, NEW f \in [TfConns -> Nat], NEW c \in S, f[c] < TfBytes
  PROVE  Total([f EXCEPT ![c] = f[c] + 1], S) = Total(f, S) + 1
<1> DEFINE g == [f EXCEPT ![c] = f[c] + 1]
           b == <<c, f[c] + 1>>
<1>1. Bytes(g, S) = Bytes(f, S) \union {b}
  <2>1. b \in S \X (1..TfBytes)
    BY BooksAssume
  <2>2. b[1] = c /\ b[2] = f[c] + 1
    OBVIOUS
  <2>3. ASSUME NEW x \in S \X (1..TfBytes) PROVE x[2] <= g[x[1]] <=> x[2] <= f[x[1]] \/ x = b
    <3>1. x = <<x[1], x[2]>> /\ x[1] \in S /\ x[2] \in 1..TfBytes /\ x[1] \in TfConns
      OBVIOUS
    <3>2. CASE x[1] = c
      <4>1. g[x[1]] = f[c] + 1 /\ f[c] \in Nat /\ x[2] \in Nat
        BY <3>1, <3>2, BooksAssume
      <4>2. x[2] = f[c] + 1 <=> x = b
        BY <2>2, <3>1, <3>2
      <4> QED BY <3>2, <4>1, <4>2
    <3>3. CASE x[1] # c
      BY <2>2, <3>1, <3>3
    <3> QED BY <3>2, <3>3
  <2> HIDE DEF g, b
  <2> QED BY <2>1, <2>3, b[2] <= g[b[1]] DEF Bytes
<1>2. b \notin Bytes(f, S)
  BY DEF Bytes
<1> HIDE DEF g, b
<1>3. Cardinality(Bytes(g, S)) = Cardinality(Bytes(f, S)) + 1
  BY <1>1, <1>2, BytesFinite, FS_AddElement
<1> QED BY <1>3 DEF Total, Bytes, g

\* A byte of another connection is none.
LEMMA TotalOther ==
  ASSUME NEW S \in SUBSET TfConns, NEW f \in [TfConns -> Nat], NEW c \in TfConns \ S
  PROVE  Total([f EXCEPT ![c] = f[c] + 1], S) = Total(f, S)
<1> DEFINE g == [f EXCEPT ![c] = f[c] + 1]
<1>1. \A x \in S \X (1..TfBytes) : g[x[1]] = f[x[1]]
  OBVIOUS
<1> HIDE DEF g
<1>2. Bytes(g, S) = Bytes(f, S)
  BY <1>1 DEF Bytes
<1> QED BY <1>2 DEF Total, Bytes, g

\* A connection that has moved nothing may be left out.
LEMMA TotalOfNone ==
  ASSUME NEW S \in SUBSET TfConns, NEW f, NEW c \in TfConns, f[c] = 0
  PROVE  Total(f, S \union {c}) = Total(f, S)
<1>1. ASSUME NEW b \in (S \union {c}) \X (1..TfBytes), b[2] <= f[b[1]] PROVE b \in S \X (1..TfBytes)
  <2>1. b = <<b[1], b[2]>> /\ b[1] \in S \union {c} /\ b[2] \in 1..TfBytes /\ b[2] >= 1
    BY BooksAssume
  <2>2. b[1] # c
    BY <1>1, <2>1, BooksAssume
  <2> QED BY <2>1, <2>2
<1>2. S \X (1..TfBytes) \subseteq (S \union {c}) \X (1..TfBytes)
  OBVIOUS
<1>3. Bytes(f, S \union {c}) = Bytes(f, S)
  BY <1>1, <1>2 DEF Bytes
<1> QED BY <1>3 DEF Total, Bytes

\* Nobody has moved anything.
LEMMA TotalZero == ASSUME NEW S, NEW f, \A c \in S : f[c] = 0 PROVE Total(f, S) = 0
<1>1. ASSUME NEW b \in S \X (1..TfBytes), b[2] <= f[b[1]] PROVE FALSE
  <2>1. b[1] \in S /\ b[2] \in 1..TfBytes /\ b[2] >= 1 /\ b[2] \in Nat
    BY BooksAssume
  <2>2. f[b[1]] = 0
    BY <2>1
  <2> QED BY <1>1, <2>1, <2>2
<1>2. Bytes(f, S) = {}
  BY <1>1 DEF Bytes
<1> QED BY <1>2, FS_EmptySet DEF Total, Bytes

\* The writers of a step: one more, and one less.
LEMMA InStepFinite == ASSUME NEW steps PROVE IsFiniteSet(InStep(steps)) /\ Pushing(steps) \in Nat
<1>1. IsFiniteSet(InStep(steps))
  BY BooksAssume, FS_Subset DEF InStep
<1> QED BY <1>1, FS_CardinalityType DEF InStep, Pushing

\* A writer that enters the steps is one more of them, ...
LEMMA OneIn ==
  ASSUME NEW steps, NEW c \in TfConns, NEW v, tf.push \in [TfConns -> {"idle", "temp", "total"}],
         tf'.push = [tf.push EXCEPT ![c] = v], tf.push[c] \notin steps, v \in steps
  PROVE  Pushing(steps)' = Pushing(steps) + 1
<1>1. InStep(steps)' = InStep(steps) \union {c} /\ c \notin InStep(steps)
  BY DEF InStep
<1>2. Cardinality(InStep(steps)') = Cardinality(InStep(steps)) + 1
  BY <1>1, InStepFinite, FS_AddElement
<1> QED BY <1>2 DEF InStep, Pushing

\* ... one that leaves them one less, ...
LEMMA OneOut ==
  ASSUME NEW steps, NEW c \in TfConns, NEW v, tf.push \in [TfConns -> {"idle", "temp", "total"}],
         tf'.push = [tf.push EXCEPT ![c] = v], tf.push[c] \in steps, v \notin steps
  PROVE  Pushing(steps)' = Pushing(steps) - 1
<1>1. InStep(steps)' = InStep(steps) \ {c} /\ c \in InStep(steps)
  BY DEF InStep
<1>2. Cardinality(InStep(steps)') = Cardinality(InStep(steps)) - 1
  BY <1>1, InStepFinite, FS_RemoveElement
<1> QED BY <1>2 DEF InStep, Pushing

\* ... and one that stays in or out of them changes nothing.
LEMMA OneStays ==
  ASSUME NEW steps, NEW c \in TfConns, NEW v, tf.push \in [TfConns -> {"idle", "temp", "total"}],
         tf'.push = [tf.push EXCEPT ![c] = v], tf.push[c] \in steps <=> v \in steps
  PROVE  Pushing(steps)' = Pushing(steps)
<1>1. InStep(steps)' = InStep(steps)
  BY DEF InStep
<1> QED BY <1>1 DEF InStep, Pushing

\* What the ticker holds.
Holds == IF tf.held < 0 THEN 0 ELSE tf.held
\* The two equations of TotalsAgree, with it.
LEMMA AgreeIs ==
  TotalsAgree <=> /\ Total(tf.up, TfConns) = tf.total + Pushing({"temp", "total"})
                  /\ Total(tf.up, TfConns) = tf.shown + tf.temp + Pushing({"temp"}) + Holds
BY DEF TotalsAgree, Holds

\* What holds of the numbers before a step.
LEMMA NumbersNow ==
  ASSUME ConnInv
  PROVE  /\ tf.up \in [TfConns -> Nat] /\ tf.push \in [TfConns -> {"idle", "temp", "total"}]
         /\ tf.temp \in Nat /\ tf.total \in Nat /\ tf.held \in Int /\ tf.shown \in Nat /\ Holds \in Nat
         /\ Total(tf.up, TfConns) \in Nat /\ Pushing({"temp", "total"}) \in Nat /\ Pushing({"temp"}) \in Nat
<1>1. /\ tf.up \in [TfConns -> Nat] /\ tf.push \in [TfConns -> {"idle", "temp", "total"}]
      /\ tf.temp \in Nat /\ tf.total \in Nat /\ tf.held \in Int /\ tf.shown \in Nat
  BY ConnNow DEF ConnInv
<1>2. Holds \in Nat
  BY <1>1 DEF Holds
<1>3. Total(tf.up, TfConns) \in Nat /\ Pushing({"temp", "total"}) \in Nat /\ Pushing({"temp"}) \in Nat
  BY TotalNat, InStepFinite
<1> QED BY <1>1, <1>2, <1>3

\* A byte is counted: by the connection, ...
LEMMA CountUploadCounts ==
  ASSUME ConnInv, CountInv, NEW c \in TfConns, CountUpload(c)
  PROVE  CountInv'
<1>0. /\ tf.up \in [TfConns -> Nat] /\ tf.push \in [TfConns -> {"idle", "temp", "total"}]
      /\ tf.temp \in Nat /\ tf.total \in Nat /\ tf.held \in Int /\ tf.shown \in Nat /\ Holds \in Nat
      /\ Total(tf.up, TfConns) \in Nat /\ Pushing({"temp", "total"}) \in Nat /\ Pushing({"temp"}) \in Nat
  BY NumbersNow
<1>h. /\ Total(tf.up, TfConns) = tf.total + Pushing({"temp", "total"})
      /\ Total(tf.up, TfConns) = tf.shown + tf.temp + Pushing({"temp"}) + Holds
  BY AgreeIs DEF CountInv
<1>1. /\ tf'.up = [tf.up EXCEPT ![c] = tf.up[c] + 1] /\ tf'.push = [tf.push EXCEPT ![c] = "temp"]
      /\ tf'.temp = tf.temp /\ tf'.total = tf.total /\ tf'.held = tf.held /\ tf'.shown = tf.shown
      /\ tf'.closed = tf.closed /\ tf.push[c] = "idle" /\ tf.up[c] < TfBytes
  <2>1. tf' = [tf EXCEPT !.up = [tf.up EXCEPT ![c] = tf.up[c] + 1], !.push = [tf.push EXCEPT ![c] = "temp"]]
    BY DEF CountUpload
  <2> QED BY <2>1, ConnNow DEF ConnInv, CountUpload
<1>2. Total(tf'.up, TfConns) = Total(tf.up, TfConns) + 1
  BY <1>0, <1>1, TotalOneMore
<1>3. Pushing({"temp", "total"})' = Pushing({"temp", "total"}) + 1 /\ Pushing({"temp"})' = Pushing({"temp"}) + 1
  BY <1>0, <1>1, OneIn
<1>4. Holds' = Holds
  BY <1>1 DEF Holds
<1>5. /\ Total(tf'.up, TfConns) = tf'.total + Pushing({"temp", "total"})'
      /\ Total(tf'.up, TfConns) = tf'.shown + tf'.temp + Pushing({"temp"})' + Holds'
  BY <1>0, <1>h, <1>1, <1>2, <1>3, <1>4
<1>6. \A o \in TfConns : tf'.up[o] <= TfBytes
  BY <1>0, <1>1, BooksAssume DEF CountInv
<1>7. TotalsAgree'
  BY <1>5 DEF TotalsAgree, Holds
<1> QED BY <1>1, <1>6, <1>7 DEF CountInv

\* ... and by the two counters of the manager.
LEMMA PushUploadedCounts ==
  ASSUME ConnInv, CountInv, NEW c \in TfConns, PushUploaded(c)
  PROVE  CountInv'
<1>0. /\ tf.up \in [TfConns -> Nat] /\ tf.push \in [TfConns -> {"idle", "temp", "total"}]
      /\ tf.temp \in Nat /\ tf.total \in Nat /\ tf.held \in Int /\ tf.shown \in Nat /\ Holds \in Nat
      /\ Total(tf.up, TfConns) \in Nat /\ Pushing({"temp", "total"}) \in Nat /\ Pushing({"temp"}) \in Nat
  BY NumbersNow
<1>h. /\ Total(tf.up, TfConns) = tf.total + Pushing({"temp", "total"})
      /\ Total(tf.up, TfConns) = tf.shown + tf.temp + Pushing({"temp"}) + Holds
  BY AgreeIs DEF CountInv
<1>1. CASE tf.push[c] = "temp" /\ tf' = [tf EXCEPT !.temp = @ + 1, !.push[c] = "total"]
  <2>1. /\ tf'.up = tf.up /\ tf'.push = [tf.push EXCEPT ![c] = "total"] /\ tf'.temp = tf.temp + 1
        /\ tf'.total = tf.total /\ tf'.held = tf.held /\ tf'.shown = tf.shown /\ tf'.closed = tf.closed
    BY <1>1, ConnNow DEF ConnInv
  <2>2. Pushing({"temp", "total"})' = Pushing({"temp", "total"})
    BY <1>0, <1>1, <2>1, OneStays
  <2>3. Pushing({"temp"})' = Pushing({"temp"}) - 1
    BY <1>0, <1>1, <2>1, OneOut
  <2>4. Holds' = Holds
    BY <2>1 DEF Holds
  <2>5. /\ Total(tf.up, TfConns) = tf'.total + Pushing({"temp", "total"})'
        /\ Total(tf.up, TfConns) = tf'.shown + tf'.temp + Pushing({"temp"})' + Holds'
    BY <1>0, <1>h, <2>1, <2>2, <2>3, <2>4
  <2>6. TotalsAgree'
    BY <2>1, <2>5 DEF TotalsAgree, Holds
  <2> QED BY <2>1, <2>6 DEF CountInv
<1>2. CASE tf.push[c] = "total" /\ tf' = [tf EXCEPT !.total = @ + 1, !.push[c] = "idle"]
  <2>1. /\ tf'.up = tf.up /\ tf'.push = [tf.push EXCEPT ![c] = "idle"] /\ tf'.temp = tf.temp
        /\ tf'.total = tf.total + 1 /\ tf'.held = tf.held /\ tf'.shown = tf.shown /\ tf'.closed = tf.closed
    BY <1>2, ConnNow DEF ConnInv
  <2>2. Pushing({"temp", "total"})' = Pushing({"temp", "total"}) - 1
    BY <1>0, <1>2, <2>1, OneOut
  <2>3. Pushing({"temp"})' = Pushing({"temp"})
    BY <1>0, <1>2, <2>1, OneStays
  <2>4. Holds' = Holds
    BY <2>1 DEF Holds
  <2>5. /\ Total(tf.up, TfConns) = tf'.total + Pushing({"temp", "total"})'
        /\ Total(tf.up, TfConns) = tf'.shown + tf'.temp + Pushing({"temp"})' + Holds'
    BY <1>0, <1>h, <2>1, <2>2, <2>3, <2>4
  <2>6. TotalsAgree'
    BY <2>1, <2>5 DEF TotalsAgree, Holds
  <2> QED BY <2>1, <2>6 DEF CountInv
<1> QED BY <1>1, <1>2 DEF PushUploaded

\* A tick takes what the counter has and then shows it.
LEMMA HandleCounts == ASSUME ConnInv, CountInv, handle PROVE CountInv'
<1>0. /\ tf.up \in [TfConns -> Nat] /\ tf.push \in [TfConns -> {"idle", "temp", "total"}]
      /\ tf.temp \in Nat /\ tf.total \in Nat /\ tf.held \in Int /\ tf.shown \in Nat /\ Holds \in Nat
      /\ Total(tf.up, TfConns) \in Nat /\ Pushing({"temp", "total"}) \in Nat /\ Pushing({"temp"}) \in Nat
  BY NumbersNow
<1>h. /\ Total(tf.up, TfConns) = tf.total + Pushing({"temp", "total"})
      /\ Total(tf.up, TfConns) = tf.shown + tf.temp + Pushing({"temp"}) + Holds
  BY AgreeIs DEF CountInv
<1>1. /\ tf'.up = tf.up /\ tf'.push = tf.push /\ tf'.total = tf.total /\ tf'.closed = tf.closed
      /\ \/ tf.held < 0 /\ tf'.held = tf.temp /\ tf'.temp = 0 /\ tf'.shown = tf.shown
         \/ tf.held >= 0 /\ tf'.held = -1 /\ tf'.temp = tf.temp /\ tf'.shown = tf.shown + tf.held
  BY ConnNow DEF ConnInv, handle
<1>2. Pushing({"temp", "total"})' = Pushing({"temp", "total"}) /\ Pushing({"temp"})' = Pushing({"temp"})
  BY <1>1 DEF Pushing
<1>3. tf'.shown + tf'.temp + Holds' = tf.shown + tf.temp + Holds /\ Holds' \in Nat /\ tf'.shown \in Nat /\ tf'.temp \in Nat
  BY <1>0, <1>1 DEF Holds
<1>4. /\ Total(tf.up, TfConns) = tf'.total + Pushing({"temp", "total"})'
      /\ Total(tf.up, TfConns) = tf'.shown + tf'.temp + Pushing({"temp"})' + Holds'
  BY <1>0, <1>h, <1>1, <1>2, <1>3
<1>5. TotalsAgree'
  BY <1>1, <1>4 DEF TotalsAgree, Holds
<1> QED BY <1>1, <1>5 DEF CountInv

\* The rest leaves the counters alone.
LEMMA SameNumbers ==
  ASSUME CountInv, tf'.up = tf.up, tf'.push = tf.push, tf'.total = tf.total, tf'.temp = tf.temp,
         tf'.held = tf.held, tf'.shown = tf.shown, Len(tf'.closed) <= TfClosed
  PROVE  CountInv'
<1>1. TotalsAgree'
  BY DEF CountInv, TotalsAgree, Pushing, Total
<1> QED BY <1>1 DEF CountInv

\* The steps of CountingKeeps keep the totals.
LEMMA TotalsKept ==
  ASSUME ConnInv, CountInv,
         \/ \E c \in TfConns : NewTCPTracker(c) \/ NewUDPTracker(c) \/ CountUpload(c) \/ PushUploaded(c)
         \/ handle \/ ManagerClose
         \/ \E c \in TfConns : RelayEnds(c)
         \/ \E c \in TfConns, who \in Leavers : LeaveListed(c, who) \/ TrackerClose(c, who)
         \/ closeAllConnections \/ (\E c \in TfConns : closeConnection(c)) \/ (\E c \in TfConns : ApiCloses(c)) \/ ApiAnswers
  PROVE  CountInv'
<1>0. /\ tf = [conn |-> tf.conn, active |-> tf.active, closed |-> tf.closed, dropped |-> tf.dropped, up |-> tf.up,
               push |-> tf.push, over |-> tf.over, temp |-> tf.temp, total |-> tf.total, held |-> tf.held,
               blip |-> tf.blip, shown |-> tf.shown, done |-> tf.done, leave |-> tf.leave, api |-> tf.api]
      /\ tf.closed \in Seq(TfConns)
  BY ConnNow DEF ConnInv
<1>c. Len(tf.closed) <= TfClosed /\ Len(tf.closed) \in Nat
  BY <1>0 DEF CountInv
<1>1. CASE \E c \in TfConns : NewTCPTracker(c) \/ NewUDPTracker(c)
  BY <1>0, <1>c, <1>1, SameNumbers DEF NewTCPTracker, NewUDPTracker
<1>2. CASE \E c \in TfConns : CountUpload(c)
  BY <1>2, CountUploadCounts
<1>3. CASE \E c \in TfConns : PushUploaded(c)
  BY <1>3, PushUploadedCounts
<1>4. CASE handle
  BY <1>4, HandleCounts
<1>5. CASE ManagerClose \/ closeAllConnections \/ (\E c \in TfConns : closeConnection(c)) \/ ApiAnswers
  BY <1>0, <1>c, <1>5, SameNumbers DEF ManagerClose, closeAllConnections, closeConnection, ApiAnswers
<1>6. CASE \E c \in TfConns : RelayEnds(c) \/ ApiCloses(c)
  BY <1>0, <1>c, <1>6, SameNumbers DEF RelayEnds, ApiCloses, Leave
<1>7. CASE \E c \in TfConns, who \in Leavers : TrackerClose(c, who)
  <2>1. PICK c \in TfConns, who \in Leavers : TrackerClose(c, who)
    BY <1>7
  <2>2. /\ tf'.up = tf.up /\ tf'.push = tf.push /\ tf'.total = tf.total /\ tf'.temp = tf.temp
        /\ tf'.held = tf.held /\ tf'.shown = tf.shown /\ tf'.closed = tf.closed
    BY <1>0, <2>1 DEF TrackerClose
  <2> QED BY <1>c, <2>2, SameNumbers
<1>8. CASE \E c \in TfConns, who \in Leavers : LeaveListed(c, who)
  <2>1. PICK c \in TfConns, who \in Leavers : LeaveListed(c, who)
    BY <1>8
  <2> DEFINE keep == IF Len(tf.closed) >= TfClosed THEN Tail(tf.closed) ELSE tf.closed
  <2>2. keep \in Seq(TfConns) /\ Len(keep) < TfClosed /\ Len(keep) \in Nat
    <3>1. CASE Len(tf.closed) >= TfClosed
      <4>1. tf.closed # <<>> /\ Len(tf.closed) = TfClosed /\ TfClosed \in Nat \ {0}
        BY <1>0, <1>c, <3>1, BooksAssume
      <4> QED BY <1>0, <3>1, <4>1, TailIs
    <3>2. CASE ~(Len(tf.closed) >= TfClosed)
      BY <1>0, <1>c, <3>2, BooksAssume
    <3> QED BY <3>1, <3>2
  <2>3. /\ tf'.up = tf.up /\ tf'.push = tf.push /\ tf'.total = tf.total /\ tf'.temp = tf.temp
        /\ tf'.held = tf.held /\ tf'.shown = tf.shown /\ tf'.closed = Append(keep, c)
    BY <1>0, <2>1 DEF LeaveListed
  <2> HIDE DEF keep
  <2>4. Len(tf'.closed) <= TfClosed
    BY <2>2, <2>3, AppendIs, BooksAssume
  <2> QED BY <2>3, <2>4, SameNumbers
<1> QED BY <1>1, <1>2, <1>3, <1>4, <1>5, <1>6, <1>7, <1>8

\* The connections that are counted under a name, and what was given out of it.
Users(n) == {c \in DOMAIN tfSt.open : n \in tfSt.open[c]}
GivenOut(n) == IF n \in DOMAIN tfSt.pulled THEN tfSt.pulled[n] ELSE 0
\* StatsConserved, in these terms.
LEMMA ConservedIs ==
  StatsConserved <=> \A n \in DOMAIN tfSt.counters : tfSt.counters[n] + GivenOut(n) = Total(tfSt.bytes, Users(n))
BY DEF StatsConserved, Users, GivenOut

\* A connection is routed: its names get counters, and it has moved nothing.
LEMMA StatsRoutedKeeps == ASSUME StatsInv, NEW c \in TfConns, StatsRouted(c) PROVE StatsInv'
<1>0. StShape /\ StKnown /\ StatsConserved
  BY DEF StatsInv
<1> DEFINE names == IF tfSt.nil THEN {} ELSE Counted(c)
           cnt == loadOrCreateCounter(tfSt.counters, names)
           opn == Put(tfSt.open, c, names)
<1>1. /\ tfSt' = [nil |-> tfSt.nil, counters |-> cnt, open |-> opn, bytes |-> tfSt.bytes, pulled |-> tfSt.pulled,
                  panic |-> tfSt'.panic, gets |-> tfSt.gets, get |-> tfSt.get, query |-> tfSt.query, at |-> tfSt.at]
      /\ c \notin DOMAIN tfSt.open
  <2>1. CASE tfSt.nil
    <3>1. cnt = tfSt.counters
      BY <1>0, <2>1 DEF StShape, loadOrCreateCounter
    <3> QED BY <1>0, <2>1, <3>1 DEF StShape, StatsRouted
  <2>2. CASE ~tfSt.nil
    BY <1>0, <2>2 DEF StShape, StatsRouted
  <2> QED BY <2>1, <2>2
<1>2. /\ DOMAIN cnt = DOMAIN tfSt.counters \union names
      /\ \A n \in DOMAIN cnt : cnt[n] = IF n \in DOMAIN tfSt.counters THEN tfSt.counters[n] ELSE 0
      /\ cnt = [n \in DOMAIN cnt |-> cnt[n]]
  BY DEF loadOrCreateCounter
<1>3. /\ DOMAIN opn = DOMAIN tfSt.open \union {c} /\ opn[c] = names /\ opn = [x \in DOMAIN opn |-> opn[x]]
      /\ \A x \in DOMAIN tfSt.open : opn[x] = tfSt.open[x]
  BY <1>1 DEF Put
<1> HIDE DEF names, cnt, opn
<1>4. cnt \in [DOMAIN cnt -> Nat] /\ opn \in [DOMAIN opn -> SUBSET DOMAIN cnt]
  BY <1>0, <1>2, <1>3 DEF StShape
<1>5. StShape'
  BY <1>0, <1>1, <1>2, <1>3, <1>4 DEF StShape
<1>6. StKnown'
  BY <1>0, <1>1, <1>2, <1>3 DEF StKnown, StShape
<1>7. ASSUME NEW n \in DOMAIN cnt PROVE cnt[n] + GivenOut(n) = Total(tfSt.bytes, Users(n)')
  <2>1. Users(n)' = IF n \in names THEN Users(n) \union {c} ELSE Users(n)
    BY <1>1, <1>3 DEF Users
  <2>2. Total(tfSt.bytes, Users(n)') = Total(tfSt.bytes, Users(n))
    <3>1. Users(n) \in SUBSET TfConns
      BY <1>0 DEF Users, StShape
    <3>2. tfSt.bytes[c] = 0
      BY <1>0, <1>1 DEF StKnown
    <3> QED BY <2>1, <3>1, <3>2, TotalOfNone
  <2>3. CASE n \in DOMAIN tfSt.counters
    BY <1>0, <1>2, <2>2, <2>3, ConservedIs
  <2>4. CASE n \notin DOMAIN tfSt.counters
    <3>1. Users(n) = {} /\ GivenOut(n) = 0 /\ cnt[n] = 0
      BY <1>0, <1>2, <2>4 DEF Users, GivenOut, StShape
    <3> QED BY <2>2, <3>1, TotalZero
  <2> QED BY <2>3, <2>4
<1>8. StatsConserved'
  <2>1. ASSUME NEW n \in DOMAIN cnt PROVE GivenOut(n)' = GivenOut(n)
    BY <1>1 DEF GivenOut
  <2> QED BY <1>1, <1>7, <2>1 DEF StatsConserved, Users, GivenOut
<1> QED BY <1>5, <1>6, <1>8 DEF StatsInv

\* A byte is counted under each of the connection's names.
LEMMA StatsCountKeeps == ASSUME StatsInv, NEW c \in TfConns, StatsCount(c) PROVE StatsInv'
<1>0. StShape /\ StKnown /\ StatsConserved
  BY DEF StatsInv
<1> DEFINE cnt == [n \in DOMAIN tfSt.counters |-> IF n \in tfSt.open[c] THEN tfSt.counters[n] + 1 ELSE tfSt.counters[n]]
           byt == [tfSt.bytes EXCEPT ![c] = tfSt.bytes[c] + 1]
<1>1. /\ tfSt' = [nil |-> tfSt.nil, counters |-> cnt, open |-> tfSt.open, bytes |-> byt, pulled |-> tfSt.pulled,
                  panic |-> tfSt.panic, gets |-> tfSt.gets, get |-> tfSt.get, query |-> tfSt.query, at |-> tfSt.at]
      /\ c \in DOMAIN tfSt.open /\ tfSt.bytes[c] < TfBytes
  BY <1>0 DEF StShape, StatsCount
<1>2. /\ DOMAIN cnt = DOMAIN tfSt.counters /\ cnt \in [DOMAIN cnt -> Nat]
      /\ \A n \in DOMAIN cnt : cnt[n] = IF n \in tfSt.open[c] THEN tfSt.counters[n] + 1 ELSE tfSt.counters[n]
  BY <1>0 DEF StShape
<1>3. tfSt.bytes \in [TfConns -> Nat] /\ byt \in [TfConns -> 0..TfBytes] /\ \A o \in TfConns \ {c} : byt[o] = tfSt.bytes[o]
  BY <1>0, <1>1, BooksAssume DEF StShape
<1>b. byt = [tfSt.bytes EXCEPT ![c] = tfSt.bytes[c] + 1]
  OBVIOUS
<1> HIDE DEF cnt, byt
<1>5. StShape'
  BY <1>0, <1>1, <1>2, <1>3 DEF StShape
<1>6. StKnown'
  BY <1>0, <1>1, <1>2, <1>3 DEF StKnown
<1>7. ASSUME NEW n \in DOMAIN cnt PROVE cnt[n] + GivenOut(n) = Total(byt, Users(n))
  <2>1. Users(n) \in SUBSET TfConns /\ (c \in Users(n) <=> n \in tfSt.open[c])
    BY <1>0, <1>1 DEF Users, StShape
  <2>2. tfSt.counters[n] + GivenOut(n) = Total(tfSt.bytes, Users(n)) /\ tfSt.counters[n] \in Nat /\ GivenOut(n) \in Nat
    BY <1>0, <1>2, ConservedIs DEF GivenOut, StShape
  <2>3. CASE n \in tfSt.open[c]
    <3>1. Total(byt, Users(n)) = Total(tfSt.bytes, Users(n)) + 1
      BY <1>1, <1>3, <1>b, <2>1, <2>3, TotalOneMore
    <3> QED BY <1>2, <2>2, <2>3, <3>1
  <2>4. CASE n \notin tfSt.open[c]
    <3>1. Total(byt, Users(n)) = Total(tfSt.bytes, Users(n))
      BY <1>3, <1>b, <2>1, <2>4, TotalOther
    <3> QED BY <1>2, <2>2, <2>4, <3>1
  <2> QED BY <2>3, <2>4
<1>8. StatsConserved'
  <2>1. ASSUME NEW n \in DOMAIN cnt PROVE GivenOut(n)' = GivenOut(n) /\ Users(n)' = Users(n)
    BY <1>1 DEF GivenOut, Users
  <2> QED BY <1>1, <1>7, <2>1 DEF StatsConserved, Users, GivenOut
<1> QED BY <1>5, <1>6, <1>8 DEF StatsInv

\* What only the requests hold says nothing of the counters.
LEMMA StatsSame ==
  ASSUME StatsInv, NEW q, NEW a, NEW g, NEW gets,
         tfSt' = [nil |-> tfSt.nil, counters |-> tfSt.counters, open |-> tfSt.open, bytes |-> tfSt.bytes,
                  pulled |-> tfSt.pulled, panic |-> tfSt.panic, gets |-> gets, get |-> g, query |-> q, at |-> a],
         g = [pc |-> g.pc, name |-> g.name, reset |-> g.reset], g.pc = "value" => g.name \in DOMAIN tfSt.counters,
         DOMAIN q \subseteq DOMAIN tfSt.counters
  PROVE  StatsInv'
<1>0. StShape /\ StKnown /\ StatsConserved
  BY DEF StatsInv
<1>1. StShape'
  BY <1>0 DEF StShape
<1>2. StKnown'
  BY <1>0 DEF StKnown
<1>3. StatsConserved'
  BY <1>0 DEF StatsConserved
<1> QED BY <1>1, <1>2, <1>3 DEF StatsInv

\* The counters after a swap, and what was given out by then.
Cleared(name) == [tfSt.counters EXCEPT ![name] = 0]
Given(name) == Put(tfSt.pulled, name, tfSt.counters[name] + GivenOut(name))
\* A swap, field by field.
LEMMA SwapIs ==
  ASSUME StShape, NEW name
  PROVE  Swapped(tfSt, name) =
           [nil |-> tfSt.nil, counters |-> Cleared(name), open |-> tfSt.open, bytes |-> tfSt.bytes,
            pulled |-> Given(name), panic |-> tfSt.panic, gets |-> tfSt.gets, get |-> tfSt.get,
            query |-> tfSt.query, at |-> tfSt.at]
<1>1. Swapped(tfSt, name) = [tfSt EXCEPT !.pulled = Given(name), !.counters = Cleared(name)]
  BY DEF Swapped, Given, Cleared, GivenOut
<1>2. tfSt = [nil |-> tfSt.nil, counters |-> tfSt.counters, open |-> tfSt.open, bytes |-> tfSt.bytes,
              pulled |-> tfSt.pulled, panic |-> tfSt.panic, gets |-> tfSt.gets, get |-> tfSt.get,
              query |-> tfSt.query, at |-> tfSt.at]
  BY DEF StShape
<1> QED BY <1>1, <1>2

\* It moves what is in the counter to what was given out.
LEMMA SwapKeeps ==
  ASSUME StatsInv, NEW name \in DOMAIN tfSt.counters, NEW q, NEW g,
         /\ tfSt'.counters = Cleared(name) /\ tfSt'.open = tfSt.open /\ tfSt'.bytes = tfSt.bytes
         /\ tfSt'.pulled = Given(name) /\ tfSt'.get = g /\ tfSt'.query = q
         /\ tfSt' = [nil |-> tfSt'.nil, counters |-> tfSt'.counters, open |-> tfSt'.open, bytes |-> tfSt'.bytes,
                      pulled |-> tfSt'.pulled, panic |-> tfSt'.panic, gets |-> tfSt'.gets, get |-> tfSt'.get,
                      query |-> tfSt'.query, at |-> tfSt'.at],
         g = [pc |-> g.pc, name |-> g.name, reset |-> g.reset], g.pc = "value" => g.name \in DOMAIN tfSt.counters,
         DOMAIN q \subseteq DOMAIN tfSt.counters
  PROVE  StatsInv'
<1>0. StShape /\ StKnown /\ StatsConserved
  BY DEF StatsInv
<1> DEFINE cnt == Cleared(name)
           pul == Given(name)
<1>1. /\ tfSt'.counters = cnt /\ tfSt'.open = tfSt.open /\ tfSt'.bytes = tfSt.bytes /\ tfSt'.pulled = pul
      /\ tfSt'.get = g /\ tfSt'.query = q
  OBVIOUS
<1>2. /\ DOMAIN cnt = DOMAIN tfSt.counters /\ cnt \in [DOMAIN cnt -> Nat] /\ cnt[name] = 0
      /\ \A n \in DOMAIN cnt \ {name} : cnt[n] = tfSt.counters[n]
  BY <1>0 DEF StShape, Cleared
<1>3. /\ DOMAIN pul = DOMAIN tfSt.pulled \union {name} /\ pul \in [DOMAIN pul -> Nat]
      /\ pul[name] = tfSt.counters[name] + GivenOut(name)
      /\ \A n \in DOMAIN pul \ {name} : pul[n] = tfSt.pulled[n]
  <2>1. tfSt.counters[name] + GivenOut(name) \in Nat
    BY <1>0 DEF StShape, GivenOut
  <2> QED BY <1>0, <2>1 DEF StShape, Put, Given
<1> HIDE DEF cnt, pul
<1>5. StShape'
  BY <1>0, <1>1, <1>2, <1>3 DEF StShape
<1>6. StKnown'
  BY <1>0, <1>1, <1>2 DEF StKnown
<1>7. ASSUME NEW n \in DOMAIN cnt
      PROVE  cnt[n] + (IF n \in DOMAIN pul THEN pul[n] ELSE 0) = Total(tfSt.bytes, Users(n))
  <2>1. tfSt.counters[n] + GivenOut(n) = Total(tfSt.bytes, Users(n)) /\ tfSt.counters[n] \in Nat /\ GivenOut(n) \in Nat
    BY <1>0, <1>2, ConservedIs DEF GivenOut, StShape
  <2>2. CASE n = name
    BY <1>2, <1>3, <2>1, <2>2
  <2>3. CASE n # name
    BY <1>2, <1>3, <2>1, <2>3 DEF GivenOut
  <2> QED BY <2>2, <2>3
<1>8. StatsConserved'
  BY <1>1, <1>7 DEF StatsConserved, Users
<1> QED BY <1>5, <1>6, <1>8 DEF StatsInv

\* The requests: GetStats in its two steps, and QueryStats, which swaps one counter after the other.
LEMMA RequestsCount ==
  ASSUME StatsInv,
         \/ \E n \in DOMAIN tfSt.counters, reset \in BOOLEAN : GetStats(n, reset)
         \/ GetStatsValue
         \/ \E p \in tfScn.patterns, reset \in BOOLEAN : QueryStats(p, reset)
         \/ \E n \in DOMAIN tfSt.query : QueryStatsSwap(n)
  PROVE  StatsInv'
<1>0. StShape /\ StKnown
  BY DEF StatsInv
<1>1. CASE \E n \in DOMAIN tfSt.counters, reset \in BOOLEAN : GetStats(n, reset)
  <2>1. PICK n \in DOMAIN tfSt.counters, reset \in BOOLEAN : GetStats(n, reset)
    BY <1>1
  <2> DEFINE g == [pc |-> "value", name |-> n, reset |-> reset]
  <2>2. tfSt' = [nil |-> tfSt.nil, counters |-> tfSt.counters, open |-> tfSt.open, bytes |-> tfSt.bytes,
                 pulled |-> tfSt.pulled, panic |-> tfSt.panic, gets |-> tfSt.gets + 1, get |-> g,
                 query |-> tfSt.query, at |-> tfSt.at]
    BY <1>0, <2>1 DEF StShape, GetStats
  <2>3. g = [pc |-> g.pc, name |-> g.name, reset |-> g.reset] /\ g.name \in DOMAIN tfSt.counters
    OBVIOUS
  <2> HIDE DEF g
  <2> QED BY <1>0, <2>2, <2>3, StatsSame DEF StKnown
<1>2. CASE GetStatsValue
  <2> DEFINE g == [pc |-> "idle", name |-> tfSt.get.name, reset |-> tfSt.get.reset]
  <2>1. g = [pc |-> g.pc, name |-> g.name, reset |-> g.reset] /\ g.pc # "value"
    OBVIOUS
  <2>2. tfSt.get.name \in DOMAIN tfSt.counters
    BY <1>0, <1>2 DEF StKnown, GetStatsValue
  <2>3. CASE tfSt.get.reset
    <3>1. /\ tfSt' = [Swapped(tfSt, tfSt.get.name) EXCEPT !.get.pc = "idle"]
          /\ tfSt.get = [pc |-> tfSt.get.pc, name |-> tfSt.get.name, reset |-> tfSt.get.reset]
      BY <1>0, <1>2, <2>3 DEF StShape, GetStatsValue
    <3>2. /\ tfSt'.counters = Cleared(tfSt.get.name) /\ tfSt'.open = tfSt.open /\ tfSt'.bytes = tfSt.bytes
          /\ tfSt'.pulled = Given(tfSt.get.name) /\ tfSt'.get = g /\ tfSt'.query = tfSt.query
          /\ tfSt' = [nil |-> tfSt'.nil, counters |-> tfSt'.counters, open |-> tfSt'.open, bytes |-> tfSt'.bytes,
                       pulled |-> tfSt'.pulled, panic |-> tfSt'.panic, gets |-> tfSt'.gets, get |-> tfSt'.get,
                       query |-> tfSt'.query, at |-> tfSt'.at]
      BY <1>0, <3>1, SwapIs
    <3> HIDE DEF g
    <3> QED BY <1>0, <2>1, <2>2, <3>2, SwapKeeps DEF StKnown
  <2>4. CASE ~tfSt.get.reset
    <3>1. tfSt' = [nil |-> tfSt.nil, counters |-> tfSt.counters, open |-> tfSt.open, bytes |-> tfSt.bytes,
                   pulled |-> tfSt.pulled, panic |-> tfSt.panic, gets |-> tfSt.gets, get |-> g,
                   query |-> tfSt.query, at |-> tfSt.at]
      BY <1>0, <1>2, <2>4 DEF StShape, GetStatsValue
    <3> HIDE DEF g
    <3> QED BY <1>0, <2>1, <3>1, StatsSame DEF StKnown
  <2> QED BY <2>3, <2>4
<1>3. CASE \E p \in tfScn.patterns, reset \in BOOLEAN : QueryStats(p, reset)
  <2>1. PICK p \in tfScn.patterns, reset \in BOOLEAN : QueryStats(p, reset)
    BY <1>3
  <2> DEFINE q == IF reset THEN Matching(p) ELSE tfSt.query
  <2>2. tfSt' = [nil |-> tfSt.nil, counters |-> tfSt.counters, open |-> tfSt.open, bytes |-> tfSt.bytes,
                 pulled |-> tfSt.pulled, panic |-> tfSt.panic, gets |-> tfSt.gets + 1, get |-> tfSt.get,
                 query |-> q, at |-> tfSt.at]
    BY <1>0, <2>1 DEF StShape, QueryStats
  <2>3. DOMAIN q \subseteq DOMAIN tfSt.counters
    <3>1. DOMAIN Matching(p) \subseteq DOMAIN tfSt.counters
      BY DEF Matching
    <3> QED BY <1>0, <3>1 DEF StKnown
  <2> HIDE DEF q
  <2> QED BY <1>0, <2>2, <2>3, StatsSame DEF StKnown, StShape
<1>4. CASE \E n \in DOMAIN tfSt.query : QueryStatsSwap(n)
  <2>1. PICK n \in DOMAIN tfSt.query : QueryStatsSwap(n)
    BY <1>4
  <2> DEFINE left == tfSt.query[n] - 1
             q == IF left = 0 THEN Restrict(tfSt.query, DOMAIN tfSt.query \ {n}) ELSE Put(tfSt.query, n, left)
             a == IF left = 0 THEN <<>> ELSE n
  <2>2. /\ tfSt'.counters = Cleared(n) /\ tfSt'.open = tfSt.open /\ tfSt'.bytes = tfSt.bytes
        /\ tfSt'.pulled = Given(n) /\ tfSt'.get = tfSt.get /\ tfSt'.query = q
        /\ tfSt' = [nil |-> tfSt'.nil, counters |-> tfSt'.counters, open |-> tfSt'.open, bytes |-> tfSt'.bytes,
                     pulled |-> tfSt'.pulled, panic |-> tfSt'.panic, gets |-> tfSt'.gets, get |-> tfSt'.get,
                     query |-> tfSt'.query, at |-> tfSt'.at]
    <3>1. tfSt' = [Swapped(tfSt, n) EXCEPT !.at = a, !.query = q]
      <4>1. Swapped(tfSt, n).query = tfSt.query
        BY <1>0, SwapIs
      <4> QED BY <2>1, <4>1 DEF QueryStatsSwap
    <3> HIDE DEF left, q, a
    <3>2. PICK x, y : x = a /\ y = q
      OBVIOUS
    <3>3. tfSt' = [[Swapped(tfSt, n) EXCEPT !.at = x] EXCEPT !.query = y]
      BY <3>1, <3>2
    <3>4. PICK s : s = [Swapped(tfSt, n) EXCEPT !.at = x]
      OBVIOUS
    <3>5. s = [nil |-> tfSt.nil, counters |-> Cleared(n), open |-> tfSt.open, bytes |-> tfSt.bytes, pulled |-> Given(n),
               panic |-> tfSt.panic, gets |-> tfSt.gets, get |-> tfSt.get, query |-> tfSt.query, at |-> x]
      BY <1>0, <3>4, SwapIs
    <3>6. tfSt' = [s EXCEPT !.query = y]
      BY <3>3, <3>4
    <3> QED BY <3>2, <3>5, <3>6
  <2>3. DOMAIN q \subseteq DOMAIN tfSt.counters /\ n \in DOMAIN tfSt.counters
    BY <1>0 DEF StKnown, Restrict, Put
  <2> HIDE DEF q, a
  <2> QED BY <1>0, <2>2, <2>3, SwapKeeps DEF StKnown, StShape
<1> QED BY <1>1, <1>2, <1>3, <1>4

\* The books before the first connection.
LEMMA BooksStart == ASSUME NEW scn \in TfScenarios, TfStart(scn) PROVE CountInv /\ StatsInv
<1>1. /\ tf.up = [c \in TfConns |-> 0] /\ tf.push = [c \in TfConns |-> "idle"] /\ tf.temp = 0 /\ tf.total = 0
      /\ tf.held = -1 /\ tf.shown = 0 /\ tf.closed = <<>>
  BY DEF TfStart
<1>2. Total(tf.up, TfConns) = 0
  BY <1>1, TotalZero
<1>3. Pushing({"temp", "total"}) = 0 /\ Pushing({"temp"}) = 0
  <2>1. InStep({"temp", "total"}) = {} /\ InStep({"temp"}) = {}
    BY <1>1 DEF InStep
  <2> QED BY <2>1, FS_EmptySet DEF InStep, Pushing
<1>4. CountInv
  BY <1>1, <1>2, <1>3, BooksAssume DEF CountInv, TotalsAgree
<1>5. tfSt = [nil |-> ~scn.options.enabled, counters |-> <<>>, open |-> <<>>, bytes |-> [c \in TfConns |-> 0],
              pulled |-> <<>>, panic |-> FALSE, gets |-> 0, get |-> [pc |-> "idle", name |-> <<>>, reset |-> FALSE],
              query |-> <<>>, at |-> <<>>]
  BY DEF TfStart, NewStatsService
<1>6. StShape
  BY <1>5, BooksAssume DEF StShape
<1>7. StKnown /\ StatsConserved
  BY <1>5 DEF StKnown, StatsConserved
<1> QED BY <1>4, <1>6, <1>7 DEF StatsInv

\* Each part keeps its books, and the other parts do not touch them.
LEMMA BooksStep == ASSUME BooksInv, [TfNext]_tfVars PROVE BooksInv'
<1>0. ApiInv /\ ConnInv /\ CountInv /\ StatsInv
  BY DEF BooksInv, ApiInv
<1>1. ApiInv'
  BY <1>0, ApiStep
<1>c. tf' = tf => CountInv'
  BY <1>0 DEF CountInv, TotalsAgree, Pushing, Total
<1>s. tfSt' = tfSt => StatsInv'
  BY <1>0 DEF StatsInv, StShape, StKnown, StatsConserved, Total
<1>2. CASE /\ Counting
           /\ \/ \E c \in TfConns : NewTCPTracker(c) \/ NewUDPTracker(c) \/ CountUpload(c) \/ PushUploaded(c)
              \/ handle \/ ManagerClose
              \/ \E c \in TfConns : RelayEnds(c)
              \/ \E c \in TfConns, who \in Leavers : LeaveListed(c, who) \/ TrackerClose(c, who)
              \/ closeAllConnections \/ (\E c \in TfConns : closeConnection(c)) \/ (\E c \in TfConns : ApiCloses(c))
              \/ ApiAnswers
  <2>1. CountInv'
    BY <1>0, <1>2, TotalsKept
  <2>2. tfSt' = tfSt
    BY <1>2 DEF Counting, Part
  <2> QED BY <1>1, <1>s, <2>1, <2>2 DEF BooksInv
<1>3. CASE /\ Reporting
           /\ \/ \E c \in TfConns : StatsRouted(c) \/ StatsCount(c)
              \/ \E n \in DOMAIN tfSt.counters, reset \in BOOLEAN : GetStats(n, reset)
              \/ GetStatsValue
              \/ \E p \in tfScn.patterns, reset \in BOOLEAN : QueryStats(p, reset)
              \/ \E n \in DOMAIN tfSt.query : QueryStatsSwap(n)
  <2>1. StatsInv'
    BY <1>0, <1>3, StatsRoutedKeeps, StatsCountKeeps, RequestsCount
  <2>2. tf' = tf
    BY <1>3 DEF Reporting, Part
  <2> QED BY <1>1, <1>c, <2>1, <2>2 DEF BooksInv
<1>4. CASE Moding \/ Showing \/ Testing \/ UNCHANGED tfVars
  <2>1. tf' = tf /\ tfSt' = tfSt
    BY <1>4 DEF Moding, Showing, Testing, Part, tfVars
  <2> QED BY <1>1, <1>c, <1>s, <2>1 DEF BooksInv
<1> QED BY <1>2, <1>3, <1>4 DEF TfNext

\* AccountsSound, for every number of connections and of bytes, every size of the closed list and every
\* configuration: the manager's totals, its ticks and the counters of the statistics are exactly what the
\* connections moved, with each writer, the ticker and the requests that reset at any of their steps
\* (trafficontrol.Manager, v2rayapi.StatsService).
THEOREM AccountsAlwaysSound == TfSpec => []AccountsSound
<1>1. TfInit => BooksInv
  <2> SUFFICES ASSUME NEW scn \in TfScenarios, TfStart(scn) PROVE BooksInv
    BY DEF TfInit
  <2>1. tfScn \in TfScenarios
    BY DEF TfStart
  <2>2. ApiInv
    BY <2>1, ConnStart, ModeStart, FilesStart, DelayStart DEF ApiInv
  <2> QED BY <2>2, BooksStart DEF BooksInv
<1>2. BooksInv /\ [TfNext]_tfVars => BooksInv'
  BY BooksStep
<1>3. BooksInv => AccountsSound
  <2> SUFFICES ASSUME BooksInv PROVE AccountsSound
    OBVIOUS
  <2>1. tfScn \in TfScenarios /\ TfTypes /\ UiShape /\ CountInv /\ StShape /\ StatsConserved
    BY DEF BooksInv, ApiInv, ConnInv, FilesInv, StatsInv
  <2>2. TfTypeOK
    BY <2>1, ConnNow DEF TfTypeOK, CountInv, StShape, UiShape
  <2> QED BY <2>1, <2>2 DEF AccountsSound, CountInv
<1> QED BY <1>1, <1>2, <1>3, PTL DEF TfSpec
=============================================================================
