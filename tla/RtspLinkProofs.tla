--------------------------- MODULE RtspLinkProofs ---------------------------
(***************************************************************************)
(* Proofs about RtspLink for any number of connections, any backlog, TCP   *)
(* buffers of two messages or more, and any number of restarts and         *)
(* timeouts.  Inv says which connections each end holds and follows the    *)
(* requests and replies of the handshake from one end to the other.        *)
(***************************************************************************)
EXTENDS RtspLink, SequenceTheorems, TLAPS

\* rtsp_cli has a connection between connect and close, and only that one.
ClientOk ==
    /\ s_running <=> cpc # "none"
    /\ cslot = NoSlot <=> cpc \in {"none", "connect"}
    /\ cpc = "connect" => step = 1
    /\ \A s \in Slots : conn[s].client = "open" <=> s = cslot

\* The publisher's stack holds the connection rtsp_srv serves and the ones
\* that wait for accept, each once.
ServerOk ==
    /\ sslot = NoSlot <=> srv = "accept"
    /\ out = << >> <=> srv # "send"
    /\ \A s \in Slots : conn[s].server = "open" <=>
                            s = sslot \/ \E i \in 1 .. Len(backlog) : backlog[i] = s
    /\ \A i, j \in 1 .. Len(backlog) : backlog[i] = backlog[j] => i = j
    /\ \A i \in 1 .. Len(backlog) : backlog[i] # sslot

\* A connection neither end uses is free; a reset has a dead end.
ConnOk ==
    \A s \in Slots :
        \/ conn[s] = Free
        \/ /\ conn[s].client = "open" \/ conn[s].server = "open"
           /\ conn[s].rst => conn[s].client # "open" \/ conn[s].server # "open"

\* The replies the client has not read: what has arrived and what the server
\* still has to send on its connection.
Unread == conn[cslot].s2c \o (IF sslot = cslot THEN out ELSE << >>)

\* What they can be in step i before the server handles its request, and after.
Before(i, u) == u = << >> \/ (i = 3 /\ u = <<"SDP">>)
After(i, u) ==
    \/ i = 1 /\ u = <<"200 OPTIONS">>
    \/ i = 2 /\ u = <<"200 DESCRIBE", "SDP">>
    \/ i = 3 /\ (u = <<"200 SETUP">> \/ u = <<"SDP", "200 SETUP">>)
    \/ i = 4 /\ u = <<"200 PLAY">>

\* The handshake with a publisher that has not restarted: one request is under
\* way at a time, and the steps behind the client were handled.
HandshakeOk ==
    cslot # NoSlot /\ conn[cslot].server = "open" =>
        /\ step > 1 => sslot = cslot
        /\ step = 4 => s_dest
        /\ cpc = "send" => conn[cslot].c2s = << >> /\ Before(step, Unread)
        /\ cpc = "recv" =>
              \/ conn[cslot].c2s = <<Handshake[step]>> /\ Before(step, Unread)
              \/ /\ conn[cslot].c2s = << >> /\ After(step, Unread)
                 /\ sslot = cslot
                 /\ step = 3 => s_dest
                 /\ step = 4 => s_streaming
        /\ cpc \in {"stream", "blocked"} => step = 4 /\ s_streaming

Inv ==
    /\ TypeOK
    /\ ClientOk
    /\ ServerOk
    /\ ConnOk
    /\ HandshakeOk

(***************************************************************************)
(* Messages and streams.                                                   *)
(***************************************************************************)
\* The tables of the handshake, entry by entry.
LEMMA HandshakeIs ==
    /\ Handshake[1] = "OPTIONS" /\ Handshake[2] = "DESCRIBE"
    /\ Handshake[3] = "SETUP" /\ Handshake[4] = "PLAY"
BY DEF Handshake

LEMMA AnswerIs ==
    /\ Answer["OPTIONS"] = <<"200 OPTIONS">>
    /\ Answer["DESCRIBE"] = <<"200 DESCRIBE", "SDP">>
    /\ Answer["SETUP"] = <<"200 SETUP">>
    /\ Answer["PLAY"] = <<"200 PLAY">>
BY DEF Answer

\* The methods of the handshake and their answers.
LEMMA MethodsOk ==
    /\ \A i \in 1 .. 4 : Handshake[i] \in Methods
    /\ "OPTIONS" \in Methods
    /\ \A m \in Methods : m \in {"OPTIONS", "DESCRIBE", "SETUP", "PLAY"}
    /\ \A m \in Methods : Answer[m] \in Seq(Replies) /\ Answer[m] # << >>
<1>1. \A i \in 1 .. 4 : Handshake[i] \in Methods
  BY DEF Methods
<1>2. \A m \in Methods : m \in {"OPTIONS", "DESCRIBE", "SETUP", "PLAY"}
  BY HandshakeIs DEF Methods
<1>3. "OPTIONS" \in Methods
  BY HandshakeIs, 1 \in 1 .. 4 DEF Methods
<1>4. /\ <<"200 OPTIONS">> \in Seq(Replies) /\ <<"200 DESCRIBE", "SDP">> \in Seq(Replies)
      /\ <<"200 SETUP">> \in Seq(Replies) /\ <<"200 PLAY">> \in Seq(Replies)
  BY DEF Replies
<1>5. \A a, b : <<a>> # << >> /\ <<a, b>> # << >>
  OBVIOUS
<1> QED BY <1>1, <1>2, <1>3, <1>4, <1>5, AnswerIs

\* What the server still has to send: each send takes its head.
LEMMA OutOk ==
    ASSUME TypeOK
    PROVE  /\ out \in Seq(Replies)
           /\ out # << >> => /\ Head(out) \in Replies
                             /\ Tail(out) \in {<< >>, <<"SDP">>}
                             /\ Tail(out) = << >> <=> Len(out) = 1
<1>1. out \in Seq(Replies)
  <2>1. << >> \in Seq(Replies) /\ <<"SDP">> \in Seq(Replies)
    BY DEF Replies
  <2> QED BY <2>1, MethodsOk DEF TypeOK
<1>2. out # << >> => Head(out) \in Replies
  BY <1>1, HeadTailProperties
<1>3. \/ out = << >> \/ out = <<"SDP">> \/ out = <<"200 OPTIONS">>
      \/ out = <<"200 DESCRIBE", "SDP">> \/ out = <<"200 SETUP">> \/ out = <<"200 PLAY">>
  BY MethodsOk, AnswerIs DEF TypeOK
<1>4. /\ Len(<<"SDP">>) = 1 /\ Len(<<"200 OPTIONS">>) = 1 /\ Len(<<"200 SETUP">>) = 1
      /\ Len(<<"200 PLAY">>) = 1
  OBVIOUS
<1>5. Len(out) = 1 /\ out # << >> => Tail(out) = << >>
  <2>1. out # << >> /\ Len(out) = 1 => Tail(out) \in Seq(Replies) /\ Len(Tail(out)) = 0
    BY <1>1, HeadTailProperties
  <2>2. \A s \in Seq(Replies) : s # << >> => Len(s) # 0
    BY EmptySeq
  <2> QED BY <2>1, <2>2
<1>6. /\ Tail(<<"200 DESCRIBE", "SDP">>) = <<"SDP">>
      /\ Len(<<"200 DESCRIBE", "SDP">>) = 2
  OBVIOUS
<1>7. <<"SDP">> # << >>
  OBVIOUS
<1> QED BY <1>1, <1>2, <1>3, <1>4, <1>5, <1>6, <1>7

\* What recv returns is taken from the front of the stream.
LEMMA PrefixOk ==
    ASSUME NEW S, NEW seq \in Seq(S), NEW got \in Prefixes(seq)
    PROVE  /\ seq # << >>
           /\ Len(got) \in 1 .. Len(seq)
           /\ got[1] = seq[1]
           /\ got[1] \in S
           /\ Rest(seq, got) = SubSeq(seq, Len(got) + 1, Len(seq))
           /\ Rest(seq, got) \in Seq(S)
           /\ Len(Rest(seq, got)) <= Len(seq)
<1> PICK n \in 1 .. Len(seq) : got = SubSeq(seq, 1, n)
  BY DEF Prefixes
<1>0. Len(seq) \in Nat /\ \A i \in 1 .. Len(seq) : seq[i] \in S
  BY ElementOfSeq, LenProperties
<1>1. Len(got) = n /\ got[1] = seq[1]
  BY <1>0, SubSeqProperties
<1>2. /\ SubSeq(seq, n + 1, Len(seq)) \in Seq(S)
      /\ Len(SubSeq(seq, n + 1, Len(seq))) <= Len(seq)
  <2>1. n + 1 \in Int /\ Len(seq) \in Int /\ \A i \in n + 1 .. Len(seq) : seq[i] \in S
    BY <1>0
  <2> QED BY <1>0, <2>1, SubSeqProperties
<1>3. seq # << >> /\ seq[1] \in S
  BY <1>0, EmptySeq
<1> QED BY <1>1, <1>2, <1>3 DEF Rest

\* Reading from the front of one stream drops as much of the two.
LEMMA RestOfBoth ==
    ASSUME NEW S, NEW s \in Seq(S), NEW o \in Seq(S), NEW got \in Prefixes(s)
    PROVE  /\ Len(got) \in 1 .. Len(s \o o)
           /\ (s \o o)[1] = got[1]
           /\ Rest(s, got) \o o = SubSeq(s \o o, Len(got) + 1, Len(s \o o))
<1> DEFINE n == Len(got)
           r == SubSeq(s, n + 1, Len(s))
           u == s \o o
           v == SubSeq(u, n + 1, Len(u))
<1>0. /\ Len(s) \in Nat /\ Len(o) \in Nat
      /\ \A i \in 1 .. Len(s) : s[i] \in S
  BY ElementOfSeq, LenProperties
<1>1. n \in 1 .. Len(s) /\ got[1] = s[1] /\ Rest(s, got) = r
  BY PrefixOk
<1>2. /\ u \in Seq(S) /\ Len(u) = Len(s) + Len(o)
      /\ \A i \in 1 .. Len(s) + Len(o) : u[i] = IF i <= Len(s) THEN s[i] ELSE o[i - Len(s)]
  BY ConcatProperties
<1>3. /\ r \in Seq(S) /\ Len(r) = Len(s) - n
      /\ \A i \in 1 .. Len(s) - n : r[i] = s[n + i]
  BY <1>0, <1>1, SubSeqProperties
<1>4. /\ v \in Seq(S) /\ Len(v) = Len(u) - n
      /\ \A i \in 1 .. Len(u) - n : v[i] = u[n + i]
  BY <1>1, <1>2, SubSeqProperties
<1>5. /\ r \o o \in Seq(S) /\ Len(r \o o) = Len(r) + Len(o)
      /\ \A i \in 1 .. Len(r) + Len(o) :
            (r \o o)[i] = IF i <= Len(r) THEN r[i] ELSE o[i - Len(r)]
  BY <1>3, ConcatProperties
<1> DEFINE w == r \o o
<1> HIDE DEF r, u, v, w, n
<1>6. /\ w \in Seq(S) /\ v \in Seq(S)
      /\ Len(w) = Len(v)
      /\ \A i \in 1 .. Len(w) : w[i] = v[i]
  BY <1>0, <1>1, <1>2, <1>3, <1>4, <1>5 DEF w
<1>7. w = v
  BY <1>6, SeqEqual
<1>8. n \in 1 .. Len(u) /\ u[1] = s[1]
  BY <1>0, <1>1, <1>2
<1> QED BY <1>1, <1>7, <1>8 DEF r, u, v, w, n

\* A send moves a message from one to the other.
LEMMA SendMoves ==
    ASSUME NEW S, NEW s \in Seq(S), NEW o \in Seq(S), o # << >>
    PROVE  Append(s, Head(o)) \o Tail(o) = s \o o
<1>1. o = <<Head(o)>> \o Tail(o) /\ Head(o) \in S /\ Tail(o) \in Seq(S)
  BY SubSeqRecursiveFirst, SubSeqFull, TailIsSubSeq, HeadTailProperties
<1>2. Append(s, Head(o)) = s \o <<Head(o)>>
  BY <1>1, AppendIsConcat
<1> QED BY <1>1, <1>2, ConcatAssociative

\* Streams of one and two messages.
LEMMA PairOk ==
    ASSUME NEW S, NEW a \in S, NEW b \in S
    PROVE  /\ <<a>> \o <<b>> = <<a, b>>
           /\ SubSeq(<<a, b>>, 2, 2) = <<b>>
<1> DEFINE p == <<a, b>>
           q == <<a>> \o <<b>>
<1>1. <<a>> \in Seq(S) /\ <<b>> \in Seq(S) /\ p \in Seq(S)
  OBVIOUS
<1>2. p[1] = a /\ p[2] = b /\ Len(p) = 2
  OBVIOUS
<1>3. Len(<<a>>) = 1 /\ Len(<<b>>) = 1 /\ <<a>>[1] = a /\ <<b>>[1] = b
  OBVIOUS
<1>4. q \in Seq(S) /\ Len(q) = 2 /\ q[1] = a /\ q[2] = b
  BY <1>1, <1>3, ConcatProperties
<1> HIDE DEF p, q
<1>5. q = p
  BY <1>1, <1>2, <1>4, SeqEqual
<1>6. /\ SubSeq(p, 2, 2) \in Seq(S) /\ Len(SubSeq(p, 2, 2)) = 1 /\ SubSeq(p, 2, 2)[1] = p[2]
  BY <1>1, <1>2, SubSeqProperties
<1>7. \A i \in 1 .. 1 : SubSeq(p, 2, 2)[i] = <<b>>[i]
  BY <1>2, <1>3, <1>6
<1> DEFINE x == SubSeq(p, 2, 2)
           y == <<b>>
<1>8. /\ x \in Seq(S) /\ y \in Seq(S) /\ Len(x) = 1 /\ Len(y) = 1
      /\ \A i \in 1 .. 1 : x[i] = y[i]
  BY <1>1, <1>3, <1>6, <1>7
<1> HIDE DEF x, y
<1>9. x = y
  BY <1>8, SeqEqual
<1> QED BY <1>5, <1>9 DEF p, q, x, y

\* The answer to a step's request completes what the client will read.
LEMMA AnswerCompletes ==
    ASSUME NEW i \in 1 .. 4, NEW b, Before(i, b)
    PROVE  After(i, b \o Answer[Handshake[i]])
<1>1. \A m \in Methods : << >> \o Answer[m] = Answer[m]
  BY MethodsOk, ConcatEmptySeq
<1>2. <<"SDP">> \o <<"200 SETUP">> = <<"SDP", "200 SETUP">>
  <2>1. "SDP" \in Replies /\ "200 SETUP" \in Replies
    BY DEF Replies
  <2> QED BY <2>1, PairOk
<1>3. i = 1 \/ i = 2 \/ i = 3 \/ i = 4
  OBVIOUS
<1>4. CASE b = << >>
  <2>1. b \o Answer[Handshake[i]] = Answer[Handshake[i]]
    BY <1>1, <1>4, MethodsOk
  <2> QED BY <1>3, <2>1, HandshakeIs, AnswerIs DEF After
<1>5. CASE b = <<"SDP">> /\ i = 3
  BY <1>2, <1>5, HandshakeIs, AnswerIs DEF After
<1> QED BY <1>4, <1>5 DEF Before

\* What a recv leaves of the replies is what the next step may find.
LEMMA LeftOver ==
    ASSUME NEW i \in 1 .. 4, NEW u, After(i, u), NEW n \in 1 .. Len(u),
           i = 3 => IsOk(u[1])
    PROVE  Before(i + 1, SubSeq(u, n + 1, Len(u)))
<1>1. CASE Len(u) = 1
  <2>1. SubSeq(u, n + 1, Len(u)) = << >>
    BY <1>1, SubSeqEmpty
  <2> QED BY <2>1 DEF Before
<1>2. CASE i = 2 /\ u = <<"200 DESCRIBE", "SDP">>
  <2>1. i + 1 = 3 /\ (n = 1 \/ n = 2) /\ Len(u) = 2
    <3>1. i = 2 /\ u = <<"200 DESCRIBE", "SDP">>
      BY <1>2
    <3>2. Len(<<"200 DESCRIBE", "SDP">>) = 2
      OBVIOUS
    <3>3. Len(u) = 2
      BY <3>1, <3>2
    <3>4. i = 2
      BY <3>1
    <3> QED BY <3>3, <3>4
  <2>2. SubSeq(u, 2, 2) = <<"SDP">>
    <3>1. "SDP" \in Replies /\ "200 DESCRIBE" \in Replies
      BY DEF Replies
    <3> QED BY <1>2, <3>1, PairOk
  <2>3. SubSeq(u, 3, 2) = << >>
    BY SubSeqEmpty
  <2> QED BY <2>1, <2>2, <2>3 DEF Before
<1>3. CASE i = 3 /\ u = <<"SDP", "200 SETUP">>
  <2>1. u[1] = "SDP"
    BY <1>3
  <2> QED BY <1>3, <2>1 DEF IsOk
<1>4. \A a : Len(<<a>>) = 1
  OBVIOUS
<1> QED BY <1>1, <1>2, <1>3, <1>4 DEF After

\* Only the SDP can be there before the request is handled.
LEMMA BeforeOk ==
    ASSUME NEW i, NEW b, Before(i, b), NEW n \in 1 .. Len(b)
    PROVE  i = 3 /\ ~IsOk(b[1])
<1>1. b # << >>
  BY EmptySeq
<1>2. <<"SDP">>[1] = "SDP"
  OBVIOUS
<1> QED BY <1>1, <1>2 DEF Before, IsOk

(***************************************************************************)
(* Connections.                                                            *)
(***************************************************************************)
\* A fresh connection and a free one are connections.
LEMMA FreshOk ==
    /\ Free \in Connection /\ Fresh \in Connection
    /\ Free.c2s = << >> /\ Free.s2c = << >> /\ ~Free.rst
    /\ Free.client = "none" /\ Free.server = "none"
    /\ Fresh.c2s = << >> /\ Fresh.s2c = << >> /\ ~Fresh.rst
    /\ Fresh.client = "open" /\ Fresh.server = "open"
<1>1. /\ Free.c2s = << >> /\ Free.s2c = << >> /\ ~Free.rst
      /\ Free.client = "none" /\ Free.server = "none"
  BY DEF Free
<1>2. << >> \in Seq(Methods) /\ << >> \in Seq(Replies)
  BY EmptySeq
<1>3. Free \in Connection
  BY <1>2 DEF Free, Connection
<1>4. /\ Fresh.c2s = << >> /\ Fresh.s2c = << >> /\ ~Fresh.rst
      /\ Fresh.client = "open" /\ Fresh.server = "open"
      /\ Fresh \in Connection
  BY <1>1, <1>3 DEF Fresh, Free, Connection
<1> QED BY <1>1, <1>3, <1>4

\* Updating a connection one end still uses, within the buffers.
LEMMA SetOk ==
    ASSUME TypeOK, NEW s \in Slots, NEW k \in Connection, Set(s, k),
           Len(k.c2s) <= TcpBuf, Len(k.s2c) <= TcpBuf,
           k.client = "open" \/ k.server = "open"
    PROVE  /\ conn' \in [Slots -> Connection]
           /\ \A t \in Slots : Len(conn'[t].c2s) <= TcpBuf /\ Len(conn'[t].s2c) <= TcpBuf
           /\ conn'[s] = k
           /\ \A t \in Slots : t # s => conn'[t] = conn[t]
<1>1. Tidy(k) = k
  BY DEF Tidy
<1>2. conn' = [conn EXCEPT ![s] = k]
  BY <1>1 DEF Set
<1> QED BY <1>2 DEF TypeOK

\* Updating a connection neither end uses any more frees it.
LEMMA SetFreeOk ==
    ASSUME TypeOK, NEW s \in Slots, NEW k, Set(s, k),
           k.client # "open", k.server # "open"
    PROVE  /\ conn' \in [Slots -> Connection]
           /\ \A t \in Slots : Len(conn'[t].c2s) <= TcpBuf /\ Len(conn'[t].s2c) <= TcpBuf
           /\ conn'[s] = Free
           /\ \A t \in Slots : t # s => conn'[t] = conn[t]
<1>1. Tidy(k) = Free
  BY DEF Tidy
<1>2. conn' = [conn EXCEPT ![s] = Free]
  BY <1>1 DEF Set
<1>3. Len(Free.c2s) <= TcpBuf /\ Len(Free.s2c) <= TcpBuf
  BY FreshOk, EmptySeq, LinkAssumption
<1> QED BY <1>2, <1>3, FreshOk DEF TypeOK

\* The client's own connection: it is open at its end, and while the publisher
\* lives it is not reset.
LEMMA OwnConn ==
    ASSUME Inv, cpc \notin {"none", "connect"}
    PROVE  /\ cslot \in Slots
           /\ conn[cslot] \in Connection
           /\ conn[cslot].client = "open"
           /\ conn[cslot].server = "open" => ~conn[cslot].rst
<1>1. cslot \in Slots
  BY DEF Inv, TypeOK, ClientOk
<1> QED BY <1>1, FreshOk DEF Inv, TypeOK, ClientOk, ConnOk

\* A send changes nothing but the bytes on their way, or finds out that the
\* publisher has restarted.
LEMMA ClientSendOk ==
    ASSUME Inv, cpc \notin {"none", "connect"}, NEW msg \in Methods, ClientSend(msg)
    PROVE  /\ conn' \in [Slots -> Connection]
           /\ \A t \in Slots : Len(conn'[t].c2s) <= TcpBuf /\ Len(conn'[t].s2c) <= TcpBuf
           /\ \A t \in Slots : t # cslot => conn'[t] = conn[t]
           /\ conn'[cslot].client = "open"
           /\ conn'[cslot].server = conn[cslot].server
           /\ conn'[cslot].s2c = conn[cslot].s2c
           /\ conn[cslot].server = "open" => /\ conn'[cslot].c2s = Append(conn[cslot].c2s, msg)
                                             /\ ~conn'[cslot].rst
<1> DEFINE k == conn[cslot]
           sent == [k EXCEPT !.c2s = Append(k.c2s, msg)]
           reset == [k EXCEPT !.rst = TRUE]
<1>1. /\ cslot \in Slots /\ k \in Connection /\ k.client = "open"
      /\ k.server = "open" => ~k.rst
      /\ Len(k.c2s) <= TcpBuf /\ Len(k.s2c) <= TcpBuf
      /\ TypeOK
  BY OwnConn DEF Inv, TypeOK
<1>2. CASE /\ k.server = "open" /\ ~k.rst
           /\ Len(k.c2s) < TcpBuf
           /\ Set(cslot, sent)
  <2>1. /\ Append(k.c2s, msg) \in Seq(Methods)
        /\ Len(Append(k.c2s, msg)) <= TcpBuf
    <3>1. k.c2s \in Seq(Methods)
      BY <1>1 DEF Connection
    <3> QED BY <1>2, <3>1, AppendProperties, LenProperties, LinkAssumption
  <2>2. /\ sent \in Connection /\ sent.client = "open" /\ sent.server = k.server
        /\ sent.s2c = k.s2c /\ sent.c2s = Append(k.c2s, msg) /\ sent.rst = k.rst
    BY <1>1, <2>1 DEF Connection
  <2> HIDE DEF sent, k
  <2>3. Len(sent.c2s) <= TcpBuf /\ Len(sent.s2c) <= TcpBuf
    BY <1>1, <2>1, <2>2
  <2> QED BY <1>1, <1>2, <2>2, <2>3, SetOk DEF k
<1>3. CASE (k.server # "open" \/ k.rst) /\ Set(cslot, reset)
  <2>1. /\ reset \in Connection /\ reset.client = "open" /\ reset.server = k.server
        /\ reset.s2c = k.s2c /\ reset.c2s = k.c2s
    BY <1>1 DEF Connection
  <2> HIDE DEF reset, k
  <2>2. Len(reset.c2s) <= TcpBuf /\ Len(reset.s2c) <= TcpBuf
    BY <1>1, <2>1
  <2> QED BY <1>1, <1>3, <2>1, <2>2, SetOk DEF k
<1> QED BY <1>2, <1>3 DEF ClientSend

\* So it leaves both ends' view of the connections alone.
LEMMA ClientSendKeeps ==
    ASSUME Inv, cpc \notin {"none", "connect"}, NEW msg \in Methods, ClientSend(msg),
           UNCHANGED <<cslot, serverVars>>
    PROVE  /\ \A s \in Slots : conn'[s].client = "open" <=> s = cslot'
           /\ ServerOk' /\ ConnOk'
           /\ Unread' = Unread
<1>1. /\ cslot \in Slots
      /\ \A t \in Slots : t # cslot => conn'[t] = conn[t]
      /\ conn'[cslot].client = "open" /\ conn[cslot].client = "open"
      /\ conn'[cslot].server = conn[cslot].server
      /\ conn'[cslot].s2c = conn[cslot].s2c
      /\ conn[cslot].server = "open" => ~conn'[cslot].rst
  BY OwnConn, ClientSendOk
<1>2. ServerOk'
  BY <1>1 DEF Inv, ServerOk, serverVars
<1>3. ConnOk'
  BY <1>1 DEF Inv, ConnOk
<1>4. Unread' = Unread
  BY <1>1 DEF Unread, serverVars
<1>5. \A s \in Slots : conn'[s].client = "open" <=> s = cslot'
  BY <1>1 DEF Inv, ClientOk
<1> QED BY <1>2, <1>3, <1>4, <1>5

(***************************************************************************)
(* Steps of the subscriber.                                                *)
(***************************************************************************)
\* Discovery starts a client when none runs.
LEMMA DiscoverKeeps ==
    ASSUME Inv, DiscoverPeer
    PROVE  Inv'
<1>1. /\ ~s_running /\ s_running' = TRUE /\ cpc' = "connect" /\ step' = 1
      /\ UNCHANGED <<cslot, serverVars, conn, counters, txn>>
  BY DEF DiscoverPeer, LinkOnPeer, ClientConnect
<1>2. cslot = NoSlot
  BY <1>1 DEF Inv, ClientOk
<1>3. TypeOK'
  BY <1>1 DEF Inv, TypeOK, serverVars, counters
<1>4. ClientOk'
  BY <1>1, <1>2 DEF Inv, ClientOk
<1>5. ServerOk' /\ ConnOk'
  BY <1>1 DEF Inv, ServerOk, ConnOk, serverVars
<1>6. HandshakeOk'
  BY <1>1, <1>2 DEF HandshakeOk
<1> QED BY <1>3, <1>4, <1>5, <1>6 DEF Inv

\* A new connection is open at both ends, and last in the backlog.
LEMMA ConnectKeeps ==
    ASSUME Inv, ConnectOk
    PROVE  Inv'
<1> PICK s \in Slots : /\ conn[s] = Free
                       /\ Set(s, Fresh)
                       /\ cslot' = s
                       /\ backlog' = Append(backlog, s)
  BY DEF ConnectOk
<1>1. /\ cpc = "connect" /\ cpc' = "send"
      /\ Len(backlog) < Backlog
      /\ UNCHANGED <<s_running, step, srv, sslot, out, s_streaming, s_dest, counters, txn>>
      /\ TypeOK /\ ClientOk /\ ServerOk /\ ConnOk
  BY DEF Inv, ConnectOk
<1>2. Len(Fresh.c2s) <= TcpBuf /\ Len(Fresh.s2c) <= TcpBuf
  BY FreshOk, EmptySeq, LinkAssumption
<1>3. /\ conn' \in [Slots -> Connection]
      /\ \A t \in Slots : Len(conn'[t].c2s) <= TcpBuf /\ Len(conn'[t].s2c) <= TcpBuf
      /\ conn'[s] = Fresh
      /\ \A t \in Slots : t # s => conn'[t] = conn[t]
  BY <1>1, <1>2, FreshOk, SetOk
<1>4. /\ backlog' \in Seq(Slots) /\ Len(backlog') = Len(backlog) + 1
      /\ \A i \in 1 .. Len(backlog) : backlog'[i] = backlog[i]
      /\ backlog'[Len(backlog) + 1] = s
      /\ Len(backlog) \in Nat
  BY <1>1, AppendProperties, LenProperties DEF TypeOK
<1>5. s # sslot /\ \A i \in 1 .. Len(backlog) : backlog[i] # s
  BY <1>1, FreshOk DEF ServerOk
<1>6. TypeOK'
  BY <1>1, <1>3, <1>4, LinkAssumption DEF TypeOK, counters
<1>7. ClientOk'
  BY <1>1, <1>3, FreshOk, LinkAssumption DEF ClientOk
<1>8. ServerOk'
  <2>1. \A t \in Slots : conn'[t].server = "open" <=>
           t = sslot' \/ \E i \in 1 .. Len(backlog') : backlog'[i] = t
    BY <1>1, <1>3, <1>4, FreshOk DEF ServerOk
  <2>2. /\ \A i, j \in 1 .. Len(backlog') : backlog'[i] = backlog'[j] => i = j
        /\ \A i \in 1 .. Len(backlog') : backlog'[i] # sslot'
    BY <1>1, <1>4, <1>5 DEF ServerOk
  <2> QED BY <1>1, <2>1, <2>2 DEF ServerOk
<1>9. ConnOk'
  BY <1>1, <1>3, FreshOk DEF ConnOk
<1>10. HandshakeOk'
  <2>1. Unread' = << >>
    <3>1. << >> \o << >> = << >>
      BY EmptySeq, ConcatEmptySeq
    <3> QED BY <1>1, <1>3, <1>5, <3>1, FreshOk DEF Unread
  <2> QED BY <1>1, <1>3, <2>1, FreshOk DEF HandshakeOk, Before, ClientOk
<1> QED BY <1>6, <1>7, <1>8, <1>9, <1>10 DEF Inv

\* connect fails before there is a connection.
LEMMA ConnectFailsKeeps ==
    ASSUME Inv, ConnectFails
    PROVE  Inv'
<1>1. /\ cpc = "connect" /\ cpc' = "none" /\ s_running' = FALSE
      /\ UNCHANGED <<step, cslot, serverVars, conn, counters, txn>>
  BY DEF ConnectFails
<1>2. cslot = NoSlot
  BY <1>1 DEF Inv, ClientOk
<1>3. TypeOK'
  BY <1>1 DEF Inv, TypeOK, serverVars, counters
<1>4. ClientOk'
  BY <1>1, <1>2 DEF Inv, ClientOk
<1>5. ServerOk' /\ ConnOk'
  BY <1>1 DEF Inv, ServerOk, ConnOk, serverVars
<1>6. HandshakeOk'
  BY <1>1, <1>2 DEF HandshakeOk
<1> QED BY <1>3, <1>4, <1>5, <1>6 DEF Inv

\* The request of a step goes out alone.
LEMMA SendKeeps ==
    ASSUME Inv, SendRequest
    PROVE  Inv'
<1>1. /\ cpc = "send" /\ cpc' = "recv"
      /\ ClientSend(Handshake[step])
      /\ UNCHANGED <<s_running, step, cslot, serverVars, counters, txn>>
      /\ TypeOK /\ ClientOk /\ HandshakeOk
  BY DEF Inv, SendRequest
<1>2. Handshake[step] \in Methods /\ cpc \notin {"none", "connect"}
  BY <1>1, MethodsOk DEF TypeOK
<1>3. /\ conn' \in [Slots -> Connection]
      /\ \A t \in Slots : Len(conn'[t].c2s) <= TcpBuf /\ Len(conn'[t].s2c) <= TcpBuf
      /\ conn'[cslot].server = conn[cslot].server
      /\ conn[cslot].server = "open" =>
            conn'[cslot].c2s = Append(conn[cslot].c2s, Handshake[step])
  BY <1>1, <1>2, ClientSendOk
<1>4. /\ \A s \in Slots : conn'[s].client = "open" <=> s = cslot'
      /\ ServerOk' /\ ConnOk' /\ Unread' = Unread
  BY <1>1, <1>2, ClientSendKeeps
<1>5. TypeOK'
  BY <1>1, <1>3 DEF TypeOK, serverVars, counters
<1>6. ClientOk'
  BY <1>1, <1>4 DEF ClientOk
<1>7. HandshakeOk'
  <2>1. Append(<< >>, Handshake[step]) = <<Handshake[step]>>
    OBVIOUS
  <2> QED BY <1>1, <1>3, <1>4, <2>1 DEF HandshakeOk, serverVars
<1> QED BY <1>4, <1>5, <1>6, <1>7 DEF Inv

\* Keepalives leave the stream alone.
LEMMA KeepaliveKeeps ==
    ASSUME Inv, cpc \in {"stream", "blocked"}, cpc' \in {"stream", "blocked"},
           ClientSend("OPTIONS"),
           timeouts' \in 0 .. MaxTimeouts,
           UNCHANGED <<s_running, step, cslot, serverVars, reboots, txn>>
    PROVE  Inv'
<1>1. cpc \notin {"none", "connect"} /\ TypeOK /\ ClientOk /\ HandshakeOk
  BY DEF Inv
<1>2. /\ conn' \in [Slots -> Connection]
      /\ \A t \in Slots : Len(conn'[t].c2s) <= TcpBuf /\ Len(conn'[t].s2c) <= TcpBuf
      /\ conn'[cslot].server = conn[cslot].server
  BY <1>1, MethodsOk, ClientSendOk
<1>3. /\ \A s \in Slots : conn'[s].client = "open" <=> s = cslot'
      /\ ServerOk' /\ ConnOk'
  BY <1>1, MethodsOk, ClientSendKeeps
<1>4. TypeOK'
  BY <1>1, <1>2 DEF TypeOK, serverVars
<1>5. ClientOk'
  BY <1>1, <1>3 DEF ClientOk
<1>6. HandshakeOk'
  BY <1>1, <1>2 DEF HandshakeOk, serverVars
<1> QED BY <1>3, <1>4, <1>5, <1>6 DEF Inv

\* A second without a packet.
LEMMA TimeoutKeeps ==
    ASSUME Inv, Timeout
    PROVE  Inv'
<1>1. /\ cpc = "stream"
      /\ timeouts' = timeouts + 1 /\ timeouts < MaxTimeouts
      /\ UNCHANGED <<s_running, step, cslot, serverVars, reboots, txn>>
      /\ TypeOK
  BY DEF Inv, Timeout
<1>2. timeouts' \in 0 .. MaxTimeouts
  BY <1>1, LinkAssumption DEF TypeOK
<1>3. CASE ClientSend("OPTIONS") /\ cpc' = cpc
  BY <1>1, <1>2, <1>3, KeepaliveKeeps
<1>4. CASE cpc' = "blocked" /\ conn' = conn
  <2>1. TypeOK'
    BY <1>1, <1>2, <1>4 DEF TypeOK, serverVars
  <2>2. ClientOk' /\ ServerOk' /\ ConnOk'
    BY <1>1, <1>4 DEF Inv, ClientOk, ServerOk, ConnOk, serverVars
  <2>3. HandshakeOk'
    BY <1>1, <1>4 DEF Inv, HandshakeOk, serverVars
  <2> QED BY <2>1, <2>2, <2>3 DEF Inv
<1> QED BY <1>3, <1>4 DEF Timeout

\* A blocked keepalive goes out, or finds the publisher gone.
LEMMA UnblockKeeps ==
    ASSUME Inv, Unblock
    PROVE  Inv'
<1>1. /\ cpc = "blocked" /\ cpc' = "stream" /\ ClientSend("OPTIONS")
      /\ UNCHANGED <<s_running, step, cslot, serverVars, counters, txn>>
      /\ timeouts \in 0 .. MaxTimeouts
  BY DEF Inv, TypeOK, Unblock
<1> QED BY <1>1, KeepaliveKeeps DEF counters

\* The connection as recv leaves it: only bytes of the reply stream are gone.
Received(k) ==
    /\ k \in Connection
    /\ k.client = "open" /\ k.server = conn[cslot].server /\ k.rst = conn[cslot].rst
    /\ k.c2s = conn[cslot].c2s
    /\ Len(k.s2c) <= Len(conn[cslot].s2c)

\* Whatever the next transaction finds, the rest of the invariant stands.
LEMMA ProceedKeeps ==
    ASSUME Inv, cpc = "recv", NEW k, Received(k), Proceed, Set(cslot, k), HandshakeOk',
           UNCHANGED <<serverVars, counters>>,
           txn' \in [req : Methods \cup {"none"}, reply : Replies \cup {"none"}]
    PROVE  Inv'
<1>1. /\ cslot \in Slots /\ conn[cslot].client = "open"
      /\ conn[cslot].server = "open" => ~conn[cslot].rst
      /\ TypeOK /\ ClientOk
  BY OwnConn DEF Inv
<1>2. Len(k.c2s) <= TcpBuf /\ Len(k.s2c) <= TcpBuf
  <2>1. /\ Len(conn[cslot].c2s) <= TcpBuf /\ Len(conn[cslot].s2c) <= TcpBuf
        /\ conn[cslot].s2c \in Seq(Replies) /\ k.s2c \in Seq(Replies)
    BY <1>1 DEF TypeOK, Received, Connection
  <2> QED BY <2>1, LenProperties, LinkAssumption DEF Received
<1>3. /\ conn' \in [Slots -> Connection]
      /\ \A t \in Slots : Len(conn'[t].c2s) <= TcpBuf /\ Len(conn'[t].s2c) <= TcpBuf
      /\ conn'[cslot] = k
      /\ \A t \in Slots : t # cslot => conn'[t] = conn[t]
  BY <1>1, <1>2, SetOk DEF Received
<1>4. /\ step' \in 1 .. 4 /\ cpc' \in {"send", "stream"}
      /\ UNCHANGED <<s_running, cslot>>
  BY <1>1 DEF TypeOK, Proceed
<1>5. TypeOK'
  BY <1>1, <1>3, <1>4 DEF TypeOK, serverVars, counters
<1>6. ClientOk'
  BY <1>1, <1>3, <1>4 DEF ClientOk, Received
<1>7. ServerOk'
  BY <1>1, <1>3 DEF Inv, ServerOk, Received, serverVars
<1>8. ConnOk'
  BY <1>1, <1>3 DEF Inv, ConnOk, Received
<1> QED BY <1>5, <1>6, <1>7, <1>8 DEF Inv

\* After a failed SETUP the client closes its connection.
LEMMA GiveUpKeeps ==
    ASSUME Inv, cpc = "recv", NEW k, Received(k), GiveUp,
           Set(cslot, [k EXCEPT !.client = "closed"]),
           UNCHANGED <<serverVars, counters>>,
           txn' \in [req : Methods \cup {"none"}, reply : Replies \cup {"none"}]
    PROVE  Inv'
<1> DEFINE c == [k EXCEPT !.client = "closed"]
<1>1. /\ cslot \in Slots /\ conn[cslot].client = "open"
      /\ TypeOK /\ ClientOk
  BY OwnConn DEF Inv
<1>2. /\ c \in Connection /\ c.client = "closed" /\ c.server = conn[cslot].server
      /\ c.c2s = k.c2s /\ c.s2c = k.s2c
  BY DEF Received, Connection
<1>3. Len(c.c2s) <= TcpBuf /\ Len(c.s2c) <= TcpBuf
  <2>1. /\ Len(conn[cslot].c2s) <= TcpBuf /\ Len(conn[cslot].s2c) <= TcpBuf
        /\ conn[cslot].s2c \in Seq(Replies) /\ k.s2c \in Seq(Replies)
    BY <1>1 DEF TypeOK, Received, Connection
  <2> QED BY <1>2, <2>1, LenProperties, LinkAssumption DEF Received
<1> HIDE DEF c
<1>4. Set(cslot, c)
  BY DEF c
<1>5. /\ conn' \in [Slots -> Connection]
      /\ \A t \in Slots : Len(conn'[t].c2s) <= TcpBuf /\ Len(conn'[t].s2c) <= TcpBuf
      /\ conn'[cslot] = (IF conn[cslot].server = "open" THEN c ELSE Free)
      /\ \A t \in Slots : t # cslot => conn'[t] = conn[t]
  <2>1. CASE conn[cslot].server = "open"
    BY <1>1, <1>2, <1>3, <1>4, <2>1, SetOk
  <2>2. CASE conn[cslot].server # "open"
    BY <1>1, <1>2, <1>4, <2>2, SetFreeOk
  <2> QED BY <2>1, <2>2
<1>6. conn'[cslot].client # "open"
  BY <1>2, <1>5, FreshOk
<1>7. TypeOK'
  BY <1>1, <1>5 DEF TypeOK, GiveUp, serverVars, counters
<1>8. ClientOk'
  BY <1>1, <1>5, <1>6, LinkAssumption DEF ClientOk, GiveUp
<1>9. ServerOk'
  BY <1>1, <1>2, <1>5, FreshOk DEF Inv, ServerOk, serverVars
<1>10. ConnOk'
  BY <1>1, <1>2, <1>5 DEF Inv, ConnOk
<1>11. HandshakeOk'
  BY DEF HandshakeOk, GiveUp
<1> QED BY <1>7, <1>8, <1>9, <1>10, <1>11 DEF Inv

\* A reply the client goes on from is its own step's, so the step was handled.
LEMMA ReceiveKeeps ==
    ASSUME Inv, ReceiveResponse
    PROVE  Inv'
<1> PICK got \in Prefixes(conn[cslot].s2c) : RecvResponse(got)
  BY DEF ReceiveResponse
<1> DEFINE k == [conn[cslot] EXCEPT !.s2c = Rest(conn[cslot].s2c, got)]
           own == IF sslot = cslot THEN out ELSE << >>
<1>1. /\ cpc = "recv" /\ TypeOK /\ HandshakeOk /\ step \in 1 .. 4
      /\ UNCHANGED <<serverVars, counters>>
  BY DEF Inv, TypeOK, ReceiveResponse, RecvResponse
<1>2. cslot \in Slots /\ conn[cslot] \in Connection /\ conn[cslot].client = "open"
  BY <1>1, OwnConn
<1>3. conn[cslot].s2c \in Seq(Replies) /\ own \in Seq(Replies)
  BY <1>1, <1>2, OutOk, EmptySeq DEF Connection
<1>4. /\ got[1] \in Replies
      /\ Rest(conn[cslot].s2c, got) \in Seq(Replies)
      /\ Len(Rest(conn[cslot].s2c, got)) <= Len(conn[cslot].s2c)
  BY <1>3, PrefixOk
<1>5. Received(k) /\ k.s2c = Rest(conn[cslot].s2c, got)
  BY <1>2, <1>4 DEF Received, Connection
<1>6. /\ AfterTxn(IsOk(got[1]), k)
      /\ txn' = [req |-> Handshake[step], reply |-> got[1]]
  BY DEF RecvResponse
<1>7. txn' \in [req : Methods \cup {"none"}, reply : Replies \cup {"none"}]
  BY <1>1, <1>4, <1>6, MethodsOk
<1>8. /\ Unread = conn[cslot].s2c \o own
      /\ Len(got) \in 1 .. Len(Unread)
      /\ Unread[1] = got[1]
      /\ Rest(conn[cslot].s2c, got) \o own = SubSeq(Unread, Len(got) + 1, Len(Unread))
  <2> DEFINE s == conn[cslot].s2c
  <2>1. Unread = s \o own
    BY DEF Unread
  <2>2. s \in Seq(Replies) /\ got \in Prefixes(s)
    BY <1>3
  <2> HIDE DEF own, s
  <2>3. /\ Len(got) \in 1 .. Len(s \o own)
        /\ (s \o own)[1] = got[1]
        /\ Rest(s, got) \o own = SubSeq(s \o own, Len(got) + 1, Len(s \o own))
    BY <1>3, <2>2, RestOfBoth
  <2> QED BY <2>1, <2>3 DEF s
<1> HIDE DEF k
<1>9. CASE /\ Handshake[step] # "SETUP" \/ IsOk(got[1])
           /\ Proceed /\ Set(cslot, k)
  <2>1. conn'[cslot] = k
    <3>1. conn' = [conn EXCEPT ![cslot] = Tidy(k)]
      BY <1>9 DEF Set
    <3> QED BY <1>1, <1>2, <1>5, <3>1 DEF Tidy, Received, TypeOK
  <2>2. step = 3 => IsOk(got[1])
    BY <1>9, HandshakeIs
  <2>3. /\ step' = (IF step < 4 THEN step + 1 ELSE step)
        /\ cpc' = (IF step < 4 THEN "send" ELSE "stream")
        /\ cslot' = cslot
    BY <1>9 DEF Proceed
  <2>4. ASSUME conn[cslot].server = "open"
        PROVE  /\ conn[cslot].c2s = << >>
               /\ After(step, Unread)
               /\ sslot = cslot
               /\ step = 3 => s_dest
               /\ step = 4 => s_streaming /\ s_dest
    <3>1. cslot # NoSlot
      BY <1>2, LinkAssumption
    <3>2. ~Before(step, Unread)
      BY <1>8, <2>2, BeforeOk
    <3> QED BY <1>1, <2>4, <3>1, <3>2 DEF HandshakeOk
  <2>5. Unread' = SubSeq(Unread, Len(got) + 1, Len(Unread))
    BY <1>1, <1>5, <1>8, <2>1, <2>3 DEF Unread, serverVars
  <2>6. conn[cslot].server = "open" => Before(step + 1, Unread')
    BY <1>1, <1>8, <2>2, <2>4, <2>5, LeftOver
  <2>7. conn'[cslot].c2s = conn[cslot].c2s /\ conn'[cslot].server = conn[cslot].server
    BY <1>5, <2>1 DEF Received
  <2>8. HandshakeOk'
    BY <1>1, <2>3, <2>4, <2>6, <2>7 DEF HandshakeOk, serverVars
  <2> QED BY <1>1, <1>5, <1>7, <1>9, <2>8, ProceedKeeps
<1>10. CASE GiveUp /\ Set(cslot, [k EXCEPT !.client = "closed"])
  BY <1>1, <1>5, <1>7, <1>10, GiveUpKeeps
<1> QED BY <1>6, <1>9, <1>10 DEF AfterTxn

\* A reset connection has no living publisher.
LEMMA RecvFailsKeeps ==
    ASSUME Inv, RecvFails
    PROVE  Inv'
<1> DEFINE k == conn[cslot]
<1>1. /\ cpc = "recv" /\ k.rst /\ AfterTxn(FALSE, k)
      /\ UNCHANGED <<serverVars, counters, txn>>
      /\ TypeOK
  BY DEF Inv, RecvFails
<1>0. txn' \in [req : Methods \cup {"none"}, reply : Replies \cup {"none"}]
  BY <1>1 DEF TypeOK
<1>2. /\ cslot \in Slots /\ k \in Connection /\ k.client = "open" /\ k.server # "open"
  BY <1>1, OwnConn
<1>3. Received(k)
  <2>1. k.s2c \in Seq(Replies)
    BY <1>2 DEF Connection
  <2>2. Len(k.s2c) \in Nat
    BY <2>1, LenProperties
  <2> QED BY <1>2, <2>2 DEF Received
<1>4. CASE Proceed /\ Set(cslot, k)
  <2>1. conn'[cslot] = k
    <3>1. conn' = [conn EXCEPT ![cslot] = Tidy(k)]
      BY <1>4 DEF Set
    <3> QED BY <1>1, <1>2, <3>1 DEF Tidy, TypeOK
  <2>2. HandshakeOk'
    BY <1>2, <1>4, <2>1 DEF HandshakeOk, Proceed
  <2> QED BY <1>0, <1>1, <1>3, <1>4, <2>2, ProceedKeeps
<1>5. CASE GiveUp /\ Set(cslot, [k EXCEPT !.client = "closed"])
  BY <1>0, <1>1, <1>3, <1>5, GiveUpKeeps
<1> QED BY <1>1, <1>4, <1>5 DEF AfterTxn

(***************************************************************************)
(* Steps of the publisher.                                                 *)
(***************************************************************************)
\* accept takes the oldest connection; its client has not gone past OPTIONS.
LEMMA AcceptKeeps ==
    ASSUME Inv, Accept
    PROVE  Inv'
<1>1. /\ srv = "accept" /\ srv' = "recv" /\ backlog # << >>
      /\ sslot' = Head(backlog) /\ backlog' = Tail(backlog)
      /\ UNCHANGED <<clientVars, out, s_streaming, s_dest, conn, counters, txn>>
      /\ TypeOK /\ ServerOk /\ HandshakeOk
  BY DEF Inv, Accept
<1>2. /\ sslot' = backlog[1] /\ sslot' \in Slots
      /\ backlog' \in Seq(Slots) /\ Len(backlog') = Len(backlog) - 1
      /\ \A i \in 1 .. Len(backlog') : backlog'[i] = backlog[i + 1]
      /\ Len(backlog) \in Nat \ {0}
  BY <1>1, HeadTailProperties, EmptySeq DEF TypeOK
<1>3. TypeOK'
  BY <1>1, <1>2, LinkAssumption DEF TypeOK, clientVars, counters
<1>4. ClientOk' /\ ConnOk'
  BY <1>1 DEF Inv, ClientOk, ConnOk, clientVars
<1>5. ServerOk'
  <2>1. \A s \in Slots : (\E i \in 1 .. Len(backlog) : backlog[i] = s) <=>
           s = sslot' \/ \E i \in 1 .. Len(backlog') : backlog'[i] = s
    <3> SUFFICES ASSUME NEW s \in Slots
                 PROVE  (\E i \in 1 .. Len(backlog) : backlog[i] = s) <=>
                           s = sslot' \/ \E i \in 1 .. Len(backlog') : backlog'[i] = s
      OBVIOUS
    <3>1. ASSUME NEW i \in 1 .. Len(backlog), backlog[i] = s, i # 1
          PROVE  i - 1 \in 1 .. Len(backlog') /\ backlog'[i - 1] = s
      BY <1>2, <3>1
    <3>2. ASSUME NEW i \in 1 .. Len(backlog'), backlog'[i] = s
          PROVE  i + 1 \in 1 .. Len(backlog) /\ backlog[i + 1] = s
      BY <1>2, <3>2
    <3>3. 1 \in 1 .. Len(backlog)
      BY <1>2
    <3> QED BY <1>2, <3>1, <3>2, <3>3
  <2>2. \A i, j \in 1 .. Len(backlog') : backlog'[i] = backlog'[j] => i = j
    BY <1>1, <1>2 DEF ServerOk
  <2>3. \A i \in 1 .. Len(backlog') : backlog'[i] # sslot'
    BY <1>1, <1>2 DEF ServerOk
  <2>4. sslot = NoSlot /\ sslot' # NoSlot /\ out = << >>
    BY <1>1, <1>2, LinkAssumption DEF ServerOk
  <2> QED BY <1>1, <2>1, <2>2, <2>3, <2>4, LinkAssumption DEF ServerOk
<1>6. HandshakeOk'
  <2>1. sslot = NoSlot /\ out = << >> /\ out' = << >>
    BY <1>1 DEF ServerOk
  <2>2. Unread' = Unread
    BY <1>1, <2>1 DEF Unread, clientVars
  <2>3. cslot # NoSlot => sslot # cslot
    BY <2>1
  <2> QED BY <1>1, <2>2, <2>3 DEF HandshakeOk, clientVars, TypeOK
<1> QED BY <1>3, <1>4, <1>5, <1>6 DEF Inv

\* The connection rtsp_srv serves is open at its end.
LEMMA ServedConn ==
    ASSUME Inv, srv # "accept"
    PROVE  /\ sslot \in Slots
           /\ conn[sslot] \in Connection
           /\ conn[sslot].server = "open"
           /\ conn[sslot].rst => conn[sslot].client # "open"
           /\ Len(conn[sslot].c2s) <= TcpBuf /\ Len(conn[sslot].s2c) <= TcpBuf
<1>1. sslot \in Slots
  BY DEF Inv, TypeOK, ServerOk
<1> QED BY <1>1, FreshOk DEF Inv, TypeOK, ServerOk, ConnOk

\* An update of that connection which leaves its ends alone.
LEMMA ServerSetKeeps ==
    ASSUME Inv, srv # "accept", NEW k \in Connection, Set(sslot, k),
           Len(k.c2s) <= TcpBuf, Len(k.s2c) <= TcpBuf,
           k.client = conn[sslot].client, k.server = "open",
           k.rst => k.client # "open",
           srv' \in {"recv", "send"}, out' = << >> <=> srv' # "send",
           out' \in {<< >>, <<"SDP">>} \cup {Answer[m] : m \in Methods},
           s_streaming' \in BOOLEAN, s_dest' \in BOOLEAN,
           UNCHANGED <<clientVars, sslot, backlog, counters, txn>>
    PROVE  /\ TypeOK' /\ ClientOk' /\ ServerOk' /\ ConnOk'
           /\ conn'[sslot] = k
           /\ \A t \in Slots : t # sslot => conn'[t] = conn[t]
<1>1. TypeOK /\ ServerOk /\ sslot \in Slots /\ conn[sslot].server = "open"
  BY ServedConn DEF Inv
<1>2. /\ conn' \in [Slots -> Connection]
      /\ \A t \in Slots : Len(conn'[t].c2s) <= TcpBuf /\ Len(conn'[t].s2c) <= TcpBuf
      /\ conn'[sslot] = k
      /\ \A t \in Slots : t # sslot => conn'[t] = conn[t]
  BY <1>1, SetOk
<1>3. TypeOK'
  BY <1>1, <1>2 DEF TypeOK, clientVars, counters
<1>4. ClientOk'
  BY <1>1, <1>2 DEF Inv, ClientOk, clientVars
<1>5. ServerOk'
  <2>1. \A t \in Slots : conn'[t].server = "open" <=> conn[t].server = "open"
    BY <1>1, <1>2
  <2>2. sslot # NoSlot
    BY <1>1, LinkAssumption
  <2> QED BY <1>1, <2>1, <2>2 DEF ServerOk
<1>6. ConnOk'
  BY <1>1, <1>2 DEF Inv, ConnOk
<1> QED BY <1>2, <1>3, <1>4, <1>5, <1>6

\* Handling the request of the client's step completes the replies it awaits.
LEMMA HandleKeeps ==
    ASSUME Inv, HandleRequest
    PROVE  Inv'
<1> PICK got \in Prefixes(conn[sslot].c2s) :
           /\ Handles(got[1])
           /\ out' = Answer[got[1]]
           /\ Set(sslot, [conn[sslot] EXCEPT !.c2s = Rest(conn[sslot].c2s, got)])
  BY DEF HandleRequest
<1> DEFINE k == [conn[sslot] EXCEPT !.c2s = Rest(conn[sslot].c2s, got)]
<1>1. /\ srv = "recv" /\ srv' = "send"
      /\ UNCHANGED <<clientVars, sslot, backlog, counters, txn>>
      /\ TypeOK /\ ServerOk /\ HandshakeOk
  BY DEF Inv, HandleRequest
<1>2. /\ sslot \in Slots /\ conn[sslot] \in Connection /\ conn[sslot].server = "open"
      /\ conn[sslot].rst => conn[sslot].client # "open"
      /\ Len(conn[sslot].c2s) <= TcpBuf /\ Len(conn[sslot].s2c) <= TcpBuf
  BY <1>1, ServedConn
<1>3. conn[sslot].c2s \in Seq(Methods) /\ conn[sslot].s2c \in Seq(Replies)
  BY <1>2 DEF Connection
<1>4. /\ got[1] \in Methods /\ got[1] = conn[sslot].c2s[1]
      /\ conn[sslot].c2s # << >>
      /\ Len(got) \in 1 .. Len(conn[sslot].c2s)
      /\ Rest(conn[sslot].c2s, got) = SubSeq(conn[sslot].c2s, Len(got) + 1, Len(conn[sslot].c2s))
      /\ Rest(conn[sslot].c2s, got) \in Seq(Methods)
      /\ Len(Rest(conn[sslot].c2s, got)) <= TcpBuf
  <2>1. /\ Len(Rest(conn[sslot].c2s, got)) <= Len(conn[sslot].c2s)
        /\ Rest(conn[sslot].c2s, got) \in Seq(Methods)
    BY <1>3, PrefixOk
  <2>2. Len(Rest(conn[sslot].c2s, got)) <= TcpBuf
    BY <1>2, <1>3, <2>1, LenProperties, LinkAssumption
  <2> QED BY <1>3, <2>1, <2>2, PrefixOk
<1>5. /\ k \in Connection /\ k.client = conn[sslot].client /\ k.server = "open"
      /\ k.rst = conn[sslot].rst /\ k.s2c = conn[sslot].s2c
      /\ k.c2s = Rest(conn[sslot].c2s, got)
  BY <1>2, <1>4 DEF Connection
<1> HIDE DEF k
<1>6. /\ s_dest' = (s_dest \/ got[1] = "SETUP")
      /\ s_streaming' = (s_streaming \/ got[1] = "PLAY")
  BY DEF Handles
<1>7. out' # << >> /\ out' \in {Answer[m] : m \in Methods} /\ out = << >>
  BY <1>1, <1>4, MethodsOk DEF ServerOk
<1>8. /\ TypeOK' /\ ClientOk' /\ ServerOk' /\ ConnOk'
      /\ conn'[sslot] = k
      /\ \A t \in Slots : t # sslot => conn'[t] = conn[t]
  <2>1. Len(k.c2s) <= TcpBuf /\ Len(k.s2c) <= TcpBuf /\ (k.rst => k.client # "open")
    BY <1>2, <1>4, <1>5
  <2>2. s_dest' \in BOOLEAN /\ s_streaming' \in BOOLEAN
    BY <1>6
  <2>3. Set(sslot, k)
    BY DEF k
  <2> QED BY <1>1, <1>5, <1>7, <2>1, <2>2, <2>3, ServerSetKeeps
<1>9. HandshakeOk'
  <2> SUFFICES ASSUME cslot # NoSlot, conn'[cslot].server = "open" PROVE HandshakeOk'
    BY <1>1 DEF HandshakeOk, clientVars
  <2>0. cslot \in Slots /\ step \in 1 .. 4
    BY <1>1 DEF TypeOK
  <2>1. CASE cslot # sslot
    <3>1. conn'[cslot] = conn[cslot] /\ Unread' = Unread
      BY <1>1, <1>8, <2>0, <2>1 DEF Unread, clientVars
    <3>2. s_dest => s_dest'
      BY <1>6
    <3> QED BY <1>1, <2>0, <2>1, <3>1, <3>2 DEF HandshakeOk, clientVars
  <2>2. CASE cslot = sslot
    <3>1. /\ Unread = conn[cslot].s2c /\ Unread' = conn[cslot].s2c \o Answer[got[1]]
          /\ conn'[cslot].c2s = Rest(conn[sslot].c2s, got)
      <4>1. conn[cslot].s2c \o << >> = conn[cslot].s2c
        BY <1>3, <2>2, ConcatEmptySeq
      <4> QED BY <1>1, <1>5, <1>7, <1>8, <2>2, <4>1 DEF Unread, clientVars
    <3>2. cpc # "send"
      BY <1>1, <1>2, <1>4, <2>2 DEF HandshakeOk
    <3>3. ASSUME cpc = "recv"
          PROVE  /\ got[1] = Handshake[step]
                 /\ conn'[cslot].c2s = << >> /\ After(step, Unread')
      <4>1. conn[cslot].c2s = <<Handshake[step]>> /\ Before(step, Unread)
        BY <1>1, <1>2, <1>4, <2>2, <3>3 DEF HandshakeOk
      <4>2. <<Handshake[step]>>[1] = Handshake[step] /\ Len(<<Handshake[step]>>) = 1
        OBVIOUS
      <4>3. got[1] = Handshake[step]
        BY <1>4, <2>2, <4>1, <4>2
      <4>4. Rest(conn[sslot].c2s, got) = << >>
        BY <1>4, <2>2, <4>1, <4>2, SubSeqEmpty
      <4> QED BY <2>0, <3>1, <4>1, <4>3, <4>4, AnswerCompletes
    <3> QED BY <1>1, <1>2, <1>6, <2>2, <3>2, <3>3, HandshakeIs DEF HandshakeOk, clientVars
  <2> QED BY <2>1, <2>2
<1> QED BY <1>8, <1>9 DEF Inv

\* A send takes the next reply from the server to the stream.
LEMMA AnswerKeeps ==
    ASSUME Inv, SendAnswer
    PROVE  Inv'
<1> DEFINE k == conn[sslot]
           sent == [k EXCEPT !.s2c = Append(k.s2c, Head(out))]
           reset == [k EXCEPT !.rst = TRUE]
<1>1. /\ srv = "send"
      /\ out' = Tail(out)
      /\ srv' = IF Len(out) = 1 THEN "recv" ELSE "send"
      /\ UNCHANGED <<clientVars, sslot, backlog, s_streaming, s_dest, counters, txn>>
      /\ TypeOK /\ ServerOk /\ HandshakeOk
  BY DEF Inv, SendAnswer
<1>2. /\ sslot \in Slots /\ k \in Connection /\ k.server = "open"
      /\ k.rst => k.client # "open"
      /\ Len(k.c2s) <= TcpBuf /\ Len(k.s2c) <= TcpBuf
      /\ k.s2c \in Seq(Replies)
  BY <1>1, ServedConn DEF Connection
<1>3. /\ out \in Seq(Replies) /\ out # << >> /\ Head(out) \in Replies
      /\ out' \in {<< >>, <<"SDP">>}
      /\ out' = << >> <=> srv' # "send"
  BY <1>1, OutOk DEF ServerOk
<1>4. s_streaming' \in BOOLEAN /\ s_dest' \in BOOLEAN
  BY <1>1 DEF TypeOK
<1>5. CASE k.client = "open" /\ Len(k.s2c) < TcpBuf /\ Set(sslot, sent)
  <2>1. /\ Append(k.s2c, Head(out)) \in Seq(Replies)
        /\ Len(Append(k.s2c, Head(out))) <= TcpBuf
    BY <1>2, <1>3, <1>5, AppendProperties, LenProperties, LinkAssumption
  <2>2. /\ sent \in Connection /\ sent.client = k.client /\ sent.server = "open"
        /\ sent.rst = k.rst /\ sent.c2s = k.c2s /\ sent.s2c = Append(k.s2c, Head(out))
    BY <1>2, <2>1 DEF Connection
  <2> HIDE DEF sent
  <2>3. /\ TypeOK' /\ ClientOk' /\ ServerOk' /\ ConnOk'
        /\ conn'[sslot] = sent
    BY <1>1, <1>2, <1>3, <1>4, <1>5, <2>1, <2>2, ServerSetKeeps
  <2>4. sslot = cslot
    BY <1>2, <1>5 DEF Inv, ClientOk
  <2>5. Unread' = Unread
    BY <1>1, <1>2, <1>3, <2>2, <2>3, <2>4, SendMoves DEF Unread, clientVars
  <2>6. HandshakeOk'
    BY <1>1, <1>2, <2>2, <2>3, <2>4, <2>5 DEF HandshakeOk, clientVars
  <2> QED BY <2>3, <2>6 DEF Inv
<1>6. CASE k.client # "open" /\ Set(sslot, reset)
  <2>1. /\ reset \in Connection /\ reset.client = k.client /\ reset.server = "open"
        /\ reset.c2s = k.c2s /\ reset.s2c = k.s2c
    BY <1>2 DEF Connection
  <2> HIDE DEF reset
  <2>2. /\ TypeOK' /\ ClientOk' /\ ServerOk' /\ ConnOk'
        /\ \A t \in Slots : t # sslot => conn'[t] = conn[t]
    BY <1>1, <1>2, <1>3, <1>4, <1>6, <2>1, ServerSetKeeps
  <2>3. cslot # sslot
    BY <1>2, <1>6 DEF Inv, ClientOk
  <2>4. cslot # NoSlot => conn'[cslot] = conn[cslot] /\ Unread' = Unread
    BY <1>1, <2>2, <2>3 DEF Unread, clientVars, TypeOK
  <2>5. HandshakeOk'
    BY <1>1, <2>3, <2>4 DEF HandshakeOk, clientVars
  <2> QED BY <2>2, <2>5 DEF Inv
<1> QED BY <1>5, <1>6 DEF SendAnswer

\* Only a connection whose client has left it ends, so PLAY is never taken
\* back from a client in its receive loop.
LEMMA EndKeeps ==
    ASSUME Inv, EndOfClient
    PROVE  Inv'
<1> DEFINE k == [conn[sslot] EXCEPT !.server = "closed"]
<1>1. /\ srv = "recv" /\ srv' = "accept" /\ sslot' = NoSlot /\ s_streaming' = FALSE
      /\ conn[sslot].client = "closed" \/ conn[sslot].rst
      /\ Set(sslot, k)
      /\ UNCHANGED <<clientVars, out, backlog, s_dest, counters, txn>>
      /\ TypeOK /\ ClientOk /\ ServerOk /\ HandshakeOk
  BY DEF Inv, EndOfClient
<1>2. sslot \in Slots /\ conn[sslot] \in Connection /\ conn[sslot].client # "open"
  BY <1>1, ServedConn
<1>3. k.client = conn[sslot].client /\ k.server = "closed"
  BY <1>2 DEF Connection
<1> HIDE DEF k
<1>4. /\ conn' \in [Slots -> Connection]
      /\ \A t \in Slots : Len(conn'[t].c2s) <= TcpBuf /\ Len(conn'[t].s2c) <= TcpBuf
      /\ conn'[sslot] = Free
      /\ \A t \in Slots : t # sslot => conn'[t] = conn[t]
  BY <1>1, <1>2, <1>3, SetFreeOk
<1>5. TypeOK'
  BY <1>1, <1>4 DEF TypeOK, clientVars, counters
<1>6. ClientOk'
  BY <1>1, <1>2, <1>4, FreshOk DEF ClientOk, clientVars
<1>7. ServerOk'
  <2>1. \A t \in Slots : conn'[t].server = "open" <=>
           \E i \in 1 .. Len(backlog) : backlog[i] = t
    BY <1>1, <1>2, <1>4, FreshOk DEF ServerOk
  <2>2. \A i \in 1 .. Len(backlog) : backlog[i] # NoSlot
    <3>1. \A i \in 1 .. Len(backlog) : backlog[i] \in Slots
      BY <1>1, ElementOfSeq DEF TypeOK
    <3> QED BY <3>1, LinkAssumption
  <2> QED BY <1>1, <2>1, <2>2, LinkAssumption DEF ServerOk
<1>8. ConnOk'
  BY <1>4 DEF Inv, ConnOk
<1>9. HandshakeOk'
  <2>1. cslot # sslot
    BY <1>1, <1>2 DEF ClientOk
  <2>2. cslot # NoSlot => conn'[cslot] = conn[cslot] /\ Unread' = Unread
    BY <1>1, <1>4, <2>1 DEF Unread, clientVars, TypeOK
  <2> QED BY <1>1, <2>1, <2>2 DEF HandshakeOk, clientVars, TypeOK
<1> QED BY <1>5, <1>6, <1>7, <1>8, <1>9 DEF Inv

(***************************************************************************)
(* Restarts.                                                               *)
(***************************************************************************)
\* The restarted subscriber holds no connection.
LEMMA RebootSubscriberKeeps ==
    ASSUME Inv, RebootSubscriber
    PROVE  Inv'
<1>1. /\ reboots < MaxReboots /\ reboots' = reboots + 1
      /\ s_running' = FALSE /\ cpc' = "none" /\ step' = 1 /\ cslot' = NoSlot
      /\ UNCHANGED <<serverVars, timeouts, txn>>
      /\ TypeOK /\ ServerOk /\ ConnOk
  BY DEF Inv, RebootSubscriber
<1>2. ASSUME NEW s \in Slots
      PROVE  /\ conn'[s] \in Connection
             /\ Len(conn'[s].c2s) <= TcpBuf /\ Len(conn'[s].s2c) <= TcpBuf
             /\ conn'[s].client # "open"
             /\ conn'[s].server = "open" <=> conn[s].server = "open"
             /\ conn'[s] = Free \/ conn'[s].server = "open"
  <2> DEFINE k == [conn[s] EXCEPT !.client = "gone"]
  <2>1. /\ conn[s] \in Connection
        /\ Len(conn[s].c2s) <= TcpBuf /\ Len(conn[s].s2c) <= TcpBuf
    BY <1>1 DEF TypeOK
  <2>2. /\ k \in Connection /\ k.client = "gone" /\ k.server = conn[s].server
        /\ k.c2s = conn[s].c2s /\ k.s2c = conn[s].s2c
    BY <2>1 DEF Connection
  <2>3. Len(Free.c2s) <= TcpBuf /\ Len(Free.s2c) <= TcpBuf
    BY FreshOk, EmptySeq, LinkAssumption
  <2>4. conn'[s] = IF conn[s].client = "open" THEN Tidy(k) ELSE conn[s]
    BY DEF RebootSubscriber
  <2> HIDE DEF k
  <2> QED BY <1>1, <2>1, <2>2, <2>3, <2>4, FreshOk DEF Tidy, ConnOk
<1>3. conn' \in [Slots -> Connection]
  <2>1. conn' = [s \in Slots |-> conn'[s]]
    BY DEF RebootSubscriber
  <2> QED BY <1>2, <2>1
<1>4. TypeOK'
  <2>1. reboots' \in 0 .. MaxReboots
    BY <1>1, LinkAssumption DEF TypeOK
  <2>2. \A s \in Slots : Len(conn'[s].c2s) <= TcpBuf /\ Len(conn'[s].s2c) <= TcpBuf
    BY <1>2
  <2>3. step' \in 1 .. 4
    BY <1>1
  <2> QED BY <1>1, <1>3, <2>1, <2>2, <2>3 DEF TypeOK, serverVars
<1>5. ClientOk'
  BY <1>1, <1>2, LinkAssumption DEF ClientOk
<1>6. ServerOk'
  BY <1>1, <1>2 DEF ServerOk, serverVars
<1>7. ConnOk'
  BY <1>2 DEF ConnOk
<1>8. HandshakeOk'
  BY <1>1 DEF HandshakeOk
<1> QED BY <1>4, <1>5, <1>6, <1>7, <1>8 DEF Inv

\* The restarted publisher holds none either, so the handshake is moot.
LEMMA RebootPublisherKeeps ==
    ASSUME Inv, RebootPublisher
    PROVE  Inv'
<1>1. /\ reboots < MaxReboots /\ reboots' = reboots + 1
      /\ srv' = "accept" /\ sslot' = NoSlot /\ out' = << >> /\ backlog' = << >>
      /\ s_streaming' = FALSE /\ s_dest' = FALSE
      /\ UNCHANGED <<clientVars, timeouts, txn>>
      /\ TypeOK /\ ClientOk /\ ConnOk
  BY DEF Inv, RebootPublisher
<1>2. ASSUME NEW s \in Slots
      PROVE  /\ conn'[s] \in Connection
             /\ Len(conn'[s].c2s) <= TcpBuf /\ Len(conn'[s].s2c) <= TcpBuf
             /\ conn'[s].server # "open"
             /\ conn'[s].client = "open" <=> conn[s].client = "open"
             /\ conn'[s] = Free \/ conn'[s].client = "open"
  <2> DEFINE k == [conn[s] EXCEPT !.server = "gone"]
  <2>1. /\ conn[s] \in Connection
        /\ Len(conn[s].c2s) <= TcpBuf /\ Len(conn[s].s2c) <= TcpBuf
    BY <1>1 DEF TypeOK
  <2>2. /\ k \in Connection /\ k.server = "gone" /\ k.client = conn[s].client
        /\ k.c2s = conn[s].c2s /\ k.s2c = conn[s].s2c
    BY <2>1 DEF Connection
  <2>3. Len(Free.c2s) <= TcpBuf /\ Len(Free.s2c) <= TcpBuf
    BY FreshOk, EmptySeq, LinkAssumption
  <2>4. conn'[s] = IF conn[s].server = "open" THEN Tidy(k) ELSE conn[s]
    BY DEF RebootPublisher
  <2> HIDE DEF k
  <2> QED BY <1>1, <2>1, <2>2, <2>3, <2>4, FreshOk DEF Tidy, ConnOk
<1>3. conn' \in [Slots -> Connection]
  <2>1. conn' = [s \in Slots |-> conn'[s]]
    BY DEF RebootPublisher
  <2> QED BY <1>2, <2>1
<1>4. TypeOK'
  <2>1. << >> \in Seq(Slots) /\ Len(<< >>) = 0
    BY EmptySeq
  <2>2. reboots' \in 0 .. MaxReboots
    BY <1>1, LinkAssumption DEF TypeOK
  <2>3. \A s \in Slots : Len(conn'[s].c2s) <= TcpBuf /\ Len(conn'[s].s2c) <= TcpBuf
    BY <1>2
  <2>4. backlog' \in Seq(Slots) /\ Len(backlog') <= Backlog
    BY <1>1, <2>1, LinkAssumption
  <2> QED BY <1>1, <1>3, <2>2, <2>3, <2>4 DEF TypeOK, clientVars
<1>5. ClientOk'
  BY <1>1, <1>2 DEF ClientOk, clientVars
<1>6. ServerOk'
  <2>1. Len(<< >>) = 0
    BY EmptySeq
  <2> QED BY <1>1, <1>2, <2>1, LinkAssumption DEF ServerOk
<1>7. ConnOk'
  BY <1>2 DEF ConnOk
<1>8. HandshakeOk'
  <2>1. cslot' # NoSlot => cslot' \in Slots
    BY <1>4 DEF TypeOK
  <2> QED BY <1>2, <2>1 DEF HandshakeOk
<1> QED BY <1>4, <1>5, <1>6, <1>7, <1>8 DEF Inv

(***************************************************************************)
(* Theorems.                                                               *)
(***************************************************************************)
\* Nobody is connected at first.
LEMMA InitOk == Init => Inv
<1> SUFFICES ASSUME Init PROVE Inv
  OBVIOUS
<1>1. << >> \in Seq(Slots) /\ Len(<< >>) = 0
  BY EmptySeq
<1>2. \A s \in Slots : conn[s] = Free
  BY DEF Init
<1>3. TypeOK
  <2>1. conn \in [Slots -> Connection]
    BY FreshOk DEF Init
  <2>2. \A s \in Slots : Len(conn[s].c2s) <= TcpBuf /\ Len(conn[s].s2c) <= TcpBuf
    <3>1. Len(Free.c2s) = 0 /\ Len(Free.s2c) = 0
      BY FreshOk, EmptySeq
    <3>2. Len(Free.c2s) <= TcpBuf /\ Len(Free.s2c) <= TcpBuf
      BY <3>1, LinkAssumption
    <3> QED BY <1>2, <3>2
  <2>3. backlog \in Seq(Slots) /\ Len(backlog) <= Backlog
    BY <1>1, LinkAssumption DEF Init
  <2>4. reboots \in 0 .. MaxReboots /\ timeouts \in 0 .. MaxTimeouts /\ step \in 1 .. 4
    BY LinkAssumption DEF Init
  <2> QED BY <2>1, <2>2, <2>3, <2>4 DEF Init, TypeOK
<1>4. ClientOk /\ ConnOk
  BY <1>2, FreshOk, LinkAssumption DEF Init, ClientOk, ConnOk
<1>5. ServerOk
  BY <1>1, <1>2, FreshOk, LinkAssumption DEF Init, ServerOk
<1>6. HandshakeOk
  BY DEF Init, HandshakeOk
<1> QED BY <1>3, <1>4, <1>5, <1>6 DEF Inv

\* Every step of either device keeps it.
LEMMA StepOk == Inv /\ [Next]_vars => Inv'
<1> SUFFICES ASSUME Inv, [Next]_vars PROVE Inv'
  OBVIOUS
<1>1. CASE UNCHANGED vars
  BY <1>1 DEF vars, Inv, TypeOK, ClientOk, ServerOk, ConnOk, HandshakeOk, Unread
<1>2. CASE Next
  BY <1>2, DiscoverKeeps, ConnectKeeps, ConnectFailsKeeps, SendKeeps, ReceiveKeeps,
     RecvFailsKeeps, TimeoutKeeps, UnblockKeeps, AcceptKeeps, HandleKeeps, AnswerKeeps,
     EndKeeps, RebootSubscriberKeeps, RebootPublisherKeeps
     DEF Next
<1> QED BY <1>1, <1>2

\* Inv holds in every reachable state, with or without fairness.
THEOREM Invariance == Spec => []Inv
BY InitOk, StepOk, PTL DEF Spec

\* Tasks, buffers and connections keep their types and bounds.
THEOREM TypeCorrect == Spec => []TypeOK
<1>1. Inv => TypeOK
  BY DEF Inv
<1> QED BY <1>1, Invariance, PTL

\* A client in its receive loop, whose publisher has not restarted, is the one
\* being served, with its address set and PLAY in force.
THEOREM Agreed == Spec => []AgreedPlay
<1>1. Inv => AgreedPlay
  <2> SUFFICES ASSUME Inv, cpc \in {"stream", "blocked"}, conn[cslot].server = "open"
               PROVE  sslot = cslot /\ s_dest /\ s_streaming
    BY DEF AgreedPlay
  <2>1. cslot # NoSlot
    BY OwnConn, LinkAssumption
  <2> QED BY <2>1 DEF Inv, HandshakeOk
<1> QED BY <1>1, Invariance, PTL
============================================================================
