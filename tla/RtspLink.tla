------------------------------ MODULE RtspLink ------------------------------
(***************************************************************************)
(* One direction of the link: the subscriber's browse task and rtsp_cli    *)
(* task, the publisher's rtsp_srv task, and the TCP connections between    *)
(* them.  A connection is two byte streams, so recv returns whatever has   *)
(* arrived: here a stream is a sequence of whole messages and recv takes   *)
(* any non-empty prefix of it.  Either device may restart at any moment;   *)
(* its connections then die without a FIN, and its peer learns of it only  *)
(* when it sends (RST).  Names follow rtsp_client.cpp, rtsp_server.cpp and *)
(* link.cpp.  The other direction is the same module with roles swapped.   *)
(***************************************************************************)
EXTENDS Integers, Sequences

CONSTANTS Slots,        \* connections alive at the same time
          NoSlot,
          Backlog,      \* pending connections listen keeps
          TcpBuf,       \* bound: messages a TCP direction buffers
          MaxReboots,   \* bound: restarts of either device
          MaxTimeouts   \* bound: seconds without a video packet

ASSUME LinkAssumption ==
    NoSlot \notin Slots /\ Backlog \in Nat /\ TcpBuf \in Nat \ {0, 1}
    /\ MaxReboots \in Nat /\ MaxTimeouts \in Nat

VARIABLES
    s_running,   \* subscriber: a client task is (believed to be) running
    cpc, step,   \* rtsp_cli: where it is, and in which transaction
    cslot,       \* its connection
    srv, sslot,  \* rtsp_srv: in accept, recv or send, and its connection
    out,         \* what it still has to send in answer to a request
    backlog,     \* connections waiting for accept
    s_streaming, s_dest,   \* publisher: PLAY in force; an address is set
    conn,        \* the connections
    reboots, timeouts,     \* bound counters
    txn          \* history: the last transaction, its request and the reply it took

clientVars == <<s_running, cpc, step, cslot>>
serverVars == <<srv, sslot, out, backlog, s_streaming, s_dest>>
counters == <<reboots, timeouts>>
vars == <<s_running, cpc, step, cslot, srv, sslot, out, backlog, s_streaming, s_dest,
          conn, reboots, timeouts, txn>>

Handshake == <<"OPTIONS", "DESCRIBE", "SETUP", "PLAY">>
Methods == {Handshake[i] : i \in 1 .. 4}

\* What the server sends for each method; DESCRIBE takes two calls of send.
Answer == [OPTIONS  |-> <<"200 OPTIONS">>,
           DESCRIBE |-> <<"200 DESCRIBE", "SDP">>,
           SETUP    |-> <<"200 SETUP">>,
           PLAY     |-> <<"200 PLAY">>]
Replies == {"200 OPTIONS", "200 DESCRIBE", "SDP", "200 SETUP", "200 PLAY"}

\* rtsp_txn accepts what begins with "RTSP/1.0 200".
IsOk(reply) == reply # "SDP"

(***************************************************************************)
(* Connections.  Each end is open, closed (it sent FIN), or gone (its      *)
(* device restarted); rst tells that the surviving end has learnt of it.   *)
(***************************************************************************)
Free == [c2s |-> << >>, s2c |-> << >>, client |-> "none", server |-> "none", rst |-> FALSE]
Fresh == [Free EXCEPT !.client = "open", !.server = "open"]

\* A connection neither end uses any more can be reused.
Tidy(k) == IF k.client # "open" /\ k.server # "open" THEN Free ELSE k

Set(s, k) == conn' = [conn EXCEPT ![s] = Tidy(k)]

Prefixes(seq) == {SubSeq(seq, 1, n) : n \in 1 .. Len(seq)}
Rest(seq, pre) == SubSeq(seq, Len(pre) + 1, Len(seq))

Init ==
    /\ s_running = FALSE /\ cpc = "none" /\ step = 1 /\ cslot = NoSlot
    /\ srv = "accept" /\ sslot = NoSlot /\ out = << >> /\ backlog = << >>
    /\ s_streaming = FALSE /\ s_dest = FALSE
    /\ conn = [s \in Slots |-> Free]
    /\ reboots = 0 /\ timeouts = 0
    /\ txn = [req |-> "none", reply |-> "none"]

(***************************************************************************)
(* Subscriber.                                                             *)
(***************************************************************************)
ClientConnect ==
    /\ s_running' = TRUE
    /\ cpc' = "connect"
    /\ step' = 1

LinkOnPeer == ~s_running /\ ClientConnect

\* browse_task found the peer; every round of it calls back.
DiscoverPeer ==
    /\ LinkOnPeer
    /\ UNCHANGED <<cslot, serverVars, conn, counters, txn>>

\* The publisher's stack completes the handshake if listen has room.
ConnectOk ==
    /\ cpc = "connect"
    /\ Len(backlog) < Backlog
    /\ \E s \in Slots :
          /\ conn[s] = Free
          /\ Set(s, Fresh)
          /\ cslot' = s
          /\ backlog' = Append(backlog, s)
    /\ cpc' = "send"
    /\ UNCHANGED <<s_running, step, srv, sslot, out, s_streaming, s_dest, counters, txn>>

ConnectFails ==
    /\ cpc = "connect"
    /\ Len(backlog) >= Backlog
    /\ cpc' = "none"
    /\ s_running' = FALSE
    /\ UNCHANGED <<step, cslot, serverVars, conn, counters, txn>>

\* Mutant of ClientSend: it never waits for room.
ClientSendUnbounded(msg) ==
    LET k == conn[cslot]
    IN IF k.server = "open" /\ ~k.rst
       THEN Set(cslot, [k EXCEPT !.c2s = Append(@, msg)])
       ELSE Set(cslot, [k EXCEPT !.rst = TRUE])

\* send: a living peer's stack buffers the request, a restarted one resets.
ClientSend(msg) ==
    LET k == conn[cslot]
    IN \/ /\ k.server = "open" /\ ~k.rst
          /\ Len(k.c2s) < TcpBuf
          /\ Set(cslot, [k EXCEPT !.c2s = Append(@, msg)])
       \/ /\ k.server # "open" \/ k.rst
          /\ Set(cslot, [k EXCEPT !.rst = TRUE])

\* The first half of rtsp_txn.
SendRequest ==
    /\ cpc = "send"
    /\ ClientSend(Handshake[step])
    /\ cpc' = "recv"
    /\ UNCHANGED <<s_running, step, cslot, serverVars, counters, txn>>

\* What client_task does with the result of a transaction: only SETUP's is
\* looked at, and PLAY's answer leads to the receive loop.
Proceed ==
    /\ step' = IF step < 4 THEN step + 1 ELSE step
    /\ cpc' = IF step < 4 THEN "send" ELSE "stream"
    /\ UNCHANGED <<s_running, cslot>>

GiveUp ==
    /\ cpc' = "none"
    /\ s_running' = FALSE
    /\ cslot' = NoSlot
    /\ UNCHANGED step

\* Mutant of AfterTxn: the result of SETUP is ignored like the others.
AfterTxnNever(ok, k) == Proceed /\ Set(cslot, k)

AfterTxn(ok, k) ==
    \/ /\ Handshake[step] # "SETUP" \/ ok
       /\ Proceed
       /\ Set(cslot, k)
    \/ /\ Handshake[step] = "SETUP" /\ ~ok
       /\ GiveUp
       /\ Set(cslot, [k EXCEPT !.client = "closed"])

\* The second half of rtsp_txn: one recv, of whatever has arrived.
RecvResponse(got) ==
    /\ AfterTxn(IsOk(got[1]), [conn[cslot] EXCEPT !.s2c = Rest(@, got)])
    /\ txn' = [req |-> Handshake[step], reply |-> got[1]]
    /\ UNCHANGED <<serverVars, counters>>

ReceiveResponse ==
    /\ cpc = "recv"
    /\ \E got \in Prefixes(conn[cslot].s2c) : RecvResponse(got)

\* recv fails: the connection was reset.
RecvFails ==
    /\ cpc = "recv"
    /\ conn[cslot].s2c = << >>
    /\ conn[cslot].rst
    /\ AfterTxn(FALSE, conn[cslot])
    /\ UNCHANGED <<serverVars, counters, txn>>

\* A second without a packet: the keepalive goes out, or send blocks.
Timeout ==
    /\ cpc = "stream"
    /\ timeouts < MaxTimeouts
    /\ timeouts' = timeouts + 1
    /\ \/ ClientSend("OPTIONS") /\ UNCHANGED cpc
       \/ /\ ~conn[cslot].rst /\ conn[cslot].server = "open"
          /\ Len(conn[cslot].c2s) >= TcpBuf
          /\ cpc' = "blocked"
          /\ UNCHANGED conn
    /\ UNCHANGED <<s_running, step, cslot, serverVars, reboots, txn>>

\* The blocked send gets room, or learns that the peer restarted.
Unblock ==
    /\ cpc = "blocked"
    /\ ClientSend("OPTIONS")
    /\ cpc' = "stream"
    /\ UNCHANGED <<s_running, step, cslot, serverVars, counters, txn>>

(***************************************************************************)
(* Publisher.                                                              *)
(***************************************************************************)
Accept ==
    /\ srv = "accept"
    /\ backlog # << >>
    /\ sslot' = Head(backlog)
    /\ backlog' = Tail(backlog)
    /\ srv' = "recv"
    /\ UNCHANGED <<clientVars, out, s_streaming, s_dest, conn, counters, txn>>

\* Mutant of Handles: any request but PLAY stops the stream.
HandlesOnlyPlay(msg) ==
    /\ s_dest' = (s_dest \/ msg = "SETUP")
    /\ s_streaming' = (msg = "PLAY")

\* What a request changes: SETUP stores the address, PLAY starts the stream.
Handles(msg) ==
    /\ s_dest' = (s_dest \/ msg = "SETUP")
    /\ s_streaming' = (s_streaming \/ msg = "PLAY")

\* Mutant of HandleRequest: nothing is read once the stream is on.
HandleRequestUntilPlay ==
    /\ srv = "recv" /\ ~s_streaming
    /\ \E got \in Prefixes(conn[sslot].c2s) :
          /\ Handles(got[1])
          /\ out' = Answer[got[1]]
          /\ Set(sslot, [conn[sslot] EXCEPT !.c2s = Rest(@, got)])
    /\ srv' = "send"
    /\ UNCHANGED <<clientVars, sslot, backlog, counters, txn>>

\* handle_client looks at the first request in what recv returned and drops
\* the rest of the buffer.
HandleRequest ==
    /\ srv = "recv"
    /\ \E got \in Prefixes(conn[sslot].c2s) :
          /\ Handles(got[1])
          /\ out' = Answer[got[1]]
          /\ Set(sslot, [conn[sslot] EXCEPT !.c2s = Rest(@, got)])
    /\ srv' = "send"
    /\ UNCHANGED <<clientVars, sslot, backlog, counters, txn>>

\* One send; it blocks while the client's buffer is full, and what goes to a
\* client that is gone comes back as a reset.
SendAnswer ==
    /\ srv = "send"
    /\ LET k == conn[sslot]
       IN \/ /\ k.client = "open"
             /\ Len(k.s2c) < TcpBuf
             /\ Set(sslot, [k EXCEPT !.s2c = Append(@, Head(out))])
          \/ /\ k.client # "open"
             /\ Set(sslot, [k EXCEPT !.rst = TRUE])
    /\ out' = Tail(out)
    /\ srv' = IF Len(out) = 1 THEN "recv" ELSE "send"
    /\ UNCHANGED <<clientVars, sslot, backlog, s_streaming, s_dest, counters, txn>>

\* Mutant of EndOfClient: the loop goes on when recv returns 0.
EndOfClientLoops ==
    /\ srv = "recv"
    /\ conn[sslot].c2s = << >>
    /\ conn[sslot].rst
    /\ s_streaming' = FALSE
    /\ Set(sslot, [conn[sslot] EXCEPT !.server = "closed"])
    /\ sslot' = NoSlot
    /\ srv' = "accept"
    /\ UNCHANGED <<clientVars, out, backlog, s_dest, counters, txn>>

\* recv returns 0 (FIN after all requests) or an error (reset).
EndOfClient ==
    /\ srv = "recv"
    /\ conn[sslot].c2s = << >>
    /\ conn[sslot].client = "closed" \/ conn[sslot].rst
    /\ s_streaming' = FALSE
    /\ Set(sslot, [conn[sslot] EXCEPT !.server = "closed"])
    /\ sslot' = NoSlot
    /\ srv' = "accept"
    /\ UNCHANGED <<clientVars, out, backlog, s_dest, counters, txn>>

(***************************************************************************)
(* Restarts.                                                               *)
(***************************************************************************)
RebootSubscriber ==
    /\ reboots < MaxReboots
    /\ reboots' = reboots + 1
    /\ s_running' = FALSE /\ cpc' = "none" /\ step' = 1 /\ cslot' = NoSlot
    /\ conn' = [s \in Slots |->
                   IF conn[s].client = "open" THEN Tidy([conn[s] EXCEPT !.client = "gone"])
                                              ELSE conn[s]]
    /\ UNCHANGED <<serverVars, timeouts, txn>>

RebootPublisher ==
    /\ reboots < MaxReboots
    /\ reboots' = reboots + 1
    /\ srv' = "accept" /\ sslot' = NoSlot /\ out' = << >> /\ backlog' = << >>
    /\ s_streaming' = FALSE /\ s_dest' = FALSE
    /\ conn' = [s \in Slots |->
                   IF conn[s].server = "open" THEN Tidy([conn[s] EXCEPT !.server = "gone"])
                                              ELSE conn[s]]
    /\ UNCHANGED <<clientVars, timeouts, txn>>

(***************************************************************************)
(* Specification.  Every task and both stacks keep running; recv may return *)
(* any prefix of what has arrived, and nothing is assumed about which.     *)
(***************************************************************************)
Next ==
    \/ DiscoverPeer
    \/ ConnectOk
    \/ ConnectFails
    \/ SendRequest
    \/ ReceiveResponse
    \/ RecvFails
    \/ Timeout
    \/ Unblock
    \/ Accept
    \/ HandleRequest
    \/ SendAnswer
    \/ EndOfClient
    \/ RebootSubscriber
    \/ RebootPublisher

Spec == Init /\ [][Next]_vars

\* rtsp_cli, rtsp_srv and browse_task are loops that run at once whenever they
\* are not blocked; video packets (no Timeout) and restarts are not assumed.
Fairness ==
    /\ WF_vars(DiscoverPeer)
    /\ WF_vars(ConnectOk \/ ConnectFails)
    /\ WF_vars(SendRequest)
    /\ WF_vars(ReceiveResponse \/ RecvFails)
    /\ WF_vars(Unblock)
    /\ WF_vars(Accept \/ HandleRequest \/ SendAnswer \/ EndOfClient)

FairSpec == Spec /\ Fairness

(***************************************************************************)
(* Properties.                                                             *)
(***************************************************************************)
Connection == [c2s : Seq(Methods), s2c : Seq(Replies),
               client : {"none", "open", "closed", "gone"},
               server : {"none", "open", "closed", "gone"}, rst : BOOLEAN]

\* Type invariant: connections, tasks and buffers stay within the values and
\* the bounds of rtsp_client.cpp, rtsp_server.cpp and the TCP buffers.
TypeOK ==
    /\ s_running \in BOOLEAN
    /\ cpc \in {"none", "connect", "send", "recv", "stream", "blocked"}
    /\ step \in 1 .. 4
    /\ cslot \in Slots \cup {NoSlot}
    /\ srv \in {"accept", "recv", "send"}
    /\ sslot \in Slots \cup {NoSlot}
    /\ out \in {<< >>, <<"SDP">>} \cup {Answer[m] : m \in Methods}
    /\ backlog \in Seq(Slots) /\ Len(backlog) <= Backlog
    /\ s_streaming \in BOOLEAN /\ s_dest \in BOOLEAN
    /\ conn \in [Slots -> Connection]
    /\ \A s \in Slots : Len(conn[s].c2s) <= TcpBuf /\ Len(conn[s].s2c) <= TcpBuf
    /\ reboots \in 0 .. MaxReboots /\ timeouts \in 0 .. MaxTimeouts
    /\ txn \in [req : Methods \cup {"none"}, reply : Replies \cup {"none"}]

\* Both ends agree: a client in its receive loop whose publisher has not
\* restarted is the one the publisher serves, its address is known and PLAY is
\* in force, although the client ignores PLAY's result and never hears of a
\* stop; keepalives leave the stream alone.
AgreedPlay ==
    cpc \in {"stream", "blocked"} /\ conn[cslot].server = "open" =>
        sslot = cslot /\ s_dest /\ s_streaming

\* A handshake never hangs: the single-client server gets to every connection,
\* ends the one before it, and answers what was asked, so the client plays or
\* gives up (and discovery starts it again), as long as nobody restarts.
HandshakeEnds ==
    (cpc \in {"connect", "send", "recv"})
        ~> (cpc \in {"stream", "none"} \/ reboots > 0)

\* The client blocks in its keepalive for good only once the replies it never
\* reads have filled the other direction and the server blocks too.
BlockedOnlyByReplies ==
    (cpc = "blocked")
        ~> (cpc # "blocked"
            \/ (srv = "send" /\ sslot = cslot /\ Len(conn[cslot].s2c) = TcpBuf))

\* rtsp_client.cpp:35, "read the response into resp": a transaction takes a
\* reply to its own request.  Violated: DESCRIBE is answered with two sends, a
\* recv that returns between them leaves the SDP to SETUP, which then fails.
ReadsOwnResponse ==
    txn.req # "none" => \E i \in DOMAIN Answer[txn.req] : Answer[txn.req][i] = txn.reply

\* README.md:69 and discovery.h: the link starts automatically when the devices
\* find each other.  Violated after a restart: neither end ever times out, so
\* the client stays in its receive loop without a stream, or a new client waits
\* behind the dead connection the server still reads from.
LinkRecovers ==
    [](reboots > 0 => <>(\/ cpc = "none"
                         \/ (cpc = "stream" /\ s_streaming /\ sslot = cslot)))
============================================================================
