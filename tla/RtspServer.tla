----------------------------- MODULE RtspServer -----------------------------
(***************************************************************************)
(* The publishing side of the link.  Two tasks share s_streaming, s_dest   *)
(* and s_seq under the mutex s_lock: rtsp_srv accepts one RTSP client at a *)
(* time and grants it the stream, and cam_enc sends each encoded frame by  *)
(* copying the three variables under the lock, sending the frame's packets *)
(* without it, and writing the sequence number back under it.              *)
(*                                                                         *)
(* A section between taking and giving s_lock is one action: nothing in it *)
(* blocks, and the other task waits.  Requests that touch no variable      *)
(* (OPTIONS, DESCRIBE and unknown methods) only answer.  Clients are       *)
(* external: any request may follow any other, as no handler looks at what *)
(* came before.                                                            *)
(***************************************************************************)
EXTENDS Integers, Sequences, FiniteSets

CONSTANTS Clients,      \* devices that may connect
          Ports,        \* their client_port numbers
          NoClient,     \* no device
          Backlog,      \* pending connections listen keeps
          SeqMod,       \* values of the 16-bit sequence number
          MaxPackets,   \* bound: packets of a frame
          MaxSessions   \* bound: accepted connections

ASSUME ServerAssumption ==
    /\ NoClient \notin Clients
    /\ Backlog \in Nat /\ SeqMod \in Nat /\ MaxPackets \in Nat /\ MaxSessions \in Nat
    /\ SeqMod > 1

VARIABLES
    boot,        \* how far server_start and server_task's set-up have come
    s_udp,       \* the RTP socket could be opened
    s_streaming, s_dest, s_seq,
    srv,         \* rtsp_srv: in accept, in handle_client, or leaving it
    cur,         \* the client handle_client serves
    backlog,     \* connections not yet accepted
    phase,       \* each client's connection
    unread,      \* clients with a request the server has not read
    cam,         \* cam_enc: "idle", or inside rtp_send_jpeg / rtp_send_h264
    frame,       \* its locals: dest, seq and the packets left
    session,     \* history: sessions accepted so far
    owner,       \* history: the session that set s_dest, 0 if none
    player,      \* history: the session that set s_streaming, 0 if none
    over,        \* history: sessions whose stream was withdrawn
    wire,        \* history: the sequence number of the last packet sent
    late         \* history: per session, frames that went on after its end

bootVars == <<boot, s_udp>>
serverVars == <<s_streaming, s_dest, s_seq>>
historyVars == <<session, owner, player, over, wire, late>>
clientVars == <<phase, unread>>
camVars == <<cam, frame>>
vars == <<boot, s_udp, s_streaming, s_dest, s_seq, srv, cur, backlog, phase, unread,
          cam, frame, session, owner, player, over, wire, late>>

Dests == [client : Clients \cup {NoClient}, port : Ports \cup {0}]
NoDest == [client |-> NoClient, port |-> 0]
NoFrame == [dest |-> NoDest, seq |-> 0, left |-> 0, session |-> 0, late |-> FALSE,
            sentTo |-> {}]

Init ==
    /\ boot = "none" /\ s_udp = FALSE
    /\ s_streaming = FALSE /\ s_dest = NoDest /\ s_seq = 0
    /\ srv = "accept" /\ cur = NoClient /\ backlog = << >>
    /\ phase = [c \in Clients |-> "out"]
    /\ unread = {}
    /\ cam = "idle" /\ frame = NoFrame
    /\ session = 0 /\ owner = 0 /\ player = 0 /\ over = {}
    /\ wire = SeqMod - 1
    /\ late = [n \in 1 .. MaxSessions |-> 0]

(***************************************************************************)
(* server_start, while cam_enc already encodes (the pipeline starts first).*)
(***************************************************************************)
CreateLock ==
    /\ boot = "none"
    /\ boot' = "lock"
    /\ UNCHANGED <<s_udp, serverVars, srv, cur, backlog, clientVars, camVars, historyVars>>

\* socket(SOCK_DGRAM) may fail; nothing checks it but server_send.
OpenUdp ==
    /\ boot = "lock"
    /\ boot' = "udp"
    /\ s_udp' \in BOOLEAN
    /\ UNCHANGED <<serverVars, srv, cur, backlog, clientVars, camVars, historyVars>>

\* server_task listens, or deletes itself when bind fails.
Listen ==
    /\ boot = "udp"
    /\ boot' \in {"listening", "dead"}
    /\ UNCHANGED <<s_udp, serverVars, srv, cur, backlog, clientVars, camVars, historyVars>>

ServerStart == CreateLock \/ OpenUdp \/ Listen

(***************************************************************************)
(* Clients.                                                                *)
(***************************************************************************)
Connect(c) ==
    /\ boot = "listening"
    /\ phase[c] = "out"
    /\ Len(backlog) < Backlog
    /\ backlog' = Append(backlog, c)
    /\ phase' = [phase EXCEPT ![c] = "in"]
    /\ UNCHANGED <<bootVars, serverVars, srv, cur, unread, camVars, historyVars>>

\* A client sends its next request once the previous one was read.  Which one,
\* the handlers that read it choose: any may follow any other.
Request(c) ==
    /\ phase[c] = "in"
    /\ c \notin unread
    /\ unread' = unread \cup {c}
    /\ UNCHANGED <<bootVars, serverVars, srv, cur, backlog, phase, camVars, historyVars>>

\* A client closes its connection, with or without an unread request.
Leave(c) ==
    /\ phase[c] = "in"
    /\ phase' = [phase EXCEPT ![c] = "closed"]
    /\ UNCHANGED <<bootVars, serverVars, srv, cur, backlog, unread, camVars, historyVars>>

(***************************************************************************)
(* rtsp_srv.                                                               *)
(***************************************************************************)
Accept ==
    /\ boot = "listening"
    /\ srv = "accept"
    /\ backlog # << >>
    /\ session < MaxSessions
    /\ cur' = Head(backlog)
    /\ backlog' = Tail(backlog)
    /\ srv' = "serve"
    /\ session' = session + 1
    /\ UNCHANGED <<bootVars, serverVars, clientVars, camVars, owner, player, over, wire, late>>

\* recv returned the current client's request, which is answered.
Answered ==
    /\ srv = "serve"
    /\ cur \in unread
    /\ unread' = unread \ {cur}
    /\ UNCHANGED phase

HandleInfo ==
    /\ Answered
    /\ UNCHANGED <<bootVars, serverVars, srv, cur, backlog, camVars, historyVars>>

\* Mutant of HandleSetup: only the port of an earlier client is replaced.
HandleSetupKeepsPeer ==
    /\ Answered
    /\ \E port \in Ports :
          s_dest' = [client |-> IF s_dest.client = NoClient THEN cur ELSE s_dest.client,
                     port   |-> port]
    /\ owner' = session
    /\ UNCHANGED <<bootVars, s_streaming, s_seq, srv, cur, backlog, camVars,
                   session, player, over, wire, late>>

HandleSetup ==
    /\ Answered
    /\ \E port \in Ports : s_dest' = [client |-> cur, port |-> port]
    /\ owner' = session
    /\ UNCHANGED <<bootVars, s_streaming, s_seq, srv, cur, backlog, camVars,
                   session, player, over, wire, late>>

\* PLAY starts the stream to whatever s_dest holds, set up or not.
HandlePlay ==
    /\ Answered
    /\ s_streaming' = TRUE
    /\ player' = session
    /\ UNCHANGED <<bootVars, s_dest, s_seq, srv, cur, backlog, camVars,
                   session, owner, over, wire, late>>

\* TEARDOWN answers and breaks out of the loop.
HandleTeardown ==
    /\ Answered
    /\ s_streaming' = FALSE
    /\ over' = over \cup {session}
    /\ srv' = "leave"
    /\ UNCHANGED <<bootVars, s_dest, s_seq, cur, backlog, camVars, session, owner, player,
                   wire, late>>

\* recv returned 0: everything the client sent was read and it has closed.
HandleEof ==
    /\ srv = "serve"
    /\ phase[cur] = "closed" /\ cur \notin unread
    /\ srv' = "leave"
    /\ UNCHANGED <<bootVars, serverVars, cur, backlog, clientVars, camVars, historyVars>>

\* Mutant of EndSession: only TEARDOWN stops the stream.
EndSessionKeepsStream ==
    /\ srv = "leave"
    /\ srv' = "accept"
    /\ cur' = NoClient
    /\ phase' = [phase EXCEPT ![cur] = "out"]
    /\ unread' = unread \ {cur}
    /\ over' = over \cup {session}
    /\ UNCHANGED <<bootVars, serverVars, backlog, camVars, session, owner, player, wire, late>>

\* The end of handle_client, reached from TEARDOWN and from a closed connection.
EndSession ==
    /\ srv = "leave"
    /\ s_streaming' = FALSE
    /\ over' = over \cup {session}
    /\ srv' = "accept"
    /\ cur' = NoClient
    /\ phase' = [phase EXCEPT ![cur] = "out"]
    /\ unread' = unread \ {cur}
    /\ UNCHANGED <<bootVars, s_dest, s_seq, backlog, camVars, session, owner, player,
                   wire, late>>

(***************************************************************************)
(* cam_enc: server_send_jpeg and server_send_h264 are the same sequence.   *)
(***************************************************************************)
\* s_lock exists, a client plays and the RTP socket is open.
Go == boot # "none" /\ s_streaming /\ s_udp

\* The first critical section; the frame will take n calls of sendto, none
\* when the payloader rejects it.  With Go false the frame is dropped and
\* nothing changes.
Snapshot ==
    /\ cam = "idle"
    /\ Go
    /\ \E n \in 0 .. MaxPackets :
          frame' = [NoFrame EXCEPT !.dest = s_dest, !.seq = s_seq, !.left = n,
                                   !.session = player]
    /\ cam' = "send"
    /\ UNCHANGED <<bootVars, serverVars, srv, cur, backlog, clientVars, historyVars>>

\* Mutants of NextSeq and Target: no wrap at 16 bits; the shared destination
\* is read again for every packet.
NextSeqUnbounded(n) == n + 1
TargetShared == s_dest

NextSeq(n) == (n + 1) % SeqMod
Target == frame.dest

\* One sendto; if it fails the JPEG payloader gives up the rest.
SendPacket ==
    /\ cam = "send"
    /\ frame.left > 0
    /\ \E rest \in {frame.left - 1, 0} :
          frame' = [frame EXCEPT !.seq = NextSeq(@), !.left = rest,
                                 !.sentTo = @ \cup {Target},
                                 !.late = @ \/ frame.session \in over]
    /\ wire' = frame.seq
    /\ UNCHANGED <<bootVars, serverVars, srv, cur, backlog, clientVars, cam,
                   session, owner, player, over, late>>

\* Mutant of WrittenBack: the counter restarts with every frame.
WrittenBackZero == 0
WrittenBack == frame.seq

\* The second critical section.
WriteBack ==
    /\ cam = "send"
    /\ frame.left = 0
    /\ s_seq' = WrittenBack
    /\ late' = IF frame.late THEN [late EXCEPT ![frame.session] = @ + 1] ELSE late
    /\ cam' = "idle"
    /\ frame' = NoFrame
    /\ UNCHANGED <<bootVars, s_streaming, s_dest, srv, cur, backlog, clientVars,
                   session, owner, player, over, wire>>

RtspTask == \/ Accept \/ HandleInfo \/ HandleSetup \/ HandlePlay
            \/ HandleTeardown \/ HandleEof \/ EndSession
CamTask == Snapshot \/ SendPacket \/ WriteBack
ClientSteps == \E c \in Clients : Connect(c) \/ Request(c) \/ Leave(c)

Next == ServerStart \/ RtspTask \/ CamTask \/ ClientSteps

\* FreeRTOS runs both tasks; clients owe nothing.
Fairness == WF_vars(ServerStart) /\ WF_vars(RtspTask) /\ WF_vars(SendPacket \/ WriteBack)

Spec == Init /\ [][Next]_vars
FairSpec == Spec /\ Fairness

(***************************************************************************)
(* Properties.                                                             *)
(***************************************************************************)
Sessions == 1 .. MaxSessions

\* Types of the shared variables, the tasks' locals and the clients' state;
\* the sequence number stays within its 16 bits.
TypeOK ==
    /\ boot \in {"none", "lock", "udp", "listening", "dead"} /\ s_udp \in BOOLEAN
    /\ s_streaming \in BOOLEAN /\ s_dest \in Dests /\ s_seq \in 0 .. SeqMod - 1
    /\ srv \in {"accept", "serve", "leave"}
    /\ cur \in Clients \cup {NoClient}
    /\ backlog \in Seq(Clients) /\ Len(backlog) <= Backlog
    /\ phase \in [Clients -> {"out", "in", "closed"}]
    /\ unread \subseteq Clients
    /\ cam \in {"idle", "send"}
    /\ frame \in [dest : Dests, seq : 0 .. SeqMod - 1, left : 0 .. MaxPackets,
                  session : 0 .. MaxSessions, late : BOOLEAN, sentTo : SUBSET Dests]
    /\ session \in 0 .. MaxSessions
    /\ owner \in 0 .. MaxSessions /\ player \in 0 .. MaxSessions
    /\ over \subseteq Sessions
    /\ wire \in 0 .. SeqMod - 1
    /\ late \in [Sessions -> Nat]

\* The stream only runs for the session being served, which asked for it with
\* PLAY (rtsp_server.cpp:122), and from its first SETUP on it goes to that
\* client's own address.  A former client's address is used in one case only:
\* the session asked PLAY without any SETUP, which no handler checks.
StreamFollowsSession ==
    s_streaming =>
        /\ cur # NoClient
        /\ player = session /\ session \notin over
        /\ owner = session => s_dest.client = cur

\* After a session ended (TEARDOWN or a closed connection), at most the one
\* frame cam_enc had begun for it is still sent, whoever plays next.
AtMostOneLateFrame ==
    \A s \in Sessions :
        late[s] + (IF cam = "send" /\ frame.late /\ frame.session = s THEN 1 ELSE 0) <= 1

\* All packets of a frame go to one address, although SETUP may change s_dest
\* while the frame is sent without the lock.
FrameToOneDest == Cardinality(frame.sentTo) <= 1

\* Consecutive packets on the wire carry consecutive sequence numbers modulo
\* 2^16, across frames, sessions and clients, although the number lives in
\* cam_enc's copy while the lock is free.
SeqConsecutive ==
    [][wire' # wire => wire' = (wire + 1) % SeqMod]_vars

\* The stream belongs to one session at a time, which alone may start and aim
\* it, and is withdrawn from it for good before another session gets it.
Grant == INSTANCE StreamGrant
            WITH Holders <- Sessions, NoHolder <- 0,
                 to <- IF s_streaming THEN player ELSE 0, dest <- owner, ended <- over
GrantSpec == Grant!Spec

\* Once the client being served has left or said TEARDOWN, its stream ends and
\* the next client is accepted, whatever requests it had still sent.
LeaverReleases ==
    \A c \in Clients :
        (cur = c /\ (phase[c] = "closed" \/ srv = "leave")) ~> (cur # c /\ ~s_streaming)
============================================================================
