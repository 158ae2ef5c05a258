-------------------------- MODULE RtspServerProofs --------------------------
(***************************************************************************)
(* Proofs about RtspServer for any clients, ports, backlog, frame sizes    *)
(* and sequence number width.  Inv ties the shared variables to the        *)
(* session rtsp_srv serves and to the copy cam_enc works on.               *)
(***************************************************************************)
EXTENDS RtspServer, FiniteSetTheorems, TLAPS

\* rtsp_srv serves a client exactly when it is not in accept, in a session
\* of its own that has not ended; a SETUP in it has set s_dest to its client.
ServingOk ==
    /\ srv = "accept" => cur = NoClient /\ ~s_streaming
    /\ srv # "accept" => /\ cur \in Clients /\ session \in Sessions
                         /\ owner = session => s_dest.client = cur
    /\ srv = "serve" => session \notin over
    /\ over \subseteq 1 .. session
    /\ owner \in 0 .. session

\* cam_enc's copy belongs to a session, went to one address, and a frame that
\* outlived its session is the first of that session to do so.
CopyOk ==
    /\ cam = "send" => frame.session \in Sessions
    /\ frame.late => cam = "send" /\ frame.session \in over
    /\ frame.sentTo \subseteq {frame.dest}
    /\ \A s \in Sessions :
          late[s] = 0 \/ (late[s] = 1 /\ s \in over /\ (cam = "send" => frame.session # s))

\* The next sequence number, wherever it lives, follows the last one sent.
SeqOk == (IF cam = "send" THEN frame.seq ELSE s_seq) = NextSeq(wire)

Inv ==
    /\ TypeOK
    /\ ServingOk
    /\ StreamFollowsSession
    /\ CopyOk
    /\ SeqOk

(***************************************************************************)
(* Steps of the set-up, the clients and the session task.                  *)
(***************************************************************************)
\* A sequence number stays within its width.
LEMMA NextSeqType ==
    ASSUME NEW n \in 0 .. SeqMod - 1
    PROVE  NextSeq(n) \in 0 .. SeqMod - 1
BY ServerAssumption DEF NextSeq

\* Setting the server up concerns no session.
LEMMA StartKeeps ==
    ASSUME Inv, ServerStart
    PROVE  Inv'
<1>1. /\ UNCHANGED <<serverVars, srv, cur, backlog, clientVars, camVars, historyVars>>
      /\ boot' \in {"none", "lock", "udp", "listening", "dead"} /\ s_udp' \in BOOLEAN
  BY DEF Inv, TypeOK, ServerStart, CreateLock, OpenUdp, Listen
<1> QED BY <1>1 DEF Inv, TypeOK, ServingOk, StreamFollowsSession, CopyOk, SeqOk, serverVars,
              clientVars, camVars, historyVars

\* A client that connects, asks or leaves touches nothing of the server's.
LEMMA ClientKeeps ==
    ASSUME Inv, ClientSteps
    PROVE  Inv'
<1> PICK c \in Clients : Connect(c) \/ Request(c) \/ Leave(c)
  BY DEF ClientSteps
<1>1. /\ UNCHANGED <<bootVars, serverVars, srv, cur, camVars, historyVars>>
      /\ TypeOK
  BY DEF Inv, Connect, Request, Leave
<1>2. /\ backlog' \in Seq(Clients) /\ Len(backlog') <= Backlog
      /\ phase' \in [Clients -> {"out", "in", "closed"}]
      /\ unread' \subseteq Clients
  <2>1. CASE Connect(c)
    BY <1>1, <2>1, ServerAssumption DEF Connect, TypeOK
  <2>2. CASE Request(c)
    BY <1>1, <2>2 DEF Request, TypeOK
  <2>3. CASE Leave(c)
    BY <1>1, <2>3 DEF Leave, TypeOK
  <2> QED BY <2>1, <2>2, <2>3
<1>3. TypeOK'
  BY <1>1, <1>2 DEF TypeOK, bootVars, serverVars, camVars, historyVars
<1>4. ServingOk' /\ StreamFollowsSession' /\ CopyOk' /\ SeqOk'
  BY <1>1 DEF Inv, ServingOk, StreamFollowsSession, CopyOk, SeqOk, serverVars, camVars,
              historyVars
<1> QED BY <1>3, <1>4 DEF Inv

\* accept opens a session that nobody has set up yet.
LEMMA AcceptKeeps ==
    ASSUME Inv, Accept
    PROVE  Inv'
<1>1. /\ TypeOK /\ ServingOk /\ CopyOk /\ SeqOk
      /\ srv = "accept" /\ srv' = "serve"
      /\ cur' = Head(backlog) /\ backlog' = Tail(backlog) /\ backlog # << >>
      /\ session' = session + 1 /\ session < MaxSessions
      /\ UNCHANGED <<bootVars, serverVars, clientVars, camVars, owner, player, over, wire, late>>
  BY DEF Inv, Accept
<1>2. /\ cur' \in Clients
      /\ backlog' \in Seq(Clients)
      /\ Len(backlog') <= Backlog
      /\ session' \in Sessions
      /\ session' \notin over
      /\ over \subseteq 1 .. session'
      /\ owner \in 0 .. session' /\ owner # session'
  BY <1>1, ServerAssumption DEF TypeOK, ServingOk, Sessions
<1>3. TypeOK'
  BY <1>1, <1>2 DEF TypeOK, Sessions, bootVars, serverVars, clientVars, camVars
<1>4. ServingOk'
  BY <1>1, <1>2 DEF ServingOk, Sessions
<1>5. StreamFollowsSession' /\ CopyOk' /\ SeqOk'
  BY <1>1 DEF ServingOk, StreamFollowsSession, CopyOk, SeqOk, serverVars, camVars
<1> QED BY <1>3, <1>4, <1>5 DEF Inv

\* Requests that are only answered.
LEMMA InfoKeeps ==
    ASSUME Inv, HandleInfo
    PROVE  Inv'
<1>1. /\ unread' = unread \ {cur} /\ UNCHANGED phase
      /\ UNCHANGED <<bootVars, serverVars, srv, cur, backlog, camVars, historyVars>>
      /\ TypeOK
  BY DEF Inv, HandleInfo, Answered
<1>2. TypeOK'
  BY <1>1 DEF TypeOK, bootVars, serverVars, camVars, historyVars
<1>3. ServingOk' /\ StreamFollowsSession' /\ CopyOk' /\ SeqOk'
  BY <1>1 DEF Inv, ServingOk, StreamFollowsSession, CopyOk, SeqOk, serverVars, camVars,
              historyVars
<1> QED BY <1>2, <1>3 DEF Inv

\* SETUP makes the client being served the owner of s_dest.
LEMMA SetupKeeps ==
    ASSUME Inv, HandleSetup
    PROVE  Inv'
<1> PICK port \in Ports : s_dest' = [client |-> cur, port |-> port]
  BY DEF HandleSetup
<1>1. /\ srv = "serve" /\ unread' = unread \ {cur} /\ UNCHANGED phase
      /\ owner' = session
      /\ UNCHANGED <<bootVars, s_streaming, s_seq, srv, cur, backlog, camVars,
                     session, player, over, wire, late>>
      /\ TypeOK /\ ServingOk
  BY DEF Inv, HandleSetup, Answered
<1>2. /\ cur \in Clients /\ session \in Sessions
      /\ s_dest' \in Dests /\ s_dest'.client = cur
  BY <1>1 DEF ServingOk, Dests
<1>3. session \in 0 .. session /\ session \in 0 .. MaxSessions
  BY <1>1, <1>2 DEF TypeOK, Sessions
<1>4. TypeOK'
  BY <1>1, <1>2, <1>3 DEF TypeOK, bootVars, camVars
<1>5. ServingOk'
  BY <1>1, <1>2, <1>3 DEF ServingOk
<1>6. StreamFollowsSession' /\ CopyOk' /\ SeqOk'
  BY <1>1, <1>2 DEF Inv, StreamFollowsSession, CopyOk, SeqOk, camVars
<1> QED BY <1>4, <1>5, <1>6 DEF Inv

\* PLAY gives the stream to the session being served, set up or not.
LEMMA PlayKeeps ==
    ASSUME Inv, HandlePlay
    PROVE  Inv'
<1>1. /\ srv = "serve" /\ unread' = unread \ {cur} /\ UNCHANGED phase
      /\ s_streaming' = TRUE /\ player' = session
      /\ UNCHANGED <<bootVars, s_dest, s_seq, srv, cur, backlog, camVars,
                     session, owner, over, wire, late>>
      /\ TypeOK /\ ServingOk
  BY DEF Inv, HandlePlay, Answered
<1>2. cur \in Clients /\ session \in Sessions /\ session \notin over
  BY <1>1 DEF ServingOk
<1>3. TypeOK'
  BY <1>1 DEF TypeOK, bootVars, camVars
<1>4. ServingOk' /\ StreamFollowsSession'
  BY <1>1, <1>2, ServerAssumption DEF ServingOk, StreamFollowsSession
<1>5. CopyOk' /\ SeqOk'
  BY <1>1 DEF Inv, CopyOk, SeqOk, camVars
<1> QED BY <1>3, <1>4, <1>5 DEF Inv

\* Withdrawing the stream ends the current session and no other.
LEMMA WithdrawalOk ==
    ASSUME Inv, srv # "accept", over' = over \cup {session},
           UNCHANGED <<session, owner, wire, late, camVars, s_seq>>
    PROVE  /\ session \in Sessions
           /\ over' \subseteq Sessions /\ over' \subseteq 1 .. session'
           /\ CopyOk' /\ SeqOk'
BY DEF Inv, TypeOK, ServingOk, CopyOk, SeqOk, camVars, Sessions

\* TEARDOWN withdraws the stream and leaves the loop.
LEMMA TeardownKeeps ==
    ASSUME Inv, HandleTeardown
    PROVE  Inv'
<1>1. /\ srv = "serve" /\ unread' = unread \ {cur} /\ UNCHANGED phase
      /\ s_streaming' = FALSE /\ over' = over \cup {session} /\ srv' = "leave"
      /\ UNCHANGED <<bootVars, s_dest, s_seq, cur, backlog, camVars, session, owner, player,
                     wire, late>>
      /\ TypeOK /\ ServingOk
  BY DEF Inv, HandleTeardown, Answered
<1>2. /\ over' \subseteq Sessions /\ over' \subseteq 1 .. session' /\ session \in Sessions
      /\ CopyOk' /\ SeqOk'
  BY <1>1, WithdrawalOk
<1>3. TypeOK'
  BY <1>1, <1>2 DEF TypeOK, bootVars, camVars
<1>4. ServingOk' /\ StreamFollowsSession'
  BY <1>1, <1>2 DEF ServingOk, StreamFollowsSession
<1> QED BY <1>2, <1>3, <1>4 DEF Inv

\* The end of the connection only leaves the loop.
LEMMA EofKeeps ==
    ASSUME Inv, HandleEof
    PROVE  Inv'
<1>1. /\ srv = "serve" /\ srv' = "leave"
      /\ UNCHANGED <<bootVars, serverVars, cur, backlog, clientVars, camVars, historyVars>>
  BY DEF HandleEof
<1>2. TypeOK'
  BY <1>1 DEF Inv, TypeOK, bootVars, serverVars, clientVars, camVars, historyVars
<1>3. ServingOk' /\ StreamFollowsSession' /\ CopyOk' /\ SeqOk'
  BY <1>1 DEF Inv, ServingOk, StreamFollowsSession, CopyOk, SeqOk, serverVars, camVars,
              historyVars
<1> QED BY <1>2, <1>3 DEF Inv

\* The end of handle_client withdraws the stream and forgets the client.
LEMMA EndKeeps ==
    ASSUME Inv, EndSession
    PROVE  Inv'
<1>1. /\ srv = "leave" /\ srv' = "accept" /\ cur' = NoClient
      /\ s_streaming' = FALSE /\ over' = over \cup {session}
      /\ phase' = [phase EXCEPT ![cur] = "out"]
      /\ unread' = unread \ {cur}
      /\ UNCHANGED <<bootVars, s_dest, s_seq, backlog, camVars, session, owner, player,
                     wire, late>>
      /\ TypeOK /\ ServingOk
  BY DEF Inv, EndSession
<1>2. /\ over' \subseteq Sessions /\ over' \subseteq 1 .. session'
      /\ CopyOk' /\ SeqOk'
  BY <1>1, WithdrawalOk
<1>3. TypeOK'
  BY <1>1, <1>2 DEF TypeOK, bootVars, camVars
<1>4. ServingOk' /\ StreamFollowsSession'
  BY <1>1, <1>2 DEF ServingOk, StreamFollowsSession
<1> QED BY <1>2, <1>3, <1>4 DEF Inv

(***************************************************************************)
(* Steps of the encoder task.                                              *)
(***************************************************************************)
\* A frame is only begun for a session that has not ended.
LEMMA SnapshotKeeps ==
    ASSUME Inv, Snapshot
    PROVE  Inv'
<1> PICK n \in 0 .. MaxPackets :
           frame' = [dest |-> s_dest, seq |-> s_seq, left |-> n, session |-> player,
                     late |-> FALSE, sentTo |-> {}]
  BY DEF Snapshot, NoFrame
<1>1. /\ cam = "idle" /\ cam' = "send"
      /\ s_streaming
      /\ UNCHANGED <<bootVars, serverVars, srv, cur, backlog, clientVars, historyVars>>
      /\ TypeOK /\ ServingOk /\ StreamFollowsSession /\ CopyOk /\ SeqOk
  BY DEF Inv, Snapshot, Go
<1>2. player \in Sessions /\ player \notin over
  BY <1>1, ServerAssumption DEF TypeOK, ServingOk, StreamFollowsSession
<1>3. /\ frame'.session = player /\ ~frame'.late /\ frame'.sentTo = {}
      /\ frame'.seq = s_seq
  OBVIOUS
<1>4. TypeOK'
  <2>1. frame' \in [dest : Dests, seq : 0 .. SeqMod - 1, left : 0 .. MaxPackets,
                    session : 0 .. MaxSessions, late : BOOLEAN, sentTo : SUBSET Dests]
    <3>1. /\ s_dest \in Dests /\ s_seq \in 0 .. SeqMod - 1 /\ player \in 0 .. MaxSessions
          /\ {} \in SUBSET Dests /\ FALSE \in BOOLEAN
      BY <1>1 DEF TypeOK
    <3> QED BY <3>1
  <2> QED BY <1>1, <2>1 DEF TypeOK, bootVars, serverVars, clientVars, historyVars
<1>5. CopyOk'
  <2>2. UNCHANGED <<over, late>>
    BY <1>1 DEF historyVars
  <2>3. \A s \in Sessions : late[s] = 0 \/ (late[s] = 1 /\ s \in over)
    BY <1>1 DEF CopyOk
  <2> QED BY <1>1, <1>2, <1>3, <2>2, <2>3 DEF CopyOk
<1>6. SeqOk'
  BY <1>1, <1>3 DEF SeqOk, NextSeq, historyVars
<1>7. ServingOk' /\ StreamFollowsSession'
  BY <1>1 DEF Inv, ServingOk, StreamFollowsSession, serverVars, clientVars,
              historyVars
<1> QED BY <1>4, <1>5, <1>6, <1>7 DEF Inv

\* A packet advances cam_enc's copy of the sequence number only.
LEMMA PacketKeeps ==
    ASSUME Inv, SendPacket
    PROVE  Inv'
<1> PICK rest \in {frame.left - 1, 0} :
           frame' = [frame EXCEPT !.seq = NextSeq(frame.seq), !.left = rest,
                                  !.sentTo = frame.sentTo \cup {Target},
                                  !.late = frame.late \/ frame.session \in over]
  BY DEF SendPacket
<1>1. /\ cam = "send" /\ frame.left > 0
      /\ wire' = frame.seq
      /\ UNCHANGED <<bootVars, serverVars, srv, cur, backlog, clientVars, cam,
                     session, owner, player, over, late>>
      /\ TypeOK /\ CopyOk /\ SeqOk
  BY DEF Inv, SendPacket
<1>2. frame \in [dest : Dests, seq : 0 .. SeqMod - 1, left : 0 .. MaxPackets,
                 session : 0 .. MaxSessions, late : BOOLEAN, sentTo : SUBSET Dests]
  BY <1>1 DEF TypeOK
<1>3. rest \in 0 .. MaxPackets /\ NextSeq(frame.seq) \in 0 .. SeqMod - 1
  BY <1>1, <1>2, NextSeqType, ServerAssumption
<1>4. /\ frame'.seq = NextSeq(frame.seq)
      /\ frame'.dest = frame.dest
      /\ frame'.session = frame.session
      /\ frame'.sentTo = frame.sentTo \cup {frame.dest}
      /\ frame'.late => frame.late \/ frame.session \in over
  BY <1>2 DEF Target
<1>5. frame' \in [dest : Dests, seq : 0 .. SeqMod - 1, left : 0 .. MaxPackets,
                  session : 0 .. MaxSessions, late : BOOLEAN, sentTo : SUBSET Dests]
  BY <1>2, <1>3 DEF Target
<1>6. TypeOK'
  <2>1. wire' \in 0 .. SeqMod - 1
    BY <1>1, <1>2
  <2> QED BY <1>1, <1>5, <2>1 DEF TypeOK, bootVars, serverVars, clientVars
<1>7. CopyOk'
  BY <1>1, <1>4 DEF CopyOk
<1>8. SeqOk'
  BY <1>1, <1>4 DEF SeqOk, NextSeq
<1>9. ServingOk' /\ StreamFollowsSession'
  BY <1>1 DEF Inv, ServingOk, StreamFollowsSession, serverVars, clientVars
<1> QED BY <1>6, <1>7, <1>8, <1>9 DEF Inv

\* Writing back hands the sequence number over; a frame that outlived its
\* session is counted once.
LEMMA WriteBackKeeps ==
    ASSUME Inv, WriteBack
    PROVE  Inv'
<1>1. /\ cam = "send" /\ cam' = "idle"
      /\ s_seq' = frame.seq
      /\ late' = IF frame.late THEN [late EXCEPT ![frame.session] = late[frame.session] + 1]
                               ELSE late
      /\ frame' = NoFrame
      /\ UNCHANGED <<bootVars, s_streaming, s_dest, srv, cur, backlog, clientVars,
                     session, owner, player, over, wire>>
      /\ TypeOK /\ CopyOk /\ SeqOk
  BY DEF Inv, WriteBack, WrittenBack
<1>2. /\ late \in [Sessions -> Nat]
      /\ frame.session \in Sessions
      /\ late[frame.session] = 0
      /\ frame.late => frame.session \in over
  BY <1>1 DEF TypeOK, CopyOk
<1>3. \A s \in Sessions : late'[s] = 0 \/ (late'[s] = 1 /\ s \in over)
  BY <1>1, <1>2 DEF CopyOk
<1>4. late' \in [Sessions -> Nat]
  BY <1>1, <1>2
<1>5. TypeOK'
  <2>1. NoFrame \in [dest : Dests, seq : 0 .. SeqMod - 1, left : 0 .. MaxPackets,
                     session : 0 .. MaxSessions, late : BOOLEAN, sentTo : SUBSET Dests]
    BY ServerAssumption DEF NoFrame, NoDest, Dests
  <2>2. s_seq' \in 0 .. SeqMod - 1
    BY <1>1 DEF TypeOK
  <2> QED BY <1>1, <1>4, <2>1, <2>2 DEF TypeOK, bootVars, clientVars
<1>6. CopyOk'
  BY <1>1, <1>3 DEF CopyOk, NoFrame
<1>7. SeqOk'
  BY <1>1 DEF SeqOk, NextSeq
<1>8. ServingOk' /\ StreamFollowsSession'
  BY <1>1 DEF Inv, ServingOk, StreamFollowsSession, clientVars
<1> QED BY <1>5, <1>6, <1>7, <1>8 DEF Inv

(***************************************************************************)
(* Theorems.                                                               *)
(***************************************************************************)
\* The initial state satisfies the invariant.
LEMMA InitOk == Init => Inv
<1> SUFFICES ASSUME Init PROVE Inv
  OBVIOUS
<1>1. TypeOK
  <2>1. /\ NoDest \in Dests
        /\ backlog \in Seq(Clients) /\ Len(backlog) <= Backlog
        /\ phase \in [Clients -> {"out", "in", "closed"}]
        /\ unread \subseteq Clients
        /\ late \in [Sessions -> Nat]
    BY ServerAssumption DEF Init, NoDest, Dests, Sessions
  <2>2. frame \in [dest : Dests, seq : 0 .. SeqMod - 1, left : 0 .. MaxPackets,
                   session : 0 .. MaxSessions, late : BOOLEAN, sentTo : SUBSET Dests]
    BY <2>1, ServerAssumption DEF Init, NoFrame
  <2>3. wire \in 0 .. SeqMod - 1
    BY ServerAssumption DEF Init
  <2>4. /\ s_seq \in 0 .. SeqMod - 1 /\ session \in 0 .. MaxSessions
        /\ owner \in 0 .. MaxSessions /\ player \in 0 .. MaxSessions
        /\ over \subseteq Sessions
    BY ServerAssumption DEF Init
  <2>5. s_streaming \in BOOLEAN /\ s_udp \in BOOLEAN
    BY DEF Init
  <2> QED BY <2>1, <2>2, <2>3, <2>4, <2>5 DEF Init, TypeOK
<1>2. SeqOk
  <2>1. wire = SeqMod - 1 /\ s_seq = 0 /\ cam = "idle"
    BY DEF Init
  <2>2. (SeqMod - 1 + 1) % SeqMod = 0
    BY ServerAssumption
  <2> QED BY <2>1, <2>2 DEF SeqOk, NextSeq
<1>3. ServingOk /\ StreamFollowsSession
  BY ServerAssumption DEF Init, ServingOk, StreamFollowsSession
<1>4. CopyOk
  BY DEF Init, CopyOk, NoFrame, Sessions
<1> QED BY <1>1, <1>2, <1>3, <1>4 DEF Inv

\* Every step of either task, of the set-up or of a client keeps it.
LEMMA StepOk == Inv /\ [Next]_vars => Inv'
<1> SUFFICES ASSUME Inv, [Next]_vars PROVE Inv'
  OBVIOUS
<1>1. CASE ServerStart
  BY <1>1, StartKeeps
<1>2. CASE RtspTask
  BY <1>2, AcceptKeeps, InfoKeeps, SetupKeeps, PlayKeeps, TeardownKeeps, EofKeeps, EndKeeps
     DEF RtspTask
<1>3. CASE CamTask
  BY <1>3, SnapshotKeeps, PacketKeeps, WriteBackKeeps DEF CamTask
<1>4. CASE ClientSteps
  BY <1>4, ClientKeeps
<1>5. CASE UNCHANGED vars
  BY <1>5 DEF vars, Inv, TypeOK, ServingOk, StreamFollowsSession, CopyOk, SeqOk
<1> QED BY <1>1, <1>2, <1>3, <1>4, <1>5 DEF Next

\* Inv holds in every reachable state, with or without fairness.
THEOREM Invariance == Spec => []Inv
BY InitOk, StepOk, PTL DEF Spec

\* All shared variables, locals and client states keep their types.
THEOREM TypeCorrect == Spec => []TypeOK
<1>1. Inv => TypeOK
  BY DEF Inv
<1> QED BY <1>1, Invariance, PTL

\* The stream runs only for the session that asked PLAY and is being served, and
\* goes to its client unless that session sent no SETUP.
THEOREM StreamIsCurrent == Spec => []StreamFollowsSession
<1>1. Inv => StreamFollowsSession
  BY DEF Inv
<1> QED BY <1>1, Invariance, PTL

\* At most one frame of a session is still being sent after the session ended.
THEOREM OneLateFrame == Spec => []AtMostOneLateFrame
<1>1. Inv => AtMostOneLateFrame
  BY DEF Inv, CopyOk, AtMostOneLateFrame, TypeOK
<1> QED BY <1>1, Invariance, PTL

\* All packets of a frame go to one address.
THEOREM OneDestination == Spec => []FrameToOneDest
<1>1. Inv => FrameToOneDest
  <2> SUFFICES ASSUME Inv PROVE FrameToOneDest
    OBVIOUS
  <2>1. frame.sentTo = {} \/ frame.sentTo = {frame.dest}
    BY DEF Inv, CopyOk
  <2>2. Cardinality({}) = 0 /\ Cardinality({frame.dest}) = 1
    BY FS_EmptySet, FS_Singleton
  <2> QED BY <2>1, <2>2 DEF FrameToOneDest
<1> QED BY <1>1, Invariance, PTL

\* Every packet carries the successor of the last number sent, whichever
\* variable holds it at that moment.
THEOREM SeqIsConsecutive == Spec => SeqConsecutive
<1>1. Inv /\ [Next]_vars => [wire' # wire => wire' = (wire + 1) % SeqMod]_vars
  <2> SUFFICES ASSUME Inv, Next, wire' # wire
               PROVE  wire' = (wire + 1) % SeqMod
    OBVIOUS
  <2>1. SendPacket
    BY DEF Next, ServerStart, CreateLock, OpenUdp, Listen, RtspTask, CamTask, ClientSteps,
           Accept, HandleInfo, HandleSetup, HandlePlay, HandleTeardown, HandleEof, EndSession,
           Snapshot, WriteBack, Connect, Request, Leave, historyVars
  <2> QED BY <2>1 DEF SendPacket, Inv, SeqOk, NextSeq
<1> QED BY <1>1, Invariance, PTL DEF Spec, SeqConsecutive

\* The server implements the single-stream grant: only the session being served
\* starts and aims the stream, and it loses it before another session begins.
THEOREM ImplementsGrant == Spec => GrantSpec
<1> DEFINE to == IF s_streaming THEN player ELSE 0
<1>1. Init => Grant!Init
  BY DEF Init, Grant!Init
<1>2. Inv /\ [Next]_vars => [Grant!Next]_<<to, owner, over>>
  <2> SUFFICES ASSUME Inv, [Next]_vars PROVE [Grant!Next]_<<to, owner, over>>
    OBVIOUS
  <2>1. srv = "serve" => session \in Sessions /\ Grant!Entitled(session)
    BY DEF Inv, ServingOk, StreamFollowsSession, Grant!Entitled
  <2>2. CASE HandlePlay
    <3>1. to' = session /\ srv = "serve" /\ UNCHANGED <<owner, over>>
      BY <2>2 DEF HandlePlay, Answered
    <3> QED BY <2>1, <3>1 DEF Grant!Next, Grant!Grant
  <2>3. CASE HandleSetup
    <3>1. owner' = session /\ srv = "serve" /\ UNCHANGED <<to, over>>
      BY <2>3 DEF HandleSetup, Answered
    <3> QED BY <2>1, <3>1 DEF Grant!Next, Grant!Aim
  <2>4. CASE HandleTeardown \/ EndSession
    <3>1. /\ to' = 0 /\ over' = over \cup {session} /\ UNCHANGED owner
          /\ srv # "accept"
      BY <2>4 DEF HandleTeardown, EndSession, Answered
    <3>2. session \in Sessions /\ to \in {0, session}
      BY <3>1 DEF Inv, ServingOk, StreamFollowsSession
    <3>3. CASE session \in over
      <4>1. ~s_streaming
        BY <3>3 DEF Inv, StreamFollowsSession
      <4> QED BY <3>1, <3>3, <4>1
    <3>4. CASE session \notin over
      BY <3>1, <3>2, <3>4 DEF Grant!Next, Grant!Withdraw, Grant!Entitled
    <3> QED BY <3>3, <3>4
  <2>5. \/ HandlePlay \/ HandleSetup \/ HandleTeardown \/ EndSession
        \/ UNCHANGED <<s_streaming, player, owner, over>>
    BY DEF Next, ServerStart, CreateLock, OpenUdp, Listen, RtspTask, CamTask, ClientSteps,
           Accept, HandleInfo, HandleEof, Snapshot, SendPacket, WriteBack, Connect, Request,
           Leave, vars, serverVars, historyVars
  <2>6. CASE UNCHANGED <<s_streaming, player, owner, over>>
    BY <2>6
  <2> QED BY <2>2, <2>3, <2>4, <2>5, <2>6
<1> QED BY <1>1, <1>2, Invariance, PTL DEF Spec, GrantSpec, Grant!Spec
============================================================================
