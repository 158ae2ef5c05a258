------------------------------ MODULE RtpH264 ------------------------------
(***************************************************************************)
(* The RTP/H.264 (RFC 6184) media path of one direction: rtp_send_h264     *)
(* sends each NAL unit of an access unit as one packet or as FU-A          *)
(* fragments, a datagram network loses, repeats and reorders them, and     *)
(* RtpH264Reassembler::feed appends what arrives to one buffer, which it   *)
(* hands over at a marked packet.  It looks at neither sequence numbers    *)
(* nor timestamps.                                                         *)
(*                                                                         *)
(* A byte is <<access unit, NAL unit, position>>, so the buffer shows      *)
(* whose bytes it holds; the access unit's number stands for the RTP       *)
(* timestamp, and start codes are of access unit 0.                        *)
(***************************************************************************)
EXTENDS AnnexB, FiniteSets

CONSTANTS MaxPacket,   \* RTP_MAX_PACKET
          RtpHdr,      \* RTP header, 12
          FuHdr,       \* FU indicator and header, 2
          StartLen,    \* start code written by feed, 4
          FrameCap,    \* frame_cap_
          UnitKinds,   \* access units: the lengths of their NAL units
          MaxUnits,    \* bound: access units sent
          MaxFaults    \* bound: packets lost, repeated or overtaken

ASSUME RtpH264Assumption ==
    /\ RtpHdr \in Nat /\ FuHdr \in Nat /\ StartLen \in Nat \ {0}
    /\ MaxPacket \in Nat /\ MaxPacket > RtpHdr + FuHdr
    /\ FrameCap \in Nat /\ FrameCap > StartLen + MaxPacket
    /\ UnitKinds \subseteq Seq(Nat)
    /\ MaxUnits \in Nat /\ MaxFaults \in Nat

\* A NAL unit has its header byte: the last one written, and the last one sent
\* when split_nals returns MaxNals of more, is not empty.
ASSUME UnitKindsAssumption ==
    \A kind \in UnitKinds \ {<< >>} :
        kind[Len(kind)] > 0 /\ kind[Min({Len(kind), MaxNals})] > 0

VARIABLES
    sent,        \* the access units handed to rtp_send_h264
    nal, off,    \* the NAL unit being sent (0: none) and how far
    nextId,      \* packets sent so far (orders them; the code's seq)
    net,         \* packets on their way
    buffer,      \* the object's frame_: "uninit", "null" or "ready"
    frame, len,  \* its bytes and len_
    delivered,   \* history: what cb_ was called with
    disturbed,   \* history: access units with a packet lost, repeated or overtaken
    faults       \* bound counter

senderVars == <<sent, nal, off, nextId>>
reasmVars == <<buffer, frame, len, delivered>>
vars == <<senderVars, net, reasmVars, disturbed, faults>>

Init ==
    /\ sent = << >> /\ nal = 0 /\ off = 0 /\ nextId = 0
    /\ net = {}
    /\ buffer = "uninit" /\ frame = << >> /\ len = 0
    /\ delivered = << >>
    /\ disturbed = {} /\ faults = 0

(***************************************************************************)
(* rtp_send_h264.                                                          *)
(***************************************************************************)
\* The first NAL unit behind k that is not empty, 0 if there is none.
NextNal(unit, k) ==
    LET rest == {j \in k + 1 .. Len(unit) : unit[j] > 0}
    IN IF rest = {} THEN 0 ELSE Min(rest)

\* An access unit as the encoder writes it: NAL units of these lengths behind
\* start codes of three bytes or, those in four, of four.
Encoded(kind, four) ==
    Compose([k \in DOMAIN kind |-> [i \in 1 .. kind[k] |-> 1]], four)

Lengths(nals) == [k \in DOMAIN nals |-> Len(nals[k])]

StartUnit ==
    /\ nal = 0
    /\ Len(sent) < MaxUnits
    /\ \E kind \in UnitKinds : \E four \in SUBSET DOMAIN kind :
          LET unit == Lengths(split_nals(Encoded(kind, four)))
          IN /\ unit # << >>
             /\ sent' = Append(sent, unit)
             /\ nal' = NextNal(unit, 0)
    /\ off' = 0
    /\ UNCHANGED <<nextId, net, reasmVars, disturbed, faults>>

Single(n) == n + RtpHdr <= MaxPacket

\* Mutants of Chunk and Marker: the FU header is forgotten; every NAL unit
\* ends an access unit.
ChunkNoFuHdr(rem) == Min({rem, MaxPacket - RtpHdr})
MarkerPerNal(unit, k, end) == end

Chunk(rem) == Min({rem, MaxPacket - RtpHdr - FuHdr})

Marker(unit, k, end) == end /\ k = Len(unit)

\* The packet of one call of sendto.  A fragmented unit's header byte travels
\* in the FU header of its first fragment.
Outgoing ==
    LET unit  == sent[Len(sent)]
        n     == unit[nal]
        fu    == ~Single(n)
        from  == IF fu /\ off = 0 THEN 1 ELSE off
        chunk == IF fu THEN Chunk(n - from) ELSE n
        end   == from + chunk = n
    IN [id |-> nextId, ts |-> Len(sent), nal |-> nal, fu |-> fu, start |-> off = 0,
        from |-> from, n |-> chunk, marker |-> Marker(unit, nal, end), end |-> end]

\* One iteration; the result of sendto is not looked at.
SendPacket ==
    /\ nal # 0
    /\ net' = net \cup {Outgoing}
    /\ nextId' = nextId + 1
    /\ off' = IF Outgoing.end THEN 0 ELSE Outgoing.from + Outgoing.n
    /\ nal' = IF Outgoing.end THEN NextNal(sent[Len(sent)], nal) ELSE nal
    /\ UNCHANGED <<sent, reasmVars, disturbed, faults>>

(***************************************************************************)
(* RtpH264Reassembler.                                                     *)
(***************************************************************************)
ReassemblerInit ==
    /\ buffer = "uninit"
    /\ buffer' \in {"null", "ready"}
    /\ frame' = << >> /\ len' = 0
    /\ UNCHANGED <<senderVars, net, delivered, disturbed, faults>>

\* n bytes of NAL unit k of access unit ts; kStartCode.
Piece(ts, k, from, n) == [i \in 1 .. n |-> <<ts, k, from + i - 1>>]
kStartCode == Piece(0, 0, 0, StartLen)

\* Mutant of AppendPiece: no test for room.
AppendPieceUnguarded(r, d) == [frame |-> r.frame \o d, len |-> r.len + Len(d)]

\* append: a piece that does not fit is dropped.
AppendPiece(r, d) ==
    IF r.len + Len(d) <= FrameCap
    THEN [frame |-> r.frame \o d, len |-> r.len + Len(d)]
    ELSE r

\* A packet's pieces: start code and header byte if it begins a NAL unit, payload.
Appended(p) ==
    LET started == AppendPiece([frame |-> frame, len |-> len],
                               IF p.start THEN kStartCode ELSE << >>)
        headed  == AppendPiece(started, IF p.start /\ p.fu THEN Piece(p.ts, p.nal, 0, 1) ELSE << >>)
    IN AppendPiece(headed, Piece(p.ts, p.nal, p.from, p.n))

\* The Annex-B form of an access unit.
Whole(ts) ==
    FlattenSeq([k \in DOMAIN sent[ts] |->
                   IF sent[ts][k] = 0 THEN << >>
                   ELSE kStartCode \o Piece(ts, k, 0, sent[ts][k])])

\* What cb_ receives, as far as the properties tell it apart: whose bytes, and
\* whether they are one access unit.
Owners(bytes) == {bytes[i][1] : i \in DOMAIN bytes} \ {0}
Delivery(bytes) ==
    [from |-> Owners(bytes), whole |-> \E ts \in Owners(bytes) : bytes = Whole(ts)]

\* Mutant of AfterDelivery: len_ is not reset.
AfterDeliveryKeeps(r) == r

AfterDelivery(r) == [frame |-> << >>, len |-> 0]

Feed(p) ==
    \/ buffer = "null" /\ UNCHANGED reasmVars
    \/ /\ buffer = "ready"
       /\ LET r    == Appended(p)
              done == p.marker /\ r.len > 0
              next == IF done THEN AfterDelivery(r) ELSE r
          IN /\ delivered' = IF done THEN Append(delivered, Delivery(r.frame)) ELSE delivered
             /\ frame' = next.frame
             /\ len' = next.len
       /\ UNCHANGED buffer

(***************************************************************************)
(* The network, as in RtpJpeg.                                             *)
(***************************************************************************)
Before(p) == {q \in net : q.id < p.id}

Receive ==
    /\ buffer # "uninit"
    /\ \E p \in net : Before(p) = {} /\ Feed(p) /\ net' = net \ {p}
    /\ UNCHANGED <<senderVars, disturbed, faults>>

Fault(units) ==
    /\ faults < MaxFaults
    /\ faults' = faults + 1
    /\ disturbed' = disturbed \cup units

Overtake ==
    /\ buffer # "uninit"
    /\ \E p \in net : /\ Before(p) # {}
                      /\ Fault({p.ts} \cup {q.ts : q \in Before(p)})
                      /\ Feed(p)
                      /\ net' = net \ {p}
    /\ UNCHANGED senderVars

Repeat ==
    /\ buffer # "uninit"
    /\ \E p \in net : Fault({p.ts} \cup {q.ts : q \in Before(p)}) /\ Feed(p)
    /\ UNCHANGED <<senderVars, net>>

Lose ==
    /\ \E p \in net : Fault({p.ts}) /\ net' = net \ {p}
    /\ UNCHANGED <<senderVars, reasmVars>>

Next == StartUnit \/ SendPacket \/ ReassemblerInit \/ Receive \/ Overtake \/ Repeat \/ Lose

Spec == Init /\ [][Next]_vars

(***************************************************************************)
(* Properties.                                                             *)
(***************************************************************************)
Packets == [id : Nat, ts : 1 .. MaxUnits, nal : Nat, fu : BOOLEAN, start : BOOLEAN,
            from : Nat, n : Nat, marker : BOOLEAN, end : BOOLEAN]

\* Types of the sender's locals, the packets and the reassembler's fields; len_
\* never exceeds the allocation.
TypeOK ==
    /\ sent \in Seq(Seq(Nat)) /\ Len(sent) <= MaxUnits
    /\ nal \in Nat /\ off \in Nat /\ nextId \in Nat /\ faults \in 0 .. MaxFaults
    /\ net \subseteq Packets
    /\ buffer \in {"uninit", "null", "ready"}
    /\ len \in 0 .. FrameCap
    /\ delivered \in Seq([from : SUBSET (1 .. MaxUnits), whole : BOOLEAN])
    /\ disturbed \subseteq 1 .. MaxUnits

\* Every packet rtp_send_h264 builds keeps to RTP_MAX_PACKET and carries
\* something, whether a NAL unit fits exactly or exceeds it by one byte.
PacketsFit ==
    \A p \in net : p.n > 0 /\ RtpHdr + (IF p.fu THEN FuHdr ELSE 0) + p.n <= MaxPacket

\* split_nals finds the NAL units of every stream an encoder may write, whatever
\* start codes separate them, and those are what is sent.
SplitIsRight ==
    /\ sent = << >> => StreamsSplit
    /\ \A ts \in DOMAIN sent :
          \E kind \in UnitKinds : sent[ts] = SubSeq(kind, 1, Min({Len(kind), MaxNals}))

Fits(ts) == Len(Whole(ts)) <= FrameCap

Settled(ts) == (ts < Len(sent) \/ nal = 0) /\ \A p \in net : p.ts # ts

\* One undisturbed access unit is enough to resynchronise: the one after it,
\* if undisturbed too and not too large, is delivered once and whole, whatever
\* was left in the buffer before.
Resynchronises ==
    buffer = "ready" =>
        \A ts \in DOMAIN sent :
            (/\ Settled(ts) /\ ts \notin disturbed /\ Fits(ts)
             /\ ts = 1 \/ (ts - 1 \notin disturbed /\ Settled(ts - 1))) =>
                Cardinality({i \in DOMAIN delivered :
                                delivered[i].from = {ts} /\ delivered[i].whole}) = 1

\* Damage is local.  A lost marked packet makes feed append the next access unit
\* to the unfinished one and hand both over as one (rtp.h:51 promises access
\* units); that is the only way to mix them: what is delivered without a byte of a
\* disturbed or an oversized access unit is exactly one access unit.
DamageIsLocal ==
    \A i \in DOMAIN delivered :
        (\A ts \in delivered[i].from : ts \notin disturbed /\ Fits(ts))
            => delivered[i].whole
============================================================================
