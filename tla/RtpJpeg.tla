------------------------------ MODULE RtpJpeg ------------------------------
(***************************************************************************)
(* The RTP/JPEG (RFC 2435) media path of one direction of the video link:  *)
(* rtp_send_jpeg cuts each JPEG into packets (one sendto per loop          *)
(* iteration), a datagram network loses, repeats and reorders them, and    *)
(* RtpJpegReassembler::feed rebuilds frames in one buffer that it reuses   *)
(* from frame to frame.                                                    *)
(*                                                                         *)
(* Bytes are counted, not stored.  A cell of the working buffer holds the  *)
(* number of the frame that wrote it last (0: what malloc left there); a   *)
(* frame's number stands for its RTP timestamp, so a cell whose number is  *)
(* not the frame's own is a stale byte.                                    *)
(***************************************************************************)
EXTENDS Integers, Sequences, FiniteSets

CONSTANTS MaxPacket,   \* RTP_MAX_PACKET
          RtpHdr,      \* RTP header and RTP/JPEG header, 12 + 8
          TableHdr,    \* quantization table header, 4
          TableLen,    \* one quantization table, 64
          JpegHdr,     \* rebuilt JPEG header without its DQT segments
          DqtLen,      \* one DQT segment of the rebuilt header, 69
          FrameCap,    \* frame_cap_
          FrameKinds,  \* the frames the encoder may produce
          MaxFrames,   \* bound: frames sent
          MaxFaults    \* bound: packets lost, repeated, overtaken or refused

ASSUME SizesAssumption ==
    /\ MaxPacket \in Nat /\ RtpHdr \in Nat /\ TableHdr \in Nat
    /\ JpegHdr \in Nat /\ DqtLen \in Nat /\ FrameCap \in Nat
    /\ TableLen \in Nat \ {0}
    /\ MaxPacket > RtpHdr + TableHdr + 2 * TableLen
    /\ FrameCap > JpegHdr + 2 * DqtLen + 2
ASSUME KindsAssumption == FrameKinds \subseteq [scan : Nat \ {0}, tables : {1, 2}]
ASSUME BoundsAssumption == MaxFrames \in Nat /\ MaxFaults \in Nat

VARIABLES
    sent,       \* the frames handed to rtp_send_jpeg so far; index = timestamp
    sending,    \* rtp_send_jpeg is inside its packet loop
    offset,     \* its local `offset'
    nextId,     \* packets built so far (orders them; the code's seq)
    net,        \* packets on their way
    reasm,      \* the RtpJpegReassembler object
    delivered,  \* history: what cb_ was called with
    disturbed,  \* history: frames with a packet lost, repeated or overtaken
    faults      \* bound counter

senderVars == <<sent, sending, offset, nextId>>
vars == <<sent, sending, offset, nextId, net, reasm, delivered, disturbed, faults>>

Cells == 0 .. FrameCap - 1
Timestamps == 1 .. MaxFrames

Packets == [id : Nat, ts : Timestamps, offset : Nat, tlen : Nat,
            paylen : Nat, marker : BOOLEAN]

(***************************************************************************)
(* Payloader.                                                              *)
(***************************************************************************)
\* Length of the header make_jpeg_header rebuilds with this many DQT segments.
HeaderLen(tables) == JpegHdr + tables * DqtLen

\* Mutant of PacketAt: the first packet's room ignores the tables it carries.
PacketAtFullFirst(ts, kind, off, id) ==
    LET tables == IF off = 0 THEN TableHdr + kind.tables * TableLen ELSE 0
        maxpay == MaxPacket - RtpHdr
        rem    == kind.scan - off
        chunk  == IF rem > maxpay THEN maxpay ELSE rem
    IN [id |-> id, ts |-> ts, offset |-> off, marker |-> chunk = rem,
        tlen |-> IF off = 0 THEN kind.tables * TableLen ELSE 0, paylen |-> tables + chunk]

\* The packet one iteration of the loop builds at `off' of frame `ts'.
PacketAt(ts, kind, off, id) ==
    LET first     == off = 0
        tables    == IF first THEN TableHdr + kind.tables * TableLen ELSE 0
        maxpay    == MaxPacket - (RtpHdr + tables)
        remaining == kind.scan - off
        chunk     == IF remaining > maxpay THEN maxpay ELSE remaining
    IN [id     |-> id,
        ts     |-> ts,
        offset |-> off,
        tlen   |-> IF first THEN kind.tables * TableLen ELSE 0,
        paylen |-> tables + chunk,
        marker |-> chunk = remaining]

\* Scan bytes of a packet: its payload behind the quantization tables.
Scan(p) == p.paylen - (IF p.offset = 0 THEN TableHdr + p.tlen ELSE 0)

\* rtp_send_jpeg enters its loop with a frame that parse_jpeg accepted.
StartFrame ==
    /\ ~sending
    /\ Len(sent) < MaxFrames
    /\ \E kind \in FrameKinds : sent' = Append(sent, kind)
    /\ sending' = TRUE
    /\ offset' = 0
    /\ UNCHANGED <<nextId, net, reasm, delivered, disturbed, faults>>

Outgoing == PacketAt(Len(sent), sent[Len(sent)], offset, nextId)

\* One iteration whose sendto succeeds; the last one leaves the loop.
SendPacket ==
    /\ sending
    /\ net' = net \cup {Outgoing}
    /\ nextId' = nextId + 1
    /\ offset' = offset + Scan(Outgoing)
    /\ sending' = ~Outgoing.marker
    /\ UNCHANGED <<sent, reasm, delivered, disturbed, faults>>

\* One iteration whose sendto fails: seq still advances, the frame is given up.
SendFails ==
    /\ sending
    /\ faults < MaxFaults
    /\ faults' = faults + 1
    /\ nextId' = nextId + 1
    /\ sending' = FALSE
    /\ disturbed' = disturbed \cup {Len(sent)}
    /\ UNCHANGED <<sent, offset, net, reasm, delivered>>

(***************************************************************************)
(* Reassembler.  Its fields keep the source's names without the trailing   *)
(* underscore; `frame' is the working buffer, `buffer' tells whether init  *)
(* has run and whether malloc gave it memory.                              *)
(***************************************************************************)
NoObject == [buffer |-> "uninit", header_len |-> 0, scan_len |-> 0,
             have_header |-> FALSE, cur_ts |-> 0, frame |-> [c \in Cells |-> 0]]

\* reset_frame: the buffer keeps its bytes and cur_ts its value.
ResetFrame(r) == [r EXCEPT !.header_len = 0, !.scan_len = 0, !.have_header = FALSE]

\* memcpy of frame ts's bytes to the n cells from `pos' on.  A write outside
\* the allocation would add a cell to the function's domain.
Copy(f, pos, n, ts) ==
    [c \in DOMAIN f \cup (pos .. pos + n - 1) |-> IF c \in pos .. pos + n - 1 THEN ts ELSE f[c]]

\* client_task calls init once, with the stream already playing; heap_caps_malloc
\* may fail.
ReassemblerInit ==
    /\ reasm.buffer = "uninit"
    /\ \E b \in {"null", "ready"} : reasm' = [ResetFrame(reasm) EXCEPT !.buffer = b]
    /\ UNCHANGED <<sent, sending, offset, nextId, net, delivered, disturbed, faults>>

\* The checks feed makes on a packet before it touches the object.
Accepted(p) ==
    p.offset = 0 => /\ p.paylen >= TableHdr
                    /\ p.tlen <= 2 * TableLen
                    /\ p.tlen <= p.paylen - TableHdr

\* qlen / 64, and at least one segment.
Tables(qlen) == IF qlen \div TableLen < 1 THEN 1 ELSE qlen \div TableLen

\* Mutant of AfterStart: a frame is only started when none is under way.
AfterStartOnlyIdle(r, p) ==
    IF p.offset = 0 /\ ~r.have_header
    THEN LET hl == HeaderLen(Tables(p.tlen))
         IN [r EXCEPT !.header_len = hl, !.scan_len = 0, !.have_header = TRUE,
                      !.cur_ts = p.ts, !.frame = Copy(r.frame, 0, hl, p.ts)]
    ELSE r

\* A packet at offset 0 writes a new header and restarts the frame.
AfterStart(r, p) ==
    IF p.offset = 0
    THEN LET hl == HeaderLen(Tables(p.tlen))
         IN [r EXCEPT !.header_len = hl, !.scan_len = 0, !.have_header = TRUE,
                      !.cur_ts = p.ts, !.frame = Copy(r.frame, 0, hl, p.ts)]
    ELSE r

\* Mutants of Stores: no overflow guard; a guard without room for the EOI.
StoresUnguarded(r, p) == r.have_header /\ p.ts = r.cur_ts
StoresNoEoiRoom(r, p) ==
    /\ r.have_header
    /\ p.ts = r.cur_ts
    /\ r.header_len + p.offset + Scan(p) <= FrameCap

\* Not a mid-frame join, not another frame's packet, and within the buffer.
Stores(r, p) ==
    /\ r.have_header
    /\ p.ts = r.cur_ts
    /\ r.header_len + p.offset + Scan(p) + 2 <= FrameCap

Stored(r, p) ==
    LET end == p.offset + Scan(p)
    IN [r EXCEPT !.frame = Copy(r.frame, r.header_len + p.offset, Scan(p), p.ts),
                 !.scan_len = IF end > r.scan_len THEN end ELSE r.scan_len]

\* The two EOI bytes behind the scan.
WithEoi(r) == [r EXCEPT !.frame = Copy(r.frame, r.header_len + r.scan_len, 2, r.cur_ts)]

Total(r) == r.header_len + r.scan_len + 2

\* What cb_ receives: length, and whose bytes the frame is made of.
Delivery(r) ==
    [ts   |-> r.cur_ts,
     len  |-> Total(r),
     from |-> {r.frame[c] : c \in 0 .. Total(r) - 1}]

\* feed returns early: no buffer, a bad packet, or nothing to store.
FeedDrops(p) ==
    /\ \/ /\ reasm.buffer = "null" \/ ~Accepted(p)
          /\ reasm' = reasm
       \/ /\ reasm.buffer = "ready"
          /\ Accepted(p)
          /\ ~Stores(AfterStart(reasm, p), p)
          /\ reasm' = AfterStart(reasm, p)
    /\ UNCHANGED delivered

\* Mutant of FeedStores: every stored packet is handed to cb_.
FeedStoresHandsOver(p) ==
    /\ reasm.buffer = "ready"
    /\ Stores(AfterStart(reasm, p), p)
    /\ ~p.marker
    /\ reasm' = Stored(AfterStart(reasm, p), p)
    /\ delivered' = Append(delivered, Delivery(Stored(AfterStart(reasm, p), p)))

\* feed stores the packet and waits for more.
FeedStores(p) ==
    /\ reasm.buffer = "ready"
    /\ Accepted(p)
    /\ Stores(AfterStart(reasm, p), p)
    /\ ~p.marker
    /\ reasm' = Stored(AfterStart(reasm, p), p)
    /\ UNCHANGED delivered

\* feed stores the marked packet, closes the frame and hands it to cb_.
FeedDelivers(p) ==
    /\ reasm.buffer = "ready"
    /\ Accepted(p)
    /\ Stores(AfterStart(reasm, p), p)
    /\ p.marker
    /\ LET done == WithEoi(Stored(AfterStart(reasm, p), p))
       IN /\ delivered' = Append(delivered, Delivery(done))
          /\ reasm' = ResetFrame(done)

Feed(p) == FeedDrops(p) \/ FeedStores(p) \/ FeedDelivers(p)

(***************************************************************************)
(* The network.  recvfrom exists only once client_task is past init.       *)
(***************************************************************************)
Older(p) == {q \in net : q.id < p.id}

\* In order: the oldest packet on its way arrives.
Receive ==
    /\ reasm.buffer # "uninit"
    /\ \E p \in net : /\ Older(p) = {}
                      /\ Feed(p)
                      /\ net' = net \ {p}
    /\ UNCHANGED <<sent, sending, offset, nextId, disturbed, faults>>

Fault == faults < MaxFaults /\ faults' = faults + 1

\* A packet overtakes older ones.
Overtake ==
    /\ reasm.buffer # "uninit"
    /\ Fault
    /\ \E p \in net : /\ Older(p) # {}
                      /\ Feed(p)
                      /\ net' = net \ {p}
                      /\ disturbed' = disturbed \cup {p.ts} \cup {q.ts : q \in Older(p)}
    /\ UNCHANGED <<sent, sending, offset, nextId>>

\* A copy of a packet arrives and another copy stays on its way.
Repeat ==
    /\ reasm.buffer # "uninit"
    /\ Fault
    /\ \E p \in net : /\ Feed(p)
                      /\ disturbed' = disturbed \cup {p.ts} \cup {q.ts : q \in Older(p)}
    /\ UNCHANGED <<sent, sending, offset, nextId, net>>

Lose ==
    /\ Fault
    /\ \E p \in net : net' = net \ {p} /\ disturbed' = disturbed \cup {p.ts}
    /\ UNCHANGED <<sent, sending, offset, nextId, reasm, delivered>>

Init ==
    /\ sent = << >>
    /\ sending = FALSE
    /\ offset = 0
    /\ nextId = 0
    /\ net = {}
    /\ reasm = NoObject
    /\ delivered = << >>
    /\ disturbed = {}
    /\ faults = 0

Sender == StartFrame \/ SendPacket \/ SendFails
Network == Receive \/ Overtake \/ Repeat \/ Lose
Next == Sender \/ ReassemblerInit \/ Network

Spec == Init /\ [][Next]_vars

(***************************************************************************)
(* Properties.                                                             *)
(***************************************************************************)
\* Types of the sender's locals, the packets and the reassembler's fields.
TypeOK ==
    /\ sent \in Seq(FrameKinds) /\ Len(sent) <= MaxFrames
    /\ sending \in BOOLEAN
    /\ offset \in Nat /\ nextId \in Nat /\ faults \in Nat
    /\ net \subseteq Packets
    /\ reasm \in [buffer : {"uninit", "null", "ready"}, header_len : Nat, scan_len : Nat,
                  have_header : BOOLEAN, cur_ts : 0 .. MaxFrames,
                  frame : [Cells -> 0 .. MaxFrames]]
    /\ delivered \in Seq([ts : 0 .. MaxFrames, len : Nat, from : SUBSET (0 .. MaxFrames)])
    /\ disturbed \subseteq 1 .. MaxFrames

\* Every packet rtp_send_jpeg puts on the wire keeps to RTP_MAX_PACKET and
\* passes the length checks feed makes before it reads the tables.
PacketsWellFormed ==
    \A p \in net : RtpHdr + p.paylen <= MaxPacket /\ Accepted(p)

\* Wherever the scan stands, the two EOI bytes feed writes behind it lie inside
\* frame_cap_.
EoiInBounds == reasm.have_header => Total(reasm) <= FrameCap

\* The frame numbered ts has room in the receiver's buffer.
Fits(ts) == HeaderLen(sent[ts].tables) + sent[ts].scan + 2 <= FrameCap

\* A frame handed to cb_ always has exactly the length of the frame that was
\* sent under its timestamp, so a frame too large for the buffer is never
\* delivered cut off, and a lost packet never shortens a frame.
DeliveredLengthExact ==
    \A i \in DOMAIN delivered :
        LET d == delivered[i]
        IN /\ d.ts \in DOMAIN sent
           /\ Fits(d.ts)
           /\ d.len = HeaderLen(sent[d.ts].tables) + sent[d.ts].scan + 2

\* Whatever was lost, repeated or reordered and however large the sender's
\* frames, no byte is written past the buffer and no frame has a wrong length.
LengthsInBounds == EoiInBounds /\ DeliveredLengthExact

DeliveredAt(ts) == {i \in DOMAIN delivered : delivered[i].ts = ts}

\* The sender is done with frame ts and none of its packets is on its way.
Settled(ts) ==
    /\ ts < Len(sent) \/ ~sending
    /\ \A p \in net : p.ts # ts

\* A frame whose packets all arrived once and in order is delivered exactly
\* once and holds only its own bytes, whatever happened to the frames around
\* it: no leftover of an earlier loss, repeat or abandoned send can spoil it.
IntactFramesDelivered ==
    reasm.buffer = "ready" =>
        \A ts \in DOMAIN sent :
            Settled(ts) /\ ts \notin disturbed /\ Fits(ts) =>
                /\ Cardinality(DeliveredAt(ts)) = 1
                /\ \A i \in DeliveredAt(ts) : delivered[i].from = {ts}

\* Frames reach the decoder in the order they were sent, and at most once,
\* unless the network itself repeated or reordered packets of them.
DeliveredInOrder ==
    \A i, j \in DOMAIN delivered :
        i < j /\ delivered[i].ts >= delivered[j].ts =>
            delivered[i].ts \in disturbed \/ delivered[j].ts \in disturbed

\* rtp.h:29 says the class reassembles packets "into whole JPEG frames":
\* every frame handed to cb_ holds only bytes of the frame it claims to be.
WholeFrames ==
    \A i \in DOMAIN delivered : delivered[i].from = {delivered[i].ts}
============================================================================
