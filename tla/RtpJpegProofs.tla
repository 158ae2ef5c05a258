--------------------------- MODULE RtpJpegProofs ---------------------------
(***************************************************************************)
(* Proofs about RtpJpeg for every packet size, header size, buffer size,   *)
(* set of frames and number of faults.  Inv is the inductive invariant:    *)
(* what is true of the sender's locals and of every packet on its way,     *)
(* wherever the network puts it, is what keeps the reassembler's counters  *)
(* inside the buffer.  Flow, below, follows the packets of an intact frame *)
(* through the network and the buffer's cells.                             *)
(***************************************************************************)
EXTENDS RtpJpeg, FiniteSetTheorems, TLAPS

Reassemblers ==
    [buffer : {"uninit", "null", "ready"}, header_len : Nat, scan_len : Nat,
     have_header : BOOLEAN, cur_ts : 0 .. MaxFrames, frame : [Cells -> 0 .. MaxFrames]]

\* A packet of a frame that was sent, inside that frame, and marked only at its end.
PacketOk(p) ==
    /\ p.ts \in DOMAIN sent
    /\ p.tlen = IF p.offset = 0 THEN sent[p.ts].tables * TableLen ELSE 0
    /\ Scan(p) \in Nat
    /\ p.offset + Scan(p) <= sent[p.ts].scan
    /\ p.marker => p.offset + Scan(p) = sent[p.ts].scan
    /\ RtpHdr + p.paylen <= MaxPacket
    /\ Accepted(p)

\* A frame under reassembly is one that was sent, no longer than it and in bounds.
ReasmOk(r) ==
    r.have_header =>
        /\ r.cur_ts \in DOMAIN sent
        /\ r.header_len = HeaderLen(sent[r.cur_ts].tables)
        /\ r.scan_len <= sent[r.cur_ts].scan
        /\ Total(r) <= FrameCap

\* While the loop runs, scan bytes of the last frame remain.
SenderOk == sending => Len(sent) > 0 /\ offset < sent[Len(sent)].scan

Inv ==
    /\ TypeOK
    /\ SenderOk
    /\ \A p \in net : PacketOk(p)
    /\ ReasmOk(reasm)
    /\ DeliveredLengthExact

(***************************************************************************)
(* Arithmetic of the tables and headers.                                   *)
(***************************************************************************)
\* One or two tables: their length, its quotient, and a header that leaves
\* room in the packet and in the buffer.
LEMMA TableFacts ==
    ASSUME NEW t \in {1, 2}
    PROVE  /\ t * TableLen \in Nat
           /\ t * TableLen <= 2 * TableLen
           /\ Tables(t * TableLen) = t
           /\ HeaderLen(t) \in Nat
           /\ HeaderLen(t) + 2 <= FrameCap
           /\ MaxPacket - (RtpHdr + TableHdr + t * TableLen) > 0
<1>1. CASE t = 1
  <2>1. 1 * TableLen = TableLen /\ 1 * DqtLen = DqtLen
    BY SizesAssumption
  <2>2. TableLen \div TableLen = 1
    BY SizesAssumption
  <2>3. Tables(TableLen) = 1 /\ HeaderLen(1) = JpegHdr + DqtLen
    BY <2>1, <2>2 DEF Tables, HeaderLen
  <2> QED BY <1>1, <2>1, <2>3, SizesAssumption
<1>2. CASE t = 2
  <2>1. 2 * TableLen \in Nat /\ 2 * DqtLen \in Nat
    BY SizesAssumption
  <2>2. (2 * TableLen) \div TableLen = 2
    BY SizesAssumption
  <2>3. Tables(2 * TableLen) = 2 /\ HeaderLen(2) = JpegHdr + 2 * DqtLen
    BY <2>2 DEF Tables, HeaderLen
  <2> QED BY <1>2, <2>1, <2>3, SizesAssumption
<1> QED BY <1>1, <1>2

\* The packet the loop is about to send is well formed and belongs to the
\* frame being sent, and unless it ends the frame it leaves bytes to send.
LEMMA OutgoingOk ==
    ASSUME TypeOK, SenderOk, sending
    PROVE  /\ Outgoing \in Packets
           /\ PacketOk(Outgoing)
           /\ offset + Scan(Outgoing) \in Nat
           /\ ~Outgoing.marker => offset + Scan(Outgoing) < sent[Len(sent)].scan
           /\ Outgoing.id = nextId /\ Outgoing.ts = Len(sent) /\ Outgoing.offset = offset
           /\ Scan(Outgoing) > 0
<1> DEFINE kind == sent[Len(sent)]
           tl   == kind.tables * TableLen
           tables == IF offset = 0 THEN TableHdr + tl ELSE 0
           maxpay == MaxPacket - (RtpHdr + tables)
           remaining == kind.scan - offset
           chunk == IF remaining > maxpay THEN maxpay ELSE remaining
<1>1. /\ Len(sent) \in DOMAIN sent
      /\ Len(sent) \in Timestamps
      /\ kind.tables \in {1, 2}
      /\ kind.scan \in Nat
      /\ offset \in Nat
      /\ offset < kind.scan
  BY KindsAssumption, BoundsAssumption DEF TypeOK, SenderOk, Timestamps
<1>2. /\ tl \in Nat
      /\ tl <= 2 * TableLen
      /\ MaxPacket - (RtpHdr + TableHdr + tl) > 0
  BY <1>1, TableFacts
<1>3. tables \in Nat /\ maxpay \in Nat /\ maxpay > 0 /\ RtpHdr + tables + maxpay = MaxPacket
  BY <1>2, SizesAssumption
<1>4. /\ chunk \in Nat
      /\ chunk > 0
      /\ chunk <= maxpay
      /\ chunk <= remaining
      /\ remaining = kind.scan - offset
  BY <1>1, <1>3
<1>5. /\ Outgoing.id = nextId
      /\ Outgoing.ts = Len(sent)
      /\ Outgoing.offset = offset
      /\ Outgoing.tlen = IF offset = 0 THEN tl ELSE 0
      /\ Outgoing.paylen = tables + chunk
      /\ Outgoing.marker <=> chunk = remaining
  BY DEF Outgoing, PacketAt
<1>6. Outgoing = [id |-> nextId, ts |-> Len(sent), offset |-> offset,
                  tlen |-> IF offset = 0 THEN tl ELSE 0,
                  paylen |-> tables + chunk, marker |-> chunk = remaining]
  BY DEF Outgoing, PacketAt
<1>7. Scan(Outgoing) = chunk
  <2>1. Scan(Outgoing) = (tables + chunk) - tables
    BY <1>5 DEF Scan
  <2> HIDE DEF chunk, tables
  <2> QED BY <1>3, <1>4, <2>1
<1>8. Outgoing \in Packets
  <2>1. nextId \in Nat
    BY DEF TypeOK
  <2> HIDE DEF chunk, maxpay, remaining, tables, tl
  <2>2. tables + chunk \in Nat /\ (chunk = remaining) \in BOOLEAN
    BY <1>3, <1>4
  <2> QED BY <1>1, <1>2, <1>6, <2>1, <2>2 DEF Packets
<1> HIDE DEF chunk, remaining, maxpay, tables, kind
<1>9. Accepted(Outgoing)
  <2>1. CASE offset = 0
    <3>1. Outgoing.paylen = TableHdr + tl + chunk /\ Outgoing.tlen = tl
      BY <1>5, <2>1, SizesAssumption DEF tables
    <3> HIDE DEF tl
    <3> QED BY <1>2, <1>4, <3>1, SizesAssumption DEF Accepted
  <2>2. CASE offset # 0
    BY <1>5, <2>2 DEF Accepted
  <2> QED BY <2>1, <2>2
<1>10. PacketOk(Outgoing)
  <2>1. Outgoing.ts \in DOMAIN sent
    BY <1>1, <1>5
  <2>2. Outgoing.tlen = IF Outgoing.offset = 0 THEN sent[Outgoing.ts].tables * TableLen ELSE 0
    BY <1>5 DEF kind
  <2>3. Scan(Outgoing) \in Nat /\ Outgoing.offset + Scan(Outgoing) <= kind.scan
    BY <1>1, <1>4, <1>5, <1>7
  <2>4. Outgoing.marker => Outgoing.offset + Scan(Outgoing) = kind.scan
    BY <1>1, <1>4, <1>5, <1>7
  <2>5. RtpHdr + Outgoing.paylen <= MaxPacket
    BY <1>3, <1>4, <1>5, SizesAssumption
  <2>6. sent[Outgoing.ts].scan = kind.scan
    BY <1>5 DEF kind
  <2> QED BY <1>9, <2>1, <2>2, <2>3, <2>4, <2>5, <2>6 DEF PacketOk
<1>11. offset + Scan(Outgoing) \in Nat
  BY <1>1, <1>4, <1>7
<1>12. ~Outgoing.marker => offset + Scan(Outgoing) < kind.scan
  BY <1>1, <1>4, <1>5, <1>7
<1>13. Scan(Outgoing) > 0
  BY <1>4, <1>7
<1> QED BY <1>5, <1>8, <1>10, <1>11, <1>12, <1>13 DEF kind

(***************************************************************************)
(* The reassembler's operators.                                            *)
(***************************************************************************)
\* A copy that stays inside the buffer keeps it a buffer.
LEMMA CopyType ==
    ASSUME NEW f \in [Cells -> 0 .. MaxFrames], NEW pos \in Nat, NEW n \in Nat,
           NEW ts \in 0 .. MaxFrames, pos + n <= FrameCap
    PROVE  Copy(f, pos, n, ts) \in [Cells -> 0 .. MaxFrames]
<1>1. pos .. pos + n - 1 \subseteq Cells
  BY SizesAssumption DEF Cells
<1> QED BY <1>1 DEF Copy

\* Starting a frame from a well-formed packet leaves the reassembler sound.
LEMMA AfterStartOk ==
    ASSUME TypeOK, NEW p \in net, PacketOk(p), ReasmOk(reasm)
    PROVE  AfterStart(reasm, p) \in Reassemblers /\ ReasmOk(AfterStart(reasm, p))
<1> DEFINE t == sent[p.ts].tables
           s == AfterStart(reasm, p)
<1>1. /\ reasm \in Reassemblers
      /\ p.ts \in DOMAIN sent
      /\ p.ts \in 0 .. MaxFrames
      /\ t \in {1, 2}
      /\ sent[p.ts].scan \in Nat
  BY KindsAssumption, BoundsAssumption DEF TypeOK, PacketOk, Reassemblers
<1>2. CASE p.offset = 0
  <2>1. Tables(p.tlen) = t
    BY <1>1, <1>2, TableFacts DEF PacketOk
  <2>2. HeaderLen(t) \in Nat /\ HeaderLen(t) + 2 <= FrameCap
    BY <1>1, TableFacts
  <2>3. s = [reasm EXCEPT !.header_len = HeaderLen(t), !.scan_len = 0,
                          !.have_header = TRUE, !.cur_ts = p.ts,
                          !.frame = Copy(reasm.frame, 0, HeaderLen(t), p.ts)]
    BY <1>2, <2>1 DEF AfterStart
  <2>4. Copy(reasm.frame, 0, HeaderLen(t), p.ts) \in [Cells -> 0 .. MaxFrames]
    <3>1. reasm.frame \in [Cells -> 0 .. MaxFrames]
      BY <1>1 DEF Reassemblers
    <3>2. 0 \in Nat /\ 0 + HeaderLen(t) <= FrameCap
      BY <2>2, SizesAssumption
    <3> HIDE DEF t
    <3> QED BY <1>1, <2>2, <3>1, <3>2, CopyType
  <2> HIDE DEF s
  <2>5. s \in Reassemblers
    BY <1>1, <2>2, <2>3, <2>4 DEF Reassemblers
  <2>6. /\ s.cur_ts = p.ts
        /\ s.header_len = HeaderLen(t)
        /\ s.scan_len = 0
    BY <1>1, <2>3 DEF Reassemblers
  <2>7. ReasmOk(s)
    BY <1>1, <2>2, <2>6, SizesAssumption DEF ReasmOk, Total
  <2> QED BY <2>5, <2>7 DEF s
<1>3. CASE p.offset # 0
  BY <1>1, <1>3 DEF AfterStart
<1> QED BY <1>2, <1>3

\* Storing a packet that passes the guard keeps the counters and the buffer in bounds.
LEMMA StoredOk ==
    ASSUME TypeOK, NEW p \in net, PacketOk(p), NEW s \in Reassemblers, ReasmOk(s),
           Stores(s, p)
    PROVE  /\ Stored(s, p) \in Reassemblers
           /\ ReasmOk(Stored(s, p))
           /\ Stored(s, p).have_header
           /\ Stored(s, p).cur_ts = p.ts
           /\ p.marker => Stored(s, p).scan_len = sent[p.ts].scan
<1> DEFINE end == p.offset + Scan(p)
           r == Stored(s, p)
<1>1. /\ p.offset \in Nat
      /\ Scan(p) \in Nat
      /\ p.ts \in 0 .. MaxFrames
      /\ p.ts \in DOMAIN sent
      /\ sent[p.ts].scan \in Nat
      /\ end <= sent[p.ts].scan
      /\ p.marker => end = sent[p.ts].scan
  BY KindsAssumption, BoundsAssumption DEF TypeOK, PacketOk, Packets, Timestamps
<1>2. /\ s.have_header
      /\ p.ts = s.cur_ts
      /\ s.header_len + p.offset + Scan(p) + 2 <= FrameCap
  BY DEF Stores
<1>3. /\ s.header_len \in Nat
      /\ s.scan_len \in Nat
      /\ s.frame \in [Cells -> 0 .. MaxFrames]
      /\ s.scan_len <= sent[p.ts].scan
      /\ s.header_len + s.scan_len + 2 <= FrameCap
  BY <1>2 DEF Reassemblers, ReasmOk, Total
<1>4. Copy(s.frame, s.header_len + p.offset, Scan(p), p.ts) \in [Cells -> 0 .. MaxFrames]
  <2>1. s.header_len + p.offset \in Nat /\ (s.header_len + p.offset) + Scan(p) <= FrameCap
    BY <1>1, <1>2, <1>3, SizesAssumption
  <2> QED BY <1>1, <1>3, <2>1, CopyType
<1> DEFINE n == IF end > s.scan_len THEN end ELSE s.scan_len
<1>5. /\ n \in Nat
      /\ n <= sent[p.ts].scan
      /\ s.header_len + n + 2 <= FrameCap
      /\ p.marker => n = sent[p.ts].scan
  BY <1>1, <1>2, <1>3, SizesAssumption
<1>6. r = [s EXCEPT !.frame = Copy(s.frame, s.header_len + p.offset, Scan(p), p.ts),
                    !.scan_len = n]
  BY DEF Stored
<1> HIDE DEF n, r
<1>7. r \in Reassemblers
  BY <1>4, <1>5, <1>6 DEF Reassemblers
<1>8. /\ r.have_header = s.have_header
      /\ r.cur_ts = s.cur_ts
      /\ r.header_len = s.header_len
      /\ r.scan_len = n
  BY <1>6 DEF Reassemblers
<1>9. ReasmOk(r)
  BY <1>2, <1>5, <1>8 DEF ReasmOk, Total
<1> QED BY <1>2, <1>5, <1>7, <1>8, <1>9 DEF r

Deliveries == [ts : 0 .. MaxFrames, len : Nat, from : SUBSET (0 .. MaxFrames)]

\* What DeliveredLengthExact says of one delivery.
DeliveryOk(d) ==
    /\ d.ts \in DOMAIN sent
    /\ Fits(d.ts)
    /\ d.len = HeaderLen(sent[d.ts].tables) + sent[d.ts].scan + 2

\* Closing a frame whose marked packet has been stored yields a delivery of
\* the exact length, made of cells of the buffer.
LEMMA DeliveryIsExact ==
    ASSUME TypeOK, NEW p \in net, PacketOk(p), p.marker,
           NEW s \in Reassemblers, ReasmOk(s), Stores(s, p)
    PROVE  LET done == WithEoi(Stored(s, p))
           IN /\ ResetFrame(done) \in Reassemblers
              /\ ~ResetFrame(done).have_header
              /\ Delivery(done) \in Deliveries
              /\ DeliveryOk(Delivery(done))
<1> DEFINE r    == Stored(s, p)
           done == WithEoi(r)
<1>1. /\ r \in Reassemblers
      /\ ReasmOk(r)
      /\ r.have_header
      /\ r.cur_ts = p.ts
      /\ r.scan_len = sent[p.ts].scan
  BY StoredOk
<1> HIDE DEF r
<1>2. /\ p.ts \in DOMAIN sent
      /\ r.cur_ts \in 0 .. MaxFrames
      /\ r.header_len \in Nat
      /\ r.scan_len \in Nat
      /\ r.frame \in [Cells -> 0 .. MaxFrames]
      /\ r.header_len = HeaderLen(sent[p.ts].tables)
      /\ r.header_len + r.scan_len + 2 <= FrameCap
  BY <1>1 DEF Reassemblers, ReasmOk, PacketOk, Total
<1>3. Copy(r.frame, r.header_len + r.scan_len, 2, r.cur_ts) \in [Cells -> 0 .. MaxFrames]
  <2>1. r.header_len + r.scan_len \in Nat /\ 2 \in Nat
    BY <1>2
  <2> QED BY <1>2, <2>1, CopyType
<1>4. done = [r EXCEPT !.frame = Copy(r.frame, r.header_len + r.scan_len, 2, r.cur_ts)]
  BY DEF WithEoi
<1> HIDE DEF done
<1>5. done \in Reassemblers
  BY <1>1, <1>3, <1>4 DEF Reassemblers
<1>6. /\ done.cur_ts = r.cur_ts
      /\ done.header_len = r.header_len
      /\ done.scan_len = r.scan_len
  BY <1>1, <1>4 DEF Reassemblers
<1>7. ResetFrame(done) \in Reassemblers /\ ~ResetFrame(done).have_header
  BY <1>5 DEF ResetFrame, Reassemblers
<1>8. Delivery(done) \in Deliveries
  <2>1. Total(done) \in Nat /\ Total(done) <= FrameCap
    BY <1>2, <1>6 DEF Total
  <2>2. \A c \in 0 .. Total(done) - 1 : done.frame[c] \in 0 .. MaxFrames
    BY <1>5, <2>1, SizesAssumption DEF Reassemblers, Cells
  <2>3. {done.frame[c] : c \in 0 .. Total(done) - 1} \in SUBSET (0 .. MaxFrames)
    BY <2>2
  <2> QED BY <1>2, <1>6, <2>1, <2>3 DEF Delivery, Deliveries
<1>9. DeliveryOk(Delivery(done))
  <2>1. Delivery(done).ts = p.ts /\ Delivery(done).len = done.header_len + done.scan_len + 2
    BY <1>1, <1>6 DEF Delivery, Total
  <2> QED BY <1>1, <1>2, <1>6, <2>1 DEF DeliveryOk, Fits
<1> QED BY <1>7, <1>8, <1>9 DEF done, r

\* Whatever packet on its way reaches feed, in whatever order and however
\* often, the reassembler and the deliveries stay sound.
LEMMA FeedOk ==
    ASSUME Inv, NEW p \in net, Feed(p), sent' = sent
    PROVE  /\ reasm' \in Reassemblers
           /\ ReasmOk(reasm)'
           /\ delivered' \in Seq(Deliveries)
           /\ DeliveredLengthExact'
<1> DEFINE s == AfterStart(reasm, p)
<1>1. /\ TypeOK
      /\ PacketOk(p)
      /\ ReasmOk(reasm)
      /\ reasm \in Reassemblers
      /\ delivered \in Seq(Deliveries)
      /\ \A i \in DOMAIN delivered : DeliveryOk(delivered[i])
  <2>1. TypeOK /\ PacketOk(p) /\ ReasmOk(reasm) /\ DeliveredLengthExact
    BY DEF Inv
  <2>2. reasm \in Reassemblers /\ delivered \in Seq(Deliveries)
    BY <2>1 DEF TypeOK, Reassemblers, Deliveries
  <2>3. \A i \in DOMAIN delivered : DeliveryOk(delivered[i])
    BY <2>1 DEF DeliveredLengthExact, DeliveryOk
  <2> QED BY <2>1, <2>2, <2>3
<1>2. s \in Reassemblers /\ ReasmOk(s)
  BY <1>1, AfterStartOk
<1> HIDE DEF s
<1>3. CASE FeedDrops(p)
  <2>1. delivered' = delivered /\ (reasm' = reasm \/ reasm' = s)
    BY <1>3 DEF FeedDrops, s
  <2>2. reasm' \in Reassemblers /\ ReasmOk(reasm)'
    BY <1>1, <1>2, <2>1 DEF ReasmOk
  <2>3. DeliveredLengthExact'
    BY <2>1 DEF Inv, DeliveredLengthExact, Fits
  <2> QED BY <1>1, <2>1, <2>2, <2>3
<1>4. CASE FeedStores(p)
  <2>1. delivered' = delivered /\ reasm' = Stored(s, p) /\ Stores(s, p)
    BY <1>4 DEF FeedStores, s
  <2>2. Stored(s, p) \in Reassemblers /\ ReasmOk(Stored(s, p))
    BY <1>1, <1>2, <2>1, StoredOk
  <2>3. reasm' \in Reassemblers /\ ReasmOk(reasm)'
    BY <2>1, <2>2 DEF ReasmOk
  <2>4. DeliveredLengthExact'
    BY <2>1 DEF Inv, DeliveredLengthExact, Fits
  <2> QED BY <1>1, <2>1, <2>3, <2>4
<1>5. CASE FeedDelivers(p)
  <2> DEFINE done == WithEoi(Stored(s, p))
             d    == Delivery(done)
  <2>1. /\ Stores(s, p)
        /\ p.marker
        /\ delivered' = Append(delivered, d)
        /\ reasm' = ResetFrame(done)
    BY <1>5 DEF FeedDelivers, s
  <2>2. /\ ResetFrame(done) \in Reassemblers
        /\ ~ResetFrame(done).have_header
        /\ d \in Deliveries
        /\ DeliveryOk(d)
    BY <1>1, <1>2, <2>1, DeliveryIsExact
  <2> HIDE DEF done, d
  <2>3. reasm' \in Reassemblers /\ ReasmOk(reasm)'
    BY <2>1, <2>2 DEF ReasmOk
  <2>4. delivered' \in Seq(Deliveries)
    BY <1>1, <2>1, <2>2
  <2>5. \A i \in DOMAIN delivered' : DeliveryOk(delivered'[i])
    BY <1>1, <2>1, <2>2
  <2>6. DeliveredLengthExact'
    BY <2>5 DEF DeliveredLengthExact, DeliveryOk, Fits
  <2> QED BY <2>3, <2>4, <2>6
<1> QED BY <1>3, <1>4, <1>5 DEF Feed

(***************************************************************************)
(* The sender.                                                             *)
(***************************************************************************)
\* Handing over one more frame changes nothing about the frames sent before.
LEMMA StartKeeps ==
    ASSUME Inv, StartFrame
    PROVE  Inv'
<1> PICK kind \in FrameKinds : sent' = Append(sent, kind)
  BY DEF StartFrame
<1>1. /\ TypeOK
      /\ sent \in Seq(FrameKinds)
      /\ Len(sent) < MaxFrames
      /\ kind.scan \in Nat /\ kind.scan > 0
      /\ sending' = TRUE /\ offset' = 0
      /\ UNCHANGED <<nextId, net, reasm, delivered, disturbed, faults>>
  BY KindsAssumption DEF Inv, TypeOK, StartFrame
<1>2. /\ sent' \in Seq(FrameKinds)
      /\ Len(sent') = Len(sent) + 1
      /\ Len(sent') \in DOMAIN sent'
      /\ sent'[Len(sent')] = kind
      /\ \A ts \in DOMAIN sent : ts \in DOMAIN sent' /\ sent'[ts] = sent[ts]
  BY <1>1
<1>3. TypeOK'
  BY <1>1, <1>2, BoundsAssumption DEF TypeOK, Packets, Timestamps, Cells
<1>4. SenderOk'
  BY <1>1, <1>2 DEF SenderOk
<1>5. \A p \in net' : PacketOk(p)'
  BY <1>1, <1>2 DEF Inv, PacketOk, Scan, Accepted
<1>6. ReasmOk(reasm)'
  BY <1>1, <1>2 DEF Inv, ReasmOk, HeaderLen, Total
<1>7. DeliveredLengthExact'
  BY <1>1, <1>2 DEF Inv, DeliveredLengthExact, Fits, HeaderLen
<1> QED BY <1>3, <1>4, <1>5, <1>6, <1>7 DEF Inv

\* A packet that is sent is sound, and the loop's locals stay inside the frame.
LEMMA SendKeeps ==
    ASSUME Inv, SendPacket
    PROVE  Inv'
<1>1. /\ TypeOK
      /\ SenderOk
      /\ sending
      /\ net' = net \cup {Outgoing}
      /\ nextId' = nextId + 1
      /\ offset' = offset + Scan(Outgoing)
      /\ sending' = ~Outgoing.marker
      /\ UNCHANGED <<sent, reasm, delivered, disturbed, faults>>
  BY DEF Inv, SendPacket
<1>2. /\ Outgoing \in Packets
      /\ PacketOk(Outgoing)
      /\ offset + Scan(Outgoing) \in Nat
      /\ ~Outgoing.marker => offset + Scan(Outgoing) < sent[Len(sent)].scan
  BY <1>1, OutgoingOk
<1> HIDE DEF Outgoing
<1>3. TypeOK'
  BY <1>1, <1>2 DEF TypeOK
<1>4. SenderOk'
  <2>1. Len(sent) > 0
    BY <1>1 DEF SenderOk
  <2> QED BY <1>1, <1>2, <2>1 DEF SenderOk
<1>5. \A p \in net' : PacketOk(p)'
  BY <1>1, <1>2 DEF Inv, PacketOk
<1>6. ReasmOk(reasm)' /\ DeliveredLengthExact'
  BY <1>1 DEF Inv, ReasmOk, DeliveredLengthExact, Fits
<1> QED BY <1>3, <1>4, <1>5, <1>6 DEF Inv

\* A packet that sendto refuses ends the frame and leaves the receiver alone.
LEMMA SendFailsKeeps ==
    ASSUME Inv, SendFails
    PROVE  Inv'
<1>1. /\ TypeOK
      /\ Len(sent) > 0
      /\ faults' = faults + 1 /\ nextId' = nextId + 1 /\ sending' = FALSE
      /\ disturbed' = disturbed \cup {Len(sent)}
      /\ UNCHANGED <<sent, offset, net, reasm, delivered>>
  <2>1. TypeOK /\ SenderOk /\ sending
    BY DEF Inv, SendFails
  <2>2. Len(sent) > 0
    BY <2>1 DEF SenderOk
  <2> QED BY <2>1, <2>2 DEF SendFails
<1>2. Len(sent) \in 1 .. MaxFrames
  BY <1>1, BoundsAssumption DEF TypeOK
<1>3. TypeOK'
  <2>1. disturbed' \subseteq 1 .. MaxFrames
    BY <1>1, <1>2 DEF TypeOK
  <2>2. faults' \in Nat /\ nextId' \in Nat
    BY <1>1 DEF TypeOK
  <2>3. sending' \in BOOLEAN
    BY <1>1
  <2> QED BY <1>1, <2>1, <2>2, <2>3 DEF TypeOK
<1>4. SenderOk'
  BY <1>1 DEF SenderOk
<1>5. /\ \A p \in net' : PacketOk(p)'
      /\ ReasmOk(reasm)'
      /\ DeliveredLengthExact'
  BY <1>1 DEF Inv, PacketOk, ReasmOk, DeliveredLengthExact, Fits
<1> QED BY <1>3, <1>4, <1>5 DEF Inv

(***************************************************************************)
(* The receiver and the network.                                           *)
(***************************************************************************)
\* init only resets counters and fixes whether there is a buffer.
LEMMA InitKeeps ==
    ASSUME Inv, ReassemblerInit
    PROVE  Inv'
<1> PICK b \in {"null", "ready"} : reasm' = [ResetFrame(reasm) EXCEPT !.buffer = b]
  BY DEF ReassemblerInit
<1>1. /\ TypeOK
      /\ reasm \in Reassemblers
      /\ UNCHANGED <<sent, sending, offset, nextId, net, delivered, disturbed, faults>>
  BY DEF Inv, TypeOK, ReassemblerInit, Reassemblers
<1>2. reasm' \in Reassemblers /\ ~reasm'.have_header
  BY <1>1 DEF Reassemblers, ResetFrame
<1>3. TypeOK'
  BY <1>1, <1>2 DEF TypeOK, Reassemblers
<1>4. /\ SenderOk'
      /\ \A p \in net' : PacketOk(p)'
      /\ ReasmOk(reasm)'
      /\ DeliveredLengthExact'
  BY <1>1, <1>2 DEF Inv, SenderOk, PacketOk, ReasmOk, DeliveredLengthExact, Fits
<1> QED BY <1>3, <1>4 DEF Inv

\* A packet that leaves the network, or a copy of one, reaches feed.
LEMMA FeedKeeps ==
    ASSUME Inv, NEW p \in net, Feed(p), net' \subseteq net,
           UNCHANGED <<sent, sending, offset, nextId>>,
           disturbed' \subseteq 1 .. MaxFrames, faults' \in Nat
    PROVE  Inv'
<1>1. TypeOK
  BY DEF Inv
<1>2. /\ reasm' \in Reassemblers
      /\ ReasmOk(reasm)'
      /\ delivered' \in Seq(Deliveries)
      /\ DeliveredLengthExact'
  BY FeedOk
<1>3. TypeOK'
  BY <1>1, <1>2 DEF TypeOK, Reassemblers, Deliveries
<1>4. SenderOk' /\ (\A q \in net' : PacketOk(q)')
  BY DEF Inv, SenderOk, PacketOk
<1> QED BY <1>2, <1>3, <1>4 DEF Inv

\* The frames of packets on their way are frames that may be disturbed.
LEMMA DisturbedType ==
    ASSUME TypeOK, NEW p \in net
    PROVE  /\ disturbed \cup {p.ts} \subseteq 1 .. MaxFrames
           /\ disturbed \cup {p.ts} \cup {q.ts : q \in Older(p)} \subseteq 1 .. MaxFrames
<1>1. \A q \in net : q.ts \in 1 .. MaxFrames
  BY DEF TypeOK, Packets, Timestamps
<1>2. Older(p) \subseteq net
  BY DEF Older
<1> QED BY <1>1, <1>2 DEF TypeOK

\* Arrival, overtaking, repetition and loss of packets keep the invariant.
LEMMA NetworkKeeps ==
    ASSUME Inv, Network
    PROVE  Inv'
<1>1. TypeOK /\ faults \in Nat /\ disturbed \subseteq 1 .. MaxFrames
  BY DEF Inv, TypeOK
<1>2. CASE Receive
  <2> PICK p \in net : Feed(p) /\ net' = net \ {p}
    BY <1>2 DEF Receive
  <2>1. UNCHANGED <<sent, sending, offset, nextId, disturbed, faults>>
    BY <1>2 DEF Receive
  <2> QED BY <1>1, <2>1, FeedKeeps
<1>3. CASE Overtake
  <2> PICK p \in net :
             /\ Feed(p)
             /\ net' = net \ {p}
             /\ disturbed' = disturbed \cup {p.ts} \cup {q.ts : q \in Older(p)}
    BY <1>3 DEF Overtake
  <2>1. UNCHANGED <<sent, sending, offset, nextId>> /\ faults' = faults + 1
    BY <1>3 DEF Overtake, Fault
  <2>2. disturbed' \subseteq 1 .. MaxFrames /\ faults' \in Nat
    BY <1>1, <2>1, DisturbedType
  <2> QED BY <2>1, <2>2, FeedKeeps
<1>4. CASE Repeat
  <2> PICK p \in net :
             /\ Feed(p)
             /\ disturbed' = disturbed \cup {p.ts} \cup {q.ts : q \in Older(p)}
    BY <1>4 DEF Repeat
  <2>1. UNCHANGED <<sent, sending, offset, nextId, net>> /\ faults' = faults + 1
    BY <1>4 DEF Repeat, Fault
  <2>2. disturbed' \subseteq 1 .. MaxFrames /\ faults' \in Nat
    BY <1>1, <2>1, DisturbedType
  <2> QED BY <2>1, <2>2, FeedKeeps
<1>5. CASE Lose
  <2> PICK p \in net : net' = net \ {p} /\ disturbed' = disturbed \cup {p.ts}
    BY <1>5 DEF Lose
  <2>1. /\ UNCHANGED <<sent, sending, offset, nextId, reasm, delivered>>
        /\ faults' = faults + 1
    BY <1>5 DEF Lose, Fault
  <2>2. disturbed' \subseteq 1 .. MaxFrames /\ faults' \in Nat
    BY <1>1, <2>1, DisturbedType
  <2>3. TypeOK'
    BY <1>1, <2>1, <2>2 DEF TypeOK
  <2>4. /\ SenderOk'
        /\ \A q \in net' : PacketOk(q)'
        /\ ReasmOk(reasm)'
        /\ DeliveredLengthExact'
    BY <2>1 DEF Inv, SenderOk, PacketOk, ReasmOk, DeliveredLengthExact, Fits
  <2> QED BY <2>3, <2>4 DEF Inv
<1> QED BY <1>2, <1>3, <1>4, <1>5 DEF Network

(***************************************************************************)
(* Theorems.                                                               *)
(***************************************************************************)
\* Inv holds initially and is kept by every step of the payloader, the
\* network and the reassembler.
THEOREM Invariance == Spec => []Inv
<1>1. Init => Inv
  <2> SUFFICES ASSUME Init PROVE Inv
    OBVIOUS
  <2>1. reasm \in Reassemblers
    BY BoundsAssumption DEF Init, NoObject, Reassemblers
  <2>2. sent \in Seq(FrameKinds) /\ Len(sent) <= MaxFrames
    BY BoundsAssumption DEF Init
  <2>3. delivered \in Seq([ts : 0 .. MaxFrames, len : Nat, from : SUBSET (0 .. MaxFrames)])
    BY DEF Init
  <2>4. sending \in BOOLEAN
    BY DEF Init
  <2>5. TypeOK
    BY <2>1, <2>2, <2>3, <2>4 DEF Init, TypeOK, Reassemblers
  <2> QED BY <2>5 DEF Init, Inv, SenderOk, ReasmOk, NoObject, DeliveredLengthExact
<1>2. Inv /\ [Next]_vars => Inv'
  <2> SUFFICES ASSUME Inv, [Next]_vars PROVE Inv'
    OBVIOUS
  <2>1. CASE Sender
    BY <2>1, StartKeeps, SendKeeps, SendFailsKeeps DEF Sender
  <2>2. CASE ReassemblerInit
    BY <2>2, InitKeeps
  <2>3. CASE Network
    BY <2>3, NetworkKeeps
  <2>4. CASE UNCHANGED vars
    BY <2>4 DEF vars, Inv, TypeOK, SenderOk, PacketOk, ReasmOk, DeliveredLengthExact, Fits
  <2> QED BY <2>1, <2>2, <2>3, <2>4 DEF Next
<1> QED BY <1>1, <1>2, PTL DEF Spec

\* The working buffer is never written outside its allocation (its domain
\* stays Cells), and every field keeps its type.
THEOREM TypeCorrect == Spec => []TypeOK
<1>1. Inv => TypeOK
  BY DEF Inv
<1> QED BY <1>1, Invariance, PTL

\* Every packet built fits RTP_MAX_PACKET and passes feed's length checks,
\* for every packet and table size.
THEOREM PacketsFit == Spec => []PacketsWellFormed
<1>1. Inv => PacketsWellFormed
  BY DEF Inv, PacketOk, PacketsWellFormed
<1> QED BY <1>1, Invariance, PTL

\* Whatever the network does, the two bytes of EOI fit the buffer and a delivered
\* frame has its exact length.
THEOREM LengthsAreRight == Spec => []LengthsInBounds
<1>1. Inv => LengthsInBounds
  BY DEF Inv, ReasmOk, EoiInBounds, LengthsInBounds
<1> QED BY <1>1, Invariance, PTL

(***************************************************************************)
(* Frames in flight.  Flow is inductive together with Inv: packets lie in  *)
(* the network in the order they were built, and an intact frame, one that *)
(* fits and none of whose packets was lost, repeated or overtaken, has not *)
(* begun to arrive, is the one under reassembly, or has been delivered.    *)
(***************************************************************************)
\* Packets were built one after the other, frame by frame and from the front.
PacketsOrdered ==
    /\ \A p \in net :
          /\ p.id < nextId
          /\ Scan(p) > 0
          /\ ~p.marker => p.offset + Scan(p) < sent[p.ts].scan
          /\ sending /\ p.ts = Len(sent) => ~p.marker /\ p.offset + Scan(p) <= offset
    /\ \A p, q \in net :
          /\ p.id = q.id => p = q
          /\ p.id < q.id => \/ p.ts < q.ts
                            \/ p.ts = q.ts /\ ~p.marker /\ p.offset + Scan(p) <= q.offset

\* What is still to come of an intact frame is newer than all that was delivered.
DeliveredBehind ==
    \A i \in DOMAIN delivered :
        /\ sending => delivered[i].ts < Len(sent)
        /\ \A p \in net : p.ts \notin disturbed => delivered[i].ts < p.ts

\* How far the sender has come with frame u.
End(u) == IF sending /\ u = Len(sent) THEN offset ELSE sent[u].scan

\* The packets of frame u from offset n on are on their way, without a gap.
Coming(u, n) ==
    /\ \A p \in net : p.ts = u => p.offset >= n
    /\ n = End(u) \/ \E p \in net : p.ts = u /\ p.offset = n
    /\ \A p \in net : p.ts = u =>
          \/ p.offset + Scan(p) = End(u)
          \/ \E q \in net : q.ts = u /\ q.offset = p.offset + Scan(p)

Undelivered(u) == \A i \in DOMAIN delivered : delivered[i].ts # u

NotBegun(u) ==
    /\ Undelivered(u)
    /\ ~(reasm.have_header /\ reasm.cur_ts = u)
    /\ Coming(u, 0)

UnderWay(u) ==
    /\ Undelivered(u)
    /\ reasm.have_header /\ reasm.cur_ts = u
    /\ reasm.scan_len > 0 /\ reasm.scan_len < sent[u].scan
    /\ \A c \in 0 .. reasm.header_len + reasm.scan_len - 1 : reasm.frame[c] = u
    /\ Coming(u, reasm.scan_len)
    /\ \A p \in net : p.ts >= u

Done(u) ==
    /\ \E i \in DOMAIN delivered :
          /\ delivered[i].ts = u /\ delivered[i].from = {u}
          /\ \A j \in DOMAIN delivered : delivered[j].ts = u => j = i
    /\ \A p \in net : p.ts # u
    /\ u < Len(sent) \/ ~sending

Intact(u) == u \in DOMAIN sent /\ u \notin disturbed /\ Fits(u)

Flow ==
    /\ reasm.buffer = "uninit" => ~reasm.have_header
    /\ PacketsOrdered
    /\ DeliveredBehind
    /\ DeliveredInOrder
    /\ reasm.buffer # "null" =>
          \A u \in DOMAIN sent : Intact(u) => NotBegun(u) \/ UnderWay(u) \/ Done(u)

\* What Inv says of a packet and of its frame.
LEMMA PacketFacts ==
    ASSUME Inv, NEW p \in net
    PROVE  /\ p.id \in Nat /\ p.offset \in Nat /\ Scan(p) \in Nat
           /\ p.ts \in Nat /\ p.ts \in DOMAIN sent /\ p.ts <= Len(sent)
           /\ sent[p.ts].scan \in Nat /\ sent[p.ts].tables \in {1, 2}
           /\ p.offset + Scan(p) <= sent[p.ts].scan
           /\ p.marker => p.offset + Scan(p) = sent[p.ts].scan
           /\ Accepted(p)
<1>1. TypeOK /\ PacketOk(p)
  BY DEF Inv
<1>2. p \in Packets
  BY <1>1 DEF TypeOK
<1>3. p.ts \in DOMAIN sent /\ p.ts \in Nat /\ p.ts <= Len(sent)
  BY <1>1 DEF TypeOK, PacketOk
<1>4. sent[p.ts].scan \in Nat /\ sent[p.ts].tables \in {1, 2}
  BY <1>1, <1>3, KindsAssumption DEF TypeOK
<1> QED BY <1>1, <1>2, <1>3, <1>4 DEF Packets, PacketOk

\* The sender's frames, and the one under reassembly.
LEMMA FrameFacts ==
    ASSUME Inv
    PROVE  /\ Len(sent) \in Nat /\ offset \in Nat /\ nextId \in Nat /\ sending \in BOOLEAN
           /\ DOMAIN sent = 1 .. Len(sent)
           /\ \A u \in DOMAIN sent : sent[u].scan \in Nat /\ sent[u].scan > 0
           /\ \A i \in DOMAIN delivered : delivered[i].ts \in DOMAIN sent
           /\ reasm \in Reassemblers
           /\ reasm.have_header => reasm.cur_ts \in DOMAIN sent
<1>1. TypeOK /\ ReasmOk(reasm) /\ DeliveredLengthExact
  BY DEF Inv
<1>2. \A u \in DOMAIN sent : sent[u].scan \in Nat /\ sent[u].scan > 0
  BY <1>1, KindsAssumption DEF TypeOK
<1>3. reasm \in Reassemblers
  BY <1>1 DEF TypeOK, Reassemblers
<1>4. /\ Len(sent) \in Nat /\ offset \in Nat /\ nextId \in Nat /\ sending \in BOOLEAN
      /\ DOMAIN sent = 1 .. Len(sent)
  BY <1>1 DEF TypeOK
<1> QED BY <1>1, <1>2, <1>3, <1>4 DEF ReasmOk, DeliveredLengthExact

(***************************************************************************)
(* The sender and init.                                                    *)
(***************************************************************************)
\* A step that gives frame u no packet and takes none away leaves what is coming of it.
LEMMA ComingKeeps ==
    ASSUME NEW u, NEW n, Coming(u, n), End(u)' = End(u),
           \A p : p.ts = u => (p \in net' <=> p \in net)
    PROVE  Coming(u, n)'
BY DEF Coming

\* A step that leaves reassembler and deliveries alone.
LEMMA FramesRest ==
    ASSUME NEW u, UNCHANGED <<reasm, delivered>>, sent'[u] = sent[u], End(u)' = End(u),
           \A p : p.ts = u => (p \in net' <=> p \in net),
           \A p \in net' : p \in net \/ p.ts >= u,
           u < Len(sent) \/ ~sending => u < Len(sent') \/ ~sending',
           NotBegun(u) \/ UnderWay(u) \/ Done(u)
    PROVE  NotBegun(u)' \/ UnderWay(u)' \/ Done(u)'
<1>1. CASE NotBegun(u)
  <2>1. Coming(u, 0)'
    BY <1>1, ComingKeeps DEF NotBegun
  <2> QED BY <1>1, <2>1 DEF NotBegun, Undelivered
<1>2. CASE UnderWay(u)
  <2>1. PICK n : n = reasm.scan_len
    OBVIOUS
  <2>2. Coming(u, n)
    BY <1>2, <2>1 DEF UnderWay, Coming
  <2>3. Coming(u, n)'
    BY <2>2, ComingKeeps
  <2>4. Coming(u, reasm.scan_len)'
    BY <2>1, <2>3 DEF Coming
  <2>5. \A p \in net' : p.ts >= u
    BY <1>2 DEF UnderWay
  <2> QED BY <1>2, <2>4, <2>5 DEF UnderWay, Undelivered
<1>3. CASE Done(u)
  BY <1>3 DEF Done
<1> QED BY <1>1, <1>2, <1>3

\* The next frame: nothing of it exists yet.
LEMMA StartFlows ==
    ASSUME Inv, Flow, StartFrame
    PROVE  Flow'
<1> PICK kind \in FrameKinds : sent' = Append(sent, kind)
  BY DEF StartFrame
<1>1. /\ ~sending /\ sending' = TRUE /\ offset' = 0
      /\ UNCHANGED <<nextId, net, reasm, delivered, disturbed, faults>>
      /\ PacketsOrdered /\ DeliveredBehind /\ DeliveredInOrder
  BY DEF StartFrame, Flow
<1>2. /\ Len(sent) \in Nat /\ DOMAIN sent = 1 .. Len(sent)
      /\ Len(sent') = Len(sent) + 1 /\ DOMAIN sent' = 1 .. Len(sent) + 1
      /\ \A u \in DOMAIN sent : sent'[u] = sent[u]
  BY FrameFacts DEF Inv, TypeOK
<1>3. PacketsOrdered'
  BY <1>1, <1>2, PacketFacts DEF PacketsOrdered, Scan
<1>4. DeliveredBehind'
  BY <1>1, <1>2, FrameFacts DEF DeliveredBehind
<1>5. DeliveredInOrder'
  BY <1>1 DEF DeliveredInOrder
<1>6. ASSUME reasm.buffer # "null", NEW u \in DOMAIN sent', Intact(u)'
      PROVE  NotBegun(u)' \/ UnderWay(u)' \/ Done(u)'
  <2>1. CASE u \in DOMAIN sent
    <3>1. Intact(u)
      BY <1>1, <1>2, <1>6, <2>1 DEF Intact, Fits, HeaderLen
    <3>2. End(u)' = End(u) /\ sent'[u] = sent[u] /\ u < Len(sent') /\ u \in Nat
      BY <1>1, <1>2, <2>1 DEF End
    <3> QED BY <1>1, <1>6, <2>1, <3>1, <3>2, FramesRest DEF Flow
  <2>2. CASE u = Len(sent')
    <3>1. \A p \in net : p.ts # u
      BY <1>2, <2>2, PacketFacts
    <3>2. Undelivered(u)'
      BY <1>1, <1>2, <2>2, FrameFacts DEF Undelivered
    <3>3. ~(reasm.have_header /\ reasm.cur_ts = u)
      BY <1>2, <2>2, FrameFacts
    <3>4. Coming(u, 0)'
      BY <1>1, <2>2, <3>1 DEF Coming, End
    <3> QED BY <1>1, <3>2, <3>3, <3>4 DEF NotBegun
  <2> QED BY <1>2, <2>1, <2>2
<1> QED BY <1>1, <1>3, <1>4, <1>5, <1>6 DEF Flow

\* A packet joins the others of its frame at their end.
LEMMA SendFlows ==
    ASSUME Inv, Flow, SendPacket
    PROVE  Flow'
<1> DEFINE o == Outgoing
           last == Len(sent)
<1>1. /\ sending /\ net' = net \cup {o} /\ nextId' = nextId + 1
      /\ offset' = offset + Scan(o) /\ sending' = ~o.marker
      /\ UNCHANGED <<sent, reasm, delivered, disturbed, faults>>
      /\ PacketsOrdered /\ DeliveredBehind /\ DeliveredInOrder
  BY DEF SendPacket, Flow
<1>2. /\ o.id = nextId /\ o.ts = last /\ o.offset = offset
      /\ Scan(o) > 0 /\ Scan(o) \in Nat
      /\ o.marker => offset + Scan(o) = sent[last].scan
      /\ ~o.marker => offset + Scan(o) < sent[last].scan
  <2>1. /\ PacketOk(o) /\ o.id = nextId /\ o.ts = last /\ o.offset = offset
        /\ Scan(o) > 0
        /\ ~o.marker => offset + Scan(o) < sent[last].scan
    BY <1>1, OutgoingOk DEF Inv
  <2> QED BY <2>1 DEF PacketOk
<1> HIDE DEF o
<1>3. /\ last \in Nat /\ offset \in Nat /\ nextId \in Nat /\ sending \in BOOLEAN
      /\ DOMAIN sent = 1 .. last
  BY FrameFacts
<1>4. PacketsOrdered'
  <2>1. ASSUME NEW p \in net
        PROVE  /\ p.id < nextId' /\ Scan(p) > 0
               /\ ~p.marker => p.offset + Scan(p) < sent[p.ts].scan
               /\ p.ts = last => ~p.marker /\ p.offset + Scan(p) <= offset'
               /\ p.ts < last \/ (p.ts = last /\ ~p.marker /\ p.offset + Scan(p) <= o.offset)
    <3>1. p.id \in Nat /\ p.offset \in Nat /\ Scan(p) \in Nat /\ p.ts \in Nat /\ p.ts <= last
      BY PacketFacts
    <3>2. /\ p.id < nextId /\ Scan(p) > 0
          /\ ~p.marker => p.offset + Scan(p) < sent[p.ts].scan
          /\ p.ts = last => ~p.marker /\ p.offset + Scan(p) <= offset
      BY <1>1 DEF PacketsOrdered
    <3> QED BY <1>1, <1>2, <1>3, <3>1, <3>2
  <2>2. ASSUME NEW p \in net'
        PROVE  /\ p.id < nextId' /\ Scan(p) > 0
               /\ ~p.marker => p.offset + Scan(p) < sent'[p.ts].scan
               /\ sending' /\ p.ts = last => ~p.marker /\ p.offset + Scan(p) <= offset'
    <3>1. CASE p \in net
      <4>1. /\ p.id < nextId' /\ Scan(p) > 0
            /\ ~p.marker => p.offset + Scan(p) < sent[p.ts].scan
            /\ p.ts = last => ~p.marker /\ p.offset + Scan(p) <= offset'
        BY <2>1, <3>1
      <4>2. sent' = sent
        BY <1>1
      <4> QED BY <4>1, <4>2
    <3>2. CASE p = o
      <4>1. /\ p.id = nextId /\ p.ts = last /\ p.offset = offset
            /\ Scan(p) > 0 /\ Scan(p) \in Nat
            /\ ~p.marker => offset + Scan(p) < sent[last].scan
        BY <1>2, <3>2
      <4>2. sent' = sent /\ nextId' = nextId + 1 /\ offset' = offset + Scan(p)
        BY <1>1, <3>2
      <4>3. p.id < nextId' /\ Scan(p) > 0
        BY <1>3, <4>1, <4>2
      <4>4. ~p.marker => p.offset + Scan(p) < sent'[p.ts].scan
        BY <4>1, <4>2
      <4>5. p.offset + Scan(p) <= offset'
        BY <1>3, <4>1, <4>2
      <4>6. sending' => ~p.marker
        BY <1>1, <3>2
      <4> QED BY <4>3, <4>4, <4>5, <4>6
    <3> QED BY <1>1, <3>1, <3>2
  <2>3. ASSUME NEW p \in net', NEW q \in net'
        PROVE  /\ p.id = q.id => p = q
               /\ p.id < q.id => \/ p.ts < q.ts
                                 \/ p.ts = q.ts /\ ~p.marker /\ p.offset + Scan(p) <= q.offset
    <3>1. CASE p \in net /\ q \in net
      BY <1>1, <3>1 DEF PacketsOrdered
    <3>2. CASE p \in net /\ q = o
      <4>1. p.id < o.id
        BY <1>1, <1>2, <3>2 DEF PacketsOrdered
      <4>2. p.id \in Nat
        BY <3>2, PacketFacts
      <4> QED BY <1>2, <1>3, <2>1, <3>2, <4>1, <4>2
    <3>3. CASE p = o /\ q \in net
      <4>1. q.id < o.id
        BY <1>1, <1>2, <3>3 DEF PacketsOrdered
      <4>2. q.id \in Nat
        BY <3>3, PacketFacts
      <4> QED BY <1>2, <1>3, <3>3, <4>1, <4>2
    <3>4. CASE p = o /\ q = o
      BY <1>2, <1>3, <3>4
    <3> QED BY <1>1, <3>1, <3>2, <3>3, <3>4
  <2> QED BY <1>1, <2>2, <2>3 DEF PacketsOrdered, Scan
<1>5. DeliveredBehind'
  BY <1>1, <1>2 DEF DeliveredBehind
<1>6. DeliveredInOrder'
  BY <1>1 DEF DeliveredInOrder
<1>7. ASSUME reasm.buffer # "null", NEW u \in DOMAIN sent, Intact(u)'
      PROVE  NotBegun(u)' \/ UnderWay(u)' \/ Done(u)'
  <2>1. NotBegun(u) \/ UnderWay(u) \/ Done(u)
    BY <1>1, <1>7 DEF Flow, Intact, Fits
  <2>2. CASE u # last
    <3>1. End(u)' = End(u) /\ u < last /\ o.ts >= u /\ o.ts # u
      BY <1>1, <1>2, <1>3, <2>2 DEF End
    <3> QED BY <1>1, <2>1, <3>1, FramesRest
  <2>3. CASE u = last
    <3>1. ~Done(u)
      BY <1>1, <1>3, <2>3 DEF Done
    <3>2. ASSUME NEW n \in Nat, Coming(u, n)
          PROVE  Coming(u, n)'
      <4>1. End(u) = offset
        BY <1>1, <2>3 DEF End
      <4>2. End(u)' = o.offset + Scan(o)
        BY <1>1, <1>2, <2>3 DEF End
      <4>3. n <= offset
        <5>1. CASE n = End(u)
          BY <1>3, <4>1, <5>1
        <5>2. CASE n # End(u)
          <6>1. PICK p \in net : p.ts = u /\ p.offset = n
            BY <3>2, <5>2 DEF Coming
          <6>2. p.offset + Scan(p) <= offset /\ Scan(p) \in Nat
            BY <1>1, <2>3, <6>1, PacketFacts DEF PacketsOrdered
          <6> QED BY <1>3, <6>1, <6>2
        <5> QED BY <5>1, <5>2
      <4>4. \A p \in net' : p.ts = u => p.offset >= n
        BY <1>1, <1>2, <1>3, <3>2, <4>3 DEF Coming
      <4>5. \E p \in net' : p.ts = u /\ p.offset = n
        BY <1>1, <1>2, <2>3, <3>2, <4>1 DEF Coming
      <4>6. \A p \in net' : p.ts = u =>
               \/ p.offset + Scan(p) = End(u)'
               \/ \E q \in net' : q.ts = u /\ q.offset = p.offset + Scan(p)
        BY <1>1, <1>2, <2>3, <3>2, <4>1, <4>2 DEF Coming
      <4> QED BY <4>4, <4>5, <4>6 DEF Coming, Scan
    <3>3. CASE NotBegun(u)
      <4>1. Coming(u, 0)'
        BY <3>2, <3>3 DEF NotBegun
      <4> QED BY <1>1, <3>3, <4>1 DEF NotBegun, Undelivered
    <3>4. CASE UnderWay(u)
      <4>1. PICK n \in Nat : n = reasm.scan_len
        BY FrameFacts DEF Reassemblers
      <4>2. Coming(u, n)
        BY <3>4, <4>1 DEF UnderWay, Coming
      <4>3. Coming(u, n)'
        BY <3>2, <4>2
      <4>4. Coming(u, reasm.scan_len)'
        BY <1>1, <4>1, <4>3 DEF Coming
      <4>5. \A p \in net' : p.ts >= u
        BY <1>1, <1>2, <1>3, <2>3, <3>4 DEF UnderWay
      <4> QED BY <1>1, <3>4, <4>4, <4>5 DEF UnderWay, Undelivered
    <3> QED BY <2>1, <3>1, <3>3, <3>4
  <2> QED BY <2>2, <2>3
<1> QED BY <1>1, <1>4, <1>5, <1>6, <1>7 DEF Flow

\* A frame given up is disturbed, and those before it are complete.
LEMMA SendFailsFlows ==
    ASSUME Inv, Flow, SendFails
    PROVE  Flow'
<1>1. /\ sending /\ sending' = FALSE /\ nextId' = nextId + 1
      /\ disturbed' = disturbed \cup {Len(sent)}
      /\ UNCHANGED <<sent, offset, net, reasm, delivered>>
      /\ PacketsOrdered /\ DeliveredBehind /\ DeliveredInOrder
  BY DEF SendFails, Flow
<1>2. nextId \in Nat /\ DOMAIN sent = 1 .. Len(sent) /\ Len(sent) \in Nat
  BY FrameFacts
<1>3. PacketsOrdered'
  <2>1. \A p \in net : p.id < nextId + 1
    BY <1>1, <1>2, PacketFacts DEF PacketsOrdered
  <2> QED BY <1>1, <2>1 DEF PacketsOrdered
<1>4. DeliveredBehind' /\ DeliveredInOrder'
  BY <1>1 DEF DeliveredBehind, DeliveredInOrder
<1>5. ASSUME reasm.buffer # "null", NEW u \in DOMAIN sent, Intact(u)'
      PROVE  NotBegun(u)' \/ UnderWay(u)' \/ Done(u)'
  <2>1. Intact(u) /\ u # Len(sent)
    BY <1>1, <1>5 DEF Intact, Fits
  <2>2. End(u)' = End(u)
    BY <1>1, <2>1 DEF End
  <2> QED BY <1>1, <1>5, <2>1, <2>2, FramesRest DEF Flow
<1> QED BY <1>1, <1>3, <1>4, <1>5 DEF Flow

\* Before init nothing has arrived.
LEMMA InitFlows ==
    ASSUME Inv, Flow, ReassemblerInit
    PROVE  Flow'
<1>1. /\ reasm.buffer = "uninit" /\ ~reasm.have_header
      /\ UNCHANGED <<sent, sending, offset, nextId, net, delivered, disturbed, faults>>
      /\ PacketsOrdered /\ DeliveredBehind /\ DeliveredInOrder
  BY DEF ReassemblerInit, Flow
<1>2. ~reasm'.have_header
  BY FrameFacts DEF ReassemblerInit, ResetFrame, Reassemblers
<1>3. PacketsOrdered' /\ DeliveredBehind' /\ DeliveredInOrder'
  BY <1>1 DEF PacketsOrdered, DeliveredBehind, DeliveredInOrder
<1>4. ASSUME NEW u \in DOMAIN sent, Intact(u)'
      PROVE  NotBegun(u)' \/ UnderWay(u)' \/ Done(u)'
  <2>1. NotBegun(u) \/ Done(u)
    <3>1. Intact(u)
      BY <1>1, <1>4 DEF Intact, Fits
    <3> QED BY <1>1, <1>4, <3>1 DEF Flow, UnderWay
  <2>2. CASE NotBegun(u)
    <3>1. Coming(u, 0)'
      BY <1>1, <2>2 DEF NotBegun, Coming, End
    <3> QED BY <1>1, <1>2, <2>2, <3>1 DEF NotBegun, Undelivered
  <2>3. CASE Done(u)
    BY <1>1, <2>3 DEF Done
  <2> QED BY <2>1, <2>2, <2>3
<1> QED BY <1>1, <1>2, <1>3, <1>4 DEF Flow

(***************************************************************************)
(* The receiver and the network.                                           *)
(***************************************************************************)
\* A copy changes the cells it is for, and no others.
LEMMA CopyCells ==
    ASSUME NEW f \in [Cells -> 0 .. MaxFrames], NEW pos \in Nat, NEW n \in Nat, NEW ts,
           pos + n <= FrameCap
    PROVE  /\ \A c \in pos .. pos + n - 1 : Copy(f, pos, n, ts)[c] = ts
           /\ \A c \in Cells : c < pos => Copy(f, pos, n, ts)[c] = f[c]
BY SizesAssumption DEF Copy, Cells

\* What feed does with a packet: the frame under reassembly, if it is another
\* one afterwards, is the packet's, and so is a frame that is delivered.
LEMMA FeedShape ==
    ASSUME Inv, NEW p \in net, Feed(p)
    PROVE  /\ reasm'.buffer = reasm.buffer
           /\ reasm' = reasm \/ ~reasm'.have_header \/ reasm'.cur_ts = p.ts
           /\ \/ delivered' = delivered
              \/ /\ p.marker
                 /\ \E d \in Deliveries : d.ts = p.ts /\ delivered' = Append(delivered, d)
<1> DEFINE s == AfterStart(reasm, p)
           r == Stored(s, p)
           done == WithEoi(r)
<1>1. TypeOK /\ PacketOk(p) /\ ReasmOk(reasm)
  BY DEF Inv
<1>2. s \in Reassemblers /\ ReasmOk(s)
  BY <1>1, AfterStartOk
<1>3. s.buffer = reasm.buffer /\ (s = reasm \/ s.cur_ts = p.ts)
  <2>1. reasm \in Reassemblers
    BY FrameFacts
  <2> QED BY <2>1 DEF AfterStart, Reassemblers
<1> HIDE DEF s
<1>4. CASE FeedDrops(p)
  BY <1>3, <1>4 DEF FeedDrops, s
<1>5. ASSUME Stores(s, p)
      PROVE  r \in Reassemblers /\ r.buffer = s.buffer /\ r.cur_ts = p.ts
  <2>1. r \in Reassemblers /\ r.cur_ts = p.ts
    BY <1>1, <1>2, <1>5, StoredOk
  <2>2. r.buffer = s.buffer
    BY <1>2 DEF Stored, Reassemblers
  <2> QED BY <2>1, <2>2
<1>6. CASE FeedStores(p)
  <2>1. Stores(s, p) /\ reasm' = r /\ delivered' = delivered
    BY <1>6 DEF FeedStores, s
  <2> HIDE DEF r
  <2> QED BY <1>3, <1>5, <2>1
<1>7. CASE FeedDelivers(p)
  <2>1. /\ Stores(s, p) /\ p.marker
        /\ delivered' = Append(delivered, Delivery(done))
        /\ reasm' = ResetFrame(done)
    BY <1>7 DEF FeedDelivers, s
  <2>2. /\ ~ResetFrame(done).have_header
        /\ Delivery(done) \in Deliveries
    BY <1>1, <1>2, <2>1, DeliveryIsExact
  <2>3. r \in Reassemblers /\ r.buffer = s.buffer /\ r.cur_ts = p.ts
    BY <1>5, <2>1
  <2> HIDE DEF r
  <2>4. ResetFrame(done).buffer = s.buffer /\ Delivery(done).ts = p.ts
    BY <2>3 DEF WithEoi, ResetFrame, Delivery, Reassemblers
  <2> QED BY <1>3, <2>1, <2>2, <2>4
<1> QED BY <1>4, <1>6, <1>7 DEF Feed

\* A packet that arrives while frame u has none older on its way says nothing
\* against u, if it is another frame's.
LEMMA FeedOther ==
    ASSUME Inv, Flow, NEW p \in net, Feed(p),
           UNCHANGED <<sent, sending, offset>>, net' \subseteq net, net \ {p} \subseteq net',
           NEW u \in DOMAIN sent, p.ts # u, \A q \in Older(p) : q.ts # u,
           NotBegun(u) \/ UnderWay(u) \/ Done(u)
    PROVE  NotBegun(u)' \/ UnderWay(u)' \/ Done(u)'
<1>1. /\ reasm' = reasm \/ ~reasm'.have_header \/ reasm'.cur_ts = p.ts
      /\ \/ delivered' = delivered
         \/ \E d \in Deliveries : d.ts = p.ts /\ delivered' = Append(delivered, d)
  BY FeedShape
<1>2. End(u)' = End(u) /\ (\A q : q.ts = u => (q \in net' <=> q \in net))
  BY DEF End
<1>3. delivered \in Seq(Deliveries)
  BY DEF Inv, TypeOK, Deliveries
<1>4. /\ \A i \in DOMAIN delivered : i \in DOMAIN delivered' /\ delivered'[i] = delivered[i]
      /\ \A i \in DOMAIN delivered' : i \in DOMAIN delivered \/ delivered'[i].ts = p.ts
  BY <1>1, <1>3
<1>5. CASE NotBegun(u)
  <2>1. Coming(u, 0)'
    BY <1>2, <1>5, ComingKeeps DEF NotBegun
  <2>2. Undelivered(u)'
    BY <1>4, <1>5 DEF NotBegun, Undelivered
  <2> QED BY <1>1, <1>5, <2>1, <2>2 DEF NotBegun
<1>6. CASE UnderWay(u)
  <2>1. /\ p.ts > u /\ p.ts <= Len(sent) /\ p.ts \in Nat /\ u \in Nat /\ Len(sent) \in Nat
        /\ reasm.scan_len < sent[u].scan
    BY <1>6, PacketFacts, FrameFacts DEF UnderWay
  <2>2. End(u) = sent[u].scan
    BY <2>1 DEF End
  <2>3. sent[u].scan \in Nat /\ reasm.scan_len \in Nat
    BY FrameFacts DEF Reassemblers
  <2>4. PICK q \in net : q.ts = u
    BY <1>6, <2>1, <2>2, <2>3 DEF UnderWay, Coming
  <2>5. p.id \in Nat /\ q.id \in Nat
    BY PacketFacts
  <2>6. q.id < p.id
    BY <2>1, <2>4, <2>5 DEF Flow, PacketsOrdered
  <2> QED BY <2>4, <2>6 DEF Older
<1>7. CASE Done(u)
  <2>1. PICK i \in DOMAIN delivered :
            /\ delivered[i].ts = u /\ delivered[i].from = {u}
            /\ \A j \in DOMAIN delivered : delivered[j].ts = u => j = i
    BY <1>7 DEF Done
  <2>2. /\ i \in DOMAIN delivered' /\ delivered'[i].ts = u /\ delivered'[i].from = {u}
        /\ \A j \in DOMAIN delivered' : delivered'[j].ts = u => j = i
    BY <1>4, <2>1
  <2> QED BY <1>7, <2>2 DEF Done
<1> QED BY <1>5, <1>6, <1>7

\* The oldest packet of all is the next one of its frame.
LEMMA NextInFrame ==
    ASSUME Inv, Flow, NEW p \in net, Older(p) = {}, NEW n \in Nat, Coming(p.ts, n),
           n < sent[p.ts].scan
    PROVE  /\ p.offset = n
           /\ \A q \in net \ {p} :
                 /\ q.ts >= p.ts
                 /\ q.ts = p.ts => q.offset >= n + Scan(p) /\ ~p.marker
<1>1. /\ p.id \in Nat /\ p.offset \in Nat /\ Scan(p) \in Nat /\ p.ts \in Nat
      /\ Scan(p) > 0 /\ p.offset >= n
  BY PacketFacts DEF Flow, PacketsOrdered, Coming
<1>2. ASSUME NEW q \in net \ {p}
      PROVE  /\ q.id > p.id /\ q.ts \in Nat /\ q.offset \in Nat
             /\ \/ p.ts < q.ts
                \/ p.ts = q.ts /\ ~p.marker /\ p.offset + Scan(p) <= q.offset
  <2>1. q.id \in Nat /\ q.ts \in Nat /\ q.offset \in Nat
    BY PacketFacts
  <2>2. q.id # p.id
    BY DEF Flow, PacketsOrdered
  <2>3. ~(q.id < p.id)
    BY DEF Older
  <2>4. q.id > p.id
    BY <1>1, <2>1, <2>2, <2>3
  <2> QED BY <2>1, <2>4 DEF Flow, PacketsOrdered
<1>3. p.offset = n
  <2>1. CASE \E q \in net : q.ts = p.ts /\ q.offset = n
    <3> PICK q \in net : q.ts = p.ts /\ q.offset = n
      BY <2>1
    <3>1. CASE q = p
      BY <3>1
    <3>2. CASE q # p
      BY <1>1, <1>2, <3>2
    <3> QED BY <3>1, <3>2
  <2>2. CASE n = End(p.ts)
    <3>1. sending /\ p.ts = Len(sent) /\ n = offset
      BY <2>2 DEF End
    <3>2. p.offset + Scan(p) <= offset
      BY <3>1 DEF Flow, PacketsOrdered
    <3> QED BY <1>1, <3>1, <3>2
  <2> QED BY <2>1, <2>2 DEF Coming
<1> QED BY <1>1, <1>2, <1>3

\* Once it has left the network the rest of the frame is still coming.
LEMMA RestComing ==
    ASSUME Inv, Flow, NEW p \in net, Older(p) = {}, NEW n \in Nat, Coming(p.ts, n),
           n < sent[p.ts].scan, net' = net \ {p}, UNCHANGED <<sent, sending, offset>>
    PROVE  Coming(p.ts, n + Scan(p))'
<1> DEFINE u == p.ts
<1>1. /\ p.offset = n
      /\ \A q \in net \ {p} : q.ts = u => q.offset >= n + Scan(p)
      /\ Scan(p) \in Nat /\ Scan(p) > 0
  BY NextInFrame, PacketFacts DEF Flow, PacketsOrdered
<1>2. End(u)' = End(u)
  BY DEF End
<1>3. n + Scan(p) = End(u) \/ \E q \in net' : q.ts = u /\ q.offset = n + Scan(p)
  BY <1>1 DEF Coming
<1>4. ASSUME NEW q \in net', q.ts = u
      PROVE  \/ q.offset + Scan(q) = End(u)
             \/ \E z \in net' : z.ts = u /\ z.offset = q.offset + Scan(q)
  <2>1. q.offset \in Nat /\ Scan(q) \in Nat /\ q.offset >= n + Scan(p)
    BY <1>1, <1>4, PacketFacts
  <2>2. q.offset + Scan(q) # p.offset
    BY <1>1, <2>1
  <2> QED BY <1>4, <2>2 DEF Coming
<1> QED BY <1>1, <1>2, <1>3, <1>4 DEF Coming, Scan

\* The next packet of an intact frame is stored behind the frame's own bytes.
LEMMA StoredNext ==
    ASSUME Inv, NEW p \in net, Fits(p.ts), NEW n \in Nat, p.offset = n, Scan(p) > 0,
           \/ n = 0
           \/ /\ n > 0 /\ reasm.have_header /\ reasm.cur_ts = p.ts /\ reasm.scan_len = n
              /\ \A c \in 0 .. reasm.header_len + n - 1 : reasm.frame[c] = p.ts
    PROVE  LET s == AfterStart(reasm, p)
               r == Stored(s, p)
           IN /\ s \in Reassemblers /\ ReasmOk(s) /\ Stores(s, p)
              /\ r \in Reassemblers /\ r.have_header /\ r.cur_ts = p.ts
              /\ r.header_len = HeaderLen(sent[p.ts].tables)
              /\ r.scan_len = n + Scan(p)
              /\ \A c \in 0 .. r.header_len + r.scan_len - 1 : r.frame[c] = p.ts
<1> DEFINE u == p.ts
           t == sent[u].tables
           h == HeaderLen(t)
           s == AfterStart(reasm, p)
           r == Stored(s, p)
<1>1. /\ TypeOK /\ PacketOk(p) /\ ReasmOk(reasm) /\ reasm \in Reassemblers
      /\ p.offset \in Nat /\ Scan(p) \in Nat /\ u \in 0 .. MaxFrames /\ t \in {1, 2}
      /\ sent[u].scan \in Nat /\ n + Scan(p) <= sent[u].scan
  <2>1. u \in 0 .. MaxFrames
    BY DEF Inv, TypeOK, Packets, Timestamps
  <2> QED BY <2>1, PacketFacts, FrameFacts DEF Inv
<1>2. /\ h \in Nat /\ h + sent[u].scan + 2 <= FrameCap /\ Tables(t * TableLen) = t
      /\ FrameCap \in Nat
  BY <1>1, TableFacts, SizesAssumption DEF Fits
<1>3. /\ s \in Reassemblers /\ ReasmOk(s)
      /\ s.have_header /\ s.cur_ts = u /\ s.header_len = h /\ s.scan_len = n
      /\ \A c \in 0 .. h + n - 1 : s.frame[c] = u
  <2>1. s \in Reassemblers /\ ReasmOk(s)
    BY <1>1, AfterStartOk
  <2>2. CASE n = 0
    <3>1. p.tlen = t * TableLen
      BY <2>2 DEF Inv, PacketOk
    <3>2. s = [reasm EXCEPT !.header_len = h, !.scan_len = 0, !.have_header = TRUE,
                            !.cur_ts = u, !.frame = Copy(reasm.frame, 0, h, u)]
      BY <1>2, <2>2, <3>1 DEF AfterStart
    <3> HIDE DEF s, h
    <3>3. /\ s.have_header /\ s.cur_ts = u /\ s.header_len = h /\ s.scan_len = 0
          /\ s.frame = Copy(reasm.frame, 0, h, u)
      BY <1>1, <3>2 DEF Reassemblers
    <3>4. reasm.frame \in [Cells -> 0 .. MaxFrames] /\ 0 \in Nat /\ 0 + h <= FrameCap
      BY <1>1, <1>2 DEF Reassemblers
    <3>5. \A c \in 0 .. 0 + h - 1 : s.frame[c] = u
      BY <1>2, <3>3, <3>4, CopyCells
    <3>6. h + n - 1 = 0 + h - 1
      BY <1>2, <2>2
    <3>7. \A c \in 0 .. h + n - 1 : s.frame[c] = u
      BY <3>5, <3>6
    <3> QED BY <2>1, <2>2, <3>3, <3>7
  <2>3. CASE n > 0
    <3>1. s = reasm
      BY <2>3 DEF AfterStart
    <3>2. reasm.header_len = h
      BY <1>1, <2>3 DEF ReasmOk
    <3> QED BY <2>1, <2>3, <3>1, <3>2
  <2> QED BY <2>2, <2>3
<1> HIDE DEF s, h
<1>4. Stores(s, p)
  BY <1>1, <1>2, <1>3 DEF Stores
<1>5. r \in Reassemblers
  BY <1>1, <1>3, <1>4, StoredOk
<1>6. r = [s EXCEPT !.frame = Copy(s.frame, h + n, Scan(p), u), !.scan_len = n + Scan(p)]
  <2>1. n + Scan(p) > n
    BY <1>1
  <2> QED BY <1>3, <2>1 DEF Stored
<1> HIDE DEF r
<1>7. /\ r.have_header /\ r.cur_ts = u /\ r.header_len = h /\ r.scan_len = n + Scan(p)
      /\ r.frame = Copy(s.frame, h + n, Scan(p), u)
  BY <1>3, <1>6 DEF Reassemblers
<1>8. \A c \in 0 .. h + (n + Scan(p)) - 1 : r.frame[c] = u
  <2>1. /\ s.frame \in [Cells -> 0 .. MaxFrames] /\ h + n \in Nat
        /\ (h + n) + Scan(p) <= FrameCap
    BY <1>1, <1>2, <1>3 DEF Reassemblers
  <2>2. /\ \A c \in h + n .. (h + n) + Scan(p) - 1 : r.frame[c] = u
        /\ \A c \in Cells : c < h + n => r.frame[c] = s.frame[c]
    BY <1>1, <1>7, <2>1, CopyCells
  <2>3. ASSUME NEW c \in 0 .. h + (n + Scan(p)) - 1
        PROVE  r.frame[c] = u
    <3>1. CASE c < h + n
      <4>1. c \in 0 .. h + n - 1 /\ c \in Cells
        BY <1>1, <1>2, <2>1, <2>3, <3>1 DEF Cells
      <4> QED BY <1>3, <2>2, <3>1, <4>1
    <3>2. CASE ~(c < h + n)
      <4>1. c \in h + n .. (h + n) + Scan(p) - 1
        BY <1>1, <1>2, <2>1, <2>3, <3>2
      <4> QED BY <2>2, <4>1
    <3> QED BY <3>1, <3>2
  <2> QED BY <2>3
<1> QED BY <1>3, <1>4, <1>5, <1>7, <1>8 DEF s, r, h

\* The oldest packet arrives and belongs to intact frame u: the frame goes on,
\* or is delivered whole.
LEMMA FeedOwn ==
    ASSUME Inv, Flow, NEW p \in net, Feed(p), Older(p) = {}, net' = net \ {p},
           UNCHANGED <<sent, sending, offset>>, reasm.buffer = "ready",
           Fits(p.ts), NotBegun(p.ts) \/ UnderWay(p.ts)
    PROVE  UnderWay(p.ts)' \/ Done(p.ts)'
<1> DEFINE u == p.ts
           s == AfterStart(reasm, p)
           r == Stored(s, p)
           done == WithEoi(r)
<1>1. /\ u \in DOMAIN sent /\ u \in Nat /\ Scan(p) \in Nat /\ Scan(p) > 0
      /\ sent[u].scan \in Nat /\ sent[u].scan > 0 /\ Accepted(p)
      /\ p.marker => p.offset + Scan(p) = sent[u].scan
      /\ ~p.marker => p.offset + Scan(p) < sent[u].scan
  BY PacketFacts, FrameFacts DEF Flow, PacketsOrdered
<1>2. PICK n \in Nat :
          /\ Coming(u, n) /\ n < sent[u].scan
          /\ \/ n = 0
             \/ /\ n > 0 /\ reasm.have_header /\ reasm.cur_ts = u /\ reasm.scan_len = n
                /\ \A c \in 0 .. reasm.header_len + n - 1 : reasm.frame[c] = u
  <2>1. CASE NotBegun(u)
    BY <1>1, <2>1 DEF NotBegun
  <2>2. CASE UnderWay(u)
    <3>1. PICK n \in Nat : n = reasm.scan_len
      BY FrameFacts DEF Reassemblers
    <3>2. Coming(u, n)
      BY <2>2, <3>1 DEF UnderWay, Coming
    <3> QED BY <2>2, <3>1, <3>2 DEF UnderWay
  <2> QED BY <2>1, <2>2
<1>3. /\ p.offset = n
      /\ \A q \in net' : q.ts >= u /\ (q.ts = u => ~p.marker)
  BY <1>2, NextInFrame
<1>4. Coming(u, n + Scan(p))'
  BY <1>2, RestComing
<1>5. /\ s \in Reassemblers /\ ReasmOk(s) /\ Stores(s, p)
      /\ r \in Reassemblers /\ r.have_header /\ r.cur_ts = u
      /\ r.header_len = HeaderLen(sent[u].tables)
      /\ r.scan_len = n + Scan(p)
      /\ \A c \in 0 .. r.header_len + r.scan_len - 1 : r.frame[c] = u
  BY <1>1, <1>2, <1>3, StoredNext
<1>6. Undelivered(u) /\ delivered \in Seq(Deliveries)
  BY DEF NotBegun, UnderWay, Inv, TypeOK, Deliveries
<1>7. CASE ~p.marker
  <2>1. reasm' = r /\ delivered' = delivered
    BY <1>1, <1>5, <1>7 DEF Feed, FeedDrops, FeedStores, FeedDelivers
  <2> HIDE DEF r, s
  <2>2. Coming(u, reasm.scan_len)'
    BY <1>4, <1>5, <2>1 DEF Coming
  <2> QED BY <1>1, <1>2, <1>3, <1>5, <1>6, <1>7, <2>1, <2>2 DEF UnderWay, Undelivered
<1>8. CASE p.marker
  <2>1. delivered' = Append(delivered, Delivery(done))
    BY <1>1, <1>5, <1>8 DEF Feed, FeedDrops, FeedStores, FeedDelivers
  <2> HIDE DEF r, s
  <2>2. /\ r.header_len \in Nat /\ r.scan_len \in Nat /\ r.frame \in [Cells -> 0 .. MaxFrames]
        /\ r.scan_len = sent[u].scan /\ u \in 0 .. MaxFrames
        /\ r.header_len + r.scan_len + 2 <= FrameCap
    BY <1>1, <1>3, <1>5, <1>8 DEF Reassemblers, Fits
  <2>3. /\ done.cur_ts = u /\ Total(done) = r.header_len + r.scan_len + 2
        /\ done.frame = Copy(r.frame, r.header_len + r.scan_len, 2, u)
    BY <1>5 DEF WithEoi, Total, Reassemblers
  <2>4. \A c \in 0 .. Total(done) - 1 : done.frame[c] = u
    <3> DEFINE e == r.header_len + r.scan_len
    <3>1. e \in Nat /\ e + 2 <= FrameCap /\ 2 \in Nat /\ FrameCap \in Nat
      BY <2>2, SizesAssumption
    <3> HIDE DEF e
    <3>2. /\ \A c \in e .. e + 2 - 1 : done.frame[c] = u
          /\ \A c \in Cells : c < e => done.frame[c] = r.frame[c]
      BY <2>2, <2>3, <3>1, CopyCells DEF e
    <3>3. \A c \in 0 .. e - 1 : r.frame[c] = u
      <4>1. e - 1 = r.header_len + r.scan_len - 1
        BY <2>2 DEF e
      <4>2. \A c \in 0 .. r.header_len + r.scan_len - 1 : r.frame[c] = u
        BY <1>5
      <4> QED BY <4>1, <4>2
    <3>4. ASSUME NEW c \in 0 .. e + 2 - 1
          PROVE  done.frame[c] = u
      <4>1. CASE c < e
        <5>1. c \in 0 .. e - 1 /\ c \in Cells
          BY <3>1, <3>4, <4>1 DEF Cells
        <5> QED BY <3>2, <3>3, <4>1, <5>1
      <4>2. CASE ~(c < e)
        <5>1. c \in e .. e + 2 - 1
          BY <3>1, <3>4, <4>2
        <5> QED BY <3>2, <5>1
      <4> QED BY <4>1, <4>2
    <3>5. Total(done) - 1 = e + 2 - 1
      BY <2>2, <2>3 DEF e
    <3> HIDE DEF done
    <3> QED BY <3>4, <3>5
  <2>5. Total(done) \in Nat /\ Total(done) > 0
    BY <2>2, <2>3
  <2>6. Delivery(done).ts = u /\ Delivery(done).from = {u}
    <3> DEFINE cells == 0 .. Total(done) - 1
    <3>1. {done.frame[c] : c \in 0 .. Total(done) - 1} = {u}
      <4>1. 0 \in cells /\ \A c \in cells : done.frame[c] = u
        BY <2>4, <2>5
      <4> HIDE DEF cells, done
      <4>2. {done.frame[c] : c \in cells} = {u}
        BY <4>1
      <4> QED BY <4>2 DEF cells
    <3> QED BY <2>3, <3>1 DEF Delivery
  <2> DEFINE d == Delivery(done)
             i == Len(delivered) + 1
  <2> HIDE DEF done
  <2>7. /\ DOMAIN delivered' = 1 .. i /\ delivered'[i] = d /\ i \in DOMAIN delivered'
        /\ \A j \in 1 .. Len(delivered) : delivered'[j] = delivered[j]
        /\ DOMAIN delivered = 1 .. Len(delivered) /\ Len(delivered) \in Nat
    BY <1>6, <2>1
  <2>8. \A j \in DOMAIN delivered' : j = i \/ j \in DOMAIN delivered
    BY <2>7
  <2>9. \A j \in DOMAIN delivered' : delivered'[j].ts = u => j = i
    BY <1>6, <2>7, <2>8 DEF Undelivered
  <2>10. u < Len(sent) \/ ~sending
    <3>1. p.ts <= Len(sent) /\ Len(sent) \in Nat
      BY PacketFacts, FrameFacts
    <3> QED BY <1>1, <1>8, <3>1 DEF Flow, PacketsOrdered
  <2>11. \A q \in net' : q.ts # u
    BY <1>3, <1>8
  <2> QED BY <2>6, <2>7, <2>9, <2>10, <2>11 DEF Done
<1> QED BY <1>7, <1>8

\* One packet reaches feed: it, and those it overtakes, are of disturbed
\* frames, unless it was the oldest and leaves the network.
LEMMA FeedFlows ==
    ASSUME Inv, Flow, NEW p \in net, Feed(p), reasm.buffer # "uninit",
           UNCHANGED <<sent, sending, offset, nextId>>,
           net' \subseteq net, net \ {p} \subseteq net', disturbed \subseteq disturbed',
           \A q \in Older(p) : q.ts \in disturbed',
           p.ts \in disturbed' \/ (Older(p) = {} /\ net' = net \ {p})
    PROVE  Flow'
<1>1. PacketsOrdered /\ DeliveredBehind /\ DeliveredInOrder
  BY DEF Flow
<1>2. /\ reasm'.buffer = reasm.buffer
      /\ \/ delivered' = delivered
         \/ /\ p.marker
            /\ \E d \in Deliveries : d.ts = p.ts /\ delivered' = Append(delivered, d)
  BY FeedShape
<1>3. PacketsOrdered'
  BY <1>1 DEF PacketsOrdered
<1>4. delivered \in Seq(Deliveries) /\ DOMAIN delivered = 1 .. Len(delivered) /\ Len(delivered) \in Nat
  BY DEF Inv, TypeOK, Deliveries
<1>5. ASSUME delivered' = delivered
      PROVE  DeliveredBehind' /\ DeliveredInOrder'
  <2>1. DeliveredBehind'
    BY <1>1, <1>5 DEF DeliveredBehind
  <2>2. DeliveredInOrder'
    BY <1>1, <1>5 DEF DeliveredInOrder
  <2> QED BY <2>1, <2>2
<1>6. ASSUME p.marker, NEW d \in Deliveries, d.ts = p.ts, delivered' = Append(delivered, d)
      PROVE  DeliveredBehind' /\ DeliveredInOrder'
  <2> DEFINE k == Len(delivered) + 1
  <2>1. /\ DOMAIN delivered' = 1 .. k /\ delivered'[k] = d
        /\ \A i \in DOMAIN delivered : delivered'[i] = delivered[i]
        /\ \A i \in DOMAIN delivered' : i = k \/ i \in DOMAIN delivered
    BY <1>4, <1>6
  <2>2. p.id \in Nat /\ p.ts \in Nat /\ p.ts <= Len(sent) /\ Len(sent) \in Nat
    BY PacketFacts, FrameFacts
  <2>3. sending => d.ts < Len(sent)
    BY <1>1, <1>6, <2>2 DEF PacketsOrdered
  <2>4. ASSUME NEW q \in net', q.ts \notin disturbed'
        PROVE  d.ts < q.ts
    <3>1. q # p /\ q \notin Older(p)
      BY <2>4
    <3>2. q.id \in Nat /\ q \in net
      BY PacketFacts
    <3>3. p.id < q.id
      BY <1>1, <2>2, <3>1, <3>2 DEF PacketsOrdered, Older
    <3> QED BY <1>1, <1>6, <3>2, <3>3 DEF PacketsOrdered
  <2>5. DeliveredBehind'
    <3> SUFFICES ASSUME NEW i \in DOMAIN delivered'
                 PROVE  /\ sending => delivered'[i].ts < Len(sent)
                        /\ \A q \in net' : q.ts \notin disturbed' => delivered'[i].ts < q.ts
      BY DEF DeliveredBehind
    <3>1. CASE i = k
      BY <2>1, <2>3, <2>4, <3>1
    <3>2. CASE i \in DOMAIN delivered
      BY <1>1, <2>1, <3>2 DEF DeliveredBehind
    <3> QED BY <2>1, <3>1, <3>2
  <2>6. \A i \in DOMAIN delivered : d.ts \notin disturbed' => delivered[i].ts < d.ts
    BY <1>1, <1>6 DEF DeliveredBehind
  <2>7. ASSUME NEW i \in DOMAIN delivered', NEW j \in DOMAIN delivered', i < j,
               delivered'[i].ts >= delivered'[j].ts
        PROVE  delivered'[i].ts \in disturbed' \/ delivered'[j].ts \in disturbed'
    <3>1. i \in DOMAIN delivered
      BY <1>4, <2>1, <2>7
    <3>2. CASE j = k
      <4>1. delivered'[i].ts \in Nat
        <5>1. delivered[i] \in Deliveries
          BY <1>4, <3>1
        <5>2. delivered[i].ts \in Nat
          BY <5>1, BoundsAssumption DEF Deliveries
        <5> QED BY <2>1, <3>1, <5>2
      <4> QED BY <1>6, <2>1, <2>2, <2>6, <2>7, <3>1, <3>2, <4>1
    <3>3. CASE j \in DOMAIN delivered
      BY <1>1, <2>1, <2>7, <3>1, <3>3 DEF DeliveredInOrder
    <3> QED BY <2>1, <3>2, <3>3
  <2>8. DeliveredInOrder'
    BY <2>7 DEF DeliveredInOrder
  <2> QED BY <2>5, <2>8
<1>7. ASSUME reasm.buffer # "null", NEW u \in DOMAIN sent, Intact(u)'
      PROVE  NotBegun(u)' \/ UnderWay(u)' \/ Done(u)'
  <2>1. Intact(u) /\ u \notin disturbed'
    BY <1>7 DEF Intact, Fits
  <2>2. NotBegun(u) \/ UnderWay(u) \/ Done(u)
    BY <1>7, <2>1 DEF Flow
  <2>3. CASE p.ts # u
    BY <2>1, <2>2, <2>3, FeedOther
  <2>4. CASE p.ts = u
    <3>1. Older(p) = {} /\ net' = net \ {p} /\ Fits(p.ts)
      BY <2>1, <2>4 DEF Intact
    <3>2. ~Done(u)
      BY <2>4 DEF Done
    <3>3. reasm.buffer = "ready"
      BY <1>7, FrameFacts DEF Reassemblers
    <3> QED BY <2>2, <2>4, <3>1, <3>2, <3>3, FeedOwn
  <2> QED BY <2>3, <2>4
<1> QED BY <1>2, <1>3, <1>5, <1>6, <1>7 DEF Flow

LEMMA NetworkFlows ==
    ASSUME Inv, Flow, Network
    PROVE  Flow'
<1>1. CASE Receive
  <2>1. PICK p \in net : Older(p) = {} /\ Feed(p) /\ net' = net \ {p}
    BY <1>1 DEF Receive
  <2> QED BY <1>1, <2>1, FeedFlows DEF Receive
<1>2. CASE Overtake
  <2>1. PICK p \in net :
            /\ Feed(p) /\ net' = net \ {p}
            /\ disturbed' = disturbed \cup {p.ts} \cup {q.ts : q \in Older(p)}
    BY <1>2 DEF Overtake
  <2> QED BY <1>2, <2>1, FeedFlows DEF Overtake
<1>3. CASE Repeat
  <2>1. PICK p \in net :
            /\ Feed(p) /\ net' = net
            /\ disturbed' = disturbed \cup {p.ts} \cup {q.ts : q \in Older(p)}
    BY <1>3 DEF Repeat
  <2> QED BY <1>3, <2>1, FeedFlows DEF Repeat
<1>4. CASE Lose
  <2>1. PICK p \in net : net' = net \ {p} /\ disturbed' = disturbed \cup {p.ts}
    BY <1>4 DEF Lose
  <2>2. /\ UNCHANGED <<sent, sending, offset, nextId, reasm, delivered>>
        /\ PacketsOrdered /\ DeliveredBehind /\ DeliveredInOrder
    BY <1>4 DEF Lose, Flow
  <2>3. PacketsOrdered' /\ DeliveredBehind' /\ DeliveredInOrder'
    BY <2>1, <2>2 DEF PacketsOrdered, DeliveredBehind, DeliveredInOrder
  <2>4. ASSUME reasm.buffer # "null", NEW u \in DOMAIN sent, Intact(u)'
        PROVE  NotBegun(u)' \/ UnderWay(u)' \/ Done(u)'
    <3>1. Intact(u) /\ p.ts # u
      BY <2>1, <2>2, <2>4 DEF Intact, Fits
    <3>2. NotBegun(u) \/ UnderWay(u) \/ Done(u)
      BY <2>4, <3>1 DEF Flow
    <3>3. End(u)' = End(u) /\ \A q : q.ts = u => (q \in net' <=> q \in net)
      BY <2>1, <2>2, <3>1 DEF End
    <3> QED BY <2>1, <2>2, <3>2, <3>3, FramesRest
  <2> QED BY <2>2, <2>3, <2>4 DEF Flow
<1> QED BY <1>1, <1>2, <1>3, <1>4 DEF Network

\* Flow holds initially and is kept by every step, given what Inv says.
THEOREM FlowInvariance == Spec => []Flow
<1>1. Init => Flow
  BY DEF Init, Flow, NoObject, PacketsOrdered, DeliveredBehind, DeliveredInOrder
<1>2. Inv /\ Flow /\ [Next]_vars => Flow'
  <2> SUFFICES ASSUME Inv, Flow, [Next]_vars PROVE Flow'
    OBVIOUS
  <2>1. CASE Sender
    BY <2>1, StartFlows, SendFlows, SendFailsFlows DEF Sender
  <2>2. CASE ReassemblerInit
    BY <2>2, InitFlows
  <2>3. CASE Network
    BY <2>3, NetworkFlows
  <2>4. CASE UNCHANGED vars
    <3>1. UNCHANGED <<sent, sending, offset, nextId, net, reasm, delivered, disturbed>>
      BY <2>4 DEF vars
    <3>2. PacketsOrdered' /\ DeliveredBehind' /\ DeliveredInOrder'
      BY <3>1 DEF Flow, PacketsOrdered, DeliveredBehind, DeliveredInOrder
    <3>3. ASSUME NEW u \in DOMAIN sent, NotBegun(u) \/ UnderWay(u) \/ Done(u)
          PROVE  NotBegun(u)' \/ UnderWay(u)' \/ Done(u)'
      <4>1. End(u)' = End(u)
        BY <3>1 DEF End
      <4> QED BY <3>1, <3>3, <4>1, FramesRest
    <3> QED BY <3>1, <3>2, <3>3 DEF Flow, Intact, Fits
  <2> QED BY <2>1, <2>2, <2>3, <2>4 DEF Next
<1> QED BY <1>1, <1>2, Invariance, PTL DEF Spec

\* Frames reach the decoder in the order they were sent and at most once,
\* unless the network repeated or reordered them.
THEOREM InOrder == Spec => []DeliveredInOrder
<1>1. Flow => DeliveredInOrder
  BY DEF Flow
<1> QED BY <1>1, FlowInvariance, PTL

\* A frame that fits and whose packets all arrive in order is delivered exactly
\* once, made of its own bytes only, whatever was in the buffer before.
THEOREM IntactDelivered == Spec => []IntactFramesDelivered
<1>1. Inv /\ Flow => IntactFramesDelivered
  <2> SUFFICES ASSUME Inv, Flow, reasm.buffer = "ready", NEW ts \in DOMAIN sent,
                      Settled(ts), ts \notin disturbed, Fits(ts)
               PROVE  /\ Cardinality(DeliveredAt(ts)) = 1
                      /\ \A i \in DeliveredAt(ts) : delivered[i].from = {ts}
    BY DEF IntactFramesDelivered
  <2>1. NotBegun(ts) \/ UnderWay(ts) \/ Done(ts)
    BY DEF Flow, Intact
  <2>2. \A n : Coming(ts, n) => n = sent[ts].scan
    <3>1. ts \in Nat /\ Len(sent) \in Nat
      BY FrameFacts
    <3> QED BY <3>1 DEF Coming, Settled, End
  <2>3. ~NotBegun(ts) /\ ~UnderWay(ts)
    <3>1. sent[ts].scan \in Nat /\ sent[ts].scan > 0 /\ reasm.scan_len \in Nat
      BY FrameFacts DEF Reassemblers
    <3> QED BY <2>2, <3>1 DEF NotBegun, UnderWay
  <2>4. PICK i \in DOMAIN delivered :
            /\ delivered[i].ts = ts /\ delivered[i].from = {ts}
            /\ \A j \in DOMAIN delivered : delivered[j].ts = ts => j = i
    BY <2>1, <2>3 DEF Done
  <2>5. DeliveredAt(ts) = {i}
    BY <2>4 DEF DeliveredAt
  <2>6. Cardinality({i}) = 1
    BY FS_Singleton
  <2> QED BY <2>4, <2>5, <2>6
<1> QED BY <1>1, Invariance, FlowInvariance, PTL
============================================================================
