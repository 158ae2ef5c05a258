------------------------- MODULE VideoPipelineProofs -------------------------
(***************************************************************************)
(* Proofs about VideoPipeline, for any number of buffers, queue length and *)
(* frames: types, exclusive engine and canvas, agreeing codecs, order of   *)
(* the remote frames, one owner for every copy and every camera buffer.    *)
(***************************************************************************)
EXTENDS VideoPipeline, FiniteSetTheorems, TLAPS

\* What runs when: cam_enc only with a pipeline, the client only after link_start.
BootOk ==
    /\ pipelineUp => boot # "off"
    /\ epc # "capture" => pipelineUp /\ s_last_index \in Buffers
    /\ epc = "capture" => s_last_index = NoBuffer
    /\ cpc = "enqueue" => boot = "run" /\ pipelineUp /\ copy = newest /\ copy # 0
    /\ cpc = "idle" => copy = 0
    /\ s_rx_q # << >> => boot = "run" /\ pipelineUp
    /\ item # NoItem => boot = "run" /\ pipelineUp
    /\ dpc # "wait" <=> item # NoItem

\* Whoever is past a lock holds it.
LockOk ==
    /\ epc = "encoding" /\ s_enc.codec = "MJPEG" => jpeg = "cam_enc"
    /\ dpc = "decoding" /\ s_dec.codec = "MJPEG" => jpeg = "vdec"
    /\ epc = "previewing" => ui = "cam_enc"
    /\ dpc = "showing" => ui = "vdec"

\* Every item in the queue is in the decoder's codec.
CodecOk ==
    /\ CodecsAgree
    /\ \A i \in 1 .. Len(s_rx_q) : s_rx_q[i].codec = s_dec.codec

\* From the canvas over vdec and the queue to the client frames are ever newer.
OrderOk ==
    /\ shown <= newest
    /\ item # NoItem => shown <= item.frame /\ item.frame <= newest
    /\ dpc \in {"decode", "decoding", "show", "showing"} => shown < item.frame
    /\ cpc = "enqueue" => shown < copy /\ item.frame < copy
    /\ \A i \in 1 .. Len(s_rx_q) :
          /\ shown < s_rx_q[i].frame /\ item.frame < s_rx_q[i].frame
          /\ s_rx_q[i].frame <= newest
          /\ cpc = "enqueue" => s_rx_q[i].frame < copy
    /\ \A i, j \in 1 .. Len(s_rx_q) : i < j => s_rx_q[i].frame < s_rx_q[j].frame

\* The allocated copies are those the client, the queue and vdec hold.
HeapOk ==
    heap = ({copy, item.frame} \cup {s_rx_q[i].frame : i \in 1 .. Len(s_rx_q)}) \ {0}

\* No camera buffer is in two places, and with a pipeline each is in one.
BufferOk ==
    /\ \A i, j \in 1 .. Len(queued) : queued[i] = queued[j] => i = j
    /\ \A i, j \in 1 .. Len(done) : done[i] = done[j] => i = j
    /\ \A i \in 1 .. Len(queued), j \in 1 .. Len(done) : queued[i] # done[j]
    /\ \A i \in 1 .. Len(queued) : queued[i] # s_last_index
    /\ \A i \in 1 .. Len(done) : done[i] # s_last_index
    /\ pipelineUp =>
          \A b \in Buffers : \/ b = s_last_index
                             \/ \E i \in 1 .. Len(queued) : queued[i] = b
                             \/ \E i \in 1 .. Len(done) : done[i] = b
    /\ ~pipelineUp => done = << >>

\* Frames wait in the order they were captured, all newer than the last one sent.
FreshOk ==
    /\ sent <= captured
    /\ \A i \in 1 .. Len(done) : sent < held[done[i]] /\ held[done[i]] <= captured
    /\ \A i, j \in 1 .. Len(done) : i < j => held[done[i]] < held[done[j]]
    /\ epc \notin {"capture", "release"} => sent < held[s_last_index]
    /\ epc # "capture" =>
          /\ held[s_last_index] <= captured
          /\ \A i \in 1 .. Len(done) : held[s_last_index] < held[done[i]]
    /\ epc \in {"preview", "previewing", "encode", "encoding"} =>
          s_enc_buf = held[s_last_index]

Inv == TypeOK /\ BootOk /\ LockOk /\ CodecOk /\ OrderOk /\ HeapOk /\ BufferOk /\ FreshOk

(***************************************************************************)
(* Sequences.                                                              *)
(***************************************************************************)
\* Append adds one element behind the others.
LEMMA AppendOk ==
    ASSUME NEW S, NEW s \in Seq(S), NEW e \in S
    PROVE  /\ Append(s, e) \in Seq(S)
           /\ Len(Append(s, e)) = Len(s) + 1
           /\ Append(s, e)[Len(s) + 1] = e
           /\ \A i \in 1 .. Len(s) : Append(s, e)[i] = s[i]
  OBVIOUS

\* Head takes the first element and Tail moves the others down by one.
LEMMA TailOk ==
    ASSUME NEW S, NEW s \in Seq(S), s # << >>
    PROVE  /\ Head(s) \in S /\ Head(s) = s[1]
           /\ Tail(s) \in Seq(S)
           /\ Len(s) \in Nat /\ Len(s) >= 1
           /\ Len(Tail(s)) = Len(s) - 1
           /\ \A i \in 1 .. Len(Tail(s)) : Tail(s)[i] = s[i + 1]
  OBVIOUS

(***************************************************************************)
(* Initial states.                                                         *)
(***************************************************************************)
\* The initial states satisfy the invariant.
LEMMA InitInv == Init => Inv
<1>. SUFFICES ASSUME Init PROVE Inv
  OBVIOUS
<1>. USE PipelineAssumption DEF Init
<1>1. TypeOK
  <2>1. queued \in Seq(Buffers) /\ done \in Seq(Buffers) /\ s_rx_q \in Seq(Items)
    OBVIOUS
  <2>2. Len(s_rx_q) <= QueueLen
    OBVIOUS
  <2>3. held \in [Buffers -> 0 .. MaxCaptured]
    OBVIOUS
  <2>. QED
    <3>1. /\ s_enc \in Coder /\ s_dec \in Coder /\ item \in Items \cup {NoItem}
          /\ s_tx_codec \in Codecs /\ link_codec \in Codecs
      BY DEF Coder, Closed, Codecs
    <3>2. /\ captured \in 0 .. MaxCaptured /\ s_enc_buf \in 0 .. MaxCaptured
          /\ sent \in 0 .. MaxCaptured /\ copy \in 0 .. MaxRemote
          /\ newest \in 0 .. MaxRemote /\ shown \in 0 .. MaxRemote
      OBVIOUS
    <3>. QED
      BY <2>1, <2>2, <2>3, <3>1, <3>2 DEF TypeOK, Tasks
<1>2. BootOk /\ LockOk
  BY DEF BootOk, LockOk, NoItem, NoBuffer
<1>3. CodecOk /\ OrderOk
  BY DEF CodecOk, CodecsAgree, OrderOk, NoItem
<1>4. HeapOk
  BY DEF HeapOk, NoItem
<1>5. BufferOk /\ FreshOk
  BY DEF BufferOk, FreshOk, NoBuffer
<1>. QED
  BY <1>1, <1>2, <1>3, <1>4, <1>5 DEF Inv

(***************************************************************************)
(* Types.                                                                  *)
(***************************************************************************)
\* Every step keeps the types.
LEMMA TypeStep == Inv /\ [Next]_vars => TypeOK'
<1>. SUFFICES ASSUME TypeOK, BootOk, [Next]_vars PROVE TypeOK'
  BY DEF Inv
<1>. USE PipelineAssumption
     DEF TypeOK, Coder, Codecs, Buffers, NoBuffer, NoItem, Items, Tasks, BootOk,
         bootVars, driverVars, encVars, cliVars, decVars
<1>1. CASE PipelineStart
  BY <1>1 DEF PipelineStart, EncoderOpened, MjpegEncoderOpen, H264EncoderOpen, DecoderFor,
              DecoderOpen, CameraInit
<1>2. CASE PipelineFails
  BY <1>2 DEF PipelineFails, CameraInit
<1>3. CASE LinkStart
  BY <1>3 DEF LinkStart
<1>4. CASE LvglDraws
  BY <1>4 DEF LvglDraws, TakeUi
<1>5. CASE LvglDone
  BY <1>5 DEF LvglDone
<1>6. CASE SensorFrame
  <2>1. Head(queued) \in Buffers /\ Tail(queued) \in Seq(Buffers)
    BY <1>6, TailOk DEF SensorFrame
  <2>2. Append(done, Head(queued)) \in Seq(Buffers)
    BY <2>1, AppendOk
  <2>3. queued' \in Seq(Buffers) /\ done' \in Seq(Buffers)
    BY <1>6, <2>1, <2>2 DEF SensorFrame
  <2>4. captured + 1 \in 0 .. MaxCaptured
    BY <1>6 DEF SensorFrame
  <2>5. held' \in [Buffers -> 0 .. MaxCaptured] /\ captured' \in 0 .. MaxCaptured
    BY <1>6, <2>4 DEF SensorFrame
  <2>6. UNCHANGED <<bootVars, s_last_index, encVars, cliVars, heap, s_rx_q, decVars,
                    canvas, jpeg, ui>>
    BY <1>6 DEF SensorFrame
  <2>. QED
    BY <2>3, <2>5, <2>6
<1>7. CASE CameraCapture
  <2>1. Head(done) \in Buffers /\ Tail(done) \in Seq(Buffers)
    BY <1>7, TailOk DEF CameraCapture
  <2>2. s_last_index' \in Buffers /\ done' \in Seq(Buffers) /\ epc' = "scale"
    BY <1>7, <2>1 DEF CameraCapture
  <2>3. UNCHANGED <<bootVars, queued, held, captured, s_enc_buf, sent, cliVars, heap, s_rx_q,
                    decVars, canvas, jpeg, ui>>
    BY <1>7 DEF CameraCapture
  <2>. QED
    BY <2>2, <2>3
<1>8. CASE ScaleToEnc
  BY <1>8 DEF ScaleToEnc, AfterScale
<1>9. CASE Preview
  BY <1>9 DEF Preview, TakeUi
<1>10. CASE PreviewDone
  BY <1>10 DEF PreviewDone, LeaveFrame
<1>11. CASE EncodeRefused
  BY <1>11 DEF EncodeRefused
<1>12. CASE Encode
  <2>1. jpeg' \in Tasks \cup {"free"} /\ epc' = "encoding"
    BY <1>12 DEF Encode, TakeJpeg
  <2>. QED
    BY <1>12, <2>1 DEF Encode
<1>13. CASE EncodeDone
  BY <1>13 DEF EncodeDone
<1>14. CASE CameraRelease
  <2>1. Append(queued, s_last_index) \in Seq(Buffers)
    BY <1>14, AppendOk DEF CameraRelease
  <2>. QED
    BY <1>14, <2>1 DEF CameraRelease
<1>15. CASE SubmitRemote
  <2>1. newest + 1 \in 1 .. MaxRemote
    BY <1>15 DEF SubmitRemote
  <2>2. heap \cup {newest + 1} \subseteq 1 .. MaxRemote
    BY <2>1
  <2>3. heap' \subseteq 1 .. MaxRemote
    BY <1>15, <2>2 DEF SubmitRemote
  <2>4. newest' \in 0 .. MaxRemote /\ copy' \in 0 .. MaxRemote /\ cpc' \in {"idle", "enqueue"}
    BY <1>15, <2>1 DEF SubmitRemote
  <2>5. UNCHANGED <<bootVars, driverVars, encVars, s_rx_q, decVars, canvas, jpeg, ui>>
    BY <1>15 DEF SubmitRemote
  <2>. QED
    BY <2>3, <2>4, <2>5
<1>16. CASE Enqueue
  <2>1. Item \in Items
    BY <1>16 DEF Enqueue, Item
  <2>2. heap' \subseteq 1 .. MaxRemote
    BY <1>16 DEF Enqueue, QueueSend
  <2>3. UNCHANGED <<bootVars, driverVars, encVars, newest, decVars, canvas, jpeg, ui>>
        /\ cpc' = "idle" /\ copy' = 0
    BY <1>16 DEF Enqueue
  <2>4. CASE Len(s_rx_q) < QueueLen
    <3>1. s_rx_q' = Append(s_rx_q, Item)
      BY <1>16, <2>4 DEF Enqueue, QueueSend
    <3>2. s_rx_q' \in Seq(Items) /\ Len(s_rx_q') = Len(s_rx_q) + 1
      BY <2>1, <3>1, AppendOk
    <3>3. Len(s_rx_q') <= QueueLen
      BY <2>4, <3>2
    <3>. QED
      BY <2>2, <2>3, <3>2, <3>3
  <2>5. CASE ~(Len(s_rx_q) < QueueLen)
    <3>1. s_rx_q' = s_rx_q
      BY <1>16, <2>5 DEF Enqueue, QueueSend
    <3>. QED
      BY <2>2, <2>3, <3>1
  <2>. QED
    BY <2>4, <2>5
<1>17. CASE QueueReceive
  <2>1. /\ Head(s_rx_q) \in Items /\ Tail(s_rx_q) \in Seq(Items)
        /\ Len(s_rx_q) \in Nat /\ Len(Tail(s_rx_q)) = Len(s_rx_q) - 1
    BY <1>17, TailOk DEF QueueReceive
  <2>2. item' \in Items /\ s_rx_q' \in Seq(Items) /\ Len(s_rx_q') <= QueueLen
    BY <1>17, <2>1 DEF QueueReceive
  <2>3. dpc' \in {"free", "decode"}
    BY <1>17 DEF QueueReceive
  <2>4. UNCHANGED <<bootVars, driverVars, encVars, cliVars, heap, shown, canvas, jpeg, ui>>
    BY <1>17 DEF QueueReceive
  <2>. QED
    BY <2>2, <2>3, <2>4
<1>18. CASE Decode
  BY <1>18 DEF Decode, TakeJpeg
<1>19. CASE DecodeDone
  BY <1>19 DEF DecodeDone, GiveJpeg
<1>20. CASE Show
  BY <1>20 DEF Show, TakeUi
<1>21. CASE ShowDone
  BY <1>21 DEF ShowDone, LeaveFrame
<1>22. CASE Free
  <2>1. heap' \subseteq 1 .. MaxRemote
    BY <1>22 DEF Free
  <2>. QED
    BY <1>22, <2>1 DEF Free
<1>23. CASE UNCHANGED vars
  BY <1>23 DEF vars
<1>. QED
  BY <1>1, <1>2, <1>3, <1>4, <1>5, <1>6, <1>7, <1>8, <1>9, <1>10, <1>11, <1>12,
     <1>13, <1>14, <1>15, <1>16, <1>17, <1>18, <1>19, <1>20, <1>21, <1>22, <1>23 DEF Next

(***************************************************************************)
(* Where the tasks are, the locks and the codecs.                          *)
(***************************************************************************)
\* Every step keeps the tasks' places consistent with what exists.
LEMMA BootStep == Inv /\ [Next]_vars => BootOk'
<1>. SUFFICES ASSUME TypeOK, BootOk, [Next]_vars PROVE BootOk'
  BY DEF Inv
<1>. USE DEF BootOk, NoItem, NoBuffer
<1>1. CASE UNCHANGED <<boot, pipelineUp, epc, s_last_index, cpc, copy, newest, s_rx_q, dpc, item>>
  BY <1>1
<1>2. CASE PipelineStart \/ PipelineFails \/ LinkStart
  BY <1>2 DEF PipelineStart, PipelineFails, LinkStart, driverVars, encVars, cliVars, decVars
<1>3. CASE CameraCapture
  <2>1. s_last_index' \in Buffers /\ epc' = "scale" /\ pipelineUp
    BY <1>3, TailOk DEF CameraCapture, TypeOK
  <2>. QED
    BY <1>3, <2>1 DEF CameraCapture, bootVars, cliVars, decVars
<1>4. CASE ScaleToEnc \/ Preview \/ PreviewDone \/ EncodeRefused \/ Encode \/ EncodeDone
  BY <1>4 DEF ScaleToEnc, AfterScale, Preview, PreviewDone, EncodeRefused, Encode, EncodeDone,
              bootVars, driverVars, cliVars, decVars
<1>5. CASE CameraRelease
  BY <1>5 DEF CameraRelease, bootVars, cliVars, decVars
<1>6. CASE SubmitRemote
  BY <1>6 DEF SubmitRemote, TypeOK, bootVars, driverVars, encVars, decVars
<1>7. CASE Enqueue
  BY <1>7 DEF Enqueue, bootVars, driverVars, encVars, decVars
<1>8. CASE QueueReceive
  <2>1. Head(s_rx_q) \in Items
    BY <1>8, TailOk DEF QueueReceive, TypeOK
  <2>2. item' \in Items /\ item' # NoItem
    BY <1>8, <2>1 DEF QueueReceive, Items
  <2>3. dpc' # "wait"
    BY <1>8 DEF QueueReceive
  <2>. QED
    BY <1>8, <2>2, <2>3 DEF QueueReceive, bootVars, driverVars, encVars, cliVars
<1>9. CASE Decode \/ DecodeDone \/ Show \/ ShowDone
  BY <1>9 DEF Decode, DecodeDone, Show, ShowDone, bootVars, driverVars, encVars, cliVars
<1>10. CASE Free
  BY <1>10 DEF Free, bootVars, driverVars, encVars, cliVars
<1>11. CASE LvglDraws \/ LvglDone \/ SensorFrame \/ UNCHANGED vars
  BY <1>1, <1>11
     DEF vars, LvglDraws, LvglDone, SensorFrame, bootVars, driverVars, encVars, cliVars, decVars
<1>. QED
  BY <1>2, <1>3, <1>4, <1>5, <1>6, <1>7, <1>8, <1>9, <1>10, <1>11 DEF Next

\* A lock that is held passes only from its holder.
LEMMA LockStep == Inv /\ [Next]_vars => LockOk'
<1>. SUFFICES ASSUME BootOk, LockOk, [Next]_vars PROVE LockOk'
  BY DEF Inv
<1>. USE DEF LockOk
<1>1. CASE UNCHANGED <<s_enc, s_dec, epc, dpc, jpeg, ui>>
  BY <1>1
<1>2. CASE PipelineStart
  BY <1>2 DEF PipelineStart, BootOk, encVars, decVars
<1>3. CASE LvglDraws \/ LvglDone
  BY <1>3 DEF LvglDraws, LvglDone, TakeUi, bootVars, encVars, decVars
<1>4. CASE CameraCapture \/ ScaleToEnc \/ EncodeRefused \/ CameraRelease
  BY <1>4 DEF CameraCapture, ScaleToEnc, AfterScale, EncodeRefused, CameraRelease, bootVars,
              decVars
<1>5. CASE Preview \/ PreviewDone
  BY <1>5 DEF Preview, PreviewDone, TakeUi, LeaveFrame, bootVars, decVars
<1>6. CASE Encode \/ EncodeDone
  BY <1>6 DEF Encode, EncodeDone, TakeJpeg, bootVars, decVars
<1>7. CASE QueueReceive \/ Free
  BY <1>7 DEF QueueReceive, Free, bootVars, encVars
<1>8. CASE Decode \/ DecodeDone
  BY <1>8 DEF Decode, DecodeDone, TakeJpeg, GiveJpeg, bootVars, encVars
<1>9. CASE Show \/ ShowDone
  BY <1>9 DEF Show, ShowDone, TakeUi, LeaveFrame, bootVars, encVars
<1>. QED
  BY <1>1, <1>2, <1>3, <1>4, <1>5, <1>6, <1>7, <1>8, <1>9
     DEF Next, vars, PipelineFails, LinkStart, SensorFrame, SubmitRemote, Enqueue, bootVars,
         encVars, decVars

\* The codecs agree from the moment they are chosen, in every item too.
LEMMA CodecStep == Inv /\ [Next]_vars => CodecOk'
<1>. SUFFICES ASSUME TypeOK, BootOk, CodecOk, [Next]_vars PROVE CodecOk'
  BY DEF Inv
<1>1. CASE UNCHANGED <<boot, pipelineUp, s_enc, s_dec, s_tx_codec, link_codec, item, s_rx_q>>
  BY <1>1 DEF CodecOk, CodecsAgree
<1>2. CASE PipelineStart \/ PipelineFails \/ LinkStart
  <2>1. s_rx_q = << >> /\ item = NoItem
    BY <1>2 DEF PipelineStart, PipelineFails, LinkStart, BootOk
  <2>2. s_rx_q' = << >> /\ item' = NoItem
    BY <1>2, <2>1 DEF PipelineStart, PipelineFails, LinkStart, decVars
  <2>3. CASE PipelineStart
    <3>1. s_dec'.codec = s_enc'.codec /\ s_tx_codec' = s_enc'.codec /\ boot' = "pipeline"
      BY <2>3 DEF PipelineStart, DecoderFor, DecoderOpen
    <3>2. CodecsAgree'
      BY <2>2, <3>1 DEF CodecsAgree
    <3>3. 1 .. Len(s_rx_q') = {}
      BY <2>2
    <3>. QED
      BY <3>2, <3>3 DEF CodecOk
  <2>4. CASE PipelineFails \/ LinkStart
    <3>1. /\ UNCHANGED <<pipelineUp, s_enc, s_dec, s_tx_codec>>
          /\ boot' = "run" => link_codec' = s_tx_codec'
      BY <2>4 DEF PipelineFails, LinkStart
    <3>2. CodecsAgree'
      BY <2>2, <3>1 DEF CodecOk, CodecsAgree
    <3>3. 1 .. Len(s_rx_q') = {}
      BY <2>2
    <3>. QED
      BY <3>2, <3>3 DEF CodecOk
  <2>. QED
    BY <1>2, <2>3, <2>4
<1>3. CASE Enqueue
  <2>1. UNCHANGED <<boot, pipelineUp, s_enc, s_dec, s_tx_codec, link_codec, item>>
    BY <1>3 DEF Enqueue, bootVars, decVars
  <2>2. Item \in Items /\ Item.codec = s_dec.codec
    BY <1>3 DEF Enqueue, Item, Items, TypeOK, BootOk, CodecOk, CodecsAgree
  <2>3. CASE Len(s_rx_q) < QueueLen
    <3>1. s_rx_q' = Append(s_rx_q, Item)
      BY <1>3, <2>3 DEF Enqueue, QueueSend
    <3>. QED
      BY <2>1, <2>2, <3>1, AppendOk DEF TypeOK, CodecOk, CodecsAgree
  <2>4. CASE ~(Len(s_rx_q) < QueueLen)
    BY <1>3, <2>1, <2>4 DEF Enqueue, QueueSend, CodecOk, CodecsAgree
  <2>. QED
    BY <2>3, <2>4
<1>4. CASE QueueReceive
  <2>1. s_rx_q' = Tail(s_rx_q) /\ item' = Head(s_rx_q) /\ s_rx_q # << >>
    BY <1>4 DEF QueueReceive
  <2>2. UNCHANGED <<boot, pipelineUp, s_enc, s_dec, s_tx_codec, link_codec>>
    BY <1>4 DEF QueueReceive, bootVars
  <2>. QED
    BY <2>1, <2>2, TailOk DEF TypeOK, CodecOk, CodecsAgree
<1>5. CASE Free
  BY <1>5 DEF Free, CodecOk, CodecsAgree, bootVars
<1>. QED
  BY <1>1, <1>2, <1>3, <1>4, <1>5
     DEF Next, vars, LvglDraws, LvglDone, SensorFrame, CameraCapture, ScaleToEnc, Preview,
         PreviewDone, EncodeRefused, Encode, EncodeDone, CameraRelease, SubmitRemote, Decode,
         DecodeDone, Show, ShowDone, bootVars, decVars

(***************************************************************************)
(* The remote frames.                                                      *)
(***************************************************************************)
\* Frames are numbers, those in the queue from 1 on.
LEMMA FrameNumbers ==
    TypeOK => /\ shown \in Nat /\ newest \in Nat /\ copy \in Nat /\ item.frame \in Nat
              /\ item # NoItem => item.frame >= 1
              /\ Len(s_rx_q) \in Nat
              /\ \A i \in 1 .. Len(s_rx_q) : s_rx_q[i] \in Items /\ s_rx_q[i].frame \in Nat
                                                             /\ s_rx_q[i].frame >= 1
<1>. SUFFICES ASSUME TypeOK
     PROVE  /\ shown \in Nat /\ newest \in Nat /\ copy \in Nat /\ item.frame \in Nat
            /\ item # NoItem => item.frame >= 1
            /\ Len(s_rx_q) \in Nat
            /\ \A i \in 1 .. Len(s_rx_q) : s_rx_q[i] \in Items /\ s_rx_q[i].frame \in Nat
                                                           /\ s_rx_q[i].frame >= 1
  OBVIOUS
<1>1. shown \in Nat /\ newest \in Nat /\ copy \in Nat
  BY PipelineAssumption DEF TypeOK
<1>2. item.frame \in Nat /\ (item # NoItem => item.frame >= 1)
  BY DEF TypeOK, Items, NoItem
<1>3. s_rx_q \in Seq(Items)
  BY DEF TypeOK
<1>4. \A i \in 1 .. Len(s_rx_q) : s_rx_q[i] \in Items
  BY <1>3
<1>5. \A x \in Items : x.frame \in Nat /\ x.frame >= 1
  BY DEF Items
<1>. QED
  BY <1>1, <1>2, <1>3, <1>4, <1>5

\* The queue only ever loses its oldest frame or gains the newest.
LEMMA OrderStep == Inv /\ [Next]_vars => OrderOk'
<1>. SUFFICES ASSUME TypeOK, BootOk, OrderOk, [Next]_vars PROVE OrderOk'
  BY DEF Inv
<1>. USE FrameNumbers
<1>1. CASE UNCHANGED <<shown, newest, item, cpc, copy, s_rx_q, dpc>>
  BY <1>1 DEF OrderOk
<1>2. CASE SubmitRemote
  <2>1. /\ UNCHANGED <<shown, item, s_rx_q, dpc>>
        /\ newest' = newest + 1
        /\ cpc' = "enqueue" => copy' = newest + 1
    BY <1>2 DEF SubmitRemote, decVars
  <2>2. item.frame <= newest
    BY DEF OrderOk, NoItem
  <2>. QED
    BY <2>1, <2>2 DEF OrderOk
<1>3. CASE Enqueue
  <2>1. UNCHANGED <<shown, newest, item, dpc>> /\ cpc' = "idle" /\ cpc = "enqueue"
    BY <1>3 DEF Enqueue, decVars
  <2>2. CASE Len(s_rx_q) < QueueLen
    <3>1. s_rx_q' = Append(s_rx_q, Item)
      BY <1>3, <2>2 DEF Enqueue, QueueSend
    <3>2. Item \in Items /\ Item.frame = copy /\ copy = newest
      BY <2>1 DEF Item, Items, TypeOK, BootOk
    <3>3. /\ Len(s_rx_q) \in Nat /\ Len(s_rx_q') = Len(s_rx_q) + 1
          /\ s_rx_q'[Len(s_rx_q) + 1] = Item
          /\ \A i \in 1 .. Len(s_rx_q) : s_rx_q'[i] = s_rx_q[i]
      BY <3>1, <3>2, AppendOk DEF TypeOK
    <3>4. \A i \in 1 .. Len(s_rx_q') : i \in 1 .. Len(s_rx_q) \/ i = Len(s_rx_q) + 1
      BY <3>3
    <3>5. \A i \in 1 .. Len(s_rx_q') :
             /\ shown < s_rx_q'[i].frame /\ item.frame < s_rx_q'[i].frame
             /\ s_rx_q'[i].frame <= newest
      BY <2>1, <3>2, <3>3, <3>4 DEF OrderOk
    <3>6. \A i, j \in 1 .. Len(s_rx_q') : i < j => s_rx_q'[i].frame < s_rx_q'[j].frame
      BY <2>1, <3>2, <3>3, <3>4 DEF OrderOk
    <3>. QED
      BY <2>1, <3>5, <3>6 DEF OrderOk
  <2>3. CASE ~(Len(s_rx_q) < QueueLen)
    <3>1. s_rx_q' = s_rx_q
      BY <1>3, <2>3 DEF Enqueue, QueueSend
    <3>. QED
      BY <2>1, <3>1 DEF OrderOk
  <2>. QED
    BY <2>2, <2>3
<1>4. CASE QueueReceive
  <2>1. UNCHANGED <<shown, newest, cpc, copy>> /\ dpc' \in {"free", "decode"}
    BY <1>4 DEF QueueReceive, cliVars
  <2>2. /\ Head(s_rx_q) = s_rx_q[1] /\ Len(s_rx_q) \in Nat /\ Len(s_rx_q) >= 1
        /\ Len(Tail(s_rx_q)) = Len(s_rx_q) - 1
        /\ \A i \in 1 .. Len(Tail(s_rx_q)) : Tail(s_rx_q)[i] = s_rx_q[i + 1]
    BY <1>4, TailOk DEF QueueReceive, TypeOK
  <2>3. /\ item' = s_rx_q[1] /\ Len(s_rx_q') = Len(s_rx_q) - 1
        /\ \A i \in 1 .. Len(s_rx_q') : s_rx_q'[i] = s_rx_q[i + 1]
    BY <1>4, <2>2 DEF QueueReceive
  <2>4. \A i \in 1 .. Len(s_rx_q') : i + 1 \in 1 .. Len(s_rx_q) /\ 1 < i + 1
    BY <2>2, <2>3
  <2>5. /\ shown < item'.frame /\ item'.frame <= newest
        /\ cpc = "enqueue" => item'.frame < copy
    BY <2>2, <2>3 DEF OrderOk
  <2>6. shown <= item'.frame
    BY <2>2, <2>3, <2>5
  <2>7. \A i \in 1 .. Len(s_rx_q') :
           /\ shown < s_rx_q'[i].frame /\ item'.frame < s_rx_q'[i].frame
           /\ s_rx_q'[i].frame <= newest
           /\ cpc = "enqueue" => s_rx_q'[i].frame < copy
    <3>. SUFFICES ASSUME NEW i \in 1 .. Len(s_rx_q')
                  PROVE  /\ shown < s_rx_q'[i].frame /\ item'.frame < s_rx_q'[i].frame
                         /\ s_rx_q'[i].frame <= newest
                         /\ cpc = "enqueue" => s_rx_q'[i].frame < copy
      OBVIOUS
    <3>1. s_rx_q'[i] = s_rx_q[i + 1] /\ i + 1 \in 1 .. Len(s_rx_q) /\ 1 < i + 1
      BY <2>3, <2>4
    <3>2. 1 \in 1 .. Len(s_rx_q)
      BY <2>2
    <3>. QED
      BY <2>3, <3>1, <3>2 DEF OrderOk
  <2>8. \A i, j \in 1 .. Len(s_rx_q') : i < j => s_rx_q'[i].frame < s_rx_q'[j].frame
    <3>. SUFFICES ASSUME NEW i \in 1 .. Len(s_rx_q'), NEW j \in 1 .. Len(s_rx_q'), i < j
                  PROVE  s_rx_q'[i].frame < s_rx_q'[j].frame
      OBVIOUS
    <3>1. /\ s_rx_q'[i] = s_rx_q[i + 1] /\ i + 1 \in 1 .. Len(s_rx_q)
          /\ s_rx_q'[j] = s_rx_q[j + 1] /\ j + 1 \in 1 .. Len(s_rx_q)
          /\ i + 1 < j + 1
      BY <2>3, <2>4
    <3>. QED
      BY <3>1 DEF OrderOk
  <2>. QED
    BY <2>1, <2>5, <2>6, <2>7, <2>8 DEF OrderOk
<1>5. CASE Decode \/ DecodeDone \/ Show
  BY <1>5 DEF Decode, DecodeDone, Show, OrderOk, cliVars
<1>6. CASE ShowDone
  <2>1. UNCHANGED <<newest, item, cpc, copy, s_rx_q>> /\ dpc' = "free" /\ dpc = "showing"
    BY <1>6 DEF ShowDone, cliVars
  <2>2. shown' \in {shown, item.frame} /\ item # NoItem
    BY <1>6 DEF ShowDone, BootOk
  <2>. QED
    BY <2>1, <2>2 DEF OrderOk
<1>7. CASE Free
  <2>1. UNCHANGED <<newest, shown, cpc, copy, s_rx_q>> /\ dpc' = "wait" /\ item' = NoItem
    BY <1>7 DEF Free, cliVars
  <2>2. cpc = "enqueue" => copy >= 1
    BY DEF BootOk
  <2>. QED
    BY <2>1, <2>2 DEF OrderOk, NoItem
<1>. QED
  BY <1>1, <1>2, <1>3, <1>4, <1>5, <1>6, <1>7
     DEF Next, vars, PipelineStart, PipelineFails, LinkStart, LvglDraws, LvglDone, SensorFrame,
         CameraCapture, ScaleToEnc, Preview, PreviewDone, EncodeRefused, Encode, EncodeDone,
         CameraRelease, cliVars, decVars

(***************************************************************************)
(* The copies on the heap.                                                 *)
(***************************************************************************)
\* What is allocated stays what client, queue and vdec hold between them.
LEMMA HeapStep == Inv /\ [Next]_vars => HeapOk'
<1>. SUFFICES ASSUME TypeOK, BootOk, OrderOk, HeapOk, [Next]_vars PROVE HeapOk'
  BY DEF Inv
<1>. USE FrameNumbers
<1> DEFINE Q(q) == {q[i].frame : i \in 1 .. Len(q)}
<1>1. CASE UNCHANGED <<copy, item, s_rx_q, heap>>
  BY <1>1 DEF HeapOk
<1>2. CASE SubmitRemote
  <2>1. UNCHANGED <<item, s_rx_q>> /\ copy = 0
    BY <1>2 DEF SubmitRemote, BootOk, decVars
  <2>2. \/ UNCHANGED <<copy, heap>>
        \/ copy' = newest + 1 /\ heap' = heap \cup {copy'}
    BY <1>2 DEF SubmitRemote
  <2>. QED
    BY <2>1, <2>2 DEF HeapOk
<1>3. CASE Enqueue
  <2>1. item' = item /\ copy' = 0 /\ copy # 0 /\ cpc = "enqueue"
    BY <1>3 DEF Enqueue, BootOk, decVars
  <2>2. CASE Len(s_rx_q) < QueueLen
    <3>1. s_rx_q' = Append(s_rx_q, Item) /\ heap' = heap
      BY <1>3, <2>2 DEF Enqueue, QueueSend
    <3>2. Item \in Items /\ Item.frame = copy
      BY <2>1 DEF Item, Items, TypeOK, BootOk
    <3>3. /\ Len(s_rx_q') = Len(s_rx_q) + 1
          /\ s_rx_q'[Len(s_rx_q) + 1] = Item
          /\ \A i \in 1 .. Len(s_rx_q) : s_rx_q'[i] = s_rx_q[i]
      BY <3>1, <3>2, AppendOk DEF TypeOK
    <3>4. Q(s_rx_q') = Q(s_rx_q) \cup {copy}
      <4>1. \A i \in 1 .. Len(s_rx_q') : i \in 1 .. Len(s_rx_q) \/ i = Len(s_rx_q) + 1
        BY <3>3
      <4>2. /\ \A i \in 1 .. Len(s_rx_q) : i \in 1 .. Len(s_rx_q')
            /\ Len(s_rx_q) + 1 \in 1 .. Len(s_rx_q')
        BY <3>3
      <4>. QED
        BY <3>2, <3>3, <4>1, <4>2
    <3>. QED
      BY <2>1, <3>1, <3>4 DEF HeapOk
  <2>3. CASE ~(Len(s_rx_q) < QueueLen)
    <3>1. s_rx_q' = s_rx_q /\ heap' = heap \ {copy}
      BY <1>3, <2>3 DEF Enqueue, QueueSend
    <3>2. copy \notin Q(s_rx_q) /\ copy # item.frame
      BY <2>1 DEF OrderOk
    <3>. QED
      BY <2>1, <3>1, <3>2 DEF HeapOk
  <2>. QED
    BY <2>2, <2>3
<1>4. CASE QueueReceive
  <2>1. UNCHANGED <<copy, heap>> /\ item = NoItem
    BY <1>4 DEF QueueReceive, BootOk, cliVars
  <2>2. /\ item' = s_rx_q[1] /\ Len(s_rx_q) >= 1
        /\ Len(s_rx_q') = Len(s_rx_q) - 1
        /\ \A i \in 1 .. Len(s_rx_q') : s_rx_q'[i] = s_rx_q[i + 1]
    BY <1>4, TailOk DEF QueueReceive, TypeOK
  <2>3. Q(s_rx_q) = Q(s_rx_q') \cup {item'.frame}
    <3>1. Q(s_rx_q) \subseteq Q(s_rx_q') \cup {item'.frame}
      <4>. SUFFICES ASSUME NEW i \in 1 .. Len(s_rx_q)
                    PROVE  s_rx_q[i].frame \in Q(s_rx_q') \cup {item'.frame}
        OBVIOUS
      <4>1. CASE i = 1
        BY <2>2, <4>1
      <4>2. CASE i # 1
        <5>1. i - 1 \in 1 .. Len(s_rx_q') /\ (i - 1) + 1 = i
          BY <2>2, <4>2
        <5>2. s_rx_q'[i - 1] = s_rx_q[i]
          BY <2>2, <5>1
        <5>. QED
          BY <5>1, <5>2
      <4>. QED
        BY <4>1, <4>2
    <3>2. Q(s_rx_q') \cup {item'.frame} \subseteq Q(s_rx_q)
      <4>1. \A i \in 1 .. Len(s_rx_q') : i + 1 \in 1 .. Len(s_rx_q)
        BY <2>2
      <4>2. 1 \in 1 .. Len(s_rx_q)
        BY <2>2
      <4>. QED
        BY <2>2, <4>1, <4>2
    <3>. QED
      BY <3>1, <3>2
  <2>. QED
    BY <2>1, <2>3 DEF HeapOk, NoItem
<1>5. CASE Free
  <2>1. UNCHANGED <<copy, s_rx_q>> /\ item' = NoItem /\ heap' = heap \ {item.frame}
    BY <1>5 DEF Free, cliVars
  <2>2. item # NoItem
    BY <1>5 DEF Free, BootOk
  <2>3. item.frame \notin Q(s_rx_q)
    BY DEF OrderOk
  <2>4. copy # item.frame
    BY <2>2 DEF OrderOk, BootOk, TypeOK
  <2>. QED
    BY <2>1, <2>3, <2>4 DEF HeapOk, NoItem
<1>. QED
  BY <1>1, <1>2, <1>3, <1>4, <1>5
     DEF Next, vars, PipelineStart, PipelineFails, LinkStart, LvglDraws, LvglDone, SensorFrame,
         CameraCapture, ScaleToEnc, Preview, PreviewDone, EncodeRefused, Encode, EncodeDone,
         CameraRelease, Decode, DecodeDone, Show, ShowDone, cliVars, decVars

(***************************************************************************)
(* The camera's buffers and the frames in them.                            *)
(***************************************************************************)
\* What the driver's queues and cam_enc pass on.
LEMMA QueueSteps ==
    TypeOK =>
      /\ Len(queued) \in Nat /\ Len(done) \in Nat
      /\ SensorFrame =>
            /\ Len(queued) >= 1 /\ queued[1] \in Buffers
            /\ Len(queued') = Len(queued) - 1
            /\ \A i \in 1 .. Len(queued') : queued'[i] = queued[i + 1]
            /\ Len(done') = Len(done) + 1 /\ done'[Len(done) + 1] = queued[1]
            /\ \A i \in 1 .. Len(done) : done'[i] = done[i]
            /\ held' = [held EXCEPT ![queued[1]] = captured + 1]
      /\ CameraCapture =>
            /\ Len(done) >= 1 /\ s_last_index' = done[1] /\ done[1] \in Buffers
            /\ Len(done') = Len(done) - 1
            /\ \A i \in 1 .. Len(done') : done'[i] = done[i + 1]
      /\ CameraRelease /\ s_last_index \in Buffers =>
            /\ Len(queued') = Len(queued) + 1 /\ queued'[Len(queued) + 1] = s_last_index
            /\ \A i \in 1 .. Len(queued) : queued'[i] = queued[i]
<1>. SUFFICES ASSUME TypeOK
     PROVE  /\ Len(queued) \in Nat /\ Len(done) \in Nat
            /\ SensorFrame =>
                  /\ Len(queued) >= 1 /\ queued[1] \in Buffers
                  /\ Len(queued') = Len(queued) - 1
                  /\ \A i \in 1 .. Len(queued') : queued'[i] = queued[i + 1]
                  /\ Len(done') = Len(done) + 1 /\ done'[Len(done) + 1] = queued[1]
                  /\ \A i \in 1 .. Len(done) : done'[i] = done[i]
                  /\ held' = [held EXCEPT ![queued[1]] = captured + 1]
            /\ CameraCapture =>
                  /\ Len(done) >= 1 /\ s_last_index' = done[1] /\ done[1] \in Buffers
                  /\ Len(done') = Len(done) - 1
                  /\ \A i \in 1 .. Len(done') : done'[i] = done[i + 1]
            /\ CameraRelease /\ s_last_index \in Buffers =>
                  /\ Len(queued') = Len(queued) + 1 /\ queued'[Len(queued) + 1] = s_last_index
                  /\ \A i \in 1 .. Len(queued) : queued'[i] = queued[i]
  OBVIOUS
<1>1. queued \in Seq(Buffers) /\ done \in Seq(Buffers)
  BY DEF TypeOK
<1>2. Len(queued) \in Nat /\ Len(done) \in Nat
  BY <1>1
<1>3. ASSUME SensorFrame
      PROVE  /\ Len(queued) >= 1 /\ queued[1] \in Buffers
             /\ Len(queued') = Len(queued) - 1
             /\ \A i \in 1 .. Len(queued') : queued'[i] = queued[i + 1]
             /\ Len(done') = Len(done) + 1 /\ done'[Len(done) + 1] = queued[1]
             /\ \A i \in 1 .. Len(done) : done'[i] = done[i]
             /\ held' = [held EXCEPT ![queued[1]] = captured + 1]
  <2>1. /\ Head(queued) \in Buffers /\ Head(queued) = queued[1] /\ Len(queued) >= 1
        /\ Len(Tail(queued)) = Len(queued) - 1
        /\ \A i \in 1 .. Len(Tail(queued)) : Tail(queued)[i] = queued[i + 1]
    BY <1>1, <1>3, TailOk DEF SensorFrame
  <2>2. /\ Len(Append(done, Head(queued))) = Len(done) + 1
        /\ Append(done, Head(queued))[Len(done) + 1] = Head(queued)
        /\ \A i \in 1 .. Len(done) : Append(done, Head(queued))[i] = done[i]
    BY <1>1, <2>1, AppendOk
  <2>3. /\ queued' = Tail(queued) /\ done' = Append(done, Head(queued))
        /\ held' = [held EXCEPT ![Head(queued)] = captured + 1]
    BY <1>3 DEF SensorFrame
  <2>. QED
    BY <2>1, <2>2, <2>3
<1>4. ASSUME CameraCapture
      PROVE  /\ Len(done) >= 1 /\ s_last_index' = done[1] /\ done[1] \in Buffers
             /\ Len(done') = Len(done) - 1
             /\ \A i \in 1 .. Len(done') : done'[i] = done[i + 1]
  <2>1. done' = Tail(done) /\ s_last_index' = Head(done) /\ done # << >>
    BY <1>4 DEF CameraCapture
  <2>. QED
    BY <1>1, <2>1, TailOk
<1>5. ASSUME CameraRelease, s_last_index \in Buffers
      PROVE  /\ Len(queued') = Len(queued) + 1 /\ queued'[Len(queued) + 1] = s_last_index
             /\ \A i \in 1 .. Len(queued) : queued'[i] = queued[i]
  <2>1. queued' = Append(queued, s_last_index)
    BY <1>5 DEF CameraRelease
  <2>. QED
    BY <1>1, <1>5, <2>1, AppendOk
<1>. QED
  BY <1>2, <1>3, <1>4, <1>5

\* Frames are numbers, and captured counts them.
LEMMA HeldNumbers ==
    TypeOK => /\ captured \in Nat /\ sent \in Nat /\ s_enc_buf \in Nat
              /\ \A b \in Buffers : held[b] \in Nat
              /\ \A i \in 1 .. Len(done) : done[i] \in Buffers
              /\ \A i \in 1 .. Len(queued) : queued[i] \in Buffers
  BY PipelineAssumption DEF TypeOK

\* A buffer only ever moves from one place to the next.
LEMMA BufferStep == Inv /\ [Next]_vars => BufferOk'
<1>. SUFFICES ASSUME TypeOK, BootOk, BufferOk, [Next]_vars PROVE BufferOk'
  BY DEF Inv
<1>1. CASE UNCHANGED <<queued, done, s_last_index, pipelineUp>>
  BY <1>1 DEF BufferOk
<1>2. CASE PipelineStart
  <2>1. /\ queued' = [b \in Buffers |-> b] /\ done' = << >> /\ s_last_index' = 0
        /\ s_last_index = 0
    BY <1>2 DEF PipelineStart, CameraInit, BufferOk, BootOk, NoBuffer, encVars
  <2>2. /\ Len(queued') = CAM_BUFFER_COUNT
        /\ \A i \in 1 .. CAM_BUFFER_COUNT : queued'[i] = i
    BY <2>1, PipelineAssumption DEF Buffers
  <2>. QED
    BY <2>1, <2>2, PipelineAssumption DEF BufferOk, Buffers
<1>3. CASE PipelineFails
  BY <1>3 DEF PipelineFails, CameraInit, BufferOk
<1>4. CASE SensorFrame
  <2>1. UNCHANGED <<s_last_index, pipelineUp>> /\ pipelineUp
    BY <1>4 DEF SensorFrame, bootVars
  <2>2. 1 \in 1 .. Len(queued)
    BY <1>4, QueueSteps
  <2>3. \A i \in 1 .. Len(queued') :
           i + 1 \in 1 .. Len(queued) /\ i + 1 # 1 /\ queued'[i] = queued[i + 1]
    BY <1>4, QueueSteps
  <2>4. \A i \in 1 .. Len(done') :
           \/ i \in 1 .. Len(done) /\ done'[i] = done[i]
           \/ i = Len(done) + 1 /\ done'[i] = queued[1]
    BY <1>4, QueueSteps
  <2>5. \A i, j \in 1 .. Len(queued') : queued'[i] = queued'[j] => i = j
    <3>. SUFFICES ASSUME NEW i \in 1 .. Len(queued'), NEW j \in 1 .. Len(queued'),
                         queued'[i] = queued'[j]
                  PROVE  i = j
      OBVIOUS
    <3>1. i + 1 = j + 1
      BY <2>3 DEF BufferOk
    <3>. QED
      BY <3>1
  <2>6. \A i, j \in 1 .. Len(done') : done'[i] = done'[j] => i = j
    <3>1. /\ \A i, j \in 1 .. Len(done) : done[i] = done[j] => i = j
          /\ \A i \in 1 .. Len(done) : done[i] # queued[1]
      BY <2>2 DEF BufferOk
    <3>. QED
      BY <2>4, <3>1
  <2>7. \A i \in 1 .. Len(queued'), j \in 1 .. Len(done') : queued'[i] # done'[j]
    <3>1. /\ \A i \in 1 .. Len(queued), j \in 1 .. Len(done) : queued[i] # done[j]
          /\ \A i \in 1 .. Len(queued) : queued[i] = queued[1] => i = 1
      BY <2>2 DEF BufferOk
    <3>. QED
      BY <2>2, <2>3, <2>4, <3>1
  <2>8. /\ \A i \in 1 .. Len(queued') : queued'[i] # s_last_index
        /\ \A i \in 1 .. Len(done') : done'[i] # s_last_index
    <3>1. \A i \in 1 .. Len(queued) : queued[i] # s_last_index
      BY DEF BufferOk
    <3>2. \A i \in 1 .. Len(done) : done[i] # s_last_index
      BY DEF BufferOk
    <3>3. \A i \in 1 .. Len(queued') : queued'[i] # s_last_index
      BY <2>3, <3>1
    <3>4. \A i \in 1 .. Len(done') : done'[i] # s_last_index
      BY <2>2, <2>4, <3>1, <3>2
    <3>. QED
      BY <3>3, <3>4
  <2>9. ASSUME NEW b \in Buffers
        PROVE  \/ b = s_last_index
               \/ \E i \in 1 .. Len(queued') : queued'[i] = b
               \/ \E i \in 1 .. Len(done') : done'[i] = b
    <3>1. CASE b = s_last_index
      BY <3>1
    <3>2. ASSUME NEW i \in 1 .. Len(queued), queued[i] = b, i = 1
          PROVE  \E k \in 1 .. Len(done') : done'[k] = b
      BY <1>4, <3>2, QueueSteps
    <3>3. ASSUME NEW i \in 1 .. Len(queued), queued[i] = b, i # 1
          PROVE  \E k \in 1 .. Len(queued') : queued'[k] = b
      <4>1. /\ Len(queued) \in Nat /\ Len(queued') = Len(queued) - 1
            /\ \A k \in 1 .. Len(queued') : queued'[k] = queued[k + 1]
        BY <1>4, QueueSteps
      <4>2. i - 1 \in 1 .. Len(queued') /\ (i - 1) + 1 = i
        BY <3>3, <4>1
      <4>3. queued'[i - 1] = queued[i]
        BY <4>1, <4>2
      <4>. QED
        BY <3>3, <4>2, <4>3
    <3>4. ASSUME NEW i \in 1 .. Len(done), done[i] = b
          PROVE  \E k \in 1 .. Len(done') : done'[k] = b
      BY <1>4, <3>4, QueueSteps
    <3>. QED
      BY <2>1, <3>1, <3>2, <3>3, <3>4 DEF BufferOk
  <2>. QED
    BY <2>1, <2>5, <2>6, <2>7, <2>8, <2>9 DEF BufferOk
<1>5. CASE CameraCapture
  <2>1. UNCHANGED <<queued, pipelineUp>> /\ pipelineUp /\ s_last_index = NoBuffer
    BY <1>5 DEF CameraCapture, BootOk, bootVars
  <2>2. 1 \in 1 .. Len(done) /\ s_last_index' = done[1]
    BY <1>5, QueueSteps
  <2>3. \A i \in 1 .. Len(done') :
           i + 1 \in 1 .. Len(done) /\ i + 1 # 1 /\ done'[i] = done[i + 1]
    BY <1>5, QueueSteps
  <2>4. \A i, j \in 1 .. Len(done') : done'[i] = done'[j] => i = j
    <3>. SUFFICES ASSUME NEW i \in 1 .. Len(done'), NEW j \in 1 .. Len(done'), done'[i] = done'[j]
                  PROVE  i = j
      OBVIOUS
    <3>1. i + 1 = j + 1
      BY <2>3 DEF BufferOk
    <3>. QED
      BY <3>1
  <2>5. /\ \A i \in 1 .. Len(queued), j \in 1 .. Len(done') : queued[i] # done'[j]
        /\ \A i \in 1 .. Len(queued) : queued[i] # s_last_index'
        /\ \A i \in 1 .. Len(done') : done'[i] # s_last_index'
    BY <2>2, <2>3 DEF BufferOk
  <2>6. ASSUME NEW b \in Buffers
        PROVE  \/ b = s_last_index'
               \/ \E i \in 1 .. Len(queued) : queued[i] = b
               \/ \E i \in 1 .. Len(done') : done'[i] = b
    <3>1. ASSUME NEW i \in 1 .. Len(done), done[i] = b, i # 1
          PROVE  \E k \in 1 .. Len(done') : done'[k] = b
      <4>1. /\ Len(done) \in Nat /\ Len(done') = Len(done) - 1
            /\ \A k \in 1 .. Len(done') : done'[k] = done[k + 1]
        BY <1>5, QueueSteps
      <4>2. i - 1 \in 1 .. Len(done') /\ (i - 1) + 1 = i
        BY <3>1, <4>1
      <4>3. done'[i - 1] = done[i]
        BY <4>1, <4>2
      <4>. QED
        BY <3>1, <4>2, <4>3
    <3>2. b # NoBuffer
      BY DEF Buffers, NoBuffer
    <3>. QED
      BY <2>1, <2>2, <3>1, <3>2 DEF BufferOk
  <2>. QED
    BY <2>1, <2>4, <2>5, <2>6 DEF BufferOk
<1>6. CASE CameraRelease
  <2>1. /\ UNCHANGED <<done, pipelineUp>> /\ pipelineUp /\ s_last_index \in Buffers
        /\ s_last_index' = NoBuffer
    BY <1>6 DEF CameraRelease, BootOk, bootVars
  <2>2. \A i \in 1 .. Len(queued') :
           \/ i \in 1 .. Len(queued) /\ queued'[i] = queued[i]
           \/ i = Len(queued) + 1 /\ queued'[i] = s_last_index
    BY <1>6, <2>1, QueueSteps
  <2>3. \A i, j \in 1 .. Len(queued') : queued'[i] = queued'[j] => i = j
    BY <2>2 DEF BufferOk
  <2>4. \A i \in 1 .. Len(queued'), j \in 1 .. Len(done) : queued'[i] # done[j]
    BY <2>2 DEF BufferOk
  <2>5. /\ \A i \in 1 .. Len(queued) : queued[i] \in Buffers
        /\ \A i \in 1 .. Len(done) : done[i] \in Buffers
    BY HeldNumbers
  <2>6. \A b \in Buffers : b # NoBuffer
    BY DEF Buffers, NoBuffer
  <2>7. /\ \A i \in 1 .. Len(queued') : queued'[i] # NoBuffer
        /\ \A i \in 1 .. Len(done) : done[i] # NoBuffer
    BY <2>1, <2>2, <2>5, <2>6
  <2>8. /\ \A i \in 1 .. Len(queued) : i \in 1 .. Len(queued') /\ queued'[i] = queued[i]
        /\ Len(queued) + 1 \in 1 .. Len(queued') /\ queued'[Len(queued) + 1] = s_last_index
    BY <1>6, <2>1, QueueSteps
  <2>9. \A b \in Buffers : \/ \E i \in 1 .. Len(queued') : queued'[i] = b
                           \/ \E i \in 1 .. Len(done) : done[i] = b
    BY <2>1, <2>8 DEF BufferOk
  <2>. QED
    BY <2>1, <2>3, <2>4, <2>7, <2>9 DEF BufferOk
<1>. QED
  BY <1>1, <1>2, <1>3, <1>4, <1>5, <1>6, QueueSteps
     DEF Next, vars, LinkStart, LvglDraws, LvglDone, ScaleToEnc, Preview, PreviewDone,
         EncodeRefused, Encode, EncodeDone, SubmitRemote, Enqueue, QueueReceive, Decode,
         DecodeDone, Show, ShowDone, Free, bootVars, driverVars

\* The driver changes no buffer that waits or is in use, and frames are used in
\* the order they were captured.
LEMMA FreshStep == Inv /\ [Next]_vars => FreshOk'
<1>. SUFFICES ASSUME TypeOK, BootOk, BufferOk, FreshOk, [Next]_vars PROVE FreshOk'
  BY DEF Inv
<1>. USE HeldNumbers
<1>1. CASE UNCHANGED <<done, held, captured, sent, s_last_index, epc, s_enc_buf>>
  BY <1>1 DEF FreshOk
<1>2. CASE SensorFrame
  <2>1. /\ UNCHANGED <<sent, s_last_index, epc, s_enc_buf>> /\ captured' = captured + 1
    BY <1>2 DEF SensorFrame, encVars
  <2>2. 1 \in 1 .. Len(queued) /\ queued[1] \in Buffers
    BY <1>2, QueueSteps
  <2>3. held'[queued[1]] = captured + 1 /\ \A b \in Buffers \ {queued[1]} : held'[b] = held[b]
    <3>1. held' = [held EXCEPT ![queued[1]] = captured + 1]
      BY <1>2, QueueSteps
    <3>2. held \in [Buffers -> 0 .. MaxCaptured]
      BY DEF TypeOK
    <3>. QED
      BY <2>2, <3>1, <3>2
  <2>4. \A i \in 1 .. Len(done) : done[i] # queued[1] /\ held'[done[i]] = held[done[i]]
    BY <2>2, <2>3 DEF BufferOk
  <2>5. epc # "capture" => s_last_index \in Buffers /\ held'[s_last_index] = held[s_last_index]
    BY <2>2, <2>3 DEF BufferOk, BootOk
  <2>6. \A i \in 1 .. Len(done') :
           \/ /\ i \in 1 .. Len(done) /\ held'[done'[i]] = held[done[i]]
           \/ /\ i = Len(done) + 1 /\ held'[done'[i]] = captured + 1
    BY <1>2, <2>3, <2>4, QueueSteps
  <2>7. \A i \in 1 .. Len(done') : sent < held'[done'[i]] /\ held'[done'[i]] <= captured'
    BY <2>1, <2>6 DEF FreshOk
  <2>8. \A i, j \in 1 .. Len(done') : i < j => held'[done'[i]] < held'[done'[j]]
    BY <2>6 DEF FreshOk
  <2>9. epc \notin {"capture", "release"} => sent < held'[s_last_index]
    BY <2>5 DEF FreshOk
  <2>10. epc # "capture" =>
           /\ held'[s_last_index] <= captured'
           /\ \A i \in 1 .. Len(done') : held'[s_last_index] < held'[done'[i]]
    BY <2>1, <2>5, <2>6 DEF FreshOk
  <2>. QED
    BY <2>1, <2>5, <2>7, <2>8, <2>9, <2>10 DEF FreshOk
<1>3. CASE CameraCapture
  <2>1. UNCHANGED <<held, captured, sent, s_enc_buf>> /\ epc' = "scale"
    BY <1>3 DEF CameraCapture
  <2>2. 1 \in 1 .. Len(done) /\ s_last_index' = done[1]
    BY <1>3, QueueSteps
  <2>3. \A i \in 1 .. Len(done') :
           i + 1 \in 1 .. Len(done) /\ 1 < i + 1 /\ done'[i] = done[i + 1]
    BY <1>3, QueueSteps
  <2>4. \A i, j \in 1 .. Len(done') : i < j => held[done'[i]] < held[done'[j]]
    <3>. SUFFICES ASSUME NEW i \in 1 .. Len(done'), NEW j \in 1 .. Len(done'), i < j
                  PROVE  held[done'[i]] < held[done'[j]]
      OBVIOUS
    <3>1. i + 1 < j + 1
      OBVIOUS
    <3>. QED
      BY <2>3, <3>1 DEF FreshOk
  <2>5. \A i \in 1 .. Len(done') : /\ sent < held[done'[i]] /\ held[done'[i]] <= captured
                                   /\ held[done[1]] < held[done'[i]]
    BY <2>2, <2>3 DEF FreshOk
  <2>. QED
    BY <2>1, <2>2, <2>4, <2>5 DEF FreshOk
<1>4. CASE ScaleToEnc \/ Preview \/ PreviewDone \/ EncodeRefused \/ Encode
  BY <1>4 DEF ScaleToEnc, AfterScale, Preview, PreviewDone, EncodeRefused, Encode, FreshOk,
              driverVars
<1>5. CASE EncodeDone
  <2>1. UNCHANGED <<done, held, captured, s_last_index, s_enc_buf>> /\ epc = "encoding"
        /\ epc' = "release" /\ sent' \in {sent, s_enc_buf}
    BY <1>5 DEF EncodeDone, driverVars
  <2>2. s_enc_buf = held[s_last_index] /\ held[s_last_index] <= captured
    BY <2>1 DEF FreshOk
  <2>. QED
    BY <2>1, <2>2 DEF FreshOk
<1>6. CASE CameraRelease
  BY <1>6 DEF CameraRelease, FreshOk
<1>. QED
  BY <1>1, <1>2, <1>3, <1>4, <1>5, <1>6, QueueSteps
     DEF Next, vars, PipelineStart, PipelineFails, LinkStart, LvglDraws, LvglDone, SubmitRemote,
         Enqueue, QueueReceive, Decode, DecodeDone, Show, ShowDone, Free, driverVars, encVars

(***************************************************************************)
(* Theorems.                                                               *)
(***************************************************************************)
\* The invariant holds in every reachable state.
THEOREM Invariance == Spec => []Inv
<1>1. Inv /\ [Next]_vars => Inv'
  BY TypeStep, BootStep, LockStep, CodecStep, OrderStep, HeapStep, BufferStep, FreshStep DEF Inv
<1>. QED
  BY InitInv, <1>1, PTL DEF Spec

\* Every variable keeps its type: the queue of remote frames never holds more
\* than the QueueLen items xQueueCreate made room for.
THEOREM TypeCorrect == Spec => []TypeOK
<1>1. Inv => TypeOK
  BY DEF Inv
<1>. QED
  BY Invariance, <1>1, PTL

\* s_jpeg_lock keeps encoder and decoder out of the JPEG engine together, and
\* board::lock the two tasks out of the canvas.
THEOREM Exclusive == Spec => []EngineExclusive
<1>1. Inv => EngineExclusive
  BY DEF Inv, LockOk, EngineExclusive
<1>. QED
  BY Invariance, <1>1, PTL

\* Whatever the settings want and whichever codec opens, encoder, decoder and
\* network use the same one.
THEOREM Agree == Spec => []CodecsAgree
<1>1. Inv => CodecsAgree
  BY DEF Inv, CodecOk
<1>. QED
  BY Invariance, <1>1, PTL

\* cam_enc previews and encodes only the frame it has just captured, and none
\* that it has already sent.
THEOREM Fresh == Spec => []EncodesFresh
<1>1. Inv => EncodesFresh
  BY DEF Inv, FreshOk, EncodesFresh
<1>. QED
  BY Invariance, <1>1, PTL

\* vdec draws remote frames in the order the peer sent them.
THEOREM Ordered == Spec => RemoteInOrder
<1>1. Inv /\ [Next]_vars => [shown' # shown => shown' > shown]_vars
  <2>. SUFFICES ASSUME Inv, Next, shown' # shown PROVE shown' > shown
    OBVIOUS
  <2>1. dpc = "showing" /\ shown' = item.frame
    BY DEF Next, ShowDone, PipelineStart, PipelineFails, LinkStart, LvglDraws, LvglDone,
           SensorFrame, CameraCapture, ScaleToEnc, Preview, PreviewDone, EncodeRefused,
           Encode, EncodeDone, CameraRelease, SubmitRemote, Enqueue, QueueReceive, Decode,
           DecodeDone, Show, Free, decVars
  <2>2. shown < item.frame
    BY <2>1 DEF Inv, OrderOk
  <2>. QED
    BY <2>1, <2>2, FrameNumbers DEF Inv
<1>. QED
  BY Invariance, <1>1, PTL DEF Spec, RemoteInOrder

\* A camera buffer is in one place.
LEMMA OnePlace == Inv => BuffersAccounted
<1>. SUFFICES ASSUME Inv, pipelineUp, NEW b \in Buffers PROVE Cardinality(Places(b)) = 1
  BY DEF BuffersAccounted
<1>1. BufferOk
  BY DEF Inv
<1>2. DOMAIN queued = 1 .. Len(queued) /\ DOMAIN done = 1 .. Len(done)
  BY DEF Inv, TypeOK
<1>3. \E p : Places(b) = {p}
  <2>1. CASE b = s_last_index
    <3>1. Places(b) = {<<"app", 0>>}
      BY <1>1, <1>2, <2>1 DEF Places, BufferOk
    <3>. QED
      BY <3>1
  <2>2. CASE b # s_last_index /\ \E i \in 1 .. Len(queued) : queued[i] = b
    <3>1. PICK i \in 1 .. Len(queued) : queued[i] = b
      BY <2>2
    <3>2. {j \in DOMAIN queued : queued[j] = b} = {i}
      BY <1>1, <1>2, <3>1 DEF BufferOk
    <3>3. {j \in DOMAIN done : done[j] = b} = {} /\ {s_last_index} \cap {b} = {}
      BY <1>1, <1>2, <2>2, <3>1 DEF BufferOk
    <3>4. Places(b) = {<<"queued", i>>}
      BY <3>2, <3>3 DEF Places
    <3>. QED
      BY <3>4
  <2>3. CASE b # s_last_index /\ \E i \in 1 .. Len(done) : done[i] = b
    <3>1. PICK i \in 1 .. Len(done) : done[i] = b
      BY <2>3
    <3>2. {j \in DOMAIN done : done[j] = b} = {i}
      BY <1>1, <1>2, <3>1 DEF BufferOk
    <3>3. {j \in DOMAIN queued : queued[j] = b} = {} /\ {s_last_index} \cap {b} = {}
      BY <1>1, <1>2, <2>3, <3>1 DEF BufferOk
    <3>4. Places(b) = {<<"done", i>>}
      BY <3>2, <3>3 DEF Places
    <3>. QED
      BY <3>4
  <2>. QED
    BY <1>1, <2>1, <2>2, <2>3 DEF BufferOk
<1>. QED
  BY <1>3, FS_Singleton

\* No camera buffer is lost and none is shared by the driver and cam_enc,
\* whichever step of the capture loop fails.
THEOREM BuffersKept == Spec => []BuffersAccounted
  BY Invariance, OnePlace, PTL

\* A function that repeats no value has as many values as arguments.
LEMMA DistinctValues ==
    ASSUME NEW n \in Nat, NEW F, NEW g \in [1 .. n -> F],
           \A x \in F : \E i \in 1 .. n : g[i] = x,
           \A i, j \in 1 .. n : g[i] = g[j] => i = j
    PROVE  IsFiniteSet(F) /\ Cardinality(F) = n
<1>1. g \in Injection(1 .. n, F)
  BY DEF Injection, IsInjective
<1>2. g \in Surjection(1 .. n, F)
  BY DEF Surjection
<1>3. ExistsBijection(1 .. n, F)
  BY <1>1, <1>2 DEF ExistsBijection, Bijection
<1>. QED
  BY <1>3, FS_CountingElements, FS_NatBijection

\* The queue holds as many copies as items: no two items share one.
LEMMA CopiesQueued ==
    ASSUME Inv
    PROVE  /\ IsFiniteSet({s_rx_q[i].frame : i \in 1 .. Len(s_rx_q)})
           /\ Cardinality({s_rx_q[i].frame : i \in 1 .. Len(s_rx_q)}) = Len(s_rx_q)
<1>1. Len(s_rx_q) \in Nat /\ \A i \in 1 .. Len(s_rx_q) : s_rx_q[i].frame \in Nat
  BY FrameNumbers DEF Inv
<1>2. \A i, j \in 1 .. Len(s_rx_q) : i < j => s_rx_q[i].frame < s_rx_q[j].frame
  BY DEF Inv, OrderOk
<1>3. ASSUME NEW n, n = Len(s_rx_q), NEW g, g = [i \in 1 .. n |-> s_rx_q[i].frame]
      PROVE  /\ IsFiniteSet({s_rx_q[i].frame : i \in 1 .. n})
             /\ Cardinality({s_rx_q[i].frame : i \in 1 .. n}) = n
  <2>1. n \in Nat /\ g = [i \in 1 .. n |-> g[i]]
    BY <1>1, <1>3
  <2>2. ASSUME NEW i \in 1 .. n, NEW j \in 1 .. n, g[i] = g[j] PROVE i = j
    <3>1. s_rx_q[i].frame = s_rx_q[j].frame /\ s_rx_q[i].frame \in Nat
      BY <1>1, <1>3, <2>2
    <3>. QED
      BY <1>2, <1>3, <2>1, <3>1
  <2>3. ASSUME NEW F, F = {s_rx_q[i].frame : i \in 1 .. n}
        PROVE  IsFiniteSet(F) /\ Cardinality(F) = n
    <3>1. g \in [1 .. n -> F] /\ \A x \in F : \E i \in 1 .. n : g[i] = x
      BY <1>3, <2>3
    <3>. QED
      BY <2>1, <2>2, <3>1, DistinctValues
  <2>. QED
    BY <2>3
<1>. QED
  BY <1>3

\* The copies are those of the client, the queue and vdec, each of one owner.
LEMMA OneOwnerEach == Inv => CopiesAccounted
<1>. SUFFICES ASSUME Inv PROVE CopiesAccounted
  OBVIOUS
<1>. DEFINE F == {s_rx_q[i].frame : i \in 1 .. Len(s_rx_q)}
            G == IF item = NoItem THEN F ELSE F \cup {item.frame}
            H == IF copy = 0 THEN G ELSE G \cup {copy}
<1>1. Len(s_rx_q) \in Nat /\ DOMAIN s_rx_q = 1 .. Len(s_rx_q)
  <2>1. s_rx_q \in Seq(Items)
    BY DEF Inv, TypeOK
  <2>. QED
    BY <2>1
<1>2. IsFiniteSet(F) /\ Cardinality(F) = Len(s_rx_q)
  BY CopiesQueued
<1>3. /\ copy \in Nat /\ item.frame \in Nat /\ shown \in Nat
      /\ item # NoItem => item.frame >= 1
      /\ \A i \in 1 .. Len(s_rx_q) : s_rx_q[i].frame \in Nat
  BY FrameNumbers DEF Inv
<1>4. /\ \A i \in 1 .. Len(s_rx_q) : /\ item.frame < s_rx_q[i].frame
                                     /\ copy # 0 => s_rx_q[i].frame < copy
      /\ copy # 0 => item.frame < copy
  BY DEF Inv, TypeOK, BootOk, OrderOk
<1>5. /\ \A n \in F : n # 0 /\ n # item.frame /\ n # copy
      /\ copy # 0 => item.frame # copy
      /\ (item = NoItem) <=> (item.frame = 0)
  <2>1. \A i \in 1 .. Len(s_rx_q) :
           s_rx_q[i].frame # 0 /\ s_rx_q[i].frame # item.frame /\ s_rx_q[i].frame # copy
    <3>. SUFFICES ASSUME NEW i \in 1 .. Len(s_rx_q)
                  PROVE  /\ s_rx_q[i].frame # 0 /\ s_rx_q[i].frame # item.frame
                         /\ s_rx_q[i].frame # copy
      OBVIOUS
    <3>1. /\ s_rx_q[i].frame \in Nat /\ item.frame < s_rx_q[i].frame
          /\ copy # 0 => s_rx_q[i].frame < copy
      BY <1>3, <1>4
    <3>. QED
      BY <1>3, <3>1
  <2>2. copy # 0 => item.frame # copy
    BY <1>3, <1>4
  <2>3. (item = NoItem) <=> (item.frame = 0)
    BY <1>3 DEF NoItem
  <2>. QED
    BY <2>1, <2>2, <2>3
<1>6. heap = H
  <2>1. heap = ({copy, item.frame} \cup F) \ {0}
    BY DEF Inv, HeapOk
  <2>. QED
    BY <1>5, <2>1
<1>7. ({copy, item.frame} \cup {s_rx_q[i].frame : i \in DOMAIN s_rx_q}) \ {0} = heap
  BY <1>1 DEF Inv, HeapOk
<1>. HIDE DEF F
<1>8. /\ IsFiniteSet(G)
      /\ Cardinality(G) = Len(s_rx_q) + (IF item = NoItem THEN 0 ELSE 1)
  <2>1. item.frame \notin F
    BY <1>5
  <2>. QED
    BY <1>1, <1>2, <2>1, FS_AddElement
<1>9. copy # 0 => copy \notin G
  BY <1>5
<1>. HIDE DEF G
<1>10. Cardinality(H) = Len(s_rx_q) + (IF copy = 0 THEN 0 ELSE 1)
                                    + (IF item = NoItem THEN 0 ELSE 1)
  <2>1. CASE copy = 0
    BY <1>1, <1>8, <2>1
  <2>2. CASE copy # 0
    <3>1. Cardinality(G \cup {copy}) = Cardinality(G) + 1
      BY <1>8, <1>9, <2>2, FS_AddElement
    <3>. QED
      BY <1>1, <1>8, <2>2, <3>1
  <2>. QED
    BY <2>1, <2>2
<1>. QED
  BY <1>6, <1>7, <1>10 DEF CopiesAccounted

\* Every copy of a remote frame has one owner across the two cores, and only
\* owned copies are allocated: none leaks, none is freed twice.
THEOREM OneOwner == Spec => []CopiesAccounted
  BY Invariance, OneOwnerEach, PTL
==============================================================================
