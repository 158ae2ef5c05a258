---------------------------- MODULE VideoPipeline ----------------------------
(***************************************************************************)
(* The dual-core video pipeline of one device.  cam_enc (core 1) takes a   *)
(* V4L2 buffer, scales it, shows it, encodes it and hands it to the        *)
(* network; rtsp_cli copies each reassembled remote frame into a queue of  *)
(* QueueLen; vdec (core 0) decodes and shows those.  Encoder and decoder   *)
(* share the JPEG engine, and both tasks and LVGL share the display lock.  *)
(* Names follow video_pipeline.cpp, camera.cpp, video_codec_mjpeg.cpp,     *)
(* ui.cpp (video_set_frame) and link.cpp.  A frame is its number.          *)
(***************************************************************************)
EXTENDS Integers, Sequences, FiniteSets

CONSTANTS CAM_BUFFER_COUNT,
          QueueLen,      \* length of s_rx_q
          MaxCaptured,   \* bound: frames the sensor produces
          MaxRemote      \* bound: frames the peer sends

ASSUME PipelineAssumption ==
    /\ CAM_BUFFER_COUNT \in Nat \ {0} /\ QueueLen \in Nat
    /\ MaxCaptured \in Nat /\ MaxRemote \in Nat

Buffers == 1 .. CAM_BUFFER_COUNT
NoBuffer == 0

VARIABLES
    boot,          \* app_main: "off", then "pipeline" started, then "run"
    pipelineUp,    \* pipeline_start returned ESP_OK: tasks and queue exist
    s_enc, s_dec,  \* the codec objects: [codec, open]
    s_tx_codec,    \* video_pipeline.cpp
    link_codec,    \* link.cpp's s_codec, also the server's
    queued, done,  \* V4L2: buffers to fill, and filled ones
    held,          \* which frame is in each buffer
    captured,      \* bound counter: frames from the sensor
    s_last_index,  \* the buffer cam_enc has dequeued
    epc, s_enc_buf,\* cam_enc: where it is, and the downscaled frame
    sent,          \* the last local frame given to the network
    cpc, copy,     \* rtsp_cli in pipeline_submit_remote, and its copy
    newest,        \* the last remote frame that arrived
    heap,          \* the copies malloc has given and free not taken back
    s_rx_q,
    dpc, item,     \* vdec: where it is, and its item
    shown,         \* the last remote frame on the canvas
    canvas,        \* who drew on the canvas last
    jpeg, ui       \* holders of s_jpeg_lock and of board::lock

bootVars == <<boot, pipelineUp, s_enc, s_dec, s_tx_codec, link_codec>>
driverVars == <<queued, done, held, captured, s_last_index>>
encVars == <<epc, s_enc_buf, sent>>
cliVars == <<cpc, copy, newest>>
decVars == <<dpc, item, shown>>
vars == <<bootVars, driverVars, encVars, cliVars, heap, s_rx_q, decVars, canvas, jpeg, ui>>

Codecs == {"MJPEG", "H264"}
Closed == [codec |-> "none", open |-> FALSE]
NoItem == [frame |-> 0, codec |-> "none"]

Init ==
    /\ boot = "off" /\ pipelineUp = FALSE
    /\ s_enc = Closed /\ s_dec = Closed
    /\ s_tx_codec = "MJPEG" /\ link_codec = "MJPEG"
    /\ queued = << >> /\ done = << >> /\ captured = 0
    /\ held = [b \in Buffers |-> 0]
    /\ s_last_index = NoBuffer
    /\ epc = "capture" /\ s_enc_buf = 0 /\ sent = 0
    /\ cpc = "idle" /\ copy = 0 /\ newest = 0
    /\ heap = {} /\ s_rx_q = << >>
    /\ dpc = "wait" /\ item = NoItem /\ shown = 0
    /\ canvas = "none" /\ jpeg = "free" /\ ui = "free"

(***************************************************************************)
(* app_main: pipeline_start, then link_start with the codec it settled on. *)
(***************************************************************************)
\* What open may leave.  An MJPEG encoder whose engine is missing returns errors
\* from encode; H.264 needs internal memory that may not be there.
MjpegEncoderOpen == [codec : {"MJPEG"}, open : BOOLEAN]
H264EncoderOpen == [codec : {"H264"}, open : BOOLEAN]

\* The wanted encoder, or MJPEG in place of an H.264 encoder that did not open.
EncoderOpened(tx) ==
    IF tx = "MJPEG" THEN MjpegEncoderOpen
                    ELSE {enc \in H264EncoderOpen : enc.open} \cup MjpegEncoderOpen

\* Mutant of DecoderFor: the decoder follows the codec of the settings.
DecoderForWanted(enc, tx) == tx

\* The decoder is created for the codec the encoder ended up with.
DecoderFor(enc, tx) == enc.codec

\* A decoder that did not open returns errors from decode.
DecoderOpen(codec) == [codec : {codec}, open : BOOLEAN]

\* camera_init queues every buffer, or fails before the stream starts.
CameraInit(ok) ==
    queued' = IF ok THEN [b \in Buffers |-> b] ELSE queued

PipelineStart ==
    /\ boot = "off"
    /\ boot' = "pipeline"
    /\ \E tx \in Codecs : \E enc \in EncoderOpened(tx) :
          /\ s_enc' = enc
          /\ s_tx_codec' = enc.codec
          /\ s_dec' \in DecoderOpen(DecoderFor(enc, tx))
    /\ CameraInit(TRUE)
    /\ pipelineUp' = TRUE
    /\ UNCHANGED <<link_codec, done, held, captured, s_last_index, encVars, cliVars,
                   heap, s_rx_q, decVars, canvas, jpeg, ui>>

\* camera_init failed: no task, no queue, the default codec.
PipelineFails ==
    /\ boot = "off"
    /\ boot' = "pipeline"
    /\ CameraInit(FALSE)
    /\ UNCHANGED <<pipelineUp, s_enc, s_dec, s_tx_codec, link_codec, done, held, captured,
                   s_last_index, encVars, cliVars, heap, s_rx_q, decVars, canvas, jpeg, ui>>

LinkStart ==
    /\ boot = "pipeline"
    /\ boot' = "run"
    /\ link_codec' = s_tx_codec
    /\ UNCHANGED <<pipelineUp, s_enc, s_dec, s_tx_codec, driverVars, encVars, cliVars,
                   heap, s_rx_q, decVars, canvas, jpeg, ui>>

(***************************************************************************)
(* The display and the JPEG engine.                                        *)
(***************************************************************************)
TakeUi(task) == ui = "free" /\ ui' = task
TakeJpeg(task) == jpeg = "free" /\ jpeg' = task

\* The end of video_set_frame: the canvas may be missing or the PPA may fail,
\* and every path unlocks.
LeaveFrame(drawn, task) ==
    /\ ui' = "free"
    /\ canvas' = IF drawn THEN task ELSE canvas

\* The LVGL task, which draws under the same lock.
LvglDraws ==
    /\ TakeUi("lvgl")
    /\ UNCHANGED <<bootVars, driverVars, encVars, cliVars, heap, s_rx_q, decVars, canvas, jpeg>>

LvglDone ==
    /\ ui = "lvgl"
    /\ ui' = "free"
    /\ UNCHANGED <<bootVars, driverVars, encVars, cliVars, heap, s_rx_q, decVars, canvas, jpeg>>

(***************************************************************************)
(* The camera and cam_enc.                                                 *)
(***************************************************************************)
\* The driver fills the oldest queued buffer; with none queued a frame is lost.
SensorFrame ==
    /\ pipelineUp
    /\ captured < MaxCaptured
    /\ queued # << >>
    /\ captured' = captured + 1
    /\ held' = [held EXCEPT ![Head(queued)] = captured + 1]
    /\ done' = Append(done, Head(queued))
    /\ queued' = Tail(queued)
    /\ UNCHANGED <<bootVars, s_last_index, encVars, cliVars, heap, s_rx_q, decVars,
                   canvas, jpeg, ui>>

\* camera_capture: VIDIOC_DQBUF.
CameraCapture ==
    /\ epc = "capture" /\ pipelineUp
    /\ done # << >>
    /\ s_last_index' = Head(done)
    /\ done' = Tail(done)
    /\ epc' = "scale"
    /\ UNCHANGED <<bootVars, queued, held, captured, s_enc_buf, sent, cliVars, heap, s_rx_q,
                   decVars, canvas, jpeg, ui>>

\* Mutant of AfterScale: the loop continues without camera_release.
AfterScaleContinues(ok) == IF ok THEN "preview" ELSE "capture"

\* Mutant of AfterScale: the result of the PPA is ignored.
AfterScaleAnyway(ok) == "preview"

AfterScale(ok) == IF ok THEN "preview" ELSE "release"

ScaleToEnc ==
    /\ epc = "scale"
    /\ \E ok \in BOOLEAN :
          /\ s_enc_buf' = IF ok THEN held[s_last_index] ELSE s_enc_buf
          /\ epc' = AfterScale(ok)
    /\ UNCHANGED <<bootVars, driverVars, sent, cliVars, heap, s_rx_q, decVars, canvas, jpeg, ui>>

Preview ==
    /\ epc = "preview"
    /\ TakeUi("cam_enc")
    /\ epc' = "previewing"
    /\ UNCHANGED <<bootVars, driverVars, s_enc_buf, sent, cliVars, heap, s_rx_q, decVars,
                   canvas, jpeg>>

PreviewDone ==
    /\ epc = "previewing"
    /\ \E drawn \in BOOLEAN : LeaveFrame(drawn, "cam_enc")
    /\ epc' = "encode"
    /\ UNCHANGED <<bootVars, driverVars, s_enc_buf, sent, cliVars, heap, s_rx_q, decVars, jpeg>>

\* An encoder that did not open returns an error.
EncodeRefused ==
    /\ epc = "encode" /\ ~s_enc.open
    /\ epc' = "release"
    /\ UNCHANGED <<bootVars, driverVars, s_enc_buf, sent, cliVars, heap, s_rx_q, decVars,
                   canvas, jpeg, ui>>

\* Mutant of Encode: the JPEG engine is used without its lock.
EncodeUnlocked ==
    /\ epc = "encode" /\ s_enc.open
    /\ epc' = "encoding"
    /\ UNCHANGED <<bootVars, driverVars, s_enc_buf, sent, cliVars, heap, s_rx_q, decVars,
                   canvas, jpeg, ui>>

\* MJPEG waits for the JPEG engine; the H.264 hardware is cam_enc's alone.
Encode ==
    /\ epc = "encode" /\ s_enc.open
    /\ IF s_enc.codec = "MJPEG" THEN TakeJpeg("cam_enc") ELSE UNCHANGED jpeg
    /\ epc' = "encoding"
    /\ UNCHANGED <<bootVars, driverVars, s_enc_buf, sent, cliVars, heap, s_rx_q, decVars,
                   canvas, ui>>

\* The engine is given back; a frame that was encoded goes to the network.
EncodeDone ==
    /\ epc = "encoding"
    /\ jpeg' = IF s_enc.codec = "MJPEG" THEN "free" ELSE jpeg
    /\ sent' \in {sent, s_enc_buf}
    /\ epc' = "release"
    /\ UNCHANGED <<bootVars, driverVars, s_enc_buf, cliVars, heap, s_rx_q, decVars, canvas, ui>>

\* camera_release: VIDIOC_QBUF.
CameraRelease ==
    /\ epc = "release"
    /\ queued' = Append(queued, s_last_index)
    /\ s_last_index' = NoBuffer
    /\ epc' = "capture"
    /\ UNCHANGED <<bootVars, done, held, captured, s_enc_buf, sent, cliVars, heap, s_rx_q,
                   decVars, canvas, jpeg, ui>>

(***************************************************************************)
(* rtsp_cli: pipeline_submit_remote.                                       *)
(***************************************************************************)
\* A frame has been reassembled; without a pipeline or without memory it is
\* dropped, else it is copied.
SubmitRemote ==
    /\ boot = "run" /\ cpc = "idle"
    /\ newest < MaxRemote
    /\ newest' = newest + 1
    /\ \/ UNCHANGED <<cpc, copy, heap>>
       \/ /\ pipelineUp
          /\ copy' = newest + 1
          /\ heap' = heap \cup {newest + 1}
          /\ cpc' = "enqueue"
    /\ UNCHANGED <<bootVars, driverVars, encVars, s_rx_q, decVars, canvas, jpeg, ui>>

Item == [frame |-> copy, codec |-> link_codec]

\* Mutants of QueueSend: the copy that did not fit is not freed; one slot too
\* many; the frame is put at the front.
QueueSendLeaks ==
    IF Len(s_rx_q) < QueueLen THEN s_rx_q' = Append(s_rx_q, Item) /\ UNCHANGED heap
                              ELSE UNCHANGED <<s_rx_q, heap>>
QueueSendOverfull ==
    IF Len(s_rx_q) <= QueueLen THEN s_rx_q' = Append(s_rx_q, Item) /\ UNCHANGED heap
                               ELSE heap' = heap \ {copy} /\ UNCHANGED s_rx_q
QueueSendFront ==
    IF Len(s_rx_q) < QueueLen THEN s_rx_q' = <<Item>> \o s_rx_q /\ UNCHANGED heap
                              ELSE heap' = heap \ {copy} /\ UNCHANGED s_rx_q

\* xQueueSend without waiting: a full queue keeps what it has.
QueueSend ==
    IF Len(s_rx_q) < QueueLen THEN s_rx_q' = Append(s_rx_q, Item) /\ UNCHANGED heap
                              ELSE heap' = heap \ {copy} /\ UNCHANGED s_rx_q

Enqueue ==
    /\ cpc = "enqueue"
    /\ QueueSend
    /\ cpc' = "idle" /\ copy' = 0
    /\ UNCHANGED <<bootVars, driverVars, encVars, newest, decVars, canvas, jpeg, ui>>

(***************************************************************************)
(* vdec.                                                                   *)
(***************************************************************************)
\* Another codec, a decoder that is not open or a header it cannot read: the
\* item is only freed.
Decodable(it) == it.codec = s_dec.codec /\ s_dec.open

QueueReceive ==
    /\ dpc = "wait" /\ s_rx_q # << >>
    /\ item' = Head(s_rx_q)
    /\ s_rx_q' = Tail(s_rx_q)
    /\ dpc' \in {"free"} \cup (IF Decodable(Head(s_rx_q)) THEN {"decode"} ELSE {})
    /\ UNCHANGED <<bootVars, driverVars, encVars, cliVars, heap, shown, canvas, jpeg, ui>>

\* MJPEG waits for the JPEG engine; tinyh264 is software.
Decode ==
    /\ dpc = "decode"
    /\ IF s_dec.codec = "MJPEG" THEN TakeJpeg("vdec") ELSE UNCHANGED jpeg
    /\ dpc' = "decoding"
    /\ UNCHANGED <<bootVars, driverVars, encVars, cliVars, heap, s_rx_q, item, shown, canvas, ui>>

\* Mutant of GiveJpeg: the lock is given back only when the decoder succeeds.
GiveJpegOnSuccess(ok) ==
    jpeg' = IF s_dec.codec = "MJPEG" /\ ok THEN "free" ELSE jpeg

GiveJpeg(ok) == jpeg' = IF s_dec.codec = "MJPEG" THEN "free" ELSE jpeg

DecodeDone ==
    /\ dpc = "decoding"
    /\ \E ok \in BOOLEAN :
          /\ GiveJpeg(ok)
          /\ dpc' = IF ok THEN "show" ELSE "free"
    /\ UNCHANGED <<bootVars, driverVars, encVars, cliVars, heap, s_rx_q, item, shown, canvas, ui>>

Show ==
    /\ dpc = "show"
    /\ TakeUi("vdec")
    /\ dpc' = "showing"
    /\ UNCHANGED <<bootVars, driverVars, encVars, cliVars, heap, s_rx_q, item, shown, canvas, jpeg>>

ShowDone ==
    /\ dpc = "showing"
    /\ \E drawn \in BOOLEAN :
          /\ LeaveFrame(drawn, "vdec")
          /\ shown' = IF drawn THEN item.frame ELSE shown
    /\ dpc' = "free"
    /\ UNCHANGED <<bootVars, driverVars, encVars, cliVars, heap, s_rx_q, item, jpeg>>

Free ==
    /\ dpc = "free"
    /\ heap' = heap \ {item.frame}
    /\ item' = NoItem
    /\ dpc' = "wait"
    /\ UNCHANGED <<bootVars, driverVars, encVars, cliVars, s_rx_q, shown, canvas, jpeg, ui>>

Next ==
    \/ PipelineStart \/ PipelineFails \/ LinkStart
    \/ LvglDraws \/ LvglDone
    \/ SensorFrame \/ CameraCapture \/ ScaleToEnc \/ Preview \/ PreviewDone
    \/ EncodeRefused \/ Encode \/ EncodeDone \/ CameraRelease
    \/ SubmitRemote \/ Enqueue
    \/ QueueReceive \/ Decode \/ DecodeDone \/ Show \/ ShowDone \/ Free

Spec == Init /\ [][Next]_vars

\* The tasks run whenever they are ready.  FreeRTOS wakes the waiter of a
\* mutex when it is given, on its own core, while the task that gave it goes on
\* to something else (strong fairness); the sensor and the peer may stop.
Fairness ==
    /\ WF_vars(LvglDone)
    /\ WF_vars(CameraCapture \/ ScaleToEnc \/ PreviewDone \/ EncodeRefused \/ EncodeDone
               \/ CameraRelease)
    /\ SF_vars(Preview \/ Encode)
    /\ WF_vars(Enqueue)
    /\ WF_vars(QueueReceive \/ DecodeDone \/ ShowDone \/ Free)
    /\ SF_vars(Decode \/ Show)

FairSpec == Spec /\ Fairness

(***************************************************************************)
(* Properties.                                                             *)
(***************************************************************************)
Tasks == {"cam_enc", "vdec", "lvgl"}
Coder == [codec : Codecs \cup {"none"}, open : BOOLEAN]
Items == [frame : 1 .. MaxRemote, codec : Codecs]

\* Type invariant: the states of video_pipeline.cpp, the queue at most QueueLen
\* long (xQueueCreate), frames and buffers that exist.
TypeOK ==
    /\ boot \in {"off", "pipeline", "run"} /\ pipelineUp \in BOOLEAN
    /\ s_enc \in Coder /\ s_dec \in Coder
    /\ s_tx_codec \in Codecs /\ link_codec \in Codecs
    /\ queued \in Seq(Buffers) /\ done \in Seq(Buffers)
    /\ held \in [Buffers -> 0 .. MaxCaptured] /\ captured \in 0 .. MaxCaptured
    /\ s_last_index \in Buffers \cup {NoBuffer}
    /\ epc \in {"capture", "scale", "preview", "previewing", "encode", "encoding", "release"}
    /\ s_enc_buf \in 0 .. MaxCaptured /\ sent \in 0 .. MaxCaptured
    /\ cpc \in {"idle", "enqueue"} /\ copy \in 0 .. MaxRemote /\ newest \in 0 .. MaxRemote
    /\ heap \subseteq 1 .. MaxRemote
    /\ s_rx_q \in Seq(Items) /\ Len(s_rx_q) <= QueueLen
    /\ dpc \in {"wait", "decode", "decoding", "show", "showing", "free"}
    /\ item \in Items \cup {NoItem} /\ shown \in 0 .. MaxRemote
    /\ canvas \in Tasks \cup {"none"}
    /\ jpeg \in Tasks \cup {"free"} /\ ui \in Tasks \cup {"free"}

\* Where a V4L2 buffer is.
Places(b) == {<<"queued", i>> : i \in {j \in DOMAIN queued : queued[j] = b}}
             \cup {<<"done", i>> : i \in {j \in DOMAIN done : done[j] = b}}
             \cup {<<"app", 0>> : x \in {s_last_index} \cap {b}}

\* Every camera buffer is with the driver or with cam_enc, never with both and
\* never lost, on every path of the capture loop: the driver cannot overwrite
\* the frame being scaled and the camera cannot run dry.
BuffersAccounted ==
    pipelineUp => \A b \in Buffers : Cardinality(Places(b)) = 1

\* Every copy malloc gave has exactly one owner, the submitter, the queue or
\* vdec, and only those are allocated: no leak, no double free, no use after
\* free across the two cores.
CopiesAccounted ==
    LET owned == {copy, item.frame} \cup {s_rx_q[i].frame : i \in DOMAIN s_rx_q}
    IN /\ heap = owned \ {0}
       /\ Cardinality(heap) = Len(s_rx_q) + (IF copy = 0 THEN 0 ELSE 1)
                                          + (IF item = NoItem THEN 0 ELSE 1)

\* The JPEG engine never encodes and decodes at once, and the two tasks never
\* draw on the canvas at once.
EngineExclusive ==
    /\ ~(/\ epc = "encoding" /\ s_enc.codec = "MJPEG"
         /\ dpc = "decoding" /\ s_dec.codec = "MJPEG")
    /\ ~(epc = "previewing" /\ dpc = "showing")

\* Remote frames reach the canvas in the order the peer sent them and never
\* twice, whatever the queue drops.
RemoteInOrder == [][shown' # shown => shown' > shown]_vars

\* What is previewed and encoded is the frame just captured, and one that never
\* went to the network before: a failed scaling never resends s_enc_buf, and
\* the driver never changes the buffer under the encoder.
EncodesFresh ==
    epc \in {"preview", "previewing", "encode", "encoding"} =>
        s_enc_buf = held[s_last_index] /\ s_enc_buf > sent

\* After the fallback from H.264, encoder, decoder, the server's SDP and the
\* client's reassembler all use one codec, so vdec's codec test never rejects.
CodecsAgree ==
    /\ pipelineUp => s_dec.codec = s_enc.codec /\ s_tx_codec = s_enc.codec
    /\ boot = "run" => link_codec = s_tx_codec
    /\ item # NoItem => item.codec = s_dec.codec

\* A captured buffer always goes back to the driver: cam_enc is never stuck
\* behind the display or the JPEG engine.
BufferReturns == []<>(s_last_index = NoBuffer)

\* A copied frame is always freed in the end: vdec keeps draining the queue.
CopiesFreed == \A n \in 1 .. MaxRemote : []<>(n \notin heap)

\* Two locks, two pools, two tasks: neither task starves behind the other or
\* behind LVGL.
NeitherStarves == BufferReturns /\ CopiesFreed

\* architecture.md:55, "latest-frame-wins drop policy", and
\* video_pipeline.cpp:195: after a submission the latest frame is in the queue.
\* Violated: a full queue keeps its old frames and the latest one is dropped.
LatestFrameWins ==
    [][(cpc = "enqueue" /\ cpc' = "idle") =>
          (s_rx_q' # << >> /\ s_rx_q'[Len(s_rx_q')].frame = copy)]_vars
============================================================================
