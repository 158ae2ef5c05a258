# M5Tab5-VideoLink: a TLA+ model of the video link

VideoLink is firmware for two M5Stack Tab5 devices that find each other over
Wi-Fi and exchange video and audio.  Each device publishes its camera over
RTSP/RTP and subscribes to the other's.  This directory holds TLA+ modules
for the parts of that firmware where tasks, packets and connections
interleave, configurations that check them with TLC, and proofs checked by
TLAPS.  Paths below are relative to the repository (`src/...` is the firmware).

## 1. Inventory

| Component | State | Operations | Talks to |
|---|---|---|---|
| RTP/JPEG (`rtsp/rtp.cpp`) | sender: offset, sequence number; `RtpJpegReassembler`: working buffer, header and scan length, current timestamp | `rtp_send_jpeg`, `init`, `feed` | the RTSP server sends, the RTSP client feeds, UDP in between |
| RTP/H.264 (`rtsp/rtp.cpp`) | `RtpH264Reassembler`: buffer and length | `split_nals`, `rtp_send_h264`, `init`, `feed` | as above |
| RTSP server (`rtsp/rtsp_server.cpp`) | `s_streaming`, `s_dest`, `s_seq` under `s_lock`; the client being served | accept loop, one handler per method, `server_send_*` | clients (TCP), the capture task |
| RTSP client (`rtsp/rtsp_client.cpp`) | `s_running`, the handshake's progress, its sockets | `client_connect`, `rtsp_txn`, receive loop with keepalive | link, server (TCP, UDP), reassemblers |
| Link (`rtsp/link.cpp`) | the codec in use | `link_start`, `link_on_encoded`, `link_on_peer`, `on_client_frame` | discovery, server, client, pipeline |
| Discovery (`net/discovery.cpp`) | the last peer | browse every few seconds, call back for every peer found | main, link, audio |
| Video pipeline (`media/video_pipeline.cpp`) | codec objects, `s_enc_buf`, receive queue of 3 | `pipeline_start`, capture task, decode task, `pipeline_submit_remote` | camera, codecs, UI, link |
| Camera (`media/camera.cpp`) | two V4L2 buffers, `s_last_index` | `camera_capture`, `camera_release` | the driver |
| Codecs (`media/video_codec_*.cpp`) | engines, buffers, `s_jpeg_lock` | `open`, `encode`, `decode` | the JPEG and H.264 hardware |
| UI (`ui/ui.cpp`) and board lock (`board/board.cpp`) | canvas, widgets, the display lock | `video_set_frame`, `set_status`, the settings dialog | everything that shows something |
| Audio (`media/audio.cpp`) | peer, mute flag, sockets | microphone task, speaker task, setters | discovery callback, UI |
| Wi-Fi manager (`net/wifi_manager.cpp`) | `s_started`, `s_connected`, `s_ip` | `wifi_init`, `wifi_apply`, event handler | UI, settings, main |
| Coprocessor update (`net/wifi_coproc.cpp`) | an NVS marker, the coprocessor's firmware | check, flash, mark, activate, restart | `wifi_init` |
| Settings (`app/settings.cpp`) | RAM copy and NVS blob | `init`, `get`, `set_*` | UI, main, Wi-Fi manager |
| Boot (`main.cpp`) | the order of all the above | `app_main` | all |

What is hard in it:

* **RTP.**  Packets are lost, repeated and reordered; the reassembler looks at
  offsets and timestamps but never at sequence numbers.  Right: no byte
  outside the buffer, exact lengths, intact frames always delivered once and
  in order.
* **RTSP server.**  Two tasks share three variables under a lock that is *not*
  held while a frame is sent, and sequence numbers are copied out and written
  back.  Right: the stream follows the session, nothing leaks to a former
  client but the frame in flight, numbering has no gap.
* **RTSP client and server over TCP.**  Streams have no message boundaries, each
  side reads once per message, and results and replies are ignored.  Either
  device may restart.  Right: handshakes end, both ends agree on who plays, the
  link comes back.
* **Pipeline.**  Tasks on two cores pass heap copies through a bounded queue and
  share one JPEG engine, one canvas and two camera buffers, with a failure exit
  at every step.  Right: one owner for every buffer, nobody starves, the codecs
  agree.
* **Coprocessor update.**  Every call to the other chip may fail and the power may
  go between any two.  Right: the coprocessor can always boot, the marker never
  lies, the device does not update for ever.
* **Boot, settings, audio, Wi-Fi.**  The screen answers before the modules behind
  it are initialised; `wifi_apply` runs on two tasks while events of the
  previous mode are still queued; the microphone task works on a copy of the
  mute flag; settings are saved whole by whoever changes one.  Right: what the
  user chose holds across restarts, the driver does what is saved, a lost link
  is tried again, the known start-up assertions are the only ones.

`PROJECT.json` lists all components and, under `hazards`, each of these risks
at its line.

## 2. Plan

Modules in order of importance; all of them exist.

1. `RtpJpeg`: the media path everybody uses (MJPEG is the default codec).
   Proofs in `RtpJpegProofs`.
2. `RtspServer` with the abstract specification `StreamGrant` it implements.
   Proofs in `RtspServerProofs`.
3. `RtspLink`: client and server over TCP with restarts.  Proofs in
   `RtspLinkProofs`.
4. `VideoPipeline`: tasks, queue, engine, display, codecs.  Proofs in
   `VideoPipelineProofs`.
5. `AnnexB` and `RtpH264`: `split_nals` as a function compared with a reference
   definition, the packetizer with its markers, and the reassembler over the
   same network as `RtpJpeg`.  Proofs in `AnnexBProofs` and `RtpH264Proofs`.
6. `CoprocUpdate`: flash, mark, activate and restart with power cuts in between.
   Proofs in `CoprocUpdateProofs`.
7. `Settings`, and `WifiManager` on top of it: events queued across `wifi_apply`,
   settings saved meanwhile.
8. `Audio`, and `Device`, which composes 7 and 8 with `app_main` and the screen's
   callbacks.  Proofs about all four in `DeviceProofs`.

Every invariant and action property of a passing run is now also a theorem.
Left, in this order: the receive queue as an abstract specification, a bounded
first-in-first-out mailbox that may refuse, with `VideoPipeline` shown to
implement it; the two reassemblers as implementations of a channel that delivers
each access unit at most once; numeric bounds as lemmas of their own (the widths
of the sequence number and of RTP/JPEG's 24-bit fragment offset).

`RtspLink` deliberately repeats the server at the level of messages instead of
extending `RtspServer`: `RtspServer` has clients whose requests arrive one by
one and a frame in flight, `RtspLink` has byte streams and restarts.  The
product of both would not be checkable and no property needs it.

## 3. The modules and the code

**`RtpJpeg`** (constants instantiated by `MCRtpJpeg`).  `StartFrame` and
`SendPacket`/`SendFails` are `rtp_send_jpeg`: one action per iteration of its
loop, `PacketAt` being the packet built at an offset.  `Receive`, `Overtake`
and `Repeat` deliver a packet to `feed`, split by its exits into `FeedDrops`,
`FeedStores` and `FeedDelivers`.  The working buffer is a function from byte
positions to the frame that wrote there last, so a stale byte is visible and a
write past the end would enlarge the function's domain.  The frame number
stands for the RTP timestamp.  A frame `parse_jpeg` rejects leaves no trace and
is not represented.

**`RtspServer`** has the two tasks `rtsp_srv` (`Accept`, one `Handle...` per
method, `EndSession`) and `cam_enc` (`Snapshot`, `SendPacket`, `WriteBack`).  A
section under `s_lock` is one action.  `server_send_jpeg` and
`server_send_h264` have the same three steps.  Clients connect, send a request
when the previous one was read (`unread`), and leave at any moment, with a request
unread or not.  Which request it is the handler that reads it decides, so any may
follow any other, PLAY without SETUP included, as no handler looks at what came
before.  `session`, `owner` (the session of the last SETUP), `player` (of the last
PLAY), `over`, `wire` and `late` are history variables.  **`StreamGrant`** is what
the server promises about its stream: one session at a time starts it, aims it and
ends it, and a session it was withdrawn from gets it no more.  The refinement maps
`to` to `player` while `s_streaming`, `dest` to `owner` and `ended` to `over`.

**`RtspLink`** has the subscriber's `cpc`/`step` (where `client_task` is and in
which transaction), the publisher's `srv`, and connections as two message
sequences from which `recv` takes any non-empty prefix.  `SendRequest` and
`ReceiveResponse`/`RecvFails` are the halves of `rtsp_txn`; `AfterTxn` is what
`client_task` does with the result (only SETUP's counts); `Timeout` is a second
without a packet, which sends the keepalive or blocks in `send`.  The server
handles the first request of what it read and drops the rest
(`HandleRequest`).  `RebootSubscriber` and `RebootPublisher` take a device's
connections away without a FIN; the survivor notices only if it sends.

**`VideoPipeline`** has one program counter per task: `epc` (capture, scale,
preview, encode, release), `cpc` (copy, enqueue) and `dpc` (decode, show,
free).  Taking `board::lock` or `s_jpeg_lock` is an action that waits; every
call that can fail may fail.  `PipelineStart` chooses the wanted codec and
which opens succeed, and `LinkStart` passes on the codec that resulted.  The
driver fills queued buffers in order (`SensorFrame`).  A frame is its number.

**`RtpH264`** (constants instantiated by `MCRtpH264`) has the sender of
`rtp_send_h264`, one action per packet: `StartUnit` splits the encoder's stream
with **`AnnexB`**'s `split_nals`, `Outgoing` is the single packet or the FU-A
fragment at the sender's position.  `Feed` is `RtpH264Reassembler::feed`: a
packet's pieces (start code, header, payload) are appended one by one and each
is dropped if it does not fit (`AppendPiece`).  A byte carries its access unit,
NAL unit and position, start codes (`kStartCode`) are bytes of access unit 0, so
the buffer shows what it is made of.  Of what the callback receives, `Delivery`
keeps whose bytes it holds (`Owners`) and whether they are exactly the Annex-B
image of one access unit (`Whole`).

**`CoprocUpdate`** is `coproc_update_if_needed` with the part of `wifi_init` that
calls it, one action per call to the ESP32-C6 or to NVS, each of which may fail.
The C6 has two slots, of which `ota_begin` erases the one not running; after
`ota_activate` it may run either, because the code ignores the result.
`PowerCut` may happen in every state and keeps NVS and the slots.

**`Settings`** is the RAM copy, the blob in NVS and their two meeting points,
`SettingsInit` and `Set`.  Every setter of `settings.cpp` changes fields and then
stores the whole record, so `Set` takes the new record.  Three settings stand
for all: the Wi-Fi mode, the mute flag and `level` (volume and gain, which are
treated alike).  `choice` is a history variable, what the user has chosen so
far; `lost` records that NVS failed or that the screen used the settings before
they were read, after which nothing is promised.  `SettingsInit(FALSE)` is an `init`
that cannot read the blob: it takes the defaults and stores them over it.

**`WifiManager`** extends it.  `ApplyTest` to `ApplyDone` are the steps of
`wifi_apply` between which other tasks run, for the boot task and for LVGL's: the
test of `s_started`, `esp_wifi_stop`, clearing the flags and reading the mode,
`esp_wifi_set_mode` with the mode read before, configuring and starting, and the
assignments after it.  `OnStaStart` to `OnGotIp`, `Notify` and `Retry` are
`on_event` on the event task, which a callback or the 1.5 s delay keeps from the
next event.  `drv` and `events` are ESP-IDF's driver and event queue as this code
uses them: stopping a connected station or changing the mode of a running driver
posts an event.  Every call of the driver crosses to the ESP32-C6 and may fail: a
stop or a connect fails unnoticed, since their results are ignored (a station whose
connect was refused is `"refused"`, and no event follows); the others return from
`wifi_apply`, and may still have been carried out when only their answer was lost.
Three history variables say what the properties must know of the past: `overlapped`,
that the latest `wifi_apply` began while another ran or before `settings::init`;
`stuck`, that the driver may still run although `s_started` denies it, because a
stop failed, a start's answer was lost or calls overlapped (the next call that stops
it, or finds it stopped, ends that); `strayIp`, that a GOT_IP was handled after a
change to a network of our own.

**`Audio`** is `audio_init` and the setters, and of `mic_task` the copy it takes of
mute flag and peer (`Snapshot`) and the packet it then sends (`Send`).  `late`
counts packets that a mute or a new peer, already done, forbids.

**`Device`** composes them: `app_main`'s steps in order (`UiInit` to
`DiscoveryStart`), each with its failure (`NvsFails` are those of NVS); the callbacks
of the microphone button, the sliders and the settings dialog; the callback that
shows the Wi-Fi status and needs the display lock; `PeerFound`; `Restart`.  A failed assertion
sets `crash` and stops everything until the restart.  `VideoPipeline` and
`RtspLink` share no state with it but the order of their starts.

Definitions whose name ends in a variation of another one's and whose comment
begins "Mutant of" are not used by the specifications.  They are plausible
mistakes, each recorded in `PROJECT.json` next to the property that must fail
when it replaces the definition.

## 4. The checks

| Run | Shows | Bounds |
|---|---|---|
| `rtp_jpeg` | buffer bounds, packet sizes, exact lengths, intact frames delivered once and in order | 3 frames of 1, 2 or 3 packets, one kind filling the buffer exactly, one exceeding it by one; 2 faults |
| `rtp_jpeg_whole` | finding: a frame with a lost middle packet is delivered with stale bytes | as above |
| `rtsp_server` | with requests in any order: the stream is the served session's, at most one late frame, one destination per frame, no gap in numbering, the grant specification, a client that leaves is released | 2 clients, 2 ports, 2 sessions, 2 packets a frame, sequence numbers modulo 3 |
| `rtsp_link` | both ends agree, handshakes end, a blocked keepalive means unread replies | 2 connections, buffers of 3 messages, 2 restarts, 9 timeouts |
| `rtsp_link_reply` | finding: SETUP reads DESCRIBE's SDP | no restart |
| `rtsp_link_reboot` | finding: after a restart the link stays down | 1 restart |
| `video_pipeline` | ownership of buffers and copies, exclusive engine and canvas, agreeing codecs, fresh and ordered frames, buffers that return and copies that are freed | 2 buffers (as in the code), queue of 2, 3 captured and 4 remote frames |
| `video_pipeline_full` | finding: the queue drops the latest frame, not the oldest | queue of 3, 5 remote frames |
| `rtp_h264` | NAL units found, packets fit, buffer bounds, one undisturbed unit resynchronises, damage is local | packets of 7 bytes, buffer of 12, 3 access units of 4 kinds, 2 faults, at most 2 NAL units an access unit |
| `coproc_update` | always a bootable image and no session left open, a truthful marker, the updates end | 3 chunks, 2 power cuts |
| `coproc_update_cut` | finding: after an untimely power cut the update is never activated | 1 power cut |
| `device` | known start-up assertions only, choices kept, one late packet at most, the driver does what is saved although its calls fail, connection state and address settle to the truth but for named remains, a lost link is tried again unless the try is refused | 2 levels, 2 peers, 2 incidents; NVS fresh or with a joined network and a muted microphone |

Why the bounds are enough.  In `RtpJpeg` three frames allow a disturbed frame
between two others, and two faults allow a loss and a reordering to combine;
three packets give a first, a middle and a marked one.  In `RtspServer` two
sessions of two clients give every handover, and three sequence numbers wrap
within two frames.  In `RtspLink` the backlog of one and the connection being
served are all that can exist; nine timeouts fill the replies, the server's
send and the requests, and one more blocks the client.  In `VideoPipeline` four
frames overflow a queue of two with one in the decoder (the finding's run has
the code's queue of three and five frames), and three captured frames bring
a buffer round again; the safety properties are proved for every length
and number.

In `RtpH264` the kinds of access unit are: one packet behind an empty NAL unit,
which is skipped; two packets, the second a NAL unit that fits one packet
exactly, with a third NAL unit that `split_nals` has no room for; an
access unit of three packets, two of them fragments of one NAL unit, that fills
the buffer exactly; and one byte more.
`split_nals` gets every stream of up to three units of up to three bytes.
In `CoprocUpdate` three chunks give a first, a middle and a last one, and
the second cut can hit the recovery from the first.

In `Device` an incident is a touch that changes something, a peer that takes the
place of another, a dropped link, an NVS that is full or cannot be read, a restart,
or opening the dialog before `settings::init`.  Two are enough for
every race of two: a save while a drop is handled, a toggle during `audio_init`
after a failed write, a touch and then the restart that must restore it.  Boot
itself, `wifi_apply` with all its failures, and opening and leaving the dialog
later cost none.

Deadlock checking is off in all runs: each model stops when its bounded frames,
sessions or timeouts are used up.  That nobody waits for ever is stated by the
liveness properties instead.

**Fairness.**  `RtspServer`: weak fairness of both tasks, none of the clients.
`RtspLink`: weak fairness of the browse task, of each task's next step and of
the blocked `send`; what `recv` returns is never assumed, nor that packets stop
or come.  `VideoPipeline`: weak fairness of each task's steps, and strong
fairness of taking the two locks, because FreeRTOS makes a mutex's waiter
ready when the mutex is given and the giver is then busy elsewhere.  The sensor,
the peer, restarts and LVGL's drawing have none.  `Device`: weak fairness of the
event task, of `wifi_apply` and of a callback once it runs, and strong fairness
of showing the status, since LVGL gives the display lock back again and again;
the user, the access point, boot, drops and restarts have none.
`CoprocUpdate`: weak fairness of the function's next call, whose outcome is free;
power cuts have none.

## 5. Findings

1. **Stale bytes in delivered frames** (`rtp.cpp:352`).  `rtp.h` promises whole
   frames; a lost middle packet goes unnoticed.  Lengths stay exact (proved), so
   the JPEG decoder gets old data where new data is missing.
2. **A transaction may read another one's response** (`rtsp_client.cpp:41`).
   DESCRIBE is answered in two sends.  If `recv` returns the first part alone,
   SETUP reads the SDP and gives up.
3. **The link does not come back after a restart** (`rtsp_client.cpp:116`,
   `rtsp_server.cpp:70`).  If the publisher restarts, the client waits for video
   for ever and discovery's callbacks are ignored; if the subscriber restarts,
   the publisher keeps reading from the dead connection.
4. **The oldest frames win** (`video_pipeline.cpp:196`).  The documented policy
   for a full queue is "latest-frame-wins"; the code frees the latest frame.
5. **An update that is never activated** (`wifi_coproc.cpp:107`).  The marker is
   stored before the activation.  After a power cut between the two, later boots
   take the update for done and keep the old coprocessor firmware.

No finding, but worth knowing: `RtpH264Reassembler` merges two access units when
a marked packet is lost (`rtp.cpp:506`).  `Resynchronises` and `DamageIsLocal`
bound the damage: one undisturbed access unit later all is well.

Further behaviour that no document of the repository contradicts outright, or
that a property names as its exception:

* If `wifi_init` fails before the TCP/IP stack, `app_main` goes on ("UI will still
  run") and `link_start` opens sockets, which asserts (`main.cpp:88`); and the
  microphone button works from `ui::init` on, but its mutex is created by
  `audio_init` (`audio.cpp:168`).  `CrashesKnown` says these are the only ways.
* A callback before `settings::init` stores a record of zeros; the toggle of the
  microphone during `audio_init` is overwritten by the value read before it
  (`audio.cpp:141`).  `ChoicesRespected` excepts both.
* The label of the microphone button is built as live, whatever is stored.
* PLAY streams to whatever `s_dest` holds (`rtsp_server.cpp:122-125`).  A session
  whose client asks PLAY without any SETUP streams to the address a former client
  gave, or to none, where `rtsp_server.h:15` speaks of "the connected client
  (no-op if none)".  `StreamFollowsSession` names this case and excludes every
  other: the stream never runs without a session that asked for it, and after a
  SETUP it goes to that session's own client.  The firmware's client sends SETUP
  first.
* The result of `esp_wifi_connect` is ignored (`wifi_manager.cpp:52`, `:64`).  If the
  call itself is refused (an empty SSID, a lost answer of the ESP32-C6), no event
  follows and nobody tries again, although the status line says "disconnected,
  retrying" (`:62`).  `KeepsTrying` therefore promises the next call, not the link.
* The result of `esp_wifi_stop` is ignored too (`:146`).  If the driver does not
  stop, nothing announces the link that is still up, so that `s_connected` stays
  cleared; if `esp_wifi_set_mode` then fails as well, the driver runs on with
  `s_started` cleared too.  Both last until a later stop works or finds it stopped.
  `stuck` names this state in `AppliedIsSaved` and `ConnectedTruth`.
* `wifi_apply` on the boot task and on LVGL's may overlap.  The one that read the
  mode before the user saved a newer one may set it after the other: the driver is
  then left in the older mode, where `wifi_manager.h:19` says "(Re)starts WiFi in
  the mode/credentials from current settings."  TLC finds this within one save
  during the boot when `~overlapped` is dropped from `AppliedIsSaved`; with it the
  property says that every call nobody overlaps, the one after such a pair
  included, puts it right.
* A queued GOT_IP handled after a change to a network of our own leaves the old
  address in `s_ip`; `ConnectedTruth` names it.  An AP_START handled before
  `wifi_apply` has stored the address reports `connected` with an address that is not
  set yet, against `wifi_manager.h:11` ("ip: our address"): a passing report, which
  no property is about.
* If the blob in NVS is there but cannot be read, `settings::init` takes the
  defaults and stores them over it (`settings.cpp:85-98`).
* NVS errors are ignored by all setters: a choice may be gone after a restart.
* Audio goes to whichever peer was found last, video comes from the first one
  (`main.cpp:44`).  The code is written for two devices.

## 6. The proofs

All theorems hold for every value of the constants that the modules' ASSUMEs
admit.  The argument is always the same: an inductive invariant `Inv`, one
lemma per action (or group) that keeps it, `Invariance == Spec => []Inv`, and
the properties as consequences.  `Inv` was checked by TLC before it was proved.
No theorem is about bounded data: numbers of clients, slots, frames, peers,
faults and restarts, and the sizes of packets, buffers and queues, are arbitrary.

**`RtpJpegProofs`.**  `TypeOK` alone is not inductive: that the buffer is not
overrun needs the EOI bound, and exact lengths need to know what a marked packet
says.  `Inv` adds: the sender's offset lies inside the frame it sends; every
packet on its way is a piece of the frame of its timestamp, and the marked one
ends exactly at the frame's end; the reassembler's header length belongs to the
frame of its timestamp, and its scan length never exceeds that frame's.
`TypeCorrect` (no write outside the buffer), `PacketsFit` and
`LengthsAreRight` follow, for any sizes and any number of faults.
`ASSUME SizesAssumption` only says that the headers fit into one packet and one
buffer.

What is delivered needs a second invariant, `Flow`, inductive relative to `Inv`,
because `Inv` speaks of one packet at a time and `IntactFramesDelivered` of all
the packets of a frame.  `PacketsOrdered` says that packets lie in the network in
the order they were built; `DeliveredBehind`, that what is still to come of an
undisturbed frame is newer than everything delivered.  Then each intact frame
(one that fits and that no fault has touched) has either `NotBegun` to arrive,
and its packets follow each other without a gap from its first byte; or is
`UnderWay`, alone in the buffer up to `scan_len`, with the rest coming without a
gap from there; or is `Done`, delivered exactly once and made of its own bytes.
A foreign packet that arrives meanwhile would be a fault on the frame, which is
what makes the three cases exhaustive.  `InOrder` (`DeliveredInOrder`) and
`IntactDelivered` (`IntactFramesDelivered`) follow.

**`RtspServerProofs`.**  `Inv` ties the shared variables to the session:
`ServingOk` (in `accept` nobody is served and nothing streams; a session being
served is not over; if the last SETUP was its own, `s_dest` is its client's),
`StreamFollowsSession` itself, `CopyOk` (the copy `cam_enc` works on: one destination, and
the late frame of a session is its only one) and `SeqOk` (the next sequence
number, in `s_seq` or in the copy, follows the last one on the wire).
`StreamIsCurrent`, `OneLateFrame`, `OneDestination`, `SeqIsConsecutive` follow,
and `ImplementsGrant` shows that every step is a step of `StreamGrant` for the
session being served, or leaves its variables alone.  Nothing is assumed of what
clients ask.

**`RtspLinkProofs`.**  `AgreedPlay` needs to know what can be in the TCP buffers
when PLAY is answered.  `ClientOk` and `ServerOk` say which connections each end
holds, `ConnOk` that a connection neither uses is free.  `HandshakeOk` then
follows a handshake with a publisher that has not restarted: there is never more
than one request under way, and the replies the client has not read (`Unread`:
those in the connection and those still in the server's hands) are exactly what
`Before` and `After` allow in that step, the SDP left over from DESCRIBE
included.  So step 4 is reached only on the connection being served, with
`s_dest` set, and its answer only after `s_streaming`.  `Agreed` and `TypeCorrect`
follow, for any backlog and any number of restarts and timeouts.

**`AnnexBProofs`.**  `SplitCorrect` says that `split_nals` undoes `Compose` for any
number of units of any length with start codes of three and four bytes mixed;
`StreamsAreSplit` is the instance `RtpH264` uses.  The functions are recursive, and
the library's induction theorems cannot be applied because they take a
predicate; `SetInduction` does induction with a set instead, from the
well-foundedness of < alone, and `NalsIs` and `FlattenIs` derive the recursive
equations from it.  The rest is about positions: `ComposeIs` lays the stream out
(`Layout`: where each unit lies in it), `NoCodeInside`, `NoCodeBefore` and
`CodeFound` show that the scan stops at the start codes and nowhere else, and
`UnitFound` that the zero of a four-byte start code is trimmed and no byte of a
unit is.  A unit is well-formed if it does not end in 0 and holds no start code,
which emulation prevention and the RBSP's stop bit guarantee.

**`RtpH264Proofs`.**  `Inv` is `TypeOK` with what single packets need: the units
sent are the encoder's and the sender stands inside one (`SenderOk`), each packet
is a part of its NAL unit (`PacketsOk`), `len_` is the buffer's length and a
buffer that is not empty holds more than start codes (`BufferOk`).  `TypeCorrect`, `PacketsAreSmall` and `SplitIsAlwaysRight` follow, the
last one from `StreamsAreSplit`.

`DamageIsLocal` and `Resynchronises` need `Flow`, which goes by access units as in
`RtpJpegProofs` but in positions of the unit's Annex-B image, because one packet
may append a start code, a header byte and a payload: `First` and `Behind` are
where a packet begins and ends in that image.  `Ordered` and `Linked` say that
packets are sent in the order of the image and that an undisturbed unit has no
gap.  Every undisturbed access unit is `Waiting`, `Arriving` (the buffer holds
just its bytes so far, or bytes of a disturbed or oversized unit besides) or
`Past` (if it fits and follows an undisturbed one, delivered exactly once and
whole).  `DamageIsLocal` is itself part of the induction; `DamageStaysLocal` and
`AlwaysResynchronises` follow.  TLC checked `Flow` on the instance of `rtp_h264`
before it was proved.

Two assumptions on the constants carry weight.  `FrameCap > StartLen +
MaxPacket`: a buffer takes any one packet, here 256 KiB against 1400 bytes.
`UnitKindsAssumption`: the last NAL unit of an access unit, and the last one that
`split_nals` returns, is not empty; every H.264 NAL unit has its header byte.

**`VideoPipelineProofs`.**  `Inv` adds to `TypeOK`: `BootOk` (which task can be
where before the pipeline is up and `link_start` has run), `LockOk` (a task past
a lock holds it), `CodecOk` (every queued item is in the decoder's codec),
`OrderOk` (canvas, decoder, queue and client hold ever newer frames), `HeapOk`
(the allocated copies are those three owners'), `BufferOk` (no V4L2 buffer is
in two places and, with a pipeline, none is missing) and `FreshOk` (filled
buffers wait in order, all newer than the last frame sent).  `OrderOk` is more
than `RemoteInOrder` asks because it also counts: strictly growing frame
numbers make the queue's copies distinct, from which `CopiesAccounted`, a
statement about cardinalities, follows.  `Exclusive`, `Agree`, `Fresh`,
`Ordered`, `BuffersKept`, `OneOwner` and `TypeCorrect` hold for any number of
buffers and frames and any queue.

**`CoprocUpdateProofs`.**  `AlwaysBootable` needs to know that what is activated
is whole: `WrittenOk` says that the spare slot holds as many chunks as `off`,
and all of them from `ota_end` on.  `MarkerTruthful` needs `MarkerOk`: nothing is
erased once the marker is stored.  `NeverBricked` (`AlwaysRecoverable`: bootable
and no session left open), `MarkerIsTrue` and `TypeCorrect` follow for any
number of chunks and cuts.

**`DeviceProofs`** covers `Settings`, `WifiManager`, `Audio` and `Device` at once, since
none of their properties holds of a module alone.  `BootOk` says what `app_main`
has brought up at each of its calls, and which states an assertion can fail in
(`KnownCrashes`).  `ChoiceOk` follows a choice from the screen through `s_cfg` to
NVS and `AudioOk` from there to `mic_task` and the codec, step by step through
`audio_init` and the callbacks (`Choices`).  `OneLatePacket` is inductive as it
stands.  `CallersOk` and `ApplyOk` say what each step of a `wifi_apply` that nobody
overlaps finds in the driver (`StepFinds`), whichever steps before it failed: a
driver that does not run as far as `s_started` tells, or that is `stuck`
(`Applied`).  Overlapping calls, and those before `settings::init`, count as stuck
from their start.  `StationOk` and `TruthOk` read the event
queue: `Coming(b)` says that the last queued event with something to say about
`s_connected` will leave it at b, and `TruthOk` that this is what the driver has
come to, or that another attempt is queued, unless it is stuck (`Truth`).  The constants' assumptions
only say that the bounds are numbers and that no peer is called `NoPeer`.

**Only model-checked: liveness** (`LeaverReleases`, `HandshakeEnds`,
`BlockedOnlyByReplies`, `NeitherStarves`, `Settles`, `KeepsTrying`).  These rest on
fairness, hence on ENABLED, which TLAPS does not reason about; TLC checks them on
the instances of section 4.

## 7. Not modelled

* `parse_jpeg`, header parsing and response texts: only whether they succeed.
* `client_stop`: nothing calls it.  TEARDOWN exists in `RtspServer` (other
  players send it); the firmware's client never does.
* Several peers outside `Device`, and in `RtspLink` clients other than the
  firmware's own.
* Discovery's test for our own advertisement, names and TXT records.
* `speaker_task`, which keeps no state, and the samples.
* Credentials, the codec setting, status texts, the events that only write one,
  and event handlers of which only some could be registered.
* Colour conversion, the hardware engines, DMA and cache effects.
* A failed allocation inside a codec's `open` after its engine was made, and
  ioctl errors while the camera streams.
* An access unit whose last NAL unit is empty (`UnitKindsAssumption`): the code
  would send no marked packet, but the encoder does not end a buffer that way.
* The build, widgets and layout, and board bring-up, which have no concurrency
  or protocol of their own.
