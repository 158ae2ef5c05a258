---------------------------- MODULE DeviceProofs ----------------------------
(***************************************************************************)
(* Proofs about Device, with the settings, Wi-Fi manager and audio modules *)
(* it is built from, for any slider range, any set of peers and any number *)
(* of incidents.  Inv follows the user's choices from the screen to NVS    *)
(* and to the codec, and the driver's reports from its queue to the status *)
(* variables.                                                              *)
(***************************************************************************)
EXTENDS Device, SequenceTheorems, TLAPS

AudioStarted == main \in {"in audio_init", "in wifi_apply", "browsing", "run"}

\* What app_main has brought up when it comes to each of its calls.
BootOk ==
    /\ main \in {"ui", "settings"} => ~s_loaded
    /\ main = "link" => stack \/ wifi = "stack"
    /\ s_lock <=> AudioStarted
    /\ init.pc # "idle" => AudioStarted
    /\ main \in {"ui", "settings", "wifi", "stack"} => ~drv.up
    /\ wifi = "ok" => drv.reports
    /\ crash = "socket" => wifi = "stack"
    /\ crash = "microphone" => ~s_lock

\* While nothing is lost, NVS and RAM hold what the user has chosen, and the
\* settings screen shows it; before init has read NVS nobody has touched it.
ChoiceOk ==
    ~lost =>
        /\ stored = choice \/ (stored = NoBlob /\ choice = Defaults)
        /\ s_loaded => s_cfg = choice
        /\ ~s_loaded => lvgl.pc = "idle" /\ label = "built"
        /\ dialog.open => s_loaded /\ dialog.level = s_cfg.level
        /\ lvgl.pc \in {"mute", "hw mute"} => lvgl.arg = s_cfg.mic_muted
        /\ lvgl.pc \notin {"mute", "hw mute"} /\ label # "built" =>
               (label = "muted") = s_cfg.mic_muted

\* audio_init brings mute and level to mic_task and to the codec one by one,
\* and a callback that changes them afterwards brings its own.
AudioOk ==
    ~lost /\ ~overrun =>
        /\ Initialising => init.muted = s_cfg.mic_muted /\ init.level = s_cfg.level
        /\ init.pc \in {"mute", "hw mute", "up"} => codec /\ hw.level = s_cfg.level
        /\ init.pc \in {"hw mute", "up"} /\ lvgl.pc # "mute" => s_muted = s_cfg.mic_muted
        /\ init.pc = "up" /\ lvgl.pc \notin {"mute", "hw mute"} => hw.muted = s_cfg.mic_muted

\* A wifi_apply belongs to its caller, and a driver that is not up is not started.
CallersOk ==
    /\ Applying("main") => main = "in wifi_apply"
    /\ Applying("lvgl") => lvgl.pc = "apply"
    /\ ~drv.up => /\ ~drv.running /\ ~s_started
                  /\ \A t \in Appliers : apply[t].pc \in {"idle", "test", "mode"}

\* Nobody is at the driver: if s_started says so it runs in the mode that is set,
\* and if it runs without, it is stuck.
Settled ==
    /\ s_started => drv.running /\ drv.mode = s_cfg.wifi_mode
    /\ drv.running /\ ~s_started => stuck

\* What each step of the only wifi_apply finds: a driver that does not run, as far
\* as s_started tells, unless it is stuck.
StepFinds(t) ==
    /\ At(t, "test") => s_started \/ ~drv.running \/ stuck
    /\ At(t, "stop") => s_started
    /\ At(t, "clear") \/ At(t, "mode") \/ At(t, "start") => ~drv.running \/ stuck
    /\ At(t, "mode") \/ At(t, "start") \/ At(t, "done") =>
           ~s_started /\ apply[t].mode = s_cfg.wifi_mode
    /\ At(t, "done") => drv.running /\ drv.mode = apply[t].mode

\* Calls that overlap another, or settings::init, are held to be stuck; a call
\* alone finds what it needs.
ApplyOk ==
    /\ overlapped => stuck
    /\ ~s_loaded => \A t \in Appliers : Applying(t) => overlapped
    /\ ~overlapped =>
        /\ \A t, u \in Appliers : Applying(t) /\ Applying(u) => t = u
        /\ (\A t \in Appliers : ~Applying(t)) => Settled
        /\ \A t \in Appliers : StepFinds(t)

\* A station only tries, is refused or is connected while the driver runs as one.
StationOk == drv.sta # "idle" => drv.running /\ drv.mode = "Join"

Queued(e) == \E i \in 1 .. Len(events) : events[i] = e

\* What s_connected will be once every queued event is handled: events[i] is the
\* last that says something about it.
Coming(connected) ==
    \/ \E i \in 1 .. Len(events) :
          /\ events[i] # "STA_START"
          /\ connected = (events[i] # "DISCONNECTED")
          /\ \A j \in i + 1 .. Len(events) : events[j] = "STA_START"
    \/ /\ \A j \in 1 .. Len(events) : events[j] = "STA_START"
       /\ connected = s_connected

\* The queue brings s_connected and s_ip to what a driver that is not stuck has
\* come to, or brings the driver to another attempt.
TruthOk ==
    wifi = "ok" /\ ~stuck =>
        /\ drv.running /\ (drv.mode = "Create" \/ drv.sta = "up") => Coming(TRUE)
        /\ drv.running /\ drv.mode = "Join" /\ drv.sta = "idle" =>
               Coming(FALSE) \/ Queued("STA_START")
        /\ drv.sta = "up" => s_ip = "Join" \/ Queued("GOT_IP")
        /\ s_started /\ drv.running /\ drv.mode = "Create" => s_ip = "Create" \/ strayIp

Inv ==
    /\ TypeOK
    /\ BootOk
    /\ ChoiceOk
    /\ AudioOk
    /\ AtMostOneLatePacket
    /\ CallersOk
    /\ ApplyOk
    /\ StationOk
    /\ TruthOk

EventNames == {"STA_START", "DISCONNECTED", "AP_START", "GOT_IP"}
Driver == [up : BOOLEAN, reports : BOOLEAN, mode : {"none", "Join", "Create"},
           running : BOOLEAN, sta : {"idle", "refused", "connecting", "up"}]
ApplyStates == [pc : {"idle", "test", "stop", "clear", "mode", "start", "done"},
                mode : {"none", "Join", "Create"}]

(***************************************************************************)
(* The event queue.                                                        *)
(***************************************************************************)
\* Nothing is posted.
LEMMA PostNone ==
    ASSUME events \in Seq(EventNames), Post(<< >>)
    PROVE  events' = events
BY ConcatEmptySeq DEF Post

\* An event is posted last: it has the last word, unless it has nothing to say.
LEMMA PostOne ==
    ASSUME events \in Seq(EventNames), NEW e \in EventNames, Post(<<e>>),
           s_connected' = s_connected
    PROVE  /\ events' \in Seq(EventNames)
           /\ \A x : Queued(x) => Queued(x)'
           /\ drv.reports => Queued(e)'
           /\ drv.reports /\ e # "STA_START" => Coming(e # "DISCONNECTED")'
           /\ e = "STA_START" => \A b : Coming(b) => Coming(b)'
<1>1. CASE ~drv.reports
  <2>1. events' = events
    BY <1>1 DEF Post
  <2> QED BY <1>1, <2>1 DEF Queued, Coming
<1>2. CASE drv.reports
  <2> DEFINE n == Len(events)
  <2>1. events' = Append(events, e)
    <3>1. events' = events \o <<e>>
      BY <1>2 DEF Post
    <3> QED BY <3>1, AppendIsConcat
  <2>2. /\ events' \in Seq(EventNames) /\ Len(events') = n + 1
        /\ \A i \in 1 .. n : events'[i] = events[i]
        /\ events'[n + 1] = e
        /\ n \in Nat
    BY <2>1, AppendProperties, LenProperties
  <2> HIDE DEF n
  <2>3. \A i \in 1 .. n : i \in 1 .. Len(events')
    BY <2>2
  <2>4. n + 1 \in 1 .. Len(events') /\ n + 1 + 1 .. Len(events') = {}
    BY <2>2
  <2>5. \A x : Queued(x) => Queued(x)'
    BY <2>2, <2>3 DEF Queued, n
  <2>6. Queued(e)'
    BY <2>2, <2>4 DEF Queued
  <2>7. e # "STA_START" => Coming(e # "DISCONNECTED")'
    BY <2>2, <2>4 DEF Coming
  <2>8. ASSUME e = "STA_START", NEW b, Coming(b)
        PROVE  Coming(b)'
    <3>1. CASE \E i \in 1 .. n : /\ events[i] # "STA_START"
                                 /\ b = (events[i] # "DISCONNECTED")
                                 /\ \A j \in i + 1 .. n : events[j] = "STA_START"
      <4> PICK i \in 1 .. n : /\ events[i] # "STA_START"
                              /\ b = (events[i] # "DISCONNECTED")
                              /\ \A j \in i + 1 .. n : events[j] = "STA_START"
        BY <3>1
      <4>1. \A j \in i + 1 .. Len(events') : j \in i + 1 .. n \/ j = n + 1
        BY <2>2
      <4>2. \A j \in i + 1 .. n : j \in 1 .. n
        BY <2>2
      <4>3. \A j \in i + 1 .. Len(events') : events'[j] = "STA_START"
        BY <2>2, <2>8, <4>1, <4>2
      <4> QED BY <2>2, <2>3, <4>3 DEF Coming
    <3>2. CASE (\A j \in 1 .. n : events[j] = "STA_START") /\ b = s_connected
      <4>1. \A j \in 1 .. Len(events') : j \in 1 .. n \/ j = n + 1
        BY <2>2
      <4>2. \A j \in 1 .. Len(events') : events'[j] = "STA_START"
        BY <2>2, <2>8, <3>2, <4>1
      <4> QED BY <3>2, <4>2 DEF Coming
    <3> QED BY <2>8, <3>1, <3>2 DEF Coming, n
  <2> QED BY <2>2, <2>5, <2>6, <2>7, <2>8
<1> QED BY <1>1, <1>2

\* The oldest event is handled: s_connected takes its word.
LEMMA TakeOk ==
    ASSUME events \in Seq(EventNames), NEW e, Take(e),
           s_connected' = IF e = "STA_START" THEN s_connected ELSE e # "DISCONNECTED"
    PROVE  /\ events' \in Seq(EventNames)
           /\ \A x : Queued(x) => x = e \/ Queued(x)'
           /\ \A b : Coming(b) => Coming(b)'
<1> DEFINE n == Len(events)
<1>1. /\ events[1] = e /\ events # << >>
      /\ events' \in Seq(EventNames) /\ Len(events') = n - 1
      /\ \A i \in 1 .. n - 1 : events'[i] = events[i + 1]
      /\ n \in Nat \ {0}
  BY HeadTailProperties, EmptySeq DEF Take
<1> HIDE DEF n
<1>2. \A i \in 1 .. n : i = 1 \/ (i - 1 \in 1 .. n - 1 /\ events'[i - 1] = events[i])
  BY <1>1
<1>3. \A x : Queued(x) => x = e \/ Queued(x)'
  BY <1>1, <1>2 DEF Queued, n
<1>4. ASSUME NEW b, Coming(b) PROVE Coming(b)'
  <2>1. CASE \E i \in 1 .. n : /\ events[i] # "STA_START"
                               /\ b = (events[i] # "DISCONNECTED")
                               /\ \A j \in i + 1 .. n : events[j] = "STA_START"
    <3> PICK i \in 1 .. n : /\ events[i] # "STA_START"
                            /\ b = (events[i] # "DISCONNECTED")
                            /\ \A j \in i + 1 .. n : events[j] = "STA_START"
      BY <2>1
    <3>1. CASE i = 1
      <4>1. \A j \in 1 .. n - 1 : j + 1 \in i + 1 .. n
        BY <1>1, <3>1
      <4>2. \A j \in 1 .. Len(events') : events'[j] = "STA_START"
        BY <1>1, <4>1
      <4>3. b = s_connected'
        BY <1>1, <3>1
      <4> QED BY <4>2, <4>3 DEF Coming
    <3>2. CASE i # 1
      <4>1. i - 1 \in 1 .. Len(events') /\ events'[i - 1] = events[i]
        BY <1>1, <1>2, <3>2
      <4>2. \A j \in i - 1 + 1 .. n - 1 : j + 1 \in i + 1 .. n /\ j \in 1 .. n - 1
        BY <1>1, <3>2
      <4>3. \A j \in i - 1 + 1 .. Len(events') : events'[j] = "STA_START"
        BY <1>1, <4>2
      <4> QED BY <4>1, <4>3 DEF Coming
    <3> QED BY <3>1, <3>2
  <2>2. CASE (\A j \in 1 .. n : events[j] = "STA_START") /\ b = s_connected
    <3>1. \A j \in 1 .. n - 1 : j + 1 \in 1 .. n
      BY <1>1
    <3>2. \A j \in 1 .. Len(events') : events'[j] = "STA_START"
      BY <1>1, <2>2, <3>1
    <3>3. e = "STA_START"
      BY <1>1, <2>2
    <3> QED BY <2>2, <3>2, <3>3 DEF Coming
  <2> QED BY <1>4, <2>1, <2>2 DEF Coming, n
<1> QED BY <1>1, <1>3, <1>4

(***************************************************************************)
(* Steps of the Wi-Fi manager and of the driver.                           *)
(***************************************************************************)
WifiTyped ==
    /\ drv \in Driver
    /\ events \in Seq(EventNames)
    /\ s_started \in BOOLEAN /\ s_connected \in BOOLEAN
    /\ s_ip \in {"none", "Join", "Create"}
    /\ evt \in {"idle", "notify", "notify retry", "delay"}
    /\ apply \in [Appliers -> ApplyStates]
    /\ overlapped \in BOOLEAN /\ stuck \in BOOLEAN /\ strayIp \in BOOLEAN

\* The types of the Wi-Fi manager's variables, by name, before and after a step.
LEMMA WifiTypes == (WifiTypeOK <=> WifiTyped) /\ (WifiTypeOK <=> WifiTyped)'
BY DEF WifiTypeOK, WifiTyped, Driver, EventNames, ApplyStates

BootTyped ==
    /\ main \in {"ui", "settings", "wifi", "stack", "link", "audio", "in audio_init",
                 "in wifi_apply", "browsing", "run"}
    /\ wifi \in {"unknown", "stack", "driver", "handlers", "ok"} /\ stack \in BOOLEAN
    /\ crash \in {"none", "nvs", "socket", "microphone"}

ScreenTyped ==
    /\ lvgl \in [pc : {"idle", "mute", "hw mute", "apply"}, arg : BOOLEAN]
    /\ label \in {"built", "live", "muted"} /\ dialog \in [open : BOOLEAN, level : 0 .. MaxLevel]
    /\ overrun \in BOOLEAN

Typed ==
    /\ SettingsTypeOK /\ WifiTypeOK /\ AudioTypeOK
    /\ BootTyped /\ ScreenTyped /\ incidents \in 0 .. MaxIncidents

\* The types of a device are those of its parts, before and after a step.
LEMMA DeviceTypes == (TypeOK <=> Typed) /\ (TypeOK <=> Typed)'
BY DEF TypeOK, Typed, BootTyped, ScreenTyped

\* A step that touches neither settings nor audio nor the boot.
LEMMA WifiStep ==
    ASSUME Inv, UNCHANGED <<settingsVars, audioVars, deviceVars>>,
           incidents' \in 0 .. MaxIncidents,
           WifiTypeOK', drv'.up = drv.up, drv'.reports = drv.reports,
           CallersOk', ApplyOk', StationOk', TruthOk'
    PROVE  Inv'
<1>1. TypeOK'
  <2>1. Typed
    BY DeviceTypes DEF Inv
  <2>2. SettingsTypeOK'
    BY <2>1 DEF Typed, settingsVars, SettingsTypeOK
  <2>3. AudioTypeOK'
    BY <2>1 DEF Typed, audioVars, AudioTypeOK
  <2>4. BootTyped'
    BY <2>1 DEF Typed, BootTyped, deviceVars
  <2>5. ScreenTyped'
    BY <2>1 DEF Typed, ScreenTyped, deviceVars
  <2> QED BY <2>2, <2>3, <2>4, <2>5, DeviceTypes DEF Typed
<1>2. BootOk'
  BY DEF Inv, BootOk, AudioStarted, settingsVars, audioVars, deviceVars
<1>3. ChoiceOk' /\ AudioOk' /\ AtMostOneLatePacket'
  BY DEF Inv, ChoiceOk, AudioOk, Initialising, AtMostOneLatePacket, Forbidden, settingsVars,
         audioVars, deviceVars
<1> QED BY <1>1, <1>2, <1>3 DEF Inv

\* A step of task t inside wifi_apply: the other task is not in it, or both
\* were at once.
LEMMA ApplyMoves ==
    ASSUME Inv, NEW t \in Appliers, Applying(t), overlapped' = overlapped,
           s_loaded' = s_loaded,
           overlapped => stuck',
           \A u \in Appliers : u # t => apply'[u] = apply[u],
           ~overlapped => StepFinds(t)' /\ (~Applying(t)' => Settled')
    PROVE  ApplyOk'
<1> SUFFICES ASSUME ~overlapped
             PROVE  /\ \A v, u \in Appliers : Applying(v)' /\ Applying(u)' => v = u
                    /\ (\A u \in Appliers : ~Applying(u)') => Settled'
                    /\ \A u \in Appliers : StepFinds(u)'
  <2>1. ~s_loaded => \A u \in Appliers : Applying(u)' => overlapped
    BY DEF Inv, ApplyOk, Applying
  <2> QED BY <2>1 DEF ApplyOk
<1>1. \A u \in Appliers : u # t => ~Applying(u)' /\ StepFinds(u)'
  BY DEF Inv, ApplyOk, Applying, StepFinds, At
<1> QED BY <1>1

\* Steps that leave wifi_apply and the driver's mode and state alone.
LEMMA ApplyStays ==
    ASSUME Inv,
           UNCHANGED <<s_started, apply, overlapped, stuck, drv.mode, drv.running, drv.up,
                       main, lvgl, s_cfg.wifi_mode, s_loaded>>
    PROVE  CallersOk' /\ ApplyOk'
<1>1. CallersOk'
  BY DEF Inv, CallersOk, Applying
<1>2. ApplyOk'
  BY DEF Inv, ApplyOk, StepFinds, Settled, Applying, At
<1> QED BY <1>1, <1>2

\* The test of s_started: the driver has to be stopped, or it is stopped, as far
\* as s_started tells.
LEMMA ApplyTestKeeps ==
    ASSUME Inv, NEW t \in Appliers, ApplyTest(t),
           UNCHANGED <<settingsVars, audioVars, deviceVars>>,
           incidents' \in 0 .. MaxIncidents
    PROVE  Inv'
<1>1. /\ At(t, "test") /\ Applying(t)
      /\ UNCHANGED <<drv, events, s_started, s_connected, s_ip, evt, overlapped, strayIp>>
      /\ UNCHANGED <<main, lvgl, wifi, s_cfg, s_loaded>>
      /\ TypeOK /\ CallersOk /\ ApplyOk /\ StationOk /\ TruthOk
  BY DEF Inv, ApplyTest, Applying, At, managerVars, deviceVars, settingsVars
<1>2. /\ apply \in [Appliers -> ApplyStates] /\ s_cfg.wifi_mode \in {"Join", "Create"}
      /\ overlapped \in BOOLEAN /\ stuck \in BOOLEAN /\ (overlapped => stuck)
      /\ drv.running \in BOOLEAN
  BY <1>1, WifiTypes DEF TypeOK, WifiTyped, Driver, ApplyOk, SettingsTypeOK, Config
<1>3. /\ apply' \in [Appliers -> ApplyStates]
      /\ \/ s_started /\ apply'[t].pc = "stop"
         \/ ~s_started /\ apply'[t].pc = "mode" /\ apply'[t].mode = s_cfg.wifi_mode
      /\ \A u \in Appliers : u # t => apply'[u] = apply[u]
  BY <1>2 DEF ApplyTest, Goto, ReadMode, ApplyStates
<1>4. /\ stuck' \in BOOLEAN /\ (overlapped => stuck') /\ (stuck' => stuck)
      /\ drv.running /\ stuck => stuck'
  <2>1. CASE stuck' = stuck
    BY <1>2, <2>1
  <2>2. CASE stuck' = (stuck /\ (overlapped \/ drv.running))
    BY <1>2, <2>2
  <2> QED BY <2>1, <2>2 DEF ApplyTest
<1>5. WifiTypeOK'
  BY <1>1, <1>3, <1>4, WifiTypes DEF TypeOK, WifiTyped
<1>6. CallersOk'
  BY <1>1, <1>3 DEF CallersOk, Applying, At, Appliers
<1>7. ApplyOk'
  <2>1. ~overlapped => s_started \/ ~drv.running \/ stuck
    BY <1>1 DEF ApplyOk, StepFinds
  <2> QED BY <1>1, <1>3, <1>4, <2>1, ApplyMoves DEF StepFinds, Applying, At
<1>8. StationOk'
  BY <1>1 DEF StationOk
<1>9. TruthOk'
  <2>1. \A b : (Coming(b) => Coming(b)') /\ (Queued(b) => Queued(b)')
    BY <1>1 DEF Coming, Queued
  <2>2. CASE ~stuck
    BY <1>1, <2>1, <2>2 DEF TruthOk
  <2>3. CASE ~drv.running \/ stuck'
    BY <1>1, <2>3 DEF TruthOk, StationOk
  <2> QED BY <1>4, <2>2, <2>3
<1> QED BY <1>1, <1>5, <1>6, <1>7, <1>8, <1>9, WifiStep

\* esp_wifi_stop: the driver is as wifi_apply needs it and tells nothing wrong, or
\* it is stuck.
LEMMA ApplyStopKeeps ==
    ASSUME Inv, NEW t \in Appliers, ApplyStop(t),
           UNCHANGED <<settingsVars, audioVars, deviceVars>>,
           incidents' \in 0 .. MaxIncidents
    PROVE  Inv'
<1>1. /\ At(t, "stop") /\ Applying(t)
      /\ UNCHANGED <<s_started, s_connected, s_ip, evt, overlapped, strayIp>>
      /\ UNCHANGED <<main, lvgl, wifi, s_cfg, s_loaded>>
      /\ TypeOK /\ CallersOk /\ ApplyOk /\ StationOk /\ TruthOk
  BY DEF Inv, ApplyStop, Applying, At, managerVars, deviceVars, settingsVars
<1>2. /\ drv \in Driver /\ events \in Seq(EventNames) /\ apply \in [Appliers -> ApplyStates]
      /\ overlapped \in BOOLEAN /\ (overlapped => stuck)
      /\ drv.up
  BY <1>1, WifiTypes DEF TypeOK, WifiTyped, ApplyOk, CallersOk, At
<1>3. /\ apply' \in [Appliers -> ApplyStates]
      /\ apply'[t].pc = "clear"
      /\ \A u \in Appliers : u # t => apply'[u] = apply[u]
  BY <1>2 DEF ApplyStop, Goto, ApplyStates
<1>4. CASE DriverStop /\ stuck' = overlapped
  <2>1. /\ drv' \in Driver
        /\ drv'.running = FALSE /\ drv'.sta = "idle"
        /\ drv'.up = drv.up /\ drv'.reports = drv.reports /\ drv'.mode = drv.mode
    BY <1>2, <1>4 DEF DriverStop, Driver
  <2>2. events' \in Seq(EventNames)
    <3>1. CASE ~InTouch
      BY <1>2, <1>4, <3>1, PostNone DEF DriverStop
    <3>2. CASE InTouch
      <4>1. Post(<<"DISCONNECTED">>)
        BY <1>4, <3>2 DEF DriverStop
      <4> QED BY <1>1, <1>2, <4>1, PostOne DEF EventNames
    <3> QED BY <3>1, <3>2
  <2>3. WifiTypeOK'
    BY <1>1, <1>2, <1>3, <1>4, <2>1, <2>2, WifiTypes DEF TypeOK, WifiTyped
  <2>4. CallersOk'
    BY <1>1, <1>2, <1>3, <2>1 DEF CallersOk, Applying, At, Appliers
  <2>5. ApplyOk'
    BY <1>1, <1>3, <1>4, <2>1, ApplyMoves DEF StepFinds, Applying, At
  <2>6. StationOk' /\ TruthOk'
    BY <1>1, <2>1 DEF StationOk, TruthOk
  <2> QED BY <2>1, <2>3, <2>4, <2>5, <2>6, WifiStep
<1>5. CASE UNCHANGED <<drv, events>> /\ stuck' = TRUE
  <2>1. WifiTypeOK'
    BY <1>1, <1>3, <1>5, WifiTypes DEF TypeOK, WifiTyped
  <2>2. CallersOk'
    BY <1>1, <1>2, <1>3, <1>5 DEF CallersOk, Applying, At, Appliers
  <2>3. ApplyOk'
    BY <1>1, <1>2, <1>3, <1>5, ApplyMoves DEF StepFinds, Applying, At
  <2>4. StationOk' /\ TruthOk'
    BY <1>1, <1>5 DEF StationOk, TruthOk
  <2> QED BY <1>5, <2>1, <2>2, <2>3, <2>4, WifiStep
<1> QED BY <1>4, <1>5 DEF ApplyStop

\* The status variables are cleared once the driver has stopped, or is stuck.
LEMMA ApplyClearKeeps ==
    ASSUME Inv, NEW t \in Appliers, ApplyClear(t),
           UNCHANGED <<settingsVars, audioVars, deviceVars>>,
           incidents' \in 0 .. MaxIncidents
    PROVE  Inv'
<1>1. /\ At(t, "clear") /\ Applying(t)
      /\ s_started' = FALSE /\ s_connected' = FALSE
      /\ UNCHANGED <<drv, events, s_ip, evt, overlapped, stuck, strayIp>>
      /\ UNCHANGED <<main, lvgl, wifi, s_cfg, s_loaded>>
      /\ TypeOK /\ CallersOk /\ ApplyOk /\ StationOk /\ TruthOk
  BY DEF Inv, ApplyClear, Applying, At, ghosts, deviceVars, settingsVars
<1>2. apply \in [Appliers -> ApplyStates] /\ s_cfg.wifi_mode \in {"Join", "Create"}
  BY <1>1, WifiTypes DEF TypeOK, WifiTyped, SettingsTypeOK, Config
<1>3. /\ apply' \in [Appliers -> ApplyStates]
      /\ apply'[t].pc = "mode" /\ apply'[t].mode = s_cfg.wifi_mode
      /\ \A u \in Appliers : u # t => apply'[u] = apply[u]
  BY <1>2 DEF ApplyClear, ReadMode, ApplyStates
<1>4. WifiTypeOK'
  BY <1>1, <1>3, WifiTypes DEF TypeOK, WifiTyped
<1>5. CallersOk'
  BY <1>1, <1>3 DEF CallersOk, Applying, At, Appliers
<1>6. ~stuck => ~drv.running
  BY <1>1 DEF ApplyOk, StepFinds
<1>7. ApplyOk'
  <2>1. overlapped => stuck
    BY <1>1 DEF ApplyOk
  <2> QED BY <1>1, <1>3, <1>6, <2>1, ApplyMoves DEF StepFinds, Applying, At
<1>8. StationOk' /\ TruthOk'
  BY <1>1, <1>6 DEF StationOk, TruthOk, Queued
<1> QED BY <1>1, <1>4, <1>5, <1>7, <1>8, WifiStep

\* A change of mode by esp_wifi_set_mode is announced only by a running driver.
LEMMA ModeOk ==
    ASSUME Inv, NEW m \in {"none", "Join", "Create"}, DriverMode(m),
           s_connected' = s_connected
    PROVE  /\ drv' \in Driver /\ drv'.mode = m
           /\ drv'.up = drv.up /\ drv'.reports = drv.reports /\ drv'.running = drv.running
           /\ drv'.sta = IF m = "Join" THEN drv.sta ELSE "idle"
           /\ events' \in Seq(EventNames) /\ (~drv.running => events' = events)
           /\ StationOk'
<1>1. drv \in Driver /\ events \in Seq(EventNames) /\ StationOk
  BY WifiTypes DEF Inv, TypeOK, WifiTyped
<1>2. /\ drv' = [drv EXCEPT !.mode = m, !.sta = IF m = "Join" THEN drv.sta ELSE "idle"]
      /\ Post(IF drv.running /\ drv.mode # m THEN StartEvent(m) ELSE << >>)
  BY DEF DriverMode
<1>3. /\ drv' \in Driver /\ drv'.mode = m
      /\ drv'.up = drv.up /\ drv'.reports = drv.reports /\ drv'.running = drv.running
      /\ drv'.sta = IF m = "Join" THEN drv.sta ELSE "idle"
  BY <1>1, <1>2 DEF Driver
<1>4. events' \in Seq(EventNames) /\ (~drv.running => events' = events)
  <2>1. CASE drv.running /\ drv.mode # m
    <3>1. Post(StartEvent(m))
      BY <1>2, <2>1
    <3>2. PICK e \in EventNames : StartEvent(m) = <<e>>
      BY DEF StartEvent, EventNames
    <3> QED BY <1>1, <2>1, <3>1, <3>2, PostOne
  <2>2. CASE ~(drv.running /\ drv.mode # m)
    BY <1>1, <1>2, <2>2, PostNone
  <2> QED BY <2>1, <2>2
<1>5. StationOk'
  BY <1>1, <1>3 DEF StationOk
<1> QED BY <1>3, <1>4, <1>5

\* esp_wifi_set_mode, with the mode read before: wifi_apply goes on, or returns,
\* whether it was set or not.
LEMMA ApplyModeKeeps ==
    ASSUME Inv, NEW t \in Appliers, ApplyMode(t),
           UNCHANGED <<settingsVars, audioVars, deviceVars>>,
           incidents' \in 0 .. MaxIncidents
    PROVE  Inv'
<1>1. /\ At(t, "mode") /\ Applying(t)
      /\ UNCHANGED <<s_started, s_connected, s_ip, evt, overlapped, stuck, strayIp>>
      /\ UNCHANGED <<main, lvgl, wifi, s_cfg, s_loaded>>
      /\ TypeOK /\ CallersOk /\ ApplyOk /\ StationOk /\ TruthOk
  BY DEF Inv, ApplyMode, Applying, At, ghosts, managerVars, deviceVars, settingsVars
<1>2. /\ drv \in Driver /\ events \in Seq(EventNames) /\ apply \in [Appliers -> ApplyStates]
      /\ apply[t].mode \in {"none", "Join", "Create"}
      /\ (overlapped => stuck)
  BY <1>1, WifiTypes DEF TypeOK, WifiTyped, ApplyStates, ApplyOk
<1>3. /\ ~overlapped => /\ ~s_started /\ (~drv.running \/ stuck)
                        /\ apply[t].mode = s_cfg.wifi_mode
      /\ ~stuck => ~drv.running /\ ~s_started
  BY <1>1 DEF ApplyOk, StepFinds
<1>4. /\ drv' \in Driver /\ StationOk' /\ events' \in Seq(EventNames)
      /\ drv'.up = drv.up /\ drv'.reports = drv.reports /\ drv'.running = drv.running
      /\ ~drv.running => events' = events /\ drv'.sta = "idle"
  <2>1. CASE DriverMode(apply[t].mode)
    BY <1>1, <1>2, <2>1, ModeOk DEF StationOk
  <2>2. CASE UNCHANGED <<drv, events>>
    BY <1>1, <1>2, <2>2 DEF StationOk
  <2> QED BY <2>1, <2>2 DEF ApplyMode
<1>5. /\ apply' \in [Appliers -> ApplyStates]
      /\ \/ drv.up /\ apply'[t].pc = "start" /\ apply'[t].mode = apply[t].mode
         \/ apply'[t].pc = "idle"
      /\ \A u \in Appliers : u # t => apply'[u] = apply[u]
  BY <1>2 DEF ApplyMode, Goto, Return, NotApplying, ApplyStates
<1>6. WifiTypeOK'
  BY <1>1, <1>4, <1>5, WifiTypes DEF TypeOK, WifiTyped
<1>7. CallersOk'
  BY <1>1, <1>4, <1>5 DEF CallersOk, Applying, At, Appliers
<1>8. ApplyOk'
  <2>1. ~overlapped => StepFinds(t)'
    BY <1>1, <1>2, <1>3, <1>4, <1>5 DEF StepFinds, At
  <2>2. ~overlapped => Settled'
    BY <1>1, <1>3, <1>4 DEF Settled
  <2> QED BY <1>1, <1>2, <1>5, <2>1, <2>2, ApplyMoves
<1>9. TruthOk'
  BY <1>1, <1>3, <1>4 DEF TruthOk
<1> QED BY <1>4, <1>6, <1>7, <1>8, <1>9, WifiStep

\* esp_wifi_start: a network of our own is announced, a station is told to connect.
LEMMA StartOk ==
    ASSUME Inv, DriverStart, UNCHANGED <<s_connected, s_started, s_ip, strayIp, wifi>>
    PROVE  /\ drv' \in Driver /\ drv'.running = TRUE
           /\ drv'.up = drv.up /\ drv'.reports = drv.reports /\ drv'.mode = drv.mode
           /\ drv'.sta = drv.sta
           /\ events' \in Seq(EventNames)
           /\ StationOk'
           /\ wifi = "ok" /\ ~drv.running => /\ drv.mode = "Create" => Coming(TRUE)'
                                             /\ drv.mode = "Join" => Queued("STA_START")'
<1>1. /\ drv \in Driver /\ events \in Seq(EventNames) /\ StationOk
      /\ wifi = "ok" => drv.reports
  BY WifiTypes DEF Inv, TypeOK, WifiTyped, BootOk
<1>2. /\ drv' \in Driver /\ drv'.running = TRUE
      /\ drv'.up = drv.up /\ drv'.reports = drv.reports /\ drv'.mode = drv.mode
      /\ drv'.sta = drv.sta
  BY <1>1 DEF DriverStart, Driver
<1>3. StationOk'
  BY <1>1, <1>2 DEF StationOk
<1>4. CASE drv.running
  <2>1. events' = events
    BY <1>1, <1>4, PostNone DEF DriverStart
  <2> QED BY <1>1, <1>2, <1>3, <1>4, <2>1
<1>5. CASE ~drv.running
  <2>1. PICK e \in EventNames : /\ Post(<<e>>)
                                /\ drv.mode = "Join" => e = "STA_START"
                                /\ drv.mode # "Join" => e = "AP_START"
    BY <1>5 DEF DriverStart, StartEvent, EventNames
  <2>2. /\ events' \in Seq(EventNames)
        /\ drv.reports => Queued(e)'
        /\ drv.reports /\ e # "STA_START" => Coming(e # "DISCONNECTED")'
    BY <1>1, <2>1, PostOne
  <2> QED BY <1>1, <1>2, <1>3, <2>1, <2>2
<1> QED BY <1>4, <1>5

\* After it wifi_apply goes on, or returns, and the driver is stuck if it started.
LEMMA ApplyStartKeeps ==
    ASSUME Inv, NEW t \in Appliers, ApplyStart(t),
           UNCHANGED <<settingsVars, audioVars, deviceVars>>,
           incidents' \in 0 .. MaxIncidents
    PROVE  Inv'
<1>1. /\ At(t, "start") /\ Applying(t)
      /\ UNCHANGED <<evt, overlapped, strayIp, s_connected, s_started, s_ip, wifi>>
      /\ TypeOK /\ CallersOk /\ ApplyOk /\ StationOk /\ TruthOk
  BY DEF Inv, ApplyStart, Applying, At, managerVars, deviceVars
<1>2. /\ drv \in Driver /\ events \in Seq(EventNames) /\ apply \in [Appliers -> ApplyStates]
      /\ s_cfg' = s_cfg /\ s_loaded' = s_loaded
      /\ stuck \in BOOLEAN /\ (overlapped => stuck)
      /\ drv.up
  BY <1>1, WifiTypes DEF TypeOK, WifiTyped, settingsVars, ApplyOk, CallersOk, At
<1>3. /\ ~overlapped => /\ ~drv.running \/ stuck
                        /\ ~s_started /\ apply[t].mode = s_cfg.wifi_mode
      /\ ~stuck => ~drv.running
  BY <1>1 DEF ApplyOk, StepFinds
<1>4. CASE DriverStart
  <2>1. /\ drv' \in Driver /\ drv'.running = TRUE
        /\ drv'.up = drv.up /\ drv'.reports = drv.reports /\ drv'.mode = drv.mode
        /\ drv'.sta = drv.sta
        /\ events' \in Seq(EventNames)
        /\ StationOk'
        /\ wifi = "ok" /\ ~drv.running => /\ drv.mode = "Create" => Coming(TRUE)'
                                          /\ drv.mode = "Join" => Queued("STA_START")'
    BY <1>1, <1>4, StartOk
  <2>2. /\ apply' \in [Appliers -> ApplyStates]
        /\ \/ /\ apply'[t].pc = "done" /\ apply'[t].mode = apply[t].mode
              /\ drv.mode = apply[t].mode /\ stuck' = stuck
           \/ apply'[t].pc = "idle" /\ stuck' \in BOOLEAN /\ (drv' # drv => stuck')
              /\ (stuck => stuck')
        /\ \A u \in Appliers : u # t => apply'[u] = apply[u]
    <3>1. CASE Configured(t) /\ Goto(t, "done") /\ UNCHANGED stuck
      BY <1>2, <3>1 DEF Configured, Goto, ApplyStates
    <3>2. CASE ApplyFails(t)
      <4>1. stuck' \in BOOLEAN /\ (drv' # drv => stuck') /\ (stuck => stuck')
        <5>1. CASE UNCHANGED <<drv, events, stuck>>
          BY <1>2, <5>1
        <5>2. CASE stuck' = TRUE
          BY <5>2
        <5> QED BY <3>2, <5>1, <5>2 DEF ApplyFails
      <4> QED BY <1>2, <3>2, <4>1 DEF ApplyFails, Return, NotApplying, ApplyStates
    <3> QED BY <3>1, <3>2 DEF ApplyStart
  <2>3. WifiTypeOK'
    BY <1>1, <1>2, <2>1, <2>2, WifiTypes DEF TypeOK, WifiTyped
  <2>4. CallersOk'
    BY <1>1, <1>2, <2>1, <2>2 DEF CallersOk, Applying, deviceVars, At, Appliers
  <2>5. ApplyOk'
    <3>1. ~overlapped => StepFinds(t)'
      BY <1>1, <1>2, <1>3, <2>1, <2>2 DEF StepFinds, At
    <3>2. ~overlapped /\ apply'[t].pc = "idle" => Settled'
      BY <1>1, <1>2, <1>3, <2>1, <2>2 DEF Settled
    <3> QED BY <1>1, <1>2, <2>2, <3>1, <3>2, ApplyMoves DEF Applying, At
  <2>6. TruthOk'
    <3>1. ~stuck' => ~stuck
      BY <2>2
    <3>2. ~drv.running => drv.sta = "idle"
      BY <1>1 DEF StationOk
    <3>3. ~stuck /\ ~overlapped => ~s_started
      BY <1>3
    <3> QED BY <1>1, <1>2, <1>3, <2>1, <3>1, <3>2, <3>3 DEF TruthOk
  <2> QED BY <2>1, <2>3, <2>4, <2>5, <2>6, WifiStep
<1>5. CASE Return(t) /\ UNCHANGED <<drv, events, stuck>>
  <2>1. /\ apply' \in [Appliers -> ApplyStates]
        /\ apply'[t].pc = "idle"
        /\ \A u \in Appliers : u # t => apply'[u] = apply[u]
    BY <1>2, <1>5 DEF Return, NotApplying, ApplyStates
  <2>2. WifiTypeOK'
    BY <1>1, <1>5, <2>1, WifiTypes DEF TypeOK, WifiTyped
  <2>3. CallersOk'
    BY <1>1, <1>5, <2>1 DEF CallersOk, Applying, deviceVars, At, Appliers
  <2>4. ApplyOk'
    <3>1. StepFinds(t)'
      BY <2>1 DEF StepFinds, At
    <3>2. ~overlapped => Settled'
      BY <1>1, <1>2, <1>3, <1>5 DEF Settled
    <3> QED BY <1>1, <1>2, <1>5, <2>1, <3>1, <3>2, ApplyMoves
  <2>5. StationOk' /\ TruthOk'
    BY <1>1, <1>5 DEF StationOk, TruthOk, Coming, Queued
  <2> QED BY <1>5, <2>2, <2>3, <2>4, <2>5, WifiStep
<1> QED BY <1>4, <1>5 DEF ApplyStart, ApplyFails

\* s_started is set last, when the driver already runs in the mode that is set.
LEMMA ApplyDoneKeeps ==
    ASSUME Inv, NEW t \in Appliers, ApplyDone(t),
           UNCHANGED <<settingsVars, audioVars, deviceVars>>,
           incidents' \in 0 .. MaxIncidents
    PROVE  Inv'
<1>1. /\ At(t, "done") /\ Applying(t) /\ Started(apply[t].mode)
      /\ UNCHANGED <<drv, events, evt, overlapped, stuck>>
      /\ TypeOK /\ CallersOk /\ ApplyOk /\ StationOk /\ TruthOk
  BY DEF Inv, ApplyDone, Applying, At
<1>2. /\ drv \in Driver /\ apply \in [Appliers -> ApplyStates]
      /\ s_cfg' = s_cfg /\ s_loaded' = s_loaded /\ s_ip \in {"none", "Join", "Create"}
      /\ strayIp \in BOOLEAN /\ (overlapped => stuck)
  BY <1>1, WifiTypes DEF TypeOK, WifiTyped, settingsVars, ApplyOk
<1>3. ~overlapped => /\ drv.running
                     /\ drv.mode = apply[t].mode /\ apply[t].mode = s_cfg.wifi_mode
  BY <1>1 DEF ApplyOk, StepFinds
<1>4. /\ apply' \in [Appliers -> ApplyStates]
      /\ apply'[t].pc = "idle"
      /\ \A u \in Appliers : u # t => apply'[u] = apply[u]
  BY <1>2 DEF ApplyDone, Return, NotApplying, ApplyStates
<1>5. /\ s_ip' = IF apply[t].mode = "Create" THEN apply[t].mode ELSE s_ip
      /\ strayIp' = (strayIp /\ apply[t].mode # "Create")
      /\ s_started' = TRUE /\ s_connected' = s_connected
  BY <1>1 DEF Started
<1>6. WifiTypeOK'
  BY <1>1, <1>2, <1>4, <1>5, WifiTypes DEF TypeOK, WifiTyped
<1>7. CallersOk'
  BY <1>1, <1>4 DEF CallersOk, Applying, deviceVars, At, Appliers
<1>8. ApplyOk'
  <2>1. StepFinds(t)'
    BY <1>4 DEF StepFinds, At
  <2>2. ~overlapped => Settled'
    BY <1>1, <1>2, <1>3, <1>5 DEF Settled
  <2> QED BY <1>1, <1>2, <1>4, <2>1, <2>2, ApplyMoves
<1>9. StationOk' /\ TruthOk'
  <2>1. wifi' = wifi
    BY DEF deviceVars
  <2>2. \A b : (Coming(b) => Coming(b)') /\ (Queued(b) => Queued(b)')
    BY <1>1, <1>5 DEF Coming, Queued
  <2> QED BY <1>1, <1>2, <1>3, <1>5, <2>1, <2>2 DEF StationOk, TruthOk
<1> QED BY <1>1, <1>6, <1>7, <1>8, <1>9, WifiStep

LEMMA ApplyStepKeeps ==
    ASSUME Inv, NEW t \in Appliers, ApplySteps(t), incidents' \in 0 .. MaxIncidents
    PROVE  Inv'
BY ApplyTestKeeps, ApplyStopKeeps, ApplyClearKeeps, ApplyModeKeeps, ApplyStartKeeps,
   ApplyDoneKeeps DEF ApplySteps, ApplyStep

\* esp_wifi_connect: a station that runs does not stay idle,
\* though it may be refused.
LEMMA ConnectOk ==
    ASSUME drv \in Driver, DriverConnect
    PROVE  /\ drv' \in Driver
           /\ UNCHANGED <<drv.up, drv.reports, drv.mode, drv.running>>
           /\ \/ /\ drv.running /\ drv.mode = "Join" /\ drv.sta # "up"
                 /\ drv'.sta \in {"connecting", "refused"}
              \/ /\ ~(drv.running /\ drv.mode = "Join" /\ drv.sta = "idle")
                 /\ drv'.sta = drv.sta
BY DEF DriverConnect, InTouch, Driver

\* The event handler takes the oldest event.
LEMMA OnEventKeeps ==
    ASSUME Inv, OnEvent, UNCHANGED <<settingsVars, audioVars, deviceVars>>,
           incidents' \in 0 .. MaxIncidents
    PROVE  Inv'
<1>1. /\ TypeOK /\ StationOk /\ TruthOk /\ WifiTyped
      /\ main' = main /\ lvgl' = lvgl /\ wifi' = wifi /\ s_cfg' = s_cfg /\ s_loaded' = s_loaded
  BY WifiTypes DEF Inv, TypeOK, deviceVars, settingsVars
<1>2. /\ drv \in Driver /\ events \in Seq(EventNames)
      /\ s_connected \in BOOLEAN /\ strayIp \in BOOLEAN /\ s_ip \in {"none", "Join", "Create"}
  BY <1>1 DEF WifiTyped
<1>3. CASE OnStaStart
  <2>1. /\ Take("STA_START") /\ DriverConnect /\ s_connected' = s_connected /\ s_ip' = s_ip
        /\ UNCHANGED <<s_started, evt, apply, overlapped, stuck, strayIp>>
    BY <1>3 DEF OnStaStart, managerVars, ghosts
  <2>2. /\ events' \in Seq(EventNames)
        /\ \A x : Queued(x) => x = "STA_START" \/ Queued(x)'
        /\ \A b : Coming(b) => Coming(b)'
    BY <1>2, <2>1, TakeOk
  <2>3. /\ drv' \in Driver
        /\ UNCHANGED <<drv.up, drv.reports, drv.mode, drv.running>>
        /\ \/ /\ drv.running /\ drv.mode = "Join" /\ drv.sta # "up"
              /\ drv'.sta \in {"connecting", "refused"}
           \/ /\ ~(drv.running /\ drv.mode = "Join" /\ drv.sta = "idle")
              /\ drv'.sta = drv.sta
    BY <1>2, <2>1, ConnectOk
  <2>4. WifiTypeOK'
    BY <1>1, <2>1, <2>2, <2>3, WifiTypes DEF WifiTyped
  <2>5. CallersOk' /\ ApplyOk'
    BY <1>1, <2>1, <2>3, ApplyStays
  <2>6. StationOk' /\ TruthOk'
    BY <1>1, <2>1, <2>2, <2>3 DEF StationOk, TruthOk
  <2> QED BY <2>3, <2>4, <2>5, <2>6, WifiStep
<1>4. ASSUME NEW e \in EventNames, e # "STA_START", Take(e), s_connected' = (e # "DISCONNECTED"),
             evt' \in {"notify", "notify retry"},
             \/ s_ip' = s_ip /\ strayIp' = strayIp
             \/ s_ip' = "Join" /\ strayIp' = (strayIp \/ drv.mode # "Join"),
             e = "GOT_IP" => s_ip' = "Join",
             UNCHANGED <<drv, s_started, apply, overlapped, stuck>>
      PROVE  Inv'
  <2>1. /\ events' \in Seq(EventNames)
        /\ \A x : Queued(x) => x = e \/ Queued(x)'
        /\ \A b : Coming(b) => Coming(b)'
    BY <1>2, <1>4, TakeOk
  <2>2. WifiTypeOK'
    BY <1>1, <1>2, <1>4, <2>1, WifiTypes DEF WifiTyped
  <2>3. CallersOk' /\ ApplyOk'
    BY <1>1, <1>4, ApplyStays
  <2>4. StationOk' /\ TruthOk'
    <3>1. s_ip = "Join" \/ e = "GOT_IP" => s_ip' = "Join"
      BY <1>4
    <3>2. drv.mode = "Create" /\ (s_ip = "Create" \/ strayIp) => s_ip' = "Create" \/ strayIp'
      BY <1>2, <1>4
    <3> QED BY <1>1, <1>4, <2>1, <3>1, <3>2 DEF StationOk, TruthOk
  <2> QED BY <1>4, <2>2, <2>3, <2>4, WifiStep
<1>5. CASE OnDisconnected
  <2>1. "DISCONNECTED" \in EventNames
    BY DEF EventNames
  <2> QED BY <1>4, <1>5, <2>1 DEF OnDisconnected, ghosts
<1>6. CASE OnApStart
  <2>1. "AP_START" \in EventNames
    BY DEF EventNames
  <2> QED BY <1>4, <1>6, <2>1 DEF OnApStart, ghosts
<1>7. CASE OnGotIp
  <2>1. "GOT_IP" \in EventNames
    BY DEF EventNames
  <2> QED BY <1>4, <1>7, <2>1 DEF OnGotIp
<1> QED BY <1>3, <1>5, <1>6, <1>7 DEF OnEvent

\* The status line, and the retry that finds a station idle or has nothing to do.
LEMMA NotifyRetryKeeps ==
    ASSUME Inv, Notify \/ Retry, UNCHANGED <<settingsVars, audioVars, deviceVars>>,
           incidents' \in 0 .. MaxIncidents
    PROVE  Inv'
<1>1. /\ TypeOK /\ StationOk /\ TruthOk /\ WifiTyped
      /\ main' = main /\ lvgl' = lvgl /\ wifi' = wifi /\ s_cfg' = s_cfg /\ s_loaded' = s_loaded
      /\ UNCHANGED <<events, s_started, s_connected, s_ip, apply, overlapped, stuck, strayIp>>
  BY WifiTypes DEF Inv, TypeOK, deviceVars, settingsVars, Notify, Retry, managerVars,
                   ghosts
<1>2. evt' \in {"idle", "delay"}
  BY DEF Notify, Retry, AfterNotify
<1>3. /\ drv' \in Driver
      /\ UNCHANGED <<drv.up, drv.reports, drv.mode, drv.running>>
      /\ \/ drv'.sta = drv.sta
         \/ /\ drv'.sta \in {"connecting", "refused"}
            /\ drv.running /\ drv.mode = "Join"
  <2>1. drv \in Driver
    BY <1>1 DEF WifiTyped
  <2>2. CASE Notify
    BY <2>1, <2>2 DEF Notify
  <2>3. CASE Retry
    BY <2>1, <2>3, ConnectOk DEF Retry
  <2> QED BY <2>2, <2>3
<1>4. WifiTypeOK'
  BY <1>1, <1>2, <1>3, WifiTypes DEF WifiTyped
<1>5. CallersOk' /\ ApplyOk'
  BY <1>1, <1>3, ApplyStays
<1>6. StationOk' /\ TruthOk'
  <2>1. \A b : (Coming(b) => Coming(b)') /\ (Queued(b) => Queued(b)')
    BY <1>1 DEF Coming, Queued
  <2> QED BY <1>1, <1>3, <2>1 DEF StationOk, TruthOk
<1> QED BY <1>3, <1>4, <1>5, <1>6, WifiStep

\* The station joins its network, or loses it.
LEMMA StationKeeps ==
    ASSUME Inv, Associate \/ Disconnect, UNCHANGED <<settingsVars, audioVars, deviceVars>>,
           incidents' \in 0 .. MaxIncidents
    PROVE  Inv'
<1>1. /\ TypeOK /\ StationOk /\ TruthOk /\ WifiTyped
      /\ main' = main /\ lvgl' = lvgl /\ wifi' = wifi /\ s_cfg' = s_cfg /\ s_loaded' = s_loaded
      /\ UNCHANGED <<s_started, s_connected, s_ip, evt, apply, overlapped, stuck, strayIp>>
  BY WifiTypes DEF Inv, TypeOK, deviceVars, settingsVars, Associate, Disconnect,
                   managerVars, ghosts
<1>2. drv \in Driver /\ events \in Seq(EventNames)
  BY <1>1 DEF WifiTyped
<1>3. drv.sta # "idle" /\ drv.running /\ drv.mode = "Join" /\ (wifi = "ok" => drv.reports)
  BY <1>1 DEF Inv, BootOk, Associate, Disconnect, InTouch, StationOk
<1>4. ASSUME NEW sta \in {"idle", "up"}, drv' = [drv EXCEPT !.sta = sta],
             NEW e \in {"GOT_IP", "DISCONNECTED"}, Post(<<e>>),
             (sta = "up") <=> (e = "GOT_IP")
      PROVE  Inv'
  <2>1. /\ drv' \in Driver /\ drv'.sta = sta
        /\ UNCHANGED <<drv.up, drv.reports, drv.mode, drv.running>>
    BY <1>2, <1>4 DEF Driver
  <2>2. /\ events' \in Seq(EventNames)
        /\ \A x : Queued(x) => Queued(x)'
        /\ drv.reports => Queued(e)'
        /\ drv.reports => Coming(e # "DISCONNECTED")'
    BY <1>1, <1>2, <1>4, PostOne DEF EventNames
  <2>3. WifiTypeOK'
    BY <1>1, <2>1, <2>2, WifiTypes DEF WifiTyped
  <2>4. CallersOk' /\ ApplyOk'
    BY <1>1, <2>1, ApplyStays
  <2>5. StationOk'
    BY <1>3, <2>1 DEF StationOk
  <2>6. TruthOk'
    <3>1. wifi = "ok" /\ sta = "up" => Coming(TRUE)' /\ Queued("GOT_IP")'
      BY <1>3, <1>4, <2>2
    <3>2. wifi = "ok" /\ sta = "idle" => Coming(FALSE)'
      BY <1>3, <1>4, <2>2
    <3> QED BY <1>1, <1>3, <1>4, <2>1, <3>1, <3>2 DEF TruthOk
  <2> QED BY <2>1, <2>3, <2>4, <2>5, <2>6, WifiStep
<1>5. CASE Associate
  BY <1>4, <1>5 DEF Associate
<1>6. CASE Disconnect
  BY <1>4, <1>6 DEF Disconnect
<1> QED BY <1>5, <1>6

(***************************************************************************)
(* Steps that leave the Wi-Fi manager, or the settings and audio, alone.   *)
(***************************************************************************)
\* A step that leaves the Wi-Fi manager alone and takes no caller out of it.
LEMMA WifiRests ==
    ASSUME Inv, UNCHANGED wifiVars, wifi' = wifi \/ wifi' # "ok",
           s_cfg'.wifi_mode = s_cfg.wifi_mode \/ (~drv.up /\ ~s_loaded), s_loaded => s_loaded',
           Applying("main") => main' = "in wifi_apply",
           Applying("lvgl") => lvgl'.pc = "apply"
    PROVE  WifiTypeOK' /\ CallersOk' /\ ApplyOk' /\ StationOk' /\ TruthOk'
<1>1. /\ UNCHANGED <<drv, events, s_started, s_connected, s_ip, evt, apply, overlapped, stuck,
                     strayIp>>
      /\ TypeOK /\ CallersOk /\ ApplyOk /\ StationOk /\ TruthOk
  BY DEF Inv, wifiVars, managerVars, ghosts
<1>2. WifiTypeOK'
  BY <1>1, WifiTypes DEF TypeOK, WifiTyped
<1>3. CallersOk'
  BY <1>1 DEF CallersOk, Applying
<1>4. ApplyOk'
  <2>1. CASE s_cfg'.wifi_mode = s_cfg.wifi_mode
    BY <1>1, <2>1 DEF ApplyOk, Settled, StepFinds, Applying, At
  <2>2. CASE ~drv.up /\ ~s_loaded
    <3>1. /\ ~drv.running /\ ~s_started
          /\ \A t \in Appliers : apply[t].pc \in {"idle", "test", "mode"}
      BY <1>1, <2>2 DEF CallersOk
    <3> QED BY <1>1, <3>1 DEF ApplyOk, Settled, StepFinds, Applying, At
  <2> QED BY <2>1, <2>2
<1>5. StationOk' /\ TruthOk'
  <2>1. \A b : (Coming(b) => Coming(b)') /\ (Queued(b) => Queued(b)')
    BY <1>1 DEF Coming, Queued
  <2> QED BY <1>1, <2>1 DEF StationOk, TruthOk
<1> QED BY <1>2, <1>3, <1>4, <1>5

\* A step that leaves settings and screen alone.
LEMMA ChoiceRests ==
    ASSUME Inv, UNCHANGED <<settingsVars, lvgl, label, dialog, overrun>>
    PROVE  SettingsTypeOK' /\ ScreenTyped' /\ ChoiceOk'
<1>1. Typed /\ ChoiceOk
  BY DeviceTypes DEF Inv
<1>2. SettingsTypeOK'
  BY <1>1 DEF Typed, settingsVars, SettingsTypeOK
<1>3. ScreenTyped'
  BY <1>1 DEF Typed, ScreenTyped
<1> QED BY <1>1, <1>2, <1>3 DEF ChoiceOk, settingsVars

\* A step that leaves audio alone, and changes neither the settings nor where a
\* callback is, or what is known of them.
LEMMA AudioRests ==
    ASSUME Inv, UNCHANGED audioVars,
           \/ UNCHANGED <<s_cfg.mic_muted, s_cfg.level>>
           \/ lost' \/ init.pc = "idle",
           lost => lost', overrun => overrun',
           lvgl'.pc = lvgl.pc \/ {lvgl.pc, lvgl'.pc} \subseteq {"idle", "apply"}
    PROVE  AudioTypeOK' /\ AudioOk' /\ AtMostOneLatePacket'
<1>1. Typed /\ AudioOk /\ AtMostOneLatePacket
  BY DeviceTypes DEF Inv
<1>2. AudioTypeOK'
  BY <1>1 DEF Typed, audioVars, AudioTypeOK
<1>3. AudioOk'
  <2>1. UNCHANGED <<codec, s_muted, hw, init>>
    BY DEF audioVars
  <2> QED BY <1>1, <2>1 DEF AudioOk, Initialising
<1>4. AtMostOneLatePacket'
  BY <1>1 DEF AtMostOneLatePacket, Forbidden, audioVars
<1> QED BY <1>2, <1>3, <1>4

\* The parts of the invariant make the whole.
LEMMA AllParts ==
    ASSUME SettingsTypeOK', WifiTypeOK', AudioTypeOK', BootTyped', ScreenTyped',
           incidents' \in 0 .. MaxIncidents,
           BootOk', ChoiceOk', AudioOk', AtMostOneLatePacket',
           CallersOk', ApplyOk', StationOk', TruthOk'
    PROVE  Inv'
BY DeviceTypes DEF Inv, Typed

\* wifi_apply is entered by a task that is not in it.
LEMMA ApplyEntered ==
    ASSUME Inv, NEW t \in Appliers, ~Applying(t), Apply(t),
           UNCHANGED <<drv, events, managerVars, evt>>, wifi' = wifi \/ wifi' # "ok",
           s_loaded' = s_loaded
    PROVE  /\ WifiTypeOK' /\ ApplyOk' /\ StationOk' /\ TruthOk'
           /\ apply'[t].pc = "test"
           /\ \A u \in Appliers : u # t => apply'[u] = apply[u]
<1>1. /\ TypeOK /\ CallersOk /\ ApplyOk /\ StationOk /\ TruthOk /\ WifiTyped
      /\ UNCHANGED <<drv, events, s_started, s_connected, s_ip, evt>>
      /\ Goto(t, "test")
      /\ overlapped' = (~s_loaded \/ \E u \in Appliers \ {t} : Applying(u))
      /\ stuck' = (stuck \/ overlapped') /\ strayIp' = strayIp
  BY WifiTypes DEF Inv, TypeOK, Apply, managerVars
<1>2. /\ apply' \in [Appliers -> ApplyStates]
      /\ apply'[t].pc = "test"
      /\ \A u \in Appliers : u # t => apply'[u] = apply[u]
  BY <1>1 DEF WifiTyped, Goto, ApplyStates
<1>3. /\ overlapped' \in BOOLEAN /\ stuck' \in BOOLEAN
      /\ overlapped' => stuck'
      /\ stuck => stuck'
  BY <1>1 DEF WifiTyped
<1>4. WifiTypeOK'
  BY <1>1, <1>2, <1>3, WifiTypes DEF WifiTyped
<1>5. ApplyOk'
  <2> SUFFICES ASSUME ~overlapped'
               PROVE  /\ \A v, u \in Appliers : Applying(v)' /\ Applying(u)' => v = u
                      /\ (\A u \in Appliers : ~Applying(u)') => Settled'
                      /\ \A u \in Appliers : StepFinds(u)'
    <3>1. ~s_loaded' => overlapped'
      BY <1>1
    <3> QED BY <1>3, <3>1 DEF ApplyOk
  <2>1. \A u \in Appliers : ~Applying(u)
    BY <1>1
  <2>2. s_started \/ ~drv.running \/ stuck'
    BY <1>1, <1>3, <2>1 DEF ApplyOk, Settled
  <2>3. \A u \in Appliers : u # t => ~Applying(u)' /\ StepFinds(u)'
    BY <1>2, <2>1 DEF Applying, StepFinds, At
  <2>4. Applying(t)' /\ StepFinds(t)'
    BY <1>1, <1>2, <2>2 DEF Applying, StepFinds, At
  <2> QED BY <2>3, <2>4
<1>6. StationOk' /\ TruthOk'
  <2>1. \A b : (Coming(b) => Coming(b)') /\ (Queued(b) => Queued(b)')
    BY <1>1 DEF Coming, Queued
  <2> QED BY <1>1, <1>3, <2>1 DEF StationOk, TruthOk
<1> QED BY <1>2, <1>4, <1>5, <1>6

\* A change of s_muted or s_peer starts the count of late packets anew.
LEMMA LateOk ==
    ASSUME AudioTypeOK, AtMostOneLatePacket, pkt' = pkt,
           \/ s_muted' = s_muted /\ s_peer' = s_peer /\ late' = late
           \/ late' = 0
    PROVE  AtMostOneLatePacket'
<1>1. CASE s_muted' = s_muted /\ s_peer' = s_peer /\ late' = late
  BY <1>1 DEF AtMostOneLatePacket, Forbidden
<1>2. CASE late' = 0
  BY <1>2 DEF AtMostOneLatePacket
<1> QED BY <1>1, <1>2

(***************************************************************************)
(* The boot.                                                               *)
(***************************************************************************)
\* A failed assertion has one of the two reasons.
LEMMA AssertKeeps ==
    ASSUME Inv, NEW what \in {"nvs", "socket", "microphone"}, Assert(what),
           what = "socket" => wifi = "stack", what = "microphone" => ~s_lock,
           incidents' \in 0 .. MaxIncidents
    PROVE  Inv'
<1>1. /\ UNCHANGED <<settingsVars, wifiVars, audioVars, main, wifi, stack, lvgl, label,
                     dialog, overrun>>
      /\ crash' = what
  BY DEF Assert
<1>2. WifiTypeOK' /\ CallersOk' /\ ApplyOk' /\ StationOk' /\ TruthOk'
  BY <1>1, WifiRests DEF Inv, CallersOk, settingsVars
<1>3. SettingsTypeOK' /\ ScreenTyped' /\ ChoiceOk'
  BY <1>1, ChoiceRests
<1>4. AudioTypeOK' /\ AudioOk' /\ AtMostOneLatePacket'
  BY <1>1, AudioRests DEF settingsVars
<1>5. BootTyped'
  BY <1>1, DeviceTypes DEF Inv, Typed, BootTyped
<1>6. BootOk'
  BY <1>1 DEF Inv, BootOk, AudioStarted, settingsVars, audioVars, wifiVars
<1> QED BY <1>2, <1>3, <1>4, <1>5, <1>6, AllParts

\* app_main goes from one call to the next; audio and Wi-Fi manager rest.
LEMMA MainKeeps ==
    ASSUME Inv, NEW pc, GotoMain(pc), BootTyped',
           UNCHANGED <<settingsVars, wifiVars, audioVars>>, wifi' = wifi \/ wifi' # "ok",
           ~Applying("main"), BootOk', incidents' \in 0 .. MaxIncidents
    PROVE  Inv'
<1>1. UNCHANGED <<crash, lvgl, label, dialog, overrun>>
  BY DEF GotoMain
<1>2. WifiTypeOK' /\ CallersOk' /\ ApplyOk' /\ StationOk' /\ TruthOk'
  BY <1>1, WifiRests DEF Inv, CallersOk, settingsVars
<1>3. SettingsTypeOK' /\ ScreenTyped' /\ ChoiceOk'
  BY <1>1, ChoiceRests
<1>4. AudioTypeOK' /\ AudioOk' /\ AtMostOneLatePacket'
  BY <1>1, AudioRests DEF settingsVars
<1> QED BY <1>2, <1>3, <1>4, AllParts

\* NVS is erased at worst before anything has been read.
LEMMA UiInitKeeps ==
    ASSUME Inv, UiInit, incidents' \in 0 .. MaxIncidents, Running
    PROVE  Inv'
<1>1. /\ main = "ui" /\ main' = "settings"
      /\ UNCHANGED <<s_cfg, s_loaded, wifiVars, audioVars, wifi, stack, crash, lvgl, label,
                     dialog, overrun>>
      /\ \/ UNCHANGED <<stored, nvsOk, lost, choice>>
         \/ stored' = NoBlob /\ nvsOk' = TRUE /\ lost' = TRUE /\ choice' = Defaults
      /\ Typed /\ BootOk /\ ChoiceOk /\ CallersOk
  BY DeviceTypes DEF Inv, UiInit, GotoMain
<1>2. WifiTypeOK' /\ CallersOk' /\ ApplyOk' /\ StationOk' /\ TruthOk'
  BY <1>1, WifiRests DEF CallersOk
<1>3. SettingsTypeOK'
  <2>1. Defaults \in Config
    BY SettingsAssumption DEF Config, Defaults
  <2> QED BY <1>1, <2>1 DEF Typed, SettingsTypeOK
<1>4. ScreenTyped'
  BY <1>1 DEF Typed, ScreenTyped
<1>5. ChoiceOk'
  <2>1. CASE UNCHANGED <<stored, nvsOk, lost, choice>>
    BY <1>1, <2>1 DEF ChoiceOk
  <2>2. CASE lost' = TRUE
    BY <2>2 DEF ChoiceOk
  <2> QED BY <1>1, <2>1, <2>2
<1>6. AudioTypeOK' /\ AudioOk' /\ AtMostOneLatePacket'
  BY <1>1, AudioRests
<1>7. BootTyped'
  BY <1>1 DEF Typed, BootTyped
<1>8. BootOk'
  BY <1>1 DEF BootOk, AudioStarted, audioVars, wifiVars
<1> QED BY <1>2, <1>3, <1>4, <1>5, <1>6, <1>7, <1>8, AllParts

\* What init reads is what the user chose, unless it was lost.
LEMMA LoadSettingsKeeps ==
    ASSUME Inv, NEW readable \in BOOLEAN, LoadSettings(readable),
           incidents' \in 0 .. MaxIncidents, Running
    PROVE  Inv'
<1>1. CASE Assert("nvs")
  BY <1>1, AssertKeeps
<1>2. CASE /\ SettingsInit(readable) /\ GotoMain(AfterSettings)
           /\ UNCHANGED <<wifiVars, audioVars, wifi, stack>>
  <2>1. /\ main = "settings" /\ main' = "wifi"
        /\ UNCHANGED <<nvsOk, wifiVars, audioVars, wifi, stack, crash, lvgl, label, dialog,
                       overrun>>
        /\ s_loaded' = TRUE
        /\ \/ /\ stored # NoBlob /\ s_cfg' = stored
              /\ UNCHANGED <<stored, choice, lost>>
           \/ /\ s_cfg' = Defaults
              /\ stored' = IF nvsOk THEN Defaults ELSE stored
              /\ lost' = (lost \/ stored # NoBlob)
              /\ choice' = IF lost' THEN Defaults ELSE choice
        /\ Typed /\ BootOk /\ ChoiceOk /\ CallersOk
    BY <1>2, DeviceTypes DEF Inv, LoadSettings, GotoMain, SettingsInit, AfterSettings
  <2>2. ~drv.up /\ init.pc = "idle" /\ ~s_loaded
    BY <2>1 DEF BootOk, AudioStarted
  <2>3. WifiTypeOK' /\ CallersOk' /\ ApplyOk' /\ StationOk' /\ TruthOk'
    BY <2>1, <2>2, WifiRests DEF CallersOk
  <2>4. Defaults \in Config /\ NoBlob \notin Config
    BY SettingsAssumption DEF Config, Defaults, NoBlob
  <2>5. /\ choice \in Config /\ stored \in Config \cup {NoBlob}
        /\ choice' \in Config /\ lost' \in BOOLEAN /\ (lost => lost')
        /\ s_cfg' \in Config /\ stored' \in Config \cup {NoBlob}
    <3>1. /\ choice \in Config /\ stored \in Config \cup {NoBlob} /\ lost \in BOOLEAN
      BY <2>1 DEF Typed, SettingsTypeOK
    <3>2. lost' \in BOOLEAN /\ (lost => lost')
      BY <2>1, <3>1
    <3> QED BY <2>1, <2>4, <3>1, <3>2
  <2>6. SettingsTypeOK'
    BY <2>1, <2>5 DEF Typed, SettingsTypeOK
  <2>7. ScreenTyped'
    BY <2>1 DEF Typed, ScreenTyped
  <2>8. ChoiceOk'
    <3> SUFFICES ASSUME ~lost'
                 PROVE  ChoiceOk'
      BY DEF ChoiceOk
    <3>0. ~lost /\ choice' = choice
      BY <2>1, <2>5
    <3>1. stored = choice \/ (stored = NoBlob /\ choice = Defaults)
      BY <2>1, <3>0 DEF ChoiceOk
    <3>2. s_cfg' = choice
      BY <2>1, <2>4, <2>5, <3>0, <3>1
    <3>3. stored' = choice \/ (stored' = NoBlob /\ choice = Defaults)
      BY <2>1, <2>4, <2>5, <3>0, <3>1, <3>2
    <3>4. CASE s_loaded
      <4>1. s_cfg' = s_cfg
        BY <2>1, <3>0, <3>2, <3>4 DEF ChoiceOk
      <4> QED BY <2>1, <3>0, <3>2, <3>3, <3>4, <4>1 DEF ChoiceOk
    <3>5. CASE ~s_loaded
      <4>1. lvgl.pc = "idle" /\ label = "built" /\ ~dialog.open
        BY <2>1, <3>0, <3>5 DEF ChoiceOk
      <4> QED BY <2>1, <3>0, <3>2, <3>3, <4>1 DEF ChoiceOk
    <3> QED BY <3>4, <3>5
  <2>9. AudioTypeOK' /\ AudioOk' /\ AtMostOneLatePacket'
    BY <2>1, <2>2, <2>5, AudioRests
  <2>10. BootTyped'
    BY <2>1 DEF Typed, BootTyped
  <2>11. BootOk'
    BY <2>1 DEF BootOk, AudioStarted, audioVars, wifiVars
  <2> QED BY <2>3, <2>6, <2>7, <2>8, <2>9, <2>10, <2>11, AllParts
<1> QED BY <1>1, <1>2 DEF LoadSettings

\* Transport, sockets and discovery: app_main moves on.
LEMMA MovesKeep ==
    ASSUME Inv, WifiTransport \/ LinkStart \/ DiscoveryStart,
           incidents' \in 0 .. MaxIncidents, Running
    PROVE  Inv'
<1>1. Typed /\ BootOk /\ CallersOk /\ crash = "none"
  BY DeviceTypes DEF Inv, Running
<1>2. CASE WifiTransport
  <2>1. PICK pc \in {"stack", "link"} : /\ GotoMain(pc) /\ main = "wifi"
                                        /\ UNCHANGED <<settingsVars, wifiVars, audioVars, stack>>
                                        /\ \/ pc = "stack" /\ wifi' = wifi
                                           \/ pc = "link" /\ wifi' = "stack"
    BY <1>2 DEF WifiTransport
  <2>2. BootTyped'
    BY <1>1, <2>1 DEF Typed, BootTyped, GotoMain
  <2>3. BootOk' /\ ~Applying("main")
    BY <1>1, <2>1 DEF BootOk, CallersOk, AudioStarted, GotoMain, audioVars, wifiVars
  <2> QED BY <2>1, <2>2, <2>3, MainKeeps
<1>3. CASE LinkStart
  <2>1. CASE ~stack
    <3>1. wifi = "stack" /\ Assert("socket")
      BY <1>1, <1>3, <2>1 DEF LinkStart, BootOk
    <3> QED BY <3>1, AssertKeeps
  <2>2. CASE stack
    <3>1. /\ GotoMain("audio") /\ main = "link"
          /\ UNCHANGED <<settingsVars, wifiVars, audioVars, wifi, stack>>
      BY <1>3, <2>2 DEF LinkStart
    <3>2. BootTyped'
      BY <1>1, <3>1 DEF Typed, BootTyped, GotoMain
    <3>3. BootOk' /\ ~Applying("main")
      BY <1>1, <3>1 DEF BootOk, CallersOk, AudioStarted, GotoMain, audioVars, wifiVars
    <3> QED BY <3>1, <3>2, <3>3, MainKeeps
  <2> QED BY <2>1, <2>2
<1>4. CASE DiscoveryStart
  <2>1. PICK pc \in {"browsing", "run"} :
            /\ GotoMain(pc) /\ main = "in wifi_apply" /\ ~Applying("main")
            /\ UNCHANGED <<settingsVars, wifiVars, audioVars, wifi, stack>>
    BY <1>4 DEF DiscoveryStart
  <2>2. BootTyped'
    BY <1>1, <2>1 DEF Typed, BootTyped, GotoMain
  <2>3. BootOk'
    BY <1>1, <2>1 DEF BootOk, AudioStarted, GotoMain, audioVars, wifiVars
  <2> QED BY <2>1, <2>2, <2>3, MainKeeps
<1> QED BY <1>2, <1>3, <1>4

\* The driver comes up, stopped, with or without handlers.
LEMMA WifiStackKeeps ==
    ASSUME Inv, WifiStack, incidents' \in 0 .. MaxIncidents, Running
    PROVE  Inv'
<1>1. /\ main = "stack" /\ main' = "link" /\ stack' = TRUE
      /\ UNCHANGED <<settingsVars, events, managerVars, evt, apply, ghosts, audioVars,
                     crash, lvgl, label, dialog, overrun>>
      /\ \/ wifi' = "driver" /\ drv' = drv
         \/ \E reports \in BOOLEAN : /\ wifi' = IF reports THEN "ok" ELSE "handlers"
                                     /\ DriverUp(reports)
      /\ Typed /\ BootOk /\ CallersOk /\ ApplyOk /\ StationOk /\ WifiTyped /\ crash = "none"
  BY DeviceTypes, WifiTypes DEF Inv, WifiStack, GotoMain, Running, Typed
<1>2. /\ drv' \in Driver
      /\ UNCHANGED <<drv.mode, drv.running, drv.sta>>
      /\ wifi' \in {"driver", "handlers", "ok"}
      /\ wifi' = "ok" => drv'.reports
  BY <1>1 DEF WifiTyped, Driver, DriverUp
<1>3. UNCHANGED <<s_started, s_connected, s_ip, overlapped, stuck, strayIp>>
  BY <1>1 DEF managerVars, ghosts
<1>4. /\ ~drv.running /\ ~s_started /\ ~Applying("main")
      /\ \A t \in Appliers : apply[t].pc \in {"idle", "test", "mode"}
  BY <1>1 DEF BootOk, CallersOk
<1>5. WifiTypeOK'
  BY <1>1, <1>2, <1>3, WifiTypes DEF WifiTyped
<1>6. CallersOk'
  BY <1>1, <1>2, <1>3, <1>4 DEF CallersOk, Applying
<1>7. ApplyOk'
  BY <1>1, <1>2, <1>3, <1>4 DEF settingsVars, ApplyOk, Settled, StepFinds, Applying, At
<1>8. StationOk' /\ TruthOk'
  BY <1>1, <1>2, <1>3, <1>4 DEF StationOk, TruthOk
<1>9. SettingsTypeOK' /\ ScreenTyped' /\ ChoiceOk'
  BY <1>1, ChoiceRests
<1>10. AudioTypeOK' /\ AudioOk' /\ AtMostOneLatePacket'
  BY <1>1, AudioRests DEF settingsVars
<1>11. BootTyped'
  BY <1>1, <1>2 DEF Typed, BootTyped
<1>12. BootOk'
  BY <1>1, <1>2 DEF BootOk, AudioStarted, audioVars
<1> QED BY <1>5, <1>6, <1>7, <1>8, <1>9, <1>10, <1>11, <1>12, AllParts

\* audio_init starts: the mutex, and the arguments as the settings are now.
LEMMA CallAudioInitKeeps ==
    ASSUME Inv, CallAudioInit, incidents' \in 0 .. MaxIncidents, Running
    PROVE  Inv'
<1>1. /\ main = "audio" /\ main' = "in audio_init"
      /\ UNCHANGED <<settingsVars, wifiVars, wifi, stack, crash, lvgl, label, dialog, overrun>>
      /\ s_lock' = TRUE /\ StoreMute(s_cfg.mic_muted)
      /\ init' = [pc |-> "codec", muted |-> s_cfg.mic_muted, level |-> s_cfg.level]
      /\ UNCHANGED <<codec, s_peer, hw, pkt>>
      /\ Typed /\ BootOk /\ CallersOk /\ AtMostOneLatePacket /\ crash = "none"
  BY DeviceTypes DEF Inv, CallAudioInit, GotoMain, InitLock, Running
<1>2. s_cfg' = s_cfg /\ s_cfg.mic_muted \in BOOLEAN /\ s_cfg.level \in Nat
  <2>1. s_cfg \in Config /\ s_cfg' = s_cfg
    BY <1>1 DEF Typed, SettingsTypeOK, settingsVars
  <2>2. 0 .. MaxLevel \subseteq Nat
    BY SettingsAssumption
  <2> QED BY <2>1, <2>2 DEF Config
<1>3. WifiTypeOK' /\ CallersOk' /\ ApplyOk' /\ StationOk' /\ TruthOk'
  BY <1>1, <1>2, WifiRests DEF CallersOk, settingsVars
<1>4. SettingsTypeOK' /\ ScreenTyped' /\ ChoiceOk'
  BY <1>1, ChoiceRests
<1>5. AudioTypeOK'
  BY <1>1, <1>2 DEF Typed, AudioTypeOK, StoreMute
<1>6. AudioOk'
  BY <1>1, <1>2 DEF AudioOk, Initialising
<1>7. AtMostOneLatePacket'
  BY <1>1, LateOk DEF Typed, StoreMute
<1>8. BootTyped'
  BY <1>1 DEF Typed, BootTyped
<1>9. BootOk'
  BY <1>1 DEF BootOk, AudioStarted, wifiVars
<1> QED BY <1>3, <1>4, <1>5, <1>6, <1>7, <1>8, <1>9, AllParts

\* The next step of audio_init.
LEMMA AudioInitStepKeeps ==
    ASSUME Inv, AudioInitStep, incidents' \in 0 .. MaxIncidents
    PROVE  Inv'
<1>1. /\ main = "in audio_init" /\ InitStep
      /\ UNCHANGED <<settingsVars, wifiVars, main, wifi, stack, crash, lvgl, label, dialog,
                     overrun>>
      /\ Typed /\ BootOk /\ AudioOk /\ CallersOk /\ AtMostOneLatePacket /\ AudioTypeOK
  BY DeviceTypes DEF Inv, AudioInitStep, Typed, deviceVars
<1>2. UNCHANGED <<s_lock, s_peer, pkt>> /\ s_cfg' = s_cfg /\ lost' = lost
  BY <1>1 DEF InitStep, InitCodec, InitMute, InitTasks, settingsVars
<1>3. WifiTypeOK' /\ CallersOk' /\ ApplyOk' /\ StationOk' /\ TruthOk'
  BY <1>1, <1>2, WifiRests DEF CallersOk, settingsVars
<1>4. SettingsTypeOK' /\ ScreenTyped' /\ ChoiceOk'
  BY <1>1, ChoiceRests
<1>5. AudioTypeOK' /\ AudioOk' /\ AtMostOneLatePacket'
  <2>1. CASE InitCodec
    <3>1. /\ UNCHANGED <<s_muted, late>>
          /\ init.pc = "codec"
          /\ \/ /\ codec' = TRUE /\ hw' = [hw EXCEPT !.level = init.level]
                /\ init' = [init EXCEPT !.pc = "mute"]
             \/ UNCHANGED <<codec, hw>> /\ init' = [NoInit EXCEPT !.pc = "failed"]
      BY <2>1 DEF InitCodec
    <3>2. AudioTypeOK'
      <4>1. hw' \in [muted : BOOLEAN, level : Nat]
        BY <1>1, <3>1 DEF AudioTypeOK
      <4>2. init' \in [pc : {"idle", "codec", "mute", "hw mute", "up", "failed"},
                      muted : BOOLEAN, level : Nat]
        <5>1. CASE init' = [init EXCEPT !.pc = "mute"]
          BY <1>1, <5>1 DEF AudioTypeOK
        <5>2. CASE init' = [NoInit EXCEPT !.pc = "failed"]
          BY <5>2 DEF NoInit
        <5> QED BY <3>1, <5>1, <5>2
      <4>3. codec' \in BOOLEAN
        BY <1>1, <3>1 DEF AudioTypeOK
      <4> QED BY <1>1, <1>2, <3>1, <4>1, <4>2, <4>3 DEF AudioTypeOK
    <3>3. AudioOk'
      <4>1. CASE /\ codec' = TRUE /\ hw' = [hw EXCEPT !.level = init.level]
                 /\ init' = [init EXCEPT !.pc = "mute"]
        <5>1. /\ hw'.level = init.level /\ init'.pc = "mute"
              /\ init'.muted = init.muted /\ init'.level = init.level
          BY <1>1, <4>1 DEF AudioTypeOK
        <5> QED BY <1>1, <1>2, <3>1, <4>1, <5>1 DEF AudioOk, Initialising
      <4>2. CASE init' = [NoInit EXCEPT !.pc = "failed"]
        <5>1. init'.pc = "failed"
          BY <4>2 DEF NoInit
        <5> QED BY <5>1 DEF AudioOk, Initialising
      <4> QED BY <3>1, <4>1, <4>2
    <3>4. AtMostOneLatePacket'
      BY <1>1, <1>2, <3>1, LateOk
    <3> QED BY <3>2, <3>3, <3>4
  <2>2. CASE InitMute
    <3>1. /\ init.pc = "mute" /\ UNCHANGED <<codec, hw>>
          /\ s_muted' = init.muted
          /\ late' = IF s_muted = init.muted THEN late ELSE 0
          /\ init' = [init EXCEPT !.pc = "hw mute"]
      BY <2>2 DEF InitMute, StoreMute
    <3>2. init'.pc = "hw mute" /\ init'.muted = init.muted /\ init'.level = init.level
      BY <1>1, <3>1 DEF AudioTypeOK
    <3>3. AudioTypeOK'
      BY <1>1, <1>2, <3>1 DEF AudioTypeOK
    <3>4. AudioOk'
      BY <1>1, <1>2, <3>1, <3>2 DEF AudioOk, Initialising
    <3>5. AtMostOneLatePacket'
      BY <1>1, <1>2, <3>1, LateOk
    <3> QED BY <3>3, <3>4, <3>5
  <2>3. CASE InitTasks
    <3>1. /\ init.pc = "hw mute" /\ UNCHANGED <<codec, s_muted, late>>
          /\ hw' = IF codec THEN [hw EXCEPT !.muted = init.muted] ELSE hw
          /\ init' = [NoInit EXCEPT !.pc = "up"]
      BY <2>3 DEF InitTasks, HwMute
    <3>2. /\ init'.pc = "up"
          /\ hw'.level = hw.level /\ (codec => hw'.muted = init.muted)
      BY <1>1, <3>1 DEF AudioTypeOK, NoInit
    <3>3. AudioTypeOK'
      BY <1>1, <1>2, <3>1 DEF AudioTypeOK, NoInit
    <3>4. AudioOk'
      BY <1>1, <1>2, <3>1, <3>2 DEF AudioOk, Initialising
    <3>5. AtMostOneLatePacket'
      BY <1>1, <1>2, <3>1, LateOk
    <3> QED BY <3>3, <3>4, <3>5
  <2> QED BY <1>1, <2>1, <2>2, <2>3 DEF InitStep
<1>6. BootTyped'
  BY <1>1 DEF Typed, BootTyped
<1>7. BootOk'
  BY <1>1, <1>2 DEF BootOk, AudioStarted, wifiVars
<1> QED BY <1>3, <1>4, <1>5, <1>6, <1>7, AllParts

\* The boot task enters wifi_apply, or skips it.
LEMMA CallWifiApplyKeeps ==
    ASSUME Inv, CallWifiApply, incidents' \in 0 .. MaxIncidents, Running
    PROVE  Inv'
<1>1. /\ main = "in audio_init"
      /\ UNCHANGED <<settingsVars, drv, events, managerVars, evt, audioVars, wifi, stack,
                     crash, lvgl, label, dialog, overrun>>
      /\ \/ Apply("main") /\ main' = "in wifi_apply"
         \/ UNCHANGED <<apply, ghosts>> /\ GotoMain("run")
      /\ Typed /\ BootOk /\ CallersOk /\ ~Applying("main") /\ crash = "none"
  BY DeviceTypes DEF Inv, CallWifiApply, GotoMain, Running, CallersOk
<1>2. CASE UNCHANGED <<apply, ghosts>> /\ GotoMain("run")
  <2>1. BootTyped'
    BY <1>1, <1>2 DEF Typed, BootTyped, GotoMain
  <2>2. BootOk'
    BY <1>1, <1>2 DEF BootOk, AudioStarted, GotoMain, audioVars
  <2>3. UNCHANGED wifiVars
    BY <1>1, <1>2 DEF wifiVars, managerVars
  <2> QED BY <1>1, <1>2, <2>1, <2>2, <2>3, MainKeeps
<1>3. CASE Apply("main") /\ main' = "in wifi_apply"
  <2>1. "main" \in Appliers
    BY DEF Appliers
  <2>2. /\ WifiTypeOK' /\ ApplyOk' /\ StationOk' /\ TruthOk'
        /\ apply'["main"].pc = "test"
        /\ \A u \in Appliers : u # "main" => apply'[u] = apply[u]
    BY <1>1, <1>3, <2>1, ApplyEntered DEF settingsVars
  <2>3. CallersOk'
    BY <1>1, <1>3, <2>2 DEF CallersOk, Applying, Appliers, managerVars
  <2>4. SettingsTypeOK' /\ ScreenTyped' /\ ChoiceOk'
    BY <1>1, ChoiceRests
  <2>5. AudioTypeOK' /\ AudioOk' /\ AtMostOneLatePacket'
    BY <1>1, AudioRests DEF settingsVars
  <2>6. BootTyped'
    BY <1>1, <1>3 DEF Typed, BootTyped
  <2>7. BootOk'
    BY <1>1, <1>3 DEF BootOk, AudioStarted, audioVars
  <2> QED BY <2>2, <2>3, <2>4, <2>5, <2>6, <2>7, AllParts
<1> QED BY <1>1, <1>2, <1>3

LEMMA BootKeeps ==
    ASSUME Inv, Boot, incidents' \in 0 .. MaxIncidents, Running
    PROVE  Inv'
BY UiInitKeeps, LoadSettingsKeeps, MovesKeep, WifiStackKeeps, CallAudioInitKeeps,
   AudioInitStepKeeps, CallWifiApplyKeeps DEF Boot

(***************************************************************************)
(* The LVGL task.                                                          *)
(***************************************************************************)
\* A callback of the LVGL task leaves the boot where it is.
LEMMA ScreenBoot ==
    ASSUME Inv, UNCHANGED <<s_loaded, main, wifi, stack, crash, drv, s_lock, init>>
    PROVE  BootTyped' /\ BootOk'
<1>1. BootTyped'
  BY DeviceTypes DEF Inv, Typed, BootTyped
<1>2. BootOk'
  BY DEF Inv, BootOk, AudioStarted
<1> QED BY <1>1, <1>2

\* What a callback sets is in RAM and, unless it is lost, in NVS.
LEMMA SetOk ==
    ASSUME Inv, NEW cfg \in Config, NEW chosen \in Config, Set(cfg, chosen)
    PROVE  /\ SettingsTypeOK'
           /\ s_cfg' = cfg /\ s_loaded' = s_loaded
           /\ lost => lost'
           /\ ~lost' => /\ ~lost /\ s_loaded /\ s_cfg = choice
                        /\ stored' = cfg /\ choice' = chosen
<1>1. /\ s_cfg' = cfg /\ s_loaded' = s_loaded /\ nvsOk' = nvsOk
      /\ stored' = (IF nvsOk THEN cfg ELSE stored)
      /\ lost' = (lost \/ ~nvsOk \/ ~s_loaded)
      /\ choice' = IF lost' THEN Defaults ELSE chosen
      /\ Typed /\ ChoiceOk
  BY DeviceTypes DEF Inv, Set, Persist
<1>2. SettingsTypeOK'
  <2>1. Defaults \in Config
    BY SettingsAssumption DEF Config, Defaults
  <2>2. lost' \in BOOLEAN
    BY <1>1
  <2> QED BY <1>1, <2>1, <2>2 DEF Typed, SettingsTypeOK
<1>3. ~lost' => ~lost /\ s_loaded /\ s_cfg = choice /\ stored' = cfg /\ choice' = chosen
  BY <1>1 DEF ChoiceOk
<1> QED BY <1>1, <1>2, <1>3

\* A tap on the microphone goes to the settings first.
LEMMA MicEventKeeps ==
    ASSUME Inv, MicEvent, incidents' \in 0 .. MaxIncidents
    PROVE  Inv'
<1> DEFINE muted == ~s_cfg.mic_muted
           cfg == [s_cfg EXCEPT !.mic_muted = muted]
           chosen == [choice EXCEPT !.mic_muted = muted]
<1>1. /\ lvgl.pc = "idle" /\ ~dialog.open /\ Set(cfg, chosen)
      /\ lvgl' = [pc |-> "mute", arg |-> muted]
      /\ UNCHANGED <<wifiVars, audioVars, label, dialog, main, wifi, stack, crash>>
      /\ overrun' = (overrun \/ Initialising)
      /\ Typed /\ ChoiceOk /\ AudioOk /\ CallersOk /\ BootOk /\ AtMostOneLatePacket
  BY DeviceTypes DEF Inv, MicEvent, Touch, GotoLvgl, MarkOverrun
<1>2. /\ s_cfg \in Config /\ choice \in Config /\ cfg \in Config /\ chosen \in Config
      /\ muted \in BOOLEAN /\ cfg.mic_muted = muted /\ cfg.level = s_cfg.level
      /\ cfg.wifi_mode = s_cfg.wifi_mode
      /\ s_cfg = choice => cfg = chosen
  BY <1>1 DEF Typed, SettingsTypeOK, Config
<1>3. lvgl'.pc = "mute" /\ lvgl'.arg = muted
  BY <1>1
<1> HIDE DEF muted, cfg, chosen
<1>4. /\ SettingsTypeOK'
      /\ s_cfg' = cfg /\ s_loaded' = s_loaded
      /\ lost => lost'
      /\ ~lost' => /\ ~lost /\ s_loaded /\ s_cfg = choice
                   /\ stored' = cfg /\ choice' = chosen
  BY <1>1, <1>2, SetOk
<1>5. WifiTypeOK' /\ CallersOk' /\ ApplyOk' /\ StationOk' /\ TruthOk'
  BY <1>1, <1>2, <1>4, WifiRests DEF CallersOk
<1>6. ScreenTyped'
  BY <1>1, <1>2 DEF Typed, ScreenTyped
<1>7. ChoiceOk'
  BY <1>1, <1>2, <1>3, <1>4 DEF ChoiceOk
<1>8. AudioTypeOK' /\ AtMostOneLatePacket'
  BY <1>1 DEF Typed, AudioTypeOK, AtMostOneLatePacket, Forbidden, audioVars
<1>9. AudioOk'
  BY <1>1, <1>2, <1>3, <1>4 DEF AudioOk, Initialising, audioVars
<1>10. BootTyped' /\ BootOk'
  BY <1>1, <1>4, ScreenBoot DEF wifiVars, audioVars
<1> QED BY <1>4, <1>5, <1>6, <1>7, <1>8, <1>9, <1>10, AllParts

\* Then to mic_task, or an assertion fails.
LEMMA MicMuteKeeps ==
    ASSUME Inv, MicMute, incidents' \in 0 .. MaxIncidents
    PROVE  Inv'
<1>1. CASE ~s_lock
  BY <1>1, AssertKeeps DEF MicMute
<1>2. CASE s_lock
  <2>1. /\ lvgl.pc = "mute" /\ s_muted' = lvgl.arg
        /\ late' = (IF s_muted = lvgl.arg THEN late ELSE 0)
        /\ lvgl' = [pc |-> "hw mute", arg |-> lvgl.arg]
        /\ UNCHANGED <<settingsVars, wifiVars, s_lock, codec, s_peer, hw, init, pkt, label,
                       dialog, main, wifi, stack, crash>>
        /\ overrun' = (overrun \/ Initialising)
        /\ Typed /\ ChoiceOk /\ AudioOk /\ CallersOk /\ BootOk /\ AtMostOneLatePacket
    BY <1>2, DeviceTypes DEF Inv, MicMute, StoreMute, GotoLvgl, MarkOverrun
  <2>2. /\ lvgl'.pc = "hw mute" /\ lvgl'.arg = lvgl.arg /\ lvgl.arg \in BOOLEAN
        /\ UNCHANGED <<s_cfg, s_loaded, stored, nvsOk, choice, lost>>
    BY <2>1 DEF Typed, ScreenTyped, settingsVars
  <2>3. SettingsTypeOK'
    BY <2>1, <2>2 DEF Typed, SettingsTypeOK
  <2>4. WifiTypeOK' /\ CallersOk' /\ ApplyOk' /\ StationOk' /\ TruthOk'
    BY <2>1, <2>2, WifiRests DEF CallersOk
  <2>5. ScreenTyped'
    BY <2>1, <2>2 DEF Typed, ScreenTyped
  <2>6. ChoiceOk'
    BY <2>1, <2>2 DEF ChoiceOk
  <2>7. AudioTypeOK'
    BY <2>1, <2>2 DEF Typed, AudioTypeOK
  <2>8. AtMostOneLatePacket'
    BY <2>1, LateOk DEF Typed
  <2>9. AudioOk'
    BY <2>1, <2>2 DEF AudioOk, ChoiceOk, Initialising
  <2>10. BootTyped' /\ BootOk'
    BY <2>1, ScreenBoot DEF settingsVars, wifiVars
  <2> QED BY <2>3, <2>4, <2>5, <2>6, <2>7, <2>8, <2>9, <2>10, AllParts
<1> QED BY <1>1, <1>2

\* Then to the codec and to the button.
LEMMA MicDoneKeeps ==
    ASSUME Inv, MicDone, incidents' \in 0 .. MaxIncidents
    PROVE  Inv'
<1>1. /\ lvgl.pc = "hw mute"
      /\ hw' = (IF codec THEN [hw EXCEPT !.muted = lvgl.arg] ELSE hw)
      /\ label' = (IF lvgl.arg THEN "muted" ELSE "live")
      /\ lvgl' = [pc |-> "idle", arg |-> FALSE]
      /\ UNCHANGED <<settingsVars, wifiVars, s_lock, codec, s_muted, s_peer, init, pkt, late,
                     dialog, main, wifi, stack, crash>>
      /\ overrun' = (overrun \/ Initialising)
      /\ Typed /\ ChoiceOk /\ AudioOk /\ CallersOk /\ BootOk /\ AtMostOneLatePacket
  BY DeviceTypes DEF Inv, MicDone, HwMute, GotoLvgl, MarkOverrun
<1>2. /\ lvgl'.pc = "idle" /\ lvgl.arg \in BOOLEAN
      /\ UNCHANGED <<s_cfg, s_loaded, stored, nvsOk, choice, lost>>
      /\ hw \in [muted : BOOLEAN, level : Nat]
  BY <1>1 DEF Typed, ScreenTyped, settingsVars, AudioTypeOK
<1>3. hw' \in [muted : BOOLEAN, level : Nat] /\ hw'.level = hw.level
      /\ (codec => hw'.muted = lvgl.arg)
  BY <1>1, <1>2
<1>4. SettingsTypeOK'
  BY <1>1, <1>2 DEF Typed, SettingsTypeOK
<1>5. WifiTypeOK' /\ CallersOk' /\ ApplyOk' /\ StationOk' /\ TruthOk'
  BY <1>1, <1>2, WifiRests DEF CallersOk
<1>6. ScreenTyped'
  BY <1>1, <1>2 DEF Typed, ScreenTyped
<1>7. ChoiceOk'
  <2>1. (label' = "muted") = lvgl.arg
    BY <1>1, <1>2
  <2> QED BY <1>1, <1>2, <2>1 DEF ChoiceOk
<1>8. AudioTypeOK'
  BY <1>1, <1>3 DEF Typed, AudioTypeOK
<1>9. AtMostOneLatePacket'
  BY <1>1, LateOk DEF Typed
<1>10. AudioOk'
  BY <1>1, <1>2, <1>3 DEF AudioOk, ChoiceOk, Initialising
<1>11. BootTyped' /\ BootOk'
  BY <1>1, ScreenBoot DEF settingsVars, wifiVars
<1> QED BY <1>4, <1>5, <1>6, <1>7, <1>8, <1>9, <1>10, <1>11, AllParts

\* The settings screen opens and shows the settings, or closes.
LEMMA DialogKeeps ==
    ASSUME Inv, GearEvent \/ BackEvent, incidents' \in 0 .. MaxIncidents
    PROVE  Inv'
<1>1. /\ UNCHANGED <<s_cfg, s_loaded, stored, nvsOk, wifiVars, audioVars, main, wifi, stack,
                     crash, lvgl, label, overrun>>
      /\ Typed /\ ChoiceOk /\ CallersOk
  BY DeviceTypes DEF Inv, GearEvent, BackEvent, settingsVars
<1>2. /\ dialog' \in [open : BOOLEAN, level : 0 .. MaxLevel]
      /\ dialog'.open => dialog'.level = s_cfg.level
      /\ \/ lost' = lost /\ choice' = choice /\ (dialog'.open => s_loaded)
         \/ lost' = TRUE /\ choice' = Defaults
  <2>1. CASE GearEvent
    <3>1. /\ dialog' = [open |-> TRUE, level |-> s_cfg.level]
          /\ lost' = (lost \/ ~s_loaded)
          /\ choice' = IF lost' THEN Defaults ELSE choice
      BY <2>1 DEF GearEvent, Shown
    <3>2. s_cfg.level \in 0 .. MaxLevel
      BY <1>1 DEF Typed, SettingsTypeOK, Config
    <3>3. CASE lost'
      BY <3>1, <3>2, <3>3
    <3>4. CASE ~lost'
      <4>1. lost \in BOOLEAN
        BY <1>1 DEF Typed, SettingsTypeOK
      <4> QED BY <3>1, <3>2, <3>4, <4>1
    <3> QED BY <3>3, <3>4
  <2>2. CASE BackEvent
    BY <2>2, SettingsAssumption DEF BackEvent, Closed, settingsVars
  <2> QED BY <2>1, <2>2
<1>3. SettingsTypeOK'
  <2>1. Defaults \in Config
    BY SettingsAssumption DEF Config, Defaults
  <2>2. choice' \in Config /\ lost' \in BOOLEAN
    BY <1>1, <1>2, <2>1 DEF Typed, SettingsTypeOK
  <2> QED BY <1>1, <2>2 DEF Typed, SettingsTypeOK
<1>4. WifiTypeOK' /\ CallersOk' /\ ApplyOk' /\ StationOk' /\ TruthOk'
  BY <1>1, WifiRests DEF CallersOk, settingsVars
<1>5. ScreenTyped'
  BY <1>1, <1>2 DEF Typed, ScreenTyped
<1>6. ChoiceOk'
  <2>1. CASE lost' = lost /\ choice' = choice /\ (dialog'.open => s_loaded)
    BY <1>1, <1>2, <2>1 DEF ChoiceOk
  <2>2. CASE lost' = TRUE
    BY <2>2 DEF ChoiceOk
  <2> QED BY <1>2, <2>1, <2>2
<1>7. AudioTypeOK' /\ AudioOk' /\ AtMostOneLatePacket'
  BY <1>1, <1>2, AudioRests
<1>8. BootTyped' /\ BootOk'
  BY <1>1, ScreenBoot DEF settingsVars, wifiVars, audioVars
<1> QED BY <1>3, <1>4, <1>5, <1>6, <1>7, <1>8, AllParts

\* A callback that changes the level, in the settings and in the codec alike.
LEMMA LevelOk ==
    ASSUME Inv, NEW cfg \in Config, NEW chosen \in Config, Set(cfg, chosen),
           HwLevel(cfg.level), cfg.mic_muted = s_cfg.mic_muted,
           ~lost /\ s_loaded /\ s_cfg = choice => cfg = chosen,
           lvgl.pc = "idle", lvgl'.pc \in {"idle", "apply"},
           dialog'.open => dialog.open /\ dialog'.level = cfg.level,
           overrun' = (overrun \/ Initialising),
           UNCHANGED <<s_lock, codec, s_muted, s_peer, init, pkt, late, label>>
    PROVE  /\ SettingsTypeOK' /\ ChoiceOk'
           /\ AudioTypeOK' /\ AudioOk' /\ AtMostOneLatePacket'
<1>1. Typed /\ ChoiceOk /\ AudioOk /\ AtMostOneLatePacket
  BY DeviceTypes DEF Inv
<1>2. /\ SettingsTypeOK'
      /\ s_cfg' = cfg /\ s_loaded' = s_loaded
      /\ lost => lost'
      /\ ~lost' => /\ ~lost /\ s_loaded /\ s_cfg = choice
                   /\ stored' = cfg /\ choice' = chosen
  BY SetOk
<1>3. cfg.level \in Nat
  <2>1. 0 .. MaxLevel \subseteq Nat
    BY SettingsAssumption
  <2> QED BY <2>1 DEF Config
<1>4. /\ hw' \in [muted : BOOLEAN, level : Nat] /\ hw'.muted = hw.muted
      /\ codec => hw'.level = cfg.level
  BY <1>1, <1>3 DEF HwLevel, Typed, AudioTypeOK
<1>5. ChoiceOk'
  BY <1>1, <1>2 DEF ChoiceOk
<1>6. AudioTypeOK'
  BY <1>1, <1>4 DEF Typed, AudioTypeOK
<1>7. AudioOk'
  BY <1>1, <1>2, <1>4 DEF AudioOk, Initialising
<1>8. AtMostOneLatePacket'
  BY <1>1, LateOk DEF Typed
<1> QED BY <1>2, <1>5, <1>6, <1>7, <1>8

LEMMA SliderMovedKeeps ==
    ASSUME Inv, SliderMoved, incidents' \in 0 .. MaxIncidents
    PROVE  Inv'
<1>1. PICK level \in 0 .. MaxLevel :
          /\ Set([s_cfg EXCEPT !.level = level], [choice EXCEPT !.level = level])
          /\ HwLevel(level)
          /\ dialog' = [dialog EXCEPT !.level = level]
  BY DEF SliderMoved
<1>2. /\ lvgl.pc = "idle" /\ dialog.open
      /\ lvgl' = [pc |-> "idle", arg |-> FALSE]
      /\ overrun' = (overrun \/ Initialising)
      /\ UNCHANGED <<wifiVars, s_lock, codec, s_muted, s_peer, init, pkt, late, label,
                     main, wifi, stack, crash>>
      /\ Typed /\ CallersOk
  BY DeviceTypes DEF Inv, SliderMoved, Touch, GotoLvgl, MarkOverrun
<1> DEFINE cfg == [s_cfg EXCEPT !.level = level]
           chosen == [choice EXCEPT !.level = level]
<1>3. /\ cfg \in Config /\ chosen \in Config
      /\ cfg.level = level /\ cfg.mic_muted = s_cfg.mic_muted
      /\ cfg.wifi_mode = s_cfg.wifi_mode
      /\ s_cfg = choice => cfg = chosen
  BY <1>2 DEF Typed, SettingsTypeOK, Config
<1>4. /\ dialog' \in [open : BOOLEAN, level : 0 .. MaxLevel]
      /\ dialog'.open = dialog.open /\ dialog'.level = level
  BY <1>1, <1>2 DEF Typed, ScreenTyped
<1>5. Set(cfg, chosen)
  BY <1>1
<1> HIDE DEF cfg, chosen
<1>6. PICK c \in Config, d \in Config :
          /\ Set(c, d) /\ c.level = level /\ c.mic_muted = s_cfg.mic_muted
          /\ c.wifi_mode = s_cfg.wifi_mode
          /\ s_cfg = choice => c = d
  BY <1>3, <1>5
<1>7. lvgl'.pc = "idle"
  BY <1>2
<1>8. SettingsTypeOK' /\ ChoiceOk' /\ AudioTypeOK' /\ AudioOk' /\ AtMostOneLatePacket'
  BY <1>1, <1>2, <1>4, <1>6, <1>7, LevelOk
<1>9. s_cfg' = c
  BY <1>6 DEF Set
<1>10. WifiTypeOK' /\ CallersOk' /\ ApplyOk' /\ StationOk' /\ TruthOk'
  BY <1>2, <1>6, <1>9, WifiRests DEF CallersOk, Set
<1>11. overrun' \in BOOLEAN
  BY <1>2
<1>12. ScreenTyped'
  BY <1>2, <1>4, <1>11 DEF Typed, ScreenTyped
<1>13. BootTyped' /\ BootOk'
  BY <1>2, <1>6, ScreenBoot DEF Set, wifiVars
<1> QED BY <1>8, <1>10, <1>12, <1>13, AllParts

\* Save sets what the dialog shows, which is what the user has chosen, and
\* enters wifi_apply.
LEMMA SaveEventKeeps ==
    ASSUME Inv, SaveEvent, incidents' \in 0 .. MaxIncidents
    PROVE  Inv'
<1>1. PICK mode \in {"Join", "Create"} :
          Set([s_cfg EXCEPT !.wifi_mode = mode, !.level = dialog.level],
              [choice EXCEPT !.wifi_mode = mode])
  BY DEF SaveEvent
<1>2. /\ lvgl.pc = "idle" /\ dialog.open /\ dialog' = Closed
      /\ lvgl' = [pc |-> "apply", arg |-> FALSE]
      /\ overrun' = (overrun \/ Initialising)
      /\ HwLevel(dialog.level) /\ Apply("lvgl")
      /\ UNCHANGED <<drv, events, managerVars, evt, s_lock, codec, s_muted, s_peer, init, pkt,
                     late, label, main, wifi, stack, crash>>
      /\ Typed /\ CallersOk /\ ChoiceOk
  BY DeviceTypes DEF Inv, SaveEvent, Touch, GotoLvgl, MarkOverrun
<1> DEFINE cfg == [s_cfg EXCEPT !.wifi_mode = mode, !.level = dialog.level]
           chosen == [choice EXCEPT !.wifi_mode = mode]
<1>3. dialog.level \in 0 .. MaxLevel /\ s_cfg \in Config /\ choice \in Config
  BY <1>2 DEF Typed, ScreenTyped, SettingsTypeOK
<1>4. /\ cfg \in Config /\ chosen \in Config
      /\ cfg.level = dialog.level /\ cfg.mic_muted = s_cfg.mic_muted
  BY <1>3 DEF Config
<1>5. s_cfg = choice /\ dialog.level = s_cfg.level => cfg = chosen
  BY <1>3 DEF Config
<1>6. ~lost => dialog.level = s_cfg.level
  BY <1>2 DEF ChoiceOk
<1>7. Set(cfg, chosen)
  BY <1>1
<1> HIDE DEF cfg, chosen
<1>8. PICK c \in Config, d \in Config :
          /\ Set(c, d) /\ c.level = dialog.level /\ c.mic_muted = s_cfg.mic_muted
          /\ ~lost /\ s_loaded /\ s_cfg = choice => c = d
  BY <1>4, <1>5, <1>6, <1>7
<1>9. lvgl'.pc = "apply" /\ ~dialog'.open
  BY <1>2 DEF Closed
<1>10. SettingsTypeOK' /\ ChoiceOk' /\ AudioTypeOK' /\ AudioOk' /\ AtMostOneLatePacket'
  BY <1>2, <1>8, <1>9, LevelOk
<1>11. "lvgl" \in Appliers /\ ~Applying("lvgl")
  BY <1>2 DEF Appliers, CallersOk
<1>12. /\ WifiTypeOK' /\ ApplyOk' /\ StationOk' /\ TruthOk'
       /\ apply'["lvgl"].pc = "test"
       /\ \A u \in Appliers : u # "lvgl" => apply'[u] = apply[u]
  BY <1>2, <1>8, <1>11, ApplyEntered DEF Set
<1>13. CallersOk'
  BY <1>2, <1>9, <1>12 DEF CallersOk, Applying, Appliers, managerVars
<1>14. ScreenTyped'
  <2>1. overrun' \in BOOLEAN
    BY <1>2
  <2>2. dialog' \in [open : BOOLEAN, level : 0 .. MaxLevel]
    BY <1>2, SettingsAssumption DEF Closed
  <2> QED BY <1>2, <2>1, <2>2 DEF Typed, ScreenTyped
<1>15. BootTyped' /\ BootOk'
  BY <1>2, <1>8, ScreenBoot DEF Set
<1> QED BY <1>10, <1>12, <1>13, <1>14, <1>15, AllParts

LEMMA SaveDoneKeeps ==
    ASSUME Inv, SaveDone, incidents' \in 0 .. MaxIncidents
    PROVE  Inv'
<1>1. /\ lvgl.pc = "apply" /\ ~Applying("lvgl")
      /\ lvgl' = [pc |-> "idle", arg |-> FALSE]
      /\ UNCHANGED <<settingsVars, wifiVars, audioVars, label, dialog, overrun, main, wifi,
                     stack, crash>>
      /\ Typed /\ ChoiceOk /\ CallersOk
  BY DeviceTypes DEF Inv, SaveDone, GotoLvgl
<1>2. lvgl'.pc = "idle" /\ UNCHANGED <<s_cfg, s_loaded, stored, nvsOk, choice, lost>>
  BY <1>1 DEF settingsVars
<1>3. SettingsTypeOK'
  BY <1>1, <1>2 DEF Typed, SettingsTypeOK
<1>4. WifiTypeOK' /\ CallersOk' /\ ApplyOk' /\ StationOk' /\ TruthOk'
  BY <1>1, <1>2, WifiRests DEF CallersOk
<1>5. ScreenTyped'
  BY <1>1 DEF Typed, ScreenTyped
<1>6. ChoiceOk'
  BY <1>1, <1>2 DEF ChoiceOk
<1>7. AudioTypeOK' /\ AudioOk' /\ AtMostOneLatePacket'
  BY <1>1, <1>2, AudioRests
<1>8. BootTyped' /\ BootOk'
  BY <1>1, ScreenBoot DEF settingsVars, wifiVars, audioVars
<1> QED BY <1>3, <1>4, <1>5, <1>6, <1>7, <1>8, AllParts

(***************************************************************************)
(* The other tasks.                                                        *)
(***************************************************************************)
\* NVS stops taking writes; what it holds is still what was chosen.
LEMMA NvsFullKeeps ==
    ASSUME Inv, NvsFull, incidents' \in 0 .. MaxIncidents
    PROVE  Inv'
<1>1. /\ nvsOk' = FALSE
      /\ UNCHANGED <<s_cfg, s_loaded, stored, choice, lost, wifiVars, audioVars,
                     main, wifi, stack, crash, lvgl, label, dialog, overrun>>
      /\ Typed /\ ChoiceOk /\ CallersOk
  BY DeviceTypes DEF Inv, NvsFull, deviceVars
<1>2. SettingsTypeOK'
  BY <1>1 DEF Typed, SettingsTypeOK
<1>3. WifiTypeOK' /\ CallersOk' /\ ApplyOk' /\ StationOk' /\ TruthOk'
  BY <1>1, WifiRests DEF CallersOk, settingsVars
<1>4. ScreenTyped' /\ ChoiceOk'
  BY <1>1 DEF Typed, ScreenTyped, ChoiceOk
<1>5. AudioTypeOK' /\ AudioOk' /\ AtMostOneLatePacket'
  BY <1>1, AudioRests
<1>6. BootTyped' /\ BootOk'
  BY <1>1, ScreenBoot DEF settingsVars, wifiVars, audioVars
<1> QED BY <1>2, <1>3, <1>4, <1>5, <1>6, AllParts

\* Tasks that use audio only: browsing finds a peer, mic_task prepares or sends.
LEMMA AudioStep ==
    ASSUME Inv, UNCHANGED <<settingsVars, wifiVars, deviceVars>>,
           UNCHANGED <<s_lock, codec, s_muted, hw, init>>,
           AudioTypeOK', AtMostOneLatePacket', incidents' \in 0 .. MaxIncidents
    PROVE  Inv'
<1>1. /\ UNCHANGED <<main, wifi, stack, crash, lvgl, label, dialog, overrun>>
      /\ s_cfg' = s_cfg /\ lost' = lost
  BY DEF deviceVars, settingsVars
<1>2. WifiTypeOK' /\ CallersOk' /\ ApplyOk' /\ StationOk' /\ TruthOk'
  BY <1>1, WifiRests DEF Inv, CallersOk, settingsVars
<1>3. SettingsTypeOK' /\ ScreenTyped' /\ ChoiceOk'
  BY <1>1, ChoiceRests
<1>4. AudioOk'
  BY <1>1 DEF Inv, AudioOk, Initialising
<1>5. BootTyped' /\ BootOk'
  BY <1>1, ScreenBoot DEF settingsVars, wifiVars
<1> QED BY <1>2, <1>3, <1>4, <1>5, AllParts

LEMMA PeerFoundKeeps ==
    ASSUME Inv, NEW peer \in Peers, PeerFound(peer), incidents' \in 0 .. MaxIncidents
    PROVE  Inv'
<1>1. /\ s_peer' = peer /\ late' = 0
      /\ UNCHANGED <<s_lock, codec, s_muted, hw, init, pkt>>
      /\ UNCHANGED <<settingsVars, wifiVars, deviceVars>>
      /\ Typed /\ AtMostOneLatePacket
  BY DeviceTypes DEF Inv, PeerFound, SetPeer
<1>2. AudioTypeOK'
  BY <1>1 DEF Typed, AudioTypeOK
<1>3. AtMostOneLatePacket'
  BY <1>1, LateOk DEF Typed
<1> QED BY <1>1, <1>2, <1>3, AudioStep

LEMMA MicTaskKeeps ==
    ASSUME Inv, MicTask, incidents' \in 0 .. MaxIncidents
    PROVE  Inv'
<1>1. /\ UNCHANGED <<settingsVars, wifiVars, deviceVars>>
      /\ UNCHANGED <<s_lock, codec, s_muted, s_peer, hw, init>>
      /\ Typed /\ AudioTypeOK /\ AtMostOneLatePacket
  BY DeviceTypes DEF Inv, MicTask, Snapshot, Send, Typed
<1>2. AudioTypeOK' /\ AtMostOneLatePacket'
  <2>1. CASE Snapshot
    <3>1. pkt' = s_peer /\ late' = late /\ ~s_muted /\ ~Forbidden
      BY <2>1 DEF Snapshot, MayGo, Forbidden
    <3>2. ~Forbidden'
      BY <1>1, <3>1 DEF Forbidden
    <3> QED BY <1>1, <3>1, <3>2 DEF AudioTypeOK, AtMostOneLatePacket
  <2>2. CASE Send
    <3>1. pkt' = NoPeer /\ late \in Nat
      BY <1>1, <2>2 DEF Send, AudioTypeOK
    <3>2. late' = 0 \/ late' = 1
      <4>1. CASE Forbidden
        BY <1>1, <2>2, <3>1, <4>1 DEF Send, AtMostOneLatePacket
      <4>2. CASE ~Forbidden
        BY <1>1, <2>2, <3>1, <4>2 DEF Send, AtMostOneLatePacket
      <4> QED BY <4>1, <4>2
    <3>3. late' \in Nat
      BY <3>2
    <3>4. AudioTypeOK'
      BY <1>1, <3>1, <3>3 DEF AudioTypeOK
    <3>5. AtMostOneLatePacket'
      BY <3>1, <3>2 DEF AtMostOneLatePacket, Forbidden
    <3> QED BY <3>4, <3>5
  <2> QED BY <2>1, <2>2 DEF MicTask
<1> QED BY <1>1, <1>2, AudioStep

\* A restart: what NVS holds is what was chosen, and the rest starts anew.
LEMMA RestartKeeps ==
    ASSUME Inv, Restart, incidents' \in 0 .. MaxIncidents
    PROVE  Inv'
<1>1. /\ s_cfg' = Zeros /\ s_loaded' = FALSE
      /\ UNCHANGED <<stored, nvsOk, choice, lost>>
      /\ Typed /\ ChoiceOk
  BY DeviceTypes DEF Inv, Restart, SettingsReset
<1>2. /\ main' = "ui" /\ wifi' = "unknown" /\ stack' = FALSE /\ crash' = "none"
      /\ lvgl' = [pc |-> "idle", arg |-> FALSE] /\ label' = "built"
      /\ dialog' = [open |-> FALSE, level |-> 0] /\ overrun' = FALSE
  BY DEF Restart, DeviceReset, Idle, Closed
<1>3. /\ drv' = DriverOff /\ events' = << >>
      /\ s_started' = FALSE /\ s_connected' = FALSE /\ s_ip' = "none"
      /\ evt' = "idle" /\ apply' = [t \in Appliers |-> NotApplying] /\ overlapped' = FALSE
      /\ stuck' = FALSE /\ strayIp' = FALSE
  BY DEF Restart, WifiReset
<1>4. /\ s_lock' = FALSE /\ codec' = FALSE /\ s_muted' = FALSE /\ s_peer' = NoPeer
      /\ hw' = [muted |-> FALSE, level |-> 0] /\ init' = [pc |-> "idle", muted |-> FALSE, level |-> 0]
      /\ pkt' = NoPeer /\ late' = 0
  BY DEF Restart, AudioReset, NoInit
<1>5. SettingsTypeOK'
  <2>1. Zeros \in Config
    BY SettingsAssumption DEF Zeros, Config
  <2> QED BY <1>1, <2>1 DEF Typed, SettingsTypeOK
<1>6. /\ drv' \in Driver /\ drv'.up = FALSE /\ drv'.running = FALSE
      /\ drv'.sta = "idle" /\ {"main", "lvgl"} \subseteq Appliers
      /\ apply' \in [Appliers -> ApplyStates]
      /\ \A t \in Appliers : apply'[t].pc = "idle"
  BY <1>3 DEF DriverOff, Driver, NotApplying, ApplyStates, Appliers
<1>7. WifiTypeOK'
  <2>1. events' \in Seq(EventNames)
    BY <1>3, EmptySeq
  <2> QED BY <1>3, <1>6, <2>1, WifiTypes DEF WifiTyped
<1>8. AudioTypeOK'
  BY <1>4 DEF AudioTypeOK
<1>9. BootTyped'
  BY <1>2 DEF BootTyped
<1>10. ScreenTyped'
  <2>1. 0 \in 0 .. MaxLevel
    BY SettingsAssumption
  <2> QED BY <1>2, <2>1 DEF ScreenTyped
<1>11. BootOk'
  BY <1>1, <1>2, <1>4, <1>6 DEF BootOk, AudioStarted
<1>12. ChoiceOk'
  BY <1>1, <1>2 DEF ChoiceOk
<1>13. AudioOk' /\ AtMostOneLatePacket'
  BY <1>4 DEF AudioOk, Initialising, AtMostOneLatePacket, Forbidden
<1>14. CallersOk' /\ StationOk' /\ TruthOk'
  BY <1>2, <1>3, <1>6 DEF CallersOk, Applying, StationOk, TruthOk
<1>15. ApplyOk'
  BY <1>3, <1>6 DEF ApplyOk, Applying, Settled, StepFinds, At
<1> QED BY <1>5, <1>7, <1>8, <1>9, <1>10, <1>11, <1>12, <1>13, <1>14, <1>15, AllParts

(***************************************************************************)
(* The theorems.                                                           *)
(***************************************************************************)
\* At power-on NVS holds what the user chose, or nothing.
LEMMA InitOk == Init => Inv
<1> SUFFICES ASSUME Init
             PROVE  Inv
  OBVIOUS
<1>1. /\ s_cfg = Zeros /\ s_loaded = FALSE /\ nvsOk = TRUE /\ lost = FALSE
      /\ \/ stored = NoBlob /\ choice = Defaults
         \/ stored = Joined /\ choice = Joined
  BY DEF Init, SettingsOff
<1>2. /\ main = "ui" /\ wifi = "unknown" /\ stack = FALSE /\ crash = "none"
      /\ lvgl = [pc |-> "idle", arg |-> FALSE] /\ label = "built"
      /\ dialog = [open |-> FALSE, level |-> 0] /\ overrun = FALSE
  BY DEF Init, DeviceOff, Idle, Closed
<1>3. /\ drv = DriverOff /\ events = << >>
      /\ s_started = FALSE /\ s_connected = FALSE /\ s_ip = "none"
      /\ evt = "idle" /\ apply = [t \in Appliers |-> NotApplying] /\ overlapped = FALSE
      /\ stuck = FALSE /\ strayIp = FALSE
  BY DEF Init, WifiOff
<1>4. /\ s_lock = FALSE /\ codec = FALSE /\ s_muted = FALSE /\ s_peer = NoPeer
      /\ hw = [muted |-> FALSE, level |-> 0] /\ init = [pc |-> "idle", muted |-> FALSE, level |-> 0]
      /\ pkt = NoPeer /\ late = 0
  BY DEF Init, AudioOff, NoInit
<1>5. SettingsTypeOK
  <2>1. Zeros \in Config /\ Defaults \in Config /\ Joined \in Config
    BY SettingsAssumption DEF Zeros, Defaults, Joined, Config
  <2> QED BY <1>1, <2>1 DEF SettingsTypeOK
<1>6. /\ drv \in Driver /\ drv.up = FALSE /\ drv.running = FALSE
      /\ drv.sta = "idle" /\ {"main", "lvgl"} \subseteq Appliers
      /\ apply \in [Appliers -> ApplyStates]
      /\ \A t \in Appliers : apply[t].pc = "idle"
  BY <1>3 DEF DriverOff, Driver, NotApplying, ApplyStates, Appliers
<1>7. WifiTypeOK
  <2>1. events \in Seq(EventNames)
    BY <1>3, EmptySeq
  <2> QED BY <1>3, <1>6, <2>1, WifiTypes DEF WifiTyped
<1>8. AudioTypeOK
  BY <1>4 DEF AudioTypeOK
<1>9. BootTyped
  BY <1>2 DEF BootTyped
<1>10. ScreenTyped
  <2>1. 0 \in 0 .. MaxLevel
    BY SettingsAssumption
  <2> QED BY <1>2, <2>1 DEF ScreenTyped
<1>11. incidents \in 0 .. MaxIncidents
  BY DeviceAssumption DEF Init
<1>12. BootOk
  BY <1>1, <1>2, <1>4, <1>6 DEF BootOk, AudioStarted
<1>13. ChoiceOk
  BY <1>1, <1>2 DEF ChoiceOk
<1>14. AudioOk /\ AtMostOneLatePacket
  BY <1>4 DEF AudioOk, Initialising, AtMostOneLatePacket, Forbidden
<1>15. CallersOk /\ StationOk /\ TruthOk
  BY <1>2, <1>3, <1>6 DEF CallersOk, Applying, StationOk, TruthOk
<1>16. ApplyOk
  BY <1>3, <1>6 DEF ApplyOk, Applying, Settled, StepFinds, At
<1>17. TypeOK
  BY <1>5, <1>7, <1>8, <1>9, <1>10, <1>11, DeviceTypes DEF Typed
<1> QED BY <1>12, <1>13, <1>14, <1>15, <1>16, <1>17 DEF Inv

\* Every step keeps the invariant.
LEMMA StepOk == Inv /\ [Next]_vars => Inv'
<1> SUFFICES ASSUME Inv, [Next]_vars
             PROVE  Inv'
  OBVIOUS
<1>1. incidents \in 0 .. MaxIncidents
  BY DEF Inv, TypeOK
<1>2. ASSUME Running, Tasks \/ GearEvent \/ BackEvent, UNCHANGED incidents
      PROVE  Inv'
  <2>1. incidents' \in 0 .. MaxIncidents
    BY <1>1, <1>2
  <2>2. CASE Boot
    BY <1>2, <2>1, <2>2, BootKeeps
  <2>3. CASE MicMute \/ MicDone \/ SaveDone
    BY <2>1, <2>3, MicMuteKeeps, MicDoneKeeps, SaveDoneKeeps
  <2>4. CASE \E t \in Appliers : ApplySteps(t)
    BY <2>1, <2>4, ApplyStepKeeps
  <2>5. CASE EventTask
    BY <2>1, <2>5, OnEventKeeps, NotifyRetryKeeps DEF EventTask
  <2>6. CASE StatusShown
    BY <2>1, <2>6, NotifyRetryKeeps DEF StatusShown
  <2>7. CASE DriverTask
    BY <2>1, <2>7, StationKeeps DEF DriverTask
  <2>8. CASE \E peer \in Peers : PeerFound(peer)
    BY <2>1, <2>8, PeerFoundKeeps
  <2>9. CASE MicTask
    BY <2>1, <2>9, MicTaskKeeps
  <2>10. CASE GearEvent \/ BackEvent
    BY <2>1, <2>10, DialogKeeps
  <2> QED BY <1>2, <2>2, <2>3, <2>4, <2>5, <2>6, <2>7, <2>8, <2>9, <2>10 DEF Tasks
<1>3. ASSUME Incident
      PROVE  incidents' \in 0 .. MaxIncidents
  BY <1>1, <1>3, DeviceAssumption DEF Incident
<1>4. ASSUME Running, Incident,
             \/ Callback \/ GearEvent
             \/ LinkDrops \/ NvsFails \/ \E peer \in Peers : PeerFound(peer)
      PROVE  Inv'
  <2>1. incidents' \in 0 .. MaxIncidents
    BY <1>3, <1>4
  <2>2. CASE Callback
    BY <2>1, <2>2, MicEventKeeps, SliderMovedKeeps, SaveEventKeeps DEF Callback
  <2>3. CASE LinkDrops
    BY <2>1, <2>3, StationKeeps DEF LinkDrops
  <2>4. CASE NvsFails
    BY <1>4, <2>1, <2>4, NvsFullKeeps, LoadSettingsKeeps DEF NvsFails
  <2>5. CASE \E peer \in Peers : PeerFound(peer)
    BY <2>1, <2>5, PeerFoundKeeps
  <2>6. CASE GearEvent
    BY <2>1, <2>6, DialogKeeps
  <2> QED BY <1>4, <2>2, <2>3, <2>4, <2>5, <2>6
<1>5. CASE Restart /\ Incident
  BY <1>3, <1>5, RestartKeeps
<1>6. CASE UNCHANGED vars
  <2>1. UNCHANGED <<settingsVars, wifiVars, audioVars, deviceVars>> /\ incidents' = incidents
    BY <1>6 DEF vars
  <2>2. AudioTypeOK' /\ AtMostOneLatePacket'
    BY <2>1 DEF Inv, TypeOK, AudioTypeOK, AtMostOneLatePacket, Forbidden, audioVars
  <2>3. UNCHANGED <<s_lock, codec, s_muted, hw, init>>
    BY <2>1 DEF audioVars
  <2> QED BY <1>1, <2>1, <2>2, <2>3, AudioStep
<1> QED BY <1>2, <1>4, <1>5, <1>6 DEF Next

\* The user's choices, the codec, the boot and the event queue stay in step,
\* whatever tasks, restarts and lost connections do.
THEOREM Invariance == Spec => []Inv
<1> QED BY InitOk, StepOk, PTL DEF Spec

\* Every variable of the four modules keeps its type.
THEOREM TypeCorrect == Spec => []TypeOK
<1>1. Inv => TypeOK
  BY DEF Inv
<1> QED BY <1>1, Invariance, PTL

\* A device stops at an assertion for one of two reasons: sockets without a
\* TCP/IP stack because wifi_init failed before it, or a tap on the microphone
\* before audio_init.
THEOREM KnownCrashes == Spec => []CrashesKnown
<1>1. Inv => CrashesKnown
  BY DEF Inv, BootOk, AudioStarted, CrashesKnown
<1> QED BY <1>1, Invariance, PTL

\* Between callbacks codec, mic_task, button and settings are what the user last
\* chose, over any number of restarts.
THEOREM Choices == Spec => []ChoicesRespected
<1>1. Inv => ChoicesRespected
  <2> SUFFICES ASSUME Inv, s_loaded, lvgl.pc = "idle", ~lost
               PROVE  /\ s_cfg = choice
                      /\ label # "built" /\ ~overrun => (label = "muted") = s_cfg.mic_muted
                      /\ AudioUp /\ ~overrun =>
                             /\ s_muted = s_cfg.mic_muted
                             /\ hw = [muted |-> s_cfg.mic_muted, level |-> s_cfg.level]
    BY DEF ChoicesRespected
  <2>1. s_cfg = choice /\ (label # "built" => (label = "muted") = s_cfg.mic_muted)
    BY DEF Inv, ChoiceOk
  <2>2. ASSUME AudioUp, ~overrun
        PROVE  /\ s_muted = s_cfg.mic_muted
               /\ hw.muted = s_cfg.mic_muted /\ hw.level = s_cfg.level
    BY <2>2 DEF Inv, AudioOk, AudioUp
  <2>3. hw \in [muted : BOOLEAN, level : Nat]
    BY DEF Inv, TypeOK, AudioTypeOK
  <2> QED BY <2>1, <2>2, <2>3
<1> QED BY <1>1, Invariance, PTL

\* After a mute or a change of peer mic_task sends one more packet at most.
THEOREM OneLatePacket == Spec => []AtMostOneLatePacket
<1>1. Inv => AtMostOneLatePacket
  BY DEF Inv
<1> QED BY <1>1, Invariance, PTL

\* Outside wifi_apply the driver runs in the mode the settings hold if s_started
\* says so, and without s_started only while it is stuck, whichever calls to the
\* driver failed, unless the latest two calls of wifi_apply overlapped.
THEOREM Applied == Spec => []AppliedIsSaved
<1>1. Inv => AppliedIsSaved
  BY DEF Inv, ApplyOk, Settled, AppliedIsSaved
<1> QED BY <1>1, Invariance, PTL

\* With no event left to handle and no attempt under way, s_connected tells
\* whether the link is usable, and s_ip has its address or, in a network of our
\* own, that of a GOT_IP handled too late.
THEOREM Truth == Spec => []ConnectedTruth
<1>1. Inv => ConnectedTruth
  <2> SUFFICES ASSUME Inv, s_started, wifi = "ok", ~stuck,
                      \A t \in Appliers : ~Applying(t),
                      events = << >>, drv.sta \in {"idle", "up"}
               PROVE  /\ s_connected = (drv.mode = "Create" \/ drv.sta = "up")
                      /\ s_connected => s_ip = drv.mode \/ (drv.mode = "Create" /\ strayIp)
    BY DEF ConnectedTruth
  <2>1. drv.running /\ drv.mode \in {"Join", "Create"} /\ s_connected \in BOOLEAN
    <3>1. WifiTyped /\ SettingsTypeOK /\ Settled
      BY WifiTypes DEF Inv, TypeOK, ApplyOk
    <3>2. s_cfg.wifi_mode \in {"Join", "Create"}
      BY <3>1 DEF SettingsTypeOK, Config
    <3> QED BY <3>1, <3>2 DEF WifiTyped, Settled
  <2>2. \A e : ~Queued(e)
    BY EmptySeq DEF Queued
  <2>3. \A b : Coming(b) => b = s_connected
    BY EmptySeq DEF Coming
  <2>4. /\ drv.mode = "Create" \/ drv.sta = "up" => s_connected
        /\ drv.mode = "Join" /\ drv.sta = "idle" => ~s_connected
        /\ drv.sta = "up" => s_ip = "Join"
        /\ drv.mode = "Create" => s_ip = "Create" \/ strayIp
        /\ drv.sta # "idle" => drv.mode = "Join"
    BY <2>1, <2>2, <2>3 DEF Inv, TruthOk, StationOk
  <2> QED BY <2>1, <2>4
<1> QED BY <1>1, Invariance, PTL
============================================================================
