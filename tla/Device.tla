---------------------------------- MODULE Device ----------------------------------
(***************************************************************************)
(* One device from power-on: app_main's order, the LVGL task, whose        *)
(* callbacks run from ui::init on, the event task and mDNS browsing, over  *)
(* the settings, the Wi-Fi manager and audio.  A callback holds the        *)
(* display lock to its end, and set_status waits for it.  An assertion and *)
(* a power cut restart everything but NVS.  The video pipeline and the     *)
(* links, which share no state with these, are VideoPipeline and RtspLink. *)
(* Names follow main.cpp and ui.cpp.                                       *)
(***************************************************************************)
EXTENDS WifiManager, Audio

CONSTANT MaxIncidents   \* bound: touches of the screen, failed or dropped
                        \* connections, and restarts

ASSUME DeviceAssumption == MaxIncidents \in Nat

VARIABLES
    main,            \* where app_main is
    wifi,            \* wifi_init: "unknown", "ok", or what it failed before
    stack,           \* esp_netif_init has run
    crash,           \* the assertion that stopped the device
    lvgl,            \* the LVGL task: its callback's next step, and its argument
    label,           \* the microphone button: "built" until it is first set
    dialog,          \* the settings screen, and the level its sliders show
    overrun,         \* ghost: a callback changed audio while audio_init ran
    incidents        \* bound counter

deviceVars == <<main, wifi, stack, crash, lvgl, label, dialog, overrun>>
vars == <<settingsVars, wifiVars, audioVars, deviceVars, incidents>>

Idle == [pc |-> "idle", arg |-> FALSE]
Closed == [open |-> FALSE, level |-> 0]

DeviceOff ==
    /\ main = "ui" /\ wifi = "unknown" /\ stack = FALSE /\ crash = "none"
    /\ lvgl = Idle /\ label = "built" /\ dialog = Closed /\ overrun = FALSE

DeviceReset ==
    /\ main' = "ui" /\ wifi' = "unknown" /\ stack' = FALSE /\ crash' = "none"
    /\ lvgl' = Idle /\ label' = "built" /\ dialog' = Closed /\ overrun' = FALSE

\* A device in use: a saved network, the microphone muted.
Joined == [wifi_mode |-> "Join", mic_muted |-> TRUE, level |-> 0]

Init ==
    /\ SettingsOff /\ nvsOk = TRUE /\ lost = FALSE
    /\ \/ stored = NoBlob /\ choice = Defaults
       \/ stored = Joined /\ choice = Joined
    /\ WifiOff
    /\ AudioOff /\ DeviceOff
    /\ incidents = 0

Running == crash = "none"

\* A failed assertion: nothing runs until the device restarts.
Assert(what) ==
    /\ crash' = what
    /\ UNCHANGED <<settingsVars, wifiVars, audioVars, main, wifi, stack, lvgl, label,
                   dialog, overrun>>

(***************************************************************************)
(* app_main.                                                               *)
(***************************************************************************)
GotoMain(pc) == main' = pc /\ UNCHANGED <<crash, lvgl, label, dialog, overrun>>

\* init_nvs, which may have to erase NVS, board::init and ui::init.
UiInit ==
    /\ main = "ui"
    /\ \/ UNCHANGED <<stored, nvsOk, lost, choice>>
       \/ /\ ~nvsOk
          /\ stored' = NoBlob /\ nvsOk' = TRUE
          /\ lost' = TRUE /\ choice' = Defaults
    /\ GotoMain("settings")
    /\ UNCHANGED <<s_cfg, s_loaded, wifiVars, audioVars, wifi, stack>>

\* Mutant of AfterSettings: the link is started before the TCP/IP stack.
AfterSettingsLink == "link"

AfterSettings == "wifi"

\* settings::init; the pipeline started after it is VideoPipeline.
LoadSettings(readable) ==
    /\ main = "settings"
    /\ \/ /\ SettingsInit(readable)
          /\ GotoMain(AfterSettings)
          /\ UNCHANGED <<wifiVars, audioVars, wifi, stack>>
       \/ ~nvsOk /\ Assert("nvs")

\* wifi_init up to the coprocessor: power, transport, update.
WifiTransport ==
    /\ main = "wifi"
    /\ \/ GotoMain("stack") /\ UNCHANGED wifi
       \/ GotoMain("link") /\ wifi' = "stack"
    /\ UNCHANGED <<settingsVars, wifiVars, audioVars, stack>>

\* The rest of it: TCP/IP stack, driver, event handlers.
WifiStack ==
    /\ main = "stack"
    /\ stack' = TRUE
    /\ GotoMain("link")
    /\ \/ wifi' = "driver" /\ UNCHANGED drv
       \/ wifi' = "handlers" /\ DriverUp(FALSE)
       \/ wifi' = "ok" /\ DriverUp(TRUE)
    /\ UNCHANGED <<settingsVars, events, managerVars, evt, apply, ghosts, audioVars>>

\* link_start, which opens the server's sockets.
LinkStart ==
    /\ main = "link"
    /\ IF stack
       THEN /\ GotoMain("audio")
            /\ UNCHANGED <<settingsVars, wifiVars, audioVars, wifi, stack>>
       ELSE Assert("socket")

\* The arguments are read from the settings at the call.
CallAudioInit ==
    /\ main = "audio"
    /\ InitLock(s_cfg.mic_muted, s_cfg.level)
    /\ GotoMain("in audio_init")
    /\ UNCHANGED <<settingsVars, wifiVars, wifi, stack>>

AudioInitStep ==
    /\ main = "in audio_init"
    /\ InitStep
    /\ UNCHANGED <<settingsVars, wifiVars, deviceVars>>

\* if (wifi_ok) wifi_apply()
CallWifiApply ==
    /\ main = "in audio_init" /\ ~Initialising
    /\ IF wifi = "ok"
       THEN Apply("main") /\ GotoMain("in wifi_apply")
       ELSE UNCHANGED <<apply, ghosts>> /\ GotoMain("run")
    /\ UNCHANGED <<settingsVars, drv, events, managerVars, evt, audioVars, wifi, stack>>

\* discovery_start: without mDNS there is no browse_task.
DiscoveryStart ==
    /\ main = "in wifi_apply" /\ ~Applying("main")
    /\ GotoMain("browsing") \/ GotoMain("run")
    /\ UNCHANGED <<settingsVars, wifiVars, audioVars, wifi, stack>>

Boot ==
    \/ UiInit \/ LoadSettings(TRUE) \/ WifiTransport \/ WifiStack \/ LinkStart
    \/ CallAudioInit \/ AudioInitStep \/ CallWifiApply \/ DiscoveryStart

(***************************************************************************)
(* The LVGL task.                                                          *)
(***************************************************************************)
GotoLvgl(pc, arg) == lvgl' = [pc |-> pc, arg |-> arg] /\ UNCHANGED <<main, wifi, stack, crash>>

\* A callback starts once the screen is there.
Touch ==
    main # "ui" /\ lvgl.pc = "idle"

\* A callback that sets audio while audio_init is at it.
MarkOverrun == overrun' = (overrun \/ Initialising)

\* mic_event_cb: the settings first.
MicEvent ==
    /\ Touch /\ ~dialog.open
    /\ LET muted == ~s_cfg.mic_muted IN
          /\ Set([s_cfg EXCEPT !.mic_muted = muted], [choice EXCEPT !.mic_muted = muted])
          /\ GotoLvgl("mute", muted)
    /\ MarkOverrun
    /\ UNCHANGED <<wifiVars, audioVars, label, dialog>>

\* audio_set_mic_muted: without s_lock an assertion fails.
MicMute ==
    /\ lvgl.pc = "mute"
    /\ IF s_lock
       THEN /\ StoreMute(lvgl.arg)
            /\ GotoLvgl("hw mute", lvgl.arg)
            /\ MarkOverrun
            /\ UNCHANGED <<settingsVars, wifiVars, s_lock, codec, s_peer, hw, init, pkt, label,
                           dialog>>
       ELSE Assert("microphone")

MicDone ==
    /\ lvgl.pc = "hw mute"
    /\ HwMute(lvgl.arg)
    /\ label' = IF lvgl.arg THEN "muted" ELSE "live"
    /\ GotoLvgl("idle", FALSE)
    /\ MarkOverrun
    /\ UNCHANGED <<settingsVars, wifiVars, s_lock, codec, s_muted, s_peer, init, pkt, late,
                   dialog>>

\* Mutant of Shown: the sliders keep where they were built.
ShownAsBuilt == 0

\* populate_settings
Shown == s_cfg.level

\* gear_event_cb
GearEvent ==
    /\ Touch /\ ~dialog.open
    /\ dialog' = [open |-> TRUE, level |-> Shown]
    /\ lost' = (lost \/ ~s_loaded)
    /\ choice' = IF lost' THEN Defaults ELSE choice
    /\ UNCHANGED <<s_cfg, s_loaded, stored, nvsOk, wifiVars, audioVars, main, wifi, stack,
                   crash, lvgl, label, overrun>>

\* back_event_cb
BackEvent ==
    /\ Touch /\ dialog.open
    /\ dialog' = Closed
    /\ UNCHANGED <<settingsVars, wifiVars, audioVars, main, wifi, stack, crash, lvgl, label,
                   overrun>>

\* vol_changed_cb, gain_changed_cb.
SliderMoved ==
    /\ Touch /\ dialog.open
    /\ \E level \in 0 .. MaxLevel :
          /\ Set([s_cfg EXCEPT !.level = level], [choice EXCEPT !.level = level])
          /\ HwLevel(level)
          /\ dialog' = [dialog EXCEPT !.level = level]
    /\ GotoLvgl("idle", FALSE)
    /\ MarkOverrun
    /\ UNCHANGED <<wifiVars, s_lock, codec, s_muted, s_peer, init, pkt, late, label>>

\* save_event_cb up to wifi_apply: all that the dialog shows is set, though the
\* user has chosen the mode only.
SaveEvent ==
    /\ Touch /\ dialog.open
    /\ \E mode \in {"Join", "Create"} :
          Set([s_cfg EXCEPT !.wifi_mode = mode, !.level = dialog.level],
              [choice EXCEPT !.wifi_mode = mode])
    /\ HwLevel(dialog.level)
    /\ dialog' = Closed
    /\ Apply("lvgl")
    /\ GotoLvgl("apply", FALSE)
    /\ MarkOverrun
    /\ UNCHANGED <<drv, events, managerVars, evt, s_lock, codec, s_muted, s_peer, init,
                   pkt, late, label>>

SaveDone ==
    /\ lvgl.pc = "apply" /\ ~Applying("lvgl")
    /\ GotoLvgl("idle", FALSE)
    /\ UNCHANGED <<settingsVars, wifiVars, audioVars, label, dialog, overrun>>

Callback == MicEvent \/ SliderMoved \/ SaveEvent

(***************************************************************************)
(* The other tasks, and restarts.                                          *)
(***************************************************************************)
DisplayFree == lvgl.pc = "idle"

ApplySteps(t) == ApplyStep(t) /\ UNCHANGED <<settingsVars, audioVars, deviceVars>>

EventTask ==
    /\ OnEvent \/ Retry
    /\ UNCHANGED <<settingsVars, audioVars, deviceVars>>

\* on_wifi_status
StatusShown ==
    /\ DisplayFree
    /\ Notify
    /\ UNCHANGED <<settingsVars, audioVars, deviceVars>>

DriverTask ==
    /\ Associate
    /\ UNCHANGED <<settingsVars, audioVars, deviceVars>>

NvsFull ==
    /\ nvsOk /\ nvsOk' = FALSE
    /\ UNCHANGED <<s_cfg, s_loaded, stored, choice, lost, wifiVars, audioVars, deviceVars>>

NvsFails == NvsFull \/ LoadSettings(FALSE)

LinkDrops ==
    /\ Disconnect
    /\ UNCHANGED <<settingsVars, audioVars, deviceVars>>

\* browse_task calls on_peer_found: the status line, then the peer.
PeerFound(peer) ==
    /\ s_peer # peer
    /\ main = "browsing" /\ DisplayFree
    /\ SetPeer(peer)
    /\ UNCHANGED <<settingsVars, wifiVars, deviceVars>>

MicTask ==
    /\ Snapshot \/ Send
    /\ UNCHANGED <<settingsVars, wifiVars, deviceVars>>

\* A power cut, the restart after an assertion or after a coprocessor update.
Restart ==
    /\ SettingsReset /\ WifiReset /\ AudioReset /\ DeviceReset
    /\ UNCHANGED <<stored, nvsOk, choice, lost>>

Tasks ==
    \/ Boot \/ MicMute \/ MicDone \/ SaveDone
    \/ (\E t \in Appliers : ApplySteps(t))
    \/ EventTask \/ StatusShown \/ DriverTask
    \/ (s_peer = NoPeer /\ \E peer \in Peers : PeerFound(peer))
    \/ MicTask

Incident == incidents < MaxIncidents /\ incidents' = incidents + 1

Next ==
    \/ Running /\ (Tasks \/ (s_loaded /\ GearEvent) \/ BackEvent) /\ UNCHANGED incidents
    \/ /\ Running /\ Incident
       /\ \/ Callback \/ (~s_loaded /\ GearEvent)
          \/ LinkDrops \/ NvsFails \/ \E peer \in Peers : PeerFound(peer)
    \/ Restart /\ Incident

Spec == Init /\ [][Next]_vars

\* Every task goes on when it can; the event task, blocked by a callback, gets
\* the display lock when it is given back again and again.
Fairness ==
    /\ WF_vars(Running /\ (EventTask \/ \E t \in Appliers : ApplySteps(t)) /\ UNCHANGED incidents)
    /\ WF_vars(Running /\ (MicMute \/ MicDone \/ SaveDone) /\ UNCHANGED incidents)
    /\ SF_vars(Running /\ StatusShown /\ UNCHANGED incidents)

FairSpec == Spec /\ Fairness

(***************************************************************************)
(* Properties.                                                             *)
(***************************************************************************)
\* Type invariant of the four modules.
TypeOK ==
    /\ SettingsTypeOK /\ WifiTypeOK /\ AudioTypeOK
    /\ main \in {"ui", "settings", "wifi", "stack", "link", "audio", "in audio_init",
                 "in wifi_apply", "browsing", "run"}
    /\ wifi \in {"unknown", "stack", "driver", "handlers", "ok"} /\ stack \in BOOLEAN
    /\ crash \in {"none", "nvs", "socket", "microphone"}
    /\ lvgl \in [pc : {"idle", "mute", "hw mute", "apply"}, arg : BOOLEAN]
    /\ label \in {"built", "live", "muted"} /\ dialog \in [open : BOOLEAN, level : 0 .. MaxLevel]
    /\ overrun \in BOOLEAN
    /\ incidents \in 0 .. MaxIncidents

\* main.cpp:85-87 and wifi_manager.h:14-16: the boot order keeps sockets behind
\* the TCP/IP stack and s_lock behind its creation.  Two ways around it are left:
\* wifi_init fails before the stack and link_start goes on, or the microphone
\* button, on screen since ui::init, is tapped before audio_init.
CrashesKnown ==
    /\ crash = "socket" => wifi = "stack"
    /\ crash = "microphone" => main \notin {"in audio_init", "in wifi_apply", "browsing", "run"}

\* Between callbacks the microphone is in the codec, in mic_task and on the
\* button, once that was tapped, what the user last chose, across restarts and
\* whatever else was saved meanwhile, and so is the level.  Excepted are NVS
\* failures and a callback before settings::init (lost), and one that audio_init
\* overwrites (overrun).
ChoicesRespected ==
    (s_loaded /\ lvgl.pc = "idle" /\ Running /\ ~lost) =>
        /\ s_cfg = choice
        /\ label # "built" /\ ~overrun => (label = "muted") = s_cfg.mic_muted
        /\ AudioUp /\ ~overrun => /\ s_muted = s_cfg.mic_muted
                                  /\ hw = [muted |-> s_cfg.mic_muted, level |-> s_cfg.level]

\* Once a mute or a change of peer is done, at most the one packet mic_task had
\* prepared still goes out against it.
AtMostOneLatePacket == late + (IF Forbidden THEN 1 ELSE 0) <= 1

\* After a wifi_apply that no other overlapped, the driver runs in the mode that
\* is set if s_started says so; and it only runs without s_started saying so while
\* it is stuck.  Whatever failed: a call that returned early, a stop that did not
\* stop.  Two calls that overlap (wifi_manager.cpp:145) may leave another mode;
\* the next call repairs that.
AppliedIsSaved ==
    (~overlapped /\ \A t \in Appliers : ~Applying(t)) =>
        /\ s_started => drv.running /\ drv.mode = s_cfg.wifi_mode
        /\ drv.running /\ ~s_started => stuck

\* When every event is handled and no attempt is under way, s_connected tells
\* whether the link is usable and s_ip its address, although events of an
\* earlier mode were handled in between.  What stays wrong is named: s_connected
\* of a driver that is stuck or was refused, and the former address if its GOT_IP
\* was handled after the change to a network of our own.
ConnectedTruth ==
    (/\ s_started /\ wifi = "ok" /\ ~stuck
     /\ \A t \in Appliers : ~Applying(t)
     /\ events = << >> /\ evt = "idle" /\ drv.sta \in {"idle", "up"}) =>
        /\ s_connected = (drv.mode = "Create" \/ drv.sta = "up")
        /\ s_connected => s_ip = drv.mode \/ (drv.mode = "Create" /\ strayIp)

\* A running station that is not in touch always comes to another call of
\* esp_wifi_connect, whatever is saved meanwhile, was queued before, failed or
\* overlapped.  If that call itself is refused, nothing tries again.
KeepsTrying ==
    []<>~(/\ Running /\ wifi = "ok"
          /\ drv.running /\ drv.mode = "Join" /\ drv.sta = "idle")
====================================================================================
