------------------------------- MODULE WifiManager -------------------------------
(***************************************************************************)
(* The Wi-Fi manager: wifi_apply, which the boot task and the LVGL task    *)
(* may both be running, and the event handler, on the event task, of a     *)
(* driver that lives on the C6 and reports through a queue.  Names follow  *)
(* wifi_manager.cpp; drv and its actions are ESP-IDF as this code uses it. *)
(* Every call to it crosses to the C6 and may fail, and the code looks at  *)
(* the results of set_mode, set_config and start only.  A call that fails  *)
(* may still have been carried out: its answer was lost.                   *)
(***************************************************************************)
EXTENDS Settings, Sequences

Appliers == {"main", "lvgl"}

VARIABLES
    drv,             \* the driver: initialised, reporting, mode, running, station
    events,          \* the default event loop's queue
    s_started, s_connected, s_ip,
    evt,             \* where the event task is
    apply,           \* per task: where it is in wifi_apply, with the mode it read
    overlapped,      \* ghost: the latest call of wifi_apply began while another was
                     \* under way, or before settings::init
    stuck,           \* ghost: since a call stopped the driver or found it stopped, a
                     \* stop has failed, the answer to a start was lost, or calls
                     \* overlapped
    strayIp          \* ghost: a GOT_IP was handled after a change to Create

managerVars == <<s_started, s_connected, s_ip>>
ghosts == <<overlapped, stuck, strayIp>>
wifiVars == <<drv, events, managerVars, evt, apply, ghosts>>

DriverOff == [up |-> FALSE, reports |-> FALSE, mode |-> "none", running |-> FALSE, sta |-> "idle"]
NotApplying == [pc |-> "idle", mode |-> "none"]

WifiOff ==
    /\ drv = DriverOff /\ events = << >>
    /\ s_started = FALSE /\ s_connected = FALSE /\ s_ip = "none"
    /\ evt = "idle"
    /\ apply = [t \in Appliers |-> NotApplying]
    /\ overlapped = FALSE /\ stuck = FALSE /\ strayIp = FALSE

WifiReset ==
    /\ drv' = DriverOff /\ events' = << >>
    /\ s_started' = FALSE /\ s_connected' = FALSE /\ s_ip' = "none"
    /\ evt' = "idle"
    /\ apply' = [t \in Appliers |-> NotApplying]
    /\ overlapped' = FALSE /\ stuck' = FALSE /\ strayIp' = FALSE

WifiTypeOK ==
    /\ drv \in [up : BOOLEAN, reports : BOOLEAN, mode : {"none", "Join", "Create"},
                running : BOOLEAN, sta : {"idle", "refused", "connecting", "up"}]
    /\ events \in Seq({"STA_START", "DISCONNECTED", "AP_START", "GOT_IP"})
    /\ s_started \in BOOLEAN /\ s_connected \in BOOLEAN
    /\ s_ip \in {"none", "Join", "Create"}
    /\ evt \in {"idle", "notify", "notify retry", "delay"}
    /\ apply \in [Appliers -> [pc : {"idle", "test", "stop", "clear", "mode", "start", "done"},
                               mode : {"none", "Join", "Create"}]]
    /\ overlapped \in BOOLEAN /\ stuck \in BOOLEAN /\ strayIp \in BOOLEAN

Applying(t) == apply[t].pc # "idle"
At(t, pc) == apply[t].pc = pc
Goto(t, pc) == apply' = [apply EXCEPT ![t].pc = pc]
Return(t) == apply' = [apply EXCEPT ![t] = NotApplying]

(***************************************************************************)
(* The driver.                                                             *)
(***************************************************************************)
Post(es) == events' = IF drv.reports THEN events \o es ELSE events
StartEvent(mode) == <<IF mode = "Join" THEN "STA_START" ELSE "AP_START">>

\* wifi_init's last third; without handlers nothing is reported.
DriverUp(reports) == drv' = [drv EXCEPT !.up = TRUE, !.reports = reports]

InTouch == drv.sta \in {"connecting", "up"}

\* esp_wifi_stop, when it works: a station that was connected or connecting is
\* told so.
DriverStop ==
    /\ drv' = [drv EXCEPT !.running = FALSE, !.sta = "idle"]
    /\ Post(IF InTouch THEN <<"DISCONNECTED">> ELSE << >>)

\* esp_wifi_set_mode: a running driver changes over at once.
DriverMode(mode) ==
    /\ drv' = [drv EXCEPT !.mode = mode, !.sta = IF mode = "Join" THEN @ ELSE "idle"]
    /\ Post(IF drv.running /\ drv.mode # mode THEN StartEvent(mode) ELSE << >>)

\* esp_wifi_start.
DriverStart ==
    /\ drv' = [drv EXCEPT !.running = TRUE]
    /\ Post(IF drv.running THEN << >> ELSE StartEvent(drv.mode))

\* esp_wifi_connect: an error unless a station runs that is not in touch, and
\* perhaps then ("refused"): no event follows, and nobody looks at the error.
DriverConnect ==
    IF drv.running /\ drv.mode = "Join" /\ ~InTouch
    THEN \E outcome \in {"connecting", "refused"} : drv' = [drv EXCEPT !.sta = outcome]
    ELSE UNCHANGED drv

\* The access point answers, and DHCP.
Associate ==
    /\ drv.sta = "connecting"
    /\ drv' = [drv EXCEPT !.sta = "up"]
    /\ Post(<<"GOT_IP">>)
    /\ UNCHANGED <<managerVars, evt, apply, ghosts>>

\* The attempt fails or the link drops.
Disconnect ==
    /\ InTouch
    /\ drv' = [drv EXCEPT !.sta = "idle"]
    /\ Post(<<"DISCONNECTED">>)
    /\ UNCHANGED <<managerVars, evt, apply, ghosts>>

(***************************************************************************)
(* wifi_apply, on task t.                                                  *)
(***************************************************************************)
\* What a caller does to enter it.
Apply(t) ==
    /\ Goto(t, "test")
    /\ overlapped' = (~s_loaded \/ \E u \in Appliers \ {t} : Applying(u))
    /\ stuck' = (stuck \/ overlapped')
    /\ UNCHANGED strayIp

\* The mode to be set is read from the settings before it is set.
ReadMode(t) == apply' = [apply EXCEPT ![t] = [pc |-> "mode", mode |-> s_cfg.wifi_mode]]

\* if (s_started)
ApplyTest(t) ==
    /\ At(t, "test")
    /\ \/ s_started /\ Goto(t, "stop") /\ UNCHANGED stuck
       \/ ~s_started /\ ReadMode(t) /\ stuck' = (stuck /\ (overlapped \/ drv.running))
    /\ UNCHANGED <<drv, events, managerVars, evt, overlapped, strayIp>>

\* esp_wifi_stop(), whose error is ignored.
ApplyStop(t) ==
    /\ At(t, "stop")
    /\ \/ DriverStop /\ stuck' = overlapped
       \/ UNCHANGED <<drv, events>> /\ stuck' = TRUE
    /\ Goto(t, "clear")
    /\ UNCHANGED <<managerVars, evt, overlapped, strayIp>>

ApplyClear(t) ==
    /\ At(t, "clear")
    /\ s_started' = FALSE /\ s_connected' = FALSE
    /\ ReadMode(t)
    /\ UNCHANGED <<drv, events, s_ip, evt, ghosts>>

\* esp_wifi_set_mode.
ApplyMode(t) ==
    /\ At(t, "mode")
    /\ \/ drv.up /\ DriverMode(apply[t].mode) /\ (Goto(t, "start") \/ Return(t))
       \/ Return(t) /\ UNCHANGED <<drv, events>>
    /\ UNCHANGED <<managerVars, evt, ghosts>>

\* esp_wifi_set_config, an error for an interface the mode does not have, and
\* esp_wifi_start.
Configured(t) == drv.mode = apply[t].mode

\* Mutant of ApplyFails: the error is not returned.
ApplyFailsOn(t) == Goto(t, "done") /\ UNCHANGED <<drv, events, stuck>>

ApplyFails(t) ==
    /\ Return(t)
    /\ \/ UNCHANGED <<drv, events, stuck>>
       \/ Configured(t) /\ DriverStart /\ stuck' = TRUE

ApplyStart(t) ==
    /\ At(t, "start")
    /\ \/ /\ Configured(t)
          /\ DriverStart
          /\ Goto(t, "done")
          /\ UNCHANGED stuck
       \/ ApplyFails(t)
    /\ UNCHANGED <<managerVars, evt, overlapped, strayIp>>

\* Mutant of Started: the connection state is cleared after the start.
StartedCleared(mode) ==
    /\ s_ip' = IF mode = "Create" THEN mode ELSE s_ip
    /\ strayIp' = (strayIp /\ mode # "Create")
    /\ s_started' = TRUE /\ s_connected' = FALSE

\* A network of our own has its address at once.
Started(mode) ==
    /\ s_ip' = IF mode = "Create" THEN mode ELSE s_ip
    /\ strayIp' = (strayIp /\ mode # "Create")
    /\ s_started' = TRUE /\ UNCHANGED s_connected

ApplyDone(t) ==
    /\ At(t, "done")
    /\ Started(apply[t].mode)
    /\ Return(t)
    /\ UNCHANGED <<drv, events, evt, overlapped, stuck>>

ApplyStep(t) ==
    ApplyTest(t) \/ ApplyStop(t) \/ ApplyClear(t) \/ ApplyMode(t) \/ ApplyStart(t) \/ ApplyDone(t)

(***************************************************************************)
(* on_event.                                                               *)
(***************************************************************************)
Take(e) == evt = "idle" /\ events # << >> /\ Head(events) = e /\ events' = Tail(events)

OnStaStart ==
    /\ Take("STA_START")
    /\ DriverConnect
    /\ UNCHANGED <<managerVars, evt, apply, ghosts>>

OnDisconnected ==
    /\ Take("DISCONNECTED")
    /\ s_connected' = FALSE
    /\ evt' = "notify retry"
    /\ UNCHANGED <<drv, s_started, s_ip, apply, ghosts>>

OnApStart ==
    /\ Take("AP_START")
    /\ s_connected' = TRUE
    /\ evt' = "notify"
    /\ UNCHANGED <<drv, s_started, s_ip, apply, ghosts>>

OnGotIp ==
    /\ Take("GOT_IP")
    /\ s_ip' = "Join" /\ s_connected' = TRUE
    /\ strayIp' = (strayIp \/ drv.mode # "Join")
    /\ evt' = "notify"
    /\ UNCHANGED <<drv, s_started, apply, overlapped, stuck>>

\* Mutant of AfterNotify: a lost link is only reported.
AfterNotifyIdle == "idle"

AfterNotify == IF evt = "notify retry" THEN "delay" ELSE "idle"

\* The callback has written the status line.
Notify ==
    /\ evt \in {"notify", "notify retry"}
    /\ evt' = AfterNotify
    /\ UNCHANGED <<drv, events, managerVars, apply, ghosts>>

\* 1.5 s later, whatever wifi_apply has done meanwhile.
Retry ==
    /\ evt = "delay"
    /\ DriverConnect
    /\ evt' = "idle"
    /\ UNCHANGED <<events, managerVars, apply, ghosts>>

OnEvent == OnStaStart \/ OnDisconnected \/ OnApStart \/ OnGotIp
==================================================================================
