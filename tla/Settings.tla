-------------------------------- MODULE Settings --------------------------------
(***************************************************************************)
(* The settings: one record in RAM, written whole to NVS at every change.  *)
(* Only the LVGL task changes them once init has run.  Credentials follow  *)
(* wifi_mode, and level stands for volume and microphone gain.  Names      *)
(* follow settings.cpp.                                                    *)
(***************************************************************************)
EXTENDS Integers

CONSTANT MaxLevel    \* bound: the sliders' range, in steps

ASSUME SettingsAssumption == MaxLevel \in Nat \ {0}

VARIABLES
    s_cfg,           \* the RAM copy
    s_loaded,        \* init has run
    stored,          \* the blob in NVS, NoBlob when there is none
    nvsOk,           \* NVS takes writes
    choice,          \* ghost: what the user has chosen so far, while not lost
    lost             \* ghost: NVS refused a write, was erased or could not be
                     \* read, or the screen used the settings before init

settingsVars == <<s_cfg, s_loaded, stored, nvsOk, choice, lost>>

Config == [wifi_mode : {"Join", "Create"}, mic_muted : BOOLEAN, level : 0 .. MaxLevel]
NoBlob == [wifi_mode |-> "none"]

\* load_defaults, and the zeros s_cfg holds before init.
Defaults == [wifi_mode |-> "Create", mic_muted |-> FALSE, level |-> MaxLevel]
Zeros == [wifi_mode |-> "Join", mic_muted |-> FALSE, level |-> 0]

SettingsOff == s_cfg = Zeros /\ s_loaded = FALSE
SettingsReset == s_cfg' = Zeros /\ s_loaded' = FALSE

SettingsTypeOK ==
    /\ s_cfg \in Config /\ choice \in Config
    /\ stored \in Config \cup {NoBlob}
    /\ s_loaded \in BOOLEAN /\ lost \in BOOLEAN /\ nvsOk \in BOOLEAN

\* nvs_set_blob and nvs_commit; whoever calls ignores an error.
Persist(cfg) ==
    /\ stored' = IF nvsOk THEN cfg ELSE stored
    /\ lost' = (lost \/ ~nvsOk \/ ~s_loaded)

\* Mutant of SettingsInit: the blob is taken without looking at its version.
SettingsInitUnchecked(readable) ==
    /\ s_loaded' = TRUE
    /\ s_cfg' = stored
    /\ UNCHANGED <<stored, nvsOk, choice, lost>>

\* init: the blob, or the defaults, which it tries to store, even in place of a
\* blob that is there but could not be read.
SettingsInit(readable) ==
    /\ s_loaded' = TRUE
    /\ \/ /\ readable /\ stored # NoBlob
          /\ s_cfg' = stored
          /\ UNCHANGED <<stored, choice, lost>>
       \/ /\ ~readable \/ stored = NoBlob
          /\ s_cfg' = Defaults
          /\ stored' = IF nvsOk THEN Defaults ELSE stored
          /\ lost' = (lost \/ stored # NoBlob)
          /\ choice' = IF lost' THEN Defaults ELSE choice
    /\ UNCHANGED nvsOk

\* set and the set_* helpers: some fields change in RAM, then all go to NVS.
Set(cfg, chosen) ==
    /\ s_cfg' = cfg
    /\ Persist(cfg)
    /\ choice' = IF lost' THEN Defaults ELSE chosen
    /\ UNCHANGED <<s_loaded, nvsOk>>
=================================================================================
