---------------------------------- MODULE Audio ----------------------------------
(***************************************************************************)
(* Two-way audio: audio_init, the setters that the boot task and the LVGL  *)
(* task call, and mic_task, which copies mute and destination under s_lock *)
(* and sends after it.  Every critical section of s_lock is short and one  *)
(* step here.  level stands for volume and gain.  Names follow audio.cpp.  *)
(***************************************************************************)
EXTENDS Integers

CONSTANT Peers       \* addresses of other devices

VARIABLES
    s_lock,          \* the mutex has been created
    codec,           \* s_spk and s_mic are set
    s_muted, s_peer,
    hw,              \* mute and level in the codec chips
    init,            \* where the boot task is in audio_init, and its arguments
    pkt,             \* the destination mic_task has copied, NoPeer when none
    late             \* ghost: packets since s_muted or s_peer last changed that
                     \* this change forbids

audioVars == <<s_lock, codec, s_muted, s_peer, hw, init, pkt, late>>

NoPeer == "none"

ASSUME AudioAssumption == NoPeer \notin Peers

NoInit == [pc |-> "idle", muted |-> FALSE, level |-> 0]

AudioOff ==
    /\ s_lock = FALSE /\ codec = FALSE
    /\ s_muted = FALSE /\ s_peer = NoPeer
    /\ hw = [muted |-> FALSE, level |-> 0]
    /\ init = NoInit
    /\ pkt = NoPeer /\ late = 0

AudioReset ==
    /\ s_lock' = FALSE /\ codec' = FALSE
    /\ s_muted' = FALSE /\ s_peer' = NoPeer
    /\ hw' = [muted |-> FALSE, level |-> 0]
    /\ init' = NoInit
    /\ pkt' = NoPeer /\ late' = 0

AudioTypeOK ==
    /\ s_lock \in BOOLEAN /\ codec \in BOOLEAN /\ s_muted \in BOOLEAN
    /\ s_peer \in Peers \cup {NoPeer} /\ pkt \in Peers \cup {NoPeer}
    /\ hw \in [muted : BOOLEAN, level : Nat]
    /\ init \in [pc : {"idle", "codec", "mute", "hw mute", "up", "failed"},
                 muted : BOOLEAN, level : Nat]
    /\ late \in Nat

\* audio_init runs; its tasks run.
Initialising == init.pc \in {"codec", "mute", "hw mute"}
AudioUp == init.pc = "up"

(***************************************************************************)
(* The setters, each with one critical section or one call of the codec.   *)
(***************************************************************************)
\* audio_set_mic_muted, under s_lock.
StoreMute(muted) ==
    /\ s_muted' = muted
    /\ late' = IF s_muted = muted THEN late ELSE 0

\* The rest of it: esp_codec_dev_set_in_mute.
HwMute(muted) == hw' = IF codec THEN [hw EXCEPT !.muted = muted] ELSE hw

\* audio_set_volume, audio_set_mic_gain.
HwLevel(level) == hw' = IF codec THEN [hw EXCEPT !.level = level] ELSE hw

\* audio_set_peer, under s_lock.
SetPeer(peer) ==
    /\ s_lock
    /\ s_peer' = peer
    /\ late' = IF s_peer = peer THEN late ELSE 0
    /\ UNCHANGED <<s_lock, codec, s_muted, hw, init, pkt>>

(***************************************************************************)
(* audio_init.                                                             *)
(***************************************************************************)
\* The mutex and the first value of s_muted.
InitLock(muted, level) ==
    /\ init.pc = "idle"
    /\ s_lock' = TRUE
    /\ StoreMute(muted)
    /\ init' = [pc |-> "codec", muted |-> muted, level |-> level]
    /\ UNCHANGED <<codec, s_peer, hw, pkt>>

\* The codecs are opened and set to the level, or audio_init fails and leaves no
\* handle that is used.
InitCodec ==
    /\ init.pc = "codec"
    /\ \/ /\ codec' = TRUE
          /\ hw' = [hw EXCEPT !.level = init.level]
          /\ init' = [init EXCEPT !.pc = "mute"]
       \/ UNCHANGED <<codec, hw>> /\ init' = [NoInit EXCEPT !.pc = "failed"]
    /\ UNCHANGED <<s_lock, s_muted, s_peer, pkt, late>>

InitMute ==
    /\ init.pc = "mute"
    /\ StoreMute(init.muted)
    /\ init' = [init EXCEPT !.pc = "hw mute"]
    /\ UNCHANGED <<s_lock, codec, s_peer, hw, pkt>>

\* The rest of audio_set_mic_muted; then the socket and the tasks.
InitTasks ==
    /\ init.pc = "hw mute"
    /\ HwMute(init.muted)
    /\ init' = [NoInit EXCEPT !.pc = "up"]
    /\ UNCHANGED <<s_lock, codec, s_muted, s_peer, pkt, late>>

InitStep == InitCodec \/ InitMute \/ InitTasks

(***************************************************************************)
(* mic_task, once per captured frame.                                      *)
(***************************************************************************)
\* Mutant of MayGo: the mute is left to the codec.
MayGoMuted == s_peer # NoPeer

MayGo == s_peer # NoPeer /\ ~s_muted

Snapshot ==
    /\ AudioUp /\ pkt = NoPeer
    /\ MayGo
    /\ pkt' = s_peer
    /\ UNCHANGED <<s_lock, codec, s_muted, s_peer, hw, init, late>>

\* The packet mic_task has prepared goes against what is set now.
Forbidden == pkt # NoPeer /\ (s_muted \/ s_peer # pkt)

\* The packet's destination is what was copied, not what is set now.
Send ==
    /\ pkt # NoPeer
    /\ pkt' = NoPeer
    /\ late' = IF Forbidden THEN late + 1 ELSE late
    /\ UNCHANGED <<s_lock, codec, s_muted, s_peer, hw, init>>
===================================================================================
