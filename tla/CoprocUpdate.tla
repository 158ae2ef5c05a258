---------------------------- MODULE CoprocUpdate ----------------------------
(***************************************************************************)
(* coproc_update_if_needed of wifi_coproc.cpp: at every boot the ESP32-P4  *)
(* asks the ESP32-C6 for its firmware version and replaces an old one by   *)
(* the embedded image, over SDIO and chunk by chunk, into the slot the C6  *)
(* is not running.  A marker in NVS keeps it from doing so again and       *)
(* again.  Every call may fail, and the power may go at any moment.        *)
(***************************************************************************)
EXTENDS Integers

CONSTANTS Chunks,   \* calls of ota_write the image takes
          MaxCuts   \* bound: power cuts

ASSUME CoprocAssumption == Chunks \in Nat \ {0} /\ MaxCuts \in Nat

VARIABLES
    pc,         \* where wifi_init and coproc_update_if_needed are
    off,        \* chunks written, the function's local
    marker,     \* NVS: EMBEDDED_FW_CODE is stored
    nvsOk,      \* whether NVS keeps and returns what it is given
    slot,       \* the C6's two slots: chunks of the embedded image in each
    bootSlot,   \* the slot it runs
    otaOpen,    \* an update session is open on the C6
    activated,  \* history: ota_activate was called
    failed,     \* history: some call of this function failed
    cuts        \* bound counter

c6Vars == <<slot, bootSlot, otaOpen>>
histVars == <<activated, failed, cuts>>
vars == <<pc, off, marker, nvsOk, c6Vars, histVars>>

Slots == {1, 2}
Stock == -1                   \* the image the C6 was shipped with
Spare == IF bootSlot = 1 THEN 2 ELSE 1

Init ==
    /\ pc = "boot" /\ off = 0
    /\ marker = FALSE /\ nvsOk \in BOOLEAN
    /\ slot = [s \in Slots |-> IF s = 1 THEN Stock ELSE 0]
    /\ bootSlot = 1 /\ otaOpen = FALSE
    /\ activated = FALSE /\ failed = FALSE /\ cuts = 0

Fail(ok) == failed' = (failed \/ ~ok)

(***************************************************************************)
(* The function, one action per call.  "up" is a P4 that went on without   *)
(* an update.                                                              *)
(***************************************************************************)
\* wifi_init: the transport comes up, or Wi-Fi is given up.
WifiInit ==
    /\ pc = "boot"
    /\ \E ok \in BOOLEAN : Fail(ok) /\ pc' = IF ok THEN "version" ELSE "up"
    /\ UNCHANGED <<off, marker, nvsOk, c6Vars, activated, cuts>>

Outdated == slot[bootSlot] = Stock

GetVersion ==
    /\ pc = "version"
    /\ \E ok \in BOOLEAN : Fail(ok) /\ pc' = IF ok /\ Outdated THEN "marker" ELSE "up"
    /\ UNCHANGED <<off, marker, nvsOk, c6Vars, activated, cuts>>

\* Mutant of Skips: the marker is not looked at.
SkipsNever(value) == FALSE

Skips(value) == value

\* Without an answer from NVS the value is 0.
flashed_marker_get ==
    /\ pc = "marker"
    /\ \E value \in {marker} \cup (IF nvsOk THEN {} ELSE {FALSE}) :
          pc' = IF Skips(value) THEN "up" ELSE "begin"
    /\ UNCHANGED <<off, marker, nvsOk, c6Vars, histVars>>

\* ota_begin erases the slot the C6 does not run.
OtaBegin ==
    /\ pc = "begin"
    /\ \E ok \in BOOLEAN :
          /\ Fail(ok)
          /\ pc' = IF ok THEN "write" ELSE "up"
          /\ otaOpen' = ok
          /\ slot' = IF ok THEN [slot EXCEPT ![Spare] = 0] ELSE slot
    /\ off' = 0
    /\ UNCHANGED <<marker, nvsOk, bootSlot, activated, cuts>>

\* Mutants of MoreToWrite and AfterWrite: one chunk too many; a failed write
\* does not return.
MoreToWriteAtEnd == off <= Chunks
AfterWriteAnyway(ok) == "write"

MoreToWrite == off < Chunks
AfterWrite(ok) == IF ok THEN "write" ELSE "up"
Abort(ok) == otaOpen' = (otaOpen /\ ok)

OtaWrite ==
    /\ pc = "write" /\ MoreToWrite
    /\ \E ok \in BOOLEAN :
          /\ Fail(ok)
          /\ slot' = IF ok THEN [slot EXCEPT ![Spare] = @ + 1] ELSE slot
          /\ pc' = AfterWrite(ok)
          /\ Abort(ok)
          /\ off' = IF AfterWrite(ok) = "write" THEN off + 1 ELSE off
    /\ UNCHANGED <<marker, nvsOk, bootSlot, activated, cuts>>

\* ota_end closes the session whatever it returns.
OtaEnd ==
    /\ pc = "write" /\ ~MoreToWrite
    /\ \E ok \in BOOLEAN : Fail(ok) /\ pc' = IF ok THEN "mark" ELSE "up"
    /\ otaOpen' = FALSE
    /\ UNCHANGED <<off, marker, nvsOk, slot, bootSlot, activated, cuts>>

\* Mutant of Stored: the marker is set but not committed.
StoredNever == {marker}

Stored == IF nvsOk THEN {TRUE} ELSE {marker, TRUE}

\* The results of nvs_open, nvs_set_u32 and nvs_commit are not looked at.
flashed_marker_set ==
    /\ pc = "mark"
    /\ marker' \in Stored
    /\ pc' = "activate"
    /\ UNCHANGED <<off, nvsOk, c6Vars, histVars>>

\* The C6 reboots into the new slot or, if it does not accept it or the call is
\* lost, stays with the old one; the P4 does not look at the result.
OtaActivate ==
    /\ pc = "activate"
    /\ bootSlot' \in {bootSlot, Spare}
    /\ activated' = TRUE
    /\ pc' = "restart"
    /\ UNCHANGED <<off, marker, nvsOk, slot, otaOpen, failed, cuts>>

Restart ==
    /\ pc = "restart"
    /\ pc' = "boot" /\ off' = 0
    /\ UNCHANGED <<marker, nvsOk, c6Vars, histVars>>

\* Both chips lose their power and boot again.
PowerCut ==
    /\ cuts < MaxCuts
    /\ cuts' = cuts + 1
    /\ pc' = "boot" /\ off' = 0
    /\ otaOpen' = FALSE
    /\ UNCHANGED <<marker, nvsOk, slot, bootSlot, activated, failed>>

Step == \/ WifiInit \/ GetVersion \/ flashed_marker_get
        \/ OtaBegin \/ OtaWrite \/ OtaEnd
        \/ flashed_marker_set \/ OtaActivate \/ Restart

Next == Step \/ PowerCut

Spec == Init /\ [][Next]_vars

\* app_main runs on; power cuts have no fairness.
FairSpec == Spec /\ WF_vars(Step)

(***************************************************************************)
(* Properties.                                                             *)
(***************************************************************************)
\* Types of the locals and of what NVS and the C6 keep; no chunk is written
\* past the image.
TypeOK ==
    /\ pc \in {"boot", "version", "marker", "begin", "write", "mark", "activate",
               "restart", "up"}
    /\ off \in 0 .. Chunks
    /\ marker \in BOOLEAN /\ nvsOk \in BOOLEAN
    /\ slot \in [Slots -> {Stock} \cup 0 .. Chunks]
    /\ bootSlot \in Slots
    /\ otaOpen \in BOOLEAN /\ activated \in BOOLEAN /\ failed \in BOOLEAN
    /\ cuts \in 0 .. MaxCuts

\* The slot the C6 boots always holds a whole image, the stock one or every
\* chunk of the new one, wherever a call fails or the power goes.
AlwaysBootable == slot[bootSlot] \in {Stock, Chunks}

\* The marker is the truth, across power cuts: once it is stored, the C6 holds
\* the whole embedded image and no later boot erases or rewrites it, as long as
\* NVS returns the marker.
MarkerTruthful == (nvsOk /\ marker) => \E s \in Slots : slot[s] = Chunks

\* Every return leaves the C6 without an open update session.
SessionClosed == pc = "up" => ~otaOpen

\* A failed update leaves the C6 as it was before: with a whole image to boot,
\* and free for the next attempt.
AlwaysRecoverable == AlwaysBootable /\ SessionClosed

\* With a working NVS the device always ends up running, also with a C6 that
\* never boots the new image: the marker ends the loop of updates.
Settles == nvsOk => <>[](pc = "up")

\* wifi_coproc.h, "If the C6 firmware is older than the embedded image, flashes
\* it over SDIO, activates it": a device that runs with an outdated C6, though no
\* call failed, has tried to activate the new image.  Violated: a power cut after
\* the marker is stored and before ota_activate.
OutdatedWasActivated == (pc = "up" /\ Outdated /\ ~failed) => activated
============================================================================
