------------------------- MODULE CoprocUpdateProofs -------------------------
(***************************************************************************)
(* Proofs about CoprocUpdate, for any number of chunks and power cuts.     *)
(***************************************************************************)
EXTENDS CoprocUpdate, TLAPS

\* What has been written while the function is under way: as much as off says
\* while it writes, all of it before the marker and the activation.
WrittenOk ==
    /\ pc \in {"write", "mark", "activate"} => slot[Spare] = off
    /\ pc \in {"mark", "activate"} => off = Chunks

\* The session is open only while chunks are written.
SessionOk == otaOpen => pc = "write"

\* With a working NVS no flashing begins once the marker is stored.
MarkerOk == (nvsOk /\ marker) => pc \notin {"begin", "write", "mark"}

Inv == TypeOK /\ AlwaysBootable /\ MarkerTruthful /\ WrittenOk /\ SessionOk /\ MarkerOk

\* The spare slot is one of the two and not the running one.
LEMMA SpareIsOther == bootSlot \in Slots => Spare \in Slots /\ Spare # bootSlot
  BY DEF Spare, Slots

\* The initial states satisfy the invariant.
LEMMA InitInv == Init => Inv
<1>. SUFFICES ASSUME Init PROVE Inv
  OBVIOUS
<1>1. slot \in [Slots -> {Stock} \cup 0 .. Chunks] /\ slot[1] = Stock
  BY CoprocAssumption DEF Init, Slots
<1>2. off \in 0 .. Chunks /\ cuts \in 0 .. MaxCuts
  BY CoprocAssumption DEF Init
<1>3. TypeOK
  BY <1>1, <1>2 DEF Init, TypeOK, Slots
<1>. QED
  BY <1>1, <1>3 DEF Init, Inv, AlwaysBootable, MarkerTruthful, WrittenOk, SessionOk, MarkerOk

\* Every step, power cuts included, keeps the invariant.
LEMMA NextInv == Inv /\ [Next]_vars => Inv'
<1>. SUFFICES ASSUME Inv, [Next]_vars PROVE Inv'
  OBVIOUS
<1>. USE CoprocAssumption, SpareIsOther
     DEF Inv, TypeOK, AlwaysBootable, MarkerTruthful, WrittenOk, SessionOk, MarkerOk
<1>1. CASE WifiInit
  BY <1>1 DEF WifiInit, c6Vars, Fail, Spare
<1>2. CASE GetVersion
  BY <1>2 DEF GetVersion, c6Vars, Fail, Spare
<1>3. CASE flashed_marker_get
  BY <1>3 DEF flashed_marker_get, c6Vars, histVars, Skips, Spare
<1>4. CASE OtaBegin
  BY <1>4 DEF OtaBegin, Fail, Spare, Slots, Stock
<1>5. CASE OtaWrite
  BY <1>5 DEF OtaWrite, MoreToWrite, AfterWrite, Abort, Fail, Spare, Slots, Stock
<1>6. CASE OtaEnd
  <2>1. off = Chunks
    BY <1>6 DEF OtaEnd, MoreToWrite
  <2>. QED
    BY <1>6, <2>1 DEF OtaEnd, Fail, Spare
<1>7. CASE flashed_marker_set
  BY <1>7 DEF flashed_marker_set, Stored, c6Vars, histVars, Spare
<1>8. CASE OtaActivate
  BY <1>8 DEF OtaActivate, Spare
<1>9. CASE Restart
  BY <1>9 DEF Restart, c6Vars, histVars, Spare
<1>10. CASE PowerCut
  <2>1. cuts' \in 0 .. MaxCuts /\ off' \in 0 .. Chunks
    BY <1>10 DEF PowerCut
  <2>. QED
    BY <1>10, <2>1 DEF PowerCut, Spare
<1>11. CASE UNCHANGED vars
  BY <1>11 DEF vars, c6Vars, histVars, Spare
<1>. QED
  BY <1>1, <1>2, <1>3, <1>4, <1>5, <1>6, <1>7, <1>8, <1>9, <1>10, <1>11 DEF Next, Step

\* The invariant holds in every reachable state.
THEOREM Invariance == Spec => []Inv
  BY InitInv, NextInv, PTL DEF Spec

\* No chunk is written past the image, and every variable keeps its type.
THEOREM TypeCorrect == Spec => []TypeOK
  BY Invariance, PTL DEF Inv

\* Wherever the power goes or a call fails, the C6 has a whole image to boot,
\* and every return of the update leaves its session closed.
THEOREM NeverBricked == Spec => []AlwaysRecoverable
<1>1. Inv => AlwaysRecoverable
  BY DEF Inv, SessionOk, SessionClosed, AlwaysRecoverable
<1>. QED
  BY <1>1, Invariance, PTL

\* A stored marker means a whole embedded image on the C6.
THEOREM MarkerIsTrue == Spec => []MarkerTruthful
  BY Invariance, PTL DEF Inv
============================================================================
