---------------------------- MODULE StreamGrant ----------------------------
(***************************************************************************)
(* What the RTSP server promises about its single stream: it belongs to    *)
(* one holder at a time, nobody else redirects it meanwhile, and a holder  *)
(* it was withdrawn from neither gets it again nor aims it.                *)
(***************************************************************************)
CONSTANTS Holders, NoHolder

VARIABLES
    to,     \* the holder the stream is granted to, or NoHolder
    dest,   \* the holder that aimed it last, or NoHolder
    ended   \* the holders it was withdrawn from

Init == to = NoHolder /\ dest = NoHolder /\ ended = {}

\* Holder h may act: it is not ended and nobody else has the stream.
Entitled(h) == h \notin ended /\ to \in {NoHolder, h}

Aim(h) == Entitled(h) /\ dest' = h /\ UNCHANGED <<to, ended>>

Grant(h) == Entitled(h) /\ to' = h /\ UNCHANGED <<dest, ended>>

Withdraw(h) ==
    /\ Entitled(h)
    /\ to' = NoHolder
    /\ ended' = ended \cup {h}
    /\ UNCHANGED dest

Next == \E h \in Holders : Aim(h) \/ Grant(h) \/ Withdraw(h)

Spec == Init /\ [][Next]_<<to, dest, ended>>
============================================================================
