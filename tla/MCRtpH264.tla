----------------------------- MODULE MCRtpH264 -----------------------------
(* A small instance of RtpH264.  A packet takes a NAL unit of 5 bytes, or  *)
(* fragments of 3: the units are one packet behind an empty NAL unit, two  *)
(* packets and a third NAL unit split_nals has no room for, a unit of      *)
(* three packets that fills the buffer, and one byte more than it holds.   *)
EXTENDS RtpH264

MCUnitKinds == {<<0, 1>>, <<2, 5, 1>>, <<1, 7>>, <<1, 8>>}
============================================================================
