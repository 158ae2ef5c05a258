----------------------------- MODULE MCRtpJpeg -----------------------------
(* A small instance of RtpJpeg.  With packets of 7 units the four kinds of *)
(* frames take one, two, three and three packets; the third fills the      *)
(* receiver's buffer to the last cell and the fourth exceeds it by one.    *)
EXTENDS RtpJpeg

MCFrameKinds == {[scan |-> 3, tables |-> 1], [scan |-> 7, tables |-> 2],
                 [scan |-> 9, tables |-> 1], [scan |-> 9, tables |-> 2]}
============================================================================
