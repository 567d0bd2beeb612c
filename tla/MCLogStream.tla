----------------------------- MODULE MCLogStream -----------------------------
(* A ring of eight bytes, live frames of three and five bytes, of which one at *)
(* a time fits, and stored frames of three.                                  *)
EXTENDS LogStream

CONSTANTS l1, l2, l3, m1, m2, m3, m4, m5, d1, d2

MCFrames == {<<l1, l2, l3>>, <<m1, m2, m3, m4, m5>>}
MCDumpFrames == {<<d1, d2, d2>>}
=============================================================================
