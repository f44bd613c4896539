------------------------------ MODULE MCRingBuf ------------------------------
(* Model-checking instance of RingBuf; see MCRingBuf.cfg for the constants. *)
EXTENDS RingBuf
=============================================================================
