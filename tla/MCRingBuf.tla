----------------------------- MODULE MCRingBuf -----------------------------
(* Four slots and writes of up to two bytes: the smallest buffer in which a *)
(* write can wrap, overflow and leave older bytes behind.                   *)
EXTENDS RingBuf
=============================================================================
