------------------------------- MODULE MCRingBuf -------------------------------
(* A ring of four bytes over three values, with every sequence of calls.    *)
EXTENDS RingBuf
MCByte == 0 .. 2
================================================================================
