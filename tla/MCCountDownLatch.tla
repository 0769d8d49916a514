-------------------------- MODULE MCCountDownLatch ---------------------------
(* Three waiting threads, for TLC.                                         *)
EXTENDS CountDownLatch

CONSTANTS t1, t2, t3
=============================================================================
