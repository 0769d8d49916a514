--------------------------- MODULE MCBlockingQueue ---------------------------
(* Three threads that pop and anyone who pushes, for TLC.                  *)
EXTENDS BlockingQueue

CONSTANTS t1, t2, t3,   \* threads
          x, y          \* items
=============================================================================
