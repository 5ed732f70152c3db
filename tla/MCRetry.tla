------------------------------ MODULE MCRetry ------------------------------
(* executeWithRetry with -1 to 5 retries and a base delay of -1, 0, 0.5, 1.5 or
   2 ms, all counted in halves, for TLC. *)
EXTENDS Retry

MCHalves == -2..10
MCBaseDelays == {-2, 0, 1, 3, 4}
============================================================================
