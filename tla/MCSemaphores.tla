---------------------------- MODULE MCSemaphores ----------------------------
(* The record lists guests build a mux from, for TLC.                      *)
EXTENDS Semaphores

\* One record, and two: a mux over the semaphores made first and second, the
\* second of which may be the mux itself or not be made at all.
MCRecords == {<<1>>, <<2, 1>>}
=============================================================================
