----------------------------- MODULE MCPolling -----------------------------
(***************************************************************************)
(* Small instances of Polling for TLC: workers as model values.            *)
(***************************************************************************)
EXTENDS Polling

CONSTANTS w1

OneWorker == {w1}
=============================================================================
