---------------------------- MODULE MCCaptureQueue ----------------------------
(* Small instances of CaptureQueue. *)
EXTENDS CaptureQueue
=============================================================================
