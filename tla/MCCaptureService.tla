-------------------------- MODULE MCCaptureService --------------------------
(* CaptureService with two formats, three rates and a source edited twice. *)
EXTENDS CaptureService
=============================================================================
