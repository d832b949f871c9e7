---------------------------- MODULE MCCrashCapture ----------------------------
(* Small instances of CrashCapture.                                         *)
EXTENDS CrashCapture
===============================================================================
