----------------------------- MODULE MCNativePort -----------------------------
(* NativePort with two ports, two refreshes and one command at a time. *)
EXTENDS NativePort
=============================================================================
