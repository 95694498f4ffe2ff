---------------------------- MODULE MCUpnpEvents ----------------------------
(* Instances of UpnpEvents for TLC; the constants are set in the .cfg files. *)
EXTENDS UpnpEvents
=============================================================================
