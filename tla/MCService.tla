----------------------------- MODULE MCService -----------------------------
(* The model of Service that TLC checks: its constants are in MCService.cfg. *)
EXTENDS Service

=============================================================================
