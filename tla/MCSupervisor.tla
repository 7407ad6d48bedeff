---------------------------- MODULE MCSupervisor ----------------------------
(* Instances of SupervisedImport for TLC. *)
EXTENDS SupervisedImport, TLC

AllOfThem == Processes

=============================================================================
