------------------------- MODULE MCSLOStatusHistory -------------------------
(* The instances of SLOStatus, with its history.                           *)
EXTENDS MCSLOStatus, SLOStatusHistory
=============================================================================
