---------------------------- MODULE MCScanShares ----------------------------
(***************************************************************************)
(* ScanShares on small instances.                                          *)
(***************************************************************************)
EXTENDS ScanShares
=============================================================================
