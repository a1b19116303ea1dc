------------------------------ MODULE MCSdkWal ------------------------------
(* Small instances of SdkWal for TLC.                                       *)
EXTENDS SdkWal, TLC


=============================================================================
