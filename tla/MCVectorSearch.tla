--------------------------- MODULE MCVectorSearch ---------------------------
(* A small instance of VectorSearch for TLC.                                *)
EXTENDS VectorSearch

MCLimits == {0, 1, 2, 5}

=============================================================================
