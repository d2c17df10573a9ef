--------------------------- MODULE MCSealerThreads ---------------------------
(* Instances of SealerThreads for TLC; the bound on proposals keeps the history finite. *)
EXTENDS SealerThreads
=============================================================================
