------------------------------- MODULE MCVma --------------------------------
(* Model-checking instances of VmaRunner. *)
EXTENDS VmaRunner

AllPrograms == DOMAIN main
OnlyProcmap == {"procmap"}
=============================================================================
