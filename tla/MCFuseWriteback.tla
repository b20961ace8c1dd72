-------------------------- MODULE MCFuseWriteback ---------------------------
(***************************************************************************)
(* Small instances of FuseWriteback.                                       *)
(***************************************************************************)
EXTENDS FuseWriteback
=============================================================================
