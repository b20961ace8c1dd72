------------------------------ MODULE Common ------------------------------
(***************************************************************************)
(* Shared by the modules of the agent services, the control plane, the     *)
(* client and the caches.                                                  *)
(***************************************************************************)
CONSTANT None   \* no row, no call, no value
=============================================================================
