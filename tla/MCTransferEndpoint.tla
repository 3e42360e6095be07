------------------------- MODULE MCTransferEndpoint -------------------------
(* Small instances of TransferEndpoint for TLC. *)
EXTENDS TransferEndpoint
=============================================================================
