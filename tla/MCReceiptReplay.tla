---------------------------- MODULE MCReceiptReplay ----------------------------
(* ReceiptReplay on the instances of MCControlPlane.                           *)
EXTENDS MCControlPlane, ReceiptReplay
=============================================================================
