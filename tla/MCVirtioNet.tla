---------------------------- MODULE MCVirtioNet -----------------------------
(***************************************************************************)
(* QueueSize = 3 in the cfg: three tokens per queue, so six buffers,      *)
(* enough for a buffer of each kind to be with the device, with the stack  *)
(* and in the driver at once, and for the device to complete three         *)
(* descriptors in every order.                                             *)
(***************************************************************************)
EXTENDS VirtioNet
=============================================================================
