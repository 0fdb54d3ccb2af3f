--------------------------- MODULE MCKernelNames ---------------------------
(* TLC instance of KernelNames: two addresses, so that one can be loaded     *)
(* while the other is unloaded, enough announcements for a kernel to be      *)
(* loaded, unloaded, and loaded again at the same address, and enough        *)
(* dispatches for an entry to be used with a reference, then without, while  *)
(* another entry has the name.                                               *)
EXTENDS KernelNames
=============================================================================
