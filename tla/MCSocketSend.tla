---------------------------- MODULE MCSocketSend ----------------------------
(***************************************************************************)
(* Instances of SocketSend for TLC: the buffer and the kernel hold a few   *)
(* bytes, so that every packet can be cut anywhere and the ring wraps.     *)
(***************************************************************************)
EXTENDS SocketRecv
=============================================================================
