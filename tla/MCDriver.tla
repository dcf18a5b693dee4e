------------------------------ MODULE MCDriver ------------------------------
(***************************************************************************)
(* Three sockets are what two failed connects and a last one need; two     *)
(* documents give batches of none, one and two.                            *)
(***************************************************************************)
EXTENDS Driver
=============================================================================
