------------------------------ MODULE MCMounts ------------------------------
(***************************************************************************)
(* An instance of Mounts for TLC: two characters and two mounts.           *)
(***************************************************************************)
EXTENDS Mounts

CONSTANTS alice, bob, muldo, dragoturkey
=============================================================================
