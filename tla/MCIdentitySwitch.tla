-------------------------- MODULE MCIdentitySwitch ---------------------------
(* IdentitySwitch for TLC.  Two persons and two calls let a switch be        *)
(* followed by one back to the first person, or meet another one.            *)
EXTENDS IdentitySwitch, TLC
==============================================================================
