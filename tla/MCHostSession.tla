---------------------------- MODULE MCHostSession ----------------------------
(* HostSession for TLC: two launches, so that one can replace the other      *)
(* while a stop of the first is still running, and one client besides the    *)
(* workers that stop.                                                        *)
EXTENDS HostSession, TLC
==============================================================================
