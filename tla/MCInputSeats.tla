----------------------------- MODULE MCInputSeats -----------------------------
(* An instance of InputSeats for TLC: one launch that is begun and ended again  *)
(* and again; one seat fewer than there are sources.                            *)
EXTENDS InputSeats
=============================================================================
