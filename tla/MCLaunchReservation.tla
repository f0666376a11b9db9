------------------------ MODULE MCLaunchReservation ------------------------
(* LaunchReservation for TLC.  Reservations never meet except through the  *)
(* session lock and the single native session, so two launches make every  *)
(* pairwise race happen; two callers make the binding check matter.        *)
EXTENDS LaunchReservation, TLC
=============================================================================
