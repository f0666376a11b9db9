--------------------------- MODULE MCSessionJournal ---------------------------
(* SessionJournal for TLC.  The journal holds one session at a time, so two  *)
(* launches show how a session follows another; the crash and fault bounds   *)
(* let a procedure be interrupted, retried and interrupted again.            *)
EXTENDS SessionJournal, TLC
==============================================================================
