---------------------------- MODULE MCSessionFocus ----------------------------
\* Instance of SessionFocus for TLC: the only constant is the bound on the failures.
EXTENDS SessionFocus

=============================================================================
