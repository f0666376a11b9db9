---------------------------- MODULE MCSaveHistory ----------------------------
(* TLC instances of SaveHistory.                                            *)
EXTENDS SaveHistory, TLC

DeviceSymmetry == Permutations(Devices)
=============================================================================
