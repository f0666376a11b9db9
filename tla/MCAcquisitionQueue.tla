------------------------- MODULE MCAcquisitionQueue --------------------------
(* AcquisitionQueue for TLC.  A request names one artifact or both; the      *)
(* third request is the one that finds a job already paused.                 *)
EXTENDS AcquisitionQueue, TLC

MCRoutes == {<<a>> : a \in Artifacts}
                \cup {s \in Artifacts \X Artifacts : s[1] # s[2]}
==============================================================================
