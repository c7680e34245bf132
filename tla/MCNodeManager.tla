--------------------------- MODULE MCNodeManager ---------------------------
(* Names and first configurations for the runs of NodeManager.             *)
EXTENDS NodeManager

CONSTANTS folder, spare, s1, s2, sim

MCFolders == {folder, spare}
MCSensors == {s1, s2}

\* Like the seed of the server: the sensors and the switch in one folder; with
\* a folder in the folder.
MCSeed  == [n \in {folder, s1, sim} |-> IF n = folder THEN Objects ELSE folder]
MCNested == [n \in {folder, spare, s1, sim} |->
               IF n = folder THEN Objects ELSE IF n = s1 THEN spare ELSE folder]
MCSeed2 == [n \in {folder, s1, s2, sim} |-> IF n = folder THEN Objects ELSE folder]
=============================================================================
