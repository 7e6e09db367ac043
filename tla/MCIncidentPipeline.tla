------------------------ MODULE MCIncidentPipeline --------------------------
(* Small instances of the pipeline.  m1 carries two clusters and shares f1 *)
(* with m2, which belongs to another Alertmanager group, and with m3, which*)
(* follows or precedes m1 in its own; MCParseable gives m3 a body the      *)
(* worker cannot parse.                                                    *)
EXTENDS IncidentPipeline, TLC

CONSTANTS w1, w2, m1, m2, m3, f1, f2

MCGroups == {"g1", "g2"}
MCGroup == [m \in Messages |-> IF m = m2 THEN "g2" ELSE "g1"]
MCClusters == [m \in Messages |-> IF m = m1 THEN {f1, f2} ELSE {f1}]
MCParseable == Messages \ {m3}
MCSuppressed == IF m1 \in Messages THEN {<<m1, f2>>} \intersect (Messages \X Fingerprints) ELSE {}

WorkerSymmetry == Permutations(Workers)
=============================================================================
