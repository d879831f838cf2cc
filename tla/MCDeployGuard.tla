--------------------------- MODULE MCDeployGuard ---------------------------
(* Instances of DeployGuard for TLC: every deployment is of one stack,     *)
(* except those in Lone, which carry no stack name.                        *)
EXTENDS DeployGuard

CONSTANT Lone

MCStackOf == [d \in Dep |-> IF d \in Lone THEN NoStack ELSE "web"]
=============================================================================
