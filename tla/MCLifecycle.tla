---------------------------- MODULE MCLifecycle -----------------------------
(* Environments for TLC.                                                   *)
EXTENDS Lifecycle

Minimal == [v \in Variables |-> IF v \in Mandatory THEN "good" ELSE "absent"]
Complete == [v \in Variables |-> "good"]

(* Any two variables of a correct environment are not as they should be.   *)
SomeEnvironments ==
    {[base EXCEPT ![v] = x, ![w] = y] :
        base \in {Minimal, Complete}, v, w \in Variables,
        x, y \in {"absent", "malformed", "good"}}
    \cup {[Minimal EXCEPT !["INSTANCEID"] = "local"]}
=============================================================================
