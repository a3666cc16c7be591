--------------------------- MODULE MCDriverOperator ----------------------------
(* Instances of DriverOperator for TLC: a daemon set and the stateful set. *)
EXTENDS DriverOperator

CONSTANTS daemonset, statefulset, d1, s1, n1, n2

MCOrder == <<daemonset, statefulset>>
MCWorkloadOf == [p \in Pods |-> IF p = s1 THEN statefulset ELSE daemonset]
MCNodeOf == [p \in Pods |-> IF p = s1 THEN n2 ELSE n1]
================================================================================
