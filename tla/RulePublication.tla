---------------------------- MODULE RulePublication ----------------------------
(***************************************************************************)
(* What the SLO operator promises about the rules that Prometheus loads    *)
(* (the ConfigMap prometheus-rules, operator/internal/controller/          *)
(* slo_controller.go, steps 3 and 4), whatever caches, queues, conflicts   *)
(* and crashes stand between a resource and its rules: they are always     *)
(* those of one version of one resource that somebody did submit, or the   *)
(* handwritten ones; and as long as one operator works at a time, they     *)
(* never go back to an older version of a resource.                        *)
(*                                                                         *)
(* SLOController is shown to implement this module.                        *)
(***************************************************************************)
EXTENDS Naturals

CONSTANTS
    Resources,      \* names of SLO resources
    Specs,          \* specs users may submit
    Numbers,        \* numbers of versions, all above 0
    None,           \* no rules
    Handwritten,    \* the rules of observability/prometheus/prometheus.yaml
    Serial          \* one operator works at a time

VARIABLES
    versions,       \* every version submitted so far
    reached,        \* the version of a resource that was published last
    rules           \* what Prometheus loads

publication == << versions, reached, rules >>

Versions == [cr : Resources, gen : Numbers, spec : Specs]

Init ==
    /\ versions = {}
    /\ reached = [s \in Resources |-> 0]
    /\ rules \in {None, Handwritten}

(* A user creates or changes a resource: its version is a new one.         *)
Submit(x) ==
    /\ \A y \in versions : y.gen < x.gen
    /\ versions' = versions \cup {x}
    /\ UNCHANGED << reached, rules >>

(* The rules of a version are published.                                   *)
Publish(x) ==
    /\ x \in versions
    /\ Serial => reached[x.cr] <= x.gen
    /\ rules' = << x.cr, x.spec >>
    /\ reached' = [reached EXCEPT ![x.cr] = x.gen]
    /\ UNCHANGED versions

(* The handwritten rules are applied again.                                *)
Overwrite ==
    /\ rules' = Handwritten
    /\ UNCHANGED << versions, reached >>

Next == Overwrite \/ \E x \in Versions : Submit(x) \/ Publish(x)

Spec == Init /\ [][Next]_publication
=============================================================================
