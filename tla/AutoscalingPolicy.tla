-------------------------- MODULE AutoscalingPolicy --------------------------
(***************************************************************************)
(* The replica bounds and the CPU target of a deployment, from the request *)
(* (httpapi/handlers.go Deploy, domain/package.go) through the policy      *)
(* (service/autoscaling_policy.go) to the guards of the autoscaler         *)
(* (runtime/kubernetes_driver.go ApplyCPUAutoscaling).                     *)
(***************************************************************************)
EXTENDS Integers

Bounds == [min : Int, max : Int, target : Int]

\* GetPackageSpec: MaxReplicas of each package.
PackageMaxReplicas == [small |-> 3, medium |-> 5, large |-> 10]

IsValidPackage(package) == package \in DOMAIN PackageMaxReplicas

\* Deploy: what the user asked for, where it is within the package.
Asked(package, p) ==
    LET most == PackageMaxReplicas[package]
    IN [min |-> IF p.min > 0 THEN p.min ELSE 1,
        max |-> IF p.max > 0 /\ p.max <= most THEN p.max ELSE most,
        target |-> IF p.target > 0 /\ p.target <= 100 THEN p.target ELSE 70]

\* CPUFirstAutoscalingPolicy.Normalize in mode "horizontal", the only one
\* Deploy asks for: defaults first, then what it refuses.
Defaulted(p) ==
    [min |-> IF p.min <= 0 THEN 2 ELSE p.min,
     max |-> IF p.max <= 0 THEN 10 ELSE p.max,
     target |-> IF p.target <= 0 THEN 65 ELSE p.target]

\* Mutant: the order of the bounds is not checked.
AcceptsUnordered(p) == LET n == Defaulted(p) IN n.target \in 1..100

Accepts(p) ==
    LET n == Defaulted(p)
    IN n.max >= n.min /\ n.target \in 1..100

\* ApplyCPUAutoscaling: the bounds it takes.
AutoscalerTakes(p) ==
    /\ p.min > 0 /\ p.max > 0 /\ p.max >= p.min
    /\ p.target > 0 /\ p.target <= 100

=============================================================================
