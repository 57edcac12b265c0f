--------------------------- MODULE MCControlPlane ---------------------------
(* Small instances of the control plane for TLC. *)
EXTENDS ControlPlaneProperties

CONSTANTS
    MaxJobs,
    Slots,     \* of every worker
    FastWorker \* has two CPU cores more than the others

MCJobs == 1..MaxJobs
MCSlots == [w \in Workers |-> Slots]
MCCPUCores == [w \in Workers |-> IF w = FastWorker THEN 3 ELSE 1]
MCMemoryGB == [w \in Workers |-> 1]

=============================================================================
