------------------------- MODULE OneTimeOperations -------------------------
(***************************************************************************)
(* What a guard of one-time operations promises, whatever its calls,       *)
(* plans, clocks, saves and crashes are: an operation is recorded before   *)
(* it is executed and after everything that comes before it has succeeded, *)
(* it is executed at most once, and the one conclusion that is drawn about *)
(* it is true of what the execution changed.                               *)
(***************************************************************************)
EXTENDS Naturals

CONSTANTS
    Operations,   \* the operations
    Predecessors, \* the operations that must have succeeded before each one
    Programming,  \* the operations that program the key of the target
    Parts         \* the parts of the target that an execution may change

VARIABLES
    record,       \* what is concluded of each operation
    executions,   \* how often each operation was executed
    changes       \* the parts of the target that each operation changed

vars == <<record, executions, changes>>

Conclusions == {"verified", "confirmed_not_applied", "quarantined"}

Init ==
    /\ record = [o \in Operations |-> "none"]
    /\ executions = [o \in Operations |-> 0]
    /\ changes = [o \in Operations |-> {}]

\* The operation is recorded as one that may be executed from now on.
Intend(o) ==
    /\ record[o] = "none"
    /\ \A earlier \in Predecessors[o] : record[earlier] = "verified"
    /\ record' = [record EXCEPT ![o] = "open"]
    /\ UNCHANGED <<executions, changes>>

\* The one execution of the operation, which may do all of its work or not.
Execute(o) ==
    /\ record[o] = "open"
    /\ executions[o] = 0
    /\ executions' = [executions EXCEPT ![o] = 1]
    /\ \E changed \in SUBSET Parts : changes' = [changes EXCEPT ![o] = changed]
    /\ UNCHANGED record

\* A conclusion that is true of the target.  There is none after it.
Conclude(o, conclusion) ==
    /\ record[o] = "open"
    /\ conclusion = "confirmed_not_applied" => changes[o] = {}
    /\ conclusion = "verified" /\ o \in Programming =>
          executions[o] = 1 /\ "security" \in changes[o]
    /\ record' = [record EXCEPT ![o] = conclusion]
    /\ UNCHANGED <<executions, changes>>

Next ==
    \E o \in Operations :
        \/ Intend(o)
        \/ Execute(o)
        \/ \E conclusion \in Conclusions : Conclude(o, conclusion)

Spec == Init /\ [][Next]_vars
=============================================================================
