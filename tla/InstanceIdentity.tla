-------------------------- MODULE InstanceIdentity --------------------------
(***************************************************************************)
(* What a BOSH instance group promises, whatever runs it: every slot of    *)
(* the group (the place of one pod) that starts has an instance of its     *)
(* own, and each time it starts again it is the same instance.  Processes  *)
(* find that instance in their rendered configuration: index, bootstrap    *)
(* and address belong to one of them.                                      *)
(***************************************************************************)
CONSTANTS
    Slots,      \* the places of the pods
    InstanceOf, \* the instances that a slot may become
    None        \* no instance yet

VARIABLES
    identity,  \* the instance each slot has become
    up         \* the slots whose processes run

Init == identity = [s \in Slots |-> None] /\ up = {}

\* A slot starts as the instance it was, or as one that no slot has.
Start(s, i) ==
    /\ s \notin up
    /\ identity[s] \in {None, i}
    /\ \A other \in Slots \ {s} : identity[other] # i
    /\ identity' = [identity EXCEPT ![s] = i]
    /\ up' = up \cup {s}

Stop(s) ==
    /\ s \in up
    /\ up' = up \ {s}
    /\ UNCHANGED identity

Next == \E s \in Slots : Stop(s) \/ \E i \in InstanceOf[s] : Start(s, i)

Spec == Init /\ [][Next]_<<identity, up>>
=============================================================================
