----------------------- MODULE MCExtendedStatefulSet -----------------------
(***************************************************************************)
(* Model values for the runs of ExtendedStatefulSet.                       *)
(***************************************************************************)
EXTENDS ExtendedStatefulSet

\* The template scales up and keeps its volume claims.
ScaleUp == <<[replicas |-> 1, volumes |-> TRUE], [replicas |-> 2, volumes |-> TRUE]>>

\* The template scales down.
ScaleDown == <<[replicas |-> 2, volumes |-> TRUE], [replicas |-> 1, volumes |-> TRUE]>>

\* No volume claims.
NoVolumes == <<[replicas |-> 1, volumes |-> FALSE], [replicas |-> 1, volumes |-> FALSE]>>
=============================================================================
