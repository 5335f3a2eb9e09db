------------------------- MODULE TrueNASCSILifecycle -------------------------
(***************************************************************************)
(* What the TrueNASCSI reconciler promises about the life of the resource *)
(* and of the cluster-scoped objects it creates for it (the CSIDriver, the *)
(* ClusterRoles and the ClusterRoleBindings), with no reference to passes, *)
(* caches, namespaces or API errors:                                      *)
(*   - the finalizer is on the resource before any cluster object exists; *)
(*   - cluster objects are created only for a resource that still exists; *)
(*   - they are removed only once the resource is being deleted;         *)
(*   - the finalizer is released only when none of them is left, and     *)
(*     with it the API server removes the resource.                      *)
(* TrueNASCSIOperator implements this specification under the refinement  *)
(* mapping given there (Lifecycle).                                       *)
(***************************************************************************)

VARIABLES
    state,       \* "live", "deleting" (deletionTimestamp set) or "gone"
    finalized,   \* the resource carries the operator's finalizer
    objects      \* some cluster-scoped object of the driver exists

vars == <<state, finalized, objects>>

States == {"live", "deleting", "gone"}

TypeOK ==
    /\ state \in States
    /\ finalized \in BOOLEAN
    /\ objects \in BOOLEAN

Init ==
    /\ state = "live"
    /\ finalized = FALSE
    /\ objects = FALSE

\* The reconciler puts its finalizer on a live resource.
AddFinalizer ==
    /\ state = "live" /\ ~finalized
    /\ finalized' = TRUE
    /\ UNCHANGED <<state, objects>>

\* The reconciler creates cluster objects, only under the finalizer; a pass
\* that began before the deletion request may still finish its steps.
Provision ==
    /\ state # "gone" /\ finalized /\ ~objects
    /\ objects' = TRUE
    /\ UNCHANGED <<state, finalized>>

\* Cleanup removes the cluster objects of a resource being deleted.
Unprovision ==
    /\ state = "deleting" /\ objects
    /\ objects' = FALSE
    /\ UNCHANGED <<state, finalized>>

\* The user deletes the resource: it waits for its finalizer if it has one,
\* else the API server removes it at once.
RequestDelete ==
    /\ state = "live"
    /\ state' = IF finalized THEN "deleting" ELSE "gone"
    /\ UNCHANGED <<finalized, objects>>

\* The reconciler releases the finalizer once nothing is left to clean up;
\* the API server then removes the resource.
ReleaseFinalizer ==
    /\ state = "deleting" /\ finalized /\ ~objects
    /\ state' = "gone"
    /\ finalized' = FALSE
    /\ UNCHANGED objects

Next == AddFinalizer \/ Provision \/ Unprovision \/ RequestDelete \/ ReleaseFinalizer

Spec == Init /\ [][Next]_vars

\* What the protocol guarantees: no cluster object outlives the resource, and
\* every cluster object is covered by a finalizer that will clean it up.
NoOrphans == (state = "gone" => ~objects) /\ (objects => finalized)
==============================================================================
