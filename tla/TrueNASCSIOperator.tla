------------------------- MODULE TrueNASCSIOperator -------------------------
(***************************************************************************)
(* The TrueNASCSI operator (operator/internal/controller): one reconciler  *)
(* worker, the TrueNASCSI custom resource in the API server, the           *)
(* controller-runtime informer cache and work queue it reads from, the     *)
(* objects it renders into the cluster, and the actors that act between    *)
(* its API calls: the user (spec edits, deletion, the credentials Secret,  *)
(* deleting a workload) and Kubernetes (pods becoming ready or failing).   *)
(*                                                                         *)
(* Every API call of Reconcile is one step; between two steps any other    *)
(* actor may move.  An API call may fail (budget MaxApiErrors); an Update  *)
(* or Status().Update is refused with a Conflict when the object changed   *)
(* since the reconciler read it (optimistic concurrency on                 *)
(* resourceVersion: the object in the store differs from the copy).        *)
(***************************************************************************)
EXTENDS Naturals, FiniteSets

CONSTANTS
    Namespaces,        \* values spec.namespace may take (getNamespace)
    Configs,           \* abstract content of the rest of the spec (URL, pool, image, ...)
    ManagementStates,  \* values spec.managementState may take
    None,              \* model value: an object that does not exist
    MaxUserOps,        \* bound on user actions other than the deletion
    MaxApiErrors,      \* bound on failed API calls
    MaxFlaps           \* bound on pods dropping out of ready

ASSUME None \notin Namespaces \cup Configs
ASSUME ManagementStates \subseteq {"Managed", "Unmanaged", "Removed"}
ASSUME {MaxUserOps, MaxApiErrors, MaxFlaps} \subseteq Nat

VARIABLES
    cr,          \* the TrueNASCSI object in the API server
    cache,       \* the informer cache's copy of it (what r.Get returns)
    csi,         \* the reconciler's in-memory object (Go variable csi)
    pc,          \* the step of Reconcile the worker is at
    queued,      \* the work queue holds the object's key
    obs,         \* readiness read by updateStatusRunning before its write
    secret,      \* credentials Secret per namespace: "absent", "nokey", "ok"
    nsExists,    \* namespaces that exist
    support,     \* NetworkPolicy / ServiceAccounts present per namespace
    clusterRoles, \* the two ClusterRoles exist
    bindings,    \* namespace whose service accounts the ClusterRoleBindings bind, or None
    csiDriver,   \* the CSIDriver object exists
    configMap,   \* per namespace: Config rendered into the ConfigMap, or None
    deployment,  \* per namespace: Config rendered into the controller Deployment, or None
    daemonset,   \* per namespace: Config rendered into the node DaemonSet, or None
    depReady,    \* per namespace: controller Deployment has ready replicas
    dsReady,     \* per namespace: node DaemonSet has ready pods
    userOps, apiErrors, flaps, \* counters for the bounds
    gaveUp       \* history: the last pass ended in a TerminalError (not requeued)

vars == <<cr, cache, csi, pc, queued, obs, gaveUp, secret, nsExists, support, clusterRoles,
          bindings, csiDriver, configMap, deployment, daemonset, depReady, dsReady,
          userOps, apiErrors, flaps>>
cluster == <<nsExists, support, clusterRoles, bindings, csiDriver, configMap,
             deployment, daemonset>>
env == <<secret, depReady, dsReady, userOps, flaps>>

(***************************************************************************)
(* The resource (api/v1alpha1 TrueNASCSISpec / TrueNASCSIStatus).          *)
(***************************************************************************)
Phases == {"", "Pending", "Running", "Failed"}
ConditionTypes == {"Ready", "Progressing", "Degraded"}
\* conds: the condition types whose status is True (the code never sets one False)
Status == [phase : Phases, conds : SUBSET ConditionTypes, ctrlReady : BOOLEAN,
           nodeReady : BOOLEAN, observedGen : Nat]
Object == [exists : BOOLEAN, deleting : BOOLEAN, finalizer : BOOLEAN, gen : Nat,
           ns : Namespaces, mgmt : ManagementStates, cfg : Configs, status : Status]
EmptyStatus == [phase |-> "", conds |-> {}, ctrlReady |-> FALSE, nodeReady |-> FALSE,
                observedGen |-> 0]
SecretStates == {"absent", "nokey", "ok"}
Steps == {"idle", "addFinalizer", "setPending", "validate", "namespace", "netpol",
          "serviceAccounts", "rbac", "csidriver", "configmap", "deployment",
          "daemonset", "statusGet", "statusWrite", "cleanup", "removeFinalizer"}

\* getNamespace: spec.namespace, defaulted by the CRD to truenas-csi
getNamespace(o) == o.ns

\* The outcomes of one API call: it may fail while the error budget lasts.
Fails == IF apiErrors < MaxApiErrors THEN {FALSE, TRUE} ELSE {FALSE}
CountError(fail) == apiErrors' = apiErrors + (IF fail THEN 1 ELSE 0)

\* Reconcile returns: back to the queue's wait; requeue when it returned an
\* error or a RequeueAfter, else only a later watch event brings the key back.
Finish(requeue) == /\ pc' = "idle"
                   /\ queued' = (queued \/ requeue)

\* r.Update(csi): accepted only when the stored object is the one read.
Update(fail, new) == /\ ~fail
                     /\ cr = csi
                     /\ cr' = new
                     /\ csi' = new

\* r.Status().Update(csi): same optimistic concurrency, writes the status only.
StatusUpdate(fail, s) ==
    IF ~fail /\ cr = csi THEN cr' = [csi EXCEPT !.status = s] ELSE UNCHANGED cr

(***************************************************************************)
(* Reconcile, lines 65-112: read the cached object and dispatch.           *)
(***************************************************************************)
\* Mutant: the pass goes on to the resource steps without adding the finalizer.
DispatchWithoutFinalizer(o) ==
    CASE ~o.exists                  -> "idle"
      [] o.mgmt = "Unmanaged"       -> "idle"
      [] o.deleting /\ o.finalizer  -> "cleanup"
      [] o.deleting                 -> "idle"
      [] o.status.phase = ""        -> "setPending"
      [] OTHER                      -> "validate"

Dispatch(o) ==
    CASE ~o.exists                  -> "idle"     \* not found: ignore
      [] o.mgmt = "Unmanaged"       -> "idle"     \* skip reconciliation
      [] o.deleting /\ o.finalizer  -> "cleanup"
      [] o.deleting                 -> "idle"
      [] ~o.finalizer               -> "addFinalizer"
      [] o.status.phase = ""        -> "setPending"
      [] OTHER                      -> "validate"

Reconcile ==
    /\ pc = "idle" /\ queued
    /\ csi' = cache
    /\ pc' = Dispatch(cache)
    /\ queued' = FALSE
    /\ gaveUp' = FALSE
    /\ UNCHANGED <<cr, cache, obs, cluster, env, apiErrors>>

\* Lines 98-104: AddFinalizer and r.Update; an error is returned (requeue).
AfterFinalizer(o) == IF o.status.phase = "" THEN "setPending" ELSE "validate"

AddFinalizer ==
    /\ pc = "addFinalizer"
    /\ \E fail \in Fails :
         /\ CountError(fail)
         /\ \/ /\ Update(fail, [csi EXCEPT !.finalizer = TRUE])
               /\ pc' = AfterFinalizer(csi')
               /\ UNCHANGED queued
            \/ /\ fail \/ cr # csi
               /\ Finish(TRUE)
               /\ UNCHANGED <<cr, csi>>
    /\ UNCHANGED <<cache, obs, gaveUp, cluster, env>>

\* Lines 106-112: phase "" becomes Pending through Status().Update.
SetInitialPhase ==
    /\ pc = "setPending"
    /\ \E fail \in Fails :
         /\ CountError(fail)
         /\ StatusUpdate(fail, [csi.status EXCEPT !.phase = "Pending"])
         /\ IF ~fail /\ cr = csi
              THEN /\ csi' = cr' /\ pc' = "validate" /\ UNCHANGED queued
              ELSE /\ Finish(TRUE) /\ UNCHANGED csi
    /\ UNCHANGED <<cache, obs, gaveUp, cluster, env>>

(***************************************************************************)
(* updateStatusFailed, lines 183-197: Phase Failed, ObservedGeneration and *)
(* Degraded=True through Status().Update, whose own failure is only        *)
(* logged; the error is returned (requeue) unless it is terminal.  `used`  *)
(* counts the API error of the call that failed before it.                 *)
(***************************************************************************)
FailedStatus(o) == [o.status EXCEPT !.phase = "Failed", !.observedGen = o.gen,
                                    !.conds = @ \cup {"Degraded"}]

updateStatusFailed(requeue, used) ==
    /\ \E wfail \in IF apiErrors + used < MaxApiErrors THEN BOOLEAN ELSE {FALSE} :
         /\ StatusUpdate(wfail, FailedStatus(csi))
         /\ apiErrors' = apiErrors + used + (IF wfail THEN 1 ELSE 0)
    /\ Finish(requeue)
    /\ gaveUp' = ~requeue
    /\ UNCHANGED csi

\* IsConfigurationError (constants.go 179-184): a Secret without the api-key
\* is permanent (TerminalError, no requeue); a missing Secret is retried.
\* An invalid URL is refused at admission by the CRD pattern ^wss?:// and
\* never reaches the reconciler.
IsConfigurationError(s) == s = "nokey"

\* Lines 114-129 with Validator.ValidateCredentials (validation.go 49-66):
\* the Secret is looked up in the CSI namespace.
Validate ==
    /\ pc = "validate"
    /\ LET s == secret[getNamespace(csi)] IN
         \/ /\ s = "ok"
            /\ pc' = "namespace"
            /\ UNCHANGED <<cr, csi, queued, apiErrors, gaveUp>>
         \/ /\ s # "ok"
            /\ updateStatusFailed(~IsConfigurationError(s), 0)
    /\ UNCHANGED <<cache, obs, cluster, env>>

(***************************************************************************)
(* Lines 131-178: the resource steps, each one API exchange on the object  *)
(* it renders in the namespace of the in-memory spec; an error goes to     *)
(* updateStatusFailed and is returned.                                     *)
(***************************************************************************)
ResourceStep(from, to, effect(_)) ==
    /\ pc = from
    /\ \/ /\ effect(getNamespace(csi))
          /\ pc' = to
          /\ UNCHANGED <<cr, csi, queued, apiErrors, gaveUp>>
       \/ /\ apiErrors < MaxApiErrors
          /\ updateStatusFailed(TRUE, 1)
          /\ UNCHANGED cluster
    /\ UNCHANGED <<cache, obs, env>>

\* reconcileNamespace (284-299): Get, and Create on NotFound
CreateNamespace(n) ==
    /\ nsExists' = nsExists \cup {n}
    /\ UNCHANGED <<support, clusterRoles, bindings, csiDriver, configMap, deployment, daemonset>>
reconcileNamespace == ResourceStep("namespace", "netpol", CreateNamespace)

\* reconcileNetworkPolicy (301-325), reconcileServiceAccounts (327-349): CreateOrUpdate
AddSupport(kind, n) ==
    /\ support' = [support EXCEPT ![n] = @ \cup {kind}]
    /\ UNCHANGED <<nsExists, clusterRoles, bindings, csiDriver, configMap, deployment, daemonset>>
reconcileNetworkPolicy ==
    ResourceStep("netpol", "serviceAccounts", LAMBDA n : AddSupport("NetworkPolicy", n))
reconcileServiceAccounts ==
    ResourceStep("serviceAccounts", "rbac", LAMBDA n : AddSupport("ServiceAccounts", n))

\* reconcileRBAC (351-439): the ClusterRoles, then the ClusterRoleBindings whose
\* subjects are the service accounts of the CSI namespace; a failure may come
\* after the roles were written.
reconcileRBAC ==
    /\ pc = "rbac"
    /\ \/ /\ clusterRoles' = TRUE
          /\ bindings' = getNamespace(csi)
          /\ pc' = "csidriver"
          /\ UNCHANGED <<cr, csi, queued, apiErrors, gaveUp>>
       \/ /\ apiErrors < MaxApiErrors
          /\ \E rolesWritten \in BOOLEAN : clusterRoles' = (clusterRoles \/ rolesWritten)
          /\ updateStatusFailed(TRUE, 1)
          /\ UNCHANGED bindings
    /\ UNCHANGED <<cache, obs, env, nsExists, support, csiDriver, configMap, deployment, daemonset>>

\* reconcileCSIDriver (441-471): Create on NotFound; an existing one is left alone
reconcileCSIDriver == ResourceStep("csidriver", "configmap", LAMBDA n :
    /\ csiDriver' = TRUE
    /\ UNCHANGED <<nsExists, support, clusterRoles, bindings, configMap, deployment, daemonset>>)

\* Mutant: the ConfigMap is created once and never updated.
RenderConfigMapCreateOnly(n) ==
    /\ configMap' = [configMap EXCEPT ![n] = IF @ = None THEN csi.cfg ELSE @]
    /\ UNCHANGED <<nsExists, support, clusterRoles, bindings, csiDriver, deployment, daemonset>>

\* reconcileConfigMap (473-496): CreateOrUpdate with the spec's settings
RenderConfigMap(n) ==
    /\ configMap' = [configMap EXCEPT ![n] = csi.cfg]
    /\ UNCHANGED <<nsExists, support, clusterRoles, bindings, csiDriver, deployment, daemonset>>
reconcileConfigMap == ResourceStep("configmap", "deployment", RenderConfigMap)

\* reconcileControllerDeployment (498-539), reconcileNodeDaemonSet (541-584)
RenderDeployment(n) ==
    /\ deployment' = [deployment EXCEPT ![n] = csi.cfg]
    /\ UNCHANGED <<nsExists, support, clusterRoles, bindings, csiDriver, configMap, daemonset>>
reconcileControllerDeployment == ResourceStep("deployment", "daemonset", RenderDeployment)
RenderDaemonSet(n) ==
    /\ daemonset' = [daemonset EXCEPT ![n] = csi.cfg]
    /\ UNCHANGED <<nsExists, support, clusterRoles, bindings, csiDriver, configMap, deployment>>
reconcileNodeDaemonSet == ResourceStep("daemonset", "statusGet", RenderDaemonSet)

(***************************************************************************)
(* updateStatusRunning, lines 199-253: Get the Deployment and the          *)
(* DaemonSet (NotFound: RequeueAfterPending without a status write; another *)
(* error is returned), then write the status from the readiness read.      *)
(***************************************************************************)
updateStatusRunningGet ==
    /\ pc = "statusGet"
    /\ LET n == getNamespace(csi) IN
         \/ /\ deployment[n] # None /\ daemonset[n] # None
            /\ obs' = [ctrl |-> depReady[n], node |-> dsReady[n]]
            /\ pc' = "statusWrite"
            /\ UNCHANGED <<queued, apiErrors>>
         \/ /\ deployment[n] = None \/ daemonset[n] = None
            /\ Finish(TRUE)
            /\ UNCHANGED <<obs, apiErrors>>
         \/ /\ apiErrors < MaxApiErrors
            /\ apiErrors' = apiErrors + 1
            /\ Finish(TRUE)
            /\ UNCHANGED obs
    /\ UNCHANGED <<cr, cache, csi, gaveUp, cluster, env>>

\* Mutant: the phase is set to the Ready condition's name.
RunningStatusPhaseReady(o, ctrl, node) ==
    LET base == [o.status EXCEPT !.ctrlReady = ctrl, !.nodeReady = node,
                                 !.observedGen = o.gen]
    IN IF ctrl /\ node
         THEN [base EXCEPT !.phase = "Ready", !.conds = (@ \cup {"Ready"}) \ {"Degraded"}]
         ELSE [base EXCEPT !.phase = "Pending", !.conds = @ \cup {"Progressing"}]

\* Lines 222-245: Running with Ready=True and Degraded removed when both are
\* ready, else Pending with Progressing=True; no condition is ever set False.
RunningStatus(o, ctrl, node) ==
    LET base == [o.status EXCEPT !.ctrlReady = ctrl, !.nodeReady = node,
                                 !.observedGen = o.gen]
    IN IF ctrl /\ node
         THEN [base EXCEPT !.phase = "Running", !.conds = (@ \cup {"Ready"}) \ {"Degraded"}]
         ELSE [base EXCEPT !.phase = "Pending", !.conds = @ \cup {"Progressing"}]

\* Mutant: a successful status write ends the pass without RequeueAfter.
updateStatusRunningWriteOnce ==
    /\ pc = "statusWrite"
    /\ \E fail \in Fails :
         /\ CountError(fail)
         /\ StatusUpdate(fail, RunningStatus(csi, obs.ctrl, obs.node))
         /\ Finish(fail \/ cr # csi)
    /\ UNCHANGED <<cache, csi, obs, gaveUp, cluster, env>>

\* Lines 247-253: Status().Update; RequeueAfterRunning, or the error returned
updateStatusRunningWrite ==
    /\ pc = "statusWrite"
    /\ \E fail \in Fails :
         /\ CountError(fail)
         /\ StatusUpdate(fail, RunningStatus(csi, obs.ctrl, obs.node))
    /\ Finish(TRUE)
    /\ UNCHANGED <<cache, csi, obs, gaveUp, cluster, env>>

(***************************************************************************)
(* cleanupResources, lines 256-282: delete the CSIDriver, the two          *)
(* ClusterRoleBindings and the two ClusterRoles in that order; NotFound is *)
(* tolerated, another error is returned with the earlier deletes done.     *)
(***************************************************************************)
CleanupPresent == <<csiDriver, bindings # None, clusterRoles>>

\* r.Delete's result when the API call itself does not fail
DeleteResult(present) == IF present THEN "deleted" ELSE "notfound"
\* Mutant: NotFound is not tolerated.
DeleteOKStrict(result) == result = "deleted"

\* err == nil || apierrors.IsNotFound(err)
DeleteOK(result) == result \in {"deleted", "notfound"}

RemoveClusterObjects(k) ==  \* the first k deletes done
    /\ csiDriver' = (csiDriver /\ k < 1)
    /\ bindings' = IF k >= 2 THEN None ELSE bindings
    /\ clusterRoles' = (clusterRoles /\ k < 3)

\* Mutant: a failed delete is logged and the loop goes on.
cleanupResourcesLoggingErrors ==
    /\ pc = "cleanup"
    /\ \E k \in 0..3 :
         /\ RemoveClusterObjects(k)
         /\ k < 3 => apiErrors < MaxApiErrors
         /\ apiErrors' = apiErrors + (IF k < 3 THEN 1 ELSE 0)
    /\ pc' = "removeFinalizer"
    /\ UNCHANGED <<cr, cache, csi, queued, obs, gaveUp, env, nsExists, support, configMap,
                   deployment, daemonset>>

cleanupResources ==
    /\ pc = "cleanup"
    /\ \E k \in 0..3 :
         /\ \A i \in 1..k : DeleteOK(DeleteResult(CleanupPresent[i]))
         /\ RemoveClusterObjects(k)
         /\ IF k = 3
              THEN /\ pc' = "removeFinalizer"
                   /\ UNCHANGED <<queued, apiErrors>>
              ELSE \* delete k+1 fails: an API error, or an error of its own
                   LET apiError == DeleteOK(DeleteResult(CleanupPresent[k + 1])) IN
                   /\ apiError => apiErrors < MaxApiErrors
                   /\ apiErrors' = apiErrors + (IF apiError THEN 1 ELSE 0)
                   /\ Finish(TRUE)
    /\ UNCHANGED <<cr, cache, csi, obs, gaveUp, env, nsExists, support, configMap, deployment, daemonset>>

\* Lines 85-96: RemoveFinalizer and r.Update; with no finalizer left the API
\* server removes the object that is being deleted.
RemoveFinalizer ==
    /\ pc = "removeFinalizer"
    /\ \E fail \in Fails :
         /\ CountError(fail)
         /\ \/ /\ Update(fail, [csi EXCEPT !.finalizer = FALSE, !.exists = FALSE])
               /\ Finish(FALSE)
            \/ /\ fail \/ cr # csi
               /\ Finish(TRUE)
               /\ UNCHANGED <<cr, csi>>
    /\ UNCHANGED <<cache, obs, gaveUp, cluster, env>>

Operator ==
    \/ Reconcile \/ AddFinalizer \/ SetInitialPhase \/ Validate
    \/ reconcileNamespace \/ reconcileNetworkPolicy \/ reconcileServiceAccounts
    \/ reconcileRBAC \/ reconcileCSIDriver \/ reconcileConfigMap
    \/ reconcileControllerDeployment \/ reconcileNodeDaemonSet
    \/ updateStatusRunningGet \/ updateStatusRunningWrite
    \/ cleanupResources \/ RemoveFinalizer

(***************************************************************************)
(* The environment.                                                        *)
(***************************************************************************)
\* The informer delivers the stored object to the cache and, on any change
\* (status included: SetupWithManager, lines 760-767, sets no predicate),
\* enqueues its key.  Owns(Deployment/DaemonSet) never enqueues it: the code
\* sets no owner reference on the objects it creates.
CacheSync ==
    /\ cache # cr
    /\ cache' = cr
    /\ queued' = TRUE
    /\ UNCHANGED <<cr, csi, pc, obs, gaveUp, cluster, env, apiErrors>>

\* kubectl edit: a new namespace, management state or configuration; the API
\* server bumps metadata.generation.
UserEditSpec ==
    /\ cr.exists /\ userOps < MaxUserOps
    /\ \E n \in Namespaces, m \in ManagementStates, c \in Configs :
         /\ <<n, m, c>> # <<cr.ns, cr.mgmt, cr.cfg>>
         /\ cr' = [cr EXCEPT !.ns = n, !.mgmt = m, !.cfg = c, !.gen = @ + 1]
    /\ userOps' = userOps + 1
    /\ UNCHANGED <<cache, csi, pc, queued, obs, gaveUp, cluster, secret, depReady, dsReady,
                   apiErrors, flaps>>

\* kubectl delete truenascsi: a finalizer holds the object with a
\* deletionTimestamp, otherwise it is removed at once.
UserDelete ==
    /\ cr.exists /\ ~cr.deleting
    /\ cr' = IF cr.finalizer THEN [cr EXCEPT !.deleting = TRUE]
                             ELSE [cr EXCEPT !.exists = FALSE]
    /\ UNCHANGED <<cache, csi, pc, queued, obs, gaveUp, cluster, env, apiErrors>>

\* oc create namespace / oc create secret (install guide): the user creates,
\* fixes or deletes the credentials Secret of a namespace.
UserSetSecret ==
    /\ userOps < MaxUserOps
    /\ \E n \in Namespaces, s \in SecretStates :
         /\ s # secret[n]
         /\ secret' = [secret EXCEPT ![n] = s]
         /\ nsExists' = nsExists \cup (IF s = "absent" THEN {} ELSE {n})
    /\ userOps' = userOps + 1
    /\ UNCHANGED <<cr, cache, csi, pc, queued, obs, gaveUp, support, clusterRoles, bindings,
                   csiDriver, configMap, deployment, daemonset, depReady, dsReady,
                   apiErrors, flaps>>

\* Someone deletes the controller Deployment or the node DaemonSet.
UserDeleteWorkload ==
    /\ userOps < MaxUserOps
    /\ \E n \in Namespaces :
         \/ /\ deployment[n] # None
            /\ deployment' = [deployment EXCEPT ![n] = None]
            /\ depReady' = [depReady EXCEPT ![n] = FALSE]
            /\ UNCHANGED <<daemonset, dsReady>>
         \/ /\ daemonset[n] # None
            /\ daemonset' = [daemonset EXCEPT ![n] = None]
            /\ dsReady' = [dsReady EXCEPT ![n] = FALSE]
            /\ UNCHANGED <<deployment, depReady>>
    /\ userOps' = userOps + 1
    /\ UNCHANGED <<cr, cache, csi, pc, queued, obs, gaveUp, secret, nsExists, support,
                   clusterRoles, bindings, csiDriver, configMap, apiErrors, flaps>>

\* Kubernetes starts the pods of a workload: they run as the service accounts
\* the operator created in that namespace, and their containers take
\* TRUENAS_API_KEY from the Secret's api-key and TRUENAS_URL from the
\* ConfigMap (buildTrueNASEnvVars, both not optional), so a container is not
\* started while either is missing.
PodsReady ==
    \E n \in Namespaces :
       /\ "ServiceAccounts" \in support[n]
       /\ secret[n] = "ok" /\ configMap[n] # None
       /\ \/ /\ deployment[n] # None /\ ~depReady[n]
             /\ depReady' = [depReady EXCEPT ![n] = TRUE]
             /\ UNCHANGED dsReady
          \/ /\ daemonset[n] # None /\ ~dsReady[n]
             /\ dsReady' = [dsReady EXCEPT ![n] = TRUE]
             /\ UNCHANGED depReady
       /\ UNCHANGED <<cr, cache, csi, pc, queued, obs, gaveUp, cluster, secret, userOps,
                      apiErrors, flaps>>

\* A pod crashes or is evicted.
PodsFail ==
    /\ flaps < MaxFlaps
    /\ \E n \in Namespaces :
         \/ /\ depReady[n]
            /\ depReady' = [depReady EXCEPT ![n] = FALSE]
            /\ UNCHANGED dsReady
         \/ /\ dsReady[n]
            /\ dsReady' = [dsReady EXCEPT ![n] = FALSE]
            /\ UNCHANGED depReady
    /\ flaps' = flaps + 1
    /\ UNCHANGED <<cr, cache, csi, pc, queued, obs, gaveUp, cluster, secret, userOps, apiErrors>>

Environment ==
    \/ CacheSync \/ UserEditSpec \/ UserDelete \/ UserSetSecret
    \/ UserDeleteWorkload \/ PodsReady \/ PodsFail

(***************************************************************************)
(* The operator starts with a TrueNASCSI just created (no finalizer, empty *)
(* status) and whatever Secrets the user created beforehand.               *)
(***************************************************************************)
Init ==
    /\ \E n \in Namespaces, m \in ManagementStates, c \in Configs :
         cr = [exists |-> TRUE, deleting |-> FALSE, finalizer |-> FALSE, gen |-> 1,
               ns |-> n, mgmt |-> m, cfg |-> c, status |-> EmptyStatus]
    /\ cache = cr /\ csi = cr
    /\ pc = "idle" /\ queued = TRUE
    /\ obs = [ctrl |-> FALSE, node |-> FALSE]
    /\ secret \in [Namespaces -> SecretStates]
    /\ nsExists = {n \in Namespaces : secret[n] # "absent"}
    /\ support = [n \in Namespaces |-> {}]
    /\ clusterRoles = FALSE /\ bindings = None /\ csiDriver = FALSE
    /\ configMap = [n \in Namespaces |-> None]
    /\ deployment = [n \in Namespaces |-> None]
    /\ daemonset = [n \in Namespaces |-> None]
    /\ depReady = [n \in Namespaces |-> FALSE]
    /\ dsReady = [n \in Namespaces |-> FALSE]
    /\ userOps = 0 /\ apiErrors = 0 /\ flaps = 0
    /\ gaveUp = FALSE

Next == Operator \/ Environment

\* The worker runs whenever it has work, the informer delivers every change,
\* and the kubelet starts the pods; the user is under no obligation.
Fairness == WF_vars(Operator) /\ WF_vars(CacheSync) /\ WF_vars(PodsReady)

Spec == Init /\ [][Next]_vars /\ Fairness

(***************************************************************************)
(* Properties.                                                             *)
(***************************************************************************)
TypeOK ==
    /\ cr \in Object /\ cache \in Object /\ csi \in Object
    /\ pc \in Steps /\ queued \in BOOLEAN
    /\ obs \in [ctrl : BOOLEAN, node : BOOLEAN]
    /\ secret \in [Namespaces -> SecretStates]
    /\ nsExists \subseteq Namespaces
    /\ support \in [Namespaces -> SUBSET {"NetworkPolicy", "ServiceAccounts"}]
    /\ clusterRoles \in BOOLEAN /\ csiDriver \in BOOLEAN
    /\ bindings \in Namespaces \cup {None}
    /\ {configMap, deployment, daemonset} \subseteq [Namespaces -> Configs \cup {None}]
    /\ {depReady, dsReady} \subseteq [Namespaces -> BOOLEAN]
    /\ userOps \in 0..MaxUserOps /\ apiErrors \in 0..MaxApiErrors /\ flaps \in 0..MaxFlaps
    /\ gaveUp \in BOOLEAN

\* The finalizer (FinalizerName, "used to clean up resources"): once the
\* TrueNASCSI is gone, none of the cluster-scoped objects the operator made
\* (CSIDriver, ClusterRoles, ClusterRoleBindings) is left behind, whatever
\* deletes of cleanupResources failed and were retried on the way.
NoLeakedClusterObjects ==
    ~cr.exists => (~csiDriver /\ ~clusterRoles /\ bindings = None)

\* A status that reports Running for the current generation was written by
\* a pass that rendered that generation: the ConfigMap, Deployment and
\* DaemonSet of the spec's namespace carry the spec's configuration (the
\* workloads may since have been deleted by hand).
RunningStatusIsCurrent ==
    (cr.exists /\ cr.status.phase = "Running" /\ cr.status.observedGen = cr.gen)
      => LET n == getNamespace(cr) IN
           /\ configMap[n] = cr.cfg
           /\ deployment[n] \in {cr.cfg, None}
           /\ daemonset[n] \in {cr.cfg, None}

\* Deleting a managed TrueNASCSI eventually removes it: cleanupResources is
\* retried until it gets through (NotFound on an object already deleted by an
\* earlier attempt is tolerated) and the finalizer is then removed.
DeletionCompletesWhileManaged ==
    (cr.deleting /\ cr.mgmt # "Unmanaged") ~> (~cr.exists \/ cr.mgmt = "Unmanaged")

Healthy ==
    /\ cr.exists /\ ~cr.deleting /\ cr.mgmt # "Unmanaged"
    /\ secret[getNamespace(cr)] = "ok"
    /\ ~gaveUp
Synced ==
    LET n == getNamespace(cr) IN
    /\ cr.status.phase = "Running" /\ cr.status.observedGen = cr.gen
    /\ cr.status.ctrlReady /\ cr.status.nodeReady
    /\ configMap[n] = cr.cfg /\ deployment[n] = cr.cfg /\ daemonset[n] = cr.cfg
    /\ csiDriver /\ clusterRoles /\ bindings = n

\* Once the user stops, a managed TrueNASCSI with valid credentials that the
\* reconciler has not given up on ends up, and stays, fully deployed in its
\* namespace with a Running status for its current generation: the periodic
\* requeues (RequeueAfterRunning/Pending/Error) repair what failed or changed.
Converges == <>[](Healthy => Synced)

\* The Ready condition (docs/openshift/upgrade.md: "Ready: All components are
\* running") is True only while the status reports both the controller and
\* the node pods ready. updateStatus writes ctrlReady/nodeReady from the
\* workloads on every pass, but sets Ready only on the Running branch and
\* leaves it in place on the Pending branch, after a pod has failed.
ReadyConditionTruthful ==
    "Ready" \in cr.status.conds => (cr.status.ctrlReady /\ cr.status.nodeReady)

\* Every driver workload in the cluster runs as service accounts that the
\* ClusterRoleBindings bind to the driver's ClusterRoles.
WorkloadsBound ==
    \A n \in Namespaces :
       (deployment[n] # None \/ daemonset[n] # None) => (clusterRoles /\ bindings = n)

\* Deleting a TrueNASCSI eventually removes it.
DeletionCompletes == cr.deleting ~> ~cr.exists

\* A pass that gave up with a TerminalError (lines 119-126: a Secret without
\* api-key) and that no later event will retry leaves the failure visible:
\* the stored status reports phase Failed with Degraded ("Reconciliation
\* failed", docs/openshift/upgrade.md). updateStatusFailed only logs a failed
\* Status().Update, and the terminal error is never retried.
TerminalFailureReported ==
    (gaveUp /\ pc = "idle" /\ ~queued /\ cache = cr /\ cr.exists)
      => (cr.status.phase = "Failed" /\ "Degraded" \in cr.status.conds)

(***************************************************************************)
(* Refinement: the reconciler implements the lifecycle promised by        *)
(* TrueNASCSILifecycle. The abstract state is read off the stored object  *)
(* and the cluster-scoped objects; every other step is a stuttering step.  *)
(***************************************************************************)
Lifecycle == INSTANCE TrueNASCSILifecycle
    WITH state     <- IF ~cr.exists THEN "gone"
                      ELSE IF cr.deleting THEN "deleting" ELSE "live",
         finalized <- cr.exists /\ cr.finalizer,
         objects   <- csiDriver \/ clusterRoles \/ bindings # None

\* The finalizer protocol of Reconcile (lines 79-104) and cleanupResources
\* (256-282): every behaviour of the reconciler, with stale caches, API
\* errors, conflicts and user edits, is a behaviour of TrueNASCSILifecycle.
LifecycleRefined == Lifecycle!Spec
====
