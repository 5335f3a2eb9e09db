# TLA+ models of truenas-csi

This directory holds TLA+ models of the TrueNAS CSI repository and the TLC
configurations that check them. Each module translates the Go code under
`src/`. `PROJECT.json` maps every definition that models code to the source
lines it stands for. It also lists the runs, the mutants that show each
property can fail, the findings and the hazards.

## 1. The system and its parts

| Part | Source | State it keeps | Operations |
|---|---|---|---|
| TrueNASCSI reconciler | `operator/internal/controller/truenascsi_controller.go`, `constants.go` | None of its own between passes; per pass, the in-memory copy `csi` | `Reconcile`, `updateStatusFailed`, `updateStatusRunning`, `cleanupResources`, eight `reconcile*` resource steps, `SetupWithManager` |
| Validation | `validation.go` | none | `ValidateURL`, `ValidateCredentials` |
| API types | `src/unnamed/part_002` (truenascsi_types.go) | The TrueNASCSI spec and status | none |
| Helpers and builders | `src/unnamed/part_003` (helpers.go), `volumes.go`, `constants.go`, builders in the controller | none (pure rendering) | env, container, volume, pod template and RBAC builders, `ComponentLabels`, image, log level and replica defaults, `extractImageTag` |
| Appliance client: Transport, RPC core, Session, Resource clients, Volume orchestrator | not under `src/`; only their tests (`pkg/client/*_test.go`) and the mock appliance are | A pending-call map, the connection state, appliance objects | See `spec.md` §4 |

How the parts interact:

- **Inputs.** The user creates a TrueNASCSI object, a cluster-scoped custom resource, together with a credentials Secret.
- **What the operator renders** in the namespace named by `spec.namespace`:
  - a Namespace;
  - a NetworkPolicy;
  - the ServiceAccounts;
  - the ConfigMap;
  - the controller Deployment;
  - the node DaemonSet.
- **Cluster-scoped objects it renders:** the ClusterRoles, the ClusterRoleBindings and the CSIDriver.
- **How Reconcile runs.** Reconcile is driven by controller-runtime:
  - Reconcile reads the object from the informer cache.
  - One worker handles the key at a time.
  - Any change to the object re-enqueues the key. This includes status changes, because no predicate is set.
  - A returned error or `RequeueAfter` re-enqueues the key too.
  - A `TerminalError` does not.
- **Writes.** `r.Update` and `Status().Update` are refused with a Conflict when the object has changed since it was read.
- **What the driver pods do.** They run the appliance client against the TrueNAS JSON-RPC API.

Behaviour that is hard to get right:

- the cache lagging behind the API server;
- the user editing between two API calls of one pass;
- API errors part way through a pass or a cleanup;
- retries of steps that already succeeded;
- the finalizer protocol on deletion;
- the Unmanaged state;
- status conditions that are only ever set True;
- namespaced workloads that no owner reference ties to the resource.

## 2. Modules

| Module | Models |
|---|---|
| `TrueNASCSIOperator` | The reconciler, the API server's copy of the TrueNASCSI object, the informer cache and work queue, and the objects the operator renders. Also the environment: user edits, deletion, Secret changes, deleting a workload, and pods becoming ready or failing. |
| `MC_TrueNASCSIOperator` | Model values for namespaces and configurations, and a symmetry set. |
| `TrueNASCSILifecycle` | The abstract finalizer lifecycle the reconciler promises: the resource is live, deleting or gone, carries the finalizer or not, and some cluster-scoped object exists or not. |
| `TrueNASCSIManifests` | What the operator renders for a spec: containers, volumes, mounts, env, pod templates, ClusterRoles and bindings, the operator's own RBAC markers, and `ValidateURL`. |
| `MC_TrueNASCSIManifests` | Bounded sets of spec values: namespaces, Secret names, images, URLs, log levels, replica counts, and the operator's sidecar image environment. |

### How TrueNASCSIOperator corresponds to the code

**The object** is `cr`. It holds `exists` and `deleting` (the deletionTimestamp), `finalizer`, `gen` (metadata.generation), the spec fields `ns`, `mgmt` and `cfg`, and the `status`. `cfg` stands for all the other spec fields (URL, pool, images and so on) as one model value, because the operator only copies them into the objects it renders.

**The reconciler's copies.** `cache` is what `r.Get` returns. `csi` is the Go variable `csi` of the pass.

**The pass.** `pc` is the step the pass has reached. Each step is one API call and therefore one action, so any other actor may move between two steps.

| Action | Code |
|---|---|
| `Reconcile` | The read from the cache at lines 66-76, then the dispatch (`Dispatch`) on NotFound, Unmanaged, deletion, a missing finalizer and an empty phase at lines 78-112. |
| `AddFinalizer`, `SetInitialPhase` | `r.Update` and `Status().Update` at lines 98-112. |
| `Validate` | Lines 114-129 together with `ValidateCredentials`. A missing Secret is transient and requeued. A Secret without `api-key` is a `TerminalError`, which sets `gaveUp`. |
| `reconcileNamespace` … `reconcileNodeDaemonSet` | The eight resource steps at lines 131-178, through `ResourceStep`. Success moves on; an error goes through `updateStatusFailed` and requeues. `reconcileRBAC` is written as its own action because it can fail after writing the roles. |
| `updateStatusRunningGet`, `updateStatusRunningWrite` | `updateStatusRunning` at lines 199-253. |
| `cleanupResources`, `RemoveFinalizer` | Lines 84-96 and 256-282. Deleting an object that is already absent is tolerated, because `DeleteOK` accepts NotFound. |
| `CacheSync` | The informer: the cache catches up and the key is enqueued. |

**Abstractions:**

- **Rendered objects** are the Config they carry, per namespace, or `None`.
- **RBAC.** The two ClusterRoles are one flag, and the two ClusterRoleBindings are the namespace they bind. A failure between the two objects of a pair is folded into the failure before the pair.
- **The status** is phase, readiness, observedGeneration and the set of condition types that are True. The code never sets a condition False.

**Pod start.** `PodsReady` starts a workload's pods only when three things exist: the ServiceAccounts, the credentials Secret with `api-key`, and the ConfigMap. `buildTrueNASEnvVars` reads `TRUENAS_API_KEY` and `TRUENAS_URL` from the last two and marks neither as optional.

### The refinement: TrueNASCSIOperator implements TrueNASCSILifecycle

`TrueNASCSILifecycle` has five actions:

- `AddFinalizer`;
- `Provision`, which is allowed only under the finalizer and before the resource is gone;
- `Unprovision`, which is allowed only while the resource is being deleted;
- `RequestDelete`;
- `ReleaseFinalizer`, which is allowed only when no cluster object is left.

`TrueNASCSIOperator` instantiates it as `Lifecycle` with this mapping:

- `state` comes from `cr.exists` and `cr.deleting`;
- `finalized` is `cr.finalizer` while the object exists;
- `objects` is true when the CSIDriver, a ClusterRole or a binding exists.

`LifecycleRefined == Lifecycle!Spec` is checked as a PROPERTY. Every other reconciler step is a stuttering step of the abstract spec:

- status writes;
- namespaced objects;
- cache syncs;
- a namespace change that moves the bindings.

### How TrueNASCSIManifests corresponds to the code

Every builder is an operator with the Go name. The only variable is `spec`:

- `Init` is every spec the API server admits, meaning its URL matches the CRD pattern.
- `EditSpec` is a `kubectl edit` of one field.

The data is abstracted as follows:

- **Paths** are sequences of path segments.
- **Image references** are token sequences: the separators `:` and `/`, and the runs of other characters between them.
- **URLs** are sequences of characters.
- **Container arguments** are kept as what the binaries read from them: the socket the driver listens on (`--endpoint=$(CSI_ENDPOINT)`, expanded from its env), the socket a sidecar dials (`--csi-address`), the kubelet registration path, the health port and leader election.
- **Left out:** resource requests, UIDs, the PostStart command and the NetworkPolicy. No property tells them apart.

The properties use two Kubernetes semantics:

- `Resolve` follows a path through the container's longest matching mount to its volume: an emptyDir of the pod, or a directory of the node.
- The RBAC escalation rule: a ClusterRole, or a binding to one, can be created only by a holder of all its permissions.

### Plan for later modules (in order of importance)

1. `RpcSession`, spec-modelled from `spec.md` §4.2-4.3:
   - the pending-call registry with timeouts and cancellation;
   - session loss and reconnect;
   - the appliance side is the mock server in `pkg/client/integration_test.go` (`handleWebSocket`, `generateResponse`);
   - an abstract `RpcCall` spec ("each call completes exactly once, with its own reply or an error") that `RpcSession` refines through `INSTANCE ... WITH`.
2. `VolumeOrchestrator`, spec-modelled from §4.5:
   - iSCSI and NFS provisioning with rollback;
   - deletion in reverse dependency order;
   - the invariant "all constituents or none".
3. `AuthTag`: the CHAP tag rule `max(tags)+1`, or 1 when there are none, as a pure operator checked against a reference definition, and the race of two concurrent allocations.

## 3. Runs

The first seven runs use `MC_TrueNASCSIOperator`. The last two use `MC_TrueNASCSIManifests`.

| Run | cfg | Checks | Result |
|---|---|---|---|
| `operator_safety` | `MC_TrueNASCSIOperator.cfg` | `TypeOK`, `NoLeakedClusterObjects`, `RunningStatusIsCurrent` | pass, about 2.0 M distinct states, under 3 min |
| `operator_liveness` | `MC_TrueNASCSIOperator_live.cfg` | `DeletionCompletesWhileManaged`, `Converges` | pass, about 0.44 M distinct states, under 3 min |
| `ready_condition` | `MC_TrueNASCSIOperator_ready.cfg` | `ReadyConditionTruthful` | violation |
| `workloads_bound` | `MC_TrueNASCSIOperator_bound.cfg` | `WorkloadsBound` | violation |
| `unmanaged_deletion` | `MC_TrueNASCSIOperator_unmanaged.cfg` | `DeletionCompletes` | violation |
| `terminal_failure` | `MC_TrueNASCSIOperator_terminal.cfg` | `TerminalFailureReported` | violation |
| `lifecycle_refinement` | `MC_TrueNASCSIOperator_lifecycle.cfg` | `LifecycleRefined` | pass, about 1.9 M distinct states, about 1 min |
| `manifests` | `MC_TrueNASCSIManifests.cfg` | `WorkloadsAdmissible`, `CSISocketShared`, `ProbesServed`, `EnvResolves`, `NoPrivilegeEscalation`, `ServiceAccountsBound`, `AdmittedURLValid` | pass, 360 specs |
| `driver_version_tag` | `MC_TrueNASCSIManifests_tag.cfg` | `DriverVersionIsTag` | violation |

### What the passing runs show

- **`NoLeakedClusterObjects`.** Once the object is gone, no CSIDriver, ClusterRole or ClusterRoleBinding is left. This holds whatever failed part way through cleanup, because the finalizer is only removed after a cleanup that succeeded.
- **`RunningStatusIsCurrent`.** A Running status for the current generation implies that the ConfigMap, Deployment and DaemonSet in the spec's namespace carry the spec's configuration. This holds even when the user edits between the steps of a pass, because the conflict check on the status write catches it.
- **`DeletionCompletesWhileManaged`.** Deleting a managed resource eventually removes it.
- **`Converges`.** A managed resource with valid credentials, which no terminal error has parked, ends up fully deployed and Running.

- **`LifecycleRefined`.** The reconciler implements the abstract lifecycle. In particular:
  - no cluster object is created before the finalizer or after the resource is gone;
  - none is removed before deletion;
  - the finalizer is released only once all are gone.

  This holds with a lagging cache, conflicts, API errors part way through a cleanup, and Unmanaged.
- **`WorkloadsAdmissible`.** Every mount names a pod volume, and names are unique. Bidirectional propagation is used only by the privileged node container. Each selector matches the labels `ComponentLabels` renders.
- **`CSISocketShared`.** In both pods, every sidecar that dials `/csi/csi.sock` reaches the socket the driver serves. In the node pod the path goes through two different volumes (plugin-dir and socket-dir) that are backed by one host directory. That socket is the host path the registrar announces to the kubelet, and `/registration` is the kubelet's plugin watcher directory.
- **`ProbesServed`.** The driver's liveness probe port, `LivenessProbePort`, is the liveness sidecar's `--health-port`. It is not the unused `HealthProbePort`.
- **`EnvResolves`.** The env reads the Secret that `ValidateCredentials` checked, with the key it checked. Every ConfigMap key it reads, optional ones included, is a key `reconcileConfigMap` writes.
- **`NoPrivilegeEscalation`.** Both ClusterRoles stay within the operator's `+kubebuilder:rbac` markers. Kubernetes would otherwise refuse to create them, and envtest would not notice.
- **`ServiceAccountsBound`.** Each pod's ServiceAccount, in the pod's namespace, is bound to a rendered role. The controller pod, whose sidecars elect a leader, gets Lease access.
- **`AdmittedURLValid`.** The CRD pattern and `ValidateURL` agree, so the terminal `ErrInvalidURL` is unreachable.

### Findings (violation runs)

- **`ready_condition`.** The property is `Ready => ctrlReady /\ nodeReady`. `updateStatusRunning` sets Ready only on its Running branch and never clears it. In the counterexample a node pod fails after the driver has run, and the next pass writes `NodeDaemonSetReady=false` and phase Pending while `Ready=True` stays. The docs say Ready means "All components are running".
- **`workloads_bound`.** `cleanupResources` deletes the RBAC but not the Deployment or DaemonSet, and no owner reference ties them to the resource. So `oc delete truenascsi` leaves the driver pods running without their ClusterRoleBindings. Changing `spec.namespace` would do the same to the old namespace, but this one-namespace run does not show that half.
- **`unmanaged_deletion`.** The Unmanaged early return precedes the deletion branch, so deleting an Unmanaged resource never completes.
- **`terminal_failure`.** The counterexample starts from a Secret without `api-key`. The operator's own finalizer and Pending writes re-enqueue the key, so one failed write is not enough. The trace needs two:
  - the first pass's Failed write fails on a conflict, because the user edited the spec during the pass, and that edit re-enqueues the key;
  - the second pass's Failed write hits an API error;
  - `updateStatusFailed` only logs both errors, and line 125 returns a `TerminalError`, so the key is not requeued.

  Secrets are not watched, so the resource stays Pending with no Degraded condition until an unrelated event or the informer's periodic resync (10 h by default, which the model leaves out) brings the key back.
- **`driver_version_tag`.** `extractImageTag` takes the text after the last `:` of the whole reference. An untagged image from a registry with a port, such as `mirror:5000/truenas/csi`, reports `status.driverVersion` as `5000/truenas/csi`. The unit test expects `latest` for an untagged image. The reference tag is taken from the last path component only.

### Bounds and why they are enough

**Safety run:**

- 2 namespaces, so that a namespace change and stale bindings can happen;
- 2 configurations, so that an edit is visible;
- management state Managed only;
- 1 user operation (an edit, a Secret change, or a workload deletion);
- 1 API error, which can hit any call;
- 1 pod failure;
- deletion at any time, not counted as a user operation.

Every property's counterexample needs at most one edit and one error, which the mutants show. The Unmanaged state is exercised by the other runs.

**`manifests` and `driver_version_tag`:**

- 3 namespaces, including `""`, which `getNamespace` defaults;
- 3 Secret names, including `""`, which validation refuses;
- 5 images: none, tagged, untagged, and a registry with a port, both tagged and untagged;
- 4 URLs, two of which the CRD refuses;
- 2 log levels and 2 replica counts.

Every builder branch is taken.

**Liveness, lifecycle and the other violation runs:**

- 1 namespace;
- management states Managed and Unmanaged;
- 1 user operation and 1 API error;
- no pod failures, except 1 in `ready_condition`.

One namespace keeps the liveness graph small. Namespace changes are covered by the safety run.

**Symmetry and view.** Both are used only in the safety run:

- The symmetry set is the permutations of namespaces and of configurations.
- The view `MCView` identifies states that differ only in dead locals of a pass. `csi` is dead when the worker is idle. `obs` is dead outside the status write.

### Fairness

Weak fairness is assumed on three actors:

- The reconciler's steps (`Operator`). The worker runs whenever its queue holds the key, and each step is one API call that returns.
- `CacheSync`. The informer eventually delivers every change.
- `PodsReady`. The kubelet eventually starts the pods of an existing workload once its ServiceAccounts, its credentials Secret and its ConfigMap exist.

User actions and pod failures get no fairness.

**Deadlock.** Checking is off (`CHECK_DEADLOCK FALSE`) because the operator really does stop: after a terminal error, when Unmanaged, or once the object is gone, the queue is empty and nothing more happens.

**`Converges`.** It is stated as `<>[](Healthy => Synced)`. `Healthy` excludes a pass that gave up with a `TerminalError`, because the code documents such errors as permanent and does not watch Secrets.

## 4. What is not modelled

- **URL validation inside the reconciler.** The CRD pattern `^wss?://` refuses a bad URL at admission. `AdmittedURLValid` checks that `ValidateURL` agrees with it.
- **The content of rendered objects inside `TrueNASCSIOperator`.** That module abstracts an object to the Config it carries. Its content is modelled separately in `TrueNASCSIManifests`, which has no reconciler: it composes with the operator only through the spec.
- **Resource requests, UIDs, the PostStart command and the NetworkPolicy rule.** No property distinguishes them. Kubelet probes are not subject to NetworkPolicy.
- **`version.go`.** It holds build metadata set by ldflags. Nothing under `src/` calls `GetVersion` or `GetFullVersion`.
- **Failures of the initial `r.Get`**, other than NotFound.
- **ManagementState `Removed`.** The code treats it exactly like Managed.
- **The appliance client and orchestrator.** Their code is not under `src/`; they are planned as spec-modelled modules.
- **The docs, Makefile, demo script and e2e tests.** They are not modelled.
