------------------------- MODULE TrueNASCSIManifests -------------------------
(***************************************************************************)
(* What the operator renders for a TrueNASCSI spec: the controller and     *)
(* node pod templates with their containers, volumes, mounts and env, the  *)
(* ClusterRoles and ClusterRoleBindings, and the ConfigMap keys. Every     *)
(* builder is a pure function of the spec and of the constants of         *)
(* constants.go, so each is an operator here; the only state is the spec, *)
(* which the user edits one field at a time, so that TLC checks the        *)
(* rendering for every spec of the bounded input sets.                     *)
(*                                                                         *)
(* Paths are sequences of path segments ("/var/lib/kubelet/" is           *)
(* <<"var","lib","kubelet">>). Image references are sequences of tokens:  *)
(* the separators ":" "/" and the runs of other characters between them.  *)
(* Container arguments are kept as what the binaries read from them: the  *)
(* socket a container listens on or dials, the kubelet registration path, *)
(* the health port and whether leader election is on.                     *)
(***************************************************************************)
EXTENDS Naturals, Sequences, FiniteSets, TLC
LOCAL INSTANCE SequencesExt

CONSTANTS
    Namespaces,      \* values of spec.namespace ("" included: CRD default applies only when absent)
    Secrets,         \* values of spec.credentialsSecret ("" passes the CRD's Required)
    Images,          \* values of spec.driverImage (<<>> is the empty string)
    LogLevels,       \* values of spec.logLevel
    ReplicaCounts,   \* values of spec.controllerReplicas
    URLs,            \* values of spec.truenasURL, as sequences of characters
    OperatorEnv      \* the operator's own environment: sidecar image per variable name

VARIABLE spec

(* constants.go *)
CSINamespace == "truenas-csi"
ConfigMapName == "truenas-csi-config"
ControllerServiceAccount == "truenas-csi-controller-sa"
NodeServiceAccount == "truenas-csi-node-sa"
ControllerClusterRoleName == "truenas-csi-controller-role"
NodeClusterRoleName == "truenas-csi-node-role"
ControllerClusterRoleBindingName == "truenas-csi-controller-binding"
NodeClusterRoleBindingName == "truenas-csi-node-binding"
VolumeSocketDir == "socket-dir"
VolumeRegistrationDir == "registration-dir"
VolumePluginDir == "plugin-dir"
VolumePodsMountDir == "pods-mount-dir"
VolumeDeviceDir == "device-dir"
VolumeISCSIDir == "iscsi-dir"
VolumeHostRoot == "host-root"
VolumeHostFstab == "host-fstab"
HostPathRegistrationDir == <<"var", "lib", "kubelet", "plugins_registry">>
HostPathPluginDir == <<"var", "lib", "kubelet", "plugins", "csi.truenas.io">>
HostPathPodsMountDir == <<"var", "lib", "kubelet", "pods">>
HostPathDeviceDir == <<"dev">>
HostPathISCSIDir == <<"etc", "iscsi">>
HostPathRoot == <<>>
HostPathFstab == <<"etc", "fstab">>
\* "unix:///csi/csi.sock": the scheme and the path it names
CSISocketPath == [scheme |-> "unix", path |-> <<"csi", "csi.sock">>]
KubeletRegistrationPath == <<"var", "lib", "kubelet", "plugins", "csi.truenas.io", "csi.sock">>
DefaultDriverImage == <<"quay.io", "/", "truenas_solutions", "/", "truenas-csi", ":", "latest">>
DefaultControllerReplicas == 1
DefaultLogLevel == 4
LivenessProbePort == 9808
HealthProbePort == 8081
ControllerContainerName == "csi-controller"
NodeContainerName == "csi-node"
ProvisionerContainerName == "csi-provisioner"
AttacherContainerName == "csi-attacher"
SnapshotterContainerName == "csi-snapshotter"
ResizerContainerName == "csi-resizer"
NodeDriverRegistrarName == "csi-node-driver-registrar"
LivenessProbeContainerName == "liveness-probe"
EnvProvisionerImage == "PROVISIONER_IMAGE"
EnvAttacherImage == "ATTACHER_IMAGE"
EnvSnapshotterImage == "SNAPSHOTTER_IMAGE"
EnvResizerImage == "RESIZER_IMAGE"
EnvNodeDriverRegistrar == "NODE_DRIVER_REGISTRAR_IMAGE"
EnvLivenessProbeImage == "LIVENESS_PROBE_IMAGE"

\* Mutant: the "app" label the selectors match is not rendered.
ComponentLabelsWithoutApp(component) ==
    LET base == ("app.kubernetes.io/name" :> "truenas-csi")
                  @@ ("app.kubernetes.io/managed-by" :> "truenas-csi-operator")
    IN IF component = "" THEN base
       ELSE ("app.kubernetes.io/component" :> component) @@ base

ComponentLabels(component) ==
    LET base == ("app.kubernetes.io/name" :> "truenas-csi")
                  @@ ("app.kubernetes.io/managed-by" :> "truenas-csi-operator")
    IN IF component = "" THEN base
       ELSE ("app.kubernetes.io/component" :> component)
              @@ ("app" :> ("truenas-csi-" \o component)) @@ base

(* helpers.go (src/unnamed/part_003) *)
getNamespace(s) == IF s.namespace # "" THEN s.namespace ELSE CSINamespace
getDriverImage(s) == IF s.driverImage # <<>> THEN s.driverImage ELSE DefaultDriverImage
getLogLevel(s) == IF s.logLevel > 0 THEN s.logLevel ELSE DefaultLogLevel
getControllerReplicas(s) ==
    IF s.controllerReplicas > 0 THEN s.controllerReplicas ELSE DefaultControllerReplicas
getSidecarImage(envVar) == OperatorEnv[envVar]

\* strings.LastIndex(image, ":"), then the text after it, or "latest".
extractImageTag(image) ==
    LET idx == SelectLastInSeq(image, LAMBDA t : t = ":") IN
    IF idx # 0 THEN SubSeq(image, idx + 1, Len(image)) ELSE <<"latest">>

NoValue == [scheme |-> "", path |-> <<>>]
EnvVar(name, src, obj, key, optional) ==
    [name |-> name, src |-> src, obj |-> obj, key |-> key, optional |-> optional, value |-> NoValue]

\* Mutant: an optional ConfigMap key misspelt.
buildTrueNASEnvVarsKeyTypo(s) ==
    << [EnvVar("CSI_ENDPOINT", "value", "", "", FALSE) EXCEPT !.value = CSISocketPath],
       EnvVar("NODE_ID", "field", "", "spec.nodeName", FALSE),
       EnvVar("TRUENAS_URL", "configMap", ConfigMapName, "truenasURL", FALSE),
       EnvVar("TRUENAS_API_KEY", "secret", s.credentialsSecret, "api-key", FALSE),
       EnvVar("TRUENAS_DEFAULT_POOL", "configMap", ConfigMapName, "defaultPool", FALSE),
       EnvVar("TRUENAS_NFS_SERVER", "configMap", ConfigMapName, "nfsserver", TRUE),
       EnvVar("TRUENAS_ISCSI_PORTAL", "configMap", ConfigMapName, "iscsiPortal", TRUE),
       EnvVar("TRUENAS_ISCSI_IQN_BASE", "configMap", ConfigMapName, "iscsiIQNBase", TRUE),
       EnvVar("TRUENAS_INSECURE_SKIP_VERIFY", "configMap", ConfigMapName, "truenasInsecure", TRUE) >>

buildTrueNASEnvVars(s) ==
    << [EnvVar("CSI_ENDPOINT", "value", "", "", FALSE) EXCEPT !.value = CSISocketPath],
       EnvVar("NODE_ID", "field", "", "spec.nodeName", FALSE),
       EnvVar("TRUENAS_URL", "configMap", ConfigMapName, "truenasURL", FALSE),
       EnvVar("TRUENAS_API_KEY", "secret", s.credentialsSecret, "api-key", FALSE),
       EnvVar("TRUENAS_DEFAULT_POOL", "configMap", ConfigMapName, "defaultPool", FALSE),
       EnvVar("TRUENAS_NFS_SERVER", "configMap", ConfigMapName, "nfsServer", TRUE),
       EnvVar("TRUENAS_ISCSI_PORTAL", "configMap", ConfigMapName, "iscsiPortal", TRUE),
       EnvVar("TRUENAS_ISCSI_IQN_BASE", "configMap", ConfigMapName, "iscsiIQNBase", TRUE),
       EnvVar("TRUENAS_INSECURE_SKIP_VERIFY", "configMap", ConfigMapName, "truenasInsecure", TRUE) >>

\* Kubernetes expands $(VAR) in args from the container's env; an unknown
\* variable is left as it is and names no socket.
ExpandEnv(env, var) ==
    LET i == SelectInSeq(env, LAMBDA e : e.name = var) IN
    IF i # 0 THEN env[i].value ELSE NoValue

\* The CRD's +kubebuilder:validation:Pattern=`^wss?://` on truenasURL:
\* "ws", an optional "s", then "://" at the start.
CRDAdmitsURL(url) ==
    \/ IsPrefix(<<"w", "s", ":", "/", "/">>, url)
    \/ IsPrefix(<<"w", "s", "s", ":", "/", "/">>, url)

\* Mutant: only TLS endpoints are accepted.
ValidateURLTLSOnly(url) ==
    IF url = <<>> \/ ~IsPrefix(<<"w", "s", "s", ":", "/", "/">>, url)
    THEN "ErrInvalidURL" ELSE "ok"

\* Validator.ValidateURL (validation.go 38-46).
ValidateURL(url) ==
    IF url = <<>> \/ ~(IsPrefix(<<"w", "s", ":", "/", "/">>, url)
                      \/ IsPrefix(<<"w", "s", "s", ":", "/", "/">>, url))
    THEN "ErrInvalidURL" ELSE "ok"

\* ValidateCredentials (validation.go 61): the Secret key it requires.
ValidateCredentialsKey == "api-key"

(* reconcileConfigMap: the keys of the rendered ConfigMap's data *)
ConfigMapKeys == {"truenasURL", "defaultPool", "nfsServer", "iscsiPortal",
                  "iscsiIQNBase", "truenasInsecure"}

(* volumes.go *)
Volume(name, emptyDir, path) == [name |-> name, emptyDir |-> emptyDir, path |-> path]
Mount(name, at, bidir) == [name |-> name, at |-> at, bidir |-> bidir]
hostPathVolume(name, path) == Volume(name, FALSE, path)

buildControllerVolumes == << Volume(VolumeSocketDir, TRUE, <<>>) >>

\* Mutant: socket-dir is backed by the registration directory.
buildNodeVolumesSocketInRegistry ==
    << hostPathVolume(VolumeRegistrationDir, HostPathRegistrationDir),
       hostPathVolume(VolumePluginDir, HostPathPluginDir),
       hostPathVolume(VolumePodsMountDir, HostPathPodsMountDir),
       hostPathVolume(VolumeDeviceDir, HostPathDeviceDir),
       hostPathVolume(VolumeISCSIDir, HostPathISCSIDir),
       hostPathVolume(VolumeHostRoot, HostPathRoot),
       hostPathVolume(VolumeSocketDir, HostPathRegistrationDir),
       hostPathVolume(VolumeHostFstab, HostPathFstab) >>

buildNodeVolumes ==
    << hostPathVolume(VolumeRegistrationDir, HostPathRegistrationDir),
       hostPathVolume(VolumePluginDir, HostPathPluginDir),
       hostPathVolume(VolumePodsMountDir, HostPathPodsMountDir),
       hostPathVolume(VolumeDeviceDir, HostPathDeviceDir),
       hostPathVolume(VolumeISCSIDir, HostPathISCSIDir),
       hostPathVolume(VolumeHostRoot, HostPathRoot),
       hostPathVolume(VolumeSocketDir, HostPathPluginDir),
       hostPathVolume(VolumeHostFstab, HostPathFstab) >>

buildNodeVolumeMounts ==
    << Mount(VolumePluginDir, <<"csi">>, FALSE),
       Mount(VolumePodsMountDir, <<"var", "lib", "kubelet", "pods">>, TRUE),
       Mount(VolumeDeviceDir, <<"dev">>, FALSE),
       Mount(VolumeISCSIDir, <<"etc", "iscsi">>, TRUE),
       Mount(VolumeHostRoot, <<"host">>, TRUE),
       Mount(VolumeHostFstab, <<"etc", "fstab">>, FALSE) >>

buildNodeDriverRegistrarVolumeMounts ==
    << Mount(VolumePluginDir, <<"csi">>, FALSE),
       Mount(VolumeRegistrationDir, <<"registration">>, FALSE) >>

socketDirVolumeMount == Mount(VolumeSocketDir, <<"csi">>, FALSE)

(***************************************************************************)
(* Containers (truenascsi_controller.go 586-758). `listen` is the socket  *)
(* the driver serves (--endpoint=$(CSI_ENDPOINT)); `args` holds what the   *)
(* sidecars read from their flags: --csi-address, --kubelet-registration- *)
(* path, --health-port, --leader-election and --v.                         *)
(***************************************************************************)
CSIAddress == <<"csi", "csi.sock">>    \* --csi-address=/csi/csi.sock
NoArgs == [dial |-> <<>>, regPath |-> <<>>, healthPort |-> 0, leaderElection |-> FALSE, v |-> 0]
SidecarArgs(regPath, healthPort, leaderElection) ==
    [dial |-> CSIAddress, regPath |-> regPath, healthPort |-> healthPort,
     leaderElection |-> leaderElection, v |-> 5]

\* buildSidecarContainer (helpers.go 67-90): image from the operator's env.
buildSidecarContainer(name, imageEnvVar, args, mounts) ==
    [name |-> name, image |-> getSidecarImage(imageEnvVar), privileged |-> FALSE,
     env |-> <<>>, mounts |-> mounts, probePort |-> 0, listen |-> NoValue, args |-> args]

\* The driver container of either mode: env from buildTrueNASEnvVars, the
\* endpoint expanded from it, a liveness probe on LivenessProbePort.
DriverContainer(name, image, logLevel, s, privileged, mounts) ==
    LET env == buildTrueNASEnvVars(s) IN
    [name |-> name, image |-> image, privileged |-> privileged, env |-> env,
     mounts |-> mounts, probePort |-> LivenessProbePort,
     listen |-> ExpandEnv(env, "CSI_ENDPOINT"), args |-> [NoArgs EXCEPT !.v = logLevel]]

buildControllerContainer(image, logLevel, s) ==
    DriverContainer(ControllerContainerName, image, logLevel, s, FALSE, <<socketDirVolumeMount>>)
buildNodeContainer(image, logLevel, s) ==
    DriverContainer(NodeContainerName, image, logLevel, s, TRUE, buildNodeVolumeMounts)

buildProvisionerSidecar ==
    buildSidecarContainer(ProvisionerContainerName, EnvProvisionerImage,
                          SidecarArgs(<<>>, 0, TRUE), <<socketDirVolumeMount>>)
buildAttacherSidecar ==
    buildSidecarContainer(AttacherContainerName, EnvAttacherImage,
                          SidecarArgs(<<>>, 0, TRUE), <<socketDirVolumeMount>>)
buildSnapshotterSidecar ==
    buildSidecarContainer(SnapshotterContainerName, EnvSnapshotterImage,
                          SidecarArgs(<<>>, 0, TRUE), <<socketDirVolumeMount>>)
buildResizerSidecar ==
    buildSidecarContainer(ResizerContainerName, EnvResizerImage,
                          SidecarArgs(<<>>, 0, TRUE), <<socketDirVolumeMount>>)
buildNodeDriverRegistrarSidecar ==
    buildSidecarContainer(NodeDriverRegistrarName, EnvNodeDriverRegistrar,
                          SidecarArgs(KubeletRegistrationPath, 0, FALSE),
                          buildNodeDriverRegistrarVolumeMounts)
\* Mutant: the liveness sidecar serves on HealthProbePort.
buildLivenessProbeContainerOnHealthPort ==
    buildSidecarContainer(LivenessProbeContainerName, EnvLivenessProbeImage,
                          [SidecarArgs(<<>>, HealthProbePort, FALSE) EXCEPT !.v = 0],
                          <<socketDirVolumeMount>>)
buildLivenessProbeContainer ==
    buildSidecarContainer(LivenessProbeContainerName, EnvLivenessProbeImage,
                          [SidecarArgs(<<>>, LivenessProbePort, FALSE) EXCEPT !.v = 0],
                          <<socketDirVolumeMount>>)

(***************************************************************************)
(* The pod templates of reconcileControllerDeployment (498-539) and       *)
(* reconcileNodeDaemonSet (541-584).                                       *)
(***************************************************************************)
ControllerPodTemplate(s) ==
    [component |-> "controller", ns |-> getNamespace(s), sa |-> ControllerServiceAccount,
     labels |-> ComponentLabels("controller"), selector |-> ("app" :> "truenas-csi-controller"),
     hostNetwork |-> FALSE, replicas |-> getControllerReplicas(s),
     containers |-> << buildControllerContainer(getDriverImage(s), getLogLevel(s), s),
                       buildProvisionerSidecar, buildAttacherSidecar,
                       buildSnapshotterSidecar, buildResizerSidecar,
                       buildLivenessProbeContainer >>,
     volumes |-> buildControllerVolumes]

NodePodTemplate(s) ==
    [component |-> "node", ns |-> getNamespace(s), sa |-> NodeServiceAccount,
     labels |-> ComponentLabels("node"), selector |-> ("app" :> "truenas-csi-node"),
     hostNetwork |-> TRUE, replicas |-> 0,
     containers |-> << buildNodeContainer(getDriverImage(s), getLogLevel(s), s),
                       buildNodeDriverRegistrarSidecar, buildLivenessProbeContainer >>,
     volumes |-> buildNodeVolumes]

PodTemplates(s) == {ControllerPodTemplate(s), NodePodTemplate(s)}

(***************************************************************************)
(* RBAC. A rule is the set of <<apiGroup, resource, verb>> it grants.      *)
(***************************************************************************)
Rule(group, resources, verbs) == {<<group, r, v>> : r \in resources, v \in verbs}
ReadVerbs == {"get", "list", "watch"}
AllVerbs == ReadVerbs \cup {"create", "update", "patch", "delete"}

\* The rules of the ClusterRoles reconcileRBAC writes (lines 351-397).
ControllerClusterRoleRules ==
    UNION { Rule("", {"persistentvolumes"}, AllVerbs),
            Rule("", {"persistentvolumeclaims"}, ReadVerbs \cup {"update", "patch"}),
            Rule("", {"persistentvolumeclaims/status"}, {"update", "patch"}),
            Rule("storage.k8s.io", {"storageclasses", "csinodes"}, ReadVerbs),
            Rule("", {"events"}, {"list", "watch", "create", "update", "patch"}),
            Rule("snapshot.storage.k8s.io", {"volumesnapshots"}, ReadVerbs \cup {"update", "patch"}),
            Rule("snapshot.storage.k8s.io", {"volumesnapshots/status"}, {"update", "patch"}),
            Rule("snapshot.storage.k8s.io", {"volumesnapshotcontents"}, AllVerbs),
            Rule("snapshot.storage.k8s.io", {"volumesnapshotcontents/status"}, {"update", "patch"}),
            Rule("snapshot.storage.k8s.io", {"volumesnapshotclasses"}, ReadVerbs),
            Rule("", {"nodes", "pods"}, ReadVerbs),
            Rule("storage.k8s.io", {"volumeattachments"}, ReadVerbs \cup {"update", "patch"}),
            Rule("storage.k8s.io", {"volumeattachments/status"}, {"patch"}),
            Rule("coordination.k8s.io", {"leases"}, {"get", "watch", "list", "delete", "update", "create"}),
            Rule("", {"secrets"}, ReadVerbs) }
NodeClusterRoleRules ==
    UNION { Rule("", {"nodes"}, {"get"}),
            Rule("", {"pods"}, ReadVerbs),
            Rule("storage.k8s.io", {"volumeattachments"}, ReadVerbs) }

ClusterRoles ==
    { [name |-> ControllerClusterRoleName, rules |-> ControllerClusterRoleRules],
      [name |-> NodeClusterRoleName, rules |-> NodeClusterRoleRules] }

\* The ClusterRoleBindings of reconcileRBAC (lines 401-438).
\* Mutant: the node binding copied from the controller one binds the wrong account.
ClusterRoleBindingsCopiedSubject(s) ==
    { [name |-> ControllerClusterRoleBindingName, roleRef |-> ControllerClusterRoleName,
       subject |-> [name |-> ControllerServiceAccount, ns |-> getNamespace(s)]],
      [name |-> NodeClusterRoleBindingName, roleRef |-> NodeClusterRoleName,
       subject |-> [name |-> ControllerServiceAccount, ns |-> getNamespace(s)]] }

ClusterRoleBindings(s) ==
    { [name |-> ControllerClusterRoleBindingName, roleRef |-> ControllerClusterRoleName,
       subject |-> [name |-> ControllerServiceAccount, ns |-> getNamespace(s)]],
      [name |-> NodeClusterRoleBindingName, roleRef |-> NodeClusterRoleName,
       subject |-> [name |-> NodeServiceAccount, ns |-> getNamespace(s)]] }

\* Mutant: the marker for volumeattachments/status (line 55) is missing.
OperatorPermissionsWithoutAttachmentStatus ==
    UNION { Rule("", {"secrets", "pods"}, ReadVerbs),
            Rule("", {"persistentvolumes"}, AllVerbs),
            Rule("", {"persistentvolumeclaims"}, ReadVerbs \cup {"update", "patch"}),
            Rule("", {"persistentvolumeclaims/status"}, {"get", "update", "patch"}),
            Rule("", {"nodes"}, ReadVerbs),
            Rule("", {"events"}, {"list", "watch", "create", "update", "patch"}),
            Rule("storage.k8s.io", {"storageclasses", "csinodes"}, ReadVerbs),
            Rule("storage.k8s.io", {"volumeattachments"}, ReadVerbs \cup {"update", "patch"}),
            Rule("snapshot.storage.k8s.io", {"volumesnapshotclasses"}, ReadVerbs),
            Rule("snapshot.storage.k8s.io", {"volumesnapshotcontents"}, AllVerbs),
            Rule("snapshot.storage.k8s.io", {"volumesnapshotcontents/status"}, {"update", "patch"}),
            Rule("snapshot.storage.k8s.io", {"volumesnapshots"}, ReadVerbs \cup {"update", "patch"}),
            Rule("snapshot.storage.k8s.io", {"volumesnapshots/status"}, {"get", "update", "patch"}),
            Rule("coordination.k8s.io", {"leases"}, AllVerbs) }

\* What the operator itself is granted: the +kubebuilder:rbac markers of
\* lines 34-63, from which its ClusterRole is generated (the markers for
\* its own kinds, namespaces, workloads and SCCs are left out: no rendered
\* role holds them).
OperatorPermissions ==
    UNION { Rule("", {"secrets", "pods"}, ReadVerbs),
            Rule("", {"persistentvolumes"}, AllVerbs),
            Rule("", {"persistentvolumeclaims"}, ReadVerbs \cup {"update", "patch"}),
            Rule("", {"persistentvolumeclaims/status"}, {"get", "update", "patch"}),
            Rule("", {"nodes"}, ReadVerbs),
            Rule("", {"events"}, {"list", "watch", "create", "update", "patch"}),
            Rule("storage.k8s.io", {"storageclasses", "csinodes"}, ReadVerbs),
            Rule("storage.k8s.io", {"volumeattachments"}, ReadVerbs \cup {"update", "patch"}),
            Rule("storage.k8s.io", {"volumeattachments/status"}, {"get", "update", "patch"}),
            Rule("snapshot.storage.k8s.io", {"volumesnapshotclasses"}, ReadVerbs),
            Rule("snapshot.storage.k8s.io", {"volumesnapshotcontents"}, AllVerbs),
            Rule("snapshot.storage.k8s.io", {"volumesnapshotcontents/status"}, {"update", "patch"}),
            Rule("snapshot.storage.k8s.io", {"volumesnapshots"}, ReadVerbs \cup {"update", "patch"}),
            Rule("snapshot.storage.k8s.io", {"volumesnapshots/status"}, {"get", "update", "patch"}),
            Rule("coordination.k8s.io", {"leases"}, AllVerbs) }

(***************************************************************************)
(* The user's spec and its edits (kubectl edit truenascsi).                *)
(***************************************************************************)
\* The specs the API server admits.
Specs == {s \in [namespace: Namespaces, credentialsSecret: Secrets, driverImage: Images,
                 logLevel: LogLevels, controllerReplicas: ReplicaCounts, truenasURL: URLs] :
             CRDAdmitsURL(s.truenasURL)}

Init == spec \in Specs

EditSpec == \E f \in DOMAIN spec, s \in Specs :
              /\ s[f] # spec[f]
              /\ spec' = [spec EXCEPT ![f] = s[f]]

Spec == Init /\ [][EditSpec]_spec

(***************************************************************************)
(* Kubernetes semantics the properties are stated in.                     *)
(***************************************************************************)
\* Where a path a container opens lands: through the mount with the longest
\* matching mount path to its volume, a directory of the pod (emptyDir) or
\* of the node (hostPath); without a mount, the container's own root.
Resolve(pod, c, path) ==
    LET ms == {i \in DOMAIN c.mounts : IsPrefix(c.mounts[i].at, path)} IN
    IF ms = {} THEN [where |-> <<"container", pod.component, c.name>>, path |-> path]
    ELSE LET m    == c.mounts[CHOOSE i \in ms : \A j \in ms : Len(c.mounts[j].at) <= Len(c.mounts[i].at)]
             rest == SubSeq(path, Len(m.at) + 1, Len(path))
             vs   == {v \in ToSet(pod.volumes) : v.name = m.name}
         IN IF vs = {} THEN [where |-> <<"missing", m.name>>, path |-> rest]
            ELSE LET v == CHOOSE v \in vs : TRUE IN
                 IF v.emptyDir THEN [where |-> <<"emptyDir", pod.component, v.name>>, path |-> rest]
                 ELSE [where |-> <<"host">>, path |-> v.path \o rest]

Containers(pod) == ToSet(pod.containers)
Driver(pod) == CHOOSE c \in Containers(pod) : c.listen # NoValue
Names(seq) == [i \in DOMAIN seq |-> seq[i].name]

\* The node-driver-registrar writes its registration socket under
\* /registration, which the kubelet's plugin watcher must see in
\* /var/lib/kubelet/plugins_registry on the host.
KubeletPluginsRegistry == <<"var", "lib", "kubelet", "plugins_registry">>

(***************************************************************************)
(* Properties                                                              *)
(***************************************************************************)
\* The API server admits both workloads: every volumeMount names a volume of
\* its pod, container and volume names are unique, Bidirectional mount
\* propagation is used only by privileged containers, and the selector
\* (reconcileControllerDeployment / reconcileNodeDaemonSet) matches the
\* template labels ComponentLabels renders.
WorkloadsAdmissible ==
    \A p \in PodTemplates(spec) :
       /\ \A c \in Containers(p) : \A i \in DOMAIN c.mounts :
             /\ \E v \in ToSet(p.volumes) : v.name = c.mounts[i].name
             /\ c.mounts[i].bidir => c.privileged
       /\ Cardinality(ToSet(Names(p.containers))) = Len(p.containers)
       /\ Cardinality(ToSet(Names(p.volumes))) = Len(p.volumes)
       /\ \A k \in DOMAIN p.selector : k \in DOMAIN p.labels /\ p.labels[k] = p.selector[k]

\* Every sidecar that dials --csi-address reaches the very socket the driver
\* container of its pod serves at $(CSI_ENDPOINT), through two different
\* volumes in the node pod; and the node driver's socket is, on the host,
\* the --kubelet-registration-path the registrar announces, while the
\* registrar's /registration is the kubelet's plugin watcher directory.
CSISocketShared ==
    /\ \A p \in PodTemplates(spec) :
         LET d == Driver(p) IN
         /\ d.listen.scheme = "unix"
         /\ \A c \in Containers(p) :
              c.args.dial # <<>> => Resolve(p, c, c.args.dial) = Resolve(p, d, d.listen.path)
    /\ LET p == NodePodTemplate(spec)
           d == Driver(p)
       IN \A c \in Containers(p) :
            c.args.regPath # <<>> =>
               /\ Resolve(p, d, d.listen.path) = [where |-> <<"host">>, path |-> c.args.regPath]
               /\ Resolve(p, c, <<"registration">>) = [where |-> <<"host">>, path |-> KubeletPluginsRegistry]

\* The HTTP liveness probe of each driver container targets a port that a
\* container of the same pod serves (the liveness-probe sidecar's
\* --health-port); otherwise the kubelet restarts the driver forever.
ProbesServed ==
    \A p \in PodTemplates(spec) : \A c \in Containers(p) :
       c.probePort # 0 => \E h \in Containers(p) : h.args.healthPort = c.probePort

\* For a spec that passes ValidateCredentials (a non-empty Secret name whose
\* Secret has "api-key", looked up in getNamespace), the driver's env reads
\* that same Secret and key, and every ConfigMap key it reads is one that
\* reconcileConfigMap writes, so no required variable blocks the pod and no
\* optional one is silently empty.
EnvResolves ==
    spec.credentialsSecret # "" =>
      \A p \in PodTemplates(spec) : \A c \in Containers(p) : \A i \in DOMAIN c.env :
         LET e == c.env[i] IN
         /\ e.src = "secret" => e.obj = spec.credentialsSecret /\ e.key = ValidateCredentialsKey
                                /\ p.ns = getNamespace(spec)
         /\ e.src = "configMap" => e.obj = ConfigMapName /\ e.key \in ConfigMapKeys

\* Kubernetes refuses to create a ClusterRole, or a ClusterRoleBinding to
\* one, that grants more than its creator holds: every ClusterRole that a
\* binding of reconcileRBAC grants lies within the operator's own RBAC
\* markers, so neither Create is Forbidden.
NoPrivilegeEscalation ==
    \A b \in ClusterRoleBindings(spec), r \in ClusterRoles :
       b.roleRef = r.name => r.rules \subseteq OperatorPermissions

\* Each workload's ServiceAccount, in the workload's namespace, is the
\* subject of a binding to a rendered ClusterRole, and a pod whose sidecars
\* run with --leader-election=true is bound to a role that lets them get,
\* create and update their Lease.
ServiceAccountsBound ==
    \A p \in PodTemplates(spec) :
       \E b \in ClusterRoleBindings(spec), r \in ClusterRoles :
          /\ b.subject = [name |-> p.sa, ns |-> p.ns]
          /\ b.roleRef = r.name
          /\ (\E c \in Containers(p) : c.args.leaderElection)
               => Rule("coordination.k8s.io", {"leases"}, {"get", "create", "update"}) \subseteq r.rules

\* Every URL the CRD admits passes ValidateURL, so the ErrInvalidURL that
\* IsConfigurationError turns into a TerminalError (line 125), which is never
\* retried, cannot be returned for an admitted resource.
AdmittedURLValid == ValidateURL(spec.truenasURL) = "ok"

\* The reference meaning of an image's tag (the distribution reference
\* grammar): the text after a ":" in the last path component, else
\* "latest"; a ":" before a "/" separates a registry host from its port.
ReferenceTag(image) ==
    LET slash == SelectLastInSeq(image, LAMBDA t : t = "/")
        last  == SubSeq(image, slash + 1, Len(image))
        colon == SelectLastInSeq(last, LAMBDA t : t = ":")
    IN IF colon # 0 THEN SubSeq(last, colon + 1, Len(last)) ELSE <<"latest">>

\* status.driverVersion (updateStatusRunning, line 227) is the tag of the
\* driver image, "latest" for an untagged one (the unit test of
\* extractImageTag: "quay.io/truenas/csi" gives "latest").
DriverVersionIsTag ==
    extractImageTag(getDriverImage(spec)) = ReferenceTag(getDriverImage(spec))
====
