------------------------ MODULE MC_TrueNASCSIManifests ------------------------
(* Bounded inputs for TrueNASCSIManifests: a few values of every spec field *)
(* the builders read, and the sidecar images of the operator's deployment.  *)
EXTENDS TrueNASCSIManifests

MCNamespaces == {"", "truenas-csi", "csi-prod"}
MCSecrets == {"", "truenas-credentials", "nas-api"}
\* "", "quay.io/truenas/csi:v1.0.0", "quay.io/truenas/csi",
\* "mirror:5000/truenas/csi:v1.1" and "mirror:5000/truenas/csi"
MCImages == { <<>>,
              <<"quay.io", "/", "truenas", "/", "csi", ":", "v1.0.0">>,
              <<"quay.io", "/", "truenas", "/", "csi">>,
              <<"mirror", ":", "5000", "/", "truenas", "/", "csi", ":", "v1.1">>,
              <<"mirror", ":", "5000", "/", "truenas", "/", "csi">> }
\* "wss://n", "ws://n", "https://n" and "" (the CRD refuses the last two)
MCURLs == { <<"w", "s", "s", ":", "/", "/", "n">>, <<"w", "s", ":", "/", "/", "n">>,
            <<"h", "t", "t", "p", "s", ":", "/", "/", "n">>, <<>> }
MCLogLevels == {1, 5}
MCReplicaCounts == {1, 3}
MCOperatorEnv == [e \in {"PROVISIONER_IMAGE", "ATTACHER_IMAGE", "SNAPSHOTTER_IMAGE",
                         "RESIZER_IMAGE", "NODE_DRIVER_REGISTRAR_IMAGE",
                         "LIVENESS_PROBE_IMAGE"} |-> <<"sidecar", ":", e>>]
==============================================================================
