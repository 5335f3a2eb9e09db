----------------------- MODULE MC_TrueNASCSIOperator -----------------------
(* TrueNASCSIOperator with two namespaces and two configurations.          *)
EXTENDS TrueNASCSIOperator, TLC

CONSTANTS n1, n2, c1, c2

MCNamespaces == {n1, n2}
MCConfigs == {c1, c2}
MCOneNamespace == {n1}
MCSymmetry == Permutations(MCNamespaces) \cup Permutations(MCConfigs)

\* The locals of a pass (the Go variables csi and the readiness read by
\* updateStatusRunning) are dead outside the steps that use them: Reconcile
\* overwrites csi and updateStatusRunningGet overwrites obs.  Safety runs
\* identify states that differ only in dead locals.
MCView == <<cr, cache, IF pc = "idle" THEN None ELSE csi, pc, queued,
            IF pc = "statusWrite" THEN obs ELSE None, secret, nsExists, support,
            clusterRoles, bindings, csiDriver, configMap, deployment, daemonset,
            depReady, dsReady, userOps, apiErrors, flaps, gaveUp>>
====
