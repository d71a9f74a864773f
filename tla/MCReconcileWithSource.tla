----------------------- MODULE MCReconcileWithSource -----------------------
(* A small cluster with the sharing and naming cases that matter: a source *)
(* referred to with and without its namespace, two sources of the same     *)
(* name in different namespaces, charts that share a repository, dangling  *)
(* and unsupported references.                                             *)
EXTENDS ReconcileWithSource

Src(k, n, nm) == [by |-> "sourceRef", sourceRef |-> Ref(k, n, nm)]
Chart(by, k, n, nm) == [by |-> by, sourceRef |-> Ref(k, n, nm)]

MCCluster ==
    { <<Ref("Kustomization", "app", "k1"), Src("GitRepository", "", "g")>>,
      <<Ref("Kustomization", "app", "k2"), Src("GitRepository", "app", "g")>>,
      <<Ref("Kustomization", "app", "k3"), Src("GitRepository", "infra", "g")>>,
      <<Ref("Kustomization", "app", "k4"), Src("GitRepository", "infra", "gone")>>,
      <<Ref("Kustomization", "infra", "k2"), Src("GitRepository", "", "g")>>,
      <<Ref("Kustomization", "app", "k5"), Src("ExternalArtifact", "", "x")>>,
      <<Ref("HelmRelease", "app", "h1"), Chart("chartRef", "HelmChart", "", "c1")>>,
      <<Ref("HelmRelease", "app", "h2"), Chart("chart", "HelmChart", "infra", "c2")>>,
      <<Ref("HelmRelease", "app", "h3"), Chart("chartRef", "HelmChart", "app", "c3")>>,
      <<Ref("HelmRelease", "app", "h4"), Chart("none", "", "", "")>>,
      <<Ref("HelmRelease", "app", "h5"), Chart("chart", "OCIRepository", "app", "o")>>,
      <<Ref("HelmChart", "app", "c1"), Src("HelmRepository", "", "r")>>,
      <<Ref("HelmChart", "app", "c3"), Src("HelmRepository", "", "r")>>,
      <<Ref("HelmChart", "infra", "c2"), Src("HelmRepository", "", "static")>>,
      <<Ref("GitRepository", "app", "g"), Src("", "", "")>>,
      <<Ref("GitRepository", "infra", "g"), Src("", "", "")>>,
      <<Ref("OCIRepository", "app", "o"), Src("", "", "")>>,
      <<Ref("HelmRepository", "app", "r"), Src("", "", "")>>,
      <<Ref("HelmRepository", "infra", "static"), Src("", "", "")>> }

MCObjects == {p[1] : p \in MCCluster}
MCSpecOf == [o \in MCObjects |-> (CHOOSE p \in MCCluster : p[1] = o)[2]]
MCStaticRefs == {Ref("HelmRepository", "infra", "static")}
MCNamesOf == [Kustomization |-> {"k1", "k2", "k3", "k4", "k5", "gone"},
              HelmRelease |-> {"h1", "h2", "h3", "h4", "h5"},
              HelmChart |-> {"c1", "c3"}]
=============================================================================
