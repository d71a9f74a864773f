--------------------------- MODULE MCCreateDelete ---------------------------
(* Two sources of the same name with credentials, one that is deleted      *)
(* meanwhile, and a tenant that two administrators set up.                 *)
EXTENDS CreateDelete

Write(object, how, spec, labels) == [object |-> object, how |-> how, spec |-> spec, labels |-> labels]
Job(plan, waits, hasArtifact) == [plan |-> plan, waits |-> waits, artifact |-> hasArtifact]

SourceJob(c, how, waits) ==
    Job(<<Write("secret", "secret", c, {}), Write("source", how, c, {c})>>, waits, waits = "dynamic")
TenantJob(role) ==
    Job(<<Write("account", "labels", "account", {"team"}), Write("binding", "recreate", role, {"team"})>>,
        "none", FALSE)

Names == {"secret", "source", "source2", "account", "binding"}
Only(records, names) == records @@ [o \in names |-> Absent]
There(spec, labels) ==
    [Fresh(1, spec, labels) EXCEPT !.obsGen = 1, !.ready = "True", !.artifact = TRUE]

Sources == {<<>>, "source" :> There("other", {}), ("source" :> There("d", {"d"})) @@ ("secret" :> Fresh(1, "c", {}))}

MCScenarios ==
    {[cluster |-> Only(cluster, {"secret", "source"}), names |-> <<>>,
      jobs |-> ("c" :> SourceJob("c", "replace", "dynamic")) @@ ("d" :> SourceJob("d", "ifChanged", "static"))] :
        cluster \in Sources}
    \cup
    {[cluster |-> Only(cluster @@ ("source2" :> There("other", {})), {"secret", "source"}),
      names |-> <<"source", "source2">>, jobs |-> ("c" :> SourceJob("c", "ifChanged", "dynamic"))] :
        cluster \in Sources}
    \cup
    {[cluster |-> Only(cluster, {"account", "binding"}), names |-> <<>>,
      jobs |-> ("c" :> TenantJob("view")) @@ ("d" :> TenantJob("admin"))] :
        cluster \in {<<>>, ("binding" :> Fresh(1, "view", {})) @@ ("account" :> Fresh(1, "account", {"mine"}))}}
=============================================================================
