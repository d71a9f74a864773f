-------------------------- MODULE MigrationPromise --------------------------
(***************************************************************************)
(* What `flux migrate` promises of the custom resources of a cluster, said *)
(* of what an observer of the API server sees: the CRDs, the versions the  *)
(* resources are stored in, and the step the command is at.  How it keeps  *)
(* the promise is the business of ClusterMigrate.                          *)
(***************************************************************************)
EXTENDS Naturals, Sequences, Functions

CONSTANTS
    CrdOrder,      \* the CRDs part of Flux, in the order they are listed
    Resources,     \* names of the custom resources of each
    MaxAttempts,   \* attempts of RetryOnConflict (5 in retry.DefaultRetry)
    MaxVersion     \* bound: versions of an API

Crds == Range(CrdOrder)

ASSUME MigrateAssumption == /\ CrdOrder \in Seq(Crds)
                            /\ MaxAttempts \in Nat \ {0}
                            /\ MaxVersion \in Nat \ {0}

VARIABLES
    crd,       \* CRD -> [storage, stored] in the API server
    resource,  \* CRD -> resource -> version it is stored in, 0 if there is none
    step,      \* "list", "get", "cr", "patch", "status", "ok" or "err"
    upgraded   \* history: CRDs that were upgraded during this command

\* No version in which a resource is still stored is ever dropped from the
\* storedVersions of its CRD, whatever is written, created, deleted, upgraded
\* or killed at the same time (order of migrateCR and the status update, and
\* the update's resource version).
NothingLost ==
    \A c \in Crds : \A r \in Resources :
        resource[c][r] # 0 => resource[c][r] \in crd[c].stored

\* A command that succeeds has left only the storage version of every CRD that
\* was not upgraded since the command was started.
MigratedOnSuccess ==
    step = "ok" => \A c \in Crds \ upgraded :
        /\ crd[c].stored = {crd[c].storage}
        /\ \A r \in Resources : resource[c][r] \in {0, crd[c].storage}
=============================================================================
