---------------------------- MODULE MCLitestream ----------------------------
(***************************************************************************)
(* Instances of LitestreamCluster for TLC: two resources and their Pods    *)
(* and workloads, over a source and a destination Replica.                 *)
(***************************************************************************)
EXTENDS LitestreamCluster, TLC

CONSTANTS l1, l2, w1, w2, p1, p2, source, destination

Database == [name |-> "db", path |-> <<"data", "app", "db">>,
             restore |-> None, replicate |-> None, clonePolicy |-> ""]

From(r, exists) == [replicaRef |-> r, ifDatabaseExists |-> exists, ifReplicaMissing |-> "skip"]
To(r) == [replicaRef |-> r]

RestoreOnly == [Database EXCEPT !.restore = From(source, "overwrite")]
Replicated == [Database EXCEPT !.replicate = To(destination)]
Cloned(exists, policy) ==
  [Database EXCEPT !.restore = From(source, exists), !.replicate = To(destination),
                   !.clonePolicy = policy]

Second(d) == [d EXCEPT !.name = "second", !.path = <<"data", "second">>]

MCSpecs == {<<RestoreOnly>>, <<Cloned("skip", "resume-or-create")>>,
            <<Replicated, Second(Cloned("overwrite", "require-empty"))>>}

Budget(litestream, replica, workload, pod, reconcile, fault) ==
  [litestream |-> litestream, replica |-> replica, workload |-> workload, pod |-> pod,
   reconcile |-> reconcile, fault |-> fault]

(* Resources with workloads; with competing Pods; with changing Replicas;  *)
(* with changing specs.                                                    *)
MCBudgets == {Budget(3, 0, 3, 0, 0, 0), Budget(2, 0, 0, 2, 2, 0),
              Budget(1, 2, 0, 1, 3, 1), Budget(3, 0, 0, 1, 1, 0)}

MCInitialReplica == [type |-> "gcs", root |-> "a", secret |-> "a"]
MCReplicaSpecs == {MCInitialReplica, [MCInitialReplica EXCEPT !.secret = "b"]}

MCTemplates == {[kind |-> "Deployment", replicas |-> 1, surge |-> FALSE],
                [kind |-> "Deployment", replicas |-> 1, surge |-> TRUE],
                [kind |-> "StatefulSet", replicas |-> 2, surge |-> FALSE],
                [kind |-> "StatefulSet", replicas |-> 0, surge |-> FALSE]}

Mount(volume, path) == [volume |-> volume, path |-> path]

(* One container with nested mounts; two containers and annotations, whose *)
(* own init container has the name of the sidecar.                         *)
MCShapes ==
  LET nested == {Mount("data", <<"data">>), Mount("app", <<"data", "app">>)}
  IN  {[containers |-> "app" :> nested, container |-> None, volume |-> None,
        init |-> {[name |-> <<"migrate", "">>, runs |-> <<"migrate", "">>]}],
       [containers |-> "app" :> nested @@ "web" :> nested, container |-> "web", volume |-> "data",
        init |-> {[name |-> ReplicateConfigFile, runs |-> <<"other", "">>]}]}

Symmetric == Permutations({l1, l2}) \cup Permutations({w1, w2}) \cup Permutations({p1, p2})
=============================================================================
