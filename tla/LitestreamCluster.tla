-------------------------- MODULE LitestreamCluster --------------------------
(***************************************************************************)
(* The litestream controller in one namespace: the reconciler, which works *)
(* from cached objects, the admission webhooks, which read the API server, *)
(* and the workloads and Pods they judge.                                  *)
(*                                                                         *)
(* A validating request is checked and stored in one step; two that race   *)
(* may both pass, which the documentation states.  The creation of a Pod   *)
(* is three steps: reading the resource, the rest of the mutation, and     *)
(* the API server storing the Pod.                                         *)
(***************************************************************************)
EXTENDS LitestreamConfig, FiniteSets, Naturals

CONSTANTS
  Name,          \* names of Litestream resources
  Replica,       \* names of LitestreamReplica resources
  Workload, Pod,
  Specs,         \* the specs users write
  ReplicaSpecs, InitialReplica,  \* the LitestreamReplica specs users write
  Templates,     \* the workloads users write, without their annotation
  Shapes,        \* containers, mounts, annotations and init containers of Pods
  Budgets        \* bounds on requests of users, reconciliations and failed writes

ASSUME FiniteWorkloads == IsFiniteSet(Workload)

VARIABLES
  ls, replicas, configMaps, workloads, pods,   \* the API server
  uids,              \* UIDs given out
  seenLs, seenReplicas, queue, job,            \* the controller
  requests           \* left, by kind

userVars == <<ls, replicas, workloads, uids, requests>>
controllerVars == <<seenLs, seenReplicas, queue, job>>
vars == <<userVars, configMaps, pods, controllerVars>>

Resource(uid, generation, spec, status) ==
  [uid |-> uid, generation |-> generation, spec |-> spec, status |-> status]

NoStatus == [ready |-> None, hash |-> None, configMap |-> None]

Init ==
  /\ ls = [l \in Name |-> None]
  /\ replicas = [r \in Replica |-> InitialReplica]
  /\ configMaps = <<>>
  /\ workloads = [w \in Workload |-> None]
  /\ pods = [p \in Pod |-> None]
  /\ uids = 0
  /\ seenLs = ls /\ seenReplicas = replicas
  /\ queue = {} /\ job = None
  /\ requests \in Budgets

Request(kind) == requests[kind] > 0 /\ requests' = [requests EXCEPT ![kind] = @ - 1]

-----------------------------------------------------------------------------
(* The reconciler.  A watch brings the newest object, not every version;   *)
(* updates that leave the generation alone are filtered.                   *)

WatchLitestream(l) ==
  /\ seenLs[l] # ls[l]
  /\ seenLs' = [seenLs EXCEPT ![l] = ls[l]]
  /\ LET id(o) == IF o = None THEN <<0, 0>> ELSE <<o.uid, o.generation>>
     IN  queue' = IF id(ls[l]) # id(seenLs[l]) THEN queue \cup {l} ELSE queue
  /\ UNCHANGED <<userVars, configMaps, pods, seenReplicas, job>>

MapReplicaToLitestreams(r) == {l \in Name : seenLs[l] # None /\ Consumes(seenLs[l].spec, r)}

WatchReplica(r) ==
  /\ seenReplicas[r] # replicas[r]
  /\ seenReplicas' = [seenReplicas EXCEPT ![r] = replicas[r]]
  /\ queue' = queue \cup MapReplicaToLitestreams(r)
  /\ UNCHANGED <<userVars, configMaps, pods, seenLs, job>>

(* Reconcile up to its first write. *)
Reconcile(l) ==
  /\ Request("reconcile") /\ job = None /\ l \in queue
  /\ queue' = queue \ {l}
  /\ job' = IF seenLs[l] = None THEN None
            ELSE LET spec == seenLs[l].spec
                     ok == /\ Validate(spec) /\ Resolvable(spec, seenReplicas)
                           /\ ValidateGCSCredentials(spec, seenReplicas)
                 IN  [name |-> l, resource |-> seenLs[l],
                      at |-> IF ok THEN "render" ELSE "mark",
                      rendered |-> IF ok THEN Render(spec, seenReplicas) ELSE None,
                      cause |-> Unresolved(spec, seenReplicas)]
  /\ UNCHANGED <<ls, replicas, workloads, uids, configMaps, pods, seenLs, seenReplicas>>

(* Faulty variant: one ConfigMap per resource. *)
ConfigMapNameStable(uid, hash) == <<uid, None>>

ConfigMapNameForHash(uid, hash) == <<uid, hash>>

(* An event about an owned ConfigMap queues its owner. *)
ReconcileConfigMap ==
  /\ job # None /\ job.at = "render"
  /\ LET uid == job.resource.uid
         name == ConfigMapNameForHash(uid, job.rendered)
         new == [owner |-> uid, name |-> job.name, data |-> job.rendered.data]
     IN  /\ configMaps' = [n \in DOMAIN configMaps \cup {name} |->
                            IF n = name THEN new ELSE configMaps[n]]
         /\ queue' = IF configMaps' = configMaps THEN queue ELSE queue \cup {job.name}
  /\ job' = [job EXCEPT !.at = "mark"]
  /\ UNCHANGED <<userVars, pods, seenLs, seenReplicas>>

(* markReady and markInvalid write a merge patch: the fields that differ   *)
(* from the status of the cached resource, by name and unconditionally.    *)
Outcome ==
  LET r == job.rendered
  IN  [ready |-> [status |-> r # None, generation |-> job.resource.generation, cause |-> job.cause],
       hash |-> r,
       configMap |-> IF r = None THEN None ELSE ConfigMapNameForHash(job.resource.uid, r)]

MergePatch(base, new, current) ==
  [f \in DOMAIN new |-> IF new[f] # base[f] THEN new[f] ELSE current[f]]

Mark ==
  /\ job # None /\ job.at = "mark"
  /\ ls[job.name] # None
  /\ ls' = [ls EXCEPT ![job.name] = Resource(@.uid, @.generation, @.spec,
                                        MergePatch(job.resource.status, Outcome, @.status))]
  /\ job' = None
  /\ UNCHANGED <<replicas, workloads, uids, requests, configMaps, pods, seenLs, seenReplicas, queue>>

(* A write that fails puts the request back. *)
ReconcileFails ==
  /\ job # None
  /\ \/ job.at = "mark" /\ ls[job.name] = None /\ UNCHANGED requests
     \/ Request("fault")
  /\ queue' = queue \cup {job.name}
  /\ job' = None
  /\ UNCHANGED <<ls, replicas, workloads, uids, configMaps, pods, seenLs, seenReplicas>>

(* Kubernetes removes what a deleted resource owned. *)
GarbageCollect ==
  LET owned == {n \in DOMAIN configMaps :
                  \A l \in Name : ls[l] = None \/ ls[l].uid # configMaps[n].owner}
  IN  /\ owned # {}
      /\ configMaps' = [n \in DOMAIN configMaps \ owned |-> configMaps[n]]
      /\ queue' = queue \cup {configMaps[n].name : n \in owned}
      /\ UNCHANGED <<userVars, pods, seenLs, seenReplicas, job>>

-----------------------------------------------------------------------------
(* Validation of workloads, [kind, replicas, surge, inject], and of        *)
(* Litestream resources.                                                   *)

HasActivePods(w) == w.kind = "DaemonSet" \/ w.replicas > 0
MultiplePods(w) == w.kind = "DaemonSet" \/ w.replicas > 1
UnsafeRollout(w) == w.kind = "Deployment" /\ w.surge

ShareReplicationDestination(a, b) ==
  ReplicationDestinations(a) \cap ReplicationDestinations(b) # {}

WorkloadSafetyConflict(w, l) ==
  w.inject = l /\ (MultiplePods(w) \/ (HasActivePods(w) /\ UnsafeRollout(w)))

Existing == {w \in Workload : workloads[w] # None}

DestinationConflict(w, spec) ==
  /\ HasActivePods(w) /\ w.inject # None
  /\ ls[w.inject] # None
  /\ ShareReplicationDestination(spec, ls[w.inject].spec)

ExistingWorkloadConflict(w, l) ==
  \E v \in Existing \ {w} :
    WorkloadSafetyConflict(workloads[v], l) \/ DestinationConflict(workloads[v], ls[l].spec)

(* A change of the number of replicas alone starts no rollout. *)
WorkloadAllowed(w, new, scaleOnly) ==
  LET l == new.inject
      unsafe == UnsafeRollout(new) /\ ~scaleOnly
  IN  \/ l = None
      \/ ~HasActivePods(new)
      \/ l # None /\ ls[l] = None /\ ~MultiplePods(new) /\ ~unsafe
      \/ /\ l # None /\ ls[l] # None
         /\ Replicates(ls[l].spec) =>
              ~MultiplePods(new) /\ ~unsafe /\ ~ExistingWorkloadConflict(w, l)

(* Faulty variant: workloads that name the resource itself are not counted. *)
LitestreamConflictOthers(l, spec) ==
  \E w \in Existing :
    \/ WorkloadSafetyConflict(workloads[w], l)
    \/ workloads[w].inject # l /\ DestinationConflict(workloads[w], spec)

LitestreamConflict(l, spec) ==
  \/ \E w \in Existing :
       \/ WorkloadSafetyConflict(workloads[w], l)
       \/ workloads[w].inject # l /\ DestinationConflict(workloads[w], spec)
  \/ Cardinality({w \in Existing : workloads[w].inject = l /\ HasActivePods(workloads[w])}) > 1

LitestreamAllowed(l, spec) == Validate(spec) /\ (Replicates(spec) => ~LitestreamConflict(l, spec))

-----------------------------------------------------------------------------
(* What users do. *)

CreateLitestream(l, spec) ==
  /\ Request("litestream") /\ ls[l] = None /\ LitestreamAllowed(l, spec)
  /\ uids' = uids + 1
  /\ ls' = [ls EXCEPT ![l] = Resource(uids', 1, spec, NoStatus)]
  /\ UNCHANGED <<replicas, workloads, configMaps, pods, controllerVars>>

UpdateLitestream(l, spec) ==
  /\ Request("litestream") /\ ls[l] # None /\ spec # ls[l].spec /\ LitestreamAllowed(l, spec)
  /\ ls' = [ls EXCEPT ![l] = Resource(@.uid, @.generation + 1, spec, @.status)]
  /\ UNCHANGED <<replicas, workloads, uids, configMaps, pods, controllerVars>>

DeleteLitestream(l) ==
  /\ Request("litestream") /\ ls[l] # None
  /\ ls' = [ls EXCEPT ![l] = None]
  /\ UNCHANGED <<replicas, workloads, uids, configMaps, pods, controllerVars>>

PutReplica(r, spec) ==
  /\ Request("replica") /\ replicas[r] # spec
  /\ replicas' = [replicas EXCEPT ![r] = spec]
  /\ UNCHANGED <<ls, workloads, uids, configMaps, pods, controllerVars>>

ProtectReplicaDeletion(r) == \A l \in Name : ls[l] # None => ~Consumes(ls[l].spec, r)

DeleteReplica(r) ==
  /\ Request("replica") /\ replicas[r] # None /\ ProtectReplicaDeletion(r)
  /\ replicas' = [replicas EXCEPT ![r] = None]
  /\ UNCHANGED <<ls, workloads, uids, configMaps, pods, controllerVars>>

PutWorkload(w, template, l) ==
  LET new == [kind |-> template.kind, replicas |-> template.replicas, surge |-> template.surge,
              inject |-> l]
  IN  /\ Request("workload") /\ workloads[w] # new
      /\ workloads[w] # None => workloads[w].kind = new.kind
      /\ WorkloadAllowed(w, new, FALSE)
      /\ workloads' = [workloads EXCEPT ![w] = new]
      /\ UNCHANGED <<ls, replicas, uids, configMaps, pods, controllerVars>>

ScaleWorkload(w, n) ==
  /\ Request("workload") /\ workloads[w] # None /\ workloads[w].kind # "DaemonSet"
  /\ n # workloads[w].replicas
  /\ LET new == [workloads[w] EXCEPT !.replicas = n]
     IN  /\ WorkloadAllowed(w, new, TRUE)
         /\ workloads' = [workloads EXCEPT ![w] = new]
  /\ UNCHANGED <<ls, replicas, uids, configMaps, pods, controllerVars>>

DeleteWorkload(w) ==
  /\ Request("workload") /\ workloads[w] # None
  /\ workloads' = [workloads EXCEPT ![w] = None]
  /\ UNCHANGED <<ls, replicas, uids, configMaps, pods, controllerVars>>

-----------------------------------------------------------------------------
(* The Pod mutator.  A Pod is [at, ls, uid, generation, spec, status,      *)
(* shape, target, data, init, unseen]; init is its init containers, [name, *)
(* runs]: the added ones, which run first, and the set of its own; unseen  *)
(* is the Pods that were stored after it was checked and before it was     *)
(* stored.                                                                 *)

PathContains(parent, child) ==
  Len(parent) <= Len(child) /\ parent = SubSeq(child, 1, Len(parent))

ContainsAll(mount, spec) == \A i \in DOMAIN spec : PathContains(mount.path, spec[i].path)

(* Faulty variant: the least specific mount is taken. *)
LeastSpecific(cs) == {c \in cs : \A o \in cs : Len(c.path) <= Len(o.path)}

MostSpecific(cs) == {c \in cs : \A o \in cs : Len(c.path) >= Len(o.path)}

Mounts(shape) ==
  UNION {{m @@ [container |-> c] : m \in shape.containers[c]} : c \in DOMAIN shape.containers}

ASSUME PathAssumption ==
  /\ \A shape \in Shapes : \A m \in Mounts(shape) : m.path \in Seq(STRING)
  /\ \A spec \in Specs : \A i \in DOMAIN spec : spec[i].path \in Seq(STRING)

ASSUME SpecAssumption == \A spec \in Specs : Len(spec) \in Nat /\ DOMAIN spec = 1..Len(spec)

(* Annotations select a container and a volume; what is left must agree. *)
ResolveTarget(shape, spec) ==
  LET candidates == {m \in Mounts(shape) :
                       /\ shape.container \in {None, m.container}
                       /\ shape.volume \in {None, m.volume}
                       /\ ContainsAll(m, spec)}
      best == MostSpecific(candidates)
  IN  IF Cardinality(best) = 1 THEN CHOOSE m \in best : TRUE ELSE None

PodMayWrite(p) == pods[p] # None /\ pods[p].at = "live"

(* Faulty variant: only Pods of the same resource conflict. *)
ReplicationConflictByName(p) ==
  /\ Replicates(pods[p].spec)
  /\ \E q \in Pod \ {p} : PodMayWrite(q) /\ pods[q].ls = pods[p].ls

ReplicationConflict(p) ==
  /\ Replicates(pods[p].spec)
  /\ \E q \in Pod \ {p} :
       /\ PodMayWrite(q)
       /\ \/ pods[q].ls = pods[p].ls
          \/ /\ ls[pods[q].ls] # None
             /\ ShareReplicationDestination(pods[p].spec, ls[pods[q].ls].spec)

RenderReadyResource(p, rendered) ==
  LET status == pods[p].status
  IN  /\ status.ready # None /\ status.ready.status
      /\ status.ready.generation = pods[p].generation
      /\ status.hash = rendered

VerifyConfigMap(p, rendered) ==
  LET name == pods[p].status.configMap
  IN  /\ name \in DOMAIN configMaps
      /\ configMaps[name].owner = pods[p].uid
      /\ configMaps[name].data = rendered.data

(* The init containers to add: every restore, then the sidecar. *)
BuildInjection(spec, data) ==
  [i \in DOMAIN spec |-> [name |-> <<"restore", spec[i].name>>, runs |-> <<"script", spec[i].name>>]]
    \o IF ReplicateConfigFile \in DOMAIN data
       THEN <<[name |-> ReplicateConfigFile, runs |-> ReplicateConfigFile]>> ELSE <<>>

(* They come before the Pod's own; another container of the same name is refused. *)
ApplyInjection(own, injected) ==
  LET names == {c.name : c \in Range(injected)}
  IN  IF \E c \in own : c.name \in names /\ c \notin Range(injected) THEN None
      ELSE [first |-> injected, rest |-> {c \in own : c.name \notin names}]

PodRead(p, l, shape) ==
  /\ Request("pod") /\ pods[p] = None /\ ls[l] # None
  /\ pods' = [pods EXCEPT ![p] =
        [at |-> "read", ls |-> l, uid |-> ls[l].uid, generation |-> ls[l].generation,
         spec |-> ls[l].spec, status |-> ls[l].status, shape |-> shape,
         target |-> None, data |-> None, init |-> None, unseen |-> {}]]
  /\ UNCHANGED <<ls, replicas, workloads, uids, configMaps, controllerVars>>

Mutate(p) ==
  LET spec == pods[p].spec
      rendered == Render(spec, replicas)
      target == ResolveTarget(pods[p].shape, spec)
      init == ApplyInjection(pods[p].shape.init, BuildInjection(spec, rendered.data))
      admitted == /\ Resolvable(spec, replicas) /\ ValidateGCSCredentials(spec, replicas)
                  /\ RenderReadyResource(p, rendered) /\ VerifyConfigMap(p, rendered)
                  /\ ~ReplicationConflict(p)
                  /\ target # None /\ init # None
  IN  /\ pods[p] # None /\ pods[p].at = "read"
      /\ pods' = [pods EXCEPT ![p] =
            IF admitted
            THEN [pods[p] EXCEPT !.at = "admitted", !.data = rendered.data,
                                 !.target = target, !.init = init]
            ELSE None]
      /\ UNCHANGED <<userVars, configMaps, controllerVars>>

StorePod(p) ==
  /\ pods[p] # None /\ pods[p].at = "admitted"
  /\ pods' = [q \in Pod |->
        IF q = p THEN [pods[p] EXCEPT !.at = "live"]
        ELSE IF pods[q] # None /\ pods[q].at = "admitted"
        THEN [pods[q] EXCEPT !.unseen = @ \cup {p}] ELSE pods[q]]
  /\ UNCHANGED <<userVars, configMaps, controllerVars>>

EndPod(p) ==
  /\ PodMayWrite(p)
  /\ pods' = [pods EXCEPT ![p] = [@ EXCEPT !.at = "ended"]]
  /\ UNCHANGED <<userVars, configMaps, controllerVars>>

DeletePod(p) ==
  /\ pods[p] # None /\ pods[p].at \in {"live", "ended"}
  /\ pods' = [q \in Pod |->
        IF q = p THEN None
        ELSE IF pods[q] # None THEN [pods[q] EXCEPT !.unseen = @ \ {p}] ELSE None]
  /\ UNCHANGED <<userVars, configMaps, controllerVars>>

-----------------------------------------------------------------------------
Controller ==
  \/ \E l \in Name : WatchLitestream(l) \/ Reconcile(l)
  \/ \E r \in Replica : WatchReplica(r)
  \/ ReconcileConfigMap \/ Mark \/ ReconcileFails

Users ==
  \/ \E l \in Name :
       \/ DeleteLitestream(l)
       \/ \E spec \in Specs : CreateLitestream(l, spec) \/ UpdateLitestream(l, spec)
  \/ \E r \in Replica :
       \/ DeleteReplica(r)
       \/ \E spec \in ReplicaSpecs : PutReplica(r, spec)
  \/ \E w \in Workload :
       \/ DeleteWorkload(w)
       \/ \E t \in Templates, l \in Name \cup {None} : PutWorkload(w, t, l)
       \/ \E n \in {t.replicas : t \in Templates} : ScaleWorkload(w, n)

Kubelet ==
  \E p \in Pod :
    \/ \E l \in Name, shape \in Shapes : PodRead(p, l, shape)
    \/ Mutate(p) \/ StorePod(p) \/ EndPod(p) \/ DeletePod(p)

Next == Controller \/ Users \/ Kubelet \/ GarbageCollect

Spec == Init /\ [][Next]_vars

-----------------------------------------------------------------------------
(* The resource was changed or deleted after the Pod was injected. *)
Outdated(p) ==
  LET r == ls[pods[p].ls]
  IN  r = None \/ r.uid # pods[p].uid \/ r.generation # pods[p].generation

(* No two Pods that may write replicate to one destination, bare Pods and  *)
(* every order of creations and resource changes included, except where    *)
(* their creations raced or one of them runs a superseded spec             *)
(* (validateReplicationConflict).                                          *)
SingleWriter ==
  \A p, q \in Pod :
    /\ p # q /\ PodMayWrite(p) /\ PodMayWrite(q)
    /\ ShareReplicationDestination(pods[p].spec, pods[q].spec)
    => p \in pods[q].unseen \/ q \in pods[p].unseen \/ Outdated(p) \/ Outdated(q)

(* The ConfigMap a Pod mounts exists and holds what it held at injection. *)
Mounted(p) ==
  LET name == pods[p].status.configMap
  IN  name \in DOMAIN configMaps /\ configMaps[name].data = pods[p].data

(* While its resource exists, the ConfigMap an injected Pod mounts exists, *)
(* holds what it held at injection and has every file the injected         *)
(* containers run, whatever the reconciler did since, from however old a   *)
(* cache (ConfigMapNameForHash, verifyConfigMap).                          *)
RevisionKept ==
  \A p \in Pod :
    /\ PodMayWrite(p)
    /\ ls[pods[p].ls] # None /\ ls[pods[p].ls].uid = pods[p].uid
    => LET name == pods[p].status.configMap
       IN  /\ Mounted(p)
           /\ \A i \in DOMAIN pods[p].spec :
                \E c \in Range(pods[p].init.first) : c.runs = <<"script", pods[p].spec[i].name>>
           /\ \A c \in Range(pods[p].init.first) : c.runs \in DOMAIN configMaps[name].data

(* Of the active workloads that name replicating resources, no two share a *)
(* destination and none has several Pods, in whatever order workloads and  *)
(* resources are created, changed, scaled and deleted (WorkloadValidator,  *)
(* LitestreamValidator).                                                   *)
WorkloadsExclusive ==
  LET writers == {w \in Existing :
                    /\ HasActivePods(workloads[w]) /\ workloads[w].inject # None
                    /\ ls[workloads[w].inject] # None
                    /\ Replicates(ls[workloads[w].inject].spec)}
      spec(w) == ls[workloads[w].inject].spec
  IN  /\ \A w \in writers : ~MultiplePods(workloads[w])
      /\ \A v, w \in writers : v # w => ~ShareReplicationDestination(spec(v), spec(w))

(* The injected containers see each database where the application sees    *)
(* it: the mount that holds its path in the application's container is the *)
(* one they are given, unless that mount holds only some of the databases  *)
(* of the resource or is of another volume than the annotated one          *)
(* (ResolveTarget, databaseVolumeMount).                                   *)
SameFile ==
  \A p \in Pod : PodMayWrite(p) =>
    \A i \in DOMAIN pods[p].spec :
      LET target == pods[p].target
          holders == {m \in Mounts(pods[p].shape) :
                        m.container = target.container /\ PathContains(m.path, pods[p].spec[i].path)}
      IN  /\ target \in holders
          /\ \A m \in holders :
               \/ PathContains(m.path, target.path)
               \/ ~ContainsAll(m, pods[p].spec)
               \/ pods[p].shape.volume \notin {None, m.volume}

(* What the scripts of a new revision do, also when they are killed        *)
(* between two commands and run again.  An existing database is replaced   *)
(* only by an overwriting restore that found a backup.  A clone resumes    *)
(* its destination if that has data and its volume is empty, and refuses   *)
(* to start under require-empty.  The second run leaves what one           *)
(* uninterrupted run leaves, and no WAL of a replaced database             *)
(* (buildCloneScript, stagedRestoreLine, restorePolicy.flags).             *)
ScriptsSafe ==
  [][\A n \in DOMAIN configMaps' \ DOMAIN configMaps :
       LET data == configMaps'[n].data
           configs(database) == {f \in DOMAIN data : f[1] # "script" /\ f[2] = database}
       IN  \A f \in DOMAIN data : f[1] = "script" => ScriptSafe(data[f], configs(f[2]))]_vars
=============================================================================
