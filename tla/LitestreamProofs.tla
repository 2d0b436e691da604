------------------------- MODULE LitestreamProofs ---------------------------
(***************************************************************************)
(* Proofs that the active workloads keep to destinations of their own,     *)
(* that a destination has one Pod that may write, that injected containers *)
(* see the databases of the application, and that their ConfigMap stays,   *)
(* for every number of resources, workloads and Pods.                      *)
(***************************************************************************)
EXTENDS LitestreamCluster, FiniteSetTheorems, TLAPS

(***************************************************************************)
(* Workloads.                                                              *)
(***************************************************************************)
LsShape(r) ==
  r = Resource(r.uid, r.generation, r.spec, r.status)

WorkloadShape(v) ==
  v = [kind |-> v.kind, replicas |-> v.replicas, surge |-> v.surge, inject |-> v.inject]

Objects ==
  /\ ls = [l \in Name |-> ls[l]]
  /\ \A l \in Name : ls[l] # None => LsShape(ls[l])
  /\ workloads = [w \in Workload |-> workloads[w]]
  /\ \A w \in Workload : workloads[w] # None =>
       WorkloadShape(workloads[w]) /\ workloads[w].inject \in Name \cup {None}

(* A workload that may write to the destinations of its resource. *)
Writer(w) ==
  /\ w \in Workload /\ workloads[w] # None
  /\ HasActivePods(workloads[w]) /\ workloads[w].inject # None
  /\ ls[workloads[w].inject] # None /\ Replicates(ls[workloads[w].inject].spec)

WriterSpec(w) == ls[workloads[w].inject].spec

(* WorkloadsExclusive, writer by writer. *)
Exclusive ==
  /\ \A w : Writer(w) => ~MultiplePods(workloads[w])
  /\ \A v, w : Writer(v) /\ Writer(w) /\ v # w =>
       ~ShareReplicationDestination(WriterSpec(v), WriterSpec(w))

WorkloadInv == Objects /\ Exclusive

\* A destination that is shared is a destination of both.
LEMMA ShareSymmetric ==
  ASSUME NEW a, NEW b, ShareReplicationDestination(a, b)
  PROVE  ShareReplicationDestination(b, a)
BY Zenon DEF ShareReplicationDestination

\* A spec with a destination replicates.
LEMMA ShareReplicates ==
  ASSUME NEW a, NEW b, ShareReplicationDestination(a, b)
  PROVE  Replicates(a)
BY Zenon DEF ShareReplicationDestination, ReplicationDestinations, Replicates

\* Of two active workloads that name one resource, LitestreamConflict sees both.
LEMMA TwoActive ==
  ASSUME NEW l, NEW v \in Existing, NEW w \in Existing, v # w,
         workloads[v].inject = l, HasActivePods(workloads[v]),
         workloads[w].inject = l, HasActivePods(workloads[w]),
         NEW spec
  PROVE  LitestreamConflict(l, spec)
<1> DEFINE S == {u \in Existing : workloads[u].inject = l /\ HasActivePods(workloads[u])}
<1>1. IsFiniteSet(S)
  BY FiniteWorkloads, FS_Subset, Zenon DEF Existing
<1>2. IsFiniteSet({v, w}) /\ Cardinality({v, w}) = 2
  <2>1. IsFiniteSet({v}) /\ Cardinality({v}) = 1
    BY FS_Singleton, Zenon
  <2>2. {v} \cup {w} = {v, w} /\ w \notin {v}
    BY Zenon
  <2> QED
    BY <2>1, <2>2, FS_AddElement
<1>3. Cardinality({v, w}) <= Cardinality(S) /\ Cardinality(S) \in Nat
  <2>1. {v, w} \subseteq S
    BY Zenon
  <2> QED
    BY <2>1, <1>1, FS_Subset, FS_CardinalityType, Zenon
<1>4. Cardinality(S) > 1
  BY <1>2, <1>3
<1> QED
  BY <1>4, Zenon DEF LitestreamConflict

(* What a step of a user does to the resources and the workloads. *)
LsStep(l, new) == l \in Name /\ ls' = [ls EXCEPT ![l] = new] /\ workloads' = workloads

\* A resource that is stored keeps writers apart: LitestreamAllowed was asked.
LEMMA PutLitestream ==
  ASSUME WorkloadInv, NEW l \in Name, NEW new, LsShape(new),
         LitestreamAllowed(l, new.spec), LsStep(l, new)
  PROVE  WorkloadInv'
<1>1. Objects'
  BY Zenon DEF WorkloadInv, Objects, LsStep, LsShape, Resource, WorkloadShape
<1>2. \A w : Writer(w)' /\ workloads[w].inject # l => Writer(w) /\ WriterSpec(w)' = WriterSpec(w)
  BY Zenon DEF WorkloadInv, Objects, LsStep, Writer, WriterSpec
<1>3. \A w : Writer(w)' /\ workloads[w].inject = l =>
        /\ w \in Existing /\ HasActivePods(workloads[w])
        /\ WriterSpec(w)' = new.spec /\ Replicates(new.spec)
  BY Zenon DEF WorkloadInv, Objects, LsStep, Writer, WriterSpec, Existing
<1>4. ASSUME NEW w, Writer(w)'
      PROVE  ~MultiplePods(workloads[w]')
  <2>1. CASE workloads[w].inject = l
    BY <1>3, <1>4, <2>1, Zenon DEF LitestreamAllowed, LitestreamConflict, WorkloadSafetyConflict, LsStep
  <2>2. CASE workloads[w].inject # l
    BY <1>2, <1>4, <2>2, Zenon DEF WorkloadInv, Exclusive, LsStep
  <2> QED
    BY <2>1, <2>2, Zenon
<1>5. ASSUME NEW v, NEW w, Writer(v)', Writer(w)', v # w, workloads[w].inject = l
      PROVE  ~ShareReplicationDestination(WriterSpec(v)', WriterSpec(w)')
  <2>1. ~LitestreamConflict(l, new.spec)
    BY <1>3, <1>5, Zenon DEF LitestreamAllowed
  <2>2. workloads[v].inject # l
    BY <2>1, <1>3, <1>5, TwoActive, Zenon
  <2>3. v \in Existing /\ ~DestinationConflict(workloads[v], new.spec)
    BY <2>1, <2>2, <1>2, <1>5, Zenon DEF LitestreamConflict, Existing, Writer
  <2>4. ~ShareReplicationDestination(new.spec, WriterSpec(v))
    BY <2>2, <2>3, <1>2, <1>5, Zenon DEF DestinationConflict, Writer, WriterSpec
  <2> QED
    BY <2>2, <2>4, <1>2, <1>3, <1>5, ShareSymmetric, Zenon
<1>6. ASSUME NEW v, NEW w, Writer(v)', Writer(w)', v # w
      PROVE  ~ShareReplicationDestination(WriterSpec(v)', WriterSpec(w)')
  <2>1. CASE workloads[w].inject = l
    BY <1>5, <1>6, <2>1, Zenon
  <2>2. CASE workloads[v].inject = l
    BY <1>5, <1>6, <2>2, ShareSymmetric, Zenon
  <2>3. CASE workloads[v].inject # l /\ workloads[w].inject # l
    BY <1>2, <1>6, <2>3, Zenon DEF WorkloadInv, Exclusive
  <2> QED
    BY <2>1, <2>2, <2>3, Zenon
<1>7. Exclusive'
  BY <1>4, <1>6, Zenon DEF Exclusive, ShareReplicationDestination
<1> QED
  BY <1>1, <1>7, Zenon DEF WorkloadInv

\* A workload that is stored keeps writers apart: WorkloadAllowed was asked.
LEMMA StoreWorkload ==
  ASSUME WorkloadInv, NEW w \in Workload, NEW new, NEW scaleOnly,
         WorkloadShape(new), new.inject \in Name \cup {None},
         WorkloadAllowed(w, new, scaleOnly),
         workloads' = [workloads EXCEPT ![w] = new], ls' = ls
  PROVE  WorkloadInv'
<1>1. Objects'
  BY Zenon DEF WorkloadInv, Objects, LsShape, Resource, WorkloadShape
<1>2. \A v : Writer(v)' /\ v # w => Writer(v) /\ WriterSpec(v)' = WriterSpec(v)
                                   /\ workloads'[v] = workloads[v]
  BY Zenon DEF WorkloadInv, Objects, Writer, WriterSpec
<1>3. Writer(w)' => /\ HasActivePods(new) /\ new.inject # None /\ ls[new.inject] # None
                    /\ Replicates(ls[new.inject].spec)
                    /\ WriterSpec(w)' = ls[new.inject].spec /\ workloads'[w] = new
  BY Zenon DEF WorkloadInv, Objects, Writer, WriterSpec
<1>4. Writer(w)' => ~MultiplePods(new) /\ ~ExistingWorkloadConflict(w, new.inject)
  BY <1>3, Zenon DEF WorkloadAllowed
<1>5. ASSUME NEW v, Writer(v)', Writer(w)', v # w
      PROVE  ~ShareReplicationDestination(WriterSpec(w)', WriterSpec(v)')
  <2>1. v \in Existing \ {w}
    BY <1>2, <1>5, Zenon DEF Existing, Writer
  <2>2. ~DestinationConflict(workloads[v], ls[new.inject].spec)
    BY <2>1, <1>4, <1>5, Zenon DEF ExistingWorkloadConflict
  <2>3. ~ShareReplicationDestination(ls[new.inject].spec, WriterSpec(v))
    BY <2>2, <1>2, <1>5, Zenon DEF DestinationConflict, Writer, WriterSpec
  <2> QED
    BY <2>3, <1>2, <1>3, <1>5, Zenon
<1>6. ASSUME NEW u, NEW v, Writer(u)', Writer(v)', u # v
      PROVE  ~ShareReplicationDestination(WriterSpec(u)', WriterSpec(v)')
  <2>1. CASE u = w
    BY <1>5, <1>6, <2>1, Zenon
  <2>2. CASE v = w
    BY <1>5, <1>6, <2>2, ShareSymmetric, Zenon
  <2>3. CASE u # w /\ v # w
    BY <1>2, <1>6, <2>3, Zenon DEF WorkloadInv, Exclusive
  <2> QED
    BY <2>1, <2>2, <2>3, Zenon
<1>7. \A v : Writer(v)' => ~MultiplePods(workloads'[v])
  BY <1>2, <1>3, <1>4, Zenon DEF WorkloadInv, Exclusive
<1>8. Exclusive'
  BY <1>6, <1>7, Zenon DEF Exclusive, ShareReplicationDestination
<1> QED
  BY <1>1, <1>8, Zenon DEF WorkloadInv

\* Steps that only take resources and workloads away, or leave their specs.
LEMMA KeepWriters ==
  ASSUME WorkloadInv, Objects',
         \A w : Writer(w)' => Writer(w) /\ workloads'[w] = workloads[w]
                                 /\ WriterSpec(w)' = WriterSpec(w)
  PROVE  WorkloadInv'
BY Zenon DEF WorkloadInv, Exclusive, ShareReplicationDestination

\* Every step keeps the writers apart.
LEMMA NextWorkloadInv == WorkloadInv /\ [Next]_vars => WorkloadInv'
<1> SUFFICES ASSUME WorkloadInv, [Next]_vars PROVE WorkloadInv'
  BY Zenon
<1>1. CASE ls' = ls /\ workloads' = workloads
  BY <1>1, Zenon DEF WorkloadInv, Objects, Exclusive, Writer, WriterSpec, LsShape, Resource, WorkloadShape
<1>2. CASE Mark
  <2>1. Objects'
    BY <1>2, Zenon DEF Mark, WorkloadInv, Objects, LsShape, Resource, WorkloadShape
  <2>2. ASSUME NEW l \in Name, ls'[l] # None PROVE ls[l] # None /\ ls'[l].spec = ls[l].spec
    BY <1>2, <2>2, Zenon DEF Mark, WorkloadInv, Objects, LsShape, Resource
  <2>3. \A w : Writer(w)' => Writer(w) /\ workloads'[w] = workloads[w]
                                /\ WriterSpec(w)' = WriterSpec(w)
    BY <1>2, <2>2, Zenon DEF Mark, WorkloadInv, Objects, Writer, WriterSpec
  <2> QED
    BY <2>1, <2>3, KeepWriters, Zenon
<1>3. CASE \E l \in Name, spec \in Specs : CreateLitestream(l, spec)
  <2> PICK l \in Name, spec \in Specs : CreateLitestream(l, spec)
    BY <1>3, Zenon
  <2> DEFINE new == Resource(uids', 1, spec, NoStatus)
  <2>1. LsStep(l, new) /\ LsShape(new) /\ LitestreamAllowed(l, new.spec)
    BY Zenon DEF CreateLitestream, LsStep, LsShape, Resource
  <2> QED
    BY <2>1, PutLitestream, Zenon
<1>4. CASE \E l \in Name, spec \in Specs : UpdateLitestream(l, spec)
  <2> PICK l \in Name, spec \in Specs : UpdateLitestream(l, spec)
    BY <1>4
  <2> DEFINE new == Resource(ls[l].uid, ls[l].generation + 1, spec, ls[l].status)
  <2>1. LsStep(l, new) /\ LsShape(new) /\ LitestreamAllowed(l, new.spec)
    BY Zenon DEF UpdateLitestream, LsStep, LsShape, Resource
  <2> QED
    BY <2>1, PutLitestream, Zenon
<1>5. CASE \E l \in Name : DeleteLitestream(l)
  <2> PICK l \in Name : DeleteLitestream(l)
    BY <1>5, Zenon
  <2>1. Objects'
    BY Zenon DEF DeleteLitestream, WorkloadInv, Objects, LsShape, Resource, WorkloadShape
  <2>2. \A w : Writer(w)' => Writer(w) /\ workloads'[w] = workloads[w]
                                /\ WriterSpec(w)' = WriterSpec(w)
    BY Zenon DEF DeleteLitestream, WorkloadInv, Objects, Writer, WriterSpec
  <2> QED
    BY <2>1, <2>2, KeepWriters, Zenon
<1>6. CASE \E w \in Workload, t \in Templates, l \in Name \cup {None} : PutWorkload(w, t, l)
  <2> PICK w \in Workload, t \in Templates, l \in Name \cup {None} : PutWorkload(w, t, l)
    BY <1>6, Zenon
  <2> DEFINE new == [kind |-> t.kind, replicas |-> t.replicas, surge |-> t.surge, inject |-> l]
  <2>1. WorkloadShape(new) /\ new.inject \in Name \cup {None}
    BY Zenon DEF WorkloadShape
  <2>2. /\ WorkloadAllowed(w, new, FALSE)
        /\ workloads' = [workloads EXCEPT ![w] = new] /\ ls' = ls
    BY Zenon DEF PutWorkload
  <2> QED
    BY <2>1, <2>2, StoreWorkload, Zenon
<1>7. CASE \E w \in Workload, n \in {t.replicas : t \in Templates} : ScaleWorkload(w, n)
  <2> PICK w \in Workload, n \in {t.replicas : t \in Templates} : ScaleWorkload(w, n)
    BY <1>7, Zenon
  <2> DEFINE new == [workloads[w] EXCEPT !.replicas = n]
  <2>1. WorkloadShape(new) /\ new.inject \in Name \cup {None}
    BY DEF ScaleWorkload, WorkloadInv, Objects, WorkloadShape
  <2>2. /\ WorkloadAllowed(w, new, TRUE)
        /\ workloads' = [workloads EXCEPT ![w] = new] /\ ls' = ls
    BY Zenon DEF ScaleWorkload
  <2> QED
    BY <2>1, <2>2, StoreWorkload, Zenon
<1>8. CASE \E w \in Workload : DeleteWorkload(w)
  <2> PICK w \in Workload : DeleteWorkload(w)
    BY <1>8
  <2>1. Objects'
    BY Zenon DEF DeleteWorkload, WorkloadInv, Objects, LsShape, Resource, WorkloadShape
  <2>2. \A v : Writer(v)' => Writer(v) /\ workloads'[v] = workloads[v]
                                /\ WriterSpec(v)' = WriterSpec(v)
    BY Zenon DEF DeleteWorkload, WorkloadInv, Objects, Writer, WriterSpec
  <2> QED
    BY <2>1, <2>2, KeepWriters
<1> QED
  BY <1>1, <1>2, <1>3, <1>4, <1>5, <1>6, <1>7, <1>8, Zenon
     DEF Next, Controller, Users, Kubelet, vars, userVars, WatchLitestream, WatchReplica, Reconcile,
         ReconcileConfigMap, ReconcileFails, GarbageCollect, PutReplica, DeleteReplica, PodRead,
         Mutate, StorePod, EndPod, DeletePod

\* For every number of workloads, resources and Pods: no two active workloads
\* that replicate share a destination and none has several Pods, in whatever
\* order the webhooks see them (WorkloadValidator, LitestreamValidator).
THEOREM OneWorkloadPerDestination == Spec => []WorkloadsExclusive
<1>1. Init => WorkloadInv
  BY Zenon DEF Init, WorkloadInv, Objects, Exclusive, Writer
<1>2. WorkloadInv => WorkloadsExclusive
  BY Zenon DEF WorkloadInv, Exclusive, Writer, WriterSpec, WorkloadsExclusive, Existing
<1> QED
  BY <1>1, <1>2, NextWorkloadInv, PTL DEF Spec

-----------------------------------------------------------------------------
(***************************************************************************)
(* Pods.                                                                   *)
(***************************************************************************)

PodShape(x) ==
  x = [at |-> x.at, ls |-> x.ls, uid |-> x.uid, generation |-> x.generation, spec |-> x.spec,
       status |-> x.status, shape |-> x.shape, target |-> x.target, data |-> x.data,
       init |-> x.init, unseen |-> x.unseen]

(* What two versions of a Pod have in common. *)
SamePod(x, y) ==
  /\ PodShape(y) /\ y.ls = x.ls /\ y.uid = x.uid /\ y.generation = x.generation /\ y.spec = x.spec
  /\ y.status = x.status /\ y.shape = x.shape

SameInjection(x, y) == y.target = x.target /\ y.data = x.data /\ y.init = x.init

(* UIDs are fresh, and a resource that is as the Pod found it has the spec *)
(* the Pod was given.                                                      *)
Versions ==
  /\ uids \in Nat
  /\ \A l \in Name : ls[l] # None => ls[l].uid \in 0..uids /\ ls[l].generation \in Nat
  /\ pods = [p \in Pod |-> pods[p]]
  /\ \A p \in Pod : pods[p] # None =>
       /\ PodShape(pods[p])
       /\ pods[p].ls \in Name /\ pods[p].uid \in 0..uids /\ pods[p].generation \in Nat
       /\ LET r == ls[pods[p].ls]
          IN  r # None /\ r.uid = pods[p].uid =>
                /\ pods[p].generation <= r.generation
                /\ pods[p].generation = r.generation => pods[p].spec = r.spec

(* A Pod was checked against the Pods that may write. *)
Checked(p, q) ==
  /\ p # q /\ pods[p] # None /\ pods[p].at \in {"admitted", "live"} /\ PodMayWrite(q)
  /\ ShareReplicationDestination(pods[p].spec, pods[q].spec)
  => p \in pods[q].unseen \/ q \in pods[p].unseen \/ Outdated(p) \/ Outdated(q)

PodInv == WorkloadInv /\ Versions /\ \A p, q \in Pod : Checked(p, q)

(* The changes that Pods go through. *)
PodAt(x, at) == [x EXCEPT !.at = at]
PodUnseen(x, unseen) == [x EXCEPT !.unseen = unseen]
PodInjected(x, at, data, target, init) ==
  [x EXCEPT !.at = at, !.data = data, !.target = target, !.init = init]

\* None of them changes what identifies a Pod.
LEMMA PodFields ==
  ASSUME NEW x, PodShape(x), NEW at, NEW data, NEW target, NEW init, NEW unseen
  PROVE  /\ SamePod(x, PodAt(x, at)) /\ PodAt(x, at).at = at /\ PodAt(x, at).unseen = x.unseen
         /\ SamePod(x, PodUnseen(x, unseen)) /\ PodUnseen(x, unseen).at = x.at
         /\ PodUnseen(x, unseen).unseen = unseen
         /\ SamePod(x, PodInjected(x, at, data, target, init))
         /\ PodInjected(x, at, data, target, init).at = at
         /\ PodInjected(x, at, data, target, init).unseen = x.unseen
         /\ SameInjection(x, PodAt(x, at)) /\ SameInjection(x, PodUnseen(x, unseen))
         /\ PodInjected(x, at, data, target, init).data = data
         /\ PodInjected(x, at, data, target, init).target = target
         /\ PodInjected(x, at, data, target, init).init = init
<1> DEFINE z(a, d, t, i, u) ==
      [at |-> a, ls |-> x.ls, uid |-> x.uid, generation |-> x.generation, spec |-> x.spec,
       status |-> x.status, shape |-> x.shape, target |-> t, data |-> d, init |-> i, unseen |-> u]
<1>1. x = z(x.at, x.data, x.target, x.init, x.unseen)
  BY Zenon DEF PodShape
<1> HIDE DEF z
<1>2. \A a, d, t, i, u : SamePod(x, z(a, d, t, i, u)) /\ z(a, d, t, i, u).at = a
                          /\ z(a, d, t, i, u).unseen = u
                          /\ z(a, d, t, i, u).data = d /\ z(a, d, t, i, u).target = t
                          /\ z(a, d, t, i, u).init = i
  BY DEF SamePod, PodShape, z
<1>3. PodAt(x, at) = z(at, x.data, x.target, x.init, x.unseen)
  BY <1>1 DEF PodAt, z
<1>4. PodUnseen(x, unseen) = z(x.at, x.data, x.target, x.init, unseen)
  BY <1>1 DEF PodUnseen, z
<1>5. PodInjected(x, at, data, target, init)
        = z(at, data, target, init, x.unseen)
  <2>1. [x EXCEPT !.at = at] = z(at, x.data, x.target, x.init, x.unseen)
    BY <1>3, Zenon DEF PodAt
  <2>2. [z(at, x.data, x.target, x.init, x.unseen) EXCEPT !.data = data]
          = z(at, data, x.target, x.init, x.unseen)
    BY DEF z
  <2>3. [z(at, data, x.target, x.init, x.unseen) EXCEPT !.target = target]
          = z(at, data, target, x.init, x.unseen)
    BY DEF z
  <2>4. [z(at, data, target, x.init, x.unseen) EXCEPT !.init = init]
          = z(at, data, target, init, x.unseen)
    BY DEF z
  <2> QED
    BY <2>1, <2>2, <2>3, <2>4, Zenon DEF PodInjected
<1> QED
  BY <1>2, <1>3, <1>4, <1>5 DEF SameInjection

(* What a step of a user or the reconciler does to a resource. *)
Newer(l) ==
  \/ ls'[l] = None
  \/ /\ ls[l] # None /\ ls'[l] # None /\ ls'[l].uid = ls[l].uid
     /\ ls'[l].generation \in Nat /\ ls[l].generation <= ls'[l].generation
     /\ ls'[l].generation = ls[l].generation => ls'[l].spec = ls[l].spec
  \/ /\ ls'[l] # None /\ uids' = uids + 1 /\ ls'[l].uid = uids' /\ ls'[l].generation \in Nat

LsSteps ==
  /\ pods' = pods /\ uids' \in {uids, uids + 1}
  /\ \A l \in Name : Newer(l)

\* A Pod whose resource was superseded stays outdated: UIDs are not reused
\* and generations only grow.
LEMMA StaysOutdated ==
  ASSUME Versions, LsSteps, NEW p \in Pod, pods[p] # None, Outdated(p)
  PROVE  Outdated(p)'
<1> DEFINE l == pods[p].ls
<1>1. /\ l \in Name /\ pods' = pods /\ Newer(l)
      /\ uids \in Nat /\ pods[p].uid \in 0..uids /\ pods[p].generation \in Nat
  BY Zenon DEF Versions, LsSteps
<1>2. ls[l] # None => ls[l].uid \in 0..uids /\ ls[l].generation \in Nat
  BY <1>1, Zenon DEF Versions
<1>3. ls[l] # None /\ ls[l].uid = pods[p].uid => pods[p].generation <= ls[l].generation
  BY Zenon DEF Versions
<1>4. \/ ls[l] = None \/ ls[l].uid # pods[p].uid \/ ls[l].generation # pods[p].generation
  BY Zenon DEF Outdated
<1>5. \/ ls'[l] = None \/ ls'[l].uid # pods[p].uid \/ ls'[l].generation # pods[p].generation
  BY <1>1, <1>2, <1>3, <1>4 DEF Newer
<1> QED
  BY <1>1, <1>5, Zenon DEF Outdated

\* Steps that leave the Pods alone.
LEMMA KeepPods ==
  ASSUME PodInv, LsSteps, WorkloadInv'
  PROVE  PodInv'
<1>1. Versions'
  <2>1. uids' \in Nat /\ uids <= uids' /\ uids \in Nat
    BY DEF PodInv, Versions, LsSteps
  <2>2. ASSUME NEW l \in Name, ls'[l] # None
        PROVE  ls'[l].uid \in 0..uids' /\ ls'[l].generation \in Nat
    <3>1. ls[l] # None => ls[l].uid \in 0..uids
      BY Zenon DEF PodInv, Versions
    <3>2. Newer(l)
      BY Zenon DEF LsSteps
    <3> QED
      BY <2>1, <2>2, <3>1, <3>2 DEF Newer
  <2>3. ASSUME NEW p \in Pod, pods[p] # None, NEW l, l = pods[p].ls
        PROVE  /\ PodShape(pods[p])
               /\ l \in Name /\ pods[p].uid \in 0..uids' /\ pods[p].generation \in Nat
               /\ ls'[l] # None /\ ls'[l].uid = pods[p].uid =>
                    /\ pods[p].generation <= ls'[l].generation
                    /\ pods[p].generation = ls'[l].generation => pods[p].spec = ls'[l].spec
    <3>1. /\ PodShape(pods[p])
          /\ l \in Name /\ pods[p].uid \in 0..uids /\ pods[p].generation \in Nat
          /\ ls[l] # None /\ ls[l].uid = pods[p].uid =>
               /\ pods[p].generation <= ls[l].generation
               /\ pods[p].generation = ls[l].generation => pods[p].spec = ls[l].spec
      BY <2>3, Zenon DEF PodInv, Versions
    <3>2. Newer(l) /\ (ls[l] # None => ls[l].generation \in Nat)
      BY <3>1, Zenon DEF LsSteps, PodInv, Versions
    <3> QED
      BY <2>1, <3>1, <3>2 DEF Newer
  <2> QED
    BY <2>1, <2>2, <2>3 DEF Versions, LsSteps, PodInv, PodShape
<1>2. ASSUME NEW p \in Pod, NEW q \in Pod PROVE Checked(p, q)'
  <2>1. pods' = pods /\ Checked(p, q)
    BY Zenon DEF LsSteps, PodInv
  <2>2. pods[p] # None /\ Outdated(p) => Outdated(p)'
    BY StaysOutdated, Zenon DEF PodInv
  <2>3. pods[q] # None /\ Outdated(q) => Outdated(q)'
    BY StaysOutdated, Zenon DEF PodInv
  <2> QED
    BY <2>1, <2>2, <2>3, Zenon DEF Checked, PodMayWrite, ShareReplicationDestination
<1> QED
  BY <1>1, <1>2, Zenon DEF PodInv

(* What a step of a Pod does to the Pods: new, gone, or the same Pod. *)
PodSteps ==
  /\ ls' = ls /\ uids' = uids /\ pods' = [p \in Pod |-> pods'[p]]
  /\ \A p \in Pod : pods'[p] # None =>
       \/ pods[p] # None /\ SamePod(pods[p], pods'[p])
       \/ /\ PodShape(pods'[p]) /\ pods'[p].ls \in Name /\ ls[pods'[p].ls] # None
          /\ pods'[p].uid = ls[pods'[p].ls].uid
          /\ pods'[p].generation = ls[pods'[p].ls].generation
          /\ pods'[p].spec = ls[pods'[p].ls].spec

\* They keep Pods and resources in step.
LEMMA KeepVersions ==
  ASSUME Versions, PodSteps
  PROVE  Versions'
<1>1. ASSUME NEW p \in Pod, pods'[p] # None, NEW l, l = pods'[p].ls
      PROVE  /\ PodShape(pods'[p])
             /\ l \in Name /\ pods'[p].uid \in 0..uids /\ pods'[p].generation \in Nat
             /\ ls[l] # None /\ ls[l].uid = pods'[p].uid =>
                  /\ pods'[p].generation <= ls[l].generation
                  /\ pods'[p].generation = ls[l].generation => pods'[p].spec = ls[l].spec
  <2>1. CASE pods[p] # None /\ SamePod(pods[p], pods'[p])
    BY <1>1, <2>1, Zenon DEF SamePod, Versions
  <2>2. CASE ~(pods[p] # None /\ SamePod(pods[p], pods'[p]))
    <3>1. /\ PodShape(pods'[p]) /\ l \in Name /\ ls[l] # None
          /\ pods'[p].uid = ls[l].uid /\ pods'[p].generation = ls[l].generation
          /\ pods'[p].spec = ls[l].spec
      BY <1>1, <2>2, Zenon DEF PodSteps
    <3>2. ls[l].uid \in 0..uids /\ ls[l].generation \in Nat
      BY <3>1, Zenon DEF Versions
    <3> QED
      BY <3>1, <3>2
  <2> QED
    BY <2>1, <2>2, Zenon
<1> QED
  BY <1>1 DEF Versions, PodSteps, PodShape

\* A Pod that is the same is as outdated as it was.
LEMMA SameOutdated ==
  ASSUME PodSteps, NEW p \in Pod, pods[p] # None, SamePod(pods[p], pods'[p])
  PROVE  Outdated(p) <=> Outdated(p)'
BY Zenon DEF PodSteps, SamePod, Outdated

\* Pods that stay as they were, or only see fewer or later Pods, stay checked.
LEMMA StaysChecked ==
  ASSUME PodSteps, NEW p \in Pod, NEW q \in Pod, Checked(p, q),
         pods'[p] # None => /\ pods[p] # None /\ SamePod(pods[p], pods'[p])
                            /\ pods'[p].at \in {"admitted", "live"} =>
                                 pods[p].at \in {"admitted", "live"}
                            /\ q \in pods[p].unseen => q \in pods'[p].unseen,
         pods'[q] # None => /\ pods[q] # None /\ SamePod(pods[q], pods'[q])
                            /\ pods'[q].at = "live" => pods[q].at = "live"
                            /\ p \in pods[q].unseen => p \in pods'[q].unseen
  PROVE  Checked(p, q)'
<1> SUFFICES ASSUME /\ p # q /\ pods'[p] # None /\ pods'[p].at \in {"admitted", "live"}
                    /\ pods'[q] # None /\ pods'[q].at = "live"
                    /\ ShareReplicationDestination(pods'[p].spec, pods'[q].spec)
             PROVE  p \in pods'[q].unseen \/ q \in pods'[p].unseen \/ Outdated(p)' \/ Outdated(q)'
  BY Zenon DEF Checked, PodMayWrite, ShareReplicationDestination
<1>1. /\ SamePod(pods[p], pods'[p]) /\ SamePod(pods[q], pods'[q])
      /\ pods[p] # None /\ pods[q] # None
  BY Zenon
<1>2. p \in pods[q].unseen \/ q \in pods[p].unseen \/ Outdated(p) \/ Outdated(q)
  BY <1>1, Zenon DEF Checked, PodMayWrite, SamePod
<1> QED
  BY <1>1, <1>2, SameOutdated, Zenon

\* Nothing is checked of a Pod that is only read.
LEMMA PodReadChecked ==
  ASSUME PodInv, NEW r \in Pod, NEW l \in Name, NEW shape \in Shapes, PodRead(r, l, shape)
  PROVE  Versions' /\ \A p, q \in Pod : Checked(p, q)'
<1> DEFINE new == [at |-> "read", ls |-> l, uid |-> ls[l].uid, generation |-> ls[l].generation,
                   spec |-> ls[l].spec, status |-> ls[l].status, shape |-> shape,
                   target |-> None, data |-> None, init |-> None, unseen |-> {}]
<1>1. /\ PodShape(new) /\ new.at = "read" /\ new.ls = l /\ new.uid = ls[l].uid
      /\ new.generation = ls[l].generation /\ new.spec = ls[l].spec
  BY Zenon DEF PodShape
<1>2. /\ pods' = [pods EXCEPT ![r] = new] /\ ls' = ls /\ uids' = uids /\ ls[l] # None
  BY Zenon DEF PodRead
<1> HIDE DEF new
<1>3. pods' = [p \in Pod |-> IF p = r THEN new ELSE pods[p]]
  BY <1>2, Zenon DEF PodInv, Versions
<1>4. \A p \in Pod : pods[p] # None => SamePod(pods[p], pods[p])
  BY Zenon DEF PodInv, Versions, SamePod
<1>5. PodSteps
  BY <1>1, <1>2, <1>3, <1>4, Zenon DEF PodSteps
<1>6. ASSUME NEW p \in Pod, NEW q \in Pod PROVE Checked(p, q)'
  <2>1. CASE p = r \/ q = r
    BY <1>1, <1>3, <2>1, Zenon DEF Checked, PodMayWrite
  <2>2. CASE p # r /\ q # r
    BY <1>3, <1>4, <1>5, <2>2, StaysChecked, Zenon DEF PodInv
  <2> QED
    BY <2>1, <2>2, Zenon
<1> QED
  BY <1>5, <1>6, KeepVersions, Zenon DEF PodInv

\* A Pod is admitted only when it conflicts with no Pod that may write.
LEMMA MutateChecked ==
  ASSUME PodInv, NEW r \in Pod, Mutate(r)
  PROVE  Versions' /\ \A p, q \in Pod : Checked(p, q)'
<1>1. ls' = ls /\ uids' = uids /\ pods[r] # None /\ pods[r].at = "read"
  BY Zenon DEF Mutate, userVars
<1>2. PICK new : /\ pods' = [pods EXCEPT ![r] = new]
                 /\ new # None => /\ ~ReplicationConflict(r) /\ SamePod(pods[r], new)
                                  /\ new.at = "admitted" /\ new.unseen = pods[r].unseen
  <2> DEFINE spec == pods[r].spec
             rendered == Render(spec, replicas)
             target == ResolveTarget(pods[r].shape, spec)
             init == ApplyInjection(pods[r].shape.init, BuildInjection(spec, rendered.data))
             data == rendered.data
             x == pods[r]
             y == PodInjected(x, "admitted", data, target, init)
  <2>1. \/ pods' = [pods EXCEPT ![r] = None]
        \/ pods' = [pods EXCEPT ![r] = y] /\ ~ReplicationConflict(r)
    BY Zenon DEF Mutate, PodInjected
  <2>2. PodShape(x)
    BY <1>1, Zenon DEF PodInv, Versions
  <2> HIDE DEF spec, rendered, target, init, data
  <2>3. SamePod(x, y) /\ y.at = "admitted" /\ y.unseen = x.unseen
    BY <2>2, PodFields
  <2> QED
    BY ONLY <2>1, <2>3, Zenon
<1>3. pods' = [p \in Pod |-> IF p = r THEN new ELSE pods[p]]
  BY <1>2, Zenon DEF PodInv, Versions
<1>4. \A p \in Pod : pods[p] # None => SamePod(pods[p], pods[p])
  BY Zenon DEF PodInv, Versions, SamePod
<1>5. PodSteps
  BY <1>1, <1>2, <1>3, <1>4, Zenon DEF PodSteps
<1>6. ASSUME NEW p \in Pod, NEW q \in Pod PROVE Checked(p, q)'
  <2>1. CASE q = r
    BY <1>2, <1>3, <2>1, Zenon DEF Checked, PodMayWrite
  <2>2. CASE p # r /\ q # r
    BY <1>3, <1>4, <1>5, <2>2, StaysChecked, Zenon DEF PodInv
  <2>3. CASE p = r /\ q # r
    <3> SUFFICES ASSUME new # None, PodMayWrite(q),
                        ShareReplicationDestination(pods[r].spec, pods[q].spec)
                 PROVE  Outdated(q)
      BY <1>1, <1>2, <1>3, <2>3 DEF Checked, PodMayWrite, SamePod, ShareReplicationDestination,
                                    Outdated
    <3>1. Replicates(pods[r].spec) /\ ~ReplicationConflict(r)
      BY <1>2, ShareReplicates, Zenon
    <3>2. \/ ls[pods[q].ls] = None
          \/ ~ShareReplicationDestination(pods[r].spec, ls[pods[q].ls].spec)
      BY <2>3, <3>1, Zenon DEF ReplicationConflict
    <3> QED
      BY <3>2, Zenon DEF Outdated, PodInv, Versions, PodMayWrite
  <2> QED
    BY <2>1, <2>2, <2>3, Zenon
<1> QED
  BY <1>5, <1>6, KeepVersions, Zenon DEF PodInv

\* A Pod that is stored was checked against those that may write, and those
\* that were checked before it was stored count it as unseen.
LEMMA StorePodChecked ==
  ASSUME PodInv, NEW r \in Pod, StorePod(r)
  PROVE  Versions' /\ \A p, q \in Pod : Checked(p, q)'
<1>1. /\ ls' = ls /\ uids' = uids /\ pods[r] # None /\ pods[r].at = "admitted"
      /\ pods' = [q \in Pod |->
           IF q = r THEN PodAt(pods[r], "live")
           ELSE IF pods[q] # None /\ pods[q].at = "admitted"
           THEN PodUnseen(pods[q], pods[q].unseen \cup {r}) ELSE pods[q]]
  BY Zenon DEF StorePod, userVars, PodAt, PodUnseen
<1>2. \A p \in Pod : pods[p] # None => PodShape(pods[p]) /\ SamePod(pods[p], pods[p])
  BY Zenon DEF PodInv, Versions, SamePod
<1>3. /\ SamePod(pods[r], pods'[r]) /\ pods'[r].at = "live" /\ pods'[r].unseen = pods[r].unseen
  BY <1>1, <1>2, PodFields
<1>4. ASSUME NEW p \in Pod, p # r, pods'[p] # None
      PROVE  /\ pods[p] # None /\ SamePod(pods[p], pods'[p]) /\ pods'[p].at = pods[p].at
             /\ pods[p].unseen \subseteq pods'[p].unseen
             /\ pods[p].at = "admitted" => r \in pods'[p].unseen
  BY <1>1, <1>2, <1>4, PodFields
<1>5. PodSteps
  BY <1>1, <1>3, <1>4, Zenon DEF PodSteps
<1>6. ASSUME NEW p \in Pod, NEW q \in Pod PROVE Checked(p, q)'
  <2>1. Checked(p, q) /\ Checked(q, p)
    BY Zenon DEF PodInv
  <2>2. CASE q # r
    BY <1>1, <1>3, <1>4, <1>5, <2>1, <2>2, StaysChecked, Zenon
  <2>3. CASE q = r /\ p # r
    <3> SUFFICES ASSUME pods'[p] # None, pods'[p].at = "live",
                        ShareReplicationDestination(pods'[p].spec, pods'[r].spec)
                 PROVE  \/ p \in pods'[r].unseen \/ r \in pods'[p].unseen
                        \/ Outdated(p)' \/ Outdated(r)'
      BY <1>4, <2>3, Zenon DEF Checked, PodMayWrite, ShareReplicationDestination
    <3>1. /\ pods[p] # None /\ pods[p].at = "live" /\ SamePod(pods[p], pods'[p])
          /\ pods[p].unseen \subseteq pods'[p].unseen
      BY <1>4, <2>3, Zenon
    <3>2. ShareReplicationDestination(pods[r].spec, pods[p].spec)
      BY <1>3, <3>1, ShareSymmetric DEF SamePod
    <3>3. p \in pods[r].unseen \/ r \in pods[p].unseen \/ Outdated(p) \/ Outdated(r)
      BY <1>1, <2>1, <2>3, <3>1, <3>2 DEF Checked, PodMayWrite
    <3> QED
      BY <1>1, <1>3, <1>5, <3>1, <3>3, SameOutdated, Zenon
  <2>4. CASE q = r /\ p = r
    BY <2>4, Zenon DEF Checked
  <2> QED
    BY <2>2, <2>3, <2>4, Zenon
<1> QED
  BY <1>5, <1>6, KeepVersions DEF PodInv

\* A Pod that ends or is deleted writes no more.
LEMMA GoneChecked ==
  ASSUME PodInv, NEW r \in Pod, EndPod(r) \/ DeletePod(r)
  PROVE  Versions' /\ \A p, q \in Pod : Checked(p, q)'
<1>1. \A p \in Pod : pods[p] # None => PodShape(pods[p]) /\ SamePod(pods[p], pods[p])
  BY Zenon DEF PodInv, Versions, SamePod
<1>2. ls' = ls /\ uids' = uids /\ pods[r] # None
  BY Zenon DEF EndPod, DeletePod, PodMayWrite, userVars
<1>3. /\ pods' = [p \in Pod |-> pods'[p]]
      /\ pods'[r] # None => SamePod(pods[r], pods'[r]) /\ pods'[r].at = "ended"
      /\ \A p \in Pod \ {r} : pods'[p] # None =>
           /\ pods[p] # None /\ SamePod(pods[p], pods'[p]) /\ pods'[p].at = pods[p].at
           /\ pods[p].unseen \ {r} \subseteq pods'[p].unseen
  <2>1. CASE EndPod(r)
    <3>1. pods' = [pods EXCEPT ![r] = PodAt(pods[r], "ended")]
      BY <2>1, Zenon DEF EndPod, PodAt
    <3>2. pods' = [p \in Pod |-> IF p = r THEN PodAt(pods[r], "ended") ELSE pods[p]]
      BY <3>1, Zenon DEF PodInv, Versions
    <3> QED
      BY <1>1, <1>2, <3>2, PodFields
  <2>2. CASE DeletePod(r)
    <3>1. pods' = [q \in Pod |->
             IF q = r THEN None
             ELSE IF pods[q] # None THEN PodUnseen(pods[q], pods[q].unseen \ {r}) ELSE None]
      BY <2>2, Zenon DEF DeletePod, PodUnseen
    <3> QED
      BY <1>1, <3>1, PodFields
  <2> QED
    BY <2>1, <2>2, Zenon
<1>4. PodSteps
  BY <1>2, <1>3, Zenon DEF PodSteps
<1>5. ASSUME NEW p \in Pod, NEW q \in Pod PROVE Checked(p, q)'
  <2>1. CASE p = r \/ q = r
    BY <1>3, <2>1, Zenon DEF Checked, PodMayWrite
  <2>2. CASE p # r /\ q # r
    BY <1>3, <1>4, <2>2, StaysChecked DEF PodInv
  <2> QED
    BY <2>1, <2>2, Zenon
<1> QED
  BY <1>4, <1>5, KeepVersions, Zenon DEF PodInv

\* Every other step changes resources as users and the reconciler do.
LEMMA ResourceSteps ==
  ASSUME PodInv, [Next]_vars, ~Kubelet
  PROVE  LsSteps
<1>1. \A l \in Name : ls[l] # None => /\ ls[l].uid \in Nat /\ ls[l].generation \in Nat
                                       /\ LsShape(ls[l])
  BY DEF PodInv, WorkloadInv, Objects, Versions
<1>2. uids \in Nat /\ ls = [l \in Name |-> ls[l]]
  BY Zenon DEF PodInv, WorkloadInv, Objects, Versions
<1>3. CASE ls' = ls /\ uids' = uids /\ pods' = pods
  BY <1>1, <1>2, <1>3 DEF LsSteps, Newer
<1>4. CASE Mark
  BY <1>1, <1>2, <1>4 DEF LsSteps, Newer, Mark, Resource
<1>5. CASE \E l \in Name, spec \in Specs : CreateLitestream(l, spec)
  <2> PICK l \in Name, spec \in Specs : CreateLitestream(l, spec)
    BY <1>5, Zenon
  <2> DEFINE new == Resource(uids', 1, spec, NoStatus)
  <2>1. /\ ls' = [ls EXCEPT ![l] = new] /\ uids' = uids + 1 /\ pods' = pods
    BY Zenon DEF CreateLitestream
  <2>2. new.uid = uids' /\ new.generation = 1
    BY Zenon DEF Resource
  <2> HIDE DEF new
  <2> QED
    BY <1>1, <1>2, <2>1, <2>2 DEF LsSteps, Newer
<1>6. CASE \E l \in Name, spec \in Specs : UpdateLitestream(l, spec)
  <2> PICK l \in Name, spec \in Specs : UpdateLitestream(l, spec)
    BY <1>6
  <2> DEFINE new == Resource(ls[l].uid, ls[l].generation + 1, spec, ls[l].status)
  <2>1. /\ ls' = [ls EXCEPT ![l] = new] /\ uids' = uids /\ pods' = pods /\ ls[l] # None
    BY Zenon DEF UpdateLitestream
  <2>2. new.uid = ls[l].uid /\ new.generation = ls[l].generation + 1
    BY Zenon DEF Resource
  <2> HIDE DEF new
  <2> QED
    BY <1>1, <1>2, <2>1, <2>2 DEF LsSteps, Newer
<1>7. CASE \E l \in Name : DeleteLitestream(l)
  BY <1>1, <1>2, <1>7 DEF LsSteps, Newer, DeleteLitestream
<1> QED
  BY <1>3, <1>4, <1>5, <1>6, <1>7, Zenon
     DEF Next, Controller, Users, vars, userVars, WatchLitestream, WatchReplica, Reconcile,
         ReconcileConfigMap, ReconcileFails, GarbageCollect, PutReplica, DeleteReplica,
         PutWorkload, ScaleWorkload, DeleteWorkload

\* Every step keeps the Pods checked.
LEMMA NextPodInv == PodInv /\ [Next]_vars => PodInv'
<1> SUFFICES ASSUME PodInv, [Next]_vars PROVE PodInv'
  OBVIOUS
<1>1. WorkloadInv'
  BY NextWorkloadInv, Zenon DEF PodInv
<1>2. CASE Kubelet
  <2>1. CASE \E p \in Pod, l \in Name, shape \in Shapes : PodRead(p, l, shape)
    BY <1>1, <2>1, PodReadChecked, Zenon DEF PodInv
  <2>2. CASE \E p \in Pod : Mutate(p)
    BY <1>1, <2>2, MutateChecked DEF PodInv
  <2>3. CASE \E p \in Pod : StorePod(p)
    BY <1>1, <2>3, StorePodChecked DEF PodInv
  <2>4. CASE \E p \in Pod : EndPod(p) \/ DeletePod(p)
    BY <1>1, <2>4, GoneChecked DEF PodInv
  <2> QED
    BY <1>2, <2>1, <2>2, <2>3, <2>4 DEF Kubelet
<1> QED
  BY <1>1, <1>2, ResourceSteps, KeepPods, Zenon

\* For every number of Pods and resources: no two Pods that may write
\* replicate to one destination, in whatever order Pods are admitted and
\* resources are changed, unless their creations raced or one of them runs a
\* superseded spec (validateReplicationConflict).
THEOREM OneWriterPerDestination == Spec => []SingleWriter
<1>1. Init => PodInv
  BY DEF Init, PodInv, Versions, Checked, WorkloadInv, Objects, Exclusive, Writer
<1>2. PodInv => SingleWriter
  BY Zenon DEF PodInv, Checked, PodMayWrite, SingleWriter
<1> QED
  BY <1>1, <1>2, NextPodInv, PTL DEF Spec

-----------------------------------------------------------------------------
(* Injected Pods: the mount they were given is the one ResolveTarget takes *)
(* for their shape and spec, and their ConfigMap is a revision of their    *)
(* resource.  A ConfigMap is named after its owner and what it holds, so a *)
(* later write under its name changes neither.                             *)

Current(p) == ls[pods[p].ls] # None /\ ls[pods[p].ls].uid = pods[p].uid

Revisions ==
  \A n \in DOMAIN configMaps :
    n = <<configMaps[n].owner, n[2]>> /\ configMaps[n].data = n[2].data

Revision(p) ==
  Mounted(p) /\ configMaps[pods[p].status.configMap].owner = pods[p].uid

Target(p) ==
  /\ pods[p].target # None /\ pods[p].target = ResolveTarget(pods[p].shape, pods[p].spec)

Added(p) ==
  /\ pods[p].init.first = BuildInjection(pods[p].spec, pods[p].data)
  /\ \A i \in DOMAIN pods[p].spec : <<"script", pods[p].spec[i].name>> \in DOMAIN pods[p].data

Injected(p) ==
  pods[p] # None =>
    /\ pods[p].spec \in Specs /\ pods[p].shape \in Shapes
    /\ pods[p].at # "read" => Target(p) /\ Added(p) /\ (Current(p) => Revision(p))

InjectedInv ==
  /\ PodInv /\ Revisions
  /\ \A l \in Name : ls[l] # None => ls[l].spec \in Specs
  /\ \A p \in Pod : Injected(p)

\* Rendering a spec makes a script for each of its databases.
LEMMA ScriptsRendered ==
  ASSUME NEW spec, NEW rs, NEW i \in DOMAIN spec
  PROVE  <<"script", spec[i].name>> \in DOMAIN Render(spec, rs).data
<1> DEFINE d == spec[i]
           r == RenderDatabase(d, rs)
<1>1. ASSUME NEW content, "script" \in DOMAIN content
      PROVE  <<"script", d.name>> \in DOMAIN Files(d, content)
  BY <1>1, Zenon DEF Files
<1>2. <<"script", d.name>> \in DOMAIN RenderRestoreOnly(d, rs)
  BY <1>1, Zenon DEF RenderRestoreOnly
<1>3. <<"script", d.name>> \in DOMAIN RenderReplicate(d, rs)
  BY <1>1, <1>2, Zenon DEF RenderReplicate
<1>4. <<"script", d.name>> \in DOMAIN RenderClone(d, rs)
  BY <1>1, Zenon DEF RenderClone
<1>5. <<"script", d.name>> \in DOMAIN r
  BY <1>2, <1>3, <1>4, Zenon DEF RenderDatabase
<1> DEFINE writers == {k \in DOMAIN spec : spec[k].replicate # None}
           entries == UNION {Entry(spec[k], Destination(spec[k], rs)) : k \in writers}
           rendered == {RenderDatabase(spec[k], rs) : k \in DOMAIN spec}
                         \cup IF writers = {} THEN {} ELSE {[f \in {ReplicateConfigFile} |-> entries]}
<1>6. Render(spec, rs).data = [f \in UNION {DOMAIN x : x \in rendered} |->
                                 (CHOOSE x \in rendered : f \in DOMAIN x)[f]]
  BY Zenon DEF Render
<1>7. r \in rendered
  BY Zenon
<1> HIDE DEF rendered, r
<1> QED
  BY <1>5, <1>6, <1>7

\* The containers that are added run the scripts of the databases and, when
\* there is one, the configuration of the sidecar.
LEMMA AddedContainers ==
  ASSUME NEW spec \in Specs, NEW data
  PROVE  /\ \A i \in DOMAIN spec :
              \E c \in Range(BuildInjection(spec, data)) : c.runs = <<"script", spec[i].name>>
         /\ \A c \in Range(BuildInjection(spec, data)) :
              \/ \E i \in DOMAIN spec : c.runs = <<"script", spec[i].name>>
              \/ c.runs = ReplicateConfigFile /\ ReplicateConfigFile \in DOMAIN data
<1> DEFINE container(i) == [name |-> <<"restore", spec[i].name>>, runs |-> <<"script", spec[i].name>>]
           sidecar == [name |-> ReplicateConfigFile, runs |-> ReplicateConfigFile]
           restores == [i \in DOMAIN spec |-> container(i)]
           last == IF ReplicateConfigFile \in DOMAIN data THEN <<sidecar>> ELSE <<>>
           S == {container(i) : i \in DOMAIN spec} \cup {sidecar}
<1>1. /\ \A i \in DOMAIN spec : container(i).runs = <<"script", spec[i].name>>
      /\ sidecar.runs = ReplicateConfigFile
  BY Zenon
<1>2. BuildInjection(spec, data) = restores \o last
  BY Zenon DEF BuildInjection
<1>3. Len(spec) \in Nat /\ DOMAIN spec = 1..Len(spec)
  BY SpecAssumption, Zenon
<1>4. restores \in Seq(S) /\ Len(restores) = Len(spec) /\ \A i \in 1..Len(spec) : restores[i] = container(i)
  BY <1>3
<1>5. /\ last \in Seq(S) /\ \A i \in 1..Len(last) : last[i] = sidecar
      /\ Len(last) > 0 => ReplicateConfigFile \in DOMAIN data
  <2>1. sidecar \in S
    BY Zenon
  <2> HIDE DEF sidecar, S
  <2> QED
    BY <2>1
<1> HIDE DEF container, sidecar, restores, last, S
<1> DEFINE all == restores \o last
<1>6. /\ DOMAIN all = 1..Len(spec) + Len(last)
      /\ \A i \in 1..Len(spec) : all[i] = container(i)
      /\ \A i \in Len(spec) + 1 .. Len(spec) + Len(last) : all[i] = sidecar
  BY <1>3, <1>4, <1>5
<1>7. Len(last) \in Nat
  BY <1>5
<1> HIDE DEF all
<1>8. Range(all) = {all[i] : i \in 1..Len(spec) + Len(last)}
  BY <1>6, Zenon DEF Range
<1>9. ASSUME NEW i \in DOMAIN spec
      PROVE  \E c \in Range(all) : c.runs = <<"script", spec[i].name>>
  BY <1>1, <1>3, <1>6, <1>7, <1>8
<1>10. ASSUME NEW c \in Range(all)
       PROVE  \/ \E i \in DOMAIN spec : c.runs = <<"script", spec[i].name>>
              \/ c.runs = ReplicateConfigFile /\ ReplicateConfigFile \in DOMAIN data
  <2>1. PICK i \in 1..Len(spec) + Len(last) : c = all[i]
    BY <1>8, Zenon
  <2>2. CASE i \in 1..Len(spec)
    BY <1>1, <1>3, <1>6, <2>1, <2>2, Zenon
  <2>3. CASE i \in Len(spec) + 1 .. Len(spec) + Len(last)
    <3>1. c = sidecar /\ Len(last) > 0
      BY <1>3, <1>6, <1>7, <2>1, <2>3
    <3> QED
      BY <1>1, <1>5, <3>1, Zenon
  <2> QED
    BY <1>3, <1>7, <2>1, <2>2, <2>3
<1> QED
  BY <1>2, <1>9, <1>10, Zenon DEF all

\* There are no Pods and no ConfigMaps initially.
LEMMA InitInjectedInv == Init => InjectedInv
BY DEF Init, InjectedInv, Revisions, Injected, PodInv, Versions, Checked, WorkloadInv, Objects,
       Exclusive, Writer

\* Resources keep specs that users write.
LEMMA SpecsKept ==
  ASSUME InjectedInv, [Next]_vars
  PROVE  \A l \in Name : ls'[l] # None => ls'[l].spec \in Specs
<1>1. /\ ls = [l \in Name |-> ls[l]]
      /\ \A l \in Name : ls[l] # None => LsShape(ls[l]) /\ ls[l].spec \in Specs
  BY Zenon DEF InjectedInv, PodInv, WorkloadInv, Objects
<1>2. CASE ls' = ls
  BY <1>1, <1>2
<1>3. CASE Mark
  BY <1>1, <1>3 DEF Mark, Resource
<1>4. CASE \E l \in Name, spec \in Specs : CreateLitestream(l, spec)
  BY <1>1, <1>4 DEF CreateLitestream, Resource
<1>5. CASE \E l \in Name, spec \in Specs : UpdateLitestream(l, spec)
  BY <1>1, <1>5 DEF UpdateLitestream, Resource
<1>6. CASE \E l \in Name : DeleteLitestream(l)
  BY <1>1, <1>6 DEF DeleteLitestream
<1> QED
  BY <1>2, <1>3, <1>4, <1>5, <1>6, Zenon
     DEF Next, Controller, Users, Kubelet, vars, userVars, WatchLitestream, WatchReplica,
         Reconcile, ReconcileConfigMap, ReconcileFails, GarbageCollect, PutReplica,
         DeleteReplica, PutWorkload, ScaleWorkload, DeleteWorkload, PodRead, Mutate, StorePod,
         EndPod, DeletePod

\* A Pod stays injected when what identifies it, its mount and its files
\* stay.
LEMMA StaysInjected ==
  ASSUME NEW p \in Pod, Injected(p), ls' = ls, configMaps' = configMaps, pods[p] # None,
         SamePod(pods[p], pods'[p]), pods'[p].at # "read" => pods[p].at # "read",
         SameInjection(pods[p], pods'[p])
  PROVE  Injected(p)'
<1>1. pods'[p].at # "read" => Target(p)'
  BY Zenon DEF Injected, Target, SamePod, SameInjection
<1>2. pods'[p].at # "read" => Added(p)'
  BY Zenon DEF Injected, Added, SamePod, SameInjection
<1>3. pods'[p].at # "read" /\ Current(p)' => Revision(p)'
  BY DEF Injected, Current, Revision, Mounted, SamePod, SameInjection
<1> QED
  BY <1>1, <1>2, <1>3 DEF Injected, SamePod

\* A Pod that was read is not injected yet.
LEMMA PodReadInjected ==
  ASSUME InjectedInv, NEW r \in Pod, NEW l \in Name, NEW shape \in Shapes, PodRead(r, l, shape)
  PROVE  \A p \in Pod : Injected(p)'
<1> DEFINE new == [at |-> "read", ls |-> l, uid |-> ls[l].uid, generation |-> ls[l].generation,
                   spec |-> ls[l].spec, status |-> ls[l].status, shape |-> shape,
                   target |-> None, data |-> None, init |-> None, unseen |-> {}]
<1>1. new.at = "read" /\ new.spec \in Specs /\ new.shape \in Shapes
  BY Zenon DEF InjectedInv, PodRead
<1>2. /\ pods' = [pods EXCEPT ![r] = new] /\ ls' = ls /\ configMaps' = configMaps
  BY Zenon DEF PodRead
<1> HIDE DEF new
<1>3. pods' = [p \in Pod |-> IF p = r THEN new ELSE pods[p]]
  BY <1>2 DEF InjectedInv, PodInv, Versions
<1>4. ASSUME NEW p \in Pod PROVE Injected(p)'
  <2>1. CASE p = r
    BY <1>1, <1>3, <2>1 DEF Injected
  <2>2. CASE p # r /\ pods[p] = None
    BY <1>3, <2>2 DEF Injected
  <2>3. CASE p # r /\ pods[p] # None
    <3>1. /\ pods'[p] = pods[p] /\ SamePod(pods[p], pods[p]) /\ SameInjection(pods[p], pods[p])
          /\ Injected(p)
      BY <1>3, <2>3 DEF InjectedInv, PodInv, Versions, SamePod, SameInjection
    <3> QED
      BY <1>2, <2>3, <3>1, StaysInjected
  <2> QED
    BY <2>1, <2>2, <2>3
<1> QED
  BY <1>4, Zenon

\* The mutator gives a Pod the mount it resolved and the files of the
\* ConfigMap it verified.
LEMMA MutateInjected ==
  ASSUME InjectedInv, NEW r \in Pod, Mutate(r)
  PROVE  \A p \in Pod : Injected(p)'
<1>1. ls' = ls /\ configMaps' = configMaps /\ pods[r] # None /\ pods[r].at = "read"
  BY Zenon DEF Mutate, userVars
<1>2. PICK new : /\ pods' = [pods EXCEPT ![r] = new]
                 /\ new # None =>
                      /\ SamePod(pods[r], new) /\ new.target # None
                      /\ new.init.first = BuildInjection(pods[r].spec, new.data)
                      /\ \A i \in DOMAIN pods[r].spec :
                           <<"script", pods[r].spec[i].name>> \in DOMAIN new.data
                      /\ new.target = ResolveTarget(pods[r].shape, pods[r].spec)
                      /\ pods[r].status.configMap \in DOMAIN configMaps
                      /\ configMaps[pods[r].status.configMap].owner = pods[r].uid
                      /\ configMaps[pods[r].status.configMap].data = new.data
  <2> DEFINE spec == pods[r].spec
             rendered == Render(spec, replicas)
             target == ResolveTarget(pods[r].shape, spec)
             init == ApplyInjection(pods[r].shape.init, BuildInjection(spec, rendered.data))
             data == rendered.data
             x == pods[r]
             y == PodInjected(x, "admitted", data, target, init)
  <2>1. \/ pods' = [pods EXCEPT ![r] = None]
        \/ /\ pods' = [pods EXCEPT ![r] = y] /\ VerifyConfigMap(r, rendered)
           /\ target # None /\ init # None
    BY Zenon DEF Mutate, PodInjected
  <2>2. /\ PodShape(x)
        /\ \A i \in DOMAIN spec : <<"script", spec[i].name>> \in DOMAIN data
    BY <1>1, ScriptsRendered DEF InjectedInv, PodInv, Versions
  <2>3. VerifyConfigMap(r, rendered) =>
          /\ pods[r].status.configMap \in DOMAIN configMaps
          /\ configMaps[pods[r].status.configMap].owner = pods[r].uid
          /\ configMaps[pods[r].status.configMap].data = data
    BY Zenon DEF VerifyConfigMap
  <2>4. target = ResolveTarget(pods[r].shape, pods[r].spec) /\ spec = pods[r].spec
    BY Zenon
  <2>5. init # None => init.first = BuildInjection(spec, data)
    BY Zenon DEF ApplyInjection
  <2> HIDE DEF rendered, init, data, spec, target
  <2>6. SamePod(x, y) /\ y.target = target /\ y.data = data /\ y.init = init
    BY <2>2, PodFields
  <2> QED
    BY ONLY <2>1, <2>2, <2>3, <2>4, <2>5, <2>6, Zenon
<1>3. pods' = [p \in Pod |-> IF p = r THEN new ELSE pods[p]]
  BY <1>2, Zenon DEF InjectedInv, PodInv, Versions
<1>4. ASSUME NEW p \in Pod PROVE Injected(p)'
  <2>1. CASE p = r
    <3> SUFFICES ASSUME new # None PROVE Injected(r)'
      BY <1>3, <2>1, Zenon DEF Injected
    <3>1. pods'[r] = new /\ SamePod(pods[r], pods'[r]) /\ Injected(r)
      BY <1>2, <1>3 DEF InjectedInv
    <3>2. Target(r)'
      BY <1>2, <3>1 DEF Target, SamePod
    <3>3. Revision(r)'
      BY <1>1, <1>2, <3>1 DEF Revision, Mounted, SamePod
    <3>4. Added(r)'
      BY <1>2, <3>1 DEF Added, SamePod
    <3> QED
      BY <1>1, <3>1, <3>2, <3>3, <3>4, Zenon DEF Injected, SamePod
  <2>2. CASE p # r /\ pods[p] = None
    BY <1>3, <2>2 DEF Injected
  <2>3. CASE p # r /\ pods[p] # None
    <3>1. /\ pods'[p] = pods[p] /\ SamePod(pods[p], pods[p]) /\ SameInjection(pods[p], pods[p])
          /\ Injected(p)
      BY <1>3, <2>3 DEF InjectedInv, PodInv, Versions, SamePod, SameInjection
    <3> QED
      BY <1>1, <2>3, <3>1, StaysInjected
  <2> QED
    BY <2>1, <2>2, <2>3, Zenon
<1> QED
  BY <1>4

\* A Pod that is stored, ends or sees others go keeps its mount and files.
LEMMA LaterInjected ==
  ASSUME InjectedInv, NEW r \in Pod, StorePod(r) \/ EndPod(r) \/ DeletePod(r)
  PROVE  \A p \in Pod : Injected(p)'
<1>1. \A p \in Pod : pods[p] # None => PodShape(pods[p]) /\ SamePod(pods[p], pods[p])
  BY Zenon DEF InjectedInv, PodInv, Versions, SamePod
<1>2. /\ ls' = ls /\ configMaps' = configMaps
      /\ pods[r] # None /\ pods[r].at # "read"
  BY Zenon DEF StorePod, EndPod, DeletePod, PodMayWrite, userVars
<1>3. ASSUME NEW p \in Pod, pods'[p] # None
      PROVE  /\ pods[p] # None /\ SamePod(pods[p], pods'[p])
             /\ pods'[p].at # "read" => pods[p].at # "read"
             /\ SameInjection(pods[p], pods'[p])
  <2>1. CASE StorePod(r)
    <3>1. pods' = [q \in Pod |->
             IF q = r THEN PodAt(pods[r], "live")
             ELSE IF pods[q] # None /\ pods[q].at = "admitted"
             THEN PodUnseen(pods[q], pods[q].unseen \cup {r}) ELSE pods[q]]
      BY <2>1, Zenon DEF StorePod, PodAt, PodUnseen
    <3> QED
      BY <1>1, <1>2, <1>3, <3>1, PodFields DEF SameInjection
  <2>2. CASE EndPod(r)
    <3>1. pods' = [pods EXCEPT ![r] = PodAt(pods[r], "ended")]
      BY <2>2, Zenon DEF EndPod, PodAt
    <3>2. pods' = [p_1 \in Pod |-> IF p_1 = r THEN PodAt(pods[r], "ended") ELSE pods[p_1]]
      BY <3>1 DEF InjectedInv, PodInv, Versions
    <3> QED
      BY <1>1, <1>2, <1>3, <3>2, PodFields DEF SameInjection
  <2>3. CASE DeletePod(r)
    <3>1. pods' = [q \in Pod |->
             IF q = r THEN None
             ELSE IF pods[q] # None THEN PodUnseen(pods[q], pods[q].unseen \ {r}) ELSE None]
      BY <2>3, Zenon DEF DeletePod, PodUnseen
    <3> QED
      BY <1>1, <1>3, <3>1, PodFields
  <2> QED
    BY <2>1, <2>2, <2>3
<1>4. ASSUME NEW p \in Pod PROVE Injected(p)'
  <2>1. CASE pods'[p] = None
    BY <2>1, Zenon DEF Injected
  <2>2. CASE pods'[p] # None
    <3>1. Injected(p)
      BY DEF InjectedInv
    <3> QED
      BY <1>2, <1>3, <2>2, <3>1, StaysInjected
  <2> QED
    BY <2>1, <2>2, Zenon
<1> QED
  BY <1>4, Zenon

(* A ConfigMap whose owner exists stays as it is. *)
KeepsMaps ==
  \A n \in DOMAIN configMaps, l \in Name :
    ls'[l] # None /\ ls'[l].uid = configMaps[n].owner =>
      /\ n \in DOMAIN configMaps'
      /\ configMaps'[n].owner = configMaps[n].owner
      /\ configMaps'[n].data = configMaps[n].data

\* The reconciler writes a ConfigMap anew only with what it holds, and the
\* garbage collector leaves the ones whose owner exists.
LEMMA MapsKept ==
  ASSUME InjectedInv, [Next]_vars
  PROVE  Revisions' /\ KeepsMaps
<1>1. CASE configMaps' = configMaps
  BY <1>1 DEF InjectedInv, Revisions, KeepsMaps
<1>2. CASE ReconcileConfigMap
  <2> DEFINE name == <<job.resource.uid, job.rendered>>
             new == [owner |-> job.resource.uid, name |-> job.name, data |-> job.rendered.data]
  <2>1. configMaps' = [n \in DOMAIN configMaps \cup {name} |->
                         IF n = name THEN new ELSE configMaps[n]]
    BY <1>2 DEF ReconcileConfigMap, ConfigMapNameForHash
  <2>2. /\ name[2].data = new.data /\ name = <<new.owner, name[2]>> /\ name[1] = new.owner
    BY Zenon
  <2> HIDE DEF name, new
  <2>3. Revisions'
    BY <2>1, <2>2 DEF InjectedInv, Revisions
  <2>4. name \in DOMAIN configMaps =>
          configMaps[name].owner = new.owner /\ configMaps[name].data = new.data
    BY <2>2 DEF InjectedInv, Revisions
  <2> QED
    BY <2>1, <2>3, <2>4 DEF KeepsMaps
<1>3. CASE GarbageCollect
  <2> DEFINE owned == {n \in DOMAIN configMaps :
                         \A l \in Name : ls[l] = None \/ ls[l].uid # configMaps[n].owner}
  <2>1. configMaps' = [n \in DOMAIN configMaps \ owned |-> configMaps[n]] /\ ls' = ls
    BY <1>3 DEF GarbageCollect, userVars
  <2> QED
    BY <2>1, Zenon DEF InjectedInv, Revisions, KeepsMaps
<1> QED
  BY <1>1, <1>2, <1>3, Zenon
     DEF Next, Controller, Users, Kubelet, vars, userVars, controllerVars, WatchLitestream,
         WatchReplica, Reconcile, Mark, ReconcileFails, CreateLitestream, UpdateLitestream,
         DeleteLitestream, PutReplica, DeleteReplica, PutWorkload, ScaleWorkload,
         DeleteWorkload, PodRead, Mutate, StorePod, EndPod, DeletePod

\* A resource that is not the Pod's does not become the Pod's: UIDs are not
\* reused.
LEMMA ResourceInjected ==
  ASSUME InjectedInv, LsSteps, KeepsMaps
  PROVE  \A p \in Pod : Injected(p)'
<1> SUFFICES ASSUME NEW p \in Pod, pods'[p] # None PROVE Injected(p)'
  BY Zenon DEF Injected
<1> DEFINE l == pods[p].ls
<1>1. /\ l \in Name /\ pods' = pods /\ Newer(l) /\ Injected(p)
      /\ uids \in Nat /\ pods[p].uid \in 0..uids
  BY Zenon DEF InjectedInv, PodInv, Versions, LsSteps
<1>2. ls[l] # None => ls[l].uid \in 0..uids /\ ls[l].generation \in Nat
  BY <1>1 DEF InjectedInv, PodInv, Versions
<1>3. Current(p)' => Current(p)
  BY <1>1, <1>2 DEF Current, Newer, LsSteps
<1>4. pods[p].at # "read" => Target(p)' /\ Added(p)'
  BY <1>1 DEF Injected, Target, Added
<1>5. ASSUME pods[p].at # "read", Current(p)' PROVE Revision(p)'
  <2>1. Revision(p) /\ ls'[l] # None /\ ls'[l].uid = pods[p].uid
    BY <1>1, <1>3, <1>5, Zenon DEF Injected, Current
  <2> QED
    BY <1>1, <2>1, Zenon DEF Revision, Mounted, KeepsMaps
<1> QED
  BY <1>1, <1>4, <1>5 DEF Injected

\* Every step keeps what injected Pods were given.
LEMMA NextInjectedInv == InjectedInv /\ [Next]_vars => InjectedInv'
<1> SUFFICES ASSUME InjectedInv, [Next]_vars PROVE InjectedInv'
  OBVIOUS
<1>1. PodInv' /\ Revisions' /\ KeepsMaps
  BY NextPodInv, MapsKept DEF InjectedInv
<1>2. Kubelet => \A p \in Pod : Injected(p)'
  BY PodReadInjected, MutateInjected, LaterInjected DEF Kubelet
<1>3. ~Kubelet => \A p \in Pod : Injected(p)'
  BY <1>1, ResourceSteps, ResourceInjected DEF InjectedInv
<1> QED
  BY <1>1, <1>2, <1>3, SpecsKept DEF InjectedInv

\* The resolved mount is in the selected container and volume, holds every
\* path, and is the longest of those that do.
LEMMA ResolvedTarget ==
  ASSUME NEW shape \in Shapes, NEW spec \in Specs, NEW target, target # None,
         target = ResolveTarget(shape, spec)
  PROVE  /\ target \in Mounts(shape) /\ shape.container \in {None, target.container}
         /\ ContainsAll(target, spec)
         /\ \A m \in Mounts(shape) :
              /\ shape.container \in {None, m.container} /\ shape.volume \in {None, m.volume}
              /\ ContainsAll(m, spec)
              => Len(m.path) <= Len(target.path)
<1> DEFINE candidates == {m \in Mounts(shape) :
                            /\ shape.container \in {None, m.container}
                            /\ shape.volume \in {None, m.volume}
                            /\ ContainsAll(m, spec)}
           best == MostSpecific(candidates)
<1>1. ResolveTarget(shape, spec) = IF Cardinality(best) = 1 THEN CHOOSE m \in best : TRUE ELSE None
  BY Zenon DEF ResolveTarget
<1>2. best # {}
  BY <1>1, FS_EmptySet
<1>3. target \in best
  BY <1>1, <1>2, Zenon
<1> QED
  BY <1>3, PathAssumption DEF MostSpecific

\* A path within another agrees with it as far as it goes.
LEMMA PathContainsDef ==
  ASSUME NEW a \in Seq(STRING), NEW b \in Seq(STRING)
  PROVE  PathContains(a, b) <=> Len(a) <= Len(b) /\ \A i \in 1..Len(a) : a[i] = b[i]
<1>1. ASSUME Len(a) <= Len(b), \A i \in 1..Len(a) : a[i] = b[i] PROVE a = SubSeq(b, 1, Len(a))
  <2> DEFINE c == SubSeq(b, 1, Len(a))
  <2>1. c \in Seq(STRING) /\ Len(c) = Len(a) /\ \A i \in 1..Len(a) : c[i] = b[i]
    BY <1>1
  <2> HIDE DEF c
  <2>2. a = [i \in 1..Len(a) |-> a[i]] /\ c = [i \in 1..Len(a) |-> c[i]]
    BY <2>1
  <2> QED
    BY <1>1, <2>1, <2>2, Zenon DEF c
<1> QED
  BY <1>1 DEF PathContains

\* Of two prefixes of one path, the shorter is a prefix of the longer.
LEMMA PrefixesNest ==
  ASSUME NEW a \in Seq(STRING), NEW b \in Seq(STRING), NEW c \in Seq(STRING),
         PathContains(a, c), PathContains(b, c), Len(a) <= Len(b)
  PROVE  PathContains(a, b)
BY PathContainsDef

\* For every number of Pods and resources and every set of shapes and specs:
\* the injected containers see each database where the application sees it
\* (ResolveTarget, databaseVolumeMount).
THEOREM SameFileSeen == Spec => []SameFile
<1>1. Init => InjectedInv
  BY InitInjectedInv, Zenon
<1>2. InjectedInv => SameFile
  <2> SUFFICES ASSUME InjectedInv, NEW p \in Pod, PodMayWrite(p), NEW i \in DOMAIN pods[p].spec
               PROVE  LET target == pods[p].target
                          holders == {m \in Mounts(pods[p].shape) :
                                        /\ m.container = target.container
                                        /\ PathContains(m.path, pods[p].spec[i].path)}
                      IN  /\ target \in holders
                          /\ \A m \in holders :
                               \/ PathContains(m.path, target.path)
                               \/ ~ContainsAll(m, pods[p].spec)
                               \/ pods[p].shape.volume \notin {None, m.volume}
    BY Zenon DEF SameFile
  <2> DEFINE target == pods[p].target
             shape == pods[p].shape
             spec == pods[p].spec
  <2>1. spec \in Specs /\ shape \in Shapes /\ target # None /\ target = ResolveTarget(shape, spec)
    BY DEF InjectedInv, Injected, PodMayWrite, Target
  <2> HIDE DEF target, shape, spec
  <2>2. /\ target \in Mounts(shape) /\ shape.container \in {None, target.container}
        /\ ContainsAll(target, spec)
        /\ \A m \in Mounts(shape) :
             /\ shape.container \in {None, m.container} /\ shape.volume \in {None, m.volume}
             /\ ContainsAll(m, spec)
             => Len(m.path) <= Len(target.path)
    BY <2>1, ResolvedTarget
  <2>3. i \in DOMAIN spec /\ spec[i].path \in Seq(STRING) /\ target.path \in Seq(STRING)
    BY <2>1, <2>2, PathAssumption DEF spec
  <2>4. PathContains(target.path, spec[i].path)
    BY <2>2, <2>3 DEF ContainsAll, PathContains
  <2>5. ASSUME NEW m \in Mounts(shape), m.container = target.container,
               PathContains(m.path, spec[i].path), ContainsAll(m, spec), shape.volume \in {None, m.volume}
        PROVE  PathContains(m.path, target.path)
    <3>1. Len(m.path) <= Len(target.path) /\ m.path \in Seq(STRING)
      BY <2>1, <2>2, <2>5, PathAssumption
    <3> QED
      BY <2>3, <2>4, <2>5, <3>1, PrefixesNest
  <2> QED
    BY <2>2, <2>4, <2>5, Zenon DEF target, shape, spec
<1> QED
  BY <1>1, <1>2, NextInjectedInv, PTL DEF Spec

\* For every number of Pods and resources: while its resource exists, the
\* ConfigMap an injected Pod mounts exists, holds what it held at injection
\* and has every file the injected containers run, from however old a cache
\* the reconciler writes (ConfigMapNameForHash, verifyConfigMap).
THEOREM RevisionsKept == Spec => []RevisionKept
<1>1. Init => InjectedInv
  BY InitInjectedInv
<1>2. InjectedInv => RevisionKept
  <2> SUFFICES ASSUME InjectedInv, NEW p \in Pod, PodMayWrite(p), Current(p)
               PROVE  /\ Mounted(p)
                      /\ \A i \in DOMAIN pods[p].spec :
                           \E c \in Range(pods[p].init.first) :
                             c.runs = <<"script", pods[p].spec[i].name>>
                      /\ \A c \in Range(pods[p].init.first) :
                           c.runs \in DOMAIN configMaps[pods[p].status.configMap].data
    BY Zenon DEF RevisionKept, Current
  <2>1. pods[p].spec \in Specs /\ Added(p) /\ Mounted(p)
    BY Zenon DEF InjectedInv, Injected, PodMayWrite, Revision
  <2>2. configMaps[pods[p].status.configMap].data = pods[p].data
    BY <2>1 DEF Mounted
  <2> DEFINE spec == pods[p].spec
             data == pods[p].data
             first == pods[p].init.first
  <2>3. /\ \A i \in DOMAIN spec : \E c \in Range(first) : c.runs = <<"script", spec[i].name>>
        /\ \A c \in Range(first) :
             \/ \E i \in DOMAIN spec : c.runs = <<"script", spec[i].name>>
             \/ c.runs = ReplicateConfigFile /\ ReplicateConfigFile \in DOMAIN data
    <3>1. spec \in Specs /\ first = BuildInjection(spec, data)
      BY <2>1, Zenon DEF Added
    <3> HIDE DEF spec, data, first
    <3> QED
      BY <3>1, AddedContainers, Zenon
  <2>4. \A i \in DOMAIN spec : <<"script", spec[i].name>> \in DOMAIN data
    BY <2>1, Zenon DEF Added
  <2> HIDE DEF spec, data, first
  <2>5. \A c \in Range(first) : c.runs \in DOMAIN data
    BY <2>3, <2>4, Zenon
  <2> QED
    BY <2>1, <2>2, <2>3, <2>5, Zenon DEF spec, data, first
<1> QED
  BY <1>1, <1>2, NextInjectedInv, PTL DEF Spec
=============================================================================
