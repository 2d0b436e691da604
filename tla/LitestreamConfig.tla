-------------------------- MODULE LitestreamConfig --------------------------
(***************************************************************************)
(* From a Litestream resource to the files its Pods run: validation of the *)
(* spec, resolution of its LitestreamReplica references, the rendered      *)
(* configuration, and what the restore scripts do to a database.           *)
(*                                                                         *)
(* A spec is a sequence of database bindings                               *)
(*   [name, path, restore, replicate, clonePolicy]                         *)
(* whose restore is None or [replicaRef, ifDatabaseExists,                 *)
(* ifReplicaMissing] and whose replicate is None or [replicaRef]; paths    *)
(* are sequences of components.  A LitestreamReplica is [type, root,       *)
(* secret]: its backend, where it points, and its credential selector.     *)
(***************************************************************************)
EXTENDS Naturals, Sequences, Functions, TLC

CONSTANT None

-----------------------------------------------------------------------------
(* Validation of a spec on its own.                                        *)

ValidBinding(d) ==
  /\ d.restore # None \/ d.replicate # None
  /\ d.clonePolicy # "" =>
       /\ d.restore # None /\ d.replicate # None
       /\ d.restore.replicaRef # d.replicate.replicaRef

Validate(spec) ==
  /\ spec # <<>>
  /\ \A i \in DOMAIN spec : ValidBinding(spec[i])
  /\ \A i, j \in DOMAIN spec :
       i # j => spec[i].name # spec[j].name /\ spec[i].path # spec[j].path

References(d) ==
  (IF d.restore = None THEN {} ELSE {d.restore.replicaRef})
    \cup IF d.replicate = None THEN {} ELSE {d.replicate.replicaRef}

Consumes(spec, r) == \E i \in DOMAIN spec : r \in References(spec[i])

Replicates(spec) == \E i \in DOMAIN spec : spec[i].replicate # None

(* The Replica selects the backend, the path the database within it. *)
ReplicationDestinations(spec) ==
  {<<spec[i].replicate.replicaRef, spec[i].path>> :
     i \in {j \in DOMAIN spec : spec[j].replicate # None}}

-----------------------------------------------------------------------------
(* Resolution: every reference exists in the namespace. *)

Resolvable(spec, replicas) ==
  \A i \in DOMAIN spec : \A r \in References(spec[i]) : replicas[r] # None

(* Resolution stops at the first reference that is missing. *)
Unresolved(spec, replicas) ==
  LET missing(i) == {r \in References(spec[i]) : replicas[r] = None}
      first == CHOOSE i \in DOMAIN spec : missing(i) # {} /\ \A j \in 1..i - 1 : missing(j) = {}
      d == spec[first]
  IN  IF Resolvable(spec, replicas) THEN None
      ELSE IF d.restore # None /\ d.restore.replicaRef \in missing(first)
      THEN d.restore.replicaRef ELSE d.replicate.replicaRef

Clone(d) ==
  /\ d.restore # None /\ d.replicate # None
  /\ d.restore.replicaRef # d.replicate.replicaRef

Source(d, replicas) == replicas[d.restore.replicaRef]
Destination(d, replicas) == replicas[d.replicate.replicaRef]

(* One process holds one set of GCS credentials. *)
ValidateGCSCredentials(spec, replicas) ==
  LET gcs(r) == r.type = "gcs"
      to == {Destination(spec[i], replicas) : i \in {j \in DOMAIN spec : spec[j].replicate # None}}
  IN  /\ \A i \in DOMAIN spec :
           Clone(spec[i]) =>
             LET s == Source(spec[i], replicas)  d == Destination(spec[i], replicas)
             IN  gcs(s) /\ gcs(d) => s.secret = d.secret
      /\ \A a, b \in to : gcs(a) /\ gcs(b) => a.secret = b.secret

-----------------------------------------------------------------------------
(* Scripts are sequences of commands on a database and the configuration   *)
(* file, which names a replica, that they are given.                       *)

DefaultRestorePolicy == [ifDatabaseExists |-> "skip", ifReplicaMissing |-> "skip"]

RestoreLine(policy, file) == <<policy @@ [op |-> "restore", file |-> file]>>

(* An overwriting restore goes through a temporary file: Litestream would  *)
(* remove the database before it looks for a backup.                       *)
StagedRestoreLine(policy, file) ==
  LET command(op) == policy @@ [op |-> op, file |-> file]
  IN  <<command("stage"), command("install"), command("clean")>>

BuildRestoreLine(policy, file) ==
  IF policy.ifDatabaseExists = "overwrite"
  THEN StagedRestoreLine(policy, file) ELSE RestoreLine(policy, file)

Policy(restore) ==
  [ifDatabaseExists |-> restore.ifDatabaseExists, ifReplicaMissing |-> restore.ifReplicaMissing]

BuildRequireEmptyPreflight(d, file) ==
  IF d.clonePolicy = "require-empty"
  THEN <<DefaultRestorePolicy @@ [op |-> "preflight", file |-> file]>> ELSE <<>>

(* Faulty variant: the source is restored before the destination. *)
BuildCloneScriptSourceFirst(d, destFile, srcFile) ==
  BuildRequireEmptyPreflight(d, destFile)
    \o BuildRestoreLine(Policy(d.restore), srcFile)
    \o BuildRestoreLine(DefaultRestorePolicy, destFile)

BuildCloneScript(d, destFile, srcFile) ==
  BuildRequireEmptyPreflight(d, destFile)
    \o BuildRestoreLine(DefaultRestorePolicy, destFile)
    \o BuildRestoreLine(Policy(d.restore), srcFile)

-----------------------------------------------------------------------------
(* Rendering.  Files are <<kind, database>>; a configuration file holds    *)
(* entries [path, root], never a credential.                               *)

ReplicateConfigFile == <<"replicate", "">>

Entry(d, replica) == {[path |-> d.path, root |-> replica.root]}

(* The files of a database, by kind. *)
Files(d, content) == [f \in {<<kind, d.name>> : kind \in DOMAIN content} |-> content[f[1]]]

RenderRestoreOnly(d, replicas) ==
  Files(d, [config |-> Entry(d, Source(d, replicas)),
            script |-> BuildRestoreLine(Policy(d.restore), <<"config", d.name>>)])

(* Without a restore the destination doubles as the source. *)
RenderReplicate(d, replicas) ==
  IF d.restore # None
  THEN RenderRestoreOnly(d, replicas)
  ELSE Files(d, [config |-> Entry(d, Destination(d, replicas)),
                 script |-> BuildRestoreLine(DefaultRestorePolicy, <<"config", d.name>>)])

RenderClone(d, replicas) ==
  Files(d, [destination |-> Entry(d, Destination(d, replicas)),
            source |-> Entry(d, Source(d, replicas)),
            script |-> BuildCloneScript(d, <<"destination", d.name>>, <<"source", d.name>>)])

RenderDatabase(d, replicas) ==
  IF Clone(d) THEN RenderClone(d, replicas)
  ELSE IF d.replicate # None THEN RenderReplicate(d, replicas)
  ELSE RenderRestoreOnly(d, replicas)

(* Which selector each container needs: restores of a clone, or from the   *)
(* destination, use the destination's too.                                 *)
Credentials(d, replicas) ==
  (IF d.restore = None THEN {} ELSE {<<d.name, Source(d, replicas).secret>>})
    \cup IF d.replicate = None THEN {}
         ELSE {<<"replicate", Destination(d, replicas).secret>>}
                \cup IF d.restore = None \/ Clone(d)
                     THEN {<<d.name, Destination(d, replicas).secret>>} ELSE {}

(* The hash identifies data and credentials; it is the rendering itself.   *)
(* Names are unique, so no two databases have a file in common.            *)
Render(spec, replicas) ==
  LET writers == {i \in DOMAIN spec : spec[i].replicate # None}
      entries == UNION {Entry(spec[i], Destination(spec[i], replicas)) : i \in writers}
      rendered == {RenderDatabase(spec[i], replicas) : i \in DOMAIN spec}
                    \cup IF writers = {} THEN {} ELSE {[f \in {ReplicateConfigFile} |-> entries]}
  IN  [data |-> [f \in UNION {DOMAIN r : r \in rendered} |->
                   (CHOOSE r \in rendered : f \in DOMAIN r)[f]],
       credentials |-> UNION {Credentials(spec[i], replicas) : i \in DOMAIN spec}]

-----------------------------------------------------------------------------
(* What a script does, from the flags it passes to litestream restore and  *)
(* the shell around it.  st is [db, tmp, stale, failed]: the database or   *)
(* None, the temporary file, whether a replaced database left its WAL, and *)
(* the exit status.  remote gives the backup behind a configuration file.  *)

Execute(c, st, remote) ==
  LET backup == remote[c.file]
      fail == [st EXCEPT !.failed = TRUE]
  IN  CASE st.failed -> st
        [] c.op = "preflight" -> IF backup # None THEN fail ELSE st
        [] c.op = "restore" /\ st.db # None ->
             IF c.ifDatabaseExists = "fail" THEN fail ELSE st
        [] c.op = "restore" /\ backup # None -> [st EXCEPT !.db = backup]
        [] c.op = "stage" /\ backup # None -> [st EXCEPT !.tmp = backup]
        [] c.op \in {"restore", "stage"} /\ backup = None ->
             IF c.ifReplicaMissing = "fail" THEN fail ELSE st
        [] c.op = "install" ->
             IF st.tmp = None THEN st
             ELSE [st EXCEPT !.db = st.tmp, !.stale = st.stale \/ st.db # None]
        [] c.op = "clean" ->
             IF st.tmp = None THEN st ELSE [st EXCEPT !.stale = FALSE, !.tmp = None]

RunScript(script, st, remote) ==
  LET run[k \in 0..Len(script)] ==
        IF k = 0 THEN [st EXCEPT !.tmp = None, !.failed = FALSE]
        ELSE Execute(script[k], run[k - 1], remote)
  IN  run[Len(script)]

(* What is required of a script, for every database and backup it may find *)
(* and every point where it may be killed before it is run again.          *)
ScriptSafe(script, configs) ==
  \A db \in {None, "local"}, remote \in [configs -> {None, "backup"}] :
    LET content == [f \in configs |-> IF remote[f] = None THEN None ELSE f[1]]
        start == [db |-> db, tmp |-> None, stale |-> FALSE, failed |-> FALSE]
        once == RunScript(script, start, content)
        files(op) == {script[i].file : i \in {j \in DOMAIN script : script[j].op = op}}
        replaced == \E f \in files("stage") : content[f] # None
        refuses == \E i \in DOMAIN script :
                     script[i].op = "restore" /\ script[i].ifDatabaseExists = "fail"
    IN  /\ ~replaced /\ db # None => once.db = db
        /\ \A f \in files("preflight") : content[f] # None => once.failed /\ once.db = db
        /\ \A f \in configs :
             f[1] = "destination" /\ content[f] # None /\ db = None /\ ~replaced =>
               once.db = "destination" \/ once.failed
        /\ \A k \in DOMAIN script :
             LET killed == RunScript(SubSeq(script, 1, k), start, content)
                 again == RunScript(script, killed, content)
             IN  refuses \/ again = once
=============================================================================
