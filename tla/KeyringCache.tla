---------------------------- MODULE KeyringCache ----------------------------
(***************************************************************************)
(* wsl-keyring: the Secret Service objects on D-Bus, the CachedBackend     *)
(* under them (metadata cache, secret cache, asynchronous saves) and the   *)
(* 1Password vault reached through the `op` command.                       *)
(*                                                                         *)
(* Identifiers are integers: 0 is the empty ID, a negative number is a     *)
(* pending ID (newPendingID), a positive one an item of the vault.  Each   *)
(* acknowledged save has a number, its position in `saves`; the number     *)
(* stands for the secret it stores, so a value tells which save wrote it.  *)
(* Attributes are sets of key-value pairs.                                 *)
(***************************************************************************)
EXTENDS Integers, FiniteSets, Sequences, Functions, SequencesExt

CONSTANTS
  AttributeSets,   \* the attributes clients store items under
  InitialAttributes, \* the attributes the stored item may have
  MaxNew,          \* items that clients create
  MaxSaves,        \* saves that clients issue
  MaxEvents        \* calls of clients, and commands that fail or time out

ASSUME KeyringBounds ==
  /\ AttributeSets # {} /\ \A a \in AttributeSets : IsFiniteSet(a)
  /\ {MaxNew, MaxSaves, MaxEvents} \subseteq Nat

VARIABLES
  vault,        \* item -> [attributes, by: save, origin: history]
  metaCache,    \* ID -> attributes
  metaLoaded,
  metaLoad,     \* the load in progress: [at, items]
  idAliases,    \* pending ID -> item
  pendingSaves, \* ID -> sequence of saves
  secretCache,  \* ID -> save whose secret is cached
  saves,        \* sequence of pendingSaveState with its goroutine
  exported,     \* ID -> attributes of the exported ItemObject
  create,       \* the CreateItem call in progress
  delete,       \* the Delete call in progress
  get,          \* the Get call in progress
  authCheckInFlight,
  left,         \* events still to come
  cancelled,    \* history: saves whose item was deleted by a client
  raced,        \* history: IDs with a cached read that overlapped a write
  shared        \* history: items that have been used under two names

vars == <<vault, metaCache, metaLoaded, metaLoad, idAliases, pendingSaves,
          secretCache, saves, exported, create, delete, get,
          authCheckInFlight, left, cancelled, raced, shared>>

metaVars == <<metaCache, metaLoaded, idAliases, pendingSaves>>
history == <<cancelled, raced, shared>>

-----------------------------------------------------------------------------
(* Helpers *)

IsPendingID(id) == id < 0

AttributesMatch(got, want) == want \subseteq got

Resolve(id) == IF id \in DOMAIN idAliases THEN idAliases[id] ELSE id

Without(f, ids) == Restrict(f, DOMAIN f \ ids)

With(f, id, v) == id :> v @@ f

(* The map's value is absent once the last save is removed. *)
RemovePendingSave(f, s) ==
  LET rest(k) == SelectSeq(f[k], LAMBDA t : t # s)
  IN  [k \in {j \in DOMAIN f : rest(j) # <<>>} |-> rest(k)]

Queue(k) == IF k \in DOMAIN pendingSaves THEN pendingSaves[k] ELSE <<>>

Matching(items, attributes) ==
  {id \in DOMAIN items : AttributesMatch(items[id].attributes, attributes)}

Idle == [at |-> "idle", id |-> 0]

Event == left > 0 /\ left' = left - 1

(* A client uses a new item under its ID before the alias is known. *)
Early(id) == id \in DOMAIN vault /\ Resolve(vault[id].origin) # id

(* The client's name of the item that an ID stands for: the pending ID it  *)
(* was created under, from when the alias is known, or the ID itself.      *)
Origin(id) ==
  IF id \in DOMAIN vault /\ ~Early(id) THEN vault[id].origin ELSE id

-----------------------------------------------------------------------------
(* The daemon starts with empty caches and an item in the vault. *)
Init ==
  /\ \E a \in InitialAttributes :
       vault = 1 :> [attributes |-> a, by |-> 0, origin |-> 1]
  /\ metaCache = <<>> /\ metaLoaded = FALSE
  /\ metaLoad = [at |-> "idle", items |-> <<>>]
  /\ idAliases = <<>> /\ pendingSaves = <<>> /\ secretCache = <<>>
  /\ saves = <<>>
  /\ exported = <<>>
  /\ create = Idle /\ delete = Idle /\ get = Idle
  /\ authCheckInFlight = FALSE
  /\ left = MaxEvents
  /\ cancelled = {} /\ raced = {} /\ shared = {}

-----------------------------------------------------------------------------
(* Metadata: List and Search load it once; calls that meet a load wait for *)
(* it (singleflight).                                                      *)

LoadBegin ==
  /\ ~metaLoaded /\ metaLoad.at = "idle"
  /\ metaLoad' = [metaLoad EXCEPT !.at = "listing"]
  /\ UNCHANGED <<vault, metaVars, secretCache, saves, exported, create, delete,
                 get, authCheckInFlight, left, history>>

(* The command reads the vault ... *)
LoadList ==
  /\ metaLoad.at = "listing"
  /\ metaLoad' = [at |-> "listed", items |-> vault]
  /\ UNCHANGED <<vault, metaVars, secretCache, saves, exported, create, delete,
                 get, authCheckInFlight, left, history>>

LoadFails ==
  /\ metaLoad.at = "listing" /\ Event
  /\ metaLoad' = [at |-> "idle", items |-> <<>>]
  /\ create' = IF create.at = "search" THEN [create EXCEPT !.at = "save"] ELSE create
  /\ UNCHANGED <<vault, metaVars, secretCache, saves, exported, delete, get,
                 authCheckInFlight, history>>

(* At start-up an object is exported for each item. *)
ExportAll(items) == items @@ exported

(* The list replaces the cache, whatever was saved or deleted meanwhile. *)
LoadInstall ==
  /\ metaLoad.at = "listed"
  /\ metaCache' = [id \in DOMAIN metaLoad.items |-> metaLoad.items[id].attributes]
  /\ metaLoaded' = TRUE
  /\ metaLoad' = [at |-> "idle", items |-> <<>>]
  /\ exported' = ExportAll(metaCache')
  /\ UNCHANGED <<vault, idAliases, pendingSaves, secretCache, saves, create,
                 delete, get, authCheckInFlight, left, history>>

(* The objects clients can call: every search exports what it returns.     *)
Objects == DOMAIN exported \cup DOMAIN metaCache

-----------------------------------------------------------------------------
(* Save *)

(* Faulty variant: an entry that is cached is kept. *)
StoreSecretOnce(id, n) ==
  secretCache' = IF id \in DOMAIN secretCache THEN secretCache ELSE With(secretCache, id, n)

(* The entry of an ID is replaced. *)
StoreSecret(id, n) == secretCache' = With(secretCache, id, n)

(* The critical section of an asynchronous Save of `id` (0 for a new item) *)
(* with attributes a: it supersedes and follows the saves queued under the *)
(* same key, and both caches show it at once.                              *)
Save(id, a) ==
  LET n == Len(saves) + 1
      resolved == Resolve(id)
      itemID == IF resolved = 0 THEN -n ELSE resolved
      pid == IF IsPendingID(itemID) THEN itemID ELSE 0
      queue == Queue(itemID)
  IN  /\ n <= MaxSaves /\ Event
      /\ Cardinality({t \in {saves[s].key : s \in DOMAIN saves} \cup {itemID} : t < 0}) <= MaxNew
      /\ saves' = Append(
           [s \in DOMAIN saves |->
              IF s \in ToSet(queue) THEN [saves[s] EXCEPT !.superseded = TRUE] ELSE saves[s]],
           [key |-> itemID, pendingID |-> pid, attributes |-> a,
            id |-> IF pid = 0 THEN itemID ELSE 0,
            prev |-> IF queue = <<>> THEN 0 ELSE Last(queue),
            deleted |-> FALSE, superseded |-> FALSE, at |-> "wait",
            target |-> 0, ok |-> FALSE, orphan |-> FALSE, item |-> Origin(itemID)])
      /\ pendingSaves' = With(pendingSaves, itemID, Append(queue, n))
      /\ metaCache' = With(metaCache, itemID, a)
      /\ metaLoaded' = TRUE
      /\ StoreSecret(itemID, n)
      /\ raced' = IF get.at \in {"raw", "store"} THEN raced \cup {get.id} ELSE raced \ {itemID}
      /\ exported' = With(exported, itemID, a)
      /\ UNCHANGED <<vault, metaLoad, idAliases, delete, get, authCheckInFlight,
                     cancelled>>
      /\ shared' = IF Early(itemID) THEN shared \cup {itemID} ELSE shared

(* CreateItem without replace saves a new item. *)
CreateItem(a) ==
  /\ Save(0, a)
  /\ UNCHANGED create

(* With replace it takes the first match, in no particular order; when the *)
(* search fails or runs into its timeout the item is saved as a new one.   *)
CreateReplace(a) ==
  /\ create.at = "idle" /\ Len(saves) < MaxSaves /\ left > 0
  /\ create' = [at |-> "search", id |-> 0, attributes |-> a]
  /\ UNCHANGED <<vault, metaVars, metaLoad, secretCache, saves, exported, delete,
                 get, authCheckInFlight, left, history>>

CreateSearch ==
  /\ create.at = "search" /\ metaLoaded
  /\ LET found == {id \in DOMAIN metaCache : AttributesMatch(metaCache[id], create.attributes)}
     IN  \E id \in IF found = {} THEN {0} ELSE found :
           create' = [create EXCEPT !.at = "save", !.id = id]
  /\ UNCHANGED <<vault, metaVars, metaLoad, secretCache, saves, exported, delete,
                 get, authCheckInFlight, left, history>>

CreateSave ==
  /\ create.at = "save"
  /\ Save(create.id, create.attributes)
  /\ create' = Idle

SetSecret(id) ==
  /\ \E f \in {exported, metaCache} : id \in DOMAIN f /\ Save(id, f[id])
  /\ UNCHANGED create

-----------------------------------------------------------------------------
(* persistSave: the goroutine of save s. *)

Step(s, changes) == saves' = [saves EXCEPT ![s] = changes @@ @]

PrevDone(s) == saves[s].prev # 0 => saves[saves[s].prev].at = "done"

(* A cancelled save deletes what an earlier save of its item has stored.   *)
CancelTarget(s) ==
  LET key == saves[s].key
  IN  IF IsPendingID(key) THEN Resolve(key) ELSE key

After(target) ==
  IF target > 0 THEN [at |-> "cleanup", target |-> target] ELSE [at |-> "done"]

(* Faulty variant: a save queued under the pending ID searches again. *)
ReusedIDNever(s) == saves[s].id

ReusedID(s) ==
  IF saves[s].id # 0 \/ saves[s].pendingID \notin DOMAIN idAliases
  THEN saves[s].id ELSE idAliases[saves[s].pendingID]

PersistBegin(s) ==
  /\ saves[s].at = "wait" /\ PrevDone(s)
  /\ IF saves[s].deleted \/ saves[s].superseded
     THEN LET target == IF saves[s].deleted THEN CancelTarget(s) ELSE 0
          IN  /\ pendingSaves' = RemovePendingSave(pendingSaves, s)
              /\ Step(s, After(target))
     ELSE /\ UNCHANGED pendingSaves
          /\ LET id == ReusedID(s)
             IN  Step(s, [at |-> IF id = 0 THEN "find" ELSE "write", id |-> id, target |-> id])
  /\ UNCHANGED <<vault, metaCache, metaLoaded, idAliases, metaLoad, secretCache,
                 exported, create, delete, get, authCheckInFlight, left, history>>

(* Deadlines expire in the order of the saves: when a wait is given up the *)
(* command of the predecessor was killed long ago and, except for the      *)
(* deletion after it, which has a deadline of its own, it has finished.    *)
WaitTimesOut(s) ==
  /\ saves[s].at = "wait" /\ saves[s].prev # 0
  /\ saves[saves[s].prev].at \in {"cleanup", "done"}
  /\ Event
  /\ pendingSaves' = RemovePendingSave(pendingSaves, s)
  /\ Step(s, [at |-> "done"])
  /\ UNCHANGED <<vault, metaCache, metaLoaded, idAliases, metaLoad, secretCache,
                 exported, create, delete, get, authCheckInFlight, history>>

(* What a list command returns: one that is still running is shared. *)
Listings == {vault} \cup IF metaLoad.at = "listed" THEN {metaLoad.items} ELSE {}

(* findMatchingOPItem: the first match, if any. *)
RawFind(s) ==
  /\ saves[s].at = "find"
  /\ \E items \in Listings :
       LET found == Matching(items, saves[s].attributes)
       IN  \E id \in IF found = {} THEN {0} ELSE found :
             /\ Step(s, [at |-> "write", target |-> id])
             /\ shared' = IF id # 0 /\ items[id].origin # saves[s].item
                          THEN shared \cup {id} ELSE shared
  /\ UNCHANGED <<vault, metaVars, metaLoad, secretCache, exported, create, delete,
                 get, authCheckInFlight, left, cancelled, raced>>

RawFindFails(s) ==
  /\ saves[s].at = "find" /\ Event
  /\ Step(s, [at |-> "write"])
  /\ UNCHANGED <<vault, metaVars, metaLoad, secretCache, exported, create, delete,
                 get, authCheckInFlight, history>>

(* `op item create` or `op item edit`; items never reuse an ID. *)
Written(s) ==
  LET id == IF saves[s].target = 0 THEN s + 1 ELSE saves[s].target
      origin == IF saves[s].target = 0 THEN saves[s].item ELSE vault[id].origin
  IN  With(vault, id, [attributes |-> saves[s].attributes, by |-> s, origin |-> origin])

Writable(s) == saves[s].target = 0 \/ saves[s].target \in DOMAIN vault

RawWrite(s) ==
  /\ saves[s].at = "write"
  /\ IF Writable(s)
     THEN /\ vault' = Written(s)
          /\ Step(s, [at |-> "written", ok |-> TRUE,
                      id |-> IF saves[s].target = 0 THEN s + 1 ELSE saves[s].target])
     ELSE UNCHANGED vault /\ Step(s, [at |-> "written"])
  /\ UNCHANGED <<metaVars, metaLoad, secretCache, exported, create, delete, get,
                 authCheckInFlight, left, history>>

(* A command that fails may have had its effect. *)
RawWriteFails(s) ==
  /\ saves[s].at = "write" /\ Event
  /\ \/ /\ UNCHANGED vault
        /\ Step(s, [at |-> "written"])
     \/ /\ Writable(s)
        /\ vault' = Written(s)
        /\ Step(s, [at |-> "written", orphan |-> TRUE])
  /\ UNCHANGED <<metaVars, metaLoad, secretCache, exported, create, delete, get,
                 authCheckInFlight, history>>

(* The pending ID becomes an alias of the item: the saves queued under it  *)
(* move to the item's queue and the cached entries are renamed.            *)
Rename(f, from, to) ==
  IF from \in DOMAIN f THEN With(Without(f, {from}), to, f[from]) ELSE f

(* Faulty variant: the queued saves are forgotten. *)
MigrateNothing(queues, from, to) == Without(queues, {from})

Migrate(queues, from, to) ==
  IF from \notin DOMAIN queues THEN queues
  ELSE With(Without(queues, {from}), to,
            (IF to \in DOMAIN queues THEN queues[to] ELSE <<>>) \o queues[from])

(* Faulty variant: only an item that had an ID is deleted again. *)
FinishTargetKey(s) == IF saves[s].deleted THEN saves[s].key ELSE 0

FinishTarget(s) ==
  LET sv == saves[s]
  IN  IF ~sv.deleted THEN 0
      ELSE IF sv.pendingID = 0 THEN sv.key
      ELSE IF sv.ok THEN sv.id
      ELSE Resolve(sv.pendingID)

PersistFinish(s) ==
  LET sv == saves[s]
      queues == RemovePendingSave(pendingSaves, s)
      resolves == ~sv.deleted /\ sv.ok /\ sv.pendingID # 0
  IN  /\ sv.at = "written"
      /\ IF resolves
         THEN /\ idAliases' = With(idAliases, sv.pendingID, sv.id)
              /\ pendingSaves' = Migrate(queues, sv.pendingID, sv.id)
              /\ metaCache' = IF sv.pendingID \in DOMAIN metaCache
                              THEN Rename(metaCache, sv.pendingID, sv.id)
                              ELSE With(metaCache, sv.id, sv.attributes)
              /\ secretCache' = Rename(secretCache, sv.pendingID, sv.id)
         ELSE /\ pendingSaves' = queues
              /\ UNCHANGED <<idAliases, metaCache, secretCache>>
      /\ Step(s, After(FinishTarget(s)))
      /\ UNCHANGED <<vault, metaLoaded, metaLoad, exported, create, delete, get,
                     authCheckInFlight, left, history>>

(* The deletion after a cancelled save; its failure is only logged. *)
Cleanup(s) ==
  /\ saves[s].at = "cleanup"
  /\ \/ /\ vault' = Without(vault, {saves[s].target})
        /\ Step(s, [at |-> "done"])
        /\ UNCHANGED left
     \/ /\ Event
        /\ Step(s, [at |-> "done", orphan |-> TRUE])
        /\ UNCHANGED vault
  /\ UNCHANGED <<metaVars, metaLoad, secretCache, exported, create, delete, get,
                 authCheckInFlight, history>>

-----------------------------------------------------------------------------
(* Delete *)

(* The caches forget the item and every alias of it. *)
Evict(ids) ==
  /\ metaCache' = Without(metaCache, ids)
  /\ idAliases' = Restrict(idAliases, {p \in DOMAIN idAliases :
                                         p \notin ids /\ idAliases[p] \notin ids})

(* Saves that are queued under the ID, its item or an alias of the item    *)
(* are marked; an item that has no ID in the vault yet needs no more.      *)
DeleteBegin(id) ==
  LET ids == {id, Resolve(id)}
      keys == ids \cup {p \in DOMAIN idAliases : idAliases[p] \in ids}
      queued == UNION {ToSet(Queue(k)) : k \in keys}
      origins == ids \cup {Origin(Resolve(id))}
  IN  /\ delete.at = "idle" /\ Event
      /\ saves' = [s \in DOMAIN saves |->
                     IF s \in queued THEN [saves[s] EXCEPT !.deleted = TRUE] ELSE saves[s]]
      /\ delete' = [at |-> IF IsPendingID(Resolve(id)) THEN "secrets" ELSE "raw",
                    id |-> id, resolved |-> Resolve(id),
                    covers |-> {s \in DOMAIN saves : saves[s].item \in origins}]
      /\ IF IsPendingID(Resolve(id)) THEN Evict(ids) ELSE UNCHANGED <<metaCache, idAliases>>
      /\ raced' = IF get.at \in {"raw", "store"} THEN raced \cup {get.id} ELSE raced
      /\ exported' = IF id \in DOMAIN exported THEN exported ELSE With(exported, id, metaCache[id])
      /\ UNCHANGED <<vault, metaLoaded, pendingSaves, metaLoad, secretCache,
                     create, get, authCheckInFlight, cancelled>>
      /\ shared' = IF Early(id) THEN shared \cup {id} ELSE shared

(* An item that is not found counts as deleted. *)
DeleteRaw ==
  /\ delete.at = "raw"
  /\ vault' = Without(vault, {delete.resolved})
  /\ delete' = [delete EXCEPT !.at = "evict"]
  /\ UNCHANGED <<metaVars, metaLoad, secretCache, saves, exported, create, get,
                 authCheckInFlight, left, history>>

DeleteRawFails ==
  /\ delete.at = "raw" /\ Event
  /\ delete' = Idle
  /\ UNCHANGED <<vault, metaVars, metaLoad, secretCache, saves, exported, create,
                 get, authCheckInFlight, history>>

DeleteEvict ==
  /\ delete.at = "evict"
  /\ Evict({delete.id, delete.resolved})
  /\ delete' = [delete EXCEPT !.at = "secrets"]
  /\ UNCHANGED <<vault, metaLoaded, pendingSaves, metaLoad, secretCache, saves,
                 exported, create, get, authCheckInFlight, left, history>>

DeleteSecrets ==
  /\ delete.at = "secrets"
  /\ secretCache' = Without(secretCache, {delete.id, delete.resolved})
  /\ delete' = Idle
  /\ cancelled' = cancelled \cup delete.covers
  /\ UNCHANGED <<vault, metaVars, metaLoad, saves, exported, create, get,
                 authCheckInFlight, left, raced, shared>>

-----------------------------------------------------------------------------
(* Get *)

GetBegin(id) ==
  /\ get.at = "idle" /\ Event
  /\ get' = [at |-> "cache", id |-> Resolve(id)]
  /\ UNCHANGED <<vault, metaVars, metaLoad, secretCache, saves, exported, create,
                 delete, authCheckInFlight, history>>

(* A hit may start an authentication check, when the last one is long ago. *)
GetHit ==
  /\ get.at = "cache" /\ get.id \in DOMAIN secretCache
  /\ get' = Idle
  /\ authCheckInFlight' \in {authCheckInFlight, TRUE}
  /\ UNCHANGED <<vault, metaVars, metaLoad, secretCache, saves, exported, create,
                 delete, left, history>>

(* An expired entry is dropped and counts as a miss. *)
GetMiss ==
  /\ get.at = "cache"
  /\ secretCache' = Without(secretCache, {get.id})
  /\ get' = [get EXCEPT !.at = "raw"]
  /\ UNCHANGED <<vault, metaVars, metaLoad, saves, exported, create, delete,
                 authCheckInFlight, left, history>>

GetRaw ==
  /\ get.at = "raw"
  /\ get' = IF get.id \in DOMAIN vault
            THEN [at |-> "store", id |-> get.id, by |-> vault[get.id].by] ELSE Idle
  /\ raced' = IF delete.at # "idle" \/ \E s \in DOMAIN saves : saves[s].at # "done"
              THEN raced \cup {get.id} ELSE raced
  /\ UNCHANGED <<vault, metaVars, metaLoad, secretCache, saves, exported, create,
                 delete, authCheckInFlight, left, cancelled, shared>>

GetStore ==
  /\ get.at = "store"
  /\ StoreSecret(get.id, get.by)
  /\ get' = Idle
  /\ UNCHANGED <<vault, metaVars, metaLoad, saves, exported, create, delete,
                 authCheckInFlight, left, history>>

AuthCheck ==
  /\ authCheckInFlight
  /\ authCheckInFlight' = FALSE
  /\ secretCache' \in {secretCache, <<>>}
  /\ UNCHANGED <<vault, metaVars, metaLoad, saves, exported, create, delete, get,
                 left, history>>

-----------------------------------------------------------------------------
Persist(s) ==
  \/ PersistBegin(s) \/ WaitTimesOut(s) \/ RawFind(s) \/ RawFindFails(s)
  \/ RawWrite(s) \/ RawWriteFails(s) \/ PersistFinish(s) \/ Cleanup(s)

Next ==
  \/ LoadBegin \/ LoadList \/ LoadFails \/ LoadInstall
  \/ \E a \in AttributeSets : CreateItem(a) \/ CreateReplace(a)
  \/ CreateSearch \/ CreateSave
  \/ \E id \in Objects : SetSecret(id) \/ DeleteBegin(id) \/ GetBegin(id)
  \/ \E s \in DOMAIN saves : Persist(s)
  \/ DeleteRaw \/ DeleteRawFails \/ DeleteEvict \/ DeleteSecrets
  \/ GetHit \/ GetMiss \/ GetRaw \/ GetStore \/ AuthCheck

Spec == Init /\ [][Next]_vars

-----------------------------------------------------------------------------
(* Properties *)

(* A save of the item went to an item of the vault with two names: one     *)
(* that another create made and the metadata cache did not show, or one    *)
(* that a client used under its new ID before the alias was known.         *)
Mixed(item) ==
  \E s \in DOMAIN saves :
    saves[s].item = item /\ {saves[s].id, saves[s].target} \cap shared # {}

(* What a client deleted does not come back: once the deletion has         *)
(* returned and a save issued before it has run to its end, the vault does *)
(* not hold what that save wrote, wherever the save was when the deletion  *)
(* began: waiting for another, searching, writing, or moved from the       *)
(* pending ID to the item (persistSave, Delete).  A command that failed    *)
(* after it had its effect is the exception.                               *)
NoResurrection ==
  \A r \in DOMAIN vault :
    LET s == vault[r].by
    IN  s \in cancelled /\ saves[s].at = "done" =>
          saves[s].orphan \/ Mixed(saves[s].item)

(* Saves of one item take effect in the order they were acknowledged: the  *)
(* vault never holds an older save of an item after a newer one was        *)
(* written to it (prevDone, the migration of queues in persistSave).       *)
LastWriteWins ==
  \A r \in DOMAIN vault : \A s \in DOMAIN saves :
    /\ vault[r].by # 0
    /\ saves[s].ok /\ saves[s].id = r
    /\ saves[s].item = saves[vault[r].by].item /\ ~Mixed(saves[s].item)
    => s <= vault[r].by

(* An item that was created once is stored once: saves made under its      *)
(* pending ID, before or after the vault gave it an ID, never create a     *)
(* second one (persistSave reuses the alias).                              *)
StoredOnce ==
  \A q, r \in DOMAIN vault \ shared :
    q # r /\ vault[q].origin = vault[r].origin /\ ~Mixed(vault[q].origin) =>
      \E s \in {vault[q].by, vault[r].by} \ {0} : saves[s].orphan \/ saves[s].deleted

(* A cached secret is the newest one saved under its ID, across renaming,  *)
(* eviction and expiry, unless it was read from the vault while a save or  *)
(* a deletion of the item was under way or that save failed.               *)
CacheFresh ==
  \A id \in DOMAIN secretCache \ raced : \A s \in DOMAIN saves :
    /\ id \in {saves[s].key, Resolve(saves[s].key)}
    /\ saves[s].item = IF secretCache[id] = 0 THEN id ELSE saves[secretCache[id]].item
    /\ saves[s].at # "done" \/ saves[s].ok
    /\ ~Mixed(saves[s].item)
    => s <= secretCache[id]
=============================================================================
