--------------------------------- MODULE Backup --------------------------------
(***************************************************************************)
(* Backup batches and isolated restores (src/paper_radar/backup), running  *)
(* beside the publishers of the artifact store without any common lock.    *)
(*                                                                         *)
(* A worker builds a private tree in a staging directory: an online        *)
(* snapshot of the database, the blobs it names, the manifest.  One rename *)
(* makes it a batch, or the content of a restore target.  Batch identities *)
(* are random; two equal ones are not modelled, anything else that takes   *)
(* the name is.                                                            *)
(***************************************************************************)
EXTENDS ArtifactStore

CONSTANTS
  Workers,              \* processes that run create_backup or restore_backup
  Batches, Targets,     \* places for batches, and for restored copies
  Database, Manifest,   \* the two files of a tree that are no blobs
  NoPlace

ASSUME PlaceAssumption ==
  /\ Batches \cap Targets = {}
  /\ NoPlace \notin Batches \cup Targets
ASSUME FileAssumption == {Database, Manifest} \cap Blobs = {} /\ Database # Manifest

VARIABLES
  places,     \* what is found at each place
  unsynced,   \* places renamed into, their parent directory not yet synced
  workers     \* what each worker is doing, with its staging tree

backupVars == <<places, unsynced, workers>>
vars == <<storeVars, backupVars>>

-------------------------------------------------------------------------------

Places == Batches \cup Targets
Items == Blobs \cup {Database, Manifest}

Absent == [kind |-> "absent"]
Empty == [kind |-> "empty"]       \* an empty directory
Foreign == [kind |-> "foreign"]   \* anything else, not of our making
Tree == [kind : {"tree"}, artifacts : SUBSET Artifacts, files : [Items -> Presence]]

TreeOf(artifacts, files) == [kind |-> "tree", artifacts |-> artifacts, files |-> files]
NewTree == TreeOf({}, [i \in Items |-> "absent"])
IdleWorker == [op |-> "idle", dest |-> NoPlace, source |-> NoPlace, tree |-> NewTree]
Worker == [op : {"snapshot", "copy", "ready", "renamed"}, dest : Places,
           source : Batches \cup {NoPlace}, tree : Tree]

TypeOK ==
  /\ StoreTypeOK
  /\ places \in [Places -> {Absent, Empty, Foreign} \cup Tree]
  /\ unsynced \subseteq Places
  /\ workers \in [Workers -> Worker \cup {IdleWorker}]

\* verify_contents: exactly the files of the snapshot, all of them there.
Contents(tree) == BlobsIn(tree.artifacts) \cup {Database, Manifest}
Whole(tree) == \A i \in Items : (tree.files[i] # "absent") <=> i \in Contents(tree)

\* Worker w has come to op, its tree has become this one.
WorksOn(w, op, tree) ==
  workers' = [workers EXCEPT ![w] =
    [op |-> op, dest |-> workers[w].dest, source |-> workers[w].source, tree |-> tree]]

-------------------------------------------------------------------------------
(* create_backup *)

CreateBackup(w, d) ==
  /\ workers[w] = IdleWorker
  /\ places[d] = Absent
  /\ \A v \in Workers : workers[v].dest # d
  /\ workers' = [workers EXCEPT ![w] =
       [op |-> "snapshot", dest |-> d, source |-> NoPlace, tree |-> NewTree]]
  /\ UNCHANGED <<places, unsynced>>

\* _online_snapshot fixes the registrations; the file is synced, its entry in the
\* staging directory is not.
Snapshot(w) ==
  /\ workers[w].op = "snapshot"
  /\ WorksOn(w, "copy",
       TreeOf(registered, [workers[w].tree.files EXCEPT ![Database] = "fresh"]))
  /\ UNCHANGED <<places, unsynced>>

\* The blobs of the snapshot that are still to be copied.
Missing(w) == {b \in BlobsIn(workers[w].tree.artifacts) :
                 workers[w].tree.files[b] = "absent"}

\* verified_blob_path and copy_file; a missing blob ends the backup (Abort).
CopyBlob(w, b) ==
  /\ workers[w].op = "copy" /\ workers[w].source = NoPlace
  /\ b \in Missing(w) /\ entries[b] # "absent"
  /\ LET tree == workers[w].tree IN
       WorksOn(w, "copy", TreeOf(tree.artifacts, [tree.files EXCEPT ![b] = "durable"]))
  /\ UNCHANGED <<places, unsynced>>

\* Mutant: the staging directory itself is not synced.
WriteManifestOnly(w) ==
  /\ workers[w].op = "copy" /\ workers[w].source = NoPlace
  /\ Missing(w) = {}
  /\ LET tree == workers[w].tree IN
       WorksOn(w, "ready", TreeOf(tree.artifacts, [tree.files EXCEPT ![Manifest] = "fresh"]))
  /\ UNCHANGED <<places, unsynced>>

\* _write_manifest syncs the staging directory, and with it the entry of the
\* database; verify_contents then reads everything again.
WriteManifest(w) ==
  /\ workers[w].op = "copy" /\ workers[w].source = NoPlace
  /\ Missing(w) = {}
  /\ LET tree == workers[w].tree IN
       WorksOn(w, "ready", TreeOf(tree.artifacts,
         [tree.files EXCEPT ![Manifest] = "durable", ![Database] = "durable"]))
  /\ UNCHANGED <<places, unsynced>>

-------------------------------------------------------------------------------
(* restore_backup *)

\* os.rename replaces an empty directory, renameat2(RENAME_NOREPLACE) nothing.
Free(d) == IF d \in Batches THEN {Absent} ELSE {Absent, Empty}

\* verify_backup and the first look at the target.
StartRestore(w, s, d) ==
  /\ workers[w] = IdleWorker
  /\ places[s].kind = "tree" /\ Whole(places[s])
  /\ places[d] \in Free(d)
  /\ workers' = [workers EXCEPT ![w] =
       [op |-> "copy", dest |-> d, source |-> s, tree |-> NewTree]]
  /\ UNCHANGED <<places, unsynced>>

\* copy_verified_contents verifies the batch again and copies database, blobs and
\* manifest, all synced; then the second look at the target.
CopyBatch(w) ==
  LET s == workers[w].source IN
  /\ workers[w].op = "copy" /\ s # NoPlace
  /\ places[s].kind = "tree" /\ Whole(places[s])
  /\ places[workers[w].dest] \in Free(workers[w].dest)
  /\ WorksOn(w, "ready", TreeOf(places[s].artifacts,
       [i \in Items |-> IF i \in Contents(places[s]) THEN "durable" ELSE "absent"]))
  /\ UNCHANGED <<places, unsynced>>

-------------------------------------------------------------------------------
(* Publication of a tree *)

\* Mutant: the look at the target is trusted, the rename replaces what it finds.
RenameReplacing(w) ==
  /\ workers[w].op = "ready"
  /\ places' = [places EXCEPT ![workers[w].dest] = workers[w].tree]
  /\ unsynced' = unsynced \cup {workers[w].dest}
  /\ workers' = [workers EXCEPT ![w].op = "renamed"]

Rename(w) ==
  /\ workers[w].op = "ready"
  /\ places[workers[w].dest] \in Free(workers[w].dest)
  /\ places' = [places EXCEPT ![workers[w].dest] = workers[w].tree]
  /\ unsynced' = unsynced \cup {workers[w].dest}
  /\ workers' = [workers EXCEPT ![w].op = "renamed"]

\* The batches share their output directory, the targets their parent.
SyncPlace(w) ==
  /\ workers[w].op = "renamed"
  /\ unsynced' = unsynced \ (IF workers[w].dest \in Batches THEN Batches ELSE Targets)
  /\ workers' = [workers EXCEPT ![w] = IdleWorker]
  /\ UNCHANGED places

\* Any check or system call fails, the rename included, or the process is killed.
\* The staging directory is removed or stays behind under its own name; a tree
\* already renamed stays too.
Abort(w) ==
  /\ workers[w] # IdleWorker
  /\ workers' = [workers EXCEPT ![w] = IdleWorker]
  /\ UNCHANGED <<places, unsynced>>

\* Somebody else creates or fills the directory.
Occupy(d) ==
  /\ \/ places[d] = Absent /\ places' \in {[places EXCEPT ![d] = x] : x \in {Empty, Foreign}}
     \/ places[d] = Empty /\ places' = [places EXCEPT ![d] = Foreign]
  /\ UNCHANGED <<unsynced, workers>>

-------------------------------------------------------------------------------

\* What a place may hold after a power loss: a rename that was not synced may be
\* undone, and files whose entries were not synced may be gone.
Survivors(d) ==
  LET undone == IF d \notin unsynced THEN {} ELSE Free(d)
      kept == IF places[d].kind # "tree" THEN {places[d]}
              ELSE {TreeOf(places[d].artifacts, f) :
                      f \in {f \in [Items -> {"absent", "durable"}] :
                              \A i \in Items :
                                places[d].files[i] # "fresh" => f[i] = places[d].files[i]}}
  IN  undone \cup kept

PowerLoss ==
  /\ LosesPower
  /\ places' \in {f \in [Places -> UNION {Survivors(d) : d \in Places}] :
                    \A d \in Places : f[d] \in Survivors(d)}
  /\ unsynced' = {}
  /\ workers' = [w \in Workers |-> IdleWorker]

Init ==
  /\ StoreInit
  /\ places = [d \in Places |-> Absent]
  /\ unsynced = {}
  /\ workers = [w \in Workers |-> IdleWorker]

BackupNext ==
  \/ \E w \in Workers :
       \/ \E d \in Batches : CreateBackup(w, d)
       \/ Snapshot(w)
       \/ \E b \in Blobs : CopyBlob(w, b)
       \/ WriteManifest(w)
       \/ \E s \in Batches, d \in Targets : StartRestore(w, s, d)
       \/ CopyBatch(w)
       \/ Rename(w)
       \/ SyncPlace(w)
       \/ Abort(w)
  \/ \E d \in Places : Occupy(d)

Next ==
  \/ StoreNext /\ UNCHANGED backupVars
  \/ BackupNext /\ UNCHANGED storeVars
  \/ PowerLoss

Spec == Init /\ [][Next]_vars

-------------------------------------------------------------------------------
(* Properties *)

\* A backup needs no lock on the store: whatever publishers do after its snapshot
\* or before, every blob the snapshot names is there to be copied, unless its
\* shard was lost earlier.
BackupFindsItsBlobs ==
  \A w \in Workers :
    workers[w].op = "copy" /\ workers[w].source = NoPlace =>
      \A b \in Missing(w) : entries[b] # "absent" \/ b \in orphaned

\* What carries the name of a batch or of a restored copy is whole, also when the
\* power fails between any two steps of its making.
PublishedIsWhole == \A d \in Places : places[d].kind = "tree" => Whole(places[d])

\* A batch, a restored copy or somebody else's files are never replaced or
\* changed, although the looks at the target and the rename are separate steps.
NothingIsReplaced ==
  [][\A d \in Places :
       places[d].kind \in {"tree", "foreign"} /\ d \notin unsynced
         => places'[d] = places[d]]_vars
===============================================================================
