----------------------------- MODULE ArtifactStore -----------------------------
(***************************************************************************)
(* The artifact store (src/paper_radar/storage): processes publish blobs   *)
(* as files by hard link, one system call after another and without any    *)
(* lock, then register artifacts in one SQLite transaction.                *)
(*                                                                         *)
(* The file system is the one POSIX promises: a new directory entry is     *)
(* there at once, but survives a power loss for certain only after fsync   *)
(* of the directory that holds it; a lost directory takes its entries      *)
(* along.  A commit of SQLite is durable.  Bytes are not modelled: files   *)
(* are written and synced under tmp/ before they are linked, so a file     *)
(* that is there is whole.                                                 *)
(***************************************************************************)
EXTENDS Integers, Sequences

CONSTANTS
  Publishers,   \* processes that publish
  Blobs,        \* contents, by SHA-256
  Shards,       \* <first two digits>/
  ShardOf,      \* ShardOf[b]: the directory of blob b
  Namespace,    \* blobs/sha256/, the parent of every shard
  Artifacts,    \* manifests
  Members,      \* Members[a]: the blobs of artifact a, in role order
  NoArtifact

ASSUME LayoutAssumption ==
  /\ ShardOf \in [Blobs -> Shards]
  /\ Namespace \notin Shards
ASSUME ManifestAssumption ==
  /\ Members \in [Artifacts -> Seq(Blobs)]
  /\ \A a \in Artifacts : Members[a] # <<>>
  /\ NoArtifact \notin Artifacts

VARIABLES
  dirs,         \* the namespace and its shards
  entries,      \* blob files in their shards
  registered,   \* artifacts, artifact_members and content_objects
  orphaned,     \* history: blobs whose directory was lost with a power loss
  publishers    \* what each publisher is about to do

storeVars == <<dirs, entries, registered, orphaned, publishers>>

-------------------------------------------------------------------------------

Dirs == {Namespace} \cup Shards
Presence == {"absent", "fresh", "durable"}

BlobsOf(a) == {Members[a][k] : k \in 1..Len(Members[a])}
BlobsIn(as) == UNION {BlobsOf(a) : a \in as}
RegisteredBlobs == BlobsIn(registered)

Idle == [op |-> "idle", artifact |-> NoArtifact, role |-> 0, dir |-> Namespace]
Publisher ==
  [op : {"check", "look", "make", "sync_parent", "link", "sync_shard", "register"},
   artifact : Artifacts, role : Nat, dir : Dirs]

StoreTypeOK ==
  /\ dirs \in [Dirs -> Presence]
  /\ entries \in [Blobs -> Presence]
  /\ registered \subseteq Artifacts
  /\ orphaned \subseteq Blobs
  /\ publishers \in [Publishers -> Publisher \cup {Idle}]
  /\ \A p \in Publishers :
       publishers[p] # Idle => publishers[p].role \in 1..Len(Members[publishers[p].artifact])

\* fsync of a directory keeps the entries it has at that moment.
Synced(state, inside) ==
  [e \in DOMAIN state |->
    IF e \in inside /\ state[e] = "fresh" THEN "durable" ELSE state[e]]
Siblings(d) == IF d = Namespace THEN {Namespace} ELSE Shards
SameShard(b) == {x \in Blobs : ShardOf[x] = ShardOf[b]}

Blob(p) == Members[publishers[p].artifact][publishers[p].role]
At(p, op) == publishers[p].op = op

\* Publisher p goes on with its artifact.
GoesOn(p, op, role, dir) ==
  [publishers EXCEPT ![p] =
    [op |-> op, artifact |-> publishers[p].artifact, role |-> role, dir |-> dir]]
Goto(p, op) == publishers' = GoesOn(p, op, publishers[p].role, publishers[p].dir)

-------------------------------------------------------------------------------
(* ArtifactStore.publish_artifact and BlobStore.publish *)

\* The bytes of the first member are in a synced temporary file.
Publish(p, a) ==
  /\ At(p, "idle")
  /\ publishers' = [publishers EXCEPT ![p] =
       [op |-> "check", artifact |-> a, role |-> 1, dir |-> Namespace]]
  /\ UNCHANGED <<dirs, entries, registered, orphaned>>

\* Mutant: what is registered is published again without a look at its file.
RepublishesRegistered(p) ==
  /\ At(p, "check")
  /\ publishers' = GoesOn(p, "look", publishers[p].role, Namespace)
  /\ UNCHANGED <<dirs, entries, registered, orphaned>>

\* check_existing: a registered blob must still be there; a retry never restores
\* it.
CheckRegistration(p) ==
  /\ At(p, "check")
  /\ publishers' =
       IF Blob(p) \in RegisteredBlobs /\ entries[Blob(p)] = "absent"
         THEN [publishers EXCEPT ![p] = Idle]
         ELSE GoesOn(p, "look", publishers[p].role, Namespace)
  /\ UNCHANGED <<dirs, entries, registered, orphaned>>

\* After a directory: the next one on the path, or the link.
Descended(p) ==
  IF publishers[p].dir = Namespace
    THEN GoesOn(p, "look", publishers[p].role, ShardOf[Blob(p)])
    ELSE GoesOn(p, "link", publishers[p].role, publishers[p].dir)

\* _mkdir: a directory that exists is left as it is.
Look(p) ==
  /\ At(p, "look")
  /\ IF dirs[publishers[p].dir] = "absent"
       THEN Goto(p, "make") ELSE publishers' = Descended(p)
  /\ UNCHANGED <<dirs, entries, registered, orphaned>>

Make(p) ==
  /\ At(p, "make")
  /\ dirs' = [dirs EXCEPT ![publishers[p].dir] = IF @ = "absent" THEN "fresh" ELSE @]
  /\ Goto(p, "sync_parent")
  /\ UNCHANGED <<entries, registered, orphaned>>

SyncParent(p) ==
  /\ At(p, "sync_parent")
  /\ dirs' = Synced(dirs, Siblings(publishers[p].dir))
  /\ publishers' = Descended(p)
  /\ UNCHANGED <<entries, registered, orphaned>>

\* Mutant: the last member is taken for published.
NextMemberEarly(p) ==
  IF publishers[p].role + 1 < Len(Members[publishers[p].artifact])
    THEN GoesOn(p, "check", publishers[p].role + 1, publishers[p].dir)
    ELSE GoesOn(p, "register", publishers[p].role, publishers[p].dir)

\* Registration comes after the last member.
NextMember(p) ==
  IF publishers[p].role < Len(Members[publishers[p].artifact])
    THEN GoesOn(p, "check", publishers[p].role + 1, publishers[p].dir)
    ELSE GoesOn(p, "register", publishers[p].role, publishers[p].dir)

\* Mutant: a file somebody else has linked needs no sync of its directory.
LinkSkippingSync(p) ==
  /\ At(p, "link")
  /\ IF entries[Blob(p)] = "absent"
       THEN /\ entries' = [entries EXCEPT ![Blob(p)] = "fresh"]
            /\ Goto(p, "sync_shard")
       ELSE /\ publishers' = NextMember(p)
            /\ UNCHANGED entries
  /\ UNCHANGED <<dirs, registered, orphaned>>

\* os.link never replaces; a file that is already there is verified.
Link(p) ==
  /\ At(p, "link")
  /\ entries' = [entries EXCEPT ![Blob(p)] = IF @ = "absent" THEN "fresh" ELSE @]
  /\ Goto(p, "sync_shard")
  /\ UNCHANGED <<dirs, registered, orphaned>>

SyncShard(p) ==
  /\ At(p, "sync_shard")
  /\ entries' = Synced(entries, SameShard(Blob(p)))
  /\ publishers' = NextMember(p)
  /\ UNCHANGED <<dirs, registered, orphaned>>

\* save_registration: all rows of the artifact in one transaction, or the ones
\* that are there already.
Register(p) ==
  /\ At(p, "register")
  /\ registered' = registered \cup {publishers[p].artifact}
  /\ publishers' = [publishers EXCEPT ![p] = Idle]
  /\ UNCHANGED <<dirs, entries, orphaned>>

\* prepare_publish: the namespace is created, and it and every shard that is
\* there are synced by the link probes.
PreparePublish ==
  /\ dirs' = [Synced(dirs, Shards) EXCEPT ![Namespace] =
       IF @ = "absent" THEN "durable" ELSE @]
  /\ entries' = Synced(entries, Blobs)
  /\ UNCHANGED <<registered, orphaned, publishers>>

\* A publisher fails or is killed between any two system calls.
Kill(p) ==
  /\ ~At(p, "idle")
  /\ publishers' = [publishers EXCEPT ![p] = Idle]
  /\ UNCHANGED <<dirs, entries, registered, orphaned>>

-------------------------------------------------------------------------------
(* Power loss *)

\* Any of the entries that were not synced are gone, and all in a directory that
\* is gone; the rest is on the disk.
LosesPower ==
  \E lost \in SUBSET {d \in Dirs : dirs[d] = "fresh"},
     unlinked \in SUBSET {b \in Blobs : entries[b] = "fresh"} :
    LET gone == IF Namespace \in lost THEN Dirs ELSE lost
        taken == {b \in Blobs : entries[b] # "absent" /\ ShardOf[b] \in gone}
    IN  /\ dirs' = [d \in Dirs |->
             IF d \in gone \/ dirs[d] = "absent" THEN "absent" ELSE "durable"]
        /\ entries' = [b \in Blobs |->
             IF b \in taken \cup unlinked \/ entries[b] = "absent"
               THEN "absent" ELSE "durable"]
        /\ orphaned' = orphaned \cup taken
  /\ publishers' = [p \in Publishers |-> Idle]
  /\ UNCHANGED registered

-------------------------------------------------------------------------------

StoreInit ==
  /\ dirs = [d \in Dirs |-> "absent"]
  /\ entries = [b \in Blobs |-> "absent"]
  /\ registered = {}
  /\ orphaned = {}
  /\ publishers = [p \in Publishers |-> Idle]

\* Everything but the power loss, which strikes all processes at once.
StoreNext ==
  \/ \E p \in Publishers :
       \/ \E a \in Artifacts : Publish(p, a)
       \/ CheckRegistration(p)
       \/ Look(p)
       \/ Make(p)
       \/ SyncParent(p)
       \/ Link(p)
       \/ SyncShard(p)
       \/ Register(p)
       \/ Kill(p)
  \/ PreparePublish

StoreSpec == StoreInit /\ [][StoreNext \/ LosesPower]_storeVars

-------------------------------------------------------------------------------
(* Properties *)

\* The file of a registered blob is synced in its shard, whichever publisher
\* linked it, verified it, was killed before its sync or registered first; only
\* the loss of the shard itself can take it away.
RegisteredIsSynced ==
  \A b \in RegisteredBlobs : entries[b] = "durable" \/ b \in orphaned

\* The doc docs/contracts/artifact-store.md has files registered only once they
\* are published and durable, and every new level of directories synced into its
\* parent.  A publisher that finds the directory another one has just made, or
\* has made before it was killed, goes on without that sync.
RegisteredSurvives == \A b \in RegisteredBlobs : entries[b] # "absent"

\* A registered blob that is missing stays missing: no publication running
\* through an earlier or a later check brings damaged history back.
MissingIsNotRebuilt ==
  [][\A b \in RegisteredBlobs : entries[b] = "absent" => entries'[b] = "absent"]_storeVars
===============================================================================
