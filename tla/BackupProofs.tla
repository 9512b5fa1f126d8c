----------------------------- MODULE BackupProofs -----------------------------
(***************************************************************************)
(* Proofs about the artifact store, and about backup batches and restores  *)
(* beside it, for any number of publishers, blobs, shards and artifacts,   *)
(* workers, batches and targets, kills and power losses.                   *)
(*                                                                         *)
(* RegisteredIsSynced is not inductive: a registration relies on what its  *)
(* publisher has done for every member before, and that no other publisher *)
(* can undo.  Good(p) states it.                                           *)
(*                                                                         *)
(* A backup takes no lock on the store.  That it finds its blobs rests on  *)
(* the invariant of the store; that what it publishes is whole, on how a   *)
(* worker builds its tree: every blob it copies is one of its snapshot,    *)
(* and nothing of a tree that is ready can be lost with the power.         *)
(***************************************************************************)
EXTENDS Backup, TLAPS

-------------------------------------------------------------------------------
(* The artifact store *)

\* Members are published in role order and kept; the member in hand is linked
\* before its shard is synced, and was not a missing registered blob when checked.
Good(p) ==
  publishers[p] # Idle =>
    /\ \A k \in 1..Len(Members[publishers[p].artifact]) :
         k < publishers[p].role \/ publishers[p].op = "register"
           => entries[Members[publishers[p].artifact][k]] = "durable"
    /\ publishers[p].op = "sync_shard" => entries[Blob(p)] # "absent"
    /\ publishers[p].op \notin {"check", "register"} /\ Blob(p) \in RegisteredBlobs
         => entries[Blob(p)] # "absent"

IInv ==
  /\ StoreTypeOK
  /\ \A p \in Publishers : Good(p)
  /\ RegisteredIsSynced

\* No system call of a publisher takes an entry away.
EntriesKept ==
  /\ \A b \in Blobs : entries[b] = "durable" => entries'[b] = "durable"
  /\ \A b \in Blobs : entries[b] # "absent" => entries'[b] # "absent"

-------------------------------------------------------------------------------
(* Facts about the state *)

\* What a busy publisher has in hand.
LEMMA BusyTypes ==
  ASSUME StoreTypeOK, NEW p \in Publishers, publishers[p] # Idle
  PROVE  /\ publishers[p] \in Publisher
         /\ publishers[p].artifact \in Artifacts
         /\ Members[publishers[p].artifact] \in Seq(Blobs)
         /\ Len(Members[publishers[p].artifact]) \in Nat
         /\ publishers[p].role \in 1..Len(Members[publishers[p].artifact])
         /\ Blob(p) \in Blobs
<1>1. /\ publishers[p] \in Publisher /\ publishers[p].artifact \in Artifacts
      /\ publishers[p].role \in 1..Len(Members[publishers[p].artifact])
    BY DEF StoreTypeOK, Publisher
<1>2. Members[publishers[p].artifact] \in Seq(Blobs)
    BY <1>1, ManifestAssumption
<1> QED
    BY <1>1, <1>2 DEF Blob

LEMMA SyncedType ==
  ASSUME NEW S, NEW state \in [S -> Presence], NEW inside
  PROVE  /\ Synced(state, inside) \in [S -> Presence]
         /\ \A e \in S : state[e] = "durable" => Synced(state, inside)[e] = "durable"
         /\ \A e \in S : state[e] # "absent" => Synced(state, inside)[e] # "absent"
         /\ \A e \in S : e \in inside /\ state[e] # "absent"
                           => Synced(state, inside)[e] = "durable"
         /\ \A e \in S : state[e] = "absent" => Synced(state, inside)[e] = "absent"
<1>1. DOMAIN state = S
    OBVIOUS
<1>2. Synced(state, inside) =
        [e \in S |-> IF e \in inside /\ state[e] = "fresh" THEN "durable" ELSE state[e]]
    BY <1>1 DEF Synced
<1> QED
    BY <1>2 DEF Presence

LEMMA RegisteredAreBlobs ==
  ASSUME StoreTypeOK
  PROVE  RegisteredBlobs \subseteq Blobs
<1> SUFFICES ASSUME NEW a \in registered, NEW k \in 1..Len(Members[a])
             PROVE  Members[a][k] \in Blobs
    BY DEF RegisteredBlobs, BlobsIn, BlobsOf
<1>1. a \in Artifacts /\ Members[a] \in Seq(Blobs)
    BY ManifestAssumption DEF StoreTypeOK
<1> QED
    BY <1>1

\* A step of publisher p that keeps entries and registrations only has to leave p
\* itself in order.
LEMMA OnePublisherMoves ==
  ASSUME IInv, NEW p \in Publishers, StoreTypeOK', EntriesKept,
         UNCHANGED <<registered, orphaned>>,
         \A q \in Publishers : q # p => publishers'[q] = publishers[q],
         Good(p)'
  PROVE  IInv'
<1>1. RegisteredBlobs' = RegisteredBlobs /\ RegisteredBlobs \subseteq Blobs
    BY RegisteredAreBlobs DEF IInv, RegisteredBlobs
<1>2. RegisteredIsSynced'
    BY <1>1 DEF IInv, RegisteredIsSynced, EntriesKept
<1>3. ASSUME NEW q \in Publishers, q # p
      PROVE  Good(q)'
  <2> SUFFICES ASSUME publishers[q] # Idle
               PROVE  Good(q)'
      BY <1>3 DEF Good
  <2>1. /\ Blob(q)' = Blob(q) /\ Blob(q) \in Blobs
        /\ Members[publishers[q].artifact] \in Seq(Blobs)
      BY <1>3, BusyTypes DEF IInv, Blob
  <2>2. Good(q)
      BY DEF IInv
  <2>3. \A k \in 1..Len(Members[publishers[q].artifact]) :
          Members[publishers[q].artifact][k] \in Blobs
      BY <2>1
  <2> QED
      BY <1>1, <1>3, <2>1, <2>2, <2>3 DEF Good, EntriesKept
<1> QED
    BY <1>2, <1>3 DEF IInv

-------------------------------------------------------------------------------
(* The steps *)

LEMMA PublishPreserves ==
  ASSUME IInv, NEW p \in Publishers, NEW a \in Artifacts, Publish(p, a)
  PROVE  IInv'
<1> DEFINE new == [op |-> "check", artifact |-> a, role |-> 1, dir |-> Namespace]
<1>1. /\ publishers' = [publishers EXCEPT ![p] = new]
      /\ UNCHANGED <<dirs, entries, registered, orphaned>>
      /\ publishers \in [Publishers -> Publisher \cup {Idle}]
    BY DEF Publish, IInv, StoreTypeOK
<1>2. Members[a] \in Seq(Blobs) /\ Len(Members[a]) \in Nat /\ 1 \in 1..Len(Members[a])
    BY ManifestAssumption
<1>3. new \in Publisher
    BY DEF Publisher, Dirs
<1>4. publishers'[p] = new /\ \A q \in Publishers : q # p => publishers'[q] = publishers[q]
    BY <1>1
<1>5. StoreTypeOK'
    BY <1>1, <1>2, <1>3, <1>4 DEF IInv, StoreTypeOK
<1>6. Good(p)'
    BY <1>2, <1>4 DEF Good
<1> QED
    BY <1>1, <1>4, <1>5, <1>6, OnePublisherMoves DEF EntriesKept

\* A publisher that gives up, or whose check fails, leaves everything in order.
LEMMA StoppingPreserves ==
  ASSUME IInv, NEW p \in Publishers, publishers' = [publishers EXCEPT ![p] = Idle],
         UNCHANGED <<dirs, entries, registered, orphaned>>
  PROVE  IInv'
<1>1. publishers \in [Publishers -> Publisher \cup {Idle}]
    BY DEF IInv, StoreTypeOK
<1>2. publishers'[p] = Idle /\ \A q \in Publishers : q # p => publishers'[q] = publishers[q]
    BY <1>1
<1>3. StoreTypeOK'
    BY <1>1, <1>2 DEF IInv, StoreTypeOK
<1>4. Good(p)'
    BY <1>2 DEF Good
<1> QED
    BY <1>2, <1>3, <1>4, OnePublisherMoves DEF EntriesKept

\* A busy publisher that goes on with the same member keeps its record but for
\* what it does next.
LEMMA SameMemberPreserves ==
  ASSUME IInv, NEW p \in Publishers, publishers[p] # Idle,
         NEW new \in Publisher,
         new.artifact = publishers[p].artifact, new.role = publishers[p].role,
         new.op \notin {"check", "register"}, publishers[p].op # "register",
         publishers' = [publishers EXCEPT ![p] = new],
         dirs' \in [Dirs -> Presence], entries' \in [Blobs -> Presence], EntriesKept,
         UNCHANGED <<registered, orphaned>>,
         new.op = "sync_shard" => entries'[Blob(p)] # "absent",
         Blob(p) \in RegisteredBlobs => entries[Blob(p)] # "absent"
  PROVE  IInv'
<1>1. /\ publishers \in [Publishers -> Publisher \cup {Idle}]
      /\ publishers[p] \in Publisher /\ Blob(p) \in Blobs
      /\ Members[publishers[p].artifact] \in Seq(Blobs)
      /\ publishers[p].role \in 1..Len(Members[publishers[p].artifact])
    BY BusyTypes DEF IInv, StoreTypeOK
<1>2. publishers'[p] = new /\ \A q \in Publishers : q # p => publishers'[q] = publishers[q]
    BY <1>1
<1>3. StoreTypeOK'
    BY <1>1, <1>2 DEF IInv, StoreTypeOK
<1>4. RegisteredBlobs' = RegisteredBlobs /\ Blob(p)' = Blob(p)
    BY <1>2 DEF RegisteredBlobs, Blob
<1>5. \A k \in 1..Len(Members[publishers[p].artifact]) :
        k < publishers[p].role => entries'[Members[publishers[p].artifact][k]] = "durable"
    BY <1>1 DEF IInv, Good, EntriesKept
<1>6. Good(p)'
    BY <1>1, <1>2, <1>4, <1>5 DEF Good, EntriesKept
<1> QED
    BY <1>2, <1>3, <1>6, OnePublisherMoves

\* The directory the publisher looks at next, or the link.
LEMMA DescendedShape ==
  ASSUME StoreTypeOK, NEW p \in Publishers, publishers[p] # Idle
  PROVE  \E new \in Publisher :
           /\ Descended(p) = [publishers EXCEPT ![p] = new]
           /\ new.artifact = publishers[p].artifact /\ new.role = publishers[p].role
           /\ new.op \in {"look", "link"}
<1>1. publishers \in [Publishers -> Publisher \cup {Idle}] /\ publishers[p] \in Publisher
      /\ Blob(p) \in Blobs
    BY BusyTypes DEF StoreTypeOK
<1>2. CASE publishers[p].dir = Namespace
  <2> DEFINE new == [op |-> "look", artifact |-> publishers[p].artifact,
                     role |-> publishers[p].role, dir |-> ShardOf[Blob(p)]]
  <2>1. ShardOf[Blob(p)] \in Dirs
      BY <1>1, LayoutAssumption DEF Dirs
  <2>2. new \in Publisher
      BY <1>1, <2>1 DEF Publisher
  <2>3. Descended(p) = [publishers EXCEPT ![p] = new]
      BY <1>1, <1>2 DEF Descended, GoesOn
  <2> QED
      BY <2>2, <2>3
<1>3. CASE publishers[p].dir # Namespace
  <2> DEFINE new == [op |-> "link", artifact |-> publishers[p].artifact,
                     role |-> publishers[p].role, dir |-> publishers[p].dir]
  <2>1. new \in Publisher
      BY <1>1 DEF Publisher
  <2>2. Descended(p) = [publishers EXCEPT ![p] = new]
      BY <1>1, <1>3 DEF Descended, GoesOn
  <2> QED
      BY <2>1, <2>2
<1> QED
    BY <1>2, <1>3

\* The same for a change of the next step alone.
LEMMA GotoShape ==
  ASSUME StoreTypeOK, NEW p \in Publishers, publishers[p] # Idle,
         NEW op \in {"make", "sync_parent", "sync_shard"}, Goto(p, op)
  PROVE  \E new \in Publisher :
           /\ publishers' = [publishers EXCEPT ![p] = new]
           /\ new.artifact = publishers[p].artifact /\ new.role = publishers[p].role
           /\ new.op = op
<1> DEFINE new == [op |-> op, artifact |-> publishers[p].artifact,
                   role |-> publishers[p].role, dir |-> publishers[p].dir]
<1>1. publishers \in [Publishers -> Publisher \cup {Idle}] /\ publishers[p] \in Publisher
    BY BusyTypes DEF StoreTypeOK
<1>2. new \in Publisher
    BY <1>1 DEF Publisher
<1>3. publishers' = [publishers EXCEPT ![p] = new]
    BY <1>1 DEF Goto, GoesOn
<1> QED
    BY <1>2, <1>3

LEMMA CheckPreserves ==
  ASSUME IInv, NEW p \in Publishers, CheckRegistration(p)
  PROVE  IInv'
<1>1. publishers[p] # Idle /\ publishers[p].op = "check" /\ StoreTypeOK
    BY DEF CheckRegistration, At, Idle, IInv
<1>2. CASE Blob(p) \in RegisteredBlobs /\ entries[Blob(p)] = "absent"
    BY <1>2, StoppingPreserves DEF CheckRegistration
<1>3. CASE ~(Blob(p) \in RegisteredBlobs /\ entries[Blob(p)] = "absent")
  <2> DEFINE new == [op |-> "look", artifact |-> publishers[p].artifact,
                     role |-> publishers[p].role, dir |-> Namespace]
  <2>1. publishers \in [Publishers -> Publisher \cup {Idle}] /\ publishers[p] \in Publisher
      BY <1>1, BusyTypes DEF StoreTypeOK
  <2>2. new \in Publisher
      BY <2>1 DEF Publisher, Dirs
  <2>3. publishers' = [publishers EXCEPT ![p] = new]
      BY <1>3, <2>1 DEF CheckRegistration, GoesOn
  <2>4. UNCHANGED <<dirs, entries, registered, orphaned>>
      BY DEF CheckRegistration
  <2>5. EntriesKept /\ dirs' \in [Dirs -> Presence] /\ entries' \in [Blobs -> Presence]
      BY <1>1, <2>4 DEF EntriesKept, StoreTypeOK
  <2> QED
      BY <1>1, <1>3, <2>2, <2>3, <2>4, <2>5, SameMemberPreserves
<1> QED
    BY <1>2, <1>3

LEMMA LookPreserves ==
  ASSUME IInv, NEW p \in Publishers, Look(p)
  PROVE  IInv'
<1>1. publishers[p] # Idle /\ publishers[p].op = "look" /\ StoreTypeOK
      /\ UNCHANGED <<dirs, entries, registered, orphaned>>
    BY DEF Look, At, Idle, IInv
<1>2. Blob(p) \in RegisteredBlobs => entries[Blob(p)] # "absent"
    BY <1>1 DEF IInv, Good
<1>3. PICK new \in Publisher :
        /\ publishers' = [publishers EXCEPT ![p] = new]
        /\ new.artifact = publishers[p].artifact /\ new.role = publishers[p].role
        /\ new.op \in {"look", "link", "make"}
  <2>1. CASE dirs[publishers[p].dir] = "absent"
      BY <1>1, <2>1, GotoShape DEF Look
  <2>2. CASE dirs[publishers[p].dir] # "absent"
      BY <1>1, <2>2, DescendedShape DEF Look
  <2> QED
      BY <2>1, <2>2
<1>4. EntriesKept /\ dirs' \in [Dirs -> Presence] /\ entries' \in [Blobs -> Presence]
    BY <1>1 DEF EntriesKept, StoreTypeOK
<1> QED
    BY <1>1, <1>2, <1>3, <1>4, SameMemberPreserves

LEMMA MakePreserves ==
  ASSUME IInv, NEW p \in Publishers, Make(p)
  PROVE  IInv'
<1>1. publishers[p] # Idle /\ publishers[p].op = "make" /\ StoreTypeOK
      /\ Goto(p, "sync_parent") /\ UNCHANGED <<entries, registered, orphaned>>
    BY DEF Make, At, Idle, IInv
<1>2. Blob(p) \in RegisteredBlobs => entries[Blob(p)] # "absent"
    BY <1>1 DEF IInv, Good
<1>3. PICK new \in Publisher :
        /\ publishers' = [publishers EXCEPT ![p] = new]
        /\ new.artifact = publishers[p].artifact /\ new.role = publishers[p].role
        /\ new.op = "sync_parent"
    BY <1>1, GotoShape
<1>4. EntriesKept /\ entries' \in [Blobs -> Presence]
    BY <1>1 DEF EntriesKept, StoreTypeOK
<1>5. dirs' \in [Dirs -> Presence]
    BY <1>1 DEF Make, StoreTypeOK, Presence
<1> QED
    BY <1>1, <1>2, <1>3, <1>4, <1>5, SameMemberPreserves

LEMMA SyncParentPreserves ==
  ASSUME IInv, NEW p \in Publishers, SyncParent(p)
  PROVE  IInv'
<1>1. publishers[p] # Idle /\ publishers[p].op = "sync_parent" /\ StoreTypeOK
      /\ UNCHANGED <<entries, registered, orphaned>>
    BY DEF SyncParent, At, Idle, IInv
<1>2. Blob(p) \in RegisteredBlobs => entries[Blob(p)] # "absent"
    BY <1>1 DEF IInv, Good
<1>3. PICK new \in Publisher :
        /\ publishers' = [publishers EXCEPT ![p] = new]
        /\ new.artifact = publishers[p].artifact /\ new.role = publishers[p].role
        /\ new.op \in {"look", "link"}
    BY <1>1, DescendedShape DEF SyncParent
<1>4. EntriesKept /\ entries' \in [Blobs -> Presence]
    BY <1>1 DEF EntriesKept, StoreTypeOK
<1>5. dirs' \in [Dirs -> Presence]
    BY <1>1, SyncedType DEF SyncParent, StoreTypeOK
<1> QED
    BY <1>1, <1>2, <1>3, <1>4, <1>5, SameMemberPreserves

LEMMA LinkPreserves ==
  ASSUME IInv, NEW p \in Publishers, Link(p)
  PROVE  IInv'
<1>1. publishers[p] # Idle /\ publishers[p].op = "link" /\ StoreTypeOK
      /\ Goto(p, "sync_shard") /\ UNCHANGED <<dirs, registered, orphaned>>
    BY DEF Link, At, Idle, IInv
<1>2. Blob(p) \in RegisteredBlobs => entries[Blob(p)] # "absent"
    BY <1>1 DEF IInv, Good
<1>3. PICK new \in Publisher :
        /\ publishers' = [publishers EXCEPT ![p] = new]
        /\ new.artifact = publishers[p].artifact /\ new.role = publishers[p].role
        /\ new.op = "sync_shard"
    BY <1>1, GotoShape
<1>4. Blob(p) \in Blobs
    BY <1>1, BusyTypes
<1>5. EntriesKept /\ entries' \in [Blobs -> Presence] /\ entries'[Blob(p)] # "absent"
    BY <1>1, <1>4 DEF Link, EntriesKept, StoreTypeOK, Presence
<1>6. dirs' \in [Dirs -> Presence]
    BY <1>1 DEF StoreTypeOK
<1> QED
    BY <1>1, <1>2, <1>3, <1>5, <1>6, SameMemberPreserves

\* After the sync of its shard the member in hand is durable, so every member up
\* to and including it is.
LEMMA SyncShardPreserves ==
  ASSUME IInv, NEW p \in Publishers, SyncShard(p)
  PROVE  IInv'
<1> DEFINE a == publishers[p].artifact
           r == publishers[p].role
<1>1. publishers[p] # Idle /\ publishers[p].op = "sync_shard" /\ StoreTypeOK
      /\ UNCHANGED <<dirs, registered, orphaned>>
    BY DEF SyncShard, At, Idle, IInv
<1>2. /\ publishers \in [Publishers -> Publisher \cup {Idle}]
      /\ publishers[p] \in Publisher /\ Blob(p) \in Blobs
      /\ Members[a] \in Seq(Blobs) /\ Len(Members[a]) \in Nat /\ r \in 1..Len(Members[a])
    BY <1>1, BusyTypes DEF StoreTypeOK
<1>3. /\ EntriesKept /\ entries' \in [Blobs -> Presence]
      /\ entries'[Blob(p)] = "durable"
  <2>1. entries[Blob(p)] # "absent" /\ Blob(p) \in SameShard(Blob(p))
      BY <1>1, <1>2 DEF IInv, Good, SameShard
  <2> QED
      BY <1>1, <1>2, <2>1, SyncedType DEF SyncShard, EntriesKept, StoreTypeOK
<1>4. \A k \in 1..Len(Members[a]) : k <= r => entries'[Members[a][k]] = "durable"
  <2>1. \A k \in 1..Len(Members[a]) : k < r => entries'[Members[a][k]] = "durable"
      BY <1>1, <1>2, <1>3 DEF IInv, Good, EntriesKept
  <2>2. entries'[Members[a][r]] = "durable"
      BY <1>3 DEF Blob
  <2> QED
      BY <1>2, <2>1, <2>2
<1>5. PICK new \in Publisher :
        /\ publishers' = [publishers EXCEPT ![p] = new]
        /\ new.artifact = a
        /\ \/ new.op = "check" /\ new.role = r + 1 /\ r < Len(Members[a])
           \/ new.op = "register" /\ new.role = r /\ r >= Len(Members[a])
  <2>1. CASE r < Len(Members[a])
    <3> DEFINE new == [op |-> "check", artifact |-> a, role |-> r + 1,
                       dir |-> publishers[p].dir]
    <3>1. new \in Publisher
        BY <1>2 DEF Publisher
    <3>2. publishers' = [publishers EXCEPT ![p] = new]
        BY <1>2, <2>1 DEF SyncShard, NextMember, GoesOn
    <3> QED
        BY <2>1, <3>1, <3>2
  <2>2. CASE ~(r < Len(Members[a]))
    <3> DEFINE new == [op |-> "register", artifact |-> a, role |-> r,
                       dir |-> publishers[p].dir]
    <3>1. new \in Publisher
        BY <1>2 DEF Publisher
    <3>2. publishers' = [publishers EXCEPT ![p] = new]
        BY <1>2, <2>2 DEF SyncShard, NextMember, GoesOn
    <3>3. r >= Len(Members[a])
        BY <1>2, <2>2
    <3> QED
        BY <3>1, <3>2, <3>3
  <2> QED
      BY <2>1, <2>2
<1>6. publishers'[p] = new /\ \A q \in Publishers : q # p => publishers'[q] = publishers[q]
    BY <1>2, <1>5
<1>7. StoreTypeOK'
    BY <1>1, <1>2, <1>3, <1>5, <1>6 DEF StoreTypeOK
<1>8. Good(p)'
    BY <1>2, <1>4, <1>5, <1>6 DEF Good
<1> QED
    BY <1>1, <1>3, <1>6, <1>7, <1>8, OnePublisherMoves

\* Every member of the artifact is durable when it is registered.
LEMMA RegisterPreserves ==
  ASSUME IInv, NEW p \in Publishers, Register(p)
  PROVE  IInv'
<1> DEFINE a == publishers[p].artifact
<1>1. publishers[p] # Idle /\ publishers[p].op = "register" /\ StoreTypeOK
      /\ UNCHANGED <<dirs, entries, orphaned>>
      /\ registered' = registered \cup {a}
      /\ publishers' = [publishers EXCEPT ![p] = Idle]
    BY DEF Register, At, Idle, IInv
<1>2. publishers \in [Publishers -> Publisher \cup {Idle}] /\ a \in Artifacts
    BY <1>1, BusyTypes DEF StoreTypeOK
<1>3. publishers'[p] = Idle /\ \A q \in Publishers : q # p => publishers'[q] = publishers[q]
    BY <1>1, <1>2
<1>4. StoreTypeOK'
    BY <1>1, <1>2, <1>3 DEF StoreTypeOK
<1>5. \A b \in BlobsOf(a) : entries[b] = "durable"
    BY <1>1 DEF IInv, Good, BlobsOf
<1>6. RegisteredBlobs' = RegisteredBlobs \cup BlobsOf(a)
    BY <1>1 DEF RegisteredBlobs, BlobsIn
<1>7. RegisteredIsSynced'
    BY <1>1, <1>5, <1>6 DEF IInv, RegisteredIsSynced
<1>8. ASSUME NEW q \in Publishers
      PROVE  Good(q)'
  <2>1. CASE q = p
      BY <1>3, <2>1 DEF Good
  <2>2. CASE q # p
    <3>1. publishers'[q] = publishers[q] /\ Blob(q)' = Blob(q) /\ Good(q)
        BY <1>3, <2>2 DEF Blob, IInv
    <3>2. Blob(q) \in BlobsOf(a) => entries[Blob(q)] # "absent"
        BY <1>5
    <3> QED
        BY <1>1, <1>6, <3>1, <3>2 DEF Good
  <2> QED
      BY <2>1, <2>2
<1> QED
    BY <1>4, <1>7, <1>8 DEF IInv

LEMMA PreparePreserves ==
  ASSUME IInv, PreparePublish
  PROVE  IInv'
<1>1. StoreTypeOK /\ UNCHANGED <<registered, orphaned, publishers>>
    BY DEF PreparePublish, IInv
<1>2. EntriesKept /\ entries' \in [Blobs -> Presence]
    BY <1>1, SyncedType DEF PreparePublish, EntriesKept, StoreTypeOK
<1>3. dirs' \in [Dirs -> Presence]
  <2>1. Synced(dirs, Shards) \in [Dirs -> Presence]
      BY <1>1, SyncedType DEF StoreTypeOK
  <2> QED
      BY <2>1 DEF PreparePublish, Presence
<1>4. StoreTypeOK'
    BY <1>1, <1>2, <1>3 DEF StoreTypeOK
<1>5. CASE Publishers = {}
  <2>1. RegisteredBlobs' = RegisteredBlobs /\ RegisteredBlobs \subseteq Blobs
      BY <1>1, RegisteredAreBlobs DEF RegisteredBlobs
  <2> QED
      BY <1>1, <1>2, <1>4, <1>5, <2>1 DEF IInv, RegisteredIsSynced, EntriesKept
<1>6. ASSUME NEW p \in Publishers
      PROVE  IInv'
  <2>1. Good(p)'
    <3> SUFFICES ASSUME publishers[p] # Idle
                 PROVE  Good(p)'
        BY <1>1 DEF Good
    <3>1. /\ Blob(p)' = Blob(p) /\ Blob(p) \in Blobs /\ Good(p)
          /\ RegisteredBlobs' = RegisteredBlobs
          /\ Members[publishers[p].artifact] \in Seq(Blobs)
        BY <1>1, BusyTypes DEF IInv, Blob, RegisteredBlobs
    <3>2. \A k \in 1..Len(Members[publishers[p].artifact]) :
            Members[publishers[p].artifact][k] \in Blobs
        BY <3>1
    <3> QED
        BY <1>1, <1>2, <3>1, <3>2 DEF Good, EntriesKept
  <2> QED
      BY <1>1, <1>2, <1>4, <2>1, OnePublisherMoves
<1> QED
    BY <1>5, <1>6

\* What a power loss takes from a registered blob it takes with its directory.
LEMMA PowerLossPreserves ==
  ASSUME IInv, LosesPower
  PROVE  IInv'
<1>1. StoreTypeOK /\ registered' = registered /\ publishers' = [p \in Publishers |-> Idle]
    BY DEF LosesPower, IInv
<1>2. PICK lost \in SUBSET {d \in Dirs : dirs[d] = "fresh"},
           unlinked \in SUBSET {b \in Blobs : entries[b] = "fresh"},
           gone \in SUBSET Dirs, taken \in SUBSET Blobs :
        /\ dirs' = [d \in Dirs |->
             IF d \in gone \/ dirs[d] = "absent" THEN "absent" ELSE "durable"]
        /\ entries' = [b \in Blobs |->
             IF b \in taken \cup unlinked \/ entries[b] = "absent"
               THEN "absent" ELSE "durable"]
        /\ orphaned' = orphaned \cup taken
  <2>1. PICK lost \in SUBSET {d \in Dirs : dirs[d] = "fresh"},
             unlinked \in SUBSET {b \in Blobs : entries[b] = "fresh"} :
          LET gone == IF Namespace \in lost THEN Dirs ELSE lost
              taken == {b \in Blobs : entries[b] # "absent" /\ ShardOf[b] \in gone}
          IN  /\ dirs' = [d \in Dirs |->
                   IF d \in gone \/ dirs[d] = "absent" THEN "absent" ELSE "durable"]
              /\ entries' = [b \in Blobs |->
                   IF b \in taken \cup unlinked \/ entries[b] = "absent"
                     THEN "absent" ELSE "durable"]
              /\ orphaned' = orphaned \cup taken
      BY DEF LosesPower
  <2> DEFINE gone == IF Namespace \in lost THEN Dirs ELSE lost
             taken == {b \in Blobs : entries[b] # "absent" /\ ShardOf[b] \in gone}
  <2>2. gone \in SUBSET Dirs /\ taken \in SUBSET Blobs
      OBVIOUS
  <2> QED
      BY <2>1, <2>2
<1>3. StoreTypeOK'
  <2>1. dirs' \in [Dirs -> Presence] /\ entries' \in [Blobs -> Presence]
      BY <1>2 DEF Presence
  <2>2. orphaned' \subseteq Blobs
      BY <1>1, <1>2 DEF StoreTypeOK
  <2> QED
      BY <1>1, <2>1, <2>2 DEF StoreTypeOK
<1>4. RegisteredIsSynced'
  <2>1. RegisteredBlobs' = RegisteredBlobs /\ RegisteredBlobs \subseteq Blobs
      BY <1>1, RegisteredAreBlobs DEF RegisteredBlobs
  <2> SUFFICES ASSUME NEW b \in RegisteredBlobs
               PROVE  entries'[b] = "durable" \/ b \in orphaned'
      BY <2>1 DEF RegisteredIsSynced
  <2>2. entries[b] = "durable" \/ b \in orphaned
      BY DEF IInv, RegisteredIsSynced
  <2> QED
      BY <1>2, <2>1, <2>2
<1>5. \A p \in Publishers : Good(p)'
    BY <1>1 DEF Good
<1> QED
    BY <1>3, <1>4, <1>5 DEF IInv

-------------------------------------------------------------------------------
(* The theorems *)

LEMMA InitInvariant == StoreInit => IInv
<1> SUFFICES ASSUME StoreInit
             PROVE  IInv
    OBVIOUS
<1>1. StoreTypeOK
    BY DEF StoreInit, StoreTypeOK, Presence
<1>2. \A p \in Publishers : Good(p)
    BY DEF StoreInit, Good
<1>3. RegisteredIsSynced
    BY DEF StoreInit, RegisteredIsSynced, RegisteredBlobs, BlobsIn
<1> QED
    BY <1>1, <1>2, <1>3 DEF IInv

LEMMA NextInvariant == IInv /\ [StoreNext \/ LosesPower]_storeVars => IInv'
<1> SUFFICES ASSUME IInv, [StoreNext \/ LosesPower]_storeVars
             PROVE  IInv'
    OBVIOUS
<1>1. ASSUME NEW p \in Publishers, Kill(p)
      PROVE  IInv'
    BY <1>1, StoppingPreserves DEF Kill
<1>2. CASE StoreNext
    BY <1>1, <1>2, PublishPreserves, CheckPreserves, LookPreserves, MakePreserves,
       SyncParentPreserves, LinkPreserves, SyncShardPreserves, RegisterPreserves,
       PreparePreserves DEF StoreNext
<1>3. CASE LosesPower
    BY <1>3, PowerLossPreserves
<1>4. CASE UNCHANGED storeVars
    BY <1>4 DEF storeVars, IInv, StoreTypeOK, Good, Blob, RegisteredIsSynced,
       RegisteredBlobs
<1> QED
    BY <1>2, <1>3, <1>4

\* The inductive invariant of the artifact store.
THEOREM Invariant == StoreSpec => []IInv
<1> QED
    BY InitInvariant, NextInvariant, PTL DEF StoreSpec

\* A registered blob stays synced in its shard until the shard itself is lost, for
\* any number of publishers killed at any point.
THEOREM SyncedForGood == StoreSpec => []RegisteredIsSynced
<1>1. IInv => RegisteredIsSynced
    BY DEF IInv
<1> QED
    BY <1>1, Invariant, PTL

\* A missing registered blob stays missing in every step that IInv allows.
LEMMA StepRebuildsNothing ==
  ASSUME IInv, [StoreNext \/ LosesPower]_storeVars,
         NEW b \in RegisteredBlobs, entries[b] = "absent"
  PROVE  entries'[b] = "absent"
<1>1. StoreTypeOK /\ b \in Blobs
    BY RegisteredAreBlobs DEF IInv
<1>2. CASE UNCHANGED entries
    BY <1>2
<1>3. ASSUME NEW p \in Publishers, Link(p)
      PROVE  entries'[b] = "absent"
  <2>1. publishers[p] # Idle /\ publishers[p].op = "link"
      BY <1>3 DEF Link, At, Idle
  <2>2. Blob(p) # b
      BY <2>1 DEF IInv, Good
  <2> QED
      BY <1>1, <1>3, <2>2 DEF Link, StoreTypeOK
<1>4. ASSUME NEW p \in Publishers, SyncShard(p)
      PROVE  entries'[b] = "absent"
    BY <1>1, <1>4, SyncedType DEF SyncShard, StoreTypeOK
<1>5. CASE PreparePublish
    BY <1>1, <1>5, SyncedType DEF PreparePublish, StoreTypeOK
<1>6. CASE LosesPower
    BY <1>1, <1>6 DEF LosesPower
<1>7. CASE StoreNext
    BY <1>2, <1>3, <1>4, <1>5, <1>7 DEF StoreNext, Publish, CheckRegistration, Look,
       Make, SyncParent, Register, Kill
<1> QED
    BY <1>2, <1>6, <1>7 DEF storeVars

\* A registered blob that is missing stays missing, whatever is published later.
THEOREM NothingRebuilt == StoreSpec => MissingIsNotRebuilt
<1>1. IInv /\ [StoreNext \/ LosesPower]_storeVars =>
        [\A b \in RegisteredBlobs : entries[b] = "absent" => entries'[b] = "absent"]_storeVars
    BY StepRebuildsNothing
<1> QED
    BY <1>1, Invariant, PTL DEF StoreSpec, MissingIsNotRebuilt

-------------------------------------------------------------------------------
(* Backups: the inductive invariant *)

\* Whole, with nothing left that a power loss could take.
Finished(tree) == Whole(tree) /\ \A i \in Items : tree.files[i] # "fresh"

\* A backup in the making names registered artifacts, has its database, no manifest
\* yet, and of the blobs only such as its snapshot names, each of them synced.
Begun(tree) ==
  /\ tree.artifacts \subseteq registered
  /\ tree.files[Manifest] = "absent" /\ tree.files[Database] # "absent"
  /\ \A b \in Blobs : tree.files[b] # "absent" =>
       b \in BlobsIn(tree.artifacts) /\ tree.files[b] = "durable"

Sound(worker) ==
  /\ worker.op = "snapshot" => worker.tree = NewTree
  /\ worker.op = "copy" /\ worker.source = NoPlace => Begun(worker.tree)
  /\ worker.op = "ready" => Finished(worker.tree)

WorkersSound == \A w \in Workers : Sound(workers[w])

PlacesSound == \A d \in Places : places[d].kind = "tree" => Finished(places[d])

BackupTypeOK ==
  /\ places \in [Places -> {Absent, Empty, Foreign} \cup Tree]
  /\ unsynced \subseteq Places
  /\ workers \in [Workers -> Worker \cup {IdleWorker}]

BInv ==
  /\ IInv
  /\ BackupTypeOK
  /\ WorkersSound
  /\ PlacesSound

-------------------------------------------------------------------------------
(* Facts about trees and workers *)

LEMMA NewTreeType == NewTree \in Tree /\ NewTree.artifacts = {}
                     /\ \A i \in Items : NewTree.files[i] = "absent"
BY DEF NewTree, TreeOf, Tree, Presence

LEMMA IdleIsSound == Sound(IdleWorker)
BY DEF Sound, IdleWorker

\* The fields of a busy worker.
LEMMA BusyWorker ==
  ASSUME BackupTypeOK, NEW w \in Workers, workers[w] # IdleWorker
  PROVE  /\ workers[w] \in Worker
         /\ workers[w].dest \in Places
         /\ workers[w].source \in Batches \cup {NoPlace}
         /\ workers[w].tree \in Tree
         /\ workers[w].tree.artifacts \subseteq Artifacts
         /\ workers[w].tree.files \in [Items -> Presence]
         /\ workers[w] = [op |-> workers[w].op, dest |-> workers[w].dest,
                          source |-> workers[w].source, tree |-> workers[w].tree]
         /\ workers[w].tree = [kind |-> "tree", artifacts |-> workers[w].tree.artifacts,
                               files |-> workers[w].tree.files]
<1>1. workers[w] \in Worker
    BY DEF BackupTypeOK
<1>2. workers[w].tree \in Tree
    BY <1>1 DEF Worker
<1> QED
    BY <1>1, <1>2 DEF Worker, Tree

\* A step of worker w beside the store that changes no place.
LEMMA OneWorkerMoves ==
  ASSUME BInv, NEW w \in Workers, NEW new \in Worker \cup {IdleWorker},
         workers' = [workers EXCEPT ![w] = new], Sound(new),
         places' \in [Places -> {Absent, Empty, Foreign} \cup Tree], PlacesSound',
         unsynced' \subseteq Places, UNCHANGED storeVars
  PROVE  BInv'
<1>1. IInv'
    BY NextInvariant DEF BInv
<1>2. registered' = registered
    BY DEF storeVars
<1>3. \A tree : Begun(tree)' <=> Begun(tree)
    BY <1>2 DEF Begun
<1>4. \A v : Sound(v)' <=> Sound(v)
    BY <1>3 DEF Sound
<1> QED
    BY <1>1, <1>4 DEF BInv, BackupTypeOK, WorkersSound

-------------------------------------------------------------------------------
(* create_backup *)

\* Steps that leave every place as it is.
LEMMA PlacesStay ==
  ASSUME BInv, UNCHANGED <<places, unsynced>>
  PROVE  /\ places' \in [Places -> {Absent, Empty, Foreign} \cup Tree]
         /\ unsynced' \subseteq Places
         /\ PlacesSound'
BY DEF BInv, BackupTypeOK, PlacesSound

LEMMA CreateBackupPreserves ==
  ASSUME BInv, NEW w \in Workers, NEW d \in Batches, CreateBackup(w, d), UNCHANGED storeVars
  PROVE  BInv'
<1> DEFINE new == [op |-> "snapshot", dest |-> d, source |-> NoPlace, tree |-> NewTree]
<1>1. new \in Worker
    BY NewTreeType DEF Worker, Places
<1>2. Sound(new)
    BY DEF Sound
<1>3. workers' = [workers EXCEPT ![w] = new] /\ UNCHANGED <<places, unsynced>>
    BY DEF CreateBackup
<1> HIDE DEF new
<1> QED
    BY <1>1, <1>2, <1>3, PlacesStay, OneWorkerMoves

\* The snapshot names what is registered; nothing but the database is there yet.
LEMMA SnapshotPreserves ==
  ASSUME BInv, NEW w \in Workers, Snapshot(w), UNCHANGED storeVars
  PROVE  BInv'
<1> DEFINE old == workers[w]
           tree == [kind |-> "tree", artifacts |-> registered,
                    files |-> [NewTree.files EXCEPT ![Database] = "fresh"]]
           new == [op |-> "copy", dest |-> old.dest, source |-> old.source, tree |-> tree]
<1>1. old # IdleWorker
    BY DEF Snapshot, IdleWorker
<1>2. old \in Worker /\ old.tree = NewTree
    BY <1>1, BusyWorker DEF Snapshot, BInv, WorkersSound, Sound
<1>3. /\ old = [op |-> old.op, dest |-> old.dest, source |-> old.source, tree |-> NewTree]
      /\ old.dest \in Places /\ old.source \in Batches \cup {NoPlace}
    BY <1>1, <1>2, BusyWorker DEF BInv
<1>4. workers' = [workers EXCEPT ![w] = new]
    BY <1>2 DEF Snapshot, WorksOn, TreeOf
<1>5. tree \in Tree
    BY NewTreeType, FileAssumption DEF Tree, Items, Presence, BInv, IInv, StoreTypeOK, NewTree, TreeOf
<1>6. new \in Worker
    BY <1>3, <1>5 DEF Worker
<1>7. Begun(tree)
  <2>1. /\ tree.artifacts = registered /\ tree.files[Database] = "fresh"
        /\ tree.files[Manifest] = "absent"
        /\ \A b \in Blobs : tree.files[b] = "absent"
      BY FileAssumption DEF NewTree, TreeOf, Items
  <2> QED
      BY <2>1 DEF Begun
<1>8. Sound(new)
    BY <1>7 DEF Sound
<1>9. UNCHANGED <<places, unsynced>>
    BY DEF Snapshot
<1> HIDE DEF new
<1> QED
    BY <1>4, <1>6, <1>8, <1>9, PlacesStay, OneWorkerMoves

LEMMA CopyBlobPreserves ==
  ASSUME BInv, NEW w \in Workers, NEW b \in Blobs, CopyBlob(w, b), UNCHANGED storeVars
  PROVE  BInv'
<1> DEFINE old == workers[w]
           tree == [kind |-> "tree", artifacts |-> old.tree.artifacts,
                    files |-> [old.tree.files EXCEPT ![b] = "durable"]]
           new == [op |-> "copy", dest |-> old.dest, source |-> NoPlace, tree |-> tree]
<1>1. /\ old # IdleWorker /\ old.op = "copy" /\ old.source = NoPlace
      /\ b \in BlobsIn(old.tree.artifacts)
    BY DEF CopyBlob, Missing, IdleWorker
<1>2. /\ old \in Worker /\ old.dest \in Places
      /\ old.tree.artifacts \subseteq Artifacts /\ old.tree.files \in [Items -> Presence]
      /\ old = [op |-> old.op, dest |-> old.dest, source |-> old.source, tree |-> old.tree]
      /\ old.tree = [kind |-> "tree", artifacts |-> old.tree.artifacts,
                     files |-> old.tree.files]
    BY <1>1, BusyWorker DEF BInv
<1>3. Begun(old.tree)
    BY <1>1 DEF BInv, WorkersSound, Sound
<1>4. workers' = [workers EXCEPT ![w] = new]
    BY <1>1 DEF CopyBlob, WorksOn, TreeOf
<1>5. tree \in Tree
    BY <1>2 DEF Tree, Presence
<1>6. new \in Worker
    BY <1>2, <1>5 DEF Worker
<1>7. Begun(tree)
  <2>1. \A i \in Items : tree.files[i] = IF i = b THEN "durable" ELSE old.tree.files[i]
      BY <1>2
  <2> QED
      BY <1>1, <1>3, <2>1, FileAssumption DEF Begun, Items
<1>8. Sound(new)
    BY <1>7 DEF Sound
<1>9. UNCHANGED <<places, unsynced>>
    BY DEF CopyBlob
<1> HIDE DEF new
<1> QED
    BY <1>4, <1>6, <1>8, <1>9, PlacesStay, OneWorkerMoves

\* With no blob missing, the manifest completes the tree, and the sync of the
\* staging directory makes all of it durable.
LEMMA WriteManifestPreserves ==
  ASSUME BInv, NEW w \in Workers, WriteManifest(w), UNCHANGED storeVars
  PROVE  BInv'
<1> DEFINE old == workers[w]
           tree == [kind |-> "tree", artifacts |-> old.tree.artifacts,
                    files |-> [[old.tree.files EXCEPT ![Manifest] = "durable"]
                                 EXCEPT ![Database] = "durable"]]
           new == [op |-> "ready", dest |-> old.dest, source |-> NoPlace, tree |-> tree]
<1>1. /\ old # IdleWorker /\ old.op = "copy" /\ old.source = NoPlace
      /\ Missing(w) = {}
    BY DEF WriteManifest, IdleWorker
<1>2. /\ old \in Worker /\ old.dest \in Places
      /\ old.tree.artifacts \subseteq Artifacts /\ old.tree.files \in [Items -> Presence]
      /\ old = [op |-> old.op, dest |-> old.dest, source |-> old.source, tree |-> old.tree]
      /\ old.tree = [kind |-> "tree", artifacts |-> old.tree.artifacts,
                     files |-> old.tree.files]
    BY <1>1, BusyWorker DEF BInv
<1>3. Begun(old.tree)
    BY <1>1 DEF BInv, WorkersSound, Sound
<1>4. workers' = [workers EXCEPT ![w] = new]
    BY <1>1 DEF WriteManifest, WorksOn, TreeOf
<1>5. tree \in Tree
    BY <1>2 DEF Tree, Presence
<1>6. new \in Worker
    BY <1>2, <1>5 DEF Worker
<1>7. Finished(tree)
  <2>1. /\ tree.files[Manifest] = "durable" /\ tree.files[Database] = "durable"
        /\ \A b \in Blobs : tree.files[b] = old.tree.files[b]
        /\ tree.artifacts = old.tree.artifacts
      BY <1>2, FileAssumption DEF Items
  <2>2. \A b \in BlobsIn(old.tree.artifacts) : old.tree.files[b] # "absent"
      BY <1>1 DEF Missing
  <2>3. \A b \in Blobs : old.tree.files[b] # "absent" =>
          b \in BlobsIn(old.tree.artifacts) /\ old.tree.files[b] = "durable"
      BY <1>3 DEF Begun
  <2>4. Whole(tree)
      BY <2>1, <2>2, <2>3, FileAssumption DEF Whole, Contents, Items
  <2>5. \A i \in Items : tree.files[i] # "fresh"
      BY <2>1, <2>3 DEF Items
  <2> QED
      BY <2>4, <2>5 DEF Finished
<1>8. Sound(new)
    BY <1>7 DEF Sound
<1>9. UNCHANGED <<places, unsynced>>
    BY DEF WriteManifest
<1> HIDE DEF new
<1> QED
    BY <1>4, <1>6, <1>8, <1>9, PlacesStay, OneWorkerMoves

-------------------------------------------------------------------------------
(* restore_backup *)

LEMMA StartRestorePreserves ==
  ASSUME BInv, NEW w \in Workers, NEW s \in Batches, NEW d \in Targets,
         StartRestore(w, s, d), UNCHANGED storeVars
  PROVE  BInv'
<1> DEFINE new == [op |-> "copy", dest |-> d, source |-> s, tree |-> NewTree]
<1>1. new \in Worker
    BY NewTreeType DEF Worker, Places
<1>2. Sound(new)
    BY PlaceAssumption DEF Sound
<1>3. workers' = [workers EXCEPT ![w] = new] /\ UNCHANGED <<places, unsynced>>
    BY DEF StartRestore
<1> HIDE DEF new
<1> QED
    BY <1>1, <1>2, <1>3, PlacesStay, OneWorkerMoves

\* A copy of a whole batch, all of it synced.
LEMMA CopyBatchPreserves ==
  ASSUME BInv, NEW w \in Workers, CopyBatch(w), UNCHANGED storeVars
  PROVE  BInv'
<1> DEFINE old == workers[w]
           batch == places[old.source]
           kept == [i \in Items |-> IF i \in Contents(batch) THEN "durable" ELSE "absent"]
           tree == [kind |-> "tree", artifacts |-> batch.artifacts, files |-> kept]
           new == [op |-> "ready", dest |-> old.dest, source |-> old.source, tree |-> tree]
<1>1. old # IdleWorker /\ old.source # NoPlace /\ batch.kind = "tree"
    BY DEF CopyBatch, IdleWorker
<1>2. /\ old \in Worker /\ old.dest \in Places /\ old.source \in Batches
      /\ old = [op |-> old.op, dest |-> old.dest, source |-> old.source, tree |-> old.tree]
    BY <1>1, BusyWorker DEF BInv
<1>3. batch \in Tree
    BY <1>1, <1>2 DEF BInv, BackupTypeOK, Places, Absent, Empty, Foreign
<1>4. workers' = [workers EXCEPT ![w] = new]
    BY DEF CopyBatch, WorksOn, TreeOf
<1>5. tree \in Tree
    BY <1>3 DEF Tree, Presence
<1>6. new \in Worker
    BY <1>2, <1>5 DEF Worker
<1>7. Finished(tree)
    BY DEF Finished, Whole, Contents
<1>8. Sound(new)
    BY <1>7 DEF Sound
<1>9. UNCHANGED <<places, unsynced>>
    BY DEF CopyBatch
<1> HIDE DEF new
<1> QED
    BY <1>4, <1>6, <1>8, <1>9, PlacesStay, OneWorkerMoves

-------------------------------------------------------------------------------
(* Publication and power loss *)

LEMMA RenamePreserves ==
  ASSUME BInv, NEW w \in Workers, Rename(w), UNCHANGED storeVars
  PROVE  BInv'
<1> DEFINE old == workers[w]
           new == [op |-> "renamed", dest |-> old.dest, source |-> old.source,
                   tree |-> old.tree]
<1>1. old # IdleWorker /\ old.op = "ready"
    BY DEF Rename, IdleWorker
<1>2. /\ old \in Worker /\ old.dest \in Places /\ old.tree \in Tree
    BY <1>1, BusyWorker DEF BInv
<1>3. workers' = [workers EXCEPT ![w] = new]
  <2>1. workers \in [Workers -> Worker \cup {IdleWorker}]
      BY DEF BInv, BackupTypeOK
  <2>2. workers' = [workers EXCEPT ![w] = [old EXCEPT !.op = "renamed"]]
      BY <2>1 DEF Rename
  <2>3. [old EXCEPT !.op = "renamed"] = new
      BY <1>2 DEF Worker
  <2> QED
      BY <2>2, <2>3
<1>4. new \in Worker
    BY <1>2 DEF Worker
<1>5. Sound(new)
    BY DEF Sound
<1>6. Finished(old.tree)
    BY <1>1 DEF BInv, WorkersSound, Sound
<1>7. /\ places \in [Places -> {Absent, Empty, Foreign} \cup Tree]
      /\ places' = [places EXCEPT ![old.dest] = old.tree]
      /\ unsynced' = unsynced \cup {old.dest}
      /\ unsynced \subseteq Places
    BY DEF Rename, BInv, BackupTypeOK
<1>8. places' \in [Places -> {Absent, Empty, Foreign} \cup Tree] /\ unsynced' \subseteq Places
    BY <1>2, <1>7
<1>9. PlacesSound'
  <2> SUFFICES ASSUME NEW d \in Places, places'[d].kind = "tree"
               PROVE  Finished(places'[d])
      BY DEF PlacesSound, Finished, Whole
  <2>1. CASE d = old.dest
      BY <1>6, <1>7, <2>1
  <2>2. CASE d # old.dest
      BY <1>7, <2>2 DEF BInv, PlacesSound
  <2> QED
      BY <2>1, <2>2
<1> HIDE DEF new
<1> QED
    BY <1>3, <1>4, <1>5, <1>8, <1>9, OneWorkerMoves

LEMMA SyncPlacePreserves ==
  ASSUME BInv, NEW w \in Workers, SyncPlace(w), UNCHANGED storeVars
  PROVE  BInv'
<1>1. workers' = [workers EXCEPT ![w] = IdleWorker] /\ UNCHANGED places
      /\ unsynced' \subseteq unsynced
    BY DEF SyncPlace
<1>2. PlacesSound' /\ places' \in [Places -> {Absent, Empty, Foreign} \cup Tree]
    BY <1>1 DEF BInv, PlacesSound, BackupTypeOK
<1>3. unsynced' \subseteq Places
    BY <1>1 DEF BInv, BackupTypeOK
<1> QED
    BY <1>1, <1>2, <1>3, IdleIsSound, OneWorkerMoves

LEMMA AbortPreserves ==
  ASSUME BInv, NEW w \in Workers, Abort(w), UNCHANGED storeVars
  PROVE  BInv'
<1>1. workers' = [workers EXCEPT ![w] = IdleWorker] /\ UNCHANGED <<places, unsynced>>
    BY DEF Abort
<1> QED
    BY <1>1, PlacesStay, IdleIsSound, OneWorkerMoves

\* The store steps on: what is registered stays registered.
LEMMA StoreStepPreserves ==
  ASSUME BInv, StoreNext, UNCHANGED backupVars
  PROVE  BInv'
<1>1. IInv'
    BY NextInvariant DEF BInv
<1>2. registered \subseteq registered'
    BY DEF StoreNext, Publish, CheckRegistration, Look, Make, SyncParent, Link, SyncShard,
       Register, Kill, PreparePublish
<1>3. BackupTypeOK' /\ PlacesSound'
    BY DEF BInv, BackupTypeOK, PlacesSound, backupVars
<1>4. \A tree : Begun(tree) => Begun(tree)'
    BY <1>2 DEF Begun
<1>5. \A worker : Sound(worker) => Sound(worker)'
    BY <1>4 DEF Sound
<1>6. WorkersSound'
    BY <1>5 DEF BInv, WorkersSound, backupVars
<1> QED
    BY <1>1, <1>3, <1>6 DEF BInv

\* Somebody else takes a place that holds nothing of ours.
LEMMA OccupyPreserves ==
  ASSUME BInv, NEW d \in Places, Occupy(d), UNCHANGED storeVars
  PROVE  BInv'
<1>1. PICK x \in {Empty, Foreign} : places' = [places EXCEPT ![d] = x]
    BY DEF Occupy
<1>2. UNCHANGED <<unsynced, workers, storeVars>>
    BY DEF Occupy
<1>3. IInv'
    BY NextInvariant DEF BInv
<1>4. BackupTypeOK'
    BY <1>1, <1>2 DEF BInv, BackupTypeOK
<1>5. x.kind # "tree"
    BY DEF Empty, Foreign
<1>6. PlacesSound'
  <2> SUFFICES ASSUME NEW e \in Places, places'[e].kind = "tree"
               PROVE  Finished(places'[e])
      BY DEF PlacesSound, Finished, Whole
  <2>1. places \in [Places -> {Absent, Empty, Foreign} \cup Tree]
      BY DEF BInv, BackupTypeOK
  <2>2. e # d /\ places'[e] = places[e]
      BY <1>1, <1>5, <2>1
  <2> QED
      BY <2>2 DEF BInv, PlacesSound
<1>7. registered' = registered
    BY <1>2 DEF storeVars
<1>8. \A tree : Begun(tree)' <=> Begun(tree)
    BY <1>7 DEF Begun
<1>9. \A worker : Sound(worker)' <=> Sound(worker)
    BY <1>8 DEF Sound
<1>10. WorkersSound'
    BY <1>2, <1>9 DEF BInv, WorkersSound
<1> QED
    BY <1>3, <1>4, <1>6, <1>10 DEF BInv

\* Nothing of a finished tree is lost with the power.
LEMMA FinishedSurvives ==
  ASSUME BInv, NEW d \in Places, NEW x \in Survivors(d)
  PROVE  /\ x \in {Absent, Empty, Foreign} \cup Tree
         /\ x.kind = "tree" => x = places[d]
         /\ d \notin unsynced => x = places[d]
<1>1. places[d] \in {Absent, Empty, Foreign} \cup Tree
    BY DEF BInv, BackupTypeOK
<1>2. CASE x \in Free(d) /\ d \in unsynced
    BY <1>2 DEF Free, Absent, Empty
<1>3. CASE places[d].kind # "tree" /\ x = places[d]
    BY <1>1, <1>3
<1>4. ASSUME places[d].kind = "tree",
             NEW f \in [Items -> {"absent", "durable"}],
             \A i \in Items : places[d].files[i] # "fresh" => f[i] = places[d].files[i],
             x = TreeOf(places[d].artifacts, f)
      PROVE  x = places[d]
  <2>1. places[d] \in Tree
      BY <1>1, <1>4 DEF Absent, Empty, Foreign
  <2>2. /\ places[d] = TreeOf(places[d].artifacts, places[d].files)
        /\ places[d].files \in [Items -> Presence]
      BY <2>1 DEF Tree, TreeOf
  <2>3. \A i \in Items : places[d].files[i] # "fresh"
      BY <1>4 DEF BInv, PlacesSound, Finished
  <2>4. f = places[d].files
      BY <1>4, <2>2, <2>3
  <2> QED
      BY <1>4, <2>2, <2>4
<1>5. \/ x \in Free(d) /\ d \in unsynced
      \/ places[d].kind # "tree" /\ x = places[d]
      \/ places[d].kind = "tree" /\
         \E f \in [Items -> {"absent", "durable"}] :
           /\ \A i \in Items : places[d].files[i] # "fresh" => f[i] = places[d].files[i]
           /\ x = TreeOf(places[d].artifacts, f)
    BY DEF Survivors
<1> QED
    BY <1>1, <1>2, <1>3, <1>4, <1>5

LEMMA PowerLossKeeps ==
  ASSUME BInv, PowerLoss
  PROVE  BInv'
<1>1. IInv'
    BY NextInvariant DEF BInv, PowerLoss
<1>2. /\ \A d \in Places : places'[d] \in Survivors(d)
      /\ places' \in [Places -> UNION {Survivors(d) : d \in Places}]
      /\ unsynced' = {}
      /\ workers' = [w \in Workers |-> IdleWorker]
    BY DEF PowerLoss
<1>3. \A d \in Places : /\ places'[d] \in {Absent, Empty, Foreign} \cup Tree
                        /\ places'[d].kind = "tree" => places'[d] = places[d]
    BY <1>2, FinishedSurvives
<1>4. BackupTypeOK'
  <2>1. places' \in [Places -> {Absent, Empty, Foreign} \cup Tree]
      BY <1>2, <1>3
  <2> QED
      BY <1>2, <2>1 DEF BackupTypeOK
<1>5. PlacesSound'
  <2> SUFFICES ASSUME NEW d \in Places, places'[d].kind = "tree"
               PROVE  Finished(places'[d])
      BY DEF PlacesSound, Finished, Whole
  <2> QED
      BY <1>3 DEF BInv, PlacesSound
<1>6. WorkersSound'
  <2>1. \A w \in Workers : workers'[w] = IdleWorker
      BY <1>2
  <2>2. Sound(IdleWorker)'
      BY DEF Sound, IdleWorker
  <2> QED
      BY <2>1, <2>2 DEF WorkersSound, Sound
<1> QED
    BY <1>1, <1>4, <1>5, <1>6 DEF BInv

-------------------------------------------------------------------------------
(* The invariant *)

LEMMA BackupInit == Init => BInv
<1> SUFFICES ASSUME Init PROVE BInv
    OBVIOUS
<1>1. IInv
    BY InitInvariant DEF Init
<1>2. BackupTypeOK
    BY DEF Init, BackupTypeOK
<1>3. WorkersSound
    BY IdleIsSound DEF Init, WorkersSound
<1>4. PlacesSound
    BY DEF Init, PlacesSound, Absent
<1> QED
    BY <1>1, <1>2, <1>3, <1>4 DEF BInv

LEMMA BackupSteps == BInv /\ [Next]_vars => BInv'
<1> SUFFICES ASSUME BInv, [Next]_vars PROVE BInv'
    OBVIOUS
<1>1. CASE StoreNext /\ UNCHANGED backupVars
    BY <1>1, StoreStepPreserves
<1>2. CASE BackupNext /\ UNCHANGED storeVars
  <2>1. ASSUME NEW w \in Workers, NEW d \in Batches, CreateBackup(w, d) PROVE BInv'
      BY <1>2, <2>1, CreateBackupPreserves
  <2>2. ASSUME NEW w \in Workers, Snapshot(w) PROVE BInv'
      BY <1>2, <2>2, SnapshotPreserves
  <2>3. ASSUME NEW w \in Workers, NEW b \in Blobs, CopyBlob(w, b) PROVE BInv'
      BY <1>2, <2>3, CopyBlobPreserves
  <2>4. ASSUME NEW w \in Workers, WriteManifest(w) PROVE BInv'
      BY <1>2, <2>4, WriteManifestPreserves
  <2>5. ASSUME NEW w \in Workers, NEW s \in Batches, NEW d \in Targets, StartRestore(w, s, d)
        PROVE  BInv'
      BY <1>2, <2>5, StartRestorePreserves
  <2>6. ASSUME NEW w \in Workers, CopyBatch(w) PROVE BInv'
      BY <1>2, <2>6, CopyBatchPreserves
  <2>7. ASSUME NEW w \in Workers, Rename(w) PROVE BInv'
      BY <1>2, <2>7, RenamePreserves
  <2>8. ASSUME NEW w \in Workers, SyncPlace(w) PROVE BInv'
      BY <1>2, <2>8, SyncPlacePreserves
  <2>9. ASSUME NEW w \in Workers, Abort(w) PROVE BInv'
      BY <1>2, <2>9, AbortPreserves
  <2>10. ASSUME NEW d \in Places, Occupy(d) PROVE BInv'
      BY <1>2, <2>10, OccupyPreserves
  <2> QED
      BY <1>2, <2>1, <2>2, <2>3, <2>4, <2>5, <2>6, <2>7, <2>8, <2>9, <2>10 DEF BackupNext
<1>3. CASE PowerLoss
    BY <1>3, PowerLossKeeps
<1>4. CASE UNCHANGED vars
  <2>1. UNCHANGED storeVars /\ UNCHANGED backupVars
      BY <1>4 DEF vars
  <2>2. IInv'
      BY <2>1, NextInvariant DEF BInv
  <2>3. registered' = registered
      BY <2>1 DEF storeVars
  <2>4. \A tree : Begun(tree)' <=> Begun(tree)
      BY <2>3 DEF Begun
  <2>5. \A worker : Sound(worker)' <=> Sound(worker)
      BY <2>4 DEF Sound
  <2>6. BackupTypeOK' /\ WorkersSound' /\ PlacesSound'
      BY <2>1, <2>5 DEF BInv, BackupTypeOK, WorkersSound, PlacesSound, backupVars
  <2> QED
      BY <2>2, <2>6 DEF BInv
<1> QED
    BY <1>1, <1>2, <1>3, <1>4 DEF Next

\* The state of the store, of the workers and of the places stays what BInv says,
\* through every interleaving of publishers, backups and restores, kills and power
\* losses.
THEOREM BackupInvariant == Spec => []BInv
<1>1. BInv /\ [Next]_vars => BInv'
    BY BackupSteps
<1> QED
    BY <1>1, BackupInit, PTL DEF Spec

\* Every variable of the store and of the backups keeps its type.
THEOREM BackupTypeCorrect == Spec => []TypeOK
<1>1. BInv => TypeOK
    BY DEF BInv, IInv, BackupTypeOK, TypeOK
<1> QED
    BY <1>1, BackupInvariant, PTL

\* Under backups and restores too, a registered blob is synced in its shard unless
\* the shard itself was lost.
THEOREM SyncedBesideBackups == Spec => []RegisteredIsSynced
<1>1. BInv => RegisteredIsSynced
    BY DEF BInv, IInv
<1> QED
    BY <1>1, BackupInvariant, PTL

\* create_backup needs no lock on the store: each blob its snapshot names is there
\* to be copied, unless its shard was lost with the power earlier.
THEOREM SnapshotIsServed == Spec => []BackupFindsItsBlobs
<1>1. BInv => BackupFindsItsBlobs
  <2> SUFFICES ASSUME BInv, NEW w \in Workers, workers[w].op = "copy",
                      workers[w].source = NoPlace, NEW b \in Missing(w)
               PROVE  entries[b] # "absent" \/ b \in orphaned
      BY DEF BackupFindsItsBlobs
  <2>1. Begun(workers[w].tree)
      BY DEF BInv, WorkersSound, Sound
  <2>2. b \in RegisteredBlobs
      BY <2>1 DEF Missing, Begun, BlobsIn, RegisteredBlobs
  <2> QED
      BY <2>2 DEF BInv, IInv, RegisteredIsSynced
<1> QED
    BY <1>1, BackupInvariant, PTL

\* What the rename publishes is a whole tree, and stays one when the power fails.
THEOREM PublishedStaysWhole == Spec => []PublishedIsWhole
<1>1. BInv => PublishedIsWhole
    BY DEF BInv, PlacesSound, Finished, PublishedIsWhole
<1> QED
    BY <1>1, BackupInvariant, PTL

\* A free place holds neither a tree nor somebody else's files.
LEMMA FreeIsFree ==
  ASSUME NEW d, NEW x \in Free(d)
  PROVE  x.kind \notin {"tree", "foreign"}
BY DEF Free, Absent, Empty

LEMMA StepReplacesNothing ==
  ASSUME BInv, [Next]_vars
  PROVE  [\A d \in Places :
            places[d].kind \in {"tree", "foreign"} /\ d \notin unsynced
              => places'[d] = places[d]]_vars
<1> SUFFICES ASSUME NEW d \in Places, places[d].kind \in {"tree", "foreign"},
                    d \notin unsynced
             PROVE  places'[d] = places[d]
    OBVIOUS
<1>1. places \in [Places -> {Absent, Empty, Foreign} \cup Tree]
    BY DEF BInv, BackupTypeOK
<1>2. CASE UNCHANGED places
    BY <1>2
<1>3. ASSUME NEW w \in Workers, Rename(w)
      PROVE  places'[d] = places[d]
  <2>1. /\ places[workers[w].dest] \in Free(workers[w].dest)
        /\ places' = [places EXCEPT ![workers[w].dest] = workers[w].tree]
      BY <1>3 DEF Rename
  <2>2. workers[w].dest # d
      BY <2>1, FreeIsFree
  <2> QED
      BY <1>1, <2>1, <2>2
<1>4. ASSUME NEW e \in Places, Occupy(e)
      PROVE  places'[d] = places[d]
  <2>1. places[e] \in {Absent, Empty}
      BY <1>4 DEF Occupy
  <2>2. e # d
      BY <2>1 DEF Absent, Empty
  <2>3. \E x : places' = [places EXCEPT ![e] = x]
      BY <1>4 DEF Occupy
  <2> QED
      BY <1>1, <2>2, <2>3
<1>5. CASE PowerLoss
  <2>1. places'[d] \in Survivors(d)
      BY <1>5 DEF PowerLoss
  <2> QED
      BY <2>1, FinishedSurvives
<1>6. CASE BackupNext
    BY <1>2, <1>3, <1>4, <1>6 DEF BackupNext, CreateBackup, Snapshot, CopyBlob, WriteManifest,
       StartRestore, CopyBatch, SyncPlace, Abort, WorksOn
<1>7. CASE UNCHANGED backupVars \/ UNCHANGED vars
    BY <1>2, <1>7 DEF backupVars, vars
<1> QED
    BY <1>5, <1>6, <1>7 DEF Next

\* No batch, restored copy or foreign directory is ever replaced or changed,
\* although restore_backup looks at its target long before it renames, and another
\* worker or program may take the name between the two.
THEOREM NothingReplaced == Spec => NothingIsReplaced
<1>1. BInv /\ [Next]_vars =>
        [\A d \in Places :
           places[d].kind \in {"tree", "foreign"} /\ d \notin unsynced
             => places'[d] = places[d]]_vars
    BY StepReplacesNothing
<1> QED
    BY <1>1, BackupInvariant, PTL DEF Spec, NothingIsReplaced

\* Backups and restores leave the store alone: beside them it is the store it was,
\* so whatever is proved of StoreSpec holds beside them too.
THEOREM StoreIsLeftAlone == Spec => StoreSpec
<1>1. Init => StoreInit
    BY DEF Init
<1>2. [Next]_vars => [StoreNext \/ LosesPower]_storeVars
    BY DEF Next, PowerLoss, vars
<1> QED
    BY <1>1, <1>2, PTL DEF Spec, StoreSpec

\* A registered blob that is missing is not brought back, backups running or not.
THEOREM NothingRebuiltBesideBackups == Spec => MissingIsNotRebuilt
BY StoreIsLeftAlone, NothingRebuilt
=============================================================================
