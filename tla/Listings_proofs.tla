--------------------------- MODULE Listings_proofs ---------------------------
(***************************************************************************)
(* The two parts that decide what to delete on a listing of what is there: *)
(* retention on that of the bucket, a sync run on those of the forge.      *)
(* Either listing grows old meanwhile.                                     *)
(*                                                                         *)
(* Retention is safe for any repositories, settings, batch sizes and       *)
(* numbers of attempts, with failures and kills anywhere: no snapshot is   *)
(* deleted that is recent, or that is among the newest of those left.      *)
(* What the run spares is enough.  Of the snapshots newer than an          *)
(* unprotected one, take the newest that is itself unprotected: those      *)
(* newer still are all protected, hence never deleted, and there are       *)
(* `minimum` of them.  A listing that did not fail shows all that is       *)
(* stored, since backups wait; so what is left, when all that was decided  *)
(* on is gone, is what should be left, and what goes beside snapshots is   *)
(* of a repository that has none to keep.                                  *)
(*                                                                         *)
(* Discovery names all that was listed from start to end.  Entries come    *)
(* and go between two pages, so a walk has no picture of the listing; what *)
(* it has is, of the entries that stay, all within the reach of the pages  *)
(* read so far.  Only what is removed from those pages pulls an entry      *)
(* that was still to come into their reach.  It ends, as far as no         *)
(* fairness is needed for that: some step can be taken unless a request is *)
(* left hanging, and pages and attempts run out.                           *)
(***************************************************************************)
EXTENDS Retention, Discovery, FiniteSetTheorems, WellFoundedInduction, TLAPS

-----------------------------------------------------------------------------
(* Retention: keys. *)

\* An archive is told by its prefix and its time.
WellFormed(k) ==
    IsArchive(k) => /\ k.time \in Days
                    /\ k = [dir |-> k.dir, kind |-> "archive", time |-> k.time]

WellFormedSet(ks) == \A k \in ks : WellFormed(k)

-----------------------------------------------------------------------------
(* What is protected suffices. *)

LEMMA LeastNatural ==
    ASSUME NEW T \in SUBSET Nat, T # {}
    PROVE  \E m \in T : \A n \in T : m <= n
<1> DEFINE R == OpToRel(<, Nat)
<1>1. IsWellFoundedOn(R, Nat)
  BY NatLessThanWellFounded
<1>2. \A m, n \in Nat : n < m => <<n, m>> \in R
  BY DEF OpToRel
<1> HIDE DEF R
<1>3. PICK m \in T : \A n \in T : ~(<<n, m>> \in R)
  BY <1>1, WFMin
<1>4. \A n \in T : ~(n < m)
  BY <1>2, <1>3
<1>. QED
  BY <1>4

LEMMA NewestExists ==
    ASSUME NEW S, S # {}, \A k \in S : k.time \in Days
    PROVE  \E j \in S : \A k \in S : k.time <= j.time
<1>1. MaxDay \in Nat /\ \A k \in S : k.time \in 1..MaxDay
  BY RetentionAssumption DEF Days
<1> DEFINE ages == {MaxDay - k.time : k \in S}
<1>2. ages \in SUBSET Nat /\ ages # {}
  BY <1>1
<1>3. PICK m \in ages : \A n \in ages : m <= n
  BY <1>2, LeastNatural
<1>4. PICK j \in S : m = MaxDay - j.time
  BY <1>3
<1>5. ASSUME NEW k \in S PROVE k.time <= j.time
  <2>1. m <= MaxDay - k.time
    BY <1>3
  <2>. QED
    BY <1>1, <1>4, <2>1
<1>. QED
  BY <1>5

LEMMA SnapshotsFinite ==
    ASSUME NEW ks, WellFormedSet(ks), NEW dir
    PROVE  IsFiniteSet(SnapshotsAt(ks, dir))
<1> DEFINE S == SnapshotsAt(ks, dir)
           f == [k \in S |-> k.time]
<1>1. \A k \in S : k.time \in Days /\ k = [dir |-> dir, kind |-> "archive", time |-> k.time]
  BY DEF SnapshotsAt, Archives, WellFormedSet, WellFormed
<1>2. f \in Injection(S, Days)
  <2>1. f \in [S -> Days]
    BY <1>1
  <2>2. ASSUME NEW a \in S, NEW b \in S, f[a] = f[b] PROVE a = b
    BY <1>1, <2>2
  <2>. QED
    BY <2>1, <2>2 DEF Injection, IsInjective
<1>3. IsFiniteSet(Days)
  BY FS_Interval, RetentionAssumption DEF Days
<1>. QED
  BY <1>2, <1>3, FS_Injection

\* The protected snapshots that are newer than k.
Sparing(ks, k, min) == {j \in Newer(ks, k) : Protected(ks, j, min)}

LEMMA ProtectedSuffice ==
    ASSUME NEW ks, WellFormedSet(ks), NEW min \in Nat,
           NEW k \in Archives(ks), ~Protected(ks, k, min)
    PROVE  /\ IsFiniteSet(Sparing(ks, k, min))
           /\ Cardinality(Sparing(ks, k, min)) >= min
<1>1. \A j \in Archives(ks) : IsFiniteSet(Newer(ks, j)) /\ Cardinality(Newer(ks, j)) \in Nat
  <2>1. ASSUME NEW j \in Archives(ks)
        PROVE  IsFiniteSet(Newer(ks, j)) /\ Cardinality(Newer(ks, j)) \in Nat
    <3>1. IsFiniteSet(SnapshotsAt(ks, j.dir))
      BY SnapshotsFinite
    <3>2. Newer(ks, j) \subseteq SnapshotsAt(ks, j.dir)
      BY DEF Newer
    <3>. QED
      BY <3>1, <3>2, FS_Subset, FS_CardinalityType
  <2>. QED
    BY <2>1
<1>2. \A j \in Archives(ks) : j.time \in Int
  BY DEF Archives, WellFormedSet, WellFormed, Days
<1>3. \A j \in Newer(ks, k) : j \in Archives(ks) /\ j.dir = k.dir /\ j.time > k.time
  BY DEF Newer, SnapshotsAt
<1>4. Sparing(ks, k, min) \subseteq Newer(ks, k)
  BY DEF Sparing
<1>5. IsFiniteSet(Sparing(ks, k, min)) /\ Cardinality(Sparing(ks, k, min)) \in Nat
  BY <1>1, <1>4, FS_Subset, FS_CardinalityType
<1> DEFINE bad == Newer(ks, k) \ Sparing(ks, k, min)
<1>6. CASE bad = {}
  <2>1. Sparing(ks, k, min) = Newer(ks, k)
    BY <1>4, <1>6
  <2>. QED
    BY <1>1, <1>5, <2>1 DEF Protected
<1>7. CASE bad # {}
  <2>1. PICK j \in bad : \A i \in bad : i.time <= j.time
    <3>1. \A i \in bad : i.time \in Days
      BY <1>3 DEF Archives, WellFormedSet, WellFormed
    <3> HIDE DEF bad
    <3>. QED
      BY <1>7, <3>1, NewestExists
  <2>2. j \in Archives(ks) /\ j.dir = k.dir /\ j.time > k.time /\ ~Protected(ks, j, min)
    BY <1>3 DEF Sparing
  <2>3. Newer(ks, j) \subseteq Sparing(ks, k, min)
    <3>1. ASSUME NEW i \in Newer(ks, j) PROVE i \in Newer(ks, k) /\ i \notin bad
      <4>1. i \in Archives(ks) /\ i.dir = j.dir /\ i.time > j.time
        BY DEF Newer, SnapshotsAt
      <4>2. i \in Newer(ks, k)
        BY <1>2, <2>2, <4>1 DEF Newer, SnapshotsAt
      <4>3. i \notin bad
        BY <1>2, <2>1, <2>2, <4>1
      <4>. QED
        BY <4>2, <4>3
    <3>. QED
      BY <3>1
  <2>4. Cardinality(Newer(ks, j)) >= min
    BY <1>1, <2>2 DEF Protected
  <2>5. Cardinality(Newer(ks, j)) <= Cardinality(Sparing(ks, k, min))
    BY <1>5, <2>3, FS_Subset
  <2>. QED
    BY <1>1, <1>5, <2>2, <2>4, <2>5
<1>. QED
  BY <1>6, <1>7

-----------------------------------------------------------------------------
(* The inductive invariant. *)

Types ==
    /\ day \in Days /\ cutoff \in Int /\ minimum \in Nat
    /\ phase \in {"idle", "listing", "deleting"}
    /\ WellFormedSet(objects) /\ WellFormedSet(keys)

\* While it lists, nothing else writes; while it deletes, it asks only for what it
\* decided on, a repeated attempt too, and the rest of the listing is still there.
RunOK ==
    /\ phase = "listing" => keys \subseteq objects
    /\ asked \subseteq remaining
    /\ phase # "deleting" => asked = {}
    /\ phase = "deleting" =>
          /\ remaining \subseteq KeysToDelete(keys, minimum, cutoff)
          /\ Archives(keys) \ Expired(keys, minimum, cutoff) \subseteq objects

Inv == Types /\ RunOK

\* What MinimumKept says of a step.
Spares ==
    \A k \in Archives(objects) \ objects' :
        /\ k.time < cutoff
        /\ Cardinality(Newer(objects', k)) >= minimum

\* A deletion of any part of what remains.
LEMMA DeletionSpares ==
    ASSUME Inv, phase = "deleting", NEW gone, gone \subseteq remaining, objects' = objects \ gone
    PROVE  /\ Spares
           /\ Archives(keys) \ Expired(keys, minimum, cutoff) \subseteq objects'
           /\ WellFormedSet(objects')
<1> USE DEF Inv, Types, RunOK
<1>1. gone \subseteq KeysToDelete(keys, minimum, cutoff)
  OBVIOUS
<1>2. \A k \in gone : k \in Archives(keys) => k \in Expired(keys, minimum, cutoff)
  BY <1>1 DEF KeysToDelete, Orphans
<1>3. Archives(keys) \ Expired(keys, minimum, cutoff) \subseteq objects'
  BY <1>2
<1>4. WellFormedSet(objects')
  BY DEF WellFormedSet
<1>5. ASSUME NEW k \in Archives(objects) \ objects'
      PROVE  k.time < cutoff /\ Cardinality(Newer(objects', k)) >= minimum
  <2>1. k \in Expired(keys, minimum, cutoff)
    BY <1>1, <1>5 DEF KeysToDelete, Orphans, Archives
  <2>2. k \in Archives(keys) /\ ~Protected(keys, k, minimum) /\ k.time < cutoff
    BY <2>1 DEF Expired
  <2>3. /\ IsFiniteSet(Sparing(keys, k, minimum))
        /\ Cardinality(Sparing(keys, k, minimum)) >= minimum
    BY <2>2, ProtectedSuffice
  <2>4. Sparing(keys, k, minimum) \subseteq Newer(objects', k)
    <3>1. ASSUME NEW j \in Sparing(keys, k, minimum) PROVE j \in Newer(objects', k)
      <4>1. /\ j \in Archives(keys) /\ IsArchive(j) /\ j.dir = k.dir /\ j.time > k.time
            /\ Protected(keys, j, minimum)
        BY DEF Sparing, Newer, SnapshotsAt, Archives
      <4>2. j \in objects'
        BY <1>3, <4>1 DEF Expired
      <4>. QED
        BY <4>1, <4>2 DEF Newer, SnapshotsAt, Archives
    <3>. QED
      BY <3>1
  <2>5. IsFiniteSet(Newer(objects', k))
    <3>1. IsFiniteSet(SnapshotsAt(objects', k.dir))
      BY <1>4, SnapshotsFinite
    <3>2. Newer(objects', k) \subseteq SnapshotsAt(objects', k.dir)
      BY DEF Newer
    <3>. QED
      BY <3>1, <3>2, FS_Subset
  <2>6. Cardinality(Sparing(keys, k, minimum)) <= Cardinality(Newer(objects', k))
    BY <2>4, <2>5, FS_Subset
  <2>7. /\ Cardinality(Sparing(keys, k, minimum)) \in Nat
        /\ Cardinality(Newer(objects', k)) \in Nat
    BY <2>3, <2>5, FS_CardinalityType
  <2>. QED
    BY <2>2, <2>3, <2>6, <2>7
<1>. QED
  BY <1>3, <1>4, <1>5 DEF Spares

LEMMA RequestsRemain == ASSUME RunOK, NEW batch \in Requests PROVE batch \subseteq remaining
BY DEF RunOK, Requests, Batches

-----------------------------------------------------------------------------
LEMMA InvInit == Init => Inv
<1> SUFFICES ASSUME Init PROVE Inv
    OBVIOUS
<1>1. Types
  BY RetentionAssumption DEF Init, Types, Days, WellFormedSet
<1>2. RunOK
  BY DEF Init, RunOK
<1>. QED
  BY <1>1, <1>2 DEF Inv

\* Steps that delete nothing.
LEMMA WorldStep ==
    ASSUME Inv, Tomorrow \/ Stop \/ StartRun \/ Decide
                \/ (\E r \in Repositories : BackUp(r)) \/ UNCHANGED vars
    PROVE  Inv' /\ objects \subseteq objects'
<1> USE DEF Inv, RunOK, runVars, requestVars, NewRequest
<1>1. CASE Tomorrow
  BY <1>1, RetentionAssumption DEF Tomorrow, Types, Days
<1>2. CASE Stop
  BY <1>2 DEF Stop, Types
<1>3. CASE StartRun
  <2>1. cutoff' \in Int /\ minimum' \in Nat
    BY <1>3, RetentionAssumption DEF StartRun, Types, Days
  <2>. QED
    BY <1>3, <2>1 DEF StartRun, Types, WellFormedSet
<1>4. CASE Decide
  <2>1. remaining' \subseteq KeysToDelete(keys', minimum', cutoff')
    BY <1>4 DEF Decide
  <2>2. /\ phase = "listing" /\ phase' \in {"idle", "deleting"} /\ asked' = asked
        /\ UNCHANGED <<day, objects, cutoff, minimum, keys>>
    BY <1>4 DEF Decide
  <2>3. Archives(keys') \ Expired(keys', minimum', cutoff') \subseteq objects'
    BY <2>2 DEF Archives
  <2>4. Types'
    BY <2>2 DEF Types
  <2>. QED
    BY <2>1, <2>2, <2>3, <2>4
<1>5. ASSUME NEW r \in Repositories, BackUp(r) PROVE Inv' /\ objects \subseteq objects'
  <2>1. WellFormed(Archive(r, day))
    BY DEF WellFormed, Archive, Types
  <2>2. WellFormed(Metadata(r)) /\ \A k \in Documents(r) : WellFormed(k)
    BY DEF WellFormed, IsArchive, Metadata, Documents
  <2>3. /\ objects \subseteq objects'
        /\ objects' \subseteq objects \cup {Archive(r, day), Metadata(r)} \cup Documents(r)
    BY <1>5 DEF BackUp
  <2>4. WellFormedSet(objects')
    BY <2>1, <2>2, <2>3 DEF Types, WellFormedSet
  <2>. QED
    BY <1>5, <2>3, <2>4 DEF BackUp, Types
<1>6. CASE UNCHANGED vars
  BY <1>6 DEF vars, Types
<1>. QED
  BY <1>1, <1>2, <1>3, <1>4, <1>5, <1>6

LEMMA ListStep ==
    ASSUME Inv, NEW root \in Roots, ListRoot(root) \/ ListRootFails(root)
    PROVE  Inv' /\ objects \subseteq objects'
BY DEF Inv, RunOK, ListRoot, ListRootFails, requestVars, Types, WellFormedSet

LEMMA DeleteStep ==
    ASSUME Inv, DeleteBatch \/ RejectBulk \/ DeleteOne \/ DeleteRetried \/ DeleteFails
    PROVE  Inv' /\ Spares
<1> USE DEF Inv, requestVars, runVars, NewRequest
<1>1. phase = "deleting"
  BY DEF DeleteBatch, RejectBulk, DeleteOne, DeleteRetried, DeleteFails
<1>2. PICK gone \in SUBSET remaining : objects' = objects \ gone
  <2>1. CASE DeleteBatch
    <3>1. PICK batch \in Requests : \E kept \in SUBSET batch : objects' = objects \ (batch \ kept)
      BY <2>1 DEF DeleteBatch
    <3>. QED
      BY <3>1, RequestsRemain
  <2>2. CASE RejectBulk
    BY <2>2 DEF RejectBulk
  <2>3. CASE DeleteOne
    BY <2>3, RequestsRemain DEF DeleteOne
  <2>4. CASE DeleteRetried \/ DeleteFails
    <3>1. PICK batch \in Requests : \E part \in SUBSET batch : objects' = objects \ part
      BY <2>4 DEF DeleteRetried, DeleteFails
    <3>. QED
      BY <3>1, RequestsRemain
  <2>. QED
    BY <2>1, <2>2, <2>3, <2>4
<1>3. /\ Spares
      /\ Archives(keys) \ Expired(keys, minimum, cutoff) \subseteq objects'
      /\ WellFormedSet(objects')
  BY <1>1, <1>2, DeletionSpares
<1>4. UNCHANGED <<day, cutoff, minimum, keys>>
  BY DEF DeleteBatch, RejectBulk, DeleteOne, DeleteRetried, DeleteFails
<1>5. phase' \in {"idle", "deleting"} /\ remaining' \subseteq remaining
  BY <1>1 DEF DeleteBatch, RejectBulk, DeleteOne, DeleteRetried, DeleteFails, Advance
<1>6. asked' \subseteq remaining' /\ (phase' # "deleting" => asked' = {})
  <2>1. CASE DeleteRetried
    <3>1. PICK batch \in Requests : asked' = batch
      BY <2>1 DEF DeleteRetried
    <3>2. batch \subseteq remaining
      BY RequestsRemain
    <3>. QED
      BY <1>1, <2>1, <3>1, <3>2 DEF DeleteRetried
  <2>2. CASE ~DeleteRetried
    <3>1. asked' = {}
      BY <2>2 DEF DeleteBatch, RejectBulk, DeleteOne, DeleteFails, Advance
    <3>. QED
      BY <3>1
  <2>. QED
    BY <2>1, <2>2
<1>7. Types'
  BY <1>3, <1>4, <1>5 DEF Types
<1>8. RunOK'
  BY <1>1, <1>3, <1>4, <1>5, <1>6 DEF RunOK
<1>. QED
  BY <1>3, <1>7, <1>8

LEMMA InvStep == Inv /\ [Next]_vars => Inv' /\ (objects \subseteq objects' \/ Spares)
BY WorldStep, ListStep, DeleteStep DEF Next

-----------------------------------------------------------------------------
\* "The newest retentionMinimum snapshots of every repository are always protected"
\* (retention.go:37-38), and the recent ones: whatever fails, in every step of every
\* run, a snapshot that goes is older than the cutoff and leaves `minimum` newer ones.
THEOREM MinimumAlwaysKept == Spec => MinimumKept
<1>1. Inv /\ [Next]_vars =>
        [\A k \in Archives(objects) \ objects' :
            /\ k.time < cutoff
            /\ Cardinality(Newer(objects', k)) >= minimum]_vars
  <2>1. objects \subseteq objects' => Archives(objects) \ objects' = {}
    BY DEF Archives
  <2>. QED
    BY <2>1, InvStep DEF Spares
<1>2. Inv /\ [Next]_vars => Inv'
  BY InvStep
<1>. QED
  BY <1>1, <1>2, InvInit, PTL DEF Spec, MinimumKept

-----------------------------------------------------------------------------
(* What a run has in its listing, and what it has still to ask for. *)

\* Every key lies under one of the two roots, every archive at a repository's prefix.
Placed(ks) ==
    \A k \in ks : /\ k.dir[1] \in Roots
                  /\ IsArchive(k) => \E r \in Repositories : k.dir = Prefix[r]

\* Nothing is stored that a root listed without an error does not show; and while no
\* request has failed, what the run decided to delete is gone or still to be asked for.
ListingOK ==
    /\ Placed(objects) /\ Placed(keys)
    /\ phase = "listing" =>
        /\ \A root \in Roots \ unlisted :
               listFailed \/ {k \in objects : k.dir[1] = root} \subseteq keys
        /\ listFailed => ~clean
    /\ phase = "deleting" =>
        /\ objects \subseteq keys
        /\ clean => objects \cap KeysToDelete(keys, minimum, cutoff) \subseteq remaining

\* What path segments are; that a literal is a string is nothing the provers know.
Segments == STRING \cup Collections \cup {"attachments", "v1"}

LEMMA DocumentPrefix ==
    ASSUME NEW P \in Seq(Segments), P # <<>>, NEW path \in Seq(Segments), path # <<>>
    PROVE  /\ Len(P) \in Nat \ {0} /\ Len(P \o path) = Len(P) + Len(path)
           /\ (P \o path)[1] = P[1]
           /\ \A i \in 1 .. Len(path) : (P \o path)[Len(P) + i] = path[i]
           /\ \A i \in 1 .. Len(P) : (P \o path)[i] = P[i]
           /\ SubSeq(P \o path, 1, Len(P)) = P
           /\ \A i \in 1 .. Len(P) : SubSeq(P \o path, 1, i - 1) = SubSeq(P, 1, i - 1)
<1>1. /\ Len(P) \in Nat \ {0} /\ Len(path) \in Nat \ {0} /\ Len(P \o path) = Len(P) + Len(path)
      /\ P \o path \in Seq(Segments)
      /\ \A i \in 1 .. Len(P) : (P \o path)[i] = P[i]
      /\ \A i \in 1 .. Len(path) : (P \o path)[Len(P) + i] = path[i]
  OBVIOUS
<1>2. ASSUME NEW i \in 0 .. Len(P)
      PROVE  SubSeq(P \o path, 1, i) = SubSeq(P, 1, i)
  BY <1>1
<1>3. SubSeq(P, 1, Len(P)) = P
  BY <1>1
<1>. QED
  BY <1>1, <1>2, <1>3

LEMMA PrefixSegments == \A r \in Repositories : Prefix[r] \in Seq(Segments)
<1>1. ASSUME NEW P \in Seq(STRING) PROVE P \in Seq(Segments)
  BY DEF Segments
<1>. QED
  BY <1>1, RetentionAssumption

LEMMA ShortSequences ==
    ASSUME NEW S, NEW a \in S, NEW b \in S, NEW c \in S
    PROVE  <<a>> \in Seq(S) /\ <<a, b, c>> \in Seq(S)
OBVIOUS

\* The paths of documents: the first segment, and no other, is a collection.
LEMMA CollectionPaths ==
    ASSUME NEW path \in {<<"issues">>, <<"releases", "attachments", "v1">>}
    PROVE  /\ path \in Seq(Segments) /\ path # <<>> /\ Len(path) \in 1 .. 3
           /\ path[1] \in Collections
           /\ \A j \in 2 .. Len(path) : path[j] \notin Collections
<1>1. CASE path = <<"issues">>
  <2>1. path \in Seq(Segments)
    <3>1. "issues" \in Segments
      BY DEF Segments, Collections
    <3>. QED
      BY Zenon, <1>1, <3>1, ShortSequences
  <2>3. path # <<>> /\ Len(path) = 1 /\ path[1] = "issues"
    BY <1>1
  <2>2. "issues" \in Collections
    BY DEF Collections
  <2>. QED
    BY <2>1, <2>2, <2>3
<1>2. CASE path = <<"releases", "attachments", "v1">>
  <2>1. Len(path) = 3 /\ path[1] = "releases" /\ path[2] = "attachments" /\ path[3] = "v1"
    BY <1>2
  <2>2. path \in Seq(Segments)
    <3>1. "releases" \in Segments /\ "attachments" \in Segments /\ "v1" \in Segments
      BY DEF Segments, Collections
    <3>. QED
      BY Zenon, <1>2, <3>1, ShortSequences
  <2>3. \A j \in 2 .. 3 : path[j] \in {"attachments", "v1"}
    <3>1. \A j \in 2 .. 3 : j = 2 \/ j = 3
      OBVIOUS
    <3>. QED
      BY <2>1, <3>1
  <2>4. "attachments" \notin Collections /\ "v1" \notin Collections /\ "releases" \in Collections
    BY DEF Collections
  <2>. QED
    BY <2>1, <2>2, <2>3, <2>4
<1>. QED
  BY <1>1, <1>2

\* What a repository stores beside its snapshots is reclaimed with its prefix.
LEMMA OwnIsReclaimed ==
    ASSUME NEW r \in Repositories, NEW k \in {Metadata(r)} \cup Documents(r), NEW emptied
    PROVE  /\ ~IsArchive(k) /\ k.dir[1] \in Roots
           /\ Prefix[r] \in emptied => IsReclaimableOrphan(k, emptied)
<1>. DEFINE P == Prefix[r]
<1>1. P \in Seq(Segments) /\ P # <<>> /\ P[1] \in Roots
  BY RetentionAssumption, PrefixSegments
<1>. HIDE DEF P
<1>2. CASE k = Metadata(r)
  BY <1>1, <1>2 DEF Metadata, IsArchive, IsReclaimableOrphan, P
<1>3. ASSUME NEW path \in {<<"issues">>, <<"releases", "attachments", "v1">>},
             k = [dir |-> P \o path, kind |-> "document", time |-> 0]
      PROVE  /\ ~IsArchive(k) /\ k.dir[1] \in Roots
             /\ P \in emptied => IsReclaimableOrphan(k, emptied)
  <2>1. path \in Seq(Segments) /\ path # <<>> /\ Len(path) \in 1 .. 3 /\ path[1] \in Collections
    BY <1>3, CollectionPaths
  <2>2. k.dir = P \o path /\ k.kind = "document"
    BY <1>3
  <2>3. /\ (P \o path)[1] = P[1]
        /\ Len(P) + 1 \in 2 .. Len(P \o path)
        /\ (P \o path)[Len(P) + 1] = path[1]
        /\ SubSeq(P \o path, 1, (Len(P) + 1) - 1) = P
    <3>1. /\ Len(P) \in Nat \ {0} /\ Len(P \o path) = Len(P) + Len(path)
          /\ (P \o path)[1] = P[1]
          /\ \A i \in 1 .. Len(path) : (P \o path)[Len(P) + i] = path[i]
          /\ SubSeq(P \o path, 1, Len(P)) = P
      BY <1>1, <2>1, DocumentPrefix
    <3>2. (Len(P) + 1) - 1 = Len(P) /\ Len(P) + 1 \in 2 .. Len(P) + Len(path) /\ 1 \in 1 .. Len(path)
      BY <2>1, <3>1
    <3>. QED
      BY <3>1, <3>2
  <2>. QED
    BY <1>1, <2>1, <2>2, <2>3 DEF IsArchive, IsReclaimableOrphan
<1>. QED
  BY <1>2, <1>3 DEF Documents, P

\* No repository lies in a collection of another: what separates them, a path of the
\* forge or "snippets", is not the name of a collection.
Apart ==
    \A r, s \in Repositories : \A i \in 2 .. Len(Prefix[s]) :
        Prefix[s][i] \in Collections => SubSeq(Prefix[s], 1, i - 1) # Prefix[r]

\* And with no other.
LEMMA OnlyOwnIsReclaimed ==
    ASSUME Apart, NEW r \in Repositories, NEW k \in {Metadata(r)} \cup Documents(r),
           NEW emptied, emptied \subseteq {Prefix[s] : s \in Repositories},
           IsReclaimableOrphan(k, emptied)
    PROVE  Prefix[r] \in emptied
<1>. DEFINE P == Prefix[r]
<1>1. P \in Seq(Segments) /\ P # <<>> /\ \A s \in Repositories : Prefix[s] \in Seq(Segments)
  BY RetentionAssumption, PrefixSegments
<1>2. \A s \in Repositories : \A i \in 2 .. Len(P) :
          P[i] \in Collections => SubSeq(P, 1, i - 1) # Prefix[s]
  BY DEF Apart
<1>. HIDE DEF P
<1>3. CASE k = Metadata(r)
  <2>1. k.dir = P
    BY <1>3 DEF Metadata, P
  <2>2. ASSUME NEW i \in 2 .. Len(P), P[i] \in Collections, SubSeq(P, 1, i - 1) \in emptied
        PROVE  FALSE
    BY <1>2, <2>2
  <2>. QED
    BY <2>1, <2>2 DEF IsReclaimableOrphan, P
<1>4. ASSUME NEW path \in {<<"issues">>, <<"releases", "attachments", "v1">>},
             k = [dir |-> P \o path, kind |-> "document", time |-> 0]
      PROVE  P \in emptied
  <2>. DEFINE D == P \o path
  <2>1. path \in Seq(Segments) /\ path # <<>> /\ Len(path) \in 1 .. 3 /\ path[1] \in Collections
        /\ \A j \in 2 .. Len(path) : path[j] \notin Collections
    BY <1>4, CollectionPaths
  <2>2. /\ Len(P) \in Nat \ {0} /\ Len(D) = Len(P) + Len(path)
        /\ \A i \in 1 .. Len(path) : D[Len(P) + i] = path[i]
        /\ \A i \in 1 .. Len(P) : D[i] = P[i]
        /\ SubSeq(D, 1, Len(P)) = P
        /\ \A i \in 1 .. Len(P) : SubSeq(D, 1, i - 1) = SubSeq(P, 1, i - 1)
    BY <1>1, <2>1, DocumentPrefix
  <2>3. k.dir = D
    BY <1>4
  <2>. HIDE DEF D
  <2>4. D \notin emptied
    <3>1. ASSUME NEW s \in Repositories, D = Prefix[s] PROVE FALSE
      <4>1. PICK n \in Nat : n = Len(P) + 1
        BY <2>2
      <4>2. n \in 2 .. Len(D) /\ n - 1 = Len(P)
        BY <2>1, <2>2, <4>1
      <4>3. D[n] \in Collections
        <5>1. 1 \in 1 .. Len(path)
          BY <2>1
        <5>. QED
          BY <2>1, <2>2, <4>1, <5>1
      <4>4. SubSeq(D, 1, n - 1) = Prefix[r]
        BY <2>2, <4>2 DEF P
      <4>. QED
        BY <3>1, <4>2, <4>3, <4>4 DEF Apart
    <3>. QED
      BY <3>1
  <2>5. ASSUME NEW i \in 2 .. Len(D), D[i] \in Collections, SubSeq(D, 1, i - 1) \in emptied
        PROVE  P \in emptied
    <3>1. CASE i \in 1 .. Len(P)
      <4>1. i \in 2 .. Len(P)
        BY <2>2, <2>5, <3>1
      <4>2. P[i] \in Collections /\ SubSeq(P, 1, i - 1) \in emptied
        BY <2>2, <2>5, <3>1
      <4>3. PICK s \in Repositories : SubSeq(P, 1, i - 1) = Prefix[s]
        BY <4>2
      <4>. QED
        BY <1>2, <4>1, <4>2, <4>3
    <3>2. CASE i = Len(P) + 1
      <4>1. i - 1 = Len(P)
        BY <2>2, <3>2
      <4>. QED
        BY <2>2, <2>5, <4>1
    <3>3. CASE i > Len(P) + 1
      <4>1. PICK j \in 2 .. Len(path) : i = Len(P) + j
        <5>1. i - Len(P) \in 2 .. Len(path) /\ i = Len(P) + (i - Len(P))
          BY <2>1, <2>2, <2>5, <3>3
        <5>. QED
          BY <5>1
      <4>2. D[i] = path[j]
        BY <2>1, <2>2, <4>1
      <4>. QED
        BY <2>1, <2>5, <4>1, <4>2
    <3>. QED
      BY <2>2, <2>5, <3>1, <3>2, <3>3
  <2>. QED
    BY <2>3, <2>4, <2>5 DEF IsReclaimableOrphan
<1>. QED
  BY <1>3, <1>4 DEF Documents, P

-----------------------------------------------------------------------------
(* What is left when all that a run decided on is gone. *)

LEMMA PrunedIsComplete ==
    ASSUME NEW ks, WellFormedSet(ks), NEW min \in Nat, NEW cut \in Int, NEW left,
           left \subseteq ks, left \cap KeysToDelete(ks, min, cut) = {},
           Archives(ks) \ Expired(ks, min, cut) \subseteq left
    PROVE  /\ Expired(left, min, cut) = {}
           /\ \A r \in Repositories :
                SnapshotsAt(left, Prefix[r]) = {} /\ OwnedBy(r) \cap left # {}
                    => SnapshotsAt(ks, Prefix[r]) = {}
<1>1. ASSUME NEW k \in Archives(left) PROVE k \notin Expired(left, min, cut)
  <2>1. k \in Archives(ks) /\ k \notin Expired(ks, min, cut)
    BY DEF Archives, KeysToDelete
  <2>2. CASE Protected(ks, k, min)
    <3>1. Newer(left, k) \subseteq Newer(ks, k)
      BY DEF Newer, SnapshotsAt, Archives
    <3>2. IsFiniteSet(Newer(ks, k))
      <4>1. IsFiniteSet(SnapshotsAt(ks, k.dir))
        BY SnapshotsFinite
      <4>2. Newer(ks, k) \subseteq SnapshotsAt(ks, k.dir)
        BY DEF Newer
      <4>. QED
        BY <4>1, <4>2, FS_Subset
    <3>3. /\ Cardinality(Newer(left, k)) \in Nat /\ Cardinality(Newer(ks, k)) \in Nat
          /\ Cardinality(Newer(left, k)) <= Cardinality(Newer(ks, k))
      BY <3>1, <3>2, FS_Subset, FS_CardinalityType
    <3>4. Cardinality(Newer(ks, k)) < min
      BY <2>2 DEF Protected
    <3>. QED
      BY <3>3, <3>4 DEF Expired, Protected
  <2>3. CASE ~Protected(ks, k, min)
    BY <2>1, <2>3 DEF Expired
  <2>. QED
    BY <2>2, <2>3
<1>2. ASSUME NEW r \in Repositories, SnapshotsAt(left, Prefix[r]) = {},
             NEW k \in OwnedBy(r) \cap left, SnapshotsAt(ks, Prefix[r]) # {}
      PROVE  FALSE
  <2>1. SnapshotsAt(ks, Prefix[r]) \subseteq Expired(ks, min, cut)
    BY <1>2 DEF SnapshotsAt, Archives
  <2>2. Prefix[r] \in Emptied(ks, min, cut)
    BY <1>2, <2>1 DEF Emptied, SnapshotsAt
  <2>3. CASE k \in {Archive(r, d) : d \in Days}
    <3>1. k.dir = Prefix[r] /\ IsArchive(k)
      BY <2>3 DEF Archive, IsArchive
    <3>. QED
      BY <1>2, <3>1 DEF SnapshotsAt, Archives
  <2>4. CASE k \in {Metadata(r)} \cup Documents(r)
    <3>1. ~IsArchive(k) /\ IsReclaimableOrphan(k, Emptied(ks, min, cut))
      BY <2>2, <2>4, OwnIsReclaimed
    <3>2. k \in Orphans(ks, min, cut)
      BY <1>2, <3>1 DEF Orphans, Archives
    <3>. QED
      BY <1>2, <3>2 DEF KeysToDelete
  <2>. QED
    BY <1>2, <2>3, <2>4 DEF OwnedBy
<1>. QED
  BY <1>1, <1>2 DEF Expired

\* A repository whose documents a run decides to delete keeps no snapshot.
LEMMA OrphanedIsExpired ==
    ASSUME Apart, NEW ks, WellFormedSet(ks), Placed(ks), NEW min \in Nat, NEW cut \in Int,
           NEW r \in Repositories, NEW k \in OwnedBy(r), ~IsArchive(k),
           k \in KeysToDelete(ks, min, cut)
    PROVE  /\ min = 0
           /\ \A a \in SnapshotsAt(ks, Prefix[r]) : a.time < cut
<1>1. k \in {Metadata(r)} \cup Documents(r)
  BY DEF OwnedBy, Archive, IsArchive
<1>2. IsReclaimableOrphan(k, Emptied(ks, min, cut))
  BY DEF KeysToDelete, Orphans, Expired, Archives
<1>3. Emptied(ks, min, cut) \subseteq {Prefix[s] : s \in Repositories}
  BY DEF Emptied, Placed, Archives
<1>4. Prefix[r] \in Emptied(ks, min, cut)
  BY <1>1, <1>2, <1>3, OnlyOwnIsReclaimed
<1>. DEFINE S == SnapshotsAt(ks, Prefix[r])
<1>5. S \subseteq Expired(ks, min, cut) /\ S # {}
  BY <1>4 DEF Emptied, SnapshotsAt
<1>6. \A a \in S : a.dir = Prefix[r] /\ a.time \in Days /\ a.time < cut /\ ~Protected(ks, a, min)
  BY <1>5 DEF Expired, SnapshotsAt, Archives, WellFormedSet, WellFormed
<1>7. PICK j \in S : \A i \in S : i.time <= j.time
  <2>. HIDE DEF S
  <2>. QED
    BY <1>5, <1>6, NewestExists
<1>8. Newer(ks, j) = {}
  BY <1>6, <1>7 DEF Newer, Days
<1>9. min = 0
  <2>1. Cardinality(Newer(ks, j)) = 0
    BY <1>8, FS_EmptySet
  <2>. QED
    BY <1>6, <2>1 DEF Protected
<1>. QED
  BY <1>6, <1>9

-----------------------------------------------------------------------------
(* The listing stays what it was. *)

FullInv == Inv /\ ListingOK

\* No snapshot, and none of what a repository has, goes without being due.
Sheds ==
    \A r \in Repositories :
        ((OwnedBy(r) \cap objects) \ Archives(objects)) \ objects' # {} =>
            /\ minimum = 0
            /\ \A a \in SnapshotsAt(objects, Prefix[r]) : a.time < cutoff

\* What a run that ends without a failed request leaves.
Pruned ==
    /\ Expired(objects', minimum, cutoff) = {}
    /\ \A r \in Repositories : Orphaned(r)' => SnapshotsAt(keys, Prefix[r]) = {}

LEMMA FullInit == Init => FullInv
<1>1. Init => ListingOK
  BY DEF Init, ListingOK, Placed
<1>. QED
  BY <1>1, InvInit DEF FullInv

LEMMA PlacedKeys ==
    ASSUME NEW r \in Repositories, NEW d,
           NEW k \in {Archive(r, d), Metadata(r)} \cup Documents(r)
    PROVE  k.dir[1] \in Roots /\ (IsArchive(k) => \E s \in Repositories : k.dir = Prefix[s])
<1>1. CASE k = Archive(r, d)
  BY <1>1, RetentionAssumption DEF Archive
<1>2. CASE k \in {Metadata(r)} \cup Documents(r)
  BY <1>2, OwnIsReclaimed
<1>. QED
  BY <1>1, <1>2

LEMMA ListingWorld ==
    ASSUME FullInv, Tomorrow \/ Stop \/ StartRun
                    \/ (\E r \in Repositories : BackUp(r)) \/ UNCHANGED vars
    PROVE  ListingOK' /\ ~(phase # "idle" /\ phase' = "idle" /\ clean')
<1>. USE DEF FullInv, ListingOK, runVars, requestVars, NewRequest
<1>1. CASE Tomorrow
  BY <1>1 DEF Tomorrow
<1>2. CASE Stop
  BY <1>2 DEF Stop
<1>3. CASE StartRun
  BY <1>3 DEF StartRun, Placed
<1>4. ASSUME NEW r \in Repositories, BackUp(r)
      PROVE  ListingOK' /\ ~(phase # "idle" /\ phase' = "idle" /\ clean')
  <2>1. objects' \subseteq objects \cup {Archive(r, day), Metadata(r)} \cup Documents(r)
    BY <1>4 DEF BackUp
  <2>2. Placed(objects')
    BY <2>1, PlacedKeys DEF Placed
  <2>. QED
    BY <1>4, <2>2 DEF BackUp
<1>5. CASE UNCHANGED vars
  BY <1>5 DEF vars
<1>. QED
  BY <1>1, <1>2, <1>3, <1>4, <1>5

LEMMA ListingLists ==
    ASSUME FullInv, NEW root \in Roots, ListRoot(root) \/ ListRootFails(root)
    PROVE  ListingOK' /\ ~(phase # "idle" /\ phase' = "idle" /\ clean')
<1>1. Placed(objects') /\ Placed(keys')
  BY DEF FullInv, ListingOK, ListRoot, ListRootFails, Placed
<1>. QED
  BY <1>1 DEF FullInv, ListingOK, ListRoot, ListRootFails

\* The listing that a run decides on is of everything that is stored.
LEMMA ListingDecides ==
    ASSUME FullInv, Decide
    PROVE  /\ ListingOK'
           /\ phase # "idle" /\ phase' = "idle" /\ clean' => Pruned
<1>. DEFINE kd == KeysToDelete(keys, minimum, cutoff)
<1>1. /\ phase = "listing" /\ UNCHANGED <<objects, cutoff, minimum, listFailed, keys, clean>>
      /\ remaining' = IF listFailed THEN {} ELSE kd
      /\ phase' = IF remaining' = {} THEN "idle" ELSE "deleting"
  BY DEF Decide
<1>2. ~listFailed => objects = keys
  <2>1. ASSUME ~listFailed, NEW k \in objects PROVE k \in keys
    <3>1. k.dir[1] \in Roots /\ unlisted = {}
      BY DEF FullInv, ListingOK, Placed, Decide
    <3>2. {o \in objects : o.dir[1] = k.dir[1]} \subseteq keys
      BY <1>1, <2>1, <3>1 DEF FullInv, ListingOK
    <3>. QED
      BY <3>2
  <2>. QED
    BY <1>1, <2>1 DEF FullInv, Inv, RunOK
<1>3. phase' = "deleting" => ~listFailed /\ objects' \subseteq keys' /\ remaining' = kd
  BY <1>1, <1>2
<1>4. ListingOK'
  <2>1. Placed(objects') /\ Placed(keys') /\ phase' # "listing"
    BY <1>1 DEF FullInv, ListingOK
  <2>2. KeysToDelete(keys', minimum', cutoff') = kd
    BY <1>1
  <2>. HIDE DEF kd
  <2>. QED
    BY <1>3, <2>1, <2>2 DEF ListingOK
<1>5. ASSUME phase' = "idle", clean' PROVE Pruned
  <2>1. ~listFailed /\ kd = {}
    <3>1. ~listFailed
      BY <1>1, <1>5 DEF FullInv, ListingOK
    <3>. QED
      BY <1>1, <1>5, <3>1
  <2>2. objects' = keys /\ keys \cap kd = {} /\ Archives(keys) \ Expired(keys, minimum, cutoff) \subseteq keys
    BY <1>1, <1>2, <2>1 DEF Archives
  <2>. QED
    BY <2>2, PrunedIsComplete DEF Pruned, Orphaned, FullInv, Inv, Types
<1>. QED
  BY <1>4, <1>5

\* A deletion asks for nothing else, and forgets nothing while no request fails.
LEMMA ListingDeletes ==
    ASSUME FullInv, DeleteBatch \/ RejectBulk \/ DeleteOne \/ DeleteRetried \/ DeleteFails
    PROVE  /\ ListingOK'
           /\ Apart => Sheds
           /\ phase # "idle" /\ phase' = "idle" /\ clean' => Pruned
<1>. DEFINE kd == KeysToDelete(keys, minimum, cutoff)
<1>1. /\ phase = "deleting" /\ UNCHANGED <<cutoff, minimum, keys>>
      /\ phase' \in {"idle", "deleting"}
      /\ clean' => clean
  <2>1. /\ phase = "deleting" /\ UNCHANGED <<cutoff, minimum, keys>>
        /\ phase' \in {"idle", "deleting"}
    BY DEF DeleteBatch, RejectBulk, DeleteOne, DeleteRetried, DeleteFails, runVars, Advance
  <2>2. clean' => clean
    BY Zenon DEF DeleteBatch, RejectBulk, DeleteOne, DeleteRetried, DeleteFails
  <2>. QED
    BY <2>1, <2>2
<1>2. objects' \subseteq objects /\ objects \ objects' \subseteq remaining
  <2>1. CASE DeleteBatch
    BY <2>1, RequestsRemain DEF DeleteBatch, FullInv, Inv
  <2>2. CASE RejectBulk
    BY <2>2 DEF RejectBulk
  <2>3. CASE DeleteOne
    BY <2>3, RequestsRemain DEF DeleteOne, FullInv, Inv
  <2>4. CASE DeleteRetried
    BY <2>4, RequestsRemain DEF DeleteRetried, FullInv, Inv
  <2>5. CASE DeleteFails
    BY <2>5, RequestsRemain DEF DeleteFails, FullInv, Inv
  <2>. QED
    BY <2>1, <2>2, <2>3, <2>4, <2>5
<1>3. clean' => objects' \cap (remaining \ remaining') = {}
  <2>1. CASE DeleteBatch
    <3>1. PICK batch \in Requests :
              \E kept \in SUBSET batch : /\ objects' = objects \ (batch \ kept)
                                         /\ clean' = (clean /\ kept = {})
                                         /\ Advance(batch)
      BY <2>1 DEF DeleteBatch
    <3>. QED
      BY <3>1 DEF Advance
  <2>2. CASE DeleteOne
    BY <2>2 DEF DeleteOne, Advance
  <2>3. CASE RejectBulk \/ DeleteRetried
    BY <2>3 DEF RejectBulk, DeleteRetried, runVars
  <2>4. CASE DeleteFails
    BY <2>4 DEF DeleteFails
  <2>. QED
    BY <2>1, <2>2, <2>3, <2>4
<1>4. objects \subseteq keys /\ (clean => objects \cap kd \subseteq remaining) /\ remaining \subseteq kd
  BY <1>1 DEF FullInv, ListingOK, Inv, RunOK
<1>. HIDE DEF kd
<1>5. objects' \subseteq keys /\ (clean' => objects' \cap kd \subseteq remaining')
  BY <1>1, <1>2, <1>3, <1>4
<1>6. ListingOK'
  <2>1. Placed(objects') /\ Placed(keys')
    BY <1>1, <1>2 DEF FullInv, ListingOK, Placed
  <2>2. KeysToDelete(keys', minimum', cutoff') = kd
    BY <1>1 DEF kd
  <2>. QED
    BY <1>1, <1>5, <2>1, <2>2 DEF ListingOK
<1>7. ASSUME Apart PROVE Sheds
  <2>1. ASSUME NEW r \in Repositories,
               NEW k \in ((OwnedBy(r) \cap objects) \ Archives(objects)) \ objects'
        PROVE  /\ minimum = 0
               /\ \A a \in SnapshotsAt(objects, Prefix[r]) : a.time < cutoff
    <3>1. k \in OwnedBy(r) /\ ~IsArchive(k) /\ k \in kd
      BY <1>2, <1>4 DEF Archives
    <3>2. /\ minimum = 0
          /\ \A a \in SnapshotsAt(keys, Prefix[r]) : a.time < cutoff
      BY <1>7, <3>1, OrphanedIsExpired DEF FullInv, Inv, Types, ListingOK, kd
    <3>. QED
      BY <1>4, <3>2 DEF SnapshotsAt, Archives
  <2>. QED
    BY <2>1 DEF Sheds
<1>8. ASSUME phase' = "idle", clean' PROVE Pruned
  <2>1. remaining' = {}
    BY <1>1, <1>8 DEF DeleteBatch, RejectBulk, DeleteOne, DeleteRetried, DeleteFails, Advance
  <2>2. Archives(keys) \ Expired(keys, minimum, cutoff) \subseteq objects'
    BY <1>2, <1>1, <1>4 DEF FullInv, Inv, RunOK, kd, KeysToDelete, Orphans
  <2>3. objects' \cap kd = {}
    BY <1>5, <1>8, <2>1
  <2>. QED
    BY <1>5, <2>2, <2>3, PrunedIsComplete DEF Pruned, Orphaned, FullInv, Inv, Types, kd
<1>. QED
  BY <1>6, <1>7, <1>8

LEMMA FullStep ==
    FullInv /\ [Next]_vars =>
        /\ FullInv'
        /\ Apart => Sheds \/ objects \subseteq objects'
        /\ phase # "idle" /\ phase' = "idle" /\ clean' => Pruned
<1>. SUFFICES ASSUME FullInv, [Next]_vars
              PROVE  /\ FullInv'
                     /\ Apart => Sheds \/ objects \subseteq objects'
                     /\ phase # "idle" /\ phase' = "idle" /\ clean' => Pruned
  OBVIOUS
<1>1. Inv' /\ Inv
  BY InvStep DEF FullInv
<1>2. CASE Tomorrow \/ Stop \/ StartRun \/ (\E r \in Repositories : BackUp(r)) \/ UNCHANGED vars
  BY <1>1, <1>2, ListingWorld, WorldStep DEF FullInv
<1>3. ASSUME NEW root \in Roots, ListRoot(root) \/ ListRootFails(root)
      PROVE  /\ FullInv'
             /\ Apart => Sheds \/ objects \subseteq objects'
             /\ phase # "idle" /\ phase' = "idle" /\ clean' => Pruned
  BY <1>1, <1>3, ListingLists, ListStep DEF FullInv
<1>4. CASE Decide
  BY <1>1, <1>4, ListingDecides, WorldStep DEF FullInv
<1>5. CASE DeleteBatch \/ RejectBulk \/ DeleteOne \/ DeleteRetried \/ DeleteFails
  BY <1>1, <1>5, ListingDeletes DEF FullInv
<1>. QED
  BY <1>2, <1>3, <1>4, <1>5 DEF Next

\* A run in which no request failed leaves no expired snapshot, and nothing else of a
\* repository that it emptied (retention.go:87-90), across batches, rejected bulk
\* deletes and repeated attempts.
THEOREM PruneIsComplete == Spec => PruneComplete
<1>1. FullInv /\ [Next]_vars =>
        [phase # "idle" /\ phase' = "idle" /\ clean' =>
            /\ Expired(objects', minimum, cutoff) = {}
            /\ \A r \in Repositories : Orphaned(r)' => SnapshotsAt(keys, Prefix[r]) = {}]_vars
  BY FullStep DEF Pruned
<1>2. FullInv /\ [Next]_vars => FullInv'
  BY FullStep
<1>. QED
  BY <1>1, <1>2, FullInit, PTL DEF Spec, PruneComplete

\* What a repository stores beside its snapshots goes only when no snapshot it still
\* has is to be kept; a repository nested under it is judged by its own
\* (retention.go:161-165).
THEOREM KeptIsIntact == Apart => (Spec => KeptRepositoryIntact)
<1>. SUFFICES ASSUME Apart PROVE Spec => KeptRepositoryIntact
  OBVIOUS
<1>1. FullInv /\ [Next]_vars =>
        [\A r \in Repositories :
            ((OwnedBy(r) \cap objects) \ Archives(objects)) \ objects' # {} =>
                /\ minimum = 0
                /\ \A a \in SnapshotsAt(objects, Prefix[r]) : a.time < cutoff]_vars
  <2>1. objects \subseteq objects' =>
            \A r \in Repositories : ((OwnedBy(r) \cap objects) \ Archives(objects)) \ objects' = {}
    OBVIOUS
  <2>. QED
    BY <2>1, FullStep DEF Sheds
<1>2. FullInv /\ [Next]_vars => FullInv'
  BY FullStep
<1>. QED
  BY <1>1, <1>2, FullInit, PTL DEF Spec, KeptRepositoryIntact
-----------------------------------------------------------------------------
(* Discovery: walks and pages. *)

LEMMA WalksAre ==
    /\ DOMAIN Endpoints = 1..4
    /\ Endpoints[1] = "owned" /\ Endpoints[2] = "starred"
    /\ Endpoints[3] = "snippets" /\ Endpoints[4] = "starredGists"
    /\ Walks = {"owned", "starred", "snippets", "starredGists"}
<1>1. /\ DOMAIN Endpoints = 1..4
      /\ Endpoints[1] = "owned" /\ Endpoints[2] = "starred"
      /\ Endpoints[3] = "snippets" /\ Endpoints[4] = "starredGists"
  BY DEF Endpoints
<1>2. \A i \in 1..4 : i \in {1, 2, 3, 4}
  OBVIOUS
<1>3. Walks = {Endpoints[i] : i \in 1..4}
  BY <1>1 DEF Walks, Range
<1>. QED
  BY <1>1, <1>2, <1>3

LEMMA RangeIs ==
    ASSUME NEW S, NEW s \in Seq(S)
    PROVE  /\ Len(s) \in Nat /\ DOMAIN s = 1..Len(s)
           /\ Range(s) \subseteq S
           /\ \A x : x \in Range(s) <=> \E i \in 1..Len(s) : s[i] = x
BY DEF Range

LEMMA ConcatFacts ==
    ASSUME NEW S, NEW a \in Seq(S), NEW b \in Seq(S)
    PROVE  /\ a \o b \in Seq(S)
           /\ Len(a) \in Nat /\ Len(b) \in Nat /\ Len(a \o b) = Len(a) + Len(b)
           /\ \A k \in 1..Len(a) : (a \o b)[k] = a[k]
           /\ \A k \in 1..Len(b) : (a \o b)[Len(a) + k] = b[k]
OBVIOUS

\* Where the entries of a listing are after another came in before the i-th.
LEMMA InsertFacts ==
    ASSUME NEW S, NEW s \in Seq(S), NEW i \in 1..(Len(s) + 1), NEW e \in S
    PROVE  /\ InsertAt(s, i, e) \in Seq(S)
           /\ Len(InsertAt(s, i, e)) = Len(s) + 1
           /\ InsertAt(s, i, e)[i] = e
           /\ \A k \in 1..Len(s) :
                InsertAt(s, i, e)[IF k < i THEN k ELSE k + 1] = s[k]
<1>0. \A x, y \in Seq(S) :
        /\ x \o y \in Seq(S) /\ Len(x \o y) = Len(x) + Len(y)
        /\ \A k \in 1..Len(x) : (x \o y)[k] = x[k]
        /\ \A k \in 1..Len(y) : (x \o y)[Len(x) + k] = y[k]
  BY ConcatFacts
<1>. DEFINE a == SubSeq(s, 1, i - 1)
            b == SubSeq(s, i, Len(s))
            c == a \o <<e>>
<1>1. Len(s) \in Nat /\ i \in Nat \ {0} /\ i <= Len(s) + 1
  OBVIOUS
<1>2. /\ a \in Seq(S) /\ Len(a) = i - 1
      /\ \A k \in 1..(i - 1) : a[k] = s[k]
  OBVIOUS
<1>3. /\ b \in Seq(S) /\ Len(b) = Len(s) - i + 1
      /\ \A k \in 1..(Len(s) - i + 1) : b[k] = s[i + k - 1]
  OBVIOUS
<1>4. <<e>> \in Seq(S) /\ Len(<<e>>) = 1 /\ <<e>>[1] = e
  OBVIOUS
<1>5. InsertAt(s, i, e) = c \o b
  BY DEF InsertAt
<1>. HIDE DEF a, b
<1>6. /\ c \in Seq(S) /\ Len(c) = i
      /\ \A k \in 1..(i - 1) : c[k] = a[k]
      /\ c[i] = e
  <2>1. /\ c \in Seq(S) /\ Len(c) = (i - 1) + 1
        /\ \A k \in 1..(i - 1) : c[k] = a[k]
        /\ c[(i - 1) + 1] = e
    <3>1. /\ a \o <<e>> \in Seq(S) /\ Len(a \o <<e>>) = Len(a) + Len(<<e>>)
          /\ \A k \in 1..Len(a) : (a \o <<e>>)[k] = a[k]
          /\ \A k \in 1..Len(<<e>>) : (a \o <<e>>)[Len(a) + k] = <<e>>[k]
      BY <1>0, <1>2, <1>4, Zenon
    <3>2. 1 \in 1..Len(<<e>>)
      BY <1>4
    <3>3. (a \o <<e>>)[Len(a) + 1] = e
      BY <1>4, <3>1, <3>2
    <3>. QED
      BY <1>2, <1>4, <3>1, <3>3
  <2>2. (i - 1) + 1 = i
    BY <1>1
  <2>. QED
    BY <2>1, <2>2
<1>. HIDE DEF c
<1>7. /\ c \o b \in Seq(S) /\ Len(c \o b) = i + (Len(s) - i + 1)
      /\ \A k \in 1..i : (c \o b)[k] = c[k]
      /\ \A k \in 1..(Len(s) - i + 1) : (c \o b)[i + k] = b[k]
  <2>1. /\ c \o b \in Seq(S) /\ Len(c \o b) = Len(c) + Len(b)
        /\ \A k \in 1..Len(c) : (c \o b)[k] = c[k]
        /\ \A k \in 1..Len(b) : (c \o b)[Len(c) + k] = b[k]
    <3>1. b \in Seq(S) /\ c \in Seq(S)
      BY <1>3, <1>6
    <3>. QED
      BY <3>1, <1>0
  <2>. QED
    BY <1>3, <1>6, <2>1
<1>8. i + (Len(s) - i + 1) = Len(s) + 1 /\ i \in 1..i
  BY <1>1
<1>9. ASSUME NEW k \in 1..Len(s)
      PROVE  (c \o b)[IF k < i THEN k ELSE k + 1] = s[k]
  <2>1. CASE k < i
    <3>1. k \in 1..(i - 1) /\ k \in 1..i
      BY <1>1, <2>1
    <3>. QED
      BY <1>2, <1>6, <1>7, <2>1, <3>1
  <2>2. CASE ~(k < i)
    <3>1. k - i + 1 \in 1..(Len(s) - i + 1) /\ i + (k - i + 1) = k + 1 /\ i + (k - i + 1) - 1 = k
      BY <1>1, <2>2
    <3>2. b[k - i + 1] = s[k] /\ (c \o b)[k + 1] = b[k - i + 1]
      BY <1>3, <1>7, <3>1
    <3>. QED
      BY <2>2, <3>2
  <2>. QED
    BY <2>1, <2>2
<1>. QED
  BY <1>5, <1>6, <1>7, <1>8, <1>9

\* And after the i-th was removed.
LEMMA RemoveFacts ==
    ASSUME NEW S, NEW s \in Seq(S), NEW i \in 1..Len(s)
    PROVE  /\ RemoveAt(s, i) \in Seq(S)
           /\ Len(RemoveAt(s, i)) = Len(s) - 1
           /\ \A k \in 1..(Len(s) - 1) : RemoveAt(s, i)[k] = s[IF k < i THEN k ELSE k + 1]
<1>0. \A x, y \in Seq(S) :
        /\ x \o y \in Seq(S) /\ Len(x \o y) = Len(x) + Len(y)
        /\ \A k \in 1..Len(x) : (x \o y)[k] = x[k]
        /\ \A k \in 1..Len(y) : (x \o y)[Len(x) + k] = y[k]
  BY ConcatFacts
<1>. DEFINE a == SubSeq(s, 1, i - 1)
            b == SubSeq(s, i + 1, Len(s))
<1>1. Len(s) \in Nat /\ i \in Nat \ {0} /\ i <= Len(s)
  OBVIOUS
<1>2. /\ a \in Seq(S) /\ Len(a) = i - 1
      /\ \A k \in 1..(i - 1) : a[k] = s[k]
  OBVIOUS
<1>3. /\ b \in Seq(S) /\ Len(b) = Len(s) - i
      /\ \A k \in 1..(Len(s) - i) : b[k] = s[i + k]
  OBVIOUS
<1>4. RemoveAt(s, i) = a \o b
  BY DEF RemoveAt
<1>. HIDE DEF a, b
<1>5. /\ a \o b \in Seq(S) /\ Len(a \o b) = (i - 1) + (Len(s) - i)
      /\ \A k \in 1..(i - 1) : (a \o b)[k] = a[k]
      /\ \A k \in 1..(Len(s) - i) : (a \o b)[(i - 1) + k] = b[k]
  <2>1. /\ a \o b \in Seq(S) /\ Len(a \o b) = Len(a) + Len(b)
        /\ \A k \in 1..Len(a) : (a \o b)[k] = a[k]
        /\ \A k \in 1..Len(b) : (a \o b)[Len(a) + k] = b[k]
    <3>1. a \in Seq(S) /\ b \in Seq(S)
      BY <1>2, <1>3
    <3>. QED
      BY <3>1, <1>0
  <2>. QED
    BY <1>2, <1>3, <2>1
<1>6. (i - 1) + (Len(s) - i) = Len(s) - 1
  BY <1>1
<1>7. ASSUME NEW k \in 1..(Len(s) - 1)
      PROVE  (a \o b)[k] = s[IF k < i THEN k ELSE k + 1]
  <2>1. CASE k < i
    <3>1. k \in 1..(i - 1)
      BY <1>1, <2>1
    <3>. QED
      BY <1>2, <1>5, <2>1, <3>1
  <2>2. CASE ~(k < i)
    <3>1. k - i + 1 \in 1..(Len(s) - i) /\ (i - 1) + (k - i + 1) = k /\ i + (k - i + 1) = k + 1
      BY <1>1, <2>2
    <3>2. (a \o b)[k] = b[k - i + 1] /\ b[k - i + 1] = s[k + 1]
      BY <1>3, <1>5, <3>1
    <3>. QED
      BY <2>2, <3>2
  <2>. QED
    BY <2>1, <2>2
<1>. QED
  BY <1>4, <1>5, <1>6, <1>7

\* The entries of a page that starts at an offset.
LEMMA PageFacts ==
    ASSUME NEW S, NEW s \in Seq(S), NEW from \in Nat, NEW size \in Nat \ {0}, NEW page,
           page = SubSeq(s, from + 1, IF from + size < Len(s) THEN from + size ELSE Len(s))
    PROVE  /\ page \in Seq(S)
           /\ from + size < Len(s) => Len(page) = size
           /\ \A k \in 1..Len(s) : k > from /\ k <= from + size => s[k] \in Range(page)
<1>. DEFINE last == IF from + size < Len(s) THEN from + size ELSE Len(s)
<1>1. Len(s) \in Nat /\ last \in Nat /\ last <= Len(s) /\ last <= from + size
  OBVIOUS
<1>2. /\ page \in Seq(S)
      /\ Len(page) = IF from + 1 <= last THEN last - from ELSE 0
      /\ \A j \in 1..Len(page) : page[j] = s[from + j]
  <2>. HIDE DEF last
  <2>1. page = SubSeq(s, from + 1, last)
    BY DEF last
  <2>. QED
    BY <1>1, <2>1
<1>3. ASSUME NEW k \in 1..Len(s), k > from, k <= from + size PROVE s[k] \in Range(page)
  <2>1. k <= last /\ k - from \in 1..Len(page) /\ from + (k - from) = k
    BY <1>1, <1>2, <1>3
  <2>2. page[k - from] = s[k]
    BY <1>2, <2>1
  <2>3. DOMAIN page = 1..Len(page)
    BY <1>2
  <2>. QED
    BY Zenon, <2>1, <2>2, <2>3 DEF Range
<1>4. from + size < Len(s) => Len(page) = size
  BY <1>2
<1>. QED
  BY <1>2, <1>3, <1>4

LEMMA JoinedRange ==
    ASSUME NEW S, NEW a \in Seq(S), NEW b \in Seq(S)
    PROVE  \E c \in Seq(S) : c = a \o b /\ Range(a) \subseteq Range(c) /\ Range(b) \subseteq Range(c)
<1>1. PICK c \in Seq(S) :
          /\ c = a \o b
          /\ Len(a) \in Nat /\ Len(b) \in Nat /\ Len(c) = Len(a) + Len(b)
          /\ \A k \in 1..Len(a) : c[k] = a[k]
          /\ \A k \in 1..Len(b) : c[Len(a) + k] = b[k]
  <2>1. /\ a \o b \in Seq(S)
        /\ Len(a) \in Nat /\ Len(b) \in Nat /\ Len(a \o b) = Len(a) + Len(b)
        /\ \A k \in 1..Len(a) : (a \o b)[k] = a[k]
        /\ \A k \in 1..Len(b) : (a \o b)[Len(a) + k] = b[k]
    BY ConcatFacts
  <2>. QED
    BY Zenon, <2>1
<1>2. ASSUME NEW x \in Range(a) PROVE x \in Range(c)
  <2>1. PICK k \in 1..Len(a) : a[k] = x
    BY <1>2, RangeIs
  <2>2. k \in 1..Len(c) /\ c[k] = x
    BY <1>1, <2>1
  <2>. QED
    BY <2>2, RangeIs
<1>3. ASSUME NEW x \in Range(b) PROVE x \in Range(c)
  <2>1. PICK k \in 1..Len(b) : b[k] = x
    BY <1>3, RangeIs
  <2>2. Len(a) + k \in 1..Len(c) /\ c[Len(a) + k] = x
    BY <1>1, <2>1
  <2>. QED
    BY <2>2, RangeIs
<1>. QED
  BY <1>1, <1>2, <1>3

-----------------------------------------------------------------------------
(* The inductive invariant of discovery. *)

Stages == {"asking", "waiting", "hung", "done", "failed"}

Answers == {"nothing yet", "list", "error"}

DiscoveryTypes ==
    /\ job \in [provider : Providers, key : BOOLEAN, starred : BOOLEAN, snippets : BOOLEAN]
    /\ listing \in [Walks -> Seq(Urls)]
    /\ throughout \in [Walks -> SUBSET Urls]
    /\ shifted \in SUBSET Walks
    /\ walk \in [Walks -> [at : Stages, page : Nat \ {0}, attempt : Nat, items : Seq(Urls)]]
    /\ result.said \in Answers

\* What was listed throughout is listed now.
StillListed(w) == throughout[w] \subseteq Range(listing[w])

\* Of what was listed throughout, the pages read so far have brought all that is
\* within their reach.
WithinReach(w) ==
    walk[w].at \in {"asking", "waiting"} =>
        \A i \in 1..Len(listing[w]) :
            listing[w][i] \in throughout[w] /\ i <= Fetched(w) =>
                listing[w][i] \in Range(walk[w].items)

\* And a walk that is done has brought it all.
Brought(w) == walk[w].at = "done" => throughout[w] \subseteq Range(walk[w].items)

\* A list is that of walks that are all done.
Merged ==
    /\ result.said = "list" /\ job.key =>
           /\ \A w \in Wanted : walk[w].at = "done"
           /\ result.list = FirstOccurrences
    /\ ~(result.said = "list" /\ job.key) => result.list = {}

DiscoveryInv ==
    /\ DiscoveryTypes
    /\ \A w \in Walks : StillListed(w)
    /\ \A w \in Walks \ shifted : WithinReach(w) /\ Brought(w)
    /\ Merged

LEMMA DiscoveryInitially == DiscoveryInit => DiscoveryInv
<1>. SUFFICES ASSUME DiscoveryInit PROVE DiscoveryInv
  OBVIOUS
<1>1. /\ listing \in [Walks -> Seq(Urls)]
      /\ throughout = [w \in Walks |-> Range(listing[w])]
      /\ shifted = {}
      /\ walk = [w \in Walks |-> Asking]
      /\ result = Running
  BY DiscoveryAssumption DEF DiscoveryInit
<1>2. \A w \in Walks : Range(listing[w]) \in SUBSET Urls
  BY <1>1, RangeIs
<1>3. throughout \in [Walks -> SUBSET Urls]
  BY <1>1, <1>2
<1>4. <<>> \in Seq(Urls)
  OBVIOUS
<1>5. Asking \in [at : Stages, page : Nat \ {0}, attempt : Nat, items : Seq(Urls)]
  BY <1>4 DEF Asking, Stages
<1>6. DiscoveryTypes
  <2>1. job \in [provider : Providers, key : BOOLEAN, starred : BOOLEAN, snippets : BOOLEAN]
    BY DEF DiscoveryInit
  <2>2. shifted \in SUBSET Walks /\ result.said \in Answers
    BY <1>1 DEF Running, Answers
  <2>3. walk \in [Walks -> [at : Stages, page : Nat \ {0}, attempt : Nat, items : Seq(Urls)]]
    BY <1>1, <1>5
  <2>. QED
    BY Zenon, <1>1, <1>3, <2>1, <2>2, <2>3 DEF DiscoveryTypes
<1>7. ASSUME NEW w \in Walks PROVE StillListed(w) /\ WithinReach(w) /\ Brought(w)
  <2>1. StillListed(w)
    BY <1>1 DEF StillListed
  <2>2. Fetched(w) = 0
    <3>1. walk[w].page = 1 /\ job.provider \in Providers
      BY <1>1 DEF Asking, DiscoveryInit
    <3>2. Served[job.provider] \in Nat
      BY <3>1, DiscoveryAssumption
    <3>. QED
      BY <3>1, <3>2 DEF Fetched
  <2>. QED
    BY <1>1, <2>1, <2>2 DEF WithinReach, Brought, Asking
<1>8. Merged
  BY <1>1 DEF Merged, Running
<1>. QED
  BY <1>6, <1>7, <1>8 DEF DiscoveryInv

\* What the forge grants.
LEMMA PageSizes ==
    ASSUME DiscoveryTypes
    PROVE  /\ Served[job.provider] \in Nat \ {0} /\ PageSize \in Nat \ {0}
           /\ job.provider # "gitlab" => Served[job.provider] = PageSize
           /\ \A w \in Walks : Fetched(w) \in Nat
<1>1. job.provider \in Providers
  BY DEF DiscoveryTypes
<1>2. PICK n \in Nat \ {0} : n = Served[job.provider]
  BY <1>1, DiscoveryAssumption
<1>3. ASSUME NEW w \in Walks PROVE Fetched(w) \in Nat
  <2>1. PICK m \in Nat : m = walk[w].page - 1
    BY DEF DiscoveryTypes
  <2>2. m * n \in Nat
    BY <1>2
  <2>. QED
    BY <1>2, <2>1, <2>2 DEF Fetched
<1>. QED
  BY <1>1, <1>2, <1>3, DiscoveryAssumption

\* While the call has not returned, nothing is claimed of the answer.
LEMMA NotMerged == ASSUME result' = Running PROVE Merged'
BY DEF Merged, Running

-----------------------------------------------------------------------------
(* The world. *)

LEMMA AddStep ==
    ASSUME DiscoveryInv, NEW w \in Walks, Add(w)
    PROVE  DiscoveryInv'
<1>1. PICK u \in Newcomers \ Range(listing[w]), i \in 1..(Len(listing[w]) + 1) :
          listing' = [listing EXCEPT ![w] = InsertAt(@, i, u)]
  BY DEF Add
<1>2. /\ UNCHANGED <<job, throughout, shifted, walk, result>>
      /\ result = Running
  BY DEF Add, Walked, Live
<1>3. PICK old, new : old \in Seq(Urls) /\ old = listing[w] /\ new = InsertAt(old, i, u)
  BY DEF DiscoveryInv, DiscoveryTypes
<1>4. old \in Seq(Urls) /\ u \in Urls /\ i \in 1..(Len(old) + 1)
  BY <1>1, <1>3, DiscoveryAssumption
<1>5. /\ new \in Seq(Urls)
      /\ Len(new) = Len(old) + 1
      /\ new[i] = u
      /\ \A k \in 1..Len(old) : new[IF k < i THEN k ELSE k + 1] = old[k]
  <2>1. /\ InsertAt(old, i, u) \in Seq(Urls)
        /\ Len(InsertAt(old, i, u)) = Len(old) + 1
        /\ InsertAt(old, i, u)[i] = u
        /\ \A k \in 1..Len(old) : InsertAt(old, i, u)[IF k < i THEN k ELSE k + 1] = old[k]
    BY <1>4, InsertFacts
  <2>. QED
    BY Zenon, <1>3, <2>1
<1>6. Len(old) \in Nat /\ i \in Nat \ {0}
  BY <1>4
<1>7. /\ listing' \in [Walks -> Seq(Urls)]
      /\ listing'[w] = new
      /\ \A v \in Walks \ {w} : listing'[v] = listing[v]
  BY <1>1, <1>3, <1>5 DEF DiscoveryInv, DiscoveryTypes
<1>8. DiscoveryTypes'
  BY <1>2, <1>7 DEF DiscoveryInv, DiscoveryTypes
<1>9. u \notin throughout[w]
  BY <1>1 DEF DiscoveryInv, StillListed
<1>10. ASSUME NEW v \in Walks PROVE StillListed(v)'
  <2>1. CASE v # w
    BY <1>2, <1>7, <2>1 DEF DiscoveryInv, StillListed
  <2>2. CASE v = w
    <3>1. ASSUME NEW x \in throughout[w] PROVE x \in Range(new)
      <4>1. x \in Range(old)
        BY <1>3, <3>1 DEF DiscoveryInv, StillListed
      <4>2. PICK k \in 1..Len(old) : old[k] = x
        BY <1>4, <4>1, RangeIs
      <4>3. (IF k < i THEN k ELSE k + 1) \in 1..Len(new)
        BY <1>5, <1>6
      <4>. QED
        BY <1>5, <4>2, <4>3, RangeIs
    <3>. QED
      BY <1>2, <1>7, <2>2, <3>1 DEF StillListed
  <2>. QED
    BY <2>1, <2>2
<1>11. ASSUME NEW v \in Walks \ shifted PROVE WithinReach(v)' /\ Brought(v)'
  <2>1. CASE v # w
    BY <1>2, <1>7, <2>1 DEF DiscoveryInv, WithinReach, Brought, Fetched
  <2>2. CASE v = w
    <3>1. Fetched(w) \in Nat /\ Fetched(w)' = Fetched(w)
      BY <1>2, PageSizes DEF DiscoveryInv, Fetched
    <3>2. ASSUME walk[w].at \in {"asking", "waiting"}, NEW j \in 1..Len(new),
                 new[j] \in throughout[w], j <= Fetched(w)
          PROVE  new[j] \in Range(walk[w].items)
      <4>1. j # i
        BY <1>5, <1>9, <3>2
      <4>2. PICK k \in 1..Len(old) : k <= j /\ new[j] = old[k]
        <5>1. CASE j < i
          <6>1. j \in 1..Len(old)
            BY <1>5, <1>6, <5>1, <1>4
          <6>. QED
            BY <1>5, <5>1, <6>1
        <5>2. CASE j > i
          <6>1. j - 1 \in 1..Len(old) /\ ~(j - 1 < i) /\ (j - 1) + 1 = j
            BY <1>5, <1>6, <5>2
          <6>2. new[j] = old[j - 1]
            BY <1>5, <6>1
          <6>. QED
            BY <1>6, <5>2, <6>1, <6>2
        <5>. QED
          BY <1>6, <4>1, <5>1, <5>2
      <4>3. k <= Fetched(w)
        BY <3>1, <3>2, <4>2, <1>6
      <4>. QED
        BY <1>3, <2>2, <3>2, <4>2, <4>3 DEF DiscoveryInv, WithinReach
    <3>. QED
      BY <1>2, <1>7, <2>2, <3>1, <3>2 DEF DiscoveryInv, WithinReach, Brought
  <2>. QED
    BY <2>1, <2>2
<1>. QED
  BY <1>2, <1>8, <1>10, <1>11, NotMerged DEF DiscoveryInv

LEMMA WithdrawStep ==
    ASSUME DiscoveryInv, NEW w \in Walks, Withdraw(w)
    PROVE  DiscoveryInv'
<1>1. PICK i \in DOMAIN listing[w] :
          /\ listing' = [listing EXCEPT ![w] = RemoveAt(@, i)]
          /\ throughout' = [throughout EXCEPT ![w] = @ \ {listing[w][i]}]
          /\ shifted' = IF i <= Fetched(w) THEN shifted \cup {w} ELSE shifted
  BY DEF Withdraw
<1>2. /\ UNCHANGED <<job, walk, result>>
      /\ result = Running
      /\ walk[w].at \in {"asking", "waiting"}
  BY DEF Withdraw, Walked, Live
<1>3. PICK old, new : old \in Seq(Urls) /\ old = listing[w] /\ new = RemoveAt(old, i)
  BY DEF DiscoveryInv, DiscoveryTypes
<1>4. old \in Seq(Urls) /\ i \in 1..Len(old)
  BY <1>1, <1>3
<1>5. /\ new \in Seq(Urls)
      /\ Len(new) = Len(old) - 1
      /\ \A k \in 1..(Len(old) - 1) : new[k] = old[IF k < i THEN k ELSE k + 1]
  BY <1>3, <1>4, RemoveFacts
<1>6. Len(old) \in Nat /\ i \in Nat \ {0} /\ i <= Len(old)
  BY <1>4
<1>7. /\ listing' \in [Walks -> Seq(Urls)]
      /\ listing'[w] = new
      /\ \A v \in Walks \ {w} : listing'[v] = listing[v]
      /\ throughout' \in [Walks -> SUBSET Urls]
      /\ throughout'[w] = throughout[w] \ {old[i]}
      /\ \A v \in Walks \ {w} : throughout'[v] = throughout[v]
  BY <1>1, <1>3, <1>5 DEF DiscoveryInv, DiscoveryTypes
<1>8. DiscoveryTypes'
  <2>1. shifted' \in SUBSET Walks
    BY <1>1 DEF DiscoveryInv, DiscoveryTypes
  <2>. QED
    BY <1>2, <1>7, <2>1 DEF DiscoveryInv, DiscoveryTypes
<1>9. ASSUME NEW v \in Walks PROVE StillListed(v)'
  <2>1. CASE v # w
    BY <1>7, <2>1 DEF DiscoveryInv, StillListed
  <2>2. CASE v = w
    <3>1. ASSUME NEW x \in throughout[w] \ {old[i]} PROVE x \in Range(new)
      <4>1. x \in Range(old)
        BY <1>3, <3>1 DEF DiscoveryInv, StillListed
      <4>2. PICK k \in 1..Len(old) : old[k] = x
        BY <1>4, <4>1, RangeIs
      <4>3. k # i
        BY <3>1, <4>2
      <4>4. PICK j \in 1..(Len(old) - 1) : k = IF j < i THEN j ELSE j + 1
        <5>1. CASE k < i
          BY <1>6, <5>1
        <5>2. CASE k > i
          <6>1. k - 1 \in 1..(Len(old) - 1) /\ ~(k - 1 < i) /\ k = (k - 1) + 1
            BY <1>6, <5>2
          <6>. QED
            BY <6>1
        <5>. QED
          BY <1>6, <4>3, <5>1, <5>2
      <4>5. new[j] = x /\ j \in 1..Len(new)
        BY <1>5, <4>2, <4>4
      <4>. QED
        BY <1>5, <4>5, RangeIs
    <3>. QED
      BY <1>7, <2>2, <3>1 DEF StillListed
  <2>. QED
    BY <2>1, <2>2
<1>10. ASSUME NEW v \in Walks \ shifted' PROVE WithinReach(v)' /\ Brought(v)'
  <2>0. v \notin shifted
    BY <1>1, <1>10
  <2>1. CASE v # w
    BY <1>2, <1>7, <2>0, <2>1 DEF DiscoveryInv, WithinReach, Brought, Fetched
  <2>2. CASE v = w
    <3>1. Fetched(w) \in Nat /\ Fetched(w)' = Fetched(w)
      BY <1>2, PageSizes DEF DiscoveryInv, Fetched
    <3>2. Fetched(w) < i
      BY <1>1, <1>6, <1>10, <2>2, <3>1
    <3>3. ASSUME NEW j \in 1..Len(new), new[j] \in throughout[w] \ {old[i]}, j <= Fetched(w)
          PROVE  new[j] \in Range(walk[w].items)
      <4>1. j < i /\ j \in 1..(Len(old) - 1) /\ j \in 1..Len(old)
        BY <1>5, <1>6, <3>1, <3>2, <3>3
      <4>2. new[j] = old[j]
        BY <1>5, <4>1
      <4>. QED
        BY <1>2, <1>3, <2>0, <2>2, <3>3, <4>1, <4>2 DEF DiscoveryInv, WithinReach
    <3>4. walk[w].at # "done"
      BY <1>2
    <3>. QED
      BY <1>2, <1>7, <2>2, <3>1, <3>3, <3>4 DEF WithinReach, Brought
  <2>. QED
    BY <2>1, <2>2
<1>. QED
  BY <1>2, <1>8, <1>9, <1>10, NotMerged DEF DiscoveryInv

-----------------------------------------------------------------------------
(* The walks. *)

States == [at : Stages, page : Nat \ {0}, attempt : Nat, items : Seq(Urls)]

LEMMA WalkMoves ==
    ASSUME DiscoveryInv, NEW w \in Walks, Live(w),
           NEW state \in States, Becomes(w, state),
           w \notin shifted =>
               /\ state.at \in {"asking", "waiting"} =>
                      \A i \in 1..Len(listing[w]) :
                          /\ listing[w][i] \in throughout[w]
                          /\ i <= (state.page - 1) * Served[job.provider]
                          => listing[w][i] \in Range(state.items)
               /\ state.at = "done" => throughout[w] \subseteq Range(state.items)
    PROVE  DiscoveryInv'
<1>1. /\ walk' \in [Walks -> States]
      /\ walk'[w] = state
      /\ \A v \in Walks \ {w} : walk'[v] = walk[v]
  BY DEF DiscoveryInv, DiscoveryTypes, States, Becomes
<1>2. /\ UNCHANGED <<job, listing, throughout, shifted, result>>
      /\ result = Running
  BY DEF Becomes, upstreamVars, Live
<1>3. DiscoveryTypes'
  BY <1>1, <1>2 DEF DiscoveryInv, DiscoveryTypes, States
<1>4. \A v \in Walks : StillListed(v)'
  BY <1>2 DEF DiscoveryInv, StillListed
<1>5. ASSUME NEW v \in Walks \ shifted' PROVE WithinReach(v)' /\ Brought(v)'
  <2>1. v \in Walks \ shifted
    BY <1>2
  <2>2. CASE v # w
    BY <1>1, <1>2, <2>1, <2>2 DEF DiscoveryInv, WithinReach, Brought, Fetched
  <2>3. CASE v = w
    BY <1>1, <1>2, <2>1, <2>3 DEF WithinReach, Brought, Fetched
  <2>. QED
    BY <2>2, <2>3
<1>. QED
  BY <1>2, <1>3, <1>4, <1>5, NotMerged DEF DiscoveryInv

\* A walk that fails has nothing to show.
LEMMA FailStep ==
    ASSUME DiscoveryInv, NEW w \in Walks, Live(w), Fails(w)
    PROVE  DiscoveryInv'
<1>. DEFINE state == [Asking EXCEPT !.at = "failed"]
<1>0. 1 \in Nat \ {0} /\ 1 \in Nat
  OBVIOUS
<1>1. <<>> \in Seq(Urls)
  OBVIOUS
<1>2. state \in States /\ state.at = "failed"
  <2>1. Asking \in States
    BY Zenon, <1>1, <1>0 DEF States, Stages, Asking
  <2>2. "failed" \in Stages
    BY DEF Stages
  <2>. QED
    BY <2>1, <2>2 DEF States
<1>3. Becomes(w, state)
  BY DEF Fails
<1>. HIDE DEF state
<1>. QED
  BY <1>2, <1>3, WalkMoves

\* The place and the count of attempts of a walk are no part of what it brings.
LEMMA PauseStep ==
    ASSUME DiscoveryInv, NEW w \in Walks, Live(w),
           walk[w].at \in {"asking", "waiting"},
           NEW place \in Stages \ {"done"}, NEW tries \in Nat,
           Becomes(w, [walk[w] EXCEPT !.at = place, !.attempt = tries])
    PROVE  DiscoveryInv'
<1>1. PICK state : state = [walk[w] EXCEPT !.at = place, !.attempt = tries]
  OBVIOUS
<1>2. /\ state \in States
      /\ state.at = place /\ state.page = walk[w].page /\ state.items = walk[w].items
  BY <1>1 DEF DiscoveryInv, DiscoveryTypes, States
<1>3. w \notin shifted =>
          \A i \in 1..Len(listing[w]) :
              /\ listing[w][i] \in throughout[w]
              /\ i <= (state.page - 1) * Served[job.provider]
              => listing[w][i] \in Range(state.items)
  BY <1>2 DEF DiscoveryInv, WithinReach, Fetched
<1>. QED
  BY <1>1, <1>2, <1>3, WalkMoves

LEMMA PageStep ==
    ASSUME DiscoveryInv, NEW w \in Walks, Page(w)
    PROVE  DiscoveryInv'
<1>. DEFINE has == HasNext(w, walk[w].page)
<1>1. /\ Live(w) /\ walk[w].at = "asking"
      /\ walk[w] \in States
  BY DEF Page, DiscoveryInv, DiscoveryTypes, States
<1>2. PICK s \in Seq(Urls), p \in Nat \ {0}, size \in Nat \ {0}, old \in Seq(Urls) :
          /\ s = listing[w] /\ p = walk[w].page /\ size = Served[job.provider]
          /\ old = walk[w].items
  BY <1>1, PageSizes DEF DiscoveryInv, DiscoveryTypes, States
<1>3. PICK from \in Nat, last \in Nat :
          /\ from = (p - 1) * size /\ last = p * size /\ last = from + size
          /\ last - size + 1 = from + 1
  <2>1. (p - 1) * size \in Nat /\ p * size \in Nat /\ p * size = (p - 1) * size + size
    <3>1. PICK m \in Nat : p = m + 1
      <4>1. p - 1 \in Nat /\ p = (p - 1) + 1
        BY <1>2
      <4>. QED
        BY <4>1
    <3>2. m * size \in Nat /\ (m + 1) * size = m * size + size /\ (m + 1) - 1 = m
      <4>1. m \in Nat /\ size \in Nat
        BY <1>2
      <4>2. m * size \in Nat
        BY <4>1
      <4>3. (m + 1) * size = m * size + size
        BY <4>1
      <4>4. (m + 1) - 1 = m
        BY <4>1
      <4>. QED
        BY <4>2, <4>3, <4>4
    <3>3. m * size + size \in Nat
      <4>1. \A n \in Nat : n + size \in Nat
        BY <1>2
      <4>. QED
        BY Zenon, <3>2, <4>1
    <3>4. p - 1 = m
      BY <3>1
    <3>. QED
      BY Zenon, <3>1, <3>2, <3>3, <3>4
  <2>2. p * size - size + 1 = (p - 1) * size + 1
    BY <2>1
  <2>. QED
    BY <2>1, <2>2
<1>4. PICK page : page = OnPage(w, p)
  OBVIOUS
<1>5. page = SubSeq(s, from + 1, IF from + size < Len(s) THEN from + size ELSE Len(s))
  BY <1>2, <1>3, <1>4 DEF OnPage
<1>6. /\ page \in Seq(Urls)
      /\ from + size < Len(s) => Len(page) = size
      /\ \A k \in 1..Len(s) : k > from /\ k <= from + size => s[k] \in Range(page)
  <2>1. \A page1 :
           page1 = SubSeq(s, from + 1, IF from + size < Len(s) THEN from + size ELSE Len(s)) =>
               /\ page1 \in Seq(Urls)
               /\ from + size < Len(s) => Len(page1) = size
               /\ \A k \in 1..Len(s) : k > from /\ k <= from + size => s[k] \in Range(page1)
    BY PageFacts
  <2>. QED
    BY Zenon, <1>5, <2>1
<1>7. PICK items \in Seq(Urls) :
          /\ items = old \o page
          /\ Range(old) \subseteq Range(items) /\ Range(page) \subseteq Range(items)
  BY Zenon, <1>2, <1>6, JoinedRange
<1>8. ASSUME w \notin shifted, NEW k \in 1..Len(s), s[k] \in throughout[w], k <= last
      PROVE  s[k] \in Range(items)
  <2>1. CASE k <= from
    <3>1. k <= Fetched(w)
      BY <1>2, <1>3, <2>1 DEF Fetched
    <3>2. s[k] \in Range(old)
      BY <1>1, <1>2, <1>8, <3>1 DEF DiscoveryInv, WithinReach
    <3>. QED
      BY <1>7, <3>2
  <2>2. CASE k > from
    BY <1>3, <1>6, <1>7, <1>8, <2>2
  <2>. QED
    BY <1>3, <2>1, <2>2
<1>9. CASE has
  <2>1. PICK state : state = [at |-> "asking", page |-> p + 1, attempt |-> 1, items |-> items]
    OBVIOUS
  <2>2. Becomes(w, state)
    BY <1>2, <1>4, <1>7, <1>9, <2>1 DEF Page
  <2>3. state \in States /\ state.at = "asking" /\ state.page = p + 1 /\ state.items = items
    <3>1. "asking" \in Stages /\ p + 1 \in Nat \ {0} /\ 1 \in Nat
      BY DEF Stages
    <3>. QED
      BY Zenon, <1>7, <2>1, <3>1 DEF States
  <2>4. (state.page - 1) * Served[job.provider] = last
    BY <1>2, <1>3, <2>3
  <2>5. w \notin shifted =>
            \A i \in 1..Len(listing[w]) :
                /\ listing[w][i] \in throughout[w]
                /\ i <= (state.page - 1) * Served[job.provider]
                => listing[w][i] \in Range(state.items)
    BY <1>2, <1>8, <2>3, <2>4
  <2>. QED
    BY <1>1, <2>2, <2>3, <2>5, WalkMoves
<1>10. CASE ~has
  <2>1. PICK state : state = [walk[w] EXCEPT !.at = "done", !.page = 1, !.attempt = 1, !.items = items]
    OBVIOUS
  <2>2. Becomes(w, state)
    BY <1>2, <1>4, <1>7, <1>10, <2>1 DEF Page
  <2>3. state \in States /\ state.at = "done" /\ state.items = items
    <3>1. "done" \in Stages /\ 1 \in Nat \ {0} /\ 1 \in Nat
      BY DEF Stages
    <3>. QED
      BY <1>1, <1>7, <2>1, <3>1 DEF States
  <2>4. Len(s) <= last
    <3>1. job.provider = "gitlab" => ~(last < Len(s))
      BY <1>2, <1>3, <1>10 DEF HasNext
    <3>2. job.provider # "gitlab" => ~(Len(page) >= size)
      BY <1>2, <1>4, <1>10, PageSizes DEF HasNext, DiscoveryInv
    <3>3. Len(s) \in Nat
      BY <1>2
    <3>. QED
      BY <1>2, <1>3, <1>6, <3>1, <3>2, <3>3
  <2>5. w \notin shifted => throughout[w] \subseteq Range(state.items)
    <3>1. ASSUME w \notin shifted, NEW x \in throughout[w] PROVE x \in Range(items)
      <4>1. x \in Range(s)
        BY <1>2, <3>1 DEF DiscoveryInv, StillListed
      <4>2. PICK k \in 1..Len(s) : s[k] = x
        BY <4>1, RangeIs
      <4>3. k <= last
        BY <1>3, <2>4, <4>2
      <4>. QED
        BY <1>8, <3>1, <4>2, <4>3
    <3>. QED
      BY <2>3, <3>1
  <2>. QED
    BY <1>1, <2>2, <2>3, <2>5, WalkMoves
<1>. QED
  BY <1>9, <1>10

LEMMA WalkStepKeeps ==
    ASSUME DiscoveryInv, NEW w \in Walks, WalkStep(w)
    PROVE  DiscoveryInv'
<1>0. walk[w] \in States
  BY DEF DiscoveryInv, DiscoveryTypes, States
<1>1. CASE Page(w)
  BY <1>1, PageStep
<1>2. CASE RequestFails(w) \/ WaitCancelled(w) \/ HangCancelled(w)
  BY <1>2, FailStep DEF RequestFails, WaitCancelled, HangCancelled
<1>3. CASE Busy(w)
  <2>1. CASE walk[w].attempt < ProviderMaxAttempts
    <3>1. [walk[w] EXCEPT !.at = "waiting"]
            = [walk[w] EXCEPT !.at = "waiting", !.attempt = walk[w].attempt]
      BY <1>0 DEF States
    <3>2. Becomes(w, [walk[w] EXCEPT !.at = "waiting", !.attempt = walk[w].attempt])
      BY <1>3, <2>1, <3>1 DEF Busy
    <3>3. walk[w].attempt \in Nat /\ "waiting" \in Stages \ {"done"}
      BY <1>0 DEF States, Stages
    <3>4. Live(w) /\ walk[w].at \in {"asking", "waiting"}
      BY <1>3 DEF Busy
    <3>. QED
      BY Zenon, <3>2, <3>3, <3>4, PauseStep
  <2>2. CASE ~(walk[w].attempt < ProviderMaxAttempts)
    BY <1>3, <2>2, FailStep DEF Busy
  <2>. QED
    BY <2>1, <2>2
<1>4. CASE WaitOver(w)
  <2>1. walk[w].attempt + 1 \in Nat
    BY <1>0 DEF States
  <2>. QED
    BY <1>4, <2>1, PauseStep DEF WaitOver, Stages
<1>5. CASE Hang(w)
  <2>1. [walk[w] EXCEPT !.at = "hung"]
          = [walk[w] EXCEPT !.at = "hung", !.attempt = walk[w].attempt]
    BY <1>0 DEF States
  <2>2. Becomes(w, [walk[w] EXCEPT !.at = "hung", !.attempt = walk[w].attempt])
    BY <1>5, <2>1 DEF Hang
  <2>3. walk[w].attempt \in Nat /\ "hung" \in Stages \ {"done"}
    BY <1>0 DEF States, Stages
  <2>4. Live(w) /\ walk[w].at \in {"asking", "waiting"}
    BY <1>5 DEF Hang
  <2>. QED
    BY Zenon, <2>2, <2>3, <2>4, PauseStep
<1>. QED
  BY <1>1, <1>2, <1>3, <1>4, <1>5 DEF WalkStep

-----------------------------------------------------------------------------
(* The answer. *)

LEMMA AnswerStep ==
    ASSUME DiscoveryInv, NoKey \/ Merge
    PROVE  DiscoveryInv'
<1>1. UNCHANGED <<job, listing, throughout, shifted, walk>>
  BY DEF NoKey, Merge, Answer, upstreamVars
<1>2. result'.said \in Answers
  <2>1. \E list : \E said \in Answers : result' = [said |-> said, list |-> list]
    <3>1. "list" \in Answers /\ "error" \in Answers
      BY DEF Answers
    <3>2. \E list : Answer("list", list) \/ Answer("error", list)
      BY DEF NoKey, Merge
    <3>. QED
      BY Zenon, <3>1, <3>2 DEF Answer
  <2>. QED
    BY <2>1
<1>3. DiscoveryTypes'
  BY <1>1, <1>2 DEF DiscoveryInv, DiscoveryTypes
<1>4. \A w \in Walks : StillListed(w)'
  BY <1>1 DEF DiscoveryInv, StillListed
<1>5. \A w \in Walks \ shifted' : WithinReach(w)' /\ Brought(w)'
  BY <1>1 DEF DiscoveryInv, WithinReach, Brought, Fetched
<1>6. Merged'
  <2>1. CASE NoKey
    BY <1>1, <2>1 DEF NoKey, Answer, Merged
  <2>2. CASE Merge /\ \E w \in Wanted : walk[w].at = "failed"
    BY <2>2 DEF Merge, Answer, Merged
  <2>3. CASE Merge /\ ~\E w \in Wanted : walk[w].at = "failed"
    <3>1. \A w \in Wanted : walk[w].at = "done"
      BY <2>3 DEF Merge, AllEnded
    <3>2. Wanted' = Wanted
      BY <1>1 DEF Wanted
    <3>3. FirstOccurrences' = FirstOccurrences
      BY <1>1, <3>2 DEF FirstOccurrences, Entries, Discovered
    <3>4. result' = [said |-> "list", list |-> FirstOccurrences] /\ job'.key
      BY <1>1, <2>3 DEF Merge, Answer
    <3>. QED
      BY <1>1, <3>1, <3>2, <3>3, <3>4 DEF Merged
  <2>. QED
    BY <2>1, <2>2, <2>3
<1>. QED
  BY <1>3, <1>4, <1>5, <1>6 DEF DiscoveryInv

LEMMA DiscoveryStep == DiscoveryInv /\ [DiscoveryNext]_discoveryVars => DiscoveryInv'
<1>. SUFFICES ASSUME DiscoveryInv, [DiscoveryNext]_discoveryVars PROVE DiscoveryInv'
  OBVIOUS
<1>1. CASE Cancel \/ UNCHANGED discoveryVars
  <2>1. UNCHANGED <<job, listing, throughout, shifted, walk, result>>
    BY <1>1 DEF Cancel, discoveryVars, upstreamVars
  <2>2. \A w \in Walks : StillListed(w)'
    BY <2>1 DEF DiscoveryInv, StillListed
  <2>3. \A w \in Walks \ shifted' : WithinReach(w)' /\ Brought(w)'
    BY <2>1 DEF DiscoveryInv, WithinReach, Brought, Fetched
  <2>4. DiscoveryTypes'
    BY <2>1 DEF DiscoveryInv, DiscoveryTypes
  <2>5. Wanted' = Wanted
    BY <2>1 DEF Wanted
  <2>6. FirstOccurrences' = FirstOccurrences
    BY <2>1, <2>5 DEF FirstOccurrences, Entries, Discovered
  <2>7. Merged'
    BY <2>1, <2>5, <2>6 DEF DiscoveryInv, Merged
  <2>. QED
    BY <2>2, <2>3, <2>4, <2>7 DEF DiscoveryInv
<1>2. CASE NoKey \/ Merge
  BY <1>2, AnswerStep
<1>3. CASE \E w \in Walks : Add(w) \/ Withdraw(w) \/ WalkStep(w)
  BY <1>3, AddStep, WithdrawStep, WalkStepKeeps
<1>. QED
  BY <1>1, <1>2, <1>3 DEF DiscoveryNext

-----------------------------------------------------------------------------
(* What the list holds. *)

\* Whatever a walk of the job has brought is in the list, by the first walk that
\* has brought it.
LEMMA FirstIsThere ==
    ASSUME NEW i \in 1..4, NEW u \in Discovered(i)
    PROVE  \E e \in FirstOccurrences : e.url = u
<1>1. PICK j \in 1..4 : u \in Discovered(j) /\ \A k \in 1..4 : k < j => u \notin Discovered(k)
  <2>1. CASE u \in Discovered(1)
    BY <2>1
  <2>2. CASE u \notin Discovered(1) /\ u \in Discovered(2)
    <3>1. \A k \in 1..4 : k < 2 => k = 1
      OBVIOUS
    <3>. QED
      BY <2>2, <3>1
  <2>3. CASE u \notin Discovered(1) /\ u \notin Discovered(2) /\ u \in Discovered(3)
    <3>1. \A k \in 1..4 : k < 3 => k = 1 \/ k = 2
      OBVIOUS
    <3>. QED
      BY <2>3, <3>1
  <2>4. CASE u \notin Discovered(1) /\ u \notin Discovered(2) /\ u \notin Discovered(3)
    <3>1. \A k \in 1..4 : k < 4 => k = 1 \/ k = 2 \/ k = 3
      OBVIOUS
    <3>2. \A k \in 1..4 : k = 1 \/ k = 2 \/ k = 3 \/ k = 4
      OBVIOUS
    <3>3. u \in Discovered(4)
      BY <2>4, <3>2
    <3>. QED
      BY <2>4, <3>1, <3>3
  <2>. QED
    BY <2>1, <2>2, <2>3, <2>4
<1>2. u \in Discovered(j) \ UNION {Discovered(k) : k \in 1..(j - 1)}
  <2>1. \A k \in 1..(j - 1) : k \in 1..4 /\ k < j
    BY <1>1
  <2>. QED
    BY <1>1, <2>1
<1>3. j \in DOMAIN Endpoints
  BY <1>1, WalksAre
<1>4. [url |-> u, starred |-> Endpoints[j] = "starred"]
        \in Entries(j, Discovered(j) \ UNION {Discovered(k) : k \in 1..(j - 1)})
  BY Zenon, <1>2 DEF Entries
<1>5. [url |-> u, starred |-> Endpoints[j] = "starred"] \in FirstOccurrences
  BY Zenon, <1>3, <1>4 DEF FirstOccurrences
<1>6. [url |-> u, starred |-> Endpoints[j] = "starred"].url = u
  OBVIOUS
<1>. QED
  BY Zenon, <1>5, <1>6

\* An entry of the list is that of the first walk that brought its URL.
LEMMA EntryIsFirst ==
    ASSUME NEW e \in FirstOccurrences
    PROVE  \E i \in 1..4 : /\ e = [url |-> e.url, starred |-> Endpoints[i] = "starred"]
                           /\ e.url \in Discovered(i)
                           /\ \A k \in 1..4 : k < i => e.url \notin Discovered(k)
<1>1. PICK i \in DOMAIN Endpoints :
          e \in Entries(i, Discovered(i) \ UNION {Discovered(j) : j \in 1..(i - 1)})
  BY DEF FirstOccurrences
<1>2. i \in 1..4
  BY <1>1, WalksAre
<1>3. PICK u \in Discovered(i) \ UNION {Discovered(j) : j \in 1..(i - 1)} :
          e = [url |-> u, starred |-> Endpoints[i] = "starred"]
  BY <1>1 DEF Entries
<1>4. e.url = u
  BY <1>3
<1>5. \A k \in 1..4 : k < i => k \in 1..(i - 1)
  BY <1>2
<1>6. \A k \in 1..4 : k < i => u \notin Discovered(k)
  BY <1>3, <1>5
<1>. QED
  BY <1>2, <1>3, <1>4, <1>6

LEMMA NothingIsOverlooked == DiscoveryInv => NothingOverlooked
<1>. SUFFICES ASSUME DiscoveryInv, result.said = "list", job.key,
                     NEW w \in Wanted \ shifted, NEW u \in Throughout(w)
              PROVE  \E e \in result.list : e.url = u
  BY DEF NothingOverlooked
<1>1. w \in Walks /\ walk[w].at = "done" /\ result.list = FirstOccurrences
  BY DEF DiscoveryInv, Merged, Wanted
<1>2. u \in Range(walk[w].items) \ Nameless
  BY <1>1 DEF DiscoveryInv, Brought, Throughout
<1>3. PICK i \in 1..4 : Endpoints[i] = w
  BY <1>1, WalksAre
<1>4. u \in Discovered(i)
  BY <1>2, <1>3 DEF Discovered
<1>. QED
  BY <1>1, <1>4, FirstIsThere

LEMMA OwnedIsFirst == DiscoveryInv => OwnedWins
<1>. SUFFICES ASSUME DiscoveryInv, result.list # {} PROVE OwnedWins
  BY DEF OwnedWins
<1>1. /\ \A w \in Wanted : walk[w].at = "done"
      /\ result.list = FirstOccurrences
  BY DEF DiscoveryInv, Merged
<1>2. ASSUME NEW e \in result.list, NEW f \in result.list, e.url = f.url PROVE e = f
  <2>1. PICK i \in 1..4 : /\ e = [url |-> e.url, starred |-> Endpoints[i] = "starred"]
                          /\ e.url \in Discovered(i)
                          /\ \A k \in 1..4 : k < i => e.url \notin Discovered(k)
    BY <1>1, EntryIsFirst
  <2>2. PICK j \in 1..4 : /\ f = [url |-> f.url, starred |-> Endpoints[j] = "starred"]
                          /\ f.url \in Discovered(j)
                          /\ \A k \in 1..4 : k < j => f.url \notin Discovered(k)
    BY <1>1, EntryIsFirst
  <2>3. ~(i < j) /\ ~(j < i)
    BY <1>2, <2>1, <2>2
  <2>4. i = j
    BY <2>3
  <2>. QED
    BY Zenon, <1>2, <2>1, <2>2, <2>4
<1>3. ASSUME "owned" \notin shifted, NEW e \in result.list, e.url \in throughout["owned"]
      PROVE  ~e.starred
  <2>1. PICK i \in 1..4 : /\ e = [url |-> e.url, starred |-> Endpoints[i] = "starred"]
                          /\ e.url \in Discovered(i)
                          /\ \A k \in 1..4 : k < i => e.url \notin Discovered(k)
    BY <1>1, EntryIsFirst
  <2>2. "owned" \in Wanted /\ "owned" \in Walks
    BY WalksAre DEF Wanted
  <2>3. e.url \in Range(walk["owned"].items)
    BY <1>1, <1>3, <2>2 DEF DiscoveryInv, Brought
  <2>4. e.url \notin Nameless
    BY <2>1 DEF Discovered
  <2>5. e.url \in Discovered(1)
    BY <2>2, <2>3, <2>4, WalksAre DEF Discovered
  <2>6. i = 1
    <3>1. ~(1 < i) /\ 1 \in 1..4
      BY <2>1, <2>5
    <3>. QED
      BY <3>1
  <2>7. Endpoints[i] # "starred"
    BY <2>6, WalksAre
  <2>8. e.starred = (Endpoints[i] = "starred")
    BY <2>1
  <2>. QED
    BY <2>7, <2>8
<1>. QED
  BY <1>2, <1>3 DEF OwnedWins

LEMMA DiscoveryInvariant == DiscoverySpec => []DiscoveryInv
<1>. QED
  BY DiscoveryInitially, DiscoveryStep, PTL DEF DiscoverySpec

\* A list given without an error and with a key names all that the endpoints of the
\* job listed from start to end, but where an entry of a page already read was
\* removed (client.go:444, sync.go:196): for listings of any length, any page size
\* and any number of changes and retries.
THEOREM DiscoveryOverlooksNothing == DiscoverySpec => []NothingOverlooked
BY DiscoveryInvariant, NothingIsOverlooked, PTL

\* Every clone URL is returned once, and as owned if it was owned throughout, in
\* whichever order the walks end (client.go:425, client.go:452).
THEOREM OwnedComeFirst == DiscoverySpec => []OwnedWins
BY DiscoveryInvariant, OwnedIsFirst, PTL

-----------------------------------------------------------------------------
(* Discovery can go on, and every step brings it nearer to its end.        *)

\* The guards of NoKey, Merge and WalkStep: what hangs waits for ctx.
WalkReady(w) == walk[w].at \in {"asking", "waiting"} \/ (walk[w].at = "hung" /\ cancelled)

DiscoveryReady == ~job.key \/ AllEnded \/ \E w \in Wanted : WalkReady(w)

\* The one excuse of DiscoveryEnds.
LeftHanging == ~cancelled /\ \E w \in Wanted : walk[w].at = "hung"

LEMMA ReadyOrHanging == DiscoveryInv => DiscoveryReady \/ LeftHanging
<1>. SUFFICES ASSUME DiscoveryInv, ~AllEnded PROVE DiscoveryReady \/ LeftHanging
  BY DEF DiscoveryReady
<1>1. PICK w \in Wanted : walk[w].at \notin {"done", "failed"}
  BY DEF AllEnded
<1>2. w \in Walks
  BY <1>1 DEF Wanted
<1>3. walk[w].at \in Stages
  BY <1>2 DEF DiscoveryInv, DiscoveryTypes
<1>. QED
  BY <1>1, <1>3 DEF Stages, WalkReady, DiscoveryReady, LeftHanging

\* Until ListRepositories returns, it can go on, but for a request that the forge leaves
\* unanswered and ctx does not end (client.go:125): whatever fails and however listings
\* change, wg.Wait (client.go:442) waits for no walk that has nothing to do.
THEOREM DiscoveryGoesOn == DiscoverySpec => [](result = Running => DiscoveryReady \/ LeftHanging)
BY DiscoveryInvariant, ReadyOrHanging, PTL

\* Attempts are counted up to providerMaxAttempts, and the bound on changes holds.
Counted ==
    /\ changes \in 0..MaxChanges
    /\ \A w \in Walks : /\ walk[w].attempt \in 1..ProviderMaxAttempts
                        /\ walk[w].at = "waiting" => walk[w].attempt < ProviderMaxAttempts

LEMMA CountedInit == DiscoveryInit => Counted
<1>. SUFFICES ASSUME DiscoveryInit PROVE Counted
  OBVIOUS
<1>1. MaxChanges \in Nat /\ ProviderMaxAttempts \in Nat \ {0}
  BY DiscoveryAssumption
<1>2. \A w \in Walks : walk[w].attempt = 1 /\ walk[w].at = "asking"
  BY DEF DiscoveryInit, Asking
<1>3. 0 \in 0..MaxChanges /\ 1 \in 1..ProviderMaxAttempts
  BY <1>1
<1>. QED
  BY <1>2, <1>3 DEF DiscoveryInit, Counted

LEMMA CountedMoves ==
    ASSUME DiscoveryInv, Counted, NEW w \in Walks, NEW state, Becomes(w, state),
           state.attempt \in 1..ProviderMaxAttempts,
           state.at = "waiting" => state.attempt < ProviderMaxAttempts
    PROVE  Counted'
<1>1. walk'[w] = state /\ \A v \in Walks \ {w} : walk'[v] = walk[v]
  BY DEF DiscoveryInv, DiscoveryTypes, Becomes
<1>2. changes' = changes
  BY DEF Becomes, upstreamVars
<1>. QED
  BY <1>1, <1>2 DEF Counted

\* What a step of a walk makes of it: the page it read was not the last one, or the walk
\* is at its end; or it has one attempt less, or waits for the next.
MovesTo(w, state) ==
    \/ /\ walk[w].at = "asking" /\ HasNext(w, walk[w].page)
       /\ state.at = "asking" /\ state.page = walk[w].page + 1 /\ state.attempt = 1
    \/ /\ walk[w].at \in {"asking", "waiting", "hung"}
       /\ state.at \in {"done", "failed"} /\ state.attempt = 1
    \/ /\ walk[w].at = "asking"
       /\ state.at = "hung" /\ state.page = walk[w].page /\ state.attempt = walk[w].attempt
    \/ /\ walk[w].at = "asking" /\ walk[w].attempt < ProviderMaxAttempts
       /\ state.at = "waiting" /\ state.page = walk[w].page /\ state.attempt = walk[w].attempt
    \/ /\ walk[w].at = "waiting"
       /\ state.at = "asking" /\ state.page = walk[w].page /\ state.attempt = walk[w].attempt + 1

LEMMA WalkStepMoves ==
    ASSUME DiscoveryInv, NEW w \in Walks, WalkStep(w)
    PROVE  Live(w) /\ \E state : Becomes(w, state) /\ MovesTo(w, state)
<1>0. walk[w] \in States
  BY DEF DiscoveryInv, DiscoveryTypes, States
<1>1. ASSUME Fails(w), walk[w].at \in {"asking", "waiting", "hung"}
      PROVE  \E state : Becomes(w, state) /\ MovesTo(w, state)
  <2>1. PICK state : state = [Asking EXCEPT !.at = "failed"]
    OBVIOUS
  <2>2. state.at = "failed" /\ state.attempt = 1
    BY <2>1 DEF Asking
  <2>. QED
    BY <1>1, <2>1, <2>2 DEF Fails, MovesTo
<1>2. CASE RequestFails(w) \/ WaitCancelled(w) \/ HangCancelled(w)
  BY <1>1, <1>2 DEF RequestFails, WaitCancelled, HangCancelled
<1>3. CASE Page(w) /\ HasNext(w, walk[w].page)
  <2>1. PICK items : items = walk[w].items \o OnPage(w, walk[w].page)
    OBVIOUS
  <2>2. PICK state : state = [at |-> "asking", page |-> walk[w].page + 1, attempt |-> 1, items |-> items]
    OBVIOUS
  <2>3. MovesTo(w, state)
    BY <1>3, <2>2 DEF Page, MovesTo
  <2>4. Becomes(w, state)
    BY Zenon, <1>3, <2>1, <2>2 DEF Page
  <2>. QED
    BY Zenon, <1>3, <2>3, <2>4 DEF Page
<1>4. CASE Page(w) /\ ~HasNext(w, walk[w].page)
  <2>1. PICK items : items = walk[w].items \o OnPage(w, walk[w].page)
    OBVIOUS
  <2>2. PICK state : state = [walk[w] EXCEPT !.at = "done", !.page = 1, !.attempt = 1, !.items = items]
    OBVIOUS
  <2>3. MovesTo(w, state)
    BY <1>0, <1>4, <2>2 DEF Page, MovesTo, States
  <2>4. Becomes(w, state)
    BY Zenon, <1>4, <2>1, <2>2 DEF Page
  <2>. QED
    BY Zenon, <1>4, <2>3, <2>4 DEF Page
<1>5. CASE Busy(w)
  <2>1. CASE walk[w].attempt < ProviderMaxAttempts
    <3>1. PICK state : state = [walk[w] EXCEPT !.at = "waiting"]
      OBVIOUS
    <3>2. MovesTo(w, state)
      BY <1>0, <1>5, <2>1, <3>1 DEF Busy, MovesTo, States
    <3>. QED
      BY <1>5, <2>1, <3>1, <3>2 DEF Busy
  <2>2. CASE ~(walk[w].attempt < ProviderMaxAttempts)
    BY <1>1, <1>5, <2>2 DEF Busy
  <2>. QED
    BY <2>1, <2>2
<1>6. CASE WaitOver(w)
  <2>1. PICK state : state = [walk[w] EXCEPT !.at = "asking", !.attempt = @ + 1]
    OBVIOUS
  <2>2. MovesTo(w, state)
    BY <1>0, <1>6, <2>1 DEF WaitOver, MovesTo, States
  <2>. QED
    BY <1>6, <2>1, <2>2 DEF WaitOver
<1>7. CASE Hang(w)
  <2>1. PICK state : state = [walk[w] EXCEPT !.at = "hung"]
    OBVIOUS
  <2>2. MovesTo(w, state)
    BY <1>0, <1>7, <2>1 DEF Hang, MovesTo, States
  <2>. QED
    BY <1>7, <2>1, <2>2 DEF Hang
<1>8. Live(w)
  BY DEF WalkStep, Page, RequestFails, Busy, WaitOver, WaitCancelled, Hang, HangCancelled
<1>. QED
  BY <1>2, <1>3, <1>4, <1>5, <1>6, <1>7, <1>8 DEF WalkStep

LEMMA CountedStep ==
    ASSUME DiscoveryInv, Counted, [DiscoveryNext]_discoveryVars PROVE Counted'
<1>0. ProviderMaxAttempts \in Nat \ {0} /\ MaxChanges \in Nat
  BY DiscoveryAssumption
<1>1. ASSUME NEW w \in Walks, WalkStep(w) PROVE Counted'
  <2>1. PICK state : Becomes(w, state) /\ MovesTo(w, state)
    BY <1>1, WalkStepMoves
  <2>2. /\ walk[w].attempt \in 1..ProviderMaxAttempts
        /\ walk[w].at = "waiting" => walk[w].attempt < ProviderMaxAttempts
    BY DEF Counted
  <2>3. /\ state.attempt \in 1..ProviderMaxAttempts
        /\ state.at = "waiting" => state.attempt < ProviderMaxAttempts
    BY <1>0, <2>1, <2>2 DEF MovesTo
  <2>. QED
    BY <2>1, <2>3, CountedMoves
<1>2. ASSUME NEW w \in Walks, Add(w) \/ Withdraw(w) PROVE Counted'
  <2>1. changes < MaxChanges /\ changes' = changes + 1 /\ walk' = walk
    BY <1>2 DEF Add, Withdraw
  <2>. QED
    BY <1>0, <2>1 DEF Counted
<1>3. CASE Cancel \/ NoKey \/ Merge \/ UNCHANGED discoveryVars
  BY <1>3 DEF Cancel, NoKey, Merge, Answer, upstreamVars, discoveryVars, Counted
<1>. QED
  BY <1>1, <1>2, <1>3 DEF DiscoveryNext

\* How many pages a walk may still ask for, if all that may yet be added comes into its
\* listing; and how often, the waits between attempts included, it may take a step on the
\* page it is at.
Budget(w) == Len(listing[w]) + (MaxChanges - changes)

PagesLeft(w) ==
    IF walk[w].at \in {"done", "failed"} THEN 0
    ELSE IF walk[w].page <= Budget(w) THEN Budget(w) - walk[w].page + 2 ELSE 1

TriesLeft(w) ==
    CASE walk[w].at = "asking"              -> 2 * (ProviderMaxAttempts - walk[w].attempt) + 2
      [] walk[w].at \in {"waiting", "hung"} -> 2 * (ProviderMaxAttempts - walk[w].attempt) + 1
      [] OTHER                              -> 0

\* A step of a walk leaves it fewer pages, or as many and fewer steps on its page; it
\* touches no other walk.
WalkAdvances(w) ==
    /\ \/ PagesLeft(w)' < PagesLeft(w)
       \/ PagesLeft(w)' = PagesLeft(w) /\ TriesLeft(w)' < TriesLeft(w)
    /\ \A v \in Walks \ {w} : walk'[v] = walk[v]
    /\ UNCHANGED <<upstreamVars, cancelled, result>>

\* A change to a listing, one of MaxChanges, gives no walk more pages to ask for.
ListingChanges ==
    /\ changes' = changes + 1 /\ changes' <= MaxChanges
    /\ \A w \in Walks : PagesLeft(w)' <= PagesLeft(w)
    /\ UNCHANGED <<cancelled, walk, result>>

\* Of these each can happen only so often.
DiscoveryStepTaken ==
    \/ \E w \in Walks : WalkAdvances(w)
    \/ ListingChanges
    \/ ~cancelled /\ cancelled' /\ UNCHANGED <<upstreamVars, walk, result>>
    \/ result = Running /\ result' # Running /\ UNCHANGED <<upstreamVars, cancelled, walk>>

\* The measures are natural numbers.
DiscoveryMeasured == \A w \in Walks : PagesLeft(w) \in Nat /\ TriesLeft(w) \in Nat

LEMMA Measured == DiscoveryInv /\ Counted => DiscoveryMeasured
<1>. SUFFICES ASSUME DiscoveryInv, Counted, NEW w \in Walks
              PROVE  PagesLeft(w) \in Nat /\ TriesLeft(w) \in Nat
  BY DEF DiscoveryMeasured
<1>1. PICK p, b, a, m :
          p = walk[w].page /\ b = Budget(w) /\ a = walk[w].attempt /\ m = ProviderMaxAttempts
  OBVIOUS
<1>2. p \in Nat /\ b \in Nat
  <2>1. Len(listing[w]) \in Nat /\ walk[w].page \in Nat
    BY DEF DiscoveryInv, DiscoveryTypes
  <2>2. MaxChanges - changes \in Nat
    BY DiscoveryAssumption DEF Counted
  <2>3. \A x, y \in Nat : x + y \in Nat
    OBVIOUS
  <2>. QED
    BY Zenon, <1>1, <2>1, <2>2, <2>3 DEF Budget
<1>3. a \in 1..m /\ m \in Nat
  BY <1>1, DiscoveryAssumption DEF Counted
<1>4. PagesLeft(w) \in Nat
  <2>1. PagesLeft(w) \in {0, 1, b - p + 2} /\ (PagesLeft(w) = b - p + 2 => p <= b \/ b - p + 2 \in {0, 1})
    BY Zenon, <1>1 DEF PagesLeft
  <2>. QED
    BY <1>2, <2>1
<1>5. TriesLeft(w) \in Nat
  <2>1. TriesLeft(w) \in {0, 2 * (m - a) + 1, 2 * (m - a) + 2}
    BY <1>1 DEF TriesLeft
  <2>. QED
    BY <1>3, <2>1
<1>. QED
  BY <1>4, <1>5

LEMMA PagesFall == \A b, p \in Nat : p <= b => b - (p + 1) + 2 < b - p + 2 /\ 1 < b - p + 2
OBVIOUS

LEMMA PagesKept ==
    \A b, b1, p \in Nat :
        b1 <= b => /\ 0 <= 0 /\ 1 <= 1
                   /\ b1 - p + 2 <= b - p + 2
                   /\ p <= b1 => p <= b
                   /\ p <= b => 1 <= b - p + 2
OBVIOUS

LEMMA BudgetKept ==
    \A n, n1, c, m \in Nat :
        n1 <= n + 1 /\ c + 1 <= m =>
            /\ n + (m - c) \in Nat /\ n1 + (m - (c + 1)) \in Nat
            /\ n1 + (m - (c + 1)) <= n + (m - c)
OBVIOUS

LEMMA TimesNext ==
    \A x, y \in Nat : x * y \in Nat /\ x * (y + 1) = x * y + x /\ (x + 1) * y = x * y + y
OBVIOUS

\* Another page is asked for only while the listing goes beyond those read.
LEMMA NextIsWithin ==
    ASSUME DiscoveryInv, NEW w \in Walks, HasNext(w, walk[w].page)
    PROVE  walk[w].page <= Len(listing[w])
<1>1. PICK s \in Seq(Urls), p \in Nat \ {0}, size \in Nat \ {0} :
          s = listing[w] /\ p = walk[w].page /\ size = Served[job.provider]
  BY PageSizes DEF DiscoveryInv, DiscoveryTypes
<1>2. PICK last \in Nat : last = p * size /\ p <= last
  <2>1. PICK k \in Nat : size = k + 1
    <3>1. size - 1 \in Nat /\ size = (size - 1) + 1
      BY <1>1
    <3>. QED
      BY <3>1
  <2>2. p \in Nat /\ \A x, y \in Nat : x <= y + x
    OBVIOUS
  <2>3. p * k \in Nat /\ p * (k + 1) = p * k + p
    BY <2>1, <2>2, TimesNext, Zenon
  <2>4. p <= p * k + p /\ p * k + p \in Nat
    BY <2>2, <2>3
  <2>. QED
    BY <1>1, <2>1, <2>3, <2>4, Zenon
<1>3. Len(s) \in Nat
  BY <1>1
<1>4. CASE job.provider = "gitlab"
  <2>1. last < Len(s)
    BY Zenon, <1>1, <1>2, <1>4 DEF HasNext
  <2>. QED
    BY <1>1, <1>2, <1>3, <2>1
<1>5. CASE job.provider # "gitlab"
  <2>1. PICK page, from, to : /\ page = OnPage(w, p)
                              /\ from = last - size + 1
                              /\ to = IF last < Len(s) THEN last ELSE Len(s)
    OBVIOUS
  <2>2. page = SubSeq(s, from, to)
    BY Zenon, <1>1, <1>2, <2>1 DEF OnPage
  <2>3. to <= Len(s) /\ to <= last /\ from \in Int /\ to \in Nat /\ from >= 1
    <3>1. last >= size
      <4>1. PICK k \in Nat : p = k + 1
        <5>1. p - 1 \in Nat /\ p = (p - 1) + 1
          BY <1>1
        <5>. QED
          BY <5>1
      <4>2. size \in Nat /\ \A x, y \in Nat : y <= x + y
        BY <1>1
      <4>3. k * size \in Nat /\ (k + 1) * size = k * size + size
        BY <4>1, <4>2, TimesNext, Zenon
      <4>4. size <= last
        BY <1>2, <4>1, <4>2, <4>3, Zenon
      <4>. QED
        BY <1>1, <1>2, <4>4
    <3>. QED
      BY <1>1, <1>2, <1>3, <2>1, <3>1
  <2>4. Len(page) >= size
    BY Zenon, <1>1, <1>5, <2>1, PageSizes DEF HasNext, DiscoveryInv
  <2>5. Len(page) = IF from <= to THEN to - from + 1 ELSE 0
    BY <1>1, <2>2, <2>3
  <2>6. to - from + 1 >= size
    BY <1>1, <2>3, <2>4, <2>5
  <2>7. to >= last
    BY <1>1, <1>2, <2>1, <2>3, <2>6
  <2>. QED
    BY <1>1, <1>2, <1>3, <2>3, <2>7
<1>. QED
  BY <1>4, <1>5

LEMMA WalkGoesForward ==
    ASSUME DiscoveryInv, Counted, NEW w \in Walks, WalkStep(w)
    PROVE  WalkAdvances(w)
<1>1. PICK state : Becomes(w, state) /\ MovesTo(w, state)
  BY WalkStepMoves
<1>2. /\ walk'[w] = state /\ \A v \in Walks \ {w} : walk'[v] = walk[v]
      /\ UNCHANGED <<upstreamVars, cancelled, result>>
  BY <1>1 DEF DiscoveryInv, DiscoveryTypes, Becomes
<1>3. PICK b \in Nat : b = Budget(w) /\ b >= Len(listing[w])
  <2>1. Len(listing[w]) \in Nat
    BY DEF DiscoveryInv, DiscoveryTypes
  <2>2. MaxChanges - changes \in Nat
    BY DiscoveryAssumption DEF Counted
  <2>3. \A x, y \in Nat : x + y \in Nat /\ x + y >= x
    OBVIOUS
  <2>. QED
    BY Zenon, <2>1, <2>2, <2>3 DEF Budget
<1>4. Budget(w)' = b
  BY <1>2, <1>3 DEF Budget, upstreamVars
<1>5. PICK p \in Nat, a \in Nat, m \in Nat :
          p = walk[w].page /\ a = walk[w].attempt /\ m = ProviderMaxAttempts /\ a <= m
  BY DiscoveryAssumption DEF DiscoveryInv, DiscoveryTypes, Counted
<1>6. PICK pages, rest, pages1, rest1 :
          /\ pages = PagesLeft(w) /\ rest = TriesLeft(w)
          /\ pages1 = PagesLeft(w)' /\ rest1 = TriesLeft(w)'
  OBVIOUS
<1>7. /\ pages = IF walk[w].at \in {"done", "failed"} THEN 0 ELSE IF p <= b THEN b - p + 2 ELSE 1
      /\ pages1 = IF state.at \in {"done", "failed"} THEN 0
                  ELSE IF state.page <= b THEN b - state.page + 2 ELSE 1
  BY <1>2, <1>3, <1>4, <1>5, <1>6, Zenon DEF PagesLeft
<1>8. /\ walk[w].at = "asking" => rest = 2 * (m - a) + 2
      /\ walk[w].at \in {"waiting", "hung"} => rest = 2 * (m - a) + 1
      /\ state.at = "asking" => rest1 = 2 * (m - state.attempt) + 2
      /\ state.at \in {"waiting", "hung"} => rest1 = 2 * (m - state.attempt) + 1
  BY <1>2, <1>5, <1>6 DEF TriesLeft
<1>9. pages1 < pages \/ (pages1 = pages /\ rest1 < rest)
  <2>1. CASE /\ walk[w].at = "asking" /\ HasNext(w, walk[w].page)
             /\ state.at = "asking" /\ state.page = walk[w].page + 1
    <3>1. p <= b
      <4>1. walk[w].page <= Len(listing[w])
        BY <2>1, NextIsWithin
      <4>2. Len(listing[w]) \in Nat
        BY DEF DiscoveryInv, DiscoveryTypes
      <4>. QED
        BY <1>3, <1>5, <4>1, <4>2
    <3>2. pages = b - p + 2 /\ pages1 = IF p + 1 <= b THEN b - (p + 1) + 2 ELSE 1
      BY <1>5, <1>7, <2>1, <3>1
    <3>3. b - (p + 1) + 2 < b - p + 2 /\ 1 < b - p + 2
      BY <3>1, PagesFall, Zenon
    <3>. QED
      BY <3>2, <3>3, Zenon
  <2>2. CASE walk[w].at \in {"asking", "waiting", "hung"} /\ state.at \in {"done", "failed"}
    <3>1. pages1 = 0 /\ pages = IF p <= b THEN b - p + 2 ELSE 1
      BY <1>7, <2>2
    <3>. QED
      BY <1>3, <1>5, <3>1
  <2>3. CASE /\ walk[w].at = "asking"
             /\ state.at \in {"hung", "waiting"} /\ state.page = walk[w].page
             /\ state.attempt = walk[w].attempt
    <3>1. pages1 = pages
      BY <1>5, <1>7, <2>3
    <3>2. rest = 2 * (m - a) + 2 /\ rest1 = 2 * (m - a) + 1
      BY <1>5, <1>8, <2>3
    <3>. QED
      BY <1>5, <3>1, <3>2
  <2>4. CASE /\ walk[w].at = "waiting"
             /\ state.at = "asking" /\ state.page = walk[w].page
             /\ state.attempt = walk[w].attempt + 1
    <3>1. pages1 = pages
      BY <1>5, <1>7, <2>4
    <3>2. rest = 2 * (m - a) + 1 /\ rest1 = 2 * (m - (a + 1)) + 2
      BY <1>5, <1>8, <2>4
    <3>. QED
      BY <1>5, <3>1, <3>2
  <2>. QED
    BY <1>1, <2>1, <2>2, <2>3, <2>4 DEF MovesTo
<1>. QED
  BY <1>2, <1>6, <1>9 DEF WalkAdvances

LEMMA ChangesAreBounded ==
    ASSUME DiscoveryInv, Counted, NEW w \in Walks, Add(w) \/ Withdraw(w)
    PROVE  ListingChanges
<1>1. PICK s, s1 : s \in Seq(Urls) /\ s = listing[w] /\ s1 = listing'[w]
  BY DEF DiscoveryInv, DiscoveryTypes
<1>2. /\ changes < MaxChanges /\ changes' = changes + 1
      /\ UNCHANGED <<cancelled, walk, result>>
  BY DEF Add, Withdraw
<1>3. Len(s) \in Nat /\ Len(s1) \in Nat /\ Len(s1) <= Len(s) + 1
  <2>1. CASE Add(w)
    <3>1. PICK u \in Newcomers, i \in 1..(Len(listing[w]) + 1) :
              listing' = [listing EXCEPT ![w] = InsertAt(@, i, u)]
      BY <2>1 DEF Add
    <3>2. u \in Urls /\ i \in 1..(Len(s) + 1)
      BY <1>1, <3>1, DiscoveryAssumption
    <3>3. s1 = InsertAt(s, i, u)
      BY <1>1, <3>1 DEF DiscoveryInv, DiscoveryTypes
    <3>4. s1 \in Seq(Urls) /\ Len(s1) = Len(s) + 1
      BY <1>1, <3>2, <3>3, InsertFacts
    <3>. QED
      BY <3>4
  <2>2. CASE Withdraw(w)
    <3>1. PICK i \in DOMAIN listing[w] : listing' = [listing EXCEPT ![w] = RemoveAt(@, i)]
      BY <2>2 DEF Withdraw
    <3>2. i \in 1..Len(s)
      BY <1>1, <3>1
    <3>3. s1 = RemoveAt(s, i)
      BY <1>1, <3>1 DEF DiscoveryInv, DiscoveryTypes
    <3>4. s1 \in Seq(Urls) /\ Len(s1) = Len(s) - 1
      BY <1>1, <3>2, <3>3, RemoveFacts
    <3>. QED
      BY <3>4
  <2>. QED
    BY <2>1, <2>2
<1>4. \A v \in Walks \ {w} : listing'[v] = listing[v]
  BY DEF Add, Withdraw, DiscoveryInv, DiscoveryTypes
<1>5. PICK c \in Nat, m \in Nat : c = changes /\ m = MaxChanges /\ c + 1 <= m
  <2>1. changes \in Nat /\ MaxChanges \in Nat
    BY DiscoveryAssumption DEF Counted
  <2>. QED
    BY <1>2, <2>1
<1>6. ASSUME NEW v \in Walks PROVE PagesLeft(v)' <= PagesLeft(v)
  <2>1. PICK n \in Nat, n1 \in Nat : n = Len(listing[v]) /\ n1 = Len(listing'[v]) /\ n1 <= n + 1
    <3>1. CASE v = w
      BY <1>1, <1>3, <3>1
    <3>2. CASE v # w
      <4>1. Len(listing[v]) \in Nat /\ listing'[v] = listing[v]
        BY <1>4, <3>2 DEF DiscoveryInv, DiscoveryTypes
      <4>. QED
        BY <4>1
    <3>. QED
      BY <3>1, <3>2
  <2>2. PICK b \in Nat, b1 \in Nat : b = n + (m - c) /\ b1 = n1 + (m - (c + 1)) /\ b1 <= b
    BY <1>5, <2>1, BudgetKept, Zenon
  <2>3. Budget(v) = b /\ Budget(v)' = b1
    BY <1>2, <1>5, <2>1, <2>2, Zenon DEF Budget
  <2>4. PICK p \in Nat : p = walk[v].page
    BY DEF DiscoveryInv, DiscoveryTypes
  <2>5. PICK pages, pages1 : pages = PagesLeft(v) /\ pages1 = PagesLeft(v)'
    OBVIOUS
  <2>6. /\ pages = IF walk[v].at \in {"done", "failed"} THEN 0 ELSE IF p <= b THEN b - p + 2 ELSE 1
        /\ pages1 = IF walk[v].at \in {"done", "failed"} THEN 0 ELSE IF p <= b1 THEN b1 - p + 2 ELSE 1
    BY <1>2, <2>3, <2>4, <2>5, Zenon DEF PagesLeft
  <2>7. pages1 <= pages
    BY <2>2, <2>4, <2>6, PagesKept, Zenon
  <2>. QED
    BY <2>5, <2>7
<1>7. changes' <= MaxChanges
  BY <1>2, <1>5
<1>. QED
  BY <1>2, <1>6, <1>7 DEF ListingChanges

LEMMA DiscoveryGoesForward ==
    DiscoveryInv /\ Counted /\ [DiscoveryNext]_discoveryVars => [DiscoveryStepTaken]_discoveryVars
<1>. SUFFICES ASSUME DiscoveryInv, Counted, DiscoveryNext PROVE DiscoveryStepTaken
  OBVIOUS
<1>1. CASE Cancel
  BY <1>1 DEF Cancel, DiscoveryStepTaken
<1>2. CASE NoKey \/ Merge
  <2>1. result = Running /\ UNCHANGED <<upstreamVars, cancelled, walk>>
    BY <1>2 DEF NoKey, Merge, Answer
  <2>2. result'.said \in {"list", "error"}
    BY <1>2 DEF NoKey, Merge, Answer
  <2>3. Running.said = "nothing yet"
    BY Zenon DEF Running
  <2>4. result' # Running
    BY Zenon, <2>2, <2>3
  <2>. QED
    BY <2>1, <2>4 DEF DiscoveryStepTaken
<1>3. ASSUME NEW w \in Walks, Add(w) \/ Withdraw(w) PROVE DiscoveryStepTaken
  BY <1>3, ChangesAreBounded DEF DiscoveryStepTaken
<1>4. ASSUME NEW w \in Walks, WalkStep(w) PROVE DiscoveryStepTaken
  BY <1>4, WalkGoesForward DEF DiscoveryStepTaken
<1>. QED
  BY <1>1, <1>2, <1>3, <1>4 DEF DiscoveryNext

\* What DiscoveryEnds says without fairness: every step of a walk leaves it fewer pages,
\* or as many and fewer attempts on its page (client.go:134); and there is one answer, one
\* cancellation and no more changes than the bound allows.  So no forge that answers keeps
\* a discovery going for ever, with 429 and 5xx, with full pages or by whatever it adds.
THEOREM DiscoveryRunsOut ==
    DiscoverySpec => /\ []DiscoveryMeasured
                     /\ [][DiscoveryStepTaken]_discoveryVars
<1>1. DiscoverySpec => []Counted
  BY DiscoveryInvariant, CountedInit, CountedStep, PTL DEF DiscoverySpec
<1>. QED
  BY <1>1, DiscoveryInvariant, Measured, DiscoveryGoesForward, PTL DEF DiscoverySpec
=============================================================================
