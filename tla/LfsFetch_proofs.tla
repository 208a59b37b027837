---------------------------- MODULE LfsFetch_proofs ----------------------------
(***************************************************************************)
(* The fetch of a mirror's Git LFS objects, for any repository, any number *)
(* of objects and any endpoint.                                            *)
(*                                                                         *)
(* First the scan: when nothing is left to visit, what was seen is closed  *)
(* under what commits and trees name, and what is reachable is in every    *)
(* such set, so no induction over the history is needed.                   *)
(*                                                                         *)
(* Then the sweep.  The call stack of fetchChunk is a chain of nested      *)
(* ranges of the list: each open call asks for one of its halves, and the  *)
(* next call is that half.  The invariant says of every open call what the *)
(* other half has come to (Frame, OtherHalf), of the call on top where it  *)
(* stands (Top), and of the chunks before it what they came to (Sweep).    *)
(* A step works on the range of the call on top, and the ranges that the   *)
(* calls below still answer for are apart from it (OthersKept, FrameKept). *)
(*                                                                         *)
(* Last, that the fetch ends, as far as no fairness is needed for it: some *)
(* step can be taken until then, and a measure falls with every step.      *)
(***************************************************************************)
EXTENDS LfsFetch, FiniteSetTheorems, SequenceTheorems, TLAPS

\* What is seen is of its kind, and trees to be walked were seen and could be read.
Kinds ==
    /\ repo \in Repositories
    /\ seenTrees \subseteq OfKind(Objects, "tree")
    /\ seenBlobs \subseteq OfKind(Objects, "blob")
    /\ pending \subseteq seenTrees

\* Of the refs and of every commit visited, what they name is visited or queued.
CommitsFollowed ==
    /\ scan = "refs" => queue = {}
    /\ scan \in {"commits", "done"} => TipCommits \subseteq queue \cup seenCommits
    /\ \A c \in seenCommits : IsCommit(c) =>
          /\ repo.parents[c] \subseteq queue \cup seenCommits
          /\ repo.tree[c] \in seenTrees

\* Of every tree walked, the entries are seen.
TreesFollowed ==
    \A t \in seenTrees \ pending : Readable(t) =>
        /\ OfKind(repo.entries[t], "tree") \subseteq seenTrees
        /\ OfKind(repo.entries[t], "blob") \subseteq seenBlobs

\* Of every blob seen, the pointer is collected, or the blob is reported.
BlobsRead ==
    \A b \in seenBlobs :
        IF Readable(b) THEN repo.pointer[b] \in pointers \cup {NotPointer} ELSE b \in skipped

NothingLeft == scan = "done" => queue = {} /\ pending = {}

ScanInv == Kinds /\ CommitsFollowed /\ TreesFollowed /\ BlobsRead /\ NothingLeft

LEMMA InvInit == ASSUME ScanInit PROVE ScanInv
<1>1. /\ scan = "refs" /\ queue = {} /\ seenCommits = {} /\ pending = {}
      /\ seenTrees = {} /\ seenBlobs = {} /\ repo \in Repositories
  BY DEF ScanInit
<1>. QED
  BY <1>1 DEF ScanInv, Kinds, CommitsFollowed, TreesFollowed, BlobsRead, NothingLeft

\* Everything that only depends on the repository stays as it is.
LEMMA RepositoryStays ==
    ASSUME repo' = repo
    PROVE  /\ TipCommits' = TipCommits
           /\ \A o : IsCommit(o)' <=> IsCommit(o)
           /\ \A o : Readable(o)' <=> Readable(o)
BY DEF TipCommits, PeelToCommitHash, IsCommit, Readable

LEMMA InvCollectRefs == ASSUME ScanInv, CollectRefs PROVE ScanInv'
<1>. USE DEF ScanInv
<1>1. /\ repo' = repo /\ seenCommits' = seenCommits /\ pending' = pending /\ seenTrees' = seenTrees
      /\ seenBlobs' = seenBlobs /\ skipped' = skipped /\ pointers' = pointers
      /\ scan = "refs" /\ scan' = "commits" /\ queue' = TipCommits
  BY DEF CollectRefs
<1>2. Kinds'
  BY <1>1 DEF Kinds, OfKind
<1>3. CommitsFollowed'
  <2>1. queue = {}
    BY <1>1 DEF CommitsFollowed
  <2>2. \A c \in seenCommits : IsCommit(c) =>
           repo.parents[c] \subseteq queue \cup seenCommits /\ repo.tree[c] \in seenTrees
    BY DEF CommitsFollowed
  <2>. QED
    BY <1>1, <2>1, <2>2, RepositoryStays DEF CommitsFollowed
<1>4. TreesFollowed'
  BY <1>1, RepositoryStays DEF TreesFollowed, OfKind
<1>5. BlobsRead'
  BY <1>1, RepositoryStays DEF BlobsRead
<1>6. NothingLeft'
  BY <1>1 DEF NothingLeft
<1>. QED
  BY <1>2, <1>3, <1>4, <1>5, <1>6

LEMMA InvSkipCommit == ASSUME ScanInv, NEW c \in queue, SkipCommit(c) PROVE ScanInv'
<1>. USE DEF ScanInv
<1>1. /\ repo' = repo /\ pending' = pending /\ seenTrees' = seenTrees
      /\ seenBlobs' = seenBlobs /\ skipped' = skipped /\ pointers' = pointers
      /\ scan' = "commits" /\ scan = "commits" /\ ~IsCommit(c)
      /\ queue' = queue \ {c} /\ seenCommits' = seenCommits \cup {c}
  BY DEF SkipCommit
<1>2. Kinds'
  BY <1>1 DEF Kinds, OfKind
<1>3. CommitsFollowed'
  BY <1>1, RepositoryStays DEF CommitsFollowed
<1>4. TreesFollowed'
  BY <1>1, RepositoryStays DEF TreesFollowed, OfKind
<1>5. BlobsRead'
  BY <1>1, RepositoryStays DEF BlobsRead
<1>6. NothingLeft'
  BY <1>1 DEF NothingLeft
<1>. QED
  BY <1>2, <1>3, <1>4, <1>5, <1>6

LEMMA InvVisitCommit == ASSUME ScanInv, NEW c \in queue, VisitCommit(c) PROVE ScanInv'
<1>. USE DEF ScanInv
<1>1. /\ repo' = repo /\ pending = {} /\ pending' = {repo.tree[c]}
      /\ seenTrees' = seenTrees \cup {repo.tree[c]}
      /\ seenBlobs' = seenBlobs /\ skipped' = skipped /\ pointers' = pointers
      /\ scan' = "commits" /\ scan = "commits" /\ IsCommit(c)
      /\ seenCommits' = seenCommits \cup {c}
      /\ queue' = (queue \ {c}) \cup (repo.parents[c] \ seenCommits')
  BY DEF VisitCommit
<1>2. Kinds'
  <2>1. Repository(repo)
    BY LfsScanAssumption DEF Kinds
  <2>2. c \in Objects /\ repo.kind[c] = "commit"
    BY <1>1, <2>1 DEF IsCommit, Readable, Repository
  <2>3. repo.tree[c] \in OfKind(Objects, "tree")
    BY <2>1, <2>2 DEF Repository, OfKind
  <2>. QED
    BY <1>1, <2>3 DEF Kinds, OfKind
<1>3. CommitsFollowed'
  <2>1. TipCommits' \subseteq queue' \cup seenCommits'
    BY <1>1, RepositoryStays DEF CommitsFollowed
  <2>2. queue \cup seenCommits \subseteq queue' \cup seenCommits'
    BY <1>1
  <2>3. repo.parents[c] \subseteq queue' \cup seenCommits'
    BY <1>1
  <2>4. ASSUME NEW d \in seenCommits', IsCommit(d)'
        PROVE  repo'.parents[d] \subseteq queue' \cup seenCommits' /\ repo'.tree[d] \in seenTrees'
    <3>1. CASE d = c
      BY <3>1, <2>3, <1>1
    <3>2. CASE d \in seenCommits
      BY <3>2, <2>2, <2>4, <1>1, RepositoryStays DEF CommitsFollowed
    <3>. QED
      BY <3>1, <3>2, <1>1
  <2>. QED
    BY <2>1, <2>4, <1>1 DEF CommitsFollowed
<1>4. TreesFollowed'
  BY <1>1, RepositoryStays DEF TreesFollowed, OfKind
<1>5. BlobsRead'
  BY <1>1, RepositoryStays DEF BlobsRead
<1>6. NothingLeft'
  BY <1>1 DEF NothingLeft
<1>. QED
  BY <1>2, <1>3, <1>4, <1>5, <1>6

LEMMA InvWalkTree == ASSUME ScanInv, NEW t \in pending, WalkTree(t) PROVE ScanInv'
<1>. USE DEF ScanInv
<1>. DEFINE subtrees == OfKind(repo.entries[t], "tree") \ seenTrees
            blobs    == OfKind(repo.entries[t], "blob") \ seenBlobs
            found    == {repo.pointer[b] : b \in blobs \cap repo.readable} \ {NotPointer}
<1>1. /\ repo' = repo /\ queue' = queue /\ seenCommits' = seenCommits
      /\ pending' = (pending \ {t}) \cup (subtrees \cap repo.readable)
      /\ seenTrees' = seenTrees \cup subtrees
      /\ seenBlobs' = seenBlobs \cup blobs
      /\ skipped' = skipped \cup ((subtrees \cup blobs) \ repo.readable)
      /\ pointers' = pointers \cup found
      /\ scan' = "commits" /\ scan = "commits"
  BY DEF WalkTree
<1>2. Kinds'
  <2>1. Repository(repo)
    BY LfsScanAssumption DEF Kinds
  <2>2. t \in Objects
    BY DEF Kinds, OfKind
  <2>3. repo.entries[t] \subseteq Objects
    BY <2>1, <2>2 DEF Repository
  <2>. HIDE DEF subtrees, blobs, found
  <2>4. subtrees \subseteq OfKind(Objects, "tree") /\ blobs \subseteq OfKind(Objects, "blob")
    BY <2>3 DEF OfKind, subtrees, blobs
  <2>. QED
    BY <1>1, <2>4 DEF Kinds, OfKind
<1>3. CommitsFollowed'
  BY <1>1, RepositoryStays DEF CommitsFollowed
<1>4. TreesFollowed'
  <2>1. ASSUME NEW u \in seenTrees' \ pending', Readable(u)'
        PROVE  /\ OfKind(repo.entries[u], "tree") \subseteq seenTrees'
               /\ OfKind(repo.entries[u], "blob") \subseteq seenBlobs'
    <3>1. CASE u = t
      BY <3>1, <1>1
    <3>2. CASE u # t
      <4>1. u \in repo.readable
        BY <2>1, <1>1 DEF Readable
      <4>2. u \in seenTrees \ pending
        BY <3>2, <4>1, <1>1
      <4>3. /\ OfKind(repo.entries[u], "tree") \subseteq seenTrees
            /\ OfKind(repo.entries[u], "blob") \subseteq seenBlobs
        BY <4>1, <4>2 DEF TreesFollowed, Readable
      <4>. QED
        BY <4>3, <1>1
    <3>. QED
      BY <3>1, <3>2
  <2>. QED
    BY <2>1, <1>1 DEF TreesFollowed, OfKind
<1>5. BlobsRead'
  <2>1. ASSUME NEW b \in seenBlobs'
        PROVE  IF Readable(b) THEN repo.pointer[b] \in pointers' \cup {NotPointer} ELSE b \in skipped'
    <3>1. CASE b \in seenBlobs
      BY <3>1, <1>1 DEF BlobsRead
    <3>2. CASE b \in blobs
      BY <3>2, <1>1 DEF Readable
    <3>. QED
      BY <3>1, <3>2, <1>1
  <2>. QED
    BY <2>1, <1>1, RepositoryStays DEF BlobsRead
<1>6. NothingLeft'
  BY <1>1 DEF NothingLeft
<1>. QED
  BY <1>2, <1>3, <1>4, <1>5, <1>6

\* The scan ends, is cancelled, or does nothing: what was seen does not change.
LEMMA InvRest ==
    ASSUME ScanInv, UNCHANGED <<repo, queue, seenCommits, pending, seenTrees, seenBlobs, skipped, pointers>>,
           scan' \in {scan, "failed"} \/ (ScanDone /\ scan' = "done")
    PROVE  ScanInv'
<1>. USE DEF ScanInv
<1>1. /\ repo' = repo /\ queue' = queue /\ seenCommits' = seenCommits /\ pending' = pending
      /\ seenTrees' = seenTrees /\ seenBlobs' = seenBlobs /\ skipped' = skipped /\ pointers' = pointers
  OBVIOUS
<1>2. Kinds'
  BY <1>1 DEF Kinds, OfKind
<1>3. CommitsFollowed'
  BY <1>1, RepositoryStays DEF CommitsFollowed, ScanDone
<1>4. TreesFollowed'
  BY <1>1, RepositoryStays DEF TreesFollowed, OfKind
<1>5. BlobsRead'
  BY <1>1, RepositoryStays DEF BlobsRead
<1>6. NothingLeft'
  BY <1>1 DEF NothingLeft, ScanDone
<1>. QED
  BY <1>2, <1>3, <1>4, <1>5, <1>6

LEMMA InvNext == ASSUME ScanInv, [ScanNext \/ CancelScan]_scanVars PROVE ScanInv'
<1>1. CASE CollectRefs
  BY <1>1, InvCollectRefs
<1>2. CASE \E c \in queue : SkipCommit(c) \/ VisitCommit(c)
  BY <1>2, InvSkipCommit, InvVisitCommit
<1>3. CASE \E t \in pending : WalkTree(t)
  BY <1>3, InvWalkTree
<1>4. CASE ScanDone
  BY <1>4, InvRest DEF ScanDone
<1>5. CASE ScanFails
  BY <1>5, InvRest DEF ScanFails
<1>6. CASE CancelScan
  BY <1>6, InvRest DEF CancelScan, mirrorVars
<1>7. CASE UNCHANGED scanVars
  BY <1>7, InvRest DEF scanVars, mirrorVars
<1>. QED
  BY <1>1, <1>2, <1>3, <1>4, <1>5, <1>6, <1>7 DEF ScanNext

-----------------------------------------------------------------------------
\* When the scan has ended with nothing skipped, what it saw is closed under what
\* commits and trees name, so it holds all that is reachable.
LEMMA InvComplete == ASSUME ScanInv PROVE ScanComplete
<1>. SUFFICES ASSUME scan = "done", skipped = {}, NEW b \in OfKind(Reachable, "blob")
              PROVE  repo.pointer[b] \in pointers \cup {NotPointer}
  BY DEF ScanComplete, ReachablePointers
<1>. USE DEF ScanInv
<1>. DEFINE commits == {c \in seenCommits : c \in Objects /\ repo.kind[c] = "commit"}
            seen    == commits \cup seenTrees \cup seenBlobs
<1>1. queue = {} /\ pending = {}
  BY DEF NothingLeft
<1>2. /\ \A c \in commits : repo.kind[c] = "commit"
      /\ \A t \in seenTrees : repo.kind[t] = "tree"
      /\ \A o \in seenBlobs : repo.kind[o] = "blob"
      /\ seen \subseteq Objects
  BY DEF Kinds, OfKind
<1>3. Repository(repo)
  BY LfsScanAssumption DEF Kinds
<1>4. TipCommits \cap OfKind(Objects, "commit") \subseteq seen
  BY <1>1 DEF CommitsFollowed, OfKind
<1>5. ASSUME NEW o \in seen, Readable(o)
      PROVE  Names(o) \subseteq seen
  <2>1. CASE o \in commits
    <3>1. repo.parents[o] \subseteq seenCommits /\ repo.tree[o] \in seenTrees
      BY <2>1, <1>1, <1>5 DEF CommitsFollowed, IsCommit
    <3>2. ASSUME NEW p \in repo.parents[o]
          PROVE  p \in commits
      <4>1. p \in Objects /\ repo.kind[p] = "commit"
        BY <2>1, <3>2, <1>3 DEF Repository
      <4>. QED
        BY <4>1, <3>1, <3>2
    <3>. QED
      BY <2>1, <3>1, <3>2 DEF Names
  <2>2. CASE o \in seenTrees
    <3>1. /\ OfKind(repo.entries[o], "tree") \subseteq seenTrees
          /\ OfKind(repo.entries[o], "blob") \subseteq seenBlobs
      BY <2>2, <1>1, <1>5 DEF TreesFollowed
    <3>. QED
      BY <2>2, <3>1, <1>2 DEF Names
  <2>3. CASE o \in seenBlobs
    BY <2>3, <1>2 DEF Names
  <2>. QED
    BY <2>1, <2>2, <2>3
<1>6. b \in seen
  <2>1. \A o \in seen \cap repo.readable : Names(o) \subseteq seen
    BY <1>5 DEF Readable
  <2>2. Closed(seen)
    BY <1>4, <2>1 DEF Closed
  <2>. HIDE DEF seen
  <2>3. seen \in SUBSET Objects
    BY <1>2
  <2>. QED
    BY <2>2, <2>3 DEF Reachable, OfKind
<1>7. b \in seenBlobs
  BY <1>2, <1>6 DEF OfKind
<1>. QED
  BY <1>7 DEF BlobsRead

\* "A backup reported as complete while content it could not scan is silently absent
\* is worse than one that reports what it could not do" (lfs.go:114-116): a scan that
\* ends without an error and without skipped entries has found the pointer of every
\* blob that the refs reach, in a repository of any size and shape.
THEOREM ScanFindsAll == ScanSpec => []ScanComplete
<1>1. ScanInit => ScanInv
  BY InvInit
<1>2. ScanInv /\ [ScanNext \/ CancelScan]_scanVars => ScanInv'
  BY InvNext
<1>3. ScanInv => ScanComplete
  BY InvComplete
<1>. QED
  BY <1>1, <1>2, <1>3, PTL DEF ScanSpec

-----------------------------------------------------------------------------
(* Sequences and counts. *)

\* Objects of a range of the list, and what the calls of fetchChunk make of it.
Segment(lo, hi) == {list[i] : i \in lo .. hi}

Count(outcome) == outcome.unavailable + outcome.rejected

\* The list in the order of SetToSeq: every pointer, once.
LEMMA SetListed ==
    ASSUME NEW S, IsFiniteSet(S)
    PROVE  /\ SetToSeq(S) \in Seq(S)
           /\ \A i, j \in 1 .. Len(SetToSeq(S)) : SetToSeq(S)[i] = SetToSeq(S)[j] => i = j
           /\ ToSet(SetToSeq(S)) = S
<1>. DEFINE n == Cardinality(S)
            s == SetToSeq(S)
<1>1. n \in Nat /\ ExistsBijection(1 .. n, S)
  BY FS_CardinalityType
<1>2. \E f \in [1 .. n -> S] : IsInjective(f)
  BY <1>1 DEF ExistsBijection, Bijection, Injection
<1>3. s \in [1 .. n -> S] /\ IsInjective(s)
  BY <1>2 DEF SetToSeq
<1>4. s \in Surjection(1 .. n, S)
  <2>1. s \in Injection(1 .. n, S)
    BY <1>3 DEF Injection
  <2>2. IsFiniteSet(1 .. n) /\ Cardinality(1 .. n) = n
    BY <1>1, FS_Interval
  <2>. QED
    BY <2>1, <2>2, FS_Injection
<1>5. s \in Seq(S) /\ Len(s) = n
  BY <1>1, <1>3
<1>. HIDE DEF s, n
<1>6. \A i, j \in 1 .. Len(s) : s[i] = s[j] => i = j
  BY <1>3, <1>5 DEF IsInjective
<1>7. ToSet(s) = S
  BY <1>3, <1>4 DEF Surjection, ToSet
<1>. QED
  BY <1>5, <1>6, <1>7 DEF s

\* Of disjoint sets the sizes add up.
LEMMA DisjointCount ==
    ASSUME NEW A, NEW B, IsFiniteSet(A), IsFiniteSet(B), A \cap B = {}
    PROVE  /\ Cardinality(A \cup B) = Cardinality(A) + Cardinality(B)
           /\ Cardinality(A) \in Nat /\ Cardinality(B) \in Nat /\ IsFiniteSet(A \cup B)
<1>1. IsFiniteSet(A \cup B) /\ Cardinality(A \cup B) = Cardinality(A) + Cardinality(B) - Cardinality(A \cap B)
  BY FS_Union
<1>2. Cardinality(A) \in Nat /\ Cardinality(B) \in Nat /\ Cardinality(A \cap B) = 0
  BY FS_EmptySet, FS_CardinalityType
<1>3. Cardinality(A) + Cardinality(B) - 0 = Cardinality(A) + Cardinality(B)
  BY <1>2
<1>. QED
  BY <1>1, <1>2, <1>3

\* Front takes away the last element and no other.
LEMMA Popped ==
    ASSUME NEW S, NEW s \in Seq(S), s # <<>>
    PROVE  /\ Front(s) \in Seq(S) /\ Len(Front(s)) = Len(s) - 1
           /\ \A k \in 1 .. Len(s) - 1 : Front(s)[k] = s[k]
<1>1. Len(s) \in Nat /\ Len(s) >= 1
  BY EmptySeq
<1>2. \A i \in 1 .. Len(s) - 1 : s[i] \in S
  BY <1>1, ElementOfSeq
<1>. DEFINE n == Len(s) - 1
            f == SubSeq(s, 1, n)
<1>3. n \in Int /\ \A i \in 1 .. n : s[i] \in S
  BY <1>1, <1>2
<1>. HIDE DEF n
<1>4. /\ f \in Seq(S) /\ Len(f) = IF 1 <= n THEN n - 1 + 1 ELSE 0
      /\ \A i \in 1 .. n - 1 + 1 : f[i] = s[1 + i - 1]
  BY <1>3, SubSeqProperties
<1>. HIDE DEF f
<1>5. n = Len(s) - 1
  BY DEF n
<1>6. f \in Seq(S) /\ Len(f) = Len(s) - 1
  BY <1>1, <1>4, <1>5
<1>7. \A i \in 1 .. Len(s) - 1 : f[i] = s[i]
  BY <1>1, <1>4, <1>5
<1>. QED
  BY <1>6, <1>7 DEF Front, f, n

\* A call that goes on with one of its halves.
LEMMA Pushed ==
    ASSUME NEW S, NEW s \in Seq(S), s # <<>>, NEW c \in S, NEW d \in S
    PROVE  LET t == Append(Front(s) \o <<c>>, d)
           IN  /\ t \in Seq(S) /\ Len(t) = Len(s) + 1
               /\ \A k \in 1 .. Len(s) - 1 : t[k] = s[k]
               /\ t[Len(s)] = c /\ t[Len(s) + 1] = d
<1>. DEFINE f == Front(s)
            g == f \o <<c>>
            t == Append(g, d)
<1>1. Len(s) \in Nat /\ Len(s) >= 1
  BY EmptySeq
<1>2. /\ f \in Seq(S) /\ Len(f) = Len(s) - 1
      /\ \A k \in 1 .. Len(s) - 1 : f[k] = s[k]
  BY Popped
<1>. HIDE DEF f
<1>3. /\ g \in Seq(S) /\ Len(g) = Len(s)
      /\ \A k \in 1 .. Len(s) - 1 : g[k] = s[k]
      /\ g[Len(s)] = c
  <2>1. <<c>> \in Seq(S) /\ Len(<<c>>) = 1 /\ <<c>>[1] = c
    OBVIOUS
  <2>. QED
    BY <1>1, <1>2, <2>1, ConcatProperties
<1>. HIDE DEF g
<1>4. /\ t \in Seq(S) /\ Len(t) = Len(s) + 1
      /\ \A k \in 1 .. Len(s) : t[k] = g[k]
      /\ t[Len(s) + 1] = d
  BY <1>1, <1>3, AppendProperties
<1>. HIDE DEF t
<1>5. /\ \A k \in 1 .. Len(s) - 1 : t[k] = s[k]
      /\ t[Len(s)] = c
  BY <1>1, <1>3, <1>4
<1>. QED
  BY <1>4, <1>5 DEF t, g, f
-----------------------------------------------------------------------------
(* The invariant of the sweep. *)

Halves   == {"first half", "second half"}
Outcomes == [unavailable : Nat, rejected : Nat, answered : BOOLEAN]
Errors   == {"none", "refused", "failed"}
CallSet  == [lo : Nat, hi : Nat, stage : {"request"} \cup Halves, outcome : Outcomes, err : Errors]

FetchTypes ==
    /\ pc \in {"scan", "probe", "chunk", "ask", "download", "again", "return", "done"}
    /\ limit \in Nat \ {0}
    /\ list \in Seq(Oids) /\ \A i, j \in 1 .. Len(list) : list[i] = list[j] => i = j
    /\ next \in Nat \ {0} /\ failures \in Nat /\ total \in Outcomes
    /\ calls \in Seq(CallSet) /\ ret \in [outcome : Outcomes, err : Errors]
    /\ lapsed \subseteq Oids /\ refused \in Nat /\ broken \in BOOLEAN
    /\ store \subseteq Oids /\ accepted \subseteq Oids /\ lost \subseteq Oids /\ dropped \subseteq Oids

\* fetchBatches: the chunk that is worked on, and how far the sweep has come.
InCall  == pc \in {"ask", "download", "again", "return"}
ChunkLo == next - limit
ChunkHi == Smaller(next - 1, Len(list))
Done    == IF InCall THEN ChunkLo - 1 ELSE Smaller(next - 1, Len(list))

\* The half that a call has asked for last.
HalfLo(c) == IF c.stage = "first half" THEN c.lo ELSE c.lo + Middle(c)
HalfHi(c) == IF c.stage = "first half" THEN c.lo + Middle(c) - 1 ELSE c.hi

\* Nothing of a range has been answered for.
Untouched(lo, hi) == Segment(lo, hi) \cap (accepted \cup lost) = {}

\* What a range has come to, if fetchChunk returns this outcome and error for it: what
\* is counted is what was lost; every object was asked for; without a failure each is
\* stored or lost; and if no object was answered for, none is said to be.
Settled(lo, hi, outcome, err) ==
    /\ Count(outcome) = Cardinality(lost \cap Segment(lo, hi))
    /\ Segment(lo, hi) \subseteq accepted \cup lost \cup dropped
    /\ err # "failed" => Segment(lo, hi) \subseteq store \cup lost
    /\ err = "refused" => ~outcome.answered /\ outcome.unavailable = 0
    /\ err # "failed" /\ ~outcome.answered /\ outcome.unavailable = 0 =>
          Segment(lo, hi) \cap accepted = {}

\* When the second half of a call is asked for the first is settled, and when the first is
\* asked for the second is untouched.
OtherHalf(c) ==
    /\ c.stage = "second half" => Settled(c.lo, c.lo + Middle(c) - 1, c.outcome, c.err)
    /\ c.stage = "first half" => Untouched(c.lo + Middle(c), c.hi)

\* One open call of the stack s: it lies in the chunk, and the calls above it lie in the
\* half it has asked for; the next one is that half.
Frame(s, k) ==
    LET c == s[k]
    IN  /\ ChunkLo <= c.lo /\ c.lo <= c.hi /\ c.hi <= ChunkHi
        /\ k = 1 => c.lo = ChunkLo /\ c.hi = ChunkHi
        /\ c.stage \in Halves => c.lo < c.hi
        /\ k < Len(s) => s[k + 1].lo = HalfLo(c) /\ s[k + 1].hi = HalfHi(c)
        /\ \A j \in (k + 1) .. Len(s) : HalfLo(c) <= s[j].lo /\ s[j].hi <= HalfHi(c)
        /\ OtherHalf(c)

Stack ==
    /\ ~InCall => calls = <<>>
    /\ pc \in {"ask", "download", "again"} => calls # <<>>
    /\ InCall => 1 <= ChunkLo /\ ChunkLo <= ChunkHi
    /\ \A k \in 1 .. Len(calls) :
          /\ calls[k].stage \in Halves <=> k < Len(calls) \/ pc = "return"
          /\ Frame(calls, k)

RetLo == IF calls = <<>> THEN ChunkLo ELSE HalfLo(Current)
RetHi == IF calls = <<>> THEN ChunkHi ELSE HalfHi(Current)

\* The range of the call on top, or of the one that has just returned.
Top ==
    /\ pc = "return" => Settled(RetLo, RetHi, ret.outcome, ret.err)
    /\ pc = "ask" => Untouched(Current.lo, Current.hi)
    /\ pc \in {"download", "again"} => Want \subseteq accepted
    /\ pc = "download" => Want \cap lost = {}
    /\ pc = "again" => /\ lapsed \subseteq Want \ lost
                       /\ refused = Cardinality(lost \cap Want)
                       /\ ~broken => Want \subseteq store \cup lost \cup lapsed

\* The chunks before, and what lies ahead.
Sweep ==
    /\ Count(total) = Cardinality(lost \cap Segment(1, Done))
    /\ Segment(1, Done) \subseteq accepted \cup lost \cup dropped
    /\ failures = 0 => Segment(1, Done) \subseteq store \cup lost
    /\ lost \subseteq ToSet(list)
    /\ Untouched(next, Len(list))
    /\ pc \in {"scan", "probe"} => next = 1 /\ failures = 0 /\ accepted = {}
    /\ pc = "scan" => list = <<>>

FetchInv == FetchTypes /\ Stack /\ Top /\ Sweep

-----------------------------------------------------------------------------
(* Ranges. *)

LEMMA SegmentIn ==
    ASSUME FetchTypes, NEW lo \in Nat, NEW hi \in Int, 1 <= lo, hi <= Len(list)
    PROVE  Segment(lo, hi) \subseteq Oids /\ Segment(lo, hi) \subseteq ToSet(list)
<1>1. list \in Seq(Oids) /\ Len(list) \in Nat /\ DOMAIN list = 1 .. Len(list)
  BY LenProperties DEF FetchTypes
<1>2. \A i \in lo .. hi : i \in 1 .. Len(list) /\ list[i] \in Oids
  BY <1>1, ElementOfSeq
<1>. QED
  BY <1>1, <1>2 DEF Segment, ToSet

\* Ranges apart from each other share no object, as the list names each once.
LEMMA SegmentsApart ==
    ASSUME FetchTypes, NEW a \in Nat, NEW b \in Int, NEW lo \in Nat, NEW hi \in Int,
           1 <= a, b <= Len(list), 1 <= lo, hi <= Len(list), b < lo \/ hi < a
    PROVE  Segment(a, b) \cap Segment(lo, hi) = {}
<1>1. Len(list) \in Nat /\ \A i, j \in 1 .. Len(list) : list[i] = list[j] => i = j
  BY LenProperties DEF FetchTypes
<1>2. ASSUME NEW i \in a .. b, NEW j \in lo .. hi, list[i] = list[j] PROVE FALSE
  BY <1>1, <1>2
<1>. QED
  BY <1>2 DEF Segment

LEMMA SegmentsJoin ==
    ASSUME NEW lo \in Nat, NEW m \in Nat, NEW hi \in Nat, lo <= m, m <= hi + 1
    PROVE  Segment(lo, hi) = Segment(lo, m - 1) \cup Segment(m, hi)
<1>1. lo .. hi = (lo .. m - 1) \cup (m .. hi)
  OBVIOUS
<1>. QED
  BY <1>1 DEF Segment

\* A step that works on one range.
WorksOn(lo, hi) ==
    /\ UNCHANGED <<list, limit, next>>
    /\ accepted \subseteq accepted' /\ lost \subseteq lost'
    /\ dropped \subseteq dropped' /\ store \subseteq store'
    /\ (accepted' \ accepted) \cup (lost' \ lost) \subseteq Segment(lo, hi)

\* ... leaves every other range as it is.
LEMMA OthersKept ==
    ASSUME FetchTypes, NEW a \in Nat, NEW b \in Int, NEW lo \in Nat, NEW hi \in Int,
           1 <= a, b <= Len(list), 1 <= lo, hi <= Len(list), b < lo \/ hi < a,
           WorksOn(lo, hi)
    PROVE  /\ Segment(a, b)' = Segment(a, b)
           /\ lost' \cap Segment(a, b) = lost \cap Segment(a, b)
           /\ Untouched(a, b) => Untouched(a, b)'
           /\ \A o, e : Settled(a, b, o, e) => Settled(a, b, o, e)'
<1>1. Segment(a, b)' = Segment(a, b)
  BY DEF WorksOn, Segment
<1>2. Segment(a, b) \cap Segment(lo, hi) = {}
  BY SegmentsApart
<1>3. /\ lost' \cap Segment(a, b) = lost \cap Segment(a, b)
      /\ accepted' \cap Segment(a, b) = accepted \cap Segment(a, b)
  BY <1>2 DEF WorksOn
<1>4. Untouched(a, b) => Untouched(a, b)'
  BY <1>1, <1>3 DEF Untouched
<1>5. ASSUME NEW o, NEW e, Settled(a, b, o, e) PROVE Settled(a, b, o, e)'
  <2>1. lost' \cap Segment(a, b)' = lost \cap Segment(a, b)
    BY <1>1, <1>3
  <2>2. accepted' \cap Segment(a, b)' = accepted \cap Segment(a, b)
    BY <1>1, <1>3
  <2>. QED
    BY <1>1, <1>5, <2>1, <2>2 DEF Settled, Count, WorksOn
<1>. QED
  BY <1>1, <1>3, <1>4, <1>5

-----------------------------------------------------------------------------
(* The stack. *)

\* The halves of a range of several objects: neither is empty, and both lie within it.
LEMMA MiddleInside ==
    ASSUME NEW c \in CallSet, c.lo < c.hi
    PROVE  Middle(c) \in Nat /\ c.lo < c.lo + Middle(c) /\ c.lo + Middle(c) <= c.hi
<1>1. c.lo \in Nat /\ c.hi \in Nat
  BY DEF CallSet
<1>. QED
  BY <1>1 DEF Middle

LEMMA HalfInside ==
    ASSUME NEW c \in CallSet, c.lo < c.hi
    PROVE  /\ HalfLo(c) \in Nat /\ HalfHi(c) \in Nat
           /\ c.lo <= HalfLo(c) /\ HalfLo(c) <= HalfHi(c) /\ HalfHi(c) <= c.hi
           /\ HalfHi(c) - HalfLo(c) < c.hi - c.lo
           /\ c.stage = "second half" => HalfLo(c) = c.lo + Middle(c) /\ HalfHi(c) = c.hi
           /\ c.stage = "first half" => HalfLo(c) = c.lo /\ HalfHi(c) = c.lo + Middle(c) - 1
<1>1. c.lo \in Nat /\ c.hi \in Nat
  BY DEF CallSet
<1>2. Middle(c) \in Nat /\ c.lo < c.lo + Middle(c) /\ c.lo + Middle(c) <= c.hi
  BY MiddleInside
<1>3. /\ c.stage # "first half" => HalfLo(c) = c.lo + Middle(c) /\ HalfHi(c) = c.hi
      /\ c.stage = "first half" => HalfLo(c) = c.lo /\ HalfHi(c) = c.lo + Middle(c) - 1
  BY DEF HalfLo, HalfHi
<1>4. CASE c.stage = "first half"
  <2>1. HalfLo(c) = c.lo /\ HalfHi(c) = c.lo + Middle(c) - 1
    BY <1>3, <1>4
  <2>2. HalfLo(c) \in Nat /\ HalfHi(c) \in Nat
    BY <1>1, <1>2, <2>1
  <2>3. c.lo <= HalfLo(c) /\ HalfLo(c) <= HalfHi(c) /\ HalfHi(c) <= c.hi
    BY <1>1, <1>2, <2>1
  <2>4. HalfHi(c) - HalfLo(c) < c.hi - c.lo
    BY <1>1, <1>2, <2>1
  <2>. QED
    BY <1>4, <2>1, <2>2, <2>3, <2>4
<1>5. CASE c.stage # "first half"
  <2>1. HalfLo(c) = c.lo + Middle(c) /\ HalfHi(c) = c.hi
    BY <1>3, <1>5
  <2>2. HalfLo(c) \in Nat /\ HalfHi(c) \in Nat
    BY <1>1, <1>2, <2>1
  <2>3. c.lo <= HalfLo(c) /\ HalfLo(c) <= HalfHi(c) /\ HalfHi(c) <= c.hi
    BY <1>1, <1>2, <2>1
  <2>4. HalfHi(c) - HalfLo(c) < c.hi - c.lo
    BY <1>1, <1>2, <2>1
  <2>. QED
    BY <1>5, <2>1, <2>2, <2>3, <2>4
<1>. QED
  BY <1>4, <1>5

\* The call on top: where it lies.
LEMMA TopCall ==
    ASSUME FetchInv, calls # <<>>
    PROVE  /\ Len(calls) \in Nat /\ Len(calls) >= 1 /\ Current = calls[Len(calls)] /\ Current \in CallSet
           /\ InCall /\ ChunkLo \in Nat /\ 1 <= ChunkLo /\ ChunkLo <= Current.lo
           /\ Current.lo <= Current.hi /\ Current.hi <= ChunkHi
           /\ ChunkHi <= Len(list) /\ ChunkHi < next /\ Len(list) \in Nat
<1>. USE DEF FetchInv, FetchTypes
<1>1. Len(calls) \in Nat /\ Len(calls) >= 1
  BY EmptySeq
<1>2. Current = calls[Len(calls)] /\ Current \in CallSet
  BY <1>1, ElementOfSeq DEF Current, Last
<1>3. Frame(calls, Len(calls)) /\ InCall /\ 1 <= ChunkLo
  BY <1>1 DEF Stack
<1>4. Len(list) \in Nat /\ next \in Nat /\ limit \in Nat
  BY LenProperties
<1>5. Current.lo \in Nat /\ Current.hi \in Nat
  BY <1>2 DEF CallSet
<1>6. ChunkLo \in Nat /\ ChunkHi \in Int /\ ChunkHi <= Len(list) /\ ChunkHi < next
  BY <1>3, <1>4 DEF ChunkLo, ChunkHi, Smaller
<1>7. ChunkLo <= Current.lo /\ Current.lo <= Current.hi /\ Current.hi <= ChunkHi
  BY <1>2, <1>3 DEF Frame
<1>. QED
  BY <1>1, <1>2, <1>3, <1>4, <1>6, <1>7

\* Arithmetic that the next proofs cite, since it is lost among facts about sequences.
LEMMA UpTo == \A x, y, z \in Nat : x <= y /\ y <= z => x <= z
OBVIOUS

LEMMA RangeBefore ==
    \A a, m, z, lo, len \in Nat :
        a + m <= lo /\ a + m <= z /\ z <= len =>
            a + m - 1 \in Int /\ a + m - 1 < lo /\ a + m - 1 <= len
OBVIOUS

LEMMA RangeBehind ==
    \A a, m, hi \in Nat :
        1 <= a /\ hi <= a + m - 1 => a + m \in Nat /\ hi < a + m /\ 1 <= a + m
OBVIOUS

\* A step that works on the top call, or on part of it, disturbs none of the calls below,
\* whatever it does to the stack from there on.
LEMMA FrameKept ==
    ASSUME FetchInv, calls # <<>>, NEW lo, NEW hi, lo = Current.lo, hi = Current.hi,
           WorksOn(lo, hi),
           NEW t, Len(t) \in Nat, NEW k \in 1 .. Len(calls) - 1, t[k] = calls[k],
           \A j \in (k + 1) .. Len(t) :
               \/ j <= Len(calls) /\ t[j].lo = calls[j].lo /\ t[j].hi = calls[j].hi
               \/ j > Len(calls) /\ lo <= t[j].lo /\ t[j].hi <= hi /\ t[j].lo \in Nat /\ t[j].hi \in Nat
    PROVE  Frame(t, k)'
<1>. DEFINE n == Len(calls)
            c == calls[k]
<1>1. /\ n \in Nat /\ n >= 1 /\ Current = calls[n] /\ Current \in CallSet
      /\ InCall /\ ChunkLo \in Nat /\ 1 <= ChunkLo /\ ChunkLo <= lo /\ lo <= hi /\ hi <= ChunkHi
      /\ ChunkHi <= Len(list) /\ ChunkHi < next /\ Len(list) \in Nat
  BY TopCall
<1>2. c \in CallSet /\ c.lo \in Nat /\ c.hi \in Nat /\ lo \in Nat /\ hi \in Nat
  <2>1. calls \in Seq(CallSet) /\ k \in 1 .. Len(calls)
    BY <1>1 DEF FetchInv, FetchTypes
  <2>2. c \in CallSet
    BY <2>1, ElementOfSeq
  <2>. QED
    BY <1>1, <2>2 DEF CallSet
<1>3. Frame(calls, k) /\ c.stage \in Halves
  BY <1>1 DEF FetchInv, Stack
<1>4. c.lo < c.hi /\ ChunkLo <= c.lo /\ c.hi <= ChunkHi
  BY <1>3 DEF Frame
<1>5. Middle(c) \in Nat /\ c.lo < c.lo + Middle(c) /\ c.lo + Middle(c) <= c.hi
  BY <1>2, <1>4, MiddleInside
<1>6. /\ HalfLo(c) \in Nat /\ HalfHi(c) \in Nat
      /\ c.stage = "second half" => HalfLo(c) = c.lo + Middle(c)
      /\ c.stage = "first half" => HalfHi(c) = c.lo + Middle(c) - 1
  BY <1>2, <1>4, HalfInside
<1>7. /\ k < n => calls[k + 1].lo = HalfLo(c) /\ calls[k + 1].hi = HalfHi(c)
      /\ \A j \in (k + 1) .. n : HalfLo(c) <= calls[j].lo /\ calls[j].hi <= HalfHi(c)
  BY <1>3 DEF Frame
<1>8. HalfLo(c) <= lo /\ hi <= HalfHi(c)
  BY <1>1, <1>7
<1>9. ChunkLo' = ChunkLo /\ ChunkHi' = ChunkHi
  BY DEF WorksOn, ChunkLo, ChunkHi
<1>10. Len(list) \in Nat /\ ChunkHi \in Int /\ ChunkHi <= Len(list) /\ c.hi <= Len(list)
  BY <1>1, <1>2, <1>4, LenProperties DEF ChunkHi, FetchInv, FetchTypes, Smaller
<1>11. PICK a, z, m, o, e :
          /\ a \in Nat /\ z \in Nat /\ m \in Nat
          /\ a = t[k].lo /\ z = t[k].hi /\ m = Middle(t[k]) /\ o = t[k].outcome /\ e = t[k].err
  BY <1>2, <1>5
<1>12. /\ a \in Nat /\ z \in Nat /\ m \in Nat
       /\ a < a + m /\ a + m <= z /\ ChunkLo <= a /\ z <= ChunkHi /\ z <= Len(list) /\ 1 <= a /\ 1 <= lo
       /\ hi <= Len(list)
       /\ t[k].stage = "second half" => a + m <= lo
       /\ t[k].stage = "first half" => hi <= a + m - 1
  <2>1. a < a + m /\ a + m <= z /\ ChunkLo <= a /\ z <= ChunkHi /\ z <= Len(list)
    BY <1>4, <1>5, <1>10, <1>11
  <2>2. 1 <= a /\ 1 <= lo /\ hi <= Len(list)
    <3>1. /\ ChunkLo \in Nat /\ 1 <= ChunkLo /\ ChunkLo <= lo /\ hi <= ChunkHi /\ ChunkHi <= Len(list)
          /\ a \in Nat /\ lo \in Nat /\ hi \in Nat /\ Len(list) \in Nat /\ ChunkHi \in Int
          /\ ChunkLo <= a
      BY <1>1, <1>2, <1>10, <1>11, <2>1, Zenon
    <3>. QED
      BY <3>1
  <2>3. t[k].stage = "second half" => a + m <= lo
    BY <1>6, <1>8, <1>11
  <2>4. t[k].stage = "first half" => hi <= a + m - 1
    BY <1>6, <1>8, <1>11
  <2>. QED
    BY <1>11, <2>1, <2>2, <2>3, <2>4
<1>13. ASSUME t[k].stage = "second half" PROVE Settled(a, a + m - 1, o, e)'
  <2>1. Settled(a, a + m - 1, o, e)
    BY <1>3, <1>11, <1>13 DEF Frame, OtherHalf
  <2>2. a + m <= lo
    BY <1>12, <1>13
  <2>3. /\ a \in Nat /\ z \in Nat /\ m \in Nat
        /\ lo \in Nat /\ hi \in Nat /\ 1 <= a /\ a + m <= z /\ z <= Len(list)
        /\ 1 <= lo /\ hi <= Len(list) /\ Len(list) \in Nat
    BY <1>2, <1>10, <1>12, Zenon
  <2>4. a + m - 1 \in Int /\ a + m - 1 < lo /\ a + m - 1 <= Len(list)
    BY <2>2, <2>3, RangeBefore, Zenon
  <2>5. FetchTypes /\ lo \in Nat /\ hi \in Int
    BY <2>3 DEF FetchInv
  <2>6. Settled(a, a + m - 1, o, e) => Settled(a, a + m - 1, o, e)'
    BY <2>3, <2>4, <2>5, OthersKept, Zenon
  <2>. QED
    BY <2>1, <2>6, Zenon
<1>14. ASSUME t[k].stage = "first half" PROVE Untouched(a + m, z)'
  <2>1. Untouched(a + m, z)
    BY <1>3, <1>11, <1>14 DEF Frame, OtherHalf
  <2>2. hi <= a + m - 1
    BY <1>12, <1>14
  <2>3. /\ a \in Nat /\ z \in Nat /\ m \in Nat
        /\ lo \in Nat /\ hi \in Nat /\ 1 <= a /\ z <= Len(list) /\ 1 <= lo /\ hi <= Len(list)
    BY <1>2, <1>12, Zenon
  <2>4. a + m \in Nat /\ hi < a + m /\ 1 <= a + m
    BY <2>2, <2>3, RangeBehind, Zenon
  <2>. QED
    BY <2>1, <2>3, <2>4, OthersKept DEF FetchInv
<1>15. k < Len(t) => t[k + 1].lo = HalfLo(t[k]) /\ t[k + 1].hi = HalfHi(t[k])
  <2>1. k + 1 <= n /\ k < n /\ k \in Nat
    BY <1>1
  <2>2. k < Len(t) => t[k + 1].lo = calls[k + 1].lo /\ t[k + 1].hi = calls[k + 1].hi
    BY <1>1, <2>1
  <2>. QED
    BY <1>7, <2>1, <2>2
<1>16. ASSUME NEW j \in (k + 1) .. Len(t)
       PROVE  HalfLo(t[k]) <= t[j].lo /\ t[j].hi <= HalfHi(t[k])
  <2>1. CASE j <= n /\ t[j].lo = calls[j].lo /\ t[j].hi = calls[j].hi
    BY <1>1, <1>7, <2>1
  <2>2. CASE j > n /\ lo <= t[j].lo /\ t[j].hi <= hi /\ t[j].lo \in Nat /\ t[j].hi \in Nat
    <3>1. HalfLo(t[k]) \in Nat /\ HalfHi(t[k]) \in Nat /\ HalfLo(t[k]) <= lo /\ hi <= HalfHi(t[k])
      BY <1>6, <1>8
    <3>2. HalfLo(t[k]) <= t[j].lo
      BY <1>2, <2>2, <3>1, UpTo, Zenon
    <3>3. t[j].hi <= HalfHi(t[k])
      BY <1>2, <2>2, <3>1, UpTo, Zenon
    <3>. QED
      BY <3>2, <3>3
  <2>. QED
    BY <2>1, <2>2
<1>17. /\ ChunkLo' <= t[k].lo /\ t[k].lo <= t[k].hi /\ t[k].hi <= ChunkHi'
       /\ k = 1 => t[k].lo = ChunkLo' /\ t[k].hi = ChunkHi'
       /\ t[k].stage \in Halves => t[k].lo < t[k].hi
  BY <1>3, <1>4, <1>9 DEF Frame
<1>18. OtherHalf(t[k])'
  BY <1>11, <1>13, <1>14 DEF OtherHalf
<1>. QED
  BY <1>15, <1>16, <1>17, <1>18 DEF Frame

\* While a chunk is worked on, what is settled and what lies ahead stay.
LEMMA SweepKept ==
    ASSUME FetchInv, calls # <<>>, NEW lo, NEW hi, lo = Current.lo, hi = Current.hi,
           WorksOn(lo, hi), InCall', UNCHANGED <<total, failures>>
    PROVE  Sweep'
<1>1. /\ Current \in CallSet /\ InCall /\ ChunkLo \in Nat /\ 1 <= ChunkLo /\ ChunkLo <= lo /\ lo <= hi
      /\ hi <= ChunkHi /\ ChunkHi <= Len(list) /\ ChunkHi < next /\ Len(list) \in Nat
  BY TopCall
<1>2. lo \in Nat /\ hi \in Nat /\ ChunkHi \in Int /\ next \in Nat
  BY <1>1, LenProperties DEF ChunkHi, FetchInv, FetchTypes, Smaller, CallSet
<1>3. 1 <= lo /\ hi <= Len(list) /\ hi < next /\ ChunkLo - 1 < lo /\ ChunkLo - 1 <= Len(list)
      /\ ChunkLo - 1 \in Int /\ 1 <= next
  <2>1. 1 <= lo /\ hi <= Len(list) /\ hi < next
    BY <1>1, <1>2
  <2>2. ChunkLo - 1 < lo /\ ChunkLo - 1 <= Len(list) /\ ChunkLo - 1 \in Int
    BY <1>1, <1>2, <2>1
  <2>3. 1 <= next
    BY <1>2, <2>1
  <2>. QED
    BY <2>1, <2>2, <2>3
<1>4. Done = ChunkLo - 1 /\ Done' = ChunkLo - 1
  BY <1>1 DEF Done, ChunkLo, WorksOn
<1>5. PICK b \in Int : b = ChunkLo - 1
  BY <1>3
<1>6. Segment(1, b)' = Segment(1, b) /\ lost' \cap Segment(1, b) = lost \cap Segment(1, b)
  BY <1>2, <1>3, <1>5, OthersKept DEF FetchInv
<1>7. Untouched(next, Len(list))'
  <2>1. PICK x \in Nat, y \in Nat : x = next /\ y = Len(list)
    BY <1>1, <1>2
  <2>2. Untouched(x, y)
    BY <2>1 DEF FetchInv, Sweep
  <2>3. 1 <= x /\ y <= Len(list) /\ hi < x
    BY <1>1, <1>3, <2>1
  <2>4. Untouched(x, y)'
    BY <1>2, <1>3, <2>2, <2>3, OthersKept DEF FetchInv
  <2>5. x = next' /\ y = Len(list')
    BY <2>1 DEF WorksOn
  <2>. QED
    BY <2>4, <2>5
<1>8. lost' \subseteq ToSet(list)'
  <2>1. Segment(lo, hi) \subseteq ToSet(list)
    BY <1>2, <1>3, SegmentIn DEF FetchInv
  <2>2. ToSet(list') = ToSet(list)
    BY DEF WorksOn
  <2>. QED
    BY <2>1, <2>2 DEF WorksOn, FetchInv, Sweep
<1>9. /\ Count(total) = Cardinality(lost \cap Segment(1, b))
      /\ Segment(1, b) \subseteq accepted \cup lost \cup dropped
      /\ failures = 0 => Segment(1, b) \subseteq store \cup lost
  BY <1>4, <1>5 DEF FetchInv, Sweep
<1>10. /\ Count(total') = Cardinality(lost' \cap Segment(1, b)')
       /\ Segment(1, b)' \subseteq accepted' \cup lost' \cup dropped'
       /\ failures' = 0 => Segment(1, b)' \subseteq store' \cup lost'
  BY <1>6, <1>9 DEF WorksOn
<1>11. pc' \notin {"scan", "probe"}
  BY DEF InCall
<1>. QED
  BY <1>4, <1>5, <1>7, <1>8, <1>10, <1>11 DEF Sweep

\* The call on top returns: the call below finds its range settled.
LEMMA ReturnStep ==
    ASSUME FetchInv, calls # <<>>, NEW lo, NEW hi, lo = Current.lo, hi = Current.hi,
           NEW outcome, NEW err, Return(outcome, err), WorksOn(lo, hi), UNCHANGED <<total, failures>>,
           Settled(lo, hi, outcome, err)'
    PROVE  Stack' /\ Top' /\ Sweep'
<1>. DEFINE n == Len(calls)
<1>1. PICK t : t = calls'
  OBVIOUS
<1>2. /\ n \in Nat /\ n >= 1 /\ Current = calls[n] /\ Current \in CallSet /\ InCall
      /\ ChunkLo \in Nat /\ 1 <= ChunkLo /\ ChunkLo <= lo /\ lo <= hi /\ hi <= ChunkHi
  BY TopCall
<1>3. lo \in Nat /\ hi \in Nat /\ ChunkHi \in Int
  BY <1>2, LenProperties DEF ChunkHi, FetchInv, FetchTypes, Smaller, CallSet
<1>4. /\ t \in Seq(CallSet) /\ Len(t) = n - 1 /\ \A k \in 1 .. n - 1 : t[k] = calls[k]
  BY <1>1, Popped DEF Return, FetchInv, FetchTypes
<1>5. pc' = "return" /\ InCall' /\ ret' = Returned(outcome, err)
  BY DEF Return, InCall
<1>. HIDE DEF n
<1>6. ChunkLo' = ChunkLo /\ ChunkHi' = ChunkHi
  BY DEF WorksOn, ChunkLo, ChunkHi
<1>7. Sweep'
  BY <1>5, SweepKept
<1>8. Stack'
  <2>1. 1 <= ChunkLo' /\ ChunkLo' <= ChunkHi'
    <3>1. ChunkLo \in Nat /\ 1 <= ChunkLo /\ ChunkLo <= lo /\ lo <= hi /\ hi <= ChunkHi
      BY <1>2, Zenon
    <3>2. ChunkLo <= ChunkHi
      BY <1>3, <3>1
    <3>. QED
      BY <1>6, <3>1, <3>2, Zenon
  <2>2. ASSUME NEW k \in 1 .. n - 1
        PROVE  t[k].stage \in Halves /\ Frame(t, k)'
    <3>1. calls[k].stage \in Halves
      BY <1>2 DEF FetchInv, Stack, n
    <3>2. \A j \in (k + 1) .. Len(t) :
              j <= Len(calls) /\ t[j].lo = calls[j].lo /\ t[j].hi = calls[j].hi
      <4>1. ASSUME NEW j \in (k + 1) .. Len(t)
            PROVE  j \in 1 .. n - 1 /\ j <= n
        BY <1>2, <1>4
      <4>. QED
        BY <1>4, <4>1, Zenon DEF n
    <3>3. Len(t) \in Nat /\ k \in 1 .. Len(calls) - 1 /\ t[k] = calls[k]
      <4>1. n - 1 \in Nat
        BY <1>2
      <4>. QED
        BY <1>4, <4>1, Zenon DEF n
    <3>4. Frame(t, k)'
      BY <3>2, <3>3, FrameKept
    <3>. QED
      BY <1>4, <3>1, <3>4
  <2>. QED
    BY <1>1, <1>4, <1>5, <2>1, <2>2 DEF Stack
<1>9. RetLo' = lo /\ RetHi' = hi
  <2>1. CASE n = 1
    <3>1. calls' = <<>>
      BY <1>1, <1>4, <2>1, EmptySeq
    <3>2. Frame(calls, 1)
      BY <1>2, <2>1 DEF FetchInv, Stack
    <3>3. lo = ChunkLo /\ hi = ChunkHi
      BY <1>2, <2>1, <3>2 DEF Frame
    <3>. QED
      BY <1>6, <3>1, <3>3 DEF RetLo, RetHi
  <2>2. CASE n >= 2
    <3>1. n - 1 \in 1 .. n - 1 /\ n - 1 < n /\ (n - 1) + 1 = n /\ n - 1 \in 1 .. n
      BY <1>2, <2>2
    <3>2. calls' # <<>> /\ Current' = calls[n - 1]
      BY <1>1, <1>4, <3>1, EmptySeq DEF Current, Last
    <3>3. Frame(calls, n - 1)
      BY <3>1 DEF FetchInv, Stack, n
    <3>4. calls[n].lo = HalfLo(calls[n - 1]) /\ calls[n].hi = HalfHi(calls[n - 1])
      BY <3>1, <3>3 DEF Frame, n
    <3>. QED
      BY <1>2, <3>2, <3>4 DEF RetLo, RetHi
  <2>3. n \in Nat /\ n >= 1
    BY <1>2, Zenon
  <2>4. n = 1 \/ n >= 2
    BY <2>3
  <2>. QED
    BY <2>1, <2>2, <2>4, Zenon
<1>10. Top'
  BY <1>5, <1>9 DEF Top, Returned
<1>. QED
  BY <1>7, <1>8, <1>10

\* The call on top, now c, goes on with one of its halves, d.
GoesOn(c, d) == calls' = Append(Front(calls) \o <<c>>, d)

LEMMA PushStep ==
    ASSUME FetchInv, calls # <<>>, NEW c \in CallSet, NEW d \in CallSet,
           c.lo = Current.lo, c.hi = Current.hi, c.stage \in Halves, c.lo < c.hi,
           d.lo = HalfLo(c), d.hi = HalfHi(c), d.stage = "request",
           GoesOn(c, d), pc' = "ask",
           UNCHANGED <<list, limit, next, store, accepted, lost, dropped, total, failures>>,
           OtherHalf(c),
           Untouched(d.lo, d.hi)
    PROVE  Stack' /\ Top' /\ Sweep'
<1>1. PICK t, n : t = calls' /\ n = Len(calls)
  OBVIOUS
<1>2. PICK lo, hi : lo = Current.lo /\ hi = Current.hi /\ lo = c.lo /\ hi = c.hi
  OBVIOUS
<1>3. /\ n \in Nat /\ n >= 1 /\ Current = calls[n] /\ Current \in CallSet /\ InCall
      /\ ChunkLo \in Nat /\ 1 <= ChunkLo /\ ChunkLo <= lo /\ lo <= hi /\ hi <= ChunkHi
  BY <1>1, <1>2, TopCall
<1>4. lo \in Nat /\ hi \in Nat /\ ChunkHi \in Int /\ lo < hi
  <2>1. c.lo \in Nat /\ c.hi \in Nat
    BY DEF CallSet
  <2>2. ChunkHi \in Int
    BY LenProperties DEF ChunkHi, FetchInv, FetchTypes, Smaller
  <2>. QED
    BY <1>2, <2>1, <2>2
<1>5. /\ t \in Seq(CallSet) /\ Len(t) = n + 1 /\ \A k \in 1 .. n - 1 : t[k] = calls[k]
      /\ t[n] = c /\ t[n + 1] = d
  BY <1>1, Pushed DEF GoesOn, FetchInv, FetchTypes
<1>6. WorksOn(lo, hi) /\ InCall'
  BY DEF WorksOn, InCall
<1>7. ChunkLo' = ChunkLo /\ ChunkHi' = ChunkHi
  BY DEF ChunkLo, ChunkHi
<1>8. /\ d.lo \in Nat /\ d.hi \in Nat
      /\ lo <= d.lo /\ d.lo <= d.hi /\ d.hi <= hi
  BY <1>2, HalfInside
<1>9. ASSUME NEW k \in 1 .. n - 1
      PROVE  t[k].stage \in Halves /\ Frame(t, k)'
  <2>1. calls[k].stage \in Halves
    BY <1>1, <1>3 DEF FetchInv, Stack
  <2>2. ASSUME NEW j \in (k + 1) .. Len(t)
        PROVE  \/ j <= Len(calls) /\ t[j].lo = calls[j].lo /\ t[j].hi = calls[j].hi
               \/ j > Len(calls) /\ lo <= t[j].lo /\ t[j].hi <= hi /\ t[j].lo \in Nat /\ t[j].hi \in Nat
    <3>1. j \in 1 .. n - 1 \/ j = n \/ j = n + 1
      BY <1>3, <1>5
    <3>2. CASE j \in 1 .. n - 1
      BY <1>1, <1>3, <1>5, <3>2
    <3>3. CASE j = n
      BY <1>1, <1>2, <1>3, <1>5, <3>3
    <3>4. CASE j = n + 1
      BY <1>1, <1>3, <1>5, <1>8, <3>4
    <3>. QED
      BY <3>1, <3>2, <3>3, <3>4
  <2>3. Len(t) \in Nat
    BY <1>3, <1>5
  <2>4. t[k] = calls[k]
    BY <1>5
  <2>5. Frame(t, k)'
    BY <1>1, <1>2, <1>6, <2>2, <2>3, <2>4, FrameKept
  <2>. QED
    BY <2>1, <2>4, <2>5
<1>10. Frame(t, n)'
  <2>1. /\ ChunkLo' <= c.lo /\ c.lo <= c.hi /\ c.hi <= ChunkHi'
        /\ c.stage \in Halves => c.lo < c.hi
    BY <1>2, <1>3, <1>7
  <2>2. n = 1 => c.lo = ChunkLo' /\ c.hi = ChunkHi'
    <3>1. Frame(calls, n)
      BY <1>1, <1>3 DEF FetchInv, Stack
    <3>. QED
      BY <1>2, <1>3, <1>7, <3>1 DEF Frame
  <2>3. t[n + 1].lo = HalfLo(c) /\ t[n + 1].hi = HalfHi(c)
    BY <1>5
  <2>4. ASSUME NEW j \in (n + 1) .. Len(t)
        PROVE  HalfLo(c) <= t[j].lo /\ t[j].hi <= HalfHi(c)
    <3>1. j = n + 1
      BY <1>3, <1>5
    <3>. QED
      BY <1>5, <1>8, <3>1
  <2>5. OtherHalf(c)'
    BY DEF OtherHalf, Settled, Untouched, Segment
  <2>. QED
    BY <1>5, <2>1, <2>2, <2>3, <2>4, <2>5 DEF Frame
<1>11. Frame(t, n + 1)'
  <2>1. ChunkLo' <= d.lo /\ d.lo <= d.hi /\ d.hi <= ChunkHi'
    BY <1>3, <1>4, <1>7, <1>8
  <2>2. n + 1 # 1 /\ \A j \in (n + 1) + 1 .. Len(t) : FALSE
    BY <1>3, <1>5
  <2>3. ~(n + 1 < Len(t))
    BY <1>3, <1>5
  <2>4. d.stage \notin Halves /\ OtherHalf(d)'
    BY DEF Halves, OtherHalf
  <2>. QED
    BY <1>5, <2>1, <2>2, <2>3, <2>4 DEF Frame
<1>12. Stack'
  <2>1. calls' # <<>>
    BY <1>1, <1>3, <1>5, EmptySeq
  <2>2. 1 <= ChunkLo' /\ ChunkLo' <= ChunkHi'
    BY <1>3, <1>4, <1>7
  <2>3. ASSUME NEW k \in 1 .. Len(t)
        PROVE  /\ t[k].stage \in Halves <=> k < Len(t)
               /\ Frame(t, k)'
    <3>1. k \in 1 .. n - 1 \/ k = n \/ k = n + 1
      BY <1>3, <1>5
    <3>2. CASE k \in 1 .. n - 1
      <4>1. k < Len(t)
        BY <1>3, <1>5, <3>2
      <4>. QED
        BY <1>9, <3>2, <4>1
    <3>3. CASE k = n
      <4>1. k < Len(t)
        BY <1>3, <1>5, <3>3
      <4>. QED
        BY <1>5, <1>10, <3>3, <4>1
    <3>4. CASE k = n + 1
      <4>1. ~(k < Len(t))
        BY <1>3, <1>5, <3>4
      <4>2. t[k].stage \notin Halves
        BY <1>5, <3>4 DEF Halves
      <4>. QED
        BY <1>11, <3>4, <4>1, <4>2
    <3>. QED
      BY <3>1, <3>2, <3>3, <3>4
  <2>. QED
    BY <1>1, <1>6, <2>1, <2>2, <2>3 DEF Stack
<1>13. Top'
  <2>1. Current' = d
    BY <1>1, <1>3, <1>5 DEF Current, Last
  <2>2. Untouched(d.lo, d.hi)'
    BY DEF Untouched, Segment
  <2>. QED
    BY <2>1, <2>2 DEF Top
<1>14. Sweep'
  BY <1>2, <1>6, SweepKept
<1>. QED
  BY <1>12, <1>13, <1>14

\* The call on top goes on with its own request.
LEMMA TopStep ==
    ASSUME FetchInv, pc \in {"ask", "download", "again"}, pc' \in {"download", "again"},
           NEW lo, NEW hi, lo = Current.lo, hi = Current.hi,
           WorksOn(lo, hi), UNCHANGED <<calls, total, failures>>
    PROVE  Stack' /\ Sweep'
<1>. DEFINE n == Len(calls)
<1>1. PICK t : t = calls /\ t = calls'
  OBVIOUS
<1>2. calls # <<>>
  BY DEF FetchInv, Stack
<1>3. /\ n \in Nat /\ n >= 1 /\ Current = calls[n] /\ Current \in CallSet /\ InCall
      /\ ChunkLo \in Nat /\ 1 <= ChunkLo /\ ChunkLo <= lo /\ lo <= hi /\ hi <= ChunkHi
  BY <1>2, TopCall
<1>4. lo \in Nat /\ hi \in Nat /\ ChunkHi \in Int
  BY <1>3, LenProperties DEF ChunkHi, FetchInv, FetchTypes, Smaller, CallSet
<1>5. InCall'
  BY DEF InCall
<1>6. ChunkLo' = ChunkLo /\ ChunkHi' = ChunkHi
  BY DEF ChunkLo, ChunkHi, WorksOn
<1>7. ASSUME NEW k \in 1 .. n
      PROVE  t[k].stage \in Halves <=> k < n
  BY <1>1 DEF FetchInv, Stack
<1>8. ASSUME NEW k \in 1 .. n - 1
      PROVE  Frame(t, k)'
  <2>1. \A j \in (k + 1) .. Len(t) : j <= n /\ t[j].lo = calls[j].lo /\ t[j].hi = calls[j].hi
    BY <1>1, <1>3
  <2>. QED
    BY <1>1, <1>2, <1>3, <2>1, FrameKept
<1>9. Frame(t, n)'
  <2>1. /\ ChunkLo' <= t[n].lo /\ t[n].lo <= t[n].hi /\ t[n].hi <= ChunkHi'
        /\ n = 1 => t[n].lo = ChunkLo' /\ t[n].hi = ChunkHi'
    <3>1. Frame(calls, n)
      BY <1>3 DEF FetchInv, Stack
    <3>. QED
      BY <1>1, <1>6, <3>1 DEF Frame
  <2>2. ~(n < Len(t)) /\ \A j \in n + 1 .. Len(t) : FALSE
    BY <1>1, <1>3
  <2>3. t[n].stage \notin Halves
    BY <1>3, <1>7, <2>2
  <2>. QED
    BY <2>1, <2>2, <2>3 DEF Frame, Halves, OtherHalf
<1>10. Stack'
  <2>1. 1 <= ChunkLo' /\ ChunkLo' <= ChunkHi'
    BY <1>3, <1>4, <1>6
  <2>2. \A k \in 1 .. n : Frame(t, k)'
    <3>1. \A k \in 1 .. n : k \in 1 .. n - 1 \/ k = n
      BY <1>3
    <3>. QED
      BY <3>1, <1>8, <1>9
  <2>. QED
    BY <1>1, <1>2, <1>5, <1>7, <2>1, <2>2 DEF Stack
<1>. QED
  BY <1>2, <1>5, <1>10, SweepKept

-----------------------------------------------------------------------------
(* The steps of fetchChunk. *)

\* The objects of the call on top.
LEMMA WantIs ==
    ASSUME FetchInv, calls # <<>>
    PROVE  /\ Want = Segment(Current.lo, Current.hi)
           /\ Want \subseteq Oids /\ Want \subseteq ToSet(list)
           /\ IsFiniteSet(Want) /\ Cardinality(Want) \in Nat /\ Want # {}
<1>1. /\ Current \in CallSet /\ ChunkLo \in Nat /\ 1 <= ChunkLo /\ ChunkLo <= Current.lo
      /\ Current.lo <= Current.hi /\ Current.hi <= ChunkHi /\ ChunkHi <= Len(list) /\ Len(list) \in Nat
  BY TopCall
<1>2. PICK lo \in Nat, hi \in Nat : lo = Current.lo /\ hi = Current.hi
  BY <1>1 DEF CallSet
<1>3. ChunkHi \in Int
  BY <1>1, LenProperties DEF ChunkHi, FetchInv, FetchTypes, Smaller
<1>4. 1 <= lo /\ lo <= hi /\ hi <= Len(list)
  BY <1>1, <1>2, <1>3
<1>5. Segment(lo, hi) \subseteq Oids /\ Segment(lo, hi) \subseteq ToSet(list)
  BY <1>2, <1>4, SegmentIn DEF FetchInv
<1>6. Want = Segment(lo, hi)
  BY <1>2 DEF Want, Segment
<1>7. IsFiniteSet(Want) /\ Cardinality(Want) \in Nat
  BY <1>5, <1>6, LfsFetchAssumption, FS_Subset, FS_CardinalityType
<1>8. Want # {}
  <2>1. list[lo] \in Segment(lo, hi)
    BY <1>4 DEF Segment
  <2>. QED
    BY <1>6, <2>1
<1>. QED
  BY <1>2, <1>5, <1>6, <1>7, <1>8

\* What a return does to the variables of the calls.
LEMMA ReturnTypes ==
    ASSUME FetchInv, calls # <<>>, NEW outcome \in Outcomes, NEW err \in Errors, Return(outcome, err)
    PROVE  /\ calls' \in Seq(CallSet) /\ ret' \in [outcome : Outcomes, err : Errors]
           /\ pc' = "return"
BY Popped DEF FetchInv, FetchTypes, Return, Returned

LEMMA NoOutcomes ==
    /\ NoOutcome \in Outcomes /\ Count(NoOutcome) = 0
    /\ [NoOutcome EXCEPT !.rejected = 1] \in Outcomes /\ Count([NoOutcome EXCEPT !.rejected = 1]) = 1
    /\ [NoOutcome EXCEPT !.rejected = 1].answered = FALSE
    /\ [NoOutcome EXCEPT !.rejected = 1].unavailable = 0
<1>1. /\ NoOutcome \in Outcomes /\ Count(NoOutcome) = 0
      /\ NoOutcome.unavailable = 0 /\ NoOutcome.answered = FALSE
  BY DEF NoOutcome, Outcomes, Count
<1>2. PICK none : none = NoOutcome
  OBVIOUS
<1>3. PICK one : one = [none EXCEPT !.rejected = 1]
  OBVIOUS
<1>4. one \in Outcomes /\ one.rejected = 1 /\ one.unavailable = 0 /\ one.answered = FALSE
  BY <1>1, <1>2, <1>3 DEF Outcomes
<1>5. Count(one) = 1
  BY <1>4 DEF Count
<1>. QED
  BY <1>1, <1>2, <1>3, <1>4, <1>5

\* The request failed: the range is settled as failed.
LEMMA AskFailsStep == FetchInv /\ AskFails => FetchInv'
<1>. SUFFICES ASSUME FetchInv, AskFails PROVE FetchInv'
  OBVIOUS
<1>1. PICK lo, hi : lo = Current.lo /\ hi = Current.hi
  OBVIOUS
<1>2. calls # <<>> /\ pc = "ask" /\ Return(NoOutcome, "failed")
  BY DEF AskFails, FetchInv, Stack
<1>3. Want = Segment(lo, hi) /\ Want \subseteq Oids
  BY <1>1, <1>2, WantIs
<1>4. WorksOn(lo, hi) /\ UNCHANGED <<total, failures>>
  BY DEF AskFails, WorksOn, sweepVars, historyVars
<1>5. Settled(lo, hi, NoOutcome, "failed")'
  <2>1. Segment(lo, hi)' = Segment(lo, hi)
    BY <1>4 DEF WorksOn, Segment
  <2>2. lost' \cap Segment(lo, hi) = {}
    BY <1>1, <1>2 DEF AskFails, FetchInv, Top, Untouched
  <2>3. Segment(lo, hi) \subseteq dropped'
    BY <1>3 DEF AskFails
  <2>. QED
    BY <2>1, <2>2, <2>3, NoOutcomes, FS_EmptySet DEF Settled
<1>6. FetchTypes'
  BY <1>2, <1>3, ReturnTypes, NoOutcomes
     DEF AskFails, FetchInv, FetchTypes, Errors, sweepVars, loadVars
<1>. QED
  BY <1>1, <1>2, <1>4, <1>5, <1>6, ReturnStep DEF FetchInv

\* The request was answered: every object of the range was asked for.
LEMMA ScheduledStep == FetchInv /\ Scheduled => FetchInv'
<1>. SUFFICES ASSUME FetchInv, Scheduled PROVE FetchInv'
  OBVIOUS
<1>1. PICK lo, hi : lo = Current.lo /\ hi = Current.hi
  OBVIOUS
<1>2. calls # <<>> /\ pc = "ask" /\ pc' = "download"
  BY DEF Scheduled, FetchInv, Stack
<1>3. Want = Segment(lo, hi) /\ Want \subseteq Oids
  BY <1>1, <1>2, WantIs
<1>4. WorksOn(lo, hi) /\ UNCHANGED <<calls, total, failures>>
  BY <1>3 DEF Scheduled, WorksOn, sweepVars, callVars
<1>5. Top'
  <2>1. Want' = Want
    BY DEF Scheduled, callVars, Want, Current
  <2>2. Want \cap lost' = {}
    BY <1>1, <1>2, <1>3 DEF Scheduled, FetchInv, Top, Untouched
  <2>. QED
    BY <1>2, <2>1, <2>2 DEF Scheduled, Top
<1>6. FetchTypes'
  BY <1>3 DEF Scheduled, FetchInv, FetchTypes, sweepVars, loadVars, callVars
<1>. QED
  BY <1>1, <1>2, <1>4, <1>5, <1>6, TopStep DEF FetchInv

\* A part of an untouched range is untouched.
LEMMA PartUntouched ==
    ASSUME NEW lo \in Nat, NEW hi \in Nat, NEW a \in Nat, NEW b \in Nat,
           lo <= a, b <= hi, Untouched(lo, hi)
    PROVE  Untouched(a, b)
<1>1. a .. b \subseteq lo .. hi
  OBVIOUS
<1>. QED
  BY <1>1 DEF Untouched, Segment

\* The call on top, and what is known of it.
LEMMA CurrentIs ==
    ASSUME FetchInv, calls # <<>>
    PROVE  /\ Current \in CallSet /\ Frame(calls, Len(calls))
           /\ Current.stage \in Halves => Current.lo < Current.hi /\ OtherHalf(Current)
           /\ pc = "return" => Current.stage \in Halves
           /\ pc # "return" => Current.stage \notin Halves
<1>1. /\ Len(calls) \in Nat /\ Len(calls) >= 1 /\ Current = calls[Len(calls)] /\ Current \in CallSet
  BY TopCall
<1>2. Frame(calls, Len(calls))
  BY <1>1 DEF FetchInv, Stack
<1>3. Current.stage \in Halves <=> pc = "return"
  BY <1>1 DEF FetchInv, Stack
<1>. QED
  BY <1>1, <1>2, <1>3 DEF Frame

\* The call of fetchChunk as it is when it asks for one of its halves.
LEMMA SplitIs ==
    ASSUME NEW c \in CallSet, NEW stage \in Halves, NEW outcome \in Outcomes, NEW err \in Errors
    PROVE  \A s : s = Split(c, stage, outcome, err) =>
               /\ s \in CallSet /\ s.lo = c.lo /\ s.hi = c.hi /\ s.stage = stage
               /\ s.outcome = outcome /\ s.err = err /\ Middle(s) = Middle(c)
<1>. DEFINE s == Split(c, stage, outcome, err)
<1>1. s \in CallSet
  BY DEF Split, CallSet
<1>2. s.lo = c.lo /\ s.hi = c.hi
  BY DEF Split, CallSet
<1>3. s.stage = stage /\ s.outcome = outcome /\ s.err = err
  BY DEF Split, CallSet
<1>. HIDE DEF s
<1>4. Middle(s) = Middle(c)
  BY <1>2 DEF Middle
<1>. QED
  BY <1>1, <1>2, <1>3, <1>4 DEF s

LEMMA CallIs ==
    ASSUME NEW lo \in Nat, NEW hi \in Nat
    PROVE  /\ Call(lo, hi) \in CallSet /\ Call(lo, hi).lo = lo /\ Call(lo, hi).hi = hi
           /\ Call(lo, hi).stage = "request"
BY NoOutcomes DEF Call, CallSet, Errors

\* A refused request of several objects.
LEMMA NarrowStep ==
    ASSUME FetchInv, Refused, Current.lo < Current.hi
    PROVE  FetchInv'
<1>. DEFINE c == Split(Current, "first half", NoOutcome, "none")
            d == Call(Current.lo, Current.lo + Middle(Current) - 1)
<1>1. calls # <<>> /\ pc = "ask"
  BY DEF Refused, FetchInv, Stack
<1>2. Current \in CallSet /\ Current.lo \in Nat /\ Current.hi \in Nat
  BY <1>1, CurrentIs DEF CallSet
<1>3. GoesOn(c, d) /\ pc' = "ask" /\ lost' = lost /\ ret' = ret
  <2>1. Current.lo # Current.hi
    BY <1>2
  <2>. QED
    BY <2>1, Zenon DEF Refused, GoesOn
<1>4. UNCHANGED <<list, limit, next, store, accepted, lost, dropped, total, failures>>
  BY <1>3 DEF Refused, sweepVars
<1>5. /\ c \in CallSet /\ c.lo = Current.lo /\ c.hi = Current.hi /\ c.stage = "first half"
      /\ Middle(c) = Middle(Current)
  <2>1. "first half" \in Halves /\ "none" \in Errors /\ NoOutcome \in Outcomes
    BY NoOutcomes DEF Halves, Errors
  <2>2. PICK t \in CallSet, stage \in Halves, outcome \in Outcomes, err \in Errors :
           t = Current /\ stage = "first half" /\ outcome = NoOutcome /\ err = "none"
    BY <1>2, <2>1
  <2>3. c = Split(t, stage, outcome, err)
    BY <2>2
  <2>. HIDE DEF c
  <2>4. /\ c \in CallSet /\ c.lo = t.lo /\ c.hi = t.hi /\ c.stage = stage
        /\ Middle(c) = Middle(t)
    BY <2>3, SplitIs
  <2>. QED
    BY <2>2, <2>4
<1>6. PICK lo \in Nat, hi \in Nat, m \in Nat : lo = Current.lo /\ hi = Current.hi /\ m = Middle(Current)
  BY <1>2, MiddleInside
<1>7. lo < lo + m /\ lo + m <= hi /\ lo + m - 1 \in Nat
  BY <1>2, <1>6, MiddleInside
<1>8. d \in CallSet /\ d.lo = lo /\ d.hi = lo + m - 1 /\ d.stage = "request"
  BY <1>6, <1>7, CallIs
<1>. HIDE DEF c, d
<1>9. HalfLo(c) = d.lo /\ HalfHi(c) = d.hi
  BY <1>5, <1>6, <1>8 DEF HalfLo, HalfHi
<1>10. Untouched(lo, hi)
  BY <1>1, <1>6 DEF FetchInv, Top
<1>11. Untouched(lo, lo + m - 1) /\ Untouched(lo + m, hi)
  <2>1. lo <= lo /\ lo + m - 1 <= hi /\ lo <= lo + m /\ hi <= hi /\ lo + m \in Nat
    BY <1>7
  <2>. QED
    BY <1>7, <1>10, <2>1, PartUntouched
<1>12. OtherHalf(c) /\ Untouched(d.lo, d.hi)
  BY <1>5, <1>6, <1>8, <1>11 DEF OtherHalf
<1>13. Stack' /\ Top' /\ Sweep'
  BY <1>1, <1>3, <1>4, <1>5, <1>8, <1>9, <1>12, PushStep DEF Halves
<1>14. calls' \in Seq(CallSet)
  BY <1>1, <1>3, <1>5, <1>8, Pushed DEF GoesOn, FetchInv, FetchTypes
<1>15. FetchTypes'
  BY <1>3, <1>4, <1>14 DEF Refused, FetchInv, FetchTypes, loadVars
<1>. QED
  BY <1>13, <1>15 DEF FetchInv

\* A refused request of a single object.
LEMMA RefusedAloneStep ==
    ASSUME FetchInv, Refused, ~(Current.lo < Current.hi)
    PROVE  FetchInv'
<1>. DEFINE one == [NoOutcome EXCEPT !.rejected = 1]
<1>1. calls # <<>> /\ pc = "ask"
  BY DEF Refused, FetchInv, Stack
<1>2. Current.lo = Current.hi /\ Return(one, "refused") /\ lost' = lost \cup Want
  BY DEF Refused
<1>3. one \in Outcomes /\ Count(one) = 1 /\ one.answered = FALSE /\ one.unavailable = 0
  BY NoOutcomes
<1>. HIDE DEF one
<1>4. PICK lo, hi : lo = Current.lo /\ hi = Current.hi
  OBVIOUS
<1>5. Want = Segment(lo, hi) /\ Want \subseteq Oids /\ lo = hi
  BY <1>1, <1>2, <1>4, WantIs
<1>6. WorksOn(lo, hi) /\ UNCHANGED <<total, failures>>
  BY <1>2, <1>5 DEF Refused, WorksOn, sweepVars
<1>7. Settled(lo, hi, one, "refused")'
  <2>1. Segment(lo, hi)' = Segment(lo, hi)
    BY <1>6 DEF WorksOn, Segment
  <2>2. lost \cap Segment(lo, hi) = {} /\ accepted \cap Segment(lo, hi) = {}
    BY <1>1, <1>4 DEF FetchInv, Top, Untouched
  <2>3. Segment(lo, hi) = {list[lo]}
    <3>1. lo \in Nat
      BY <1>1, <1>4, CurrentIs DEF CallSet
    <3>. QED
      BY <1>5, <3>1 DEF Segment
  <2>4. lost' \cap Segment(lo, hi) = {list[lo]} /\ accepted' = accepted
    BY <1>2, <1>5, <2>2, <2>3 DEF Refused
  <2>5. Cardinality({list[lo]}) = 1
    BY FS_Singleton
  <2>. QED
    BY <1>3, <2>1, <2>2, <2>3, <2>4, <2>5 DEF Settled
<1>8. FetchTypes'
  <2>1. calls' \in Seq(CallSet) /\ ret' \in [outcome : Outcomes, err : Errors] /\ pc' = "return"
    BY <1>1, <1>2, <1>3, ReturnTypes DEF Errors
  <2>. QED
    BY <1>2, <1>5, <2>1 DEF Refused, FetchInv, FetchTypes, sweepVars, loadVars
<1>. QED
  BY <1>1, <1>2, <1>4, <1>6, <1>7, <1>8, ReturnStep DEF FetchInv

LEMMA RefusedStep == FetchInv /\ Refused => FetchInv'
BY NarrowStep, RefusedAloneStep

\* The first half has come back.
LEMMA FirstHalfDoneStep == FetchInv /\ FirstHalfDone => FetchInv'
<1>. SUFFICES ASSUME FetchInv, FirstHalfDone PROVE FetchInv'
  OBVIOUS
<1>. DEFINE c == Split(Current, "second half", ret.outcome, ret.err)
            d == Call(Current.lo + Middle(Current), Current.hi)
<1>1. calls # <<>> /\ pc = "return" /\ Current.stage = "first half"
  BY DEF FirstHalfDone
<1>2. /\ Current \in CallSet /\ Current.lo \in Nat /\ Current.hi \in Nat /\ Current.lo < Current.hi
      /\ OtherHalf(Current)
  <2>1. Current \in CallSet /\ Current.lo < Current.hi /\ OtherHalf(Current)
    BY <1>1, CurrentIs DEF Halves
  <2>. QED
    BY <2>1 DEF CallSet
<1>3. ret.outcome \in Outcomes /\ ret.err \in Errors
  BY DEF FetchInv, FetchTypes
<1>4. /\ GoesOn(c, d) /\ pc' = "ask" /\ ret' = ret
      /\ UNCHANGED <<list, limit, next, store, accepted, lost, dropped, total, failures>>
  BY DEF FirstHalfDone, GoesOn, sweepVars, historyVars
<1>5. /\ c \in CallSet /\ c.lo = Current.lo /\ c.hi = Current.hi /\ c.stage = "second half"
      /\ Middle(c) = Middle(Current) /\ c.outcome = ret.outcome /\ c.err = ret.err
  <2>1. "second half" \in Halves
    BY DEF Halves
  <2>2. PICK t \in CallSet, stage \in Halves, outcome \in Outcomes, err \in Errors :
           t = Current /\ stage = "second half" /\ outcome = ret.outcome /\ err = ret.err
    BY <1>2, <1>3, <2>1
  <2>3. c = Split(t, stage, outcome, err)
    BY <2>2
  <2>. HIDE DEF c
  <2>4. /\ c \in CallSet /\ c.lo = t.lo /\ c.hi = t.hi /\ c.stage = stage
        /\ Middle(c) = Middle(t) /\ c.outcome = outcome /\ c.err = err
    BY <2>3, SplitIs
  <2>. QED
    BY <2>2, <2>4
<1>6. PICK lo \in Nat, hi \in Nat, m \in Nat : lo = Current.lo /\ hi = Current.hi /\ m = Middle(Current)
  BY <1>2, MiddleInside
<1>7. lo < lo + m /\ lo + m <= hi /\ lo + m \in Nat
  BY <1>2, <1>6, MiddleInside
<1>8. d \in CallSet /\ d.lo = lo + m /\ d.hi = hi /\ d.stage = "request"
  BY <1>6, <1>7, CallIs
<1>. HIDE DEF c, d
<1>9. HalfLo(c) = d.lo /\ HalfHi(c) = d.hi
  BY <1>5, <1>6, <1>8 DEF HalfLo, HalfHi
<1>10. Untouched(d.lo, d.hi)
  BY <1>1, <1>2, <1>6, <1>8 DEF OtherHalf
<1>11. OtherHalf(c)
  <2>1. RetLo = lo /\ RetHi = lo + m - 1
    BY <1>1, <1>6 DEF RetLo, RetHi, HalfLo, HalfHi
  <2>2. Settled(lo, lo + m - 1, ret.outcome, ret.err)
    BY <1>1, <2>1 DEF FetchInv, Top
  <2>. QED
    BY <1>5, <1>6, <2>2 DEF OtherHalf
<1>12. Stack' /\ Top' /\ Sweep'
  <2>1. c.lo < c.hi /\ c.stage \in Halves
    BY <1>2, <1>5 DEF Halves
  <2>. QED
    BY <1>1, <1>4, <1>5, <1>8, <1>9, <1>10, <1>11, <2>1, PushStep
<1>13. calls' \in Seq(CallSet)
  BY <1>1, <1>4, <1>5, <1>8, Pushed DEF GoesOn, FetchInv, FetchTypes
<1>14. FetchTypes'
  BY <1>4, <1>13 DEF FirstHalfDone, FetchInv, FetchTypes, loadVars
<1>. QED
  BY <1>12, <1>14 DEF FetchInv

\* What two halves have come to, taken together.
Joint(a, b, o) ==
    IF "failed" \in {a, b} THEN "failed"
    ELSE IF {a, b} = {"none"} THEN "none" ELSE RefuseOrReport(o)

LEMMA AbsorbIs ==
    ASSUME NEW p \in Outcomes, NEW q \in Outcomes
    PROVE  /\ Absorb(p, q) \in Outcomes /\ Count(Absorb(p, q)) = Count(p) + Count(q)
           /\ Absorb(p, q).answered = (p.answered \/ q.answered)
           /\ Absorb(p, q).unavailable = p.unavailable + q.unavailable
           /\ Count(p) \in Nat /\ Count(q) \in Nat
<1>1. /\ p.unavailable \in Nat /\ p.rejected \in Nat /\ p.answered \in BOOLEAN
      /\ q.unavailable \in Nat /\ q.rejected \in Nat /\ q.answered \in BOOLEAN
  BY DEF Outcomes
<1>2. Absorb(p, q) = [unavailable |-> p.unavailable + q.unavailable,
                      rejected |-> p.rejected + q.rejected, answered |-> p.answered \/ q.answered]
  BY DEF Absorb
<1>. QED
  BY <1>1, <1>2 DEF Outcomes, Count

\* Two settled halves make a settled range.
LEMMA SettledJoin ==
    ASSUME FetchTypes, NEW lo \in Nat, NEW m \in Nat, NEW hi \in Nat,
           1 <= lo, lo <= m, m <= hi, hi <= Len(list),
           NEW p \in Outcomes, NEW a \in Errors, NEW q \in Outcomes, NEW b \in Errors,
           Settled(lo, m - 1, p, a), Settled(m, hi, q, b)
    PROVE  Settled(lo, hi, Absorb(p, q), Joint(a, b, Absorb(p, q)))
<1>. DEFINE A == Segment(lo, m - 1)
            B == Segment(m, hi)
            o == Absorb(p, q)
            e == Joint(a, b, o)
<1>1. Segment(lo, hi) = A \cup B
  BY SegmentsJoin
<1>2. A \cap B = {} /\ A \subseteq Oids /\ B \subseteq Oids
  <2>1. Len(list) \in Nat
    BY LenProperties DEF FetchTypes
  <2>2. m - 1 \in Int /\ m - 1 <= Len(list) /\ 1 <= m /\ m - 1 < m
    BY <2>1
  <2>. QED
    BY <2>2, SegmentsApart, SegmentIn
<1>3. /\ o \in Outcomes /\ Count(o) = Count(p) + Count(q)
      /\ o.answered = (p.answered \/ q.answered) /\ o.unavailable = p.unavailable + q.unavailable
  BY AbsorbIs
<1>4. Cardinality(lost \cap (A \cup B)) = Cardinality(lost \cap A) + Cardinality(lost \cap B)
  <2>1. IsFiniteSet(lost \cap A) /\ IsFiniteSet(lost \cap B)
    BY <1>2, LfsFetchAssumption, FS_Subset
  <2>2. (lost \cap A) \cap (lost \cap B) = {} /\ lost \cap (A \cup B) = (lost \cap A) \cup (lost \cap B)
    BY <1>2
  <2>. HIDE DEF A, B
  <2>. QED
    BY <2>1, <2>2, DisjointCount
<1>5. e = "failed" <=> a = "failed" \/ b = "failed"
  BY DEF Joint, RefuseOrReport
<1>6. e = "refused" => ~o.answered /\ o.unavailable = 0
  BY <1>3 DEF Joint, RefuseOrReport, Outcomes
<1>7. ~o.answered /\ o.unavailable = 0 =>
         ~p.answered /\ p.unavailable = 0 /\ ~q.answered /\ q.unavailable = 0
  BY <1>3 DEF Outcomes
<1>. HIDE DEF A, B, o, e
<1>8. /\ Count(p) = Cardinality(lost \cap A) /\ A \subseteq accepted \cup lost \cup dropped
      /\ a # "failed" => A \subseteq store \cup lost
      /\ a # "failed" /\ ~p.answered /\ p.unavailable = 0 => A \cap accepted = {}
  BY DEF Settled, A
<1>9. /\ Count(q) = Cardinality(lost \cap B) /\ B \subseteq accepted \cup lost \cup dropped
      /\ b # "failed" => B \subseteq store \cup lost
      /\ b # "failed" /\ ~q.answered /\ q.unavailable = 0 => B \cap accepted = {}
  BY DEF Settled, B
<1>10. Settled(lo, hi, o, e)
  <2>1. Count(o) = Cardinality(lost \cap (A \cup B))
    BY <1>3, <1>4, <1>8, <1>9
  <2>2. A \cup B \subseteq accepted \cup lost \cup dropped
    BY <1>8, <1>9
  <2>3. e # "failed" => A \cup B \subseteq store \cup lost
    BY <1>5, <1>8, <1>9
  <2>4. e # "failed" /\ ~o.answered /\ o.unavailable = 0 => (A \cup B) \cap accepted = {}
    BY <1>5, <1>7, <1>8, <1>9
  <2>. QED
    BY <1>1, <1>6, <2>1, <2>2, <2>3, <2>4 DEF Settled
<1>. QED
  BY <1>10 DEF o, e

\* The second half has come back: the call returns what both came to.
LEMMA SecondHalfDoneStep == FetchInv /\ SecondHalfDone => FetchInv'
<1>. SUFFICES ASSUME FetchInv, SecondHalfDone PROVE FetchInv'
  OBVIOUS
<1>. DEFINE o == Absorb(Current.outcome, ret.outcome)
            e == Joint(Current.err, ret.err, o)
<1>1. calls # <<>> /\ pc = "return" /\ Current.stage = "second half" /\ Return(o, e)
  BY DEF SecondHalfDone, Joint
<1>2. /\ Current \in CallSet /\ Current.lo < Current.hi /\ OtherHalf(Current)
      /\ ChunkLo \in Nat /\ 1 <= ChunkLo /\ ChunkLo <= Current.lo
      /\ Current.hi <= ChunkHi /\ ChunkHi <= Len(list) /\ Len(list) \in Nat /\ ChunkHi \in Int
  <2>1. Current \in CallSet /\ Current.lo < Current.hi /\ OtherHalf(Current)
    BY <1>1, CurrentIs DEF Halves
  <2>2. /\ ChunkLo \in Nat /\ 1 <= ChunkLo /\ ChunkLo <= Current.lo
        /\ Current.hi <= ChunkHi /\ ChunkHi <= Len(list) /\ Len(list) \in Nat
    BY <1>1, TopCall
  <2>3. ChunkHi \in Int
    BY <2>2, LenProperties DEF ChunkHi, FetchInv, FetchTypes, Smaller
  <2>. QED
    BY <2>1, <2>2, <2>3
<1>3. PICK lo \in Nat, hi \in Nat, m \in Nat :
         lo = Current.lo /\ hi = Current.hi /\ m = Current.lo + Middle(Current)
  <2>1. Current.lo \in Nat /\ Current.hi \in Nat /\ Current.lo + Middle(Current) \in Nat
    BY <1>2, MiddleInside DEF CallSet
  <2>. QED
    BY <2>1
<1>4. lo < m /\ m <= hi
  BY <1>2, <1>3, MiddleInside
<1>5. 1 <= lo /\ lo <= m /\ m <= hi /\ hi <= Len(list)
  BY <1>2, <1>3, <1>4
<1>6. PICK p \in Outcomes, q \in Outcomes, a \in Errors, b \in Errors :
         p = Current.outcome /\ q = ret.outcome /\ a = Current.err /\ b = ret.err
  BY <1>2 DEF CallSet, FetchInv, FetchTypes
<1>7. Settled(lo, m - 1, p, a)
  <2>1. Settled(Current.lo, Current.lo + Middle(Current) - 1, Current.outcome, Current.err)
    BY <1>1, <1>2 DEF OtherHalf
  <2>2. PICK z : z = Current.lo + Middle(Current) - 1
    OBVIOUS
  <2>3. Settled(Current.lo, z, Current.outcome, Current.err)
    BY <2>1, <2>2
  <2>4. z = m - 1
    BY <1>2, <1>3, <2>2, MiddleInside DEF CallSet
  <2>. QED
    BY <1>3, <1>6, <2>3, <2>4
<1>8. Settled(m, hi, q, b)
  <2>1. RetLo = m /\ RetHi = hi
    BY <1>1, <1>3 DEF RetLo, RetHi, HalfLo, HalfHi
  <2>. QED
    BY <1>1, <1>6, <2>1 DEF FetchInv, Top
<1>9. PICK x \in Outcomes, y \in Errors : x = Absorb(p, q) /\ y = Joint(a, b, Absorb(p, q))
  BY AbsorbIs DEF Joint, Errors, RefuseOrReport
<1>10. Return(x, y)
  BY <1>1, <1>6, <1>9
<1>11. Settled(lo, hi, x, y)
  BY <1>5, <1>6, <1>7, <1>8, <1>9, SettledJoin DEF FetchInv
<1>12. /\ UNCHANGED <<list, limit, next, store, accepted, lost, dropped, total, failures>>
       /\ WorksOn(lo, hi)
  BY DEF SecondHalfDone, WorksOn, sweepVars, historyVars
<1>13. Settled(lo, hi, x, y)'
  BY <1>11, <1>12 DEF Settled, Segment
<1>14. Stack' /\ Top' /\ Sweep'
  BY <1>1, <1>3, <1>10, <1>12, <1>13, ReturnStep
<1>15. FetchTypes'
  <2>1. calls' \in Seq(CallSet) /\ ret' \in [outcome : Outcomes, err : Errors] /\ pc' = "return"
    BY <1>1, <1>10, ReturnTypes
  <2>. QED
    BY <1>12, <2>1 DEF SecondHalfDone, FetchInv, FetchTypes, loadVars
<1>. QED
  BY <1>14, <1>15 DEF FetchInv

\* A request that was granted is settled: of its objects, refusals of them were refused and
\* lapses lapsed for good.
LEMMA SettleStep ==
    ASSUME FetchInv, calls # <<>>, NEW lo, NEW hi, lo = Current.lo, hi = Current.hi,
           NEW refusals \in Nat, NEW lapses \in Nat, NEW fails \in BOOLEAN,
           Settle(refusals, lapses, fails), WorksOn(lo, hi), UNCHANGED <<total, failures>>,
           Want \subseteq accepted',
           refusals + lapses = Cardinality(lost' \cap Want),
           ~fails => Want \subseteq store' \cup lost',
           store' \subseteq Oids, accepted' \subseteq Oids, lost' \subseteq Oids, dropped' \subseteq Oids,
           lapsed' \subseteq Oids, refused' \in Nat, broken' \in BOOLEAN
    PROVE  FetchInv'
<1>1. /\ Want = Segment(lo, hi) /\ Want # {} /\ IsFiniteSet(Want) /\ Cardinality(Want) \in Nat
  BY WantIs
<1>2. PICK o, e :
         /\ o = [unavailable |-> refusals + lapses, rejected |-> 0,
                 answered |-> Cardinality(Want) > refusals]
         /\ e = (IF fails THEN "failed" ELSE "none")
  OBVIOUS
<1>3. /\ o \in Outcomes /\ o.unavailable = refusals + lapses /\ Count(o) = refusals + lapses
      /\ o.answered = (Cardinality(Want) > refusals)
  <2>1. (Cardinality(Want) > refusals) \in BOOLEAN
    OBVIOUS
  <2>2. o.unavailable = refusals + lapses /\ o.rejected = 0 /\ o.answered = (Cardinality(Want) > refusals)
    BY <1>2
  <2>3. o \in Outcomes
    BY <1>2, <2>1 DEF Outcomes
  <2>4. Count(o) = refusals + lapses
    BY <2>2 DEF Count
  <2>. QED
    BY <2>2, <2>3, <2>4
<1>4. e \in Errors /\ e # "refused" /\ (e = "failed" <=> fails)
  BY <1>2 DEF Errors
<1>5. Return(o, e)
  BY <1>2 DEF Settle
<1>6. Settled(lo, hi, o, e)'
  <2>1. Segment(lo, hi)' = Want
    BY <1>1 DEF WorksOn, Segment
  <2>2. o.unavailable = 0 => o.answered
    <3>1. Cardinality(Want) # 0
      BY <1>1, FS_EmptySet
    <3>2. Cardinality(Want) > 0
      BY <1>1, <3>1
    <3>3. ASSUME o.unavailable = 0 PROVE refusals = 0
      BY <1>3, <3>3
    <3>. QED
      BY <1>3, <3>2, <3>3
  <2>3. Want \subseteq accepted' \cup lost' \cup dropped'
    OBVIOUS
  <2>. QED
    BY <1>3, <1>4, <2>1, <2>2, <2>3 DEF Settled
<1>7. Stack' /\ Top' /\ Sweep'
  BY <1>5, <1>6, ReturnStep
<1>8. FetchTypes'
  <2>1. calls' \in Seq(CallSet) /\ ret' \in [outcome : Outcomes, err : Errors] /\ pc' = "return"
    BY <1>3, <1>4, <1>5, ReturnTypes
  <2>. QED
    BY <2>1 DEF WorksOn, FetchInv, FetchTypes
<1>. QED
  BY <1>7, <1>8 DEF FetchInv

\* Nothing new came for the lapsed objects: they are missing.
LEMMA RescheduleFailsStep == FetchInv /\ RescheduleFails => FetchInv'
<1>. SUFFICES ASSUME FetchInv, RescheduleFails PROVE FetchInv'
  OBVIOUS
<1>1. calls # <<>> /\ pc = "again"
  BY DEF RescheduleFails, FetchInv, Stack
<1>2. PICK lo, hi : lo = Current.lo /\ hi = Current.hi
  OBVIOUS
<1>3. Want = Segment(lo, hi) /\ Want \subseteq Oids /\ IsFiniteSet(Want)
  BY <1>1, <1>2, WantIs
<1>4. /\ Want \subseteq accepted /\ lapsed \subseteq Want \ lost /\ refused = Cardinality(lost \cap Want)
      /\ ~broken => Want \subseteq store \cup lost \cup lapsed
  BY <1>1 DEF FetchInv, Top
<1>5. /\ lost' = lost \cup lapsed /\ lapsed' = {} /\ refused' = 0 /\ broken' = FALSE
      /\ UNCHANGED <<limit, list, next, total, failures, accepted, dropped, store>>
      /\ Settle(refused, Cardinality(lapsed), broken)
  BY DEF RescheduleFails, sweepVars
<1>6. WorksOn(lo, hi)
  BY <1>3, <1>4, <1>5 DEF WorksOn
<1>7. /\ refused + Cardinality(lapsed) = Cardinality(lost' \cap Want)
      /\ refused \in Nat /\ Cardinality(lapsed) \in Nat
  <2>1. IsFiniteSet(lost \cap Want) /\ IsFiniteSet(lapsed) /\ (lost \cap Want) \cap lapsed = {}
    BY <1>3, <1>4, FS_Subset
  <2>2. lost' \cap Want = (lost \cap Want) \cup lapsed
    BY <1>4, <1>5
  <2>. QED
    BY <1>4, <2>1, <2>2, DisjointCount
<1>8. /\ store' \subseteq Oids /\ accepted' \subseteq Oids /\ lost' \subseteq Oids /\ dropped' \subseteq Oids
      /\ lapsed' \subseteq Oids /\ refused' \in Nat /\ broken' \in BOOLEAN /\ broken \in BOOLEAN
  BY <1>5 DEF FetchInv, FetchTypes
<1>9. Want \subseteq accepted' /\ (~broken => Want \subseteq store' \cup lost')
  BY <1>4, <1>5
<1>. QED
  BY <1>1, <1>2, <1>5, <1>6, <1>7, <1>8, <1>9, SettleStep

\* Fates of the objects of a response.
LEMMA FatesAre ==
    ASSUME NEW wanted \in SUBSET Oids, NEW S,
           NEW fate \in [wanted -> S], DownloadObjects(wanted, fate)
    PROVE  /\ \A kinds : Having(fate, kinds) = {o \in wanted : fate[o] \in kinds}
           /\ \A kinds : IsFiniteSet(Having(fate, kinds)) /\ Cardinality(Having(fate, kinds)) \in Nat
           /\ \A o \in wanted : fate[o] = "held" => o \in store
           /\ store' = store \cup Having(fate, {"served"})
<1>1. \A kinds : Having(fate, kinds) = {o \in wanted : fate[o] \in kinds}
  BY DEF Having
<1>2. \A kinds : IsFiniteSet(Having(fate, kinds)) /\ Cardinality(Having(fate, kinds)) \in Nat
  BY <1>1, LfsFetchAssumption, FS_Subset, FS_CardinalityType
<1>3. \A o \in wanted : fate[o] = "held" => o \in store
  BY DEF DownloadObjects, Fates
<1>4. store' = store \cup Having(fate, {"served"})
  BY <1>1 DEF DownloadObjects
<1>. QED
  BY <1>1, <1>2, <1>3, <1>4

\* The objects of the response were downloaded, or some lapsed.
LEMMA DownloadStep == FetchInv /\ Download => FetchInv'
<1>. SUFFICES ASSUME FetchInv, Download PROVE FetchInv'
  OBVIOUS
<1>1. calls # <<>> /\ pc = "download"
  BY DEF Download, FetchInv, Stack
<1>2. PICK lo, hi : lo = Current.lo /\ hi = Current.hi
  OBVIOUS
<1>3. /\ Want = Segment(lo, hi) /\ Want \subseteq Oids /\ IsFiniteSet(Want)
      /\ Want \subseteq accepted /\ Want \cap lost = {}
  BY <1>1, <1>2, WantIs DEF FetchInv, Top
<1>. DEFINE Kinds6 == {"refused", "held", "lapsed", "served", "broken", "unreached"}
<1>4. PICK fate \in [Want -> Kinds6] :
          /\ DownloadObjects(Want, fate)
          /\ lost' = lost \cup Having(fate, {"refused"})
          /\ IF Having(fate, {"lapsed"}) = {}
             THEN /\ Settle(Cardinality(Having(fate, {"refused"})), 0,
                            Having(fate, {"broken", "unreached"}) # {})
                  /\ UNCHANGED loadVars
             ELSE /\ lapsed' = Having(fate, {"lapsed"})
                  /\ refused' = Cardinality(Having(fate, {"refused"}))
                  /\ broken' = (Having(fate, {"broken", "unreached"}) # {})
                  /\ pc' = "again"
                  /\ UNCHANGED callVars
  BY DEF Download
<1>5. UNCHANGED <<limit, list, next, total, failures, accepted, dropped>>
  BY DEF Download, sweepVars
<1>. DEFINE R == Having(fate, {"refused"})
            L == Having(fate, {"lapsed"})
            B == Having(fate, {"broken", "unreached"})
            V == Having(fate, {"served"})
            H == Having(fate, {"held"})
<1>6. /\ R = {o \in Want : fate[o] = "refused"} /\ L = {o \in Want : fate[o] = "lapsed"}
      /\ B = {o \in Want : fate[o] \in {"broken", "unreached"}}
      /\ V = {o \in Want : fate[o] = "served"} /\ H = {o \in Want : fate[o] = "held"}
      /\ Cardinality(R) \in Nat /\ H \subseteq store /\ store' = store \cup V
  <2>1. /\ \A kinds : Having(fate, kinds) = {o \in Want : fate[o] \in kinds}
        /\ \A kinds : Cardinality(Having(fate, kinds)) \in Nat
        /\ \A o \in Want : fate[o] = "held" => o \in store
        /\ store' = store \cup V
    <3>1. Want \in SUBSET Oids /\ DownloadObjects(Want, fate)
      BY <1>3, <1>4
    <3>. HIDE DEF Kinds6
    <3>. QED
      BY <3>1, FatesAre
  <2>2. /\ R = {o \in Want : fate[o] \in {"refused"}} /\ L = {o \in Want : fate[o] \in {"lapsed"}}
        /\ B = {o \in Want : fate[o] \in {"broken", "unreached"}}
        /\ V = {o \in Want : fate[o] \in {"served"}} /\ H = {o \in Want : fate[o] \in {"held"}}
        /\ Cardinality(R) \in Nat
    BY <2>1
  <2>. HIDE DEF R, L, B, V, H
  <2>. QED
    BY <2>1, <2>2
<1>7. /\ R \subseteq Want /\ V \subseteq Want /\ L \subseteq Want /\ L \cap R = {}
      /\ Want = R \cup L \cup B \cup V \cup H
  BY <1>6
<1>. DEFINE fails == B # {}
<1>8. lost' = lost \cup R
  BY <1>4
<1>9. CASE L = {}
  <2>1. Settle(Cardinality(R), 0, fails) /\ UNCHANGED loadVars
    BY <1>4, <1>9
  <2>. HIDE DEF R, L, B, V, H
  <2>2. lost' \cap Want = R
    BY <1>3, <1>7, <1>8
  <2>3. WorksOn(lo, hi)
    BY <1>3, <1>5, <1>6, <1>7, <1>8 DEF WorksOn
  <2>4. Cardinality(R) + 0 = Cardinality(lost' \cap Want)
    <3>1. Cardinality(R) \in Nat
      BY <1>6
    <3>. QED
      BY <2>2, <3>1
  <2>5. ~fails => Want \subseteq store' \cup lost'
    BY <1>6, <1>7, <1>8, <1>9
  <2>6. /\ store' \subseteq Oids /\ accepted' \subseteq Oids /\ lost' \subseteq Oids /\ dropped' \subseteq Oids
        /\ lapsed' \subseteq Oids /\ refused' \in Nat /\ broken' \in BOOLEAN
    BY <1>3, <1>5, <1>6, <1>7, <1>8, <2>1 DEF FetchInv, FetchTypes, loadVars
  <2>7. Want \subseteq accepted' /\ 0 \in Nat /\ fails \in BOOLEAN
    BY <1>3, <1>5
  <2>. HIDE DEF fails
  <2>. QED
    BY <1>1, <1>2, <1>5, <1>6, <2>1, <2>3, <2>4, <2>5, <2>6, <2>7, SettleStep
<1>10. CASE L # {}
  <2>1. lapsed' = L /\ refused' = Cardinality(R) /\ broken' = fails /\ pc' = "again" /\ UNCHANGED callVars
    BY <1>4, <1>10
  <2>. HIDE DEF R, L, B, V, H
  <2>2. lost' \cap Want = R
    BY <1>3, <1>7, <1>8
  <2>3. WorksOn(lo, hi)
    BY <1>3, <1>5, <1>6, <1>7, <1>8 DEF WorksOn
  <2>4. Stack' /\ Sweep'
    BY <1>1, <1>2, <1>5, <2>1, <2>3, TopStep DEF callVars
  <2>5. Want' = Want
    BY <1>5, <2>1 DEF callVars, Want, Current
  <2>6. L \subseteq Want \ lost'
    BY <1>3, <1>7, <1>8
  <2>7. ~broken' => Want \subseteq store' \cup lost' \cup lapsed'
    BY <1>6, <1>7, <1>8, <2>1
  <2>8. Top'
    BY <1>3, <1>5, <2>1, <2>2, <2>5, <2>6, <2>7 DEF Top
  <2>9. FetchTypes'
    <3>1. store' \subseteq Oids /\ lost' \subseteq Oids /\ lapsed' \subseteq Oids
      BY <1>3, <1>6, <1>7, <1>8, <2>1 DEF FetchInv, FetchTypes
    <3>2. refused' \in Nat
      BY <1>6, <2>1
    <3>3. broken' \in BOOLEAN
      BY <2>1
    <3>. QED
      BY <1>5, <2>1, <3>1, <3>2, <3>3 DEF FetchInv, FetchTypes, callVars
  <2>. QED
    BY <2>4, <2>8, <2>9 DEF FetchInv
<1>. QED
  BY <1>9, <1>10

\* The lapsed objects were asked for once more.
LEMMA RescheduleStep == FetchInv /\ Reschedule => FetchInv'
<1>. SUFFICES ASSUME FetchInv, Reschedule PROVE FetchInv'
  OBVIOUS
<1>1. calls # <<>> /\ pc = "again"
  BY DEF Reschedule, FetchInv, Stack
<1>2. PICK lo, hi : lo = Current.lo /\ hi = Current.hi
  OBVIOUS
<1>3. Want = Segment(lo, hi) /\ Want \subseteq Oids /\ IsFiniteSet(Want)
  BY <1>1, <1>2, WantIs
<1>4. /\ Want \subseteq accepted /\ lapsed \subseteq Want \ lost /\ refused = Cardinality(lost \cap Want)
      /\ ~broken => Want \subseteq store \cup lost \cup lapsed
      /\ broken \in BOOLEAN
  BY <1>1 DEF FetchInv, Top, FetchTypes
<1>. DEFINE Kinds5 == {"refused", "lapsed", "served", "broken", "unreached"}
<1>5. PICK fate \in [lapsed -> Kinds5] :
          /\ DownloadObjects(lapsed, fate)
          /\ lost' = lost \cup Having(fate, {"refused", "lapsed"})
          /\ Settle(refused + Cardinality(Having(fate, {"refused"})),
                    Cardinality(Having(fate, {"lapsed"})),
                    broken \/ Having(fate, {"broken", "unreached"}) # {})
  BY DEF Reschedule
<1>6. /\ lapsed' = {} /\ refused' = 0 /\ broken' = FALSE
      /\ UNCHANGED <<limit, list, next, total, failures, accepted, dropped>>
  BY DEF Reschedule, sweepVars
<1>. DEFINE R == Having(fate, {"refused"})
            L == Having(fate, {"lapsed"})
            B == Having(fate, {"broken", "unreached"})
            V == Having(fate, {"served"})
            fails == broken \/ B # {}
<1>7. /\ R = {o \in lapsed : fate[o] = "refused"} /\ L = {o \in lapsed : fate[o] = "lapsed"}
      /\ B = {o \in lapsed : fate[o] \in {"broken", "unreached"}}
      /\ V = {o \in lapsed : fate[o] = "served"}
      /\ Having(fate, {"refused", "lapsed"}) = {o \in lapsed : fate[o] \in {"refused", "lapsed"}}
      /\ store' = store \cup V
  <2>1. lapsed \in SUBSET Oids
    BY <1>3, <1>4
  <2>2. /\ \A kinds : Having(fate, kinds) = {o \in lapsed : fate[o] \in kinds}
        /\ store' = store \cup V
    <3>1. DownloadObjects(lapsed, fate)
      BY <1>5
    <3>. HIDE DEF Kinds5
    <3>. QED
      BY <2>1, <3>1, FatesAre
  <2>3. /\ R = {o \in lapsed : fate[o] \in {"refused"}} /\ L = {o \in lapsed : fate[o] \in {"lapsed"}}
        /\ B = {o \in lapsed : fate[o] \in {"broken", "unreached"}}
        /\ V = {o \in lapsed : fate[o] \in {"served"}}
        /\ Having(fate, {"refused", "lapsed"}) = {o \in lapsed : fate[o] \in {"refused", "lapsed"}}
    BY <2>2
  <2>. HIDE DEF R, L, B, V
  <2>. QED
    BY <2>2, <2>3
<1>8. /\ R \cap L = {} /\ V \subseteq lapsed /\ lapsed = R \cup L \cup B \cup V
      /\ lost' = lost \cup (R \cup L)
  BY <1>5, <1>7
<1>9. Settle(refused + Cardinality(R), Cardinality(L), fails)
  BY <1>5
<1>. HIDE DEF R, L, B, V
<1>10. WorksOn(lo, hi)
  BY <1>3, <1>4, <1>6, <1>7, <1>8 DEF WorksOn
<1>11. /\ refused + Cardinality(R) + Cardinality(L) = Cardinality(lost' \cap Want)
       /\ refused + Cardinality(R) \in Nat /\ Cardinality(L) \in Nat
  <2>. DEFINE W == lost \cap Want
  <2>1. IsFiniteSet(W) /\ IsFiniteSet(R) /\ IsFiniteSet(L) /\ W \cap R = {} /\ (W \cup R) \cap L = {}
    BY <1>3, <1>4, <1>8, FS_Subset
  <2>2. lost' \cap Want = (W \cup R) \cup L
    BY <1>4, <1>8
  <2>3. refused = Cardinality(W)
    BY <1>4
  <2>. HIDE DEF W
  <2>4. /\ Cardinality(W \cup R) = Cardinality(W) + Cardinality(R) /\ IsFiniteSet(W \cup R)
        /\ Cardinality(W) \in Nat /\ Cardinality(R) \in Nat
    BY <2>1, DisjointCount
  <2>5. /\ Cardinality((W \cup R) \cup L) = Cardinality(W \cup R) + Cardinality(L)
        /\ Cardinality(L) \in Nat
    BY <2>1, <2>4, DisjointCount
  <2>6. refused + Cardinality(R) = Cardinality(W \cup R) /\ Cardinality(W \cup R) \in Nat
    BY <2>3, <2>4
  <2>7. refused + Cardinality(R) + Cardinality(L) = Cardinality(lost' \cap Want)
    BY <2>2, <2>5, <2>6
  <2>. QED
    BY <2>5, <2>6, <2>7
<1>12. ~fails => Want \subseteq store' \cup lost'
  BY <1>4, <1>7, <1>8
<1>13. /\ store' \subseteq Oids /\ accepted' \subseteq Oids /\ lost' \subseteq Oids /\ dropped' \subseteq Oids
       /\ lapsed' \subseteq Oids /\ refused' \in Nat /\ broken' \in BOOLEAN
  BY <1>6, <1>7, <1>8 DEF FetchInv, FetchTypes
<1>14. fails \in BOOLEAN /\ Want \subseteq accepted'
  BY <1>4, <1>6
<1>. HIDE DEF fails
<1>. QED
  BY <1>1, <1>2, <1>6, <1>9, <1>10, <1>11, <1>12, <1>13, <1>14, SettleStep

-----------------------------------------------------------------------------
(* The steps of fetchBatches, and those before it. *)

LEMMA SmallerIs ==
    ASSUME NEW m \in Int, NEW n \in Int
    PROVE  /\ Smaller(m, n) \in {m, n} /\ Smaller(m, n) <= m /\ Smaller(m, n) <= n
           /\ Smaller(m, n) \in Int
BY DEF Smaller

\* A chunk is begun: it is the next range, and nothing of it was touched.
LEMMA NextChunkStep == FetchInv /\ NextChunk => FetchInv'
<1>. SUFFICES ASSUME FetchInv, NextChunk PROVE FetchInv'
  OBVIOUS
<1>1. /\ pc = "chunk" /\ pc' = "ask" /\ ~InCall /\ InCall' /\ next <= Len(list)
      /\ next' = next + limit
      /\ UNCHANGED <<limit, list, store, accepted, lost, dropped, total, failures, ret, lapsed, refused, broken>>
  BY DEF NextChunk, InCall, loadVars, historyVars
<1>2. next \in Nat /\ next >= 1 /\ limit \in Nat /\ limit >= 1 /\ Len(list) \in Nat
  BY LenProperties DEF FetchInv, FetchTypes
<1>3. PICK a \in Nat, n \in Nat, z \in Nat :
         a = next /\ n = Len(list) /\ z = Smaller(next + limit - 1, Len(list))
  BY <1>2 DEF Smaller
<1>4. 1 <= a /\ a <= z /\ z <= n
  BY <1>1, <1>2, <1>3 DEF Smaller
<1>5. ChunkLo' = a /\ ChunkHi' = z
  <2>1. next' - limit' = next /\ next' - 1 = next + limit - 1
    BY <1>1, <1>2
  <2>. QED
    BY <1>1, <1>3, <2>1 DEF ChunkLo, ChunkHi
<1>6. PICK c : c = Call(a, z)
  OBVIOUS
<1>7. c \in CallSet /\ c.lo = a /\ c.hi = z /\ c.stage = "request"
  BY <1>6, CallIs
<1>8. calls' = <<c>>
  BY <1>3, <1>6 DEF NextChunk
<1>9. calls' \in Seq(CallSet) /\ Len(calls') = 1 /\ calls'[1] = c /\ calls' # <<>>
  BY <1>7, <1>8
<1>10. FetchTypes'
  <2>1. next' \in Nat \ {0}
    BY <1>1, <1>2
  <2>. QED
    BY <1>1, <1>9, <2>1 DEF FetchInv, FetchTypes
<1>11. Stack'
  <2>1. c.stage \notin Halves /\ OtherHalf(c)'
    BY <1>7 DEF Halves, OtherHalf
  <2>2. \A j \in 2 .. 1 : FALSE
    OBVIOUS
  <2>3. Frame(calls, 1)'
    BY <1>4, <1>5, <1>7, <1>9, <2>1, <2>2 DEF Frame
  <2>4. \A k \in 1 .. Len(calls') : k = 1
    BY <1>9
  <2>. QED
    BY <1>1, <1>4, <1>5, <1>9, <2>1, <2>3, <2>4 DEF Stack
<1>12. Untouched(a, n)
  BY <1>3 DEF FetchInv, Sweep
<1>13. Top'
  <2>1. Untouched(a, z)
    BY <1>4, <1>12, PartUntouched
  <2>2. Untouched(a, z)'
    BY <1>1, <2>1 DEF Untouched, Segment
  <2>3. Current' = c
    BY <1>9 DEF Current, Last
  <2>. QED
    BY <1>1, <1>7, <2>2, <2>3 DEF Top
<1>14. Sweep'
  <2>1. Done = a - 1 /\ Done' = a - 1
    <3>1. Smaller(next - 1, Len(list)) = next - 1
      BY <1>1, <1>2 DEF Smaller
    <3>. QED
      BY <1>1, <1>3, <1>5, <3>1 DEF Done
  <2>2. PICK b : b = a - 1
    OBVIOUS
  <2>3. Segment(1, b)' = Segment(1, b)
    BY <1>1 DEF Segment
  <2>4. PICK x \in Nat : x = next' /\ a <= x
    BY <1>1, <1>2, <1>3
  <2>5. Untouched(x, n)
    BY <1>4, <1>12, <2>4, PartUntouched
  <2>6. Untouched(x, n)'
    BY <1>1, <2>5 DEF Untouched, Segment
  <2>. QED
    BY <1>1, <1>3, <2>1, <2>2, <2>3, <2>4, <2>6 DEF FetchInv, Sweep
<1>. QED
  BY <1>10, <1>11, <1>13, <1>14 DEF FetchInv

\* A chunk is over: what is settled grows by its range.
LEMMA ChunkDoneStep == FetchInv /\ ChunkDone => FetchInv'
<1>. SUFFICES ASSUME FetchInv, ChunkDone PROVE FetchInv'
  OBVIOUS
<1>1. /\ pc = "return" /\ calls = <<>> /\ pc' = "chunk" /\ InCall /\ ~InCall' /\ calls' = <<>>
      /\ total' = Absorb(total, ret.outcome) /\ failures' = (IF ret.err = "none" THEN failures ELSE failures + 1)
      /\ ret' = Nothing
      /\ UNCHANGED <<limit, list, next, store, accepted, lost, dropped, lapsed, refused, broken>>
  BY DEF ChunkDone, InCall, loadVars, historyVars
<1>2. next \in Nat /\ limit \in Nat /\ Len(list) \in Nat
  BY LenProperties DEF FetchInv, FetchTypes
<1>3. 1 <= ChunkLo /\ ChunkLo <= ChunkHi /\ ChunkHi <= Len(list) /\ ChunkLo \in Int /\ ChunkHi \in Int
  BY <1>1, <1>2 DEF FetchInv, Stack, ChunkLo, ChunkHi, Smaller
<1>4. PICK m \in Nat, hi \in Nat : m = ChunkLo /\ hi = ChunkHi
  BY <1>3
<1>5. 1 <= m /\ m <= hi /\ hi <= Len(list)
  BY <1>3, <1>4
<1>6. PICK p \in Outcomes, q \in Outcomes, e \in Errors : p = total /\ q = ret.outcome /\ e = ret.err
  BY DEF FetchInv, FetchTypes
<1>7. Settled(m, hi, q, e)
  BY <1>1, <1>4, <1>6 DEF FetchInv, Top, RetLo, RetHi
<1>. DEFINE A == Segment(1, m - 1)
            B == Segment(m, hi)
<1>8. Segment(1, hi) = A \cup B
  BY <1>5, SegmentsJoin
<1>9. A \cap B = {} /\ A \subseteq Oids /\ B \subseteq Oids
  <2>1. m - 1 \in Int /\ m - 1 <= Len(list) /\ 1 <= m /\ m - 1 < m
    BY <1>2, <1>5
  <2>. QED
    BY <1>5, <2>1, SegmentsApart, SegmentIn DEF FetchInv
<1>10. Done = m - 1 /\ Done' = hi
  BY <1>1, <1>4 DEF Done, ChunkHi
<1>11. /\ Count(p) = Cardinality(lost \cap A) /\ A \subseteq accepted \cup lost \cup dropped
       /\ failures = 0 => A \subseteq store \cup lost
  BY <1>6, <1>10 DEF FetchInv, Sweep
<1>12. /\ Count(q) = Cardinality(lost \cap B) /\ B \subseteq accepted \cup lost \cup dropped
       /\ e # "failed" => B \subseteq store \cup lost
  BY <1>7 DEF Settled
<1>13. total' \in Outcomes /\ Count(total') = Count(p) + Count(q)
  BY <1>1, <1>6, AbsorbIs
<1>14. failures' \in Nat /\ (failures' = 0 => failures = 0 /\ e = "none")
  <2>1. failures \in Nat
    BY DEF FetchInv, FetchTypes
  <2>2. CASE ret.err = "none"
    BY <1>1, <1>6, <2>1, <2>2
  <2>3. CASE ret.err # "none"
    <3>1. failures' = failures + 1
      BY <1>1, <2>3
    <3>. QED
      BY <2>1, <3>1
  <2>. QED
    BY <2>2, <2>3
<1>15. (Segment(1, Done))' = A \cup B
  <2>1. Segment(1, hi)' = Segment(1, hi)
    BY <1>1 DEF Segment
  <2>. QED
    BY <1>8, <1>10, <2>1
<1>. HIDE DEF A, B
<1>16. Cardinality(lost \cap (A \cup B)) = Count(p) + Count(q)
  <2>1. IsFiniteSet(lost \cap A) /\ IsFiniteSet(lost \cap B)
    BY <1>9, LfsFetchAssumption, FS_Subset
  <2>2. (lost \cap A) \cap (lost \cap B) = {} /\ lost \cap (A \cup B) = (lost \cap A) \cup (lost \cap B)
    BY <1>9
  <2>. QED
    BY <1>11, <1>12, <2>1, <2>2, DisjointCount
<1>17. Untouched(next, Len(list))'
  BY <1>1 DEF FetchInv, Sweep, Untouched, Segment
<1>18. Sweep'
  <2>1. Count(total') = Cardinality(lost' \cap (A \cup B))
    BY <1>1, <1>13, <1>16
  <2>2. A \cup B \subseteq accepted' \cup lost' \cup dropped'
    BY <1>1, <1>11, <1>12
  <2>3. failures' = 0 => A \cup B \subseteq store' \cup lost'
    BY <1>1, <1>11, <1>12, <1>14
  <2>4. lost' \subseteq ToSet(list')
    BY <1>1 DEF FetchInv, Sweep
  <2>. QED
    BY <1>1, <1>15, <1>17, <2>1, <2>2, <2>3, <2>4 DEF Sweep
<1>19. FetchTypes'
  BY <1>1, <1>13, <1>14, NoOutcomes DEF FetchInv, FetchTypes, Nothing, Returned, Errors
<1>20. Stack' /\ Top'
  <2>1. Len(calls') = 0 /\ \A k \in 1 .. 0 : FALSE
    BY <1>1
  <2>. QED
    BY <1>1, <2>1 DEF Stack, Top
<1>. QED
  BY <1>18, <1>19, <1>20 DEF FetchInv

\* The sweep, the probe and the scan leave the objects alone.
LEMMA SweepDoneStep == FetchInv /\ SweepDone => FetchInv'
<1>. SUFFICES ASSUME FetchInv, SweepDone PROVE FetchInv'
  OBVIOUS
<1>1. /\ pc = "chunk" /\ pc' = "done" /\ ~InCall /\ ~InCall'
      /\ UNCHANGED <<limit, list, next, store, accepted, lost, dropped, lapsed, refused, broken,
                     total, failures, calls, ret>>
  BY DEF SweepDone, End, InCall, fetchVars, loadVars, historyVars, sweepVars, callVars
<1>2. FetchTypes'
  BY <1>1 DEF FetchInv, FetchTypes
<1>3. Stack' /\ Top'
  <2>1. Len(calls') = 0 /\ \A k \in 1 .. 0 : FALSE /\ calls' = <<>>
    BY <1>1 DEF FetchInv, Stack
  <2>. QED
    BY <1>1, <2>1 DEF Stack, Top
<1>4. Sweep'
  <2>1. Done' = Done
    BY <1>1 DEF Done
  <2>. QED
    BY <1>1, <2>1 DEF FetchInv, Sweep, Segment, Untouched
<1>. QED
  BY <1>2, <1>3, <1>4 DEF FetchInv

LEMMA ProbeStep == FetchInv /\ Probe => FetchInv'
<1>. SUFFICES ASSUME FetchInv, Probe PROVE FetchInv'
  OBVIOUS
<1>1. /\ pc = "probe" /\ pc' \in {"probe", "chunk", "done"} /\ ~InCall /\ ~InCall'
      /\ UNCHANGED <<limit, list, next, store, accepted, lost, dropped, lapsed, refused, broken,
                     total, failures, calls, ret>>
  BY DEF Probe, End, InCall, fetchVars, loadVars, historyVars, sweepVars, callVars
<1>2. FetchTypes'
  BY <1>1 DEF FetchInv, FetchTypes
<1>3. Stack' /\ Top'
  <2>1. Len(calls') = 0 /\ \A k \in 1 .. 0 : FALSE /\ calls' = <<>>
    BY <1>1 DEF FetchInv, Stack
  <2>. QED
    BY <1>1, <2>1 DEF Stack, Top
<1>4. Sweep'
  <2>1. Done' = Done
    BY <1>1 DEF Done
  <2>. QED
    BY <1>1, <2>1 DEF FetchInv, Sweep, Segment, Untouched
<1>. QED
  BY <1>2, <1>3, <1>4 DEF FetchInv

LEMMA ScannedStep == FetchInv /\ pointers \subseteq Oids /\ Scanned => FetchInv'
<1>. SUFFICES ASSUME FetchInv, pointers \subseteq Oids, Scanned PROVE FetchInv'
  OBVIOUS
<1>1. /\ pc = "scan" /\ pc' \in {"probe", "done"} /\ ~InCall /\ ~InCall'
      /\ list' = list \/ list' = SetToSeq(pointers)
      /\ UNCHANGED <<limit, next, store, accepted, lost, dropped, lapsed, refused, broken, total, failures, calls, ret>>
  BY DEF Scanned, End, InCall, fetchVars, loadVars, historyVars, sweepVars, callVars
<1>2. list' \in Seq(Oids) /\ \A i, j \in 1 .. Len(list') : list'[i] = list'[j] => i = j
  <2>1. CASE list' = list
    BY <2>1 DEF FetchInv, FetchTypes
  <2>2. CASE list' = SetToSeq(pointers)
    <3>1. IsFiniteSet(pointers)
      BY LfsFetchAssumption, FS_Subset
    <3>2. /\ list' \in Seq(pointers)
          /\ \A i, j \in 1 .. Len(list') : list'[i] = list'[j] => i = j
      BY <2>2, <3>1, SetListed
    <3>. QED
      BY <3>2
  <2>. QED
    BY <1>1, <2>1, <2>2
<1>3. FetchTypes'
  BY <1>1, <1>2 DEF FetchInv, FetchTypes
<1>4. Stack' /\ Top'
  <2>1. Len(calls') = 0 /\ \A k \in 1 .. 0 : FALSE /\ calls' = <<>>
    BY <1>1 DEF FetchInv, Stack
  <2>. QED
    BY <1>1, <2>1 DEF Stack, Top
<1>5. /\ next = 1 /\ failures = 0 /\ accepted = {} /\ list = <<>>
      /\ Count(total) = Cardinality(lost \cap Segment(1, Done))
      /\ lost \subseteq ToSet(list)
  BY <1>1 DEF FetchInv, Sweep
<1>6. lost = {}
  BY <1>5 DEF ToSet
<1>7. Done = 0 /\ Done' = 0
  <2>1. Len(list') \in Nat /\ Len(list) = 0
    BY <1>2, <1>5, LenProperties
  <2>. QED
    BY <1>1, <1>5, <2>1 DEF Done, Smaller
<1>8. Segment(1, 0) = {} /\ Segment(1, 0)' = {}
  BY DEF Segment
<1>9. Sweep'
  <2>1. Untouched(next, Len(list))'
    BY <1>1, <1>5, <1>6 DEF Untouched
  <2>. QED
    BY <1>1, <1>5, <1>6, <1>7, <1>8, <2>1 DEF Sweep
<1>. QED
  BY <1>3, <1>4, <1>9 DEF FetchInv

\* Nothing of the fetch moves.
LEMMA FetchStays ==
    ASSUME FetchInv, UNCHANGED <<pc, fetchVars>>
    PROVE  FetchInv'
<1>1. UNCHANGED <<pc, limit, list, next, store, accepted, lost, dropped, lapsed, refused, broken, total, failures, calls, ret>>
  BY DEF fetchVars, loadVars, historyVars, sweepVars, callVars
<1>2. FetchTypes'
  BY <1>1 DEF FetchInv, FetchTypes
<1>3. \A lo, hi : Segment(lo, hi)' = Segment(lo, hi)
  BY <1>1 DEF Segment
<1>4. /\ \A lo, hi : Untouched(lo, hi)' <=> Untouched(lo, hi)
      /\ \A lo, hi, o, e : Settled(lo, hi, o, e)' <=> Settled(lo, hi, o, e)
  BY <1>1, <1>3 DEF Untouched, Settled
<1>5. /\ (InCall' <=> InCall) /\ Done' = Done /\ ChunkLo' = ChunkLo /\ ChunkHi' = ChunkHi
  BY <1>1 DEF InCall, Done, ChunkLo, ChunkHi
<1>6. \A c : OtherHalf(c)' <=> OtherHalf(c)
  BY <1>4 DEF OtherHalf
<1>7. PICK s : s = calls /\ s = calls'
  BY <1>1
<1>8. Stack'
  <2>1. \A k \in 1 .. Len(s) : Frame(s, k) => Frame(s, k)'
    BY <1>5, <1>6 DEF Frame
  <2>2. \A k \in 1 .. Len(s) : (s[k].stage \in Halves <=> k < Len(s) \/ pc = "return") /\ Frame(s, k)
    BY <1>7 DEF FetchInv, Stack
  <2>. QED
    BY <1>1, <1>5, <1>7, <2>1, <2>2 DEF FetchInv, Stack
<1>9. Current' = Current /\ Want' = Want /\ RetLo' = RetLo /\ RetHi' = RetHi
  <2>1. Current' = Current
    BY <1>1 DEF Current
  <2>2. Want' = Want
    BY <1>1, <2>1 DEF Want
  <2>3. RetLo' = RetLo /\ RetHi' = RetHi
    BY <1>1, <1>5, <2>1 DEF RetLo, RetHi
  <2>. QED
    BY <2>1, <2>2, <2>3
<1>10. Top'
  BY <1>1, <1>4, <1>9 DEF FetchInv, Top
<1>11. Sweep'
  <2>1. PICK b, x, y : b = Done /\ b = Done' /\ x = next /\ x = next' /\ y = Len(list) /\ y = Len(list')
    BY <1>1, <1>5
  <2>2. Segment(1, b)' = Segment(1, b) /\ (Untouched(x, y) => Untouched(x, y)')
    BY <1>3, <1>4
  <2>3. Segment(1, Done)' = Segment(1, Done) /\ Untouched(next, Len(list))'
    BY <2>1, <2>2 DEF FetchInv, Sweep
  <2>. QED
    BY <1>1, <2>3 DEF FetchInv, Sweep
<1>. QED
  BY <1>2, <1>8, <1>10, <1>11 DEF FetchInv

LEMMA FetchInitially == Init => FetchInv
<1>. SUFFICES ASSUME Init PROVE FetchInv
  OBVIOUS
<1>1. /\ pc = "scan" /\ list = <<>> /\ next = 1 /\ failures = 0 /\ calls = <<>> /\ ret = Nothing
      /\ total = NoOutcome /\ lapsed = {} /\ refused = 0 /\ broken = FALSE
      /\ accepted = {} /\ lost = {} /\ dropped = {} /\ store \in Stored /\ limit \in BatchLimits
  BY DEF Init
<1>2. FetchTypes
  <2>1. store \subseteq Oids /\ limit \in Nat \ {0}
    BY <1>1, LfsFetchAssumption
  <2>2. ret \in [outcome : Outcomes, err : Errors]
    BY <1>1, NoOutcomes DEF Nothing, Returned, Errors
  <2>3. list \in Seq(Oids) /\ calls \in Seq(CallSet) /\ \A i \in 1 .. Len(list) : FALSE
    BY <1>1
  <2>4. \A i, j \in 1 .. Len(list) : list[i] = list[j] => i = j
    BY <2>3
  <2>5. /\ next \in Nat \ {0} /\ failures \in Nat /\ refused \in Nat
        /\ broken \in BOOLEAN
        /\ total \in Outcomes
    <3>1. next \in Nat \ {0} /\ failures \in Nat /\ refused \in Nat
      BY <1>1
    <3>2. broken \in BOOLEAN
      BY <1>1
    <3>3. total \in Outcomes
      BY <1>1, NoOutcomes
    <3>. QED
      BY <3>1, <3>2, <3>3
  <2>6. lapsed \subseteq Oids /\ accepted \subseteq Oids /\ lost \subseteq Oids /\ dropped \subseteq Oids
    BY <1>1
  <2>. QED
    BY <1>1, <2>1, <2>2, <2>3, <2>4, <2>5, <2>6 DEF FetchTypes
<1>3. Len(list) = 0 /\ Len(calls) = 0 /\ \A k \in 1 .. 0 : FALSE
  BY <1>1
<1>4. ~InCall /\ Done = 0 /\ Segment(1, 0) = {}
  BY <1>1, <1>3 DEF InCall, Done, Segment, Smaller
<1>5. Stack /\ Top
  BY <1>1, <1>3, <1>4 DEF Stack, Top
<1>6. Sweep
  BY <1>1, <1>3, <1>4, NoOutcomes, FS_EmptySet DEF Sweep, Untouched
<1>. QED
  BY <1>2, <1>5, <1>6 DEF FetchInv

-----------------------------------------------------------------------------
(* What FetchAll returns. *)

Verdicts == {"none", "serves", "absent", "disabled", "failed"}

\* The list is what the scan found, and the scan left nothing out.
Gathered ==
    /\ pointers \subseteq Oids
    /\ pc \notin {"scan", "done"} => scan = "done" /\ skipped = {} /\ ToSet(list) = pointers

\* selectEndpoint: the configured root is asked last, and nothing is known of it before.
Probed ==
    /\ answers \in [{"derived", "configured"} -> Verdicts]
    /\ pc = "scan" => answers = NoAnswers
    /\ pc = "probe" => /\ candidates \in {<<"configured">>, <<"derived", "configured">>}
                       /\ answers["configured"] = "none"
                       /\ candidates # <<"configured">> => answers = NoAnswers

Reported ==
    /\ pc = "done" <=> result # "none"
    /\ result = "ok" => scan = "done" /\ skipped = {} /\ pointers \subseteq store
    /\ MissingCounted
    /\ result # "none" /\ next > 1 => next > Len(list) \/ cancelled \/ failures = 2
    /\ DisabledIsSaid

IndInv == ScanInv /\ FetchInv /\ Gathered /\ Probed /\ Reported

\* The steps of the sweep.
SweepStep ==
    \/ NextChunk \/ ChunkDone \/ Scheduled \/ Refused \/ AskFails
    \/ FirstHalfDone \/ SecondHalfDone \/ Download \/ RescheduleFails \/ Reschedule

LEMMA SweepSteps ==
    ASSUME IndInv, SweepStep
    PROVE  /\ FetchInv' /\ UNCHANGED <<mirrorVars, list, answers, result>>
           /\ pc \in {"chunk", "ask", "download", "again", "return"}
           /\ pc' \in {"chunk", "ask", "download", "again", "return"}
<1>. USE DEF IndInv, scanVars, probeVars
<1>1. CASE NextChunk
  BY <1>1, NextChunkStep DEF NextChunk
<1>2. CASE ChunkDone
  BY <1>2, ChunkDoneStep DEF ChunkDone
<1>3. CASE Scheduled
  BY <1>3, ScheduledStep DEF Scheduled
<1>4. CASE Refused
  <2>1. FetchInv'
    BY <1>4, RefusedStep
  <2>. QED
    BY <1>4, <2>1 DEF Refused, Return
<1>5. CASE AskFails
  BY <1>5, AskFailsStep DEF AskFails, Return
<1>6. CASE FirstHalfDone
  BY <1>6, FirstHalfDoneStep DEF FirstHalfDone
<1>7. CASE SecondHalfDone
  BY <1>7, SecondHalfDoneStep DEF SecondHalfDone, Return
<1>8. CASE Download
  BY <1>8, DownloadStep DEF Download, Settle, Return
<1>9. CASE RescheduleFails
  BY <1>9, RescheduleFailsStep DEF RescheduleFails, Settle, Return
<1>10. CASE Reschedule
  BY <1>10, RescheduleStep DEF Reschedule, Settle, Return
<1>. QED
  BY <1>1, <1>2, <1>3, <1>4, <1>5, <1>6, <1>7, <1>8, <1>9, <1>10 DEF SweepStep

LEMMA SweepStepKeeps == ASSUME IndInv, SweepStep PROVE IndInv'
<1>1. /\ FetchInv' /\ UNCHANGED <<mirrorVars, list, answers, result>>
      /\ pc \in {"chunk", "ask", "download", "again", "return"}
      /\ pc' \in {"chunk", "ask", "download", "again", "return"}
  BY SweepSteps
<1>2. ScanInv'
  BY <1>1, InvRest DEF IndInv, mirrorVars
<1>3. Gathered'
  BY <1>1 DEF IndInv, Gathered, mirrorVars
<1>4. Probed'
  BY <1>1 DEF IndInv, Probed
<1>5. Reported'
  BY <1>1 DEF IndInv, Reported, MissingCounted, DisabledIsSaid
<1>. QED
  BY <1>1, <1>2, <1>3, <1>4, <1>5 DEF IndInv

LEMMA PointersStay == ASSUME ScanInv, pointers \subseteq Oids, ScanNext PROVE pointers' \subseteq Oids
<1>1. CASE CollectRefs
  BY <1>1 DEF CollectRefs
<1>2. CASE \E c \in queue : SkipCommit(c) \/ VisitCommit(c)
  BY <1>2 DEF SkipCommit, VisitCommit
<1>3. CASE \E t \in pending : WalkTree(t)
  <2>1. PICK t \in pending : WalkTree(t)
    BY <1>3
  <2>2. t \in Objects /\ Repository(repo)
    BY LfsScanAssumption DEF ScanInv, Kinds, OfKind
  <2>3. \A b \in repo.entries[t] : repo.pointer[b] \in Oids \cup {NotPointer}
    BY <2>2 DEF Repository
  <2>. QED
    BY <2>1, <2>3 DEF WalkTree, OfKind
<1>4. CASE ScanDone
  BY <1>4 DEF ScanDone
<1>5. CASE ScanFails
  BY <1>5 DEF ScanFails
<1>. QED
  BY <1>1, <1>2, <1>3, <1>4, <1>5 DEF ScanNext

LEMMA ScanKeeps == ASSUME IndInv, Scan PROVE IndInv'
<1>1. pc = "scan" /\ ScanNext /\ UNCHANGED <<pc, result, fetchVars>>
  BY DEF Scan
<1>2. UNCHANGED <<list, answers, candidates, store, next, total, failures, lost>>
  BY <1>1 DEF fetchVars, probeVars, sweepVars, historyVars
<1>3. ScanInv'
  BY <1>1, InvNext DEF IndInv
<1>4. FetchInv'
  BY <1>1, FetchStays DEF IndInv
<1>5. Gathered'
  BY <1>1, PointersStay DEF IndInv, Gathered
<1>6. Probed'
  BY <1>1, <1>2 DEF IndInv, Probed
<1>7. Reported'
  BY <1>1 DEF IndInv, Reported, MissingCounted, DisabledIsSaid
<1>. QED
  BY <1>3, <1>4, <1>5, <1>6, <1>7 DEF IndInv

LEMMA CancelKeeps == ASSUME IndInv, Cancel PROVE IndInv'
<1>1. pc # "done" /\ CancelScan /\ UNCHANGED <<mirrorVars, pc, result, fetchVars>>
  BY DEF Cancel, CancelScan
<1>2. UNCHANGED <<list, answers, candidates, store, next, total, failures, lost>>
  BY <1>1 DEF fetchVars, probeVars, sweepVars, historyVars
<1>3. ScanInv'
  BY <1>1, InvNext DEF IndInv
<1>4. FetchInv'
  BY <1>1, FetchStays DEF IndInv
<1>5. Gathered'
  BY <1>1, <1>2 DEF IndInv, Gathered, mirrorVars
<1>6. Probed'
  BY <1>1, <1>2 DEF IndInv, Probed
<1>7. Reported'
  BY <1>1 DEF IndInv, Reported, MissingCounted, DisabledIsSaid
<1>. QED
  BY <1>3, <1>4, <1>5, <1>6, <1>7 DEF IndInv

LEMMA ScannedKeeps == ASSUME IndInv, Scanned PROVE IndInv'
<1>1. UNCHANGED <<mirrorVars, answers, store, next, total, failures, lost>> /\ pc = "scan"
  BY DEF Scanned, scanVars, sweepVars, historyVars
<1>2. ScanInv'
  BY <1>1, InvRest DEF IndInv, mirrorVars
<1>3. FetchInv'
  BY ScannedStep DEF IndInv, Gathered
<1>4. next = 1 /\ answers = NoAnswers /\ result = "none" /\ pointers \subseteq Oids
  BY <1>1 DEF IndInv, FetchInv, Sweep, Probed, Reported, Gathered
<1>5. \/ pc' = "done" /\ result' = "error"
      \/ pc' = "done" /\ result' = "ok" /\ scan = "done" /\ skipped = {} /\ pointers = {}
      \/ /\ pc' = "probe" /\ result' = result /\ scan = "done" /\ skipped = {}
         /\ list' = SetToSeq(pointers)
         /\ candidates' \in {<<"configured">>, <<"derived", "configured">>}
  BY DEF Scanned, End
<1>6. Gathered'
  <2>1. ToSet(SetToSeq(pointers)) = pointers
    BY <1>4, LfsFetchAssumption, FS_Subset, SetListed
  <2>. QED
    BY <1>1, <1>4, <1>5, <2>1 DEF Gathered, mirrorVars
<1>7. Probed'
  <2>1. answers["configured"] = "none"
    BY <1>4 DEF NoAnswers
  <2>. QED
    BY <1>1, <1>4, <1>5, <2>1 DEF IndInv, Probed
<1>8. Reported'
  <2>1. pc' = "done" <=> result' # "none"
    BY <1>4, <1>5
  <2>2. result' = "ok" => scan' = "done" /\ skipped' = {} /\ pointers' \subseteq store'
    BY <1>1, <1>4, <1>5 DEF mirrorVars
  <2>3. result' \notin {"missing", "disabled"}
    BY <1>4, <1>5
  <2>4. ~(next' > 1)
    BY <1>1, <1>4
  <2>. QED
    BY <2>1, <2>2, <2>3, <2>4 DEF Reported, MissingCounted, DisabledIsSaid
<1>. QED
  BY <1>2, <1>3, <1>6, <1>7, <1>8 DEF IndInv

\* What the sweep reports: without a failure the whole list is settled.
LEMMA SweepDoneKeeps == ASSUME IndInv, SweepDone PROVE IndInv'
<1>1. /\ pc = "chunk" /\ pc' = "done"
      /\ UNCHANGED <<mirrorVars, cancelled, list, answers, store, next, total, failures, lost>>
  BY DEF SweepDone, End, scanVars, fetchVars, probeVars, sweepVars, historyVars
<1>2. ScanInv'
  BY <1>1, InvRest DEF IndInv, mirrorVars
<1>3. FetchInv'
  BY SweepDoneStep DEF IndInv
<1>4. Gathered' /\ Probed'
  BY <1>1 DEF IndInv, Gathered, Probed, mirrorVars
<1>5. scan = "done" /\ skipped = {} /\ ToSet(list) = pointers
  BY <1>1 DEF IndInv, Gathered
<1>6. /\ next > Len(list) \/ cancelled \/ failures = 2
      /\ result' = (IF failures > 0 \/ next <= Len(list) THEN "error"
                    ELSE IF total.unavailable + total.rejected > 0 THEN "missing" ELSE "ok")
  BY DEF SweepDone, End
<1>7. next \in Nat /\ failures \in Nat /\ Count(total) \in Nat /\ Len(list) \in Nat
  <2>1. next \in Nat /\ failures \in Nat /\ Len(list) \in Nat
    BY LenProperties DEF IndInv, FetchInv, FetchTypes
  <2>2. total \in Outcomes
    BY DEF IndInv, FetchInv, FetchTypes
  <2>. QED
    BY <2>1, <2>2 DEF Outcomes, Count
<1>8. ASSUME result' # "error"
      PROVE  /\ Count(total) = Cardinality(lost) /\ ToSet(list) \subseteq store \cup lost
             /\ lost \subseteq ToSet(list) /\ IsFiniteSet(lost)
             /\ result' = (IF Count(total) > 0 THEN "missing" ELSE "ok")
  <2>1. failures = 0 /\ next > Len(list)
    BY <1>6, <1>7, <1>8
  <2>2. Done = Len(list)
    BY <1>1, <1>7, <2>1 DEF Done, InCall, Smaller
  <2>3. Segment(1, Len(list)) = ToSet(list)
    BY DEF Segment, ToSet
  <2>4. /\ Count(total) = Cardinality(lost \cap ToSet(list))
        /\ ToSet(list) \subseteq store \cup lost /\ lost \subseteq ToSet(list)
    BY <2>1, <2>2, <2>3 DEF IndInv, FetchInv, Sweep
  <2>5. lost \cap ToSet(list) = lost /\ IsFiniteSet(lost)
    BY <2>4, LfsFetchAssumption, FS_Subset DEF IndInv, FetchInv, FetchTypes
  <2>6. result' = (IF Count(total) > 0 THEN "missing" ELSE "ok")
    BY <1>6, <1>8 DEF Count
  <2>. QED
    BY <2>4, <2>5, <2>6
<1>9. Reported'
  <2>1. result' \in {"ok", "missing", "error"}
    BY <1>6
  <2>2. result' = "ok" => pointers \subseteq store
    <3>1. ASSUME result' = "ok" PROVE lost = {}
      <4>1. Count(total) = 0
        BY <1>7, <1>8, <3>1
      <4>. QED
        BY <1>8, <3>1, <4>1, FS_EmptySet
    <3>. QED
      BY <1>5, <1>8, <3>1
  <2>3. result' = "missing" => Count(total) = Cardinality(lost) /\ ToSet(list) \ store \subseteq lost
    BY <1>8
  <2>. QED
    BY <1>1, <1>5, <1>6, <2>1, <2>2, <2>3 DEF Reported, MissingCounted, DisabledIsSaid, Count, mirrorVars
<1>. QED
  BY <1>2, <1>3, <1>4, <1>9 DEF IndInv

\* Of the configured root, asked last, the answer decides.
LEMMA ProbeKeeps == ASSUME IndInv, Probe PROVE IndInv'
<1>1. /\ pc = "probe" /\ candidates' = Tail(candidates)
      /\ UNCHANGED <<mirrorVars, cancelled, list, store, next, total, failures, lost>>
  BY DEF Probe, scanVars, sweepVars, historyVars
<1>2. PICK verdict :
        /\ verdict \in {"serves", "absent", "disabled", "failed"}
        /\ \/ verdict = "serves" /\ answers' = NoAnswers /\ pc' = "chunk" /\ result' = result
           \/ /\ verdict # "serves" /\ candidates' # <<>>
              /\ answers' = [answers EXCEPT ![Head(candidates)] = verdict] /\ pc' = pc /\ result' = result
           \/ /\ verdict # "serves" /\ candidates' = <<>>
              /\ answers' = [answers EXCEPT ![Head(candidates)] = verdict]
              /\ pc' = "done"
              /\ result' = (IF Decisive([answers EXCEPT ![Head(candidates)] = verdict]) = "failed"
                            THEN "error" ELSE "disabled")
  <2>1. \A status \in Statuses, html \in BOOLEAN :
           ProbeVerdict(status, html) \in {"serves", "absent", "disabled", "failed"}
    BY DEF ProbeVerdict
  <2>. QED
    BY <2>1, Zenon DEF Probe, End
<1>3. ScanInv'
  BY <1>1, InvRest DEF IndInv, mirrorVars
<1>4. FetchInv'
  BY ProbeStep DEF IndInv
<1>5. Gathered'
  BY <1>1, <1>2 DEF IndInv, Gathered, mirrorVars
<1>6. /\ answers \in [{"derived", "configured"} -> Verdicts] /\ answers["configured"] = "none"
      /\ candidates \in {<<"configured">>, <<"derived", "configured">>}
      /\ candidates # <<"configured">> => answers = NoAnswers
      /\ result = "none" /\ next = 1
  BY <1>1 DEF IndInv, Probed, Reported, FetchInv, Sweep
<1>7. NoAnswers \in [{"derived", "configured"} -> Verdicts]
  BY DEF NoAnswers, Verdicts
<1>8. CASE candidates = <<"derived", "configured">>
  <2>1. Head(candidates) = "derived" /\ candidates' = <<"configured">>
    BY <1>1, <1>8
  <2>2. \/ answers' = NoAnswers /\ pc' = "chunk" /\ result' = "none"
        \/ answers' = [answers EXCEPT !["derived"] = verdict] /\ pc' = "probe" /\ result' = "none"
    BY <1>1, <1>2, <1>6, <2>1
  <2>3. verdict \in Verdicts
    BY <1>2 DEF Verdicts
  <2>4. answers' \in [{"derived", "configured"} -> Verdicts] /\ (pc' = "probe" => answers'["configured"] = "none")
    BY <1>6, <1>7, <2>2, <2>3
  <2>5. Probed'
    BY <2>1, <2>2, <2>4 DEF Probed
  <2>6. Reported'
    BY <2>2 DEF Reported, MissingCounted, DisabledIsSaid
  <2>. QED
    BY <1>3, <1>4, <1>5, <2>5, <2>6 DEF IndInv
<1>9. CASE candidates = <<"configured">>
  <2>1. Head(candidates) = "configured" /\ candidates' = <<>>
    BY <1>1, <1>9
  <2>2. PICK said : said = [answers EXCEPT !["configured"] = verdict]
    OBVIOUS
  <2>3. \/ answers' = NoAnswers /\ pc' = "chunk" /\ result' = "none"
        \/ /\ answers' = said /\ pc' = "done" /\ verdict # "serves"
           /\ result' = (IF Decisive(said) = "failed" THEN "error" ELSE "disabled")
    BY <1>1, <1>2, <1>6, <2>1, <2>2
  <2>4. verdict \in Verdicts
    BY <1>2 DEF Verdicts
  <2>5. said \in [{"derived", "configured"} -> Verdicts] /\ said["configured"] = verdict
    BY <1>6, <2>2, <2>4
  <2>6. Probed'
    BY <1>7, <2>3, <2>5 DEF Probed
  <2>7. result' = "disabled" =>
           /\ answers' = said /\ said["configured"] \in {"disabled", "absent"}
           /\ said["configured"] = "absent" => said["derived"] # "failed"
    BY <1>2, <2>3, <2>5 DEF Decisive
  <2>8. Reported'
    <3>1. (pc' = "done" <=> result' # "none") /\ result' \notin {"ok", "missing"}
      BY <2>3
    <3>2. ~(next' > 1)
      BY <1>1, <1>6
    <3>. QED
      BY <2>7, <3>1, <3>2 DEF Reported, MissingCounted, DisabledIsSaid
  <2>. QED
    BY <1>3, <1>4, <1>5, <2>6, <2>8 DEF IndInv
<1>. QED
  BY <1>6, <1>8, <1>9

LEMMA IndInvInit == Init => IndInv
<1>. SUFFICES ASSUME Init PROVE IndInv
  OBVIOUS
<1>1. /\ pc = "scan" /\ result = "none" /\ answers = NoAnswers /\ pointers = {} /\ ScanInit
  BY DEF Init, ScanInit
<1>2. Probed
  BY <1>1 DEF Probed, NoAnswers, Verdicts
<1>3. Gathered /\ Reported
  BY <1>1 DEF Gathered, Reported, MissingCounted, DisabledIsSaid
<1>. QED
  BY <1>1, <1>2, <1>3, InvInit, FetchInitially DEF IndInv

LEMMA IndInvNext == IndInv /\ [Next]_vars => IndInv'
<1>. SUFFICES ASSUME IndInv, [Next]_vars PROVE IndInv'
  OBVIOUS
<1>1. CASE UNCHANGED vars
  <2>1. UNCHANGED <<scanVars, mirrorVars, cancelled, pc, result, fetchVars>>
    BY <1>1 DEF vars, scanVars
  <2>2. UNCHANGED <<list, answers, candidates, store, next, total, failures, lost>>
    BY <2>1 DEF fetchVars, probeVars, sweepVars, historyVars
  <2>3. ScanInv' /\ FetchInv'
    BY <2>1, InvNext, FetchStays DEF IndInv
  <2>4. Gathered' /\ Probed' /\ Reported'
    BY <2>1, <2>2 DEF IndInv, Gathered, Probed, Reported, MissingCounted, DisabledIsSaid, mirrorVars
  <2>. QED
    BY <2>3, <2>4 DEF IndInv
<1>2. CASE SweepStep
  BY <1>2, SweepStepKeeps
<1>3. CASE Scan
  BY <1>3, ScanKeeps
<1>4. CASE Scanned
  BY <1>4, ScannedKeeps
<1>5. CASE Probe
  BY <1>5, ProbeKeeps
<1>6. CASE SweepDone
  BY <1>6, SweepDoneKeeps
<1>7. CASE Cancel
  BY <1>7, CancelKeeps
<1>. QED
  BY <1>1, <1>2, <1>3, <1>4, <1>5, <1>6, <1>7 DEF Next, FetchStep, SweepStep

-----------------------------------------------------------------------------
\* The invariant holds throughout, for any repository, store and limit.
LEMMA Invariance == Spec => []IndInv
BY IndInvInit, IndInvNext, PTL DEF Spec

\* "A mirror missing LFS content is not a complete backup" (lfs.go:89-90): if FetchAll
\* returns nil, every object that a blob reached by the refs names is in the store, for
\* any repository, batch size and endpoint.  The scan has found them all, and a sweep
\* without a failure and without a missing object has stored each.
THEOREM NothingLeftOut == Spec => []MirrorComplete
<1>1. IndInv => MirrorComplete
  BY InvComplete DEF IndInv, Reported, MirrorComplete, ScanComplete
<1>. QED
  BY <1>1, Invariance, PTL

\* "%d of %d LFS objects could not be fetched" (lfs.go:206): the number is that of the
\* objects refused or lapsed, each once, though the counts of halves and chunks were added
\* up along any tree of splits.
THEOREM MissingIsExact == Spec => []MissingCounted
<1>1. IndInv => MissingCounted
  BY DEF IndInv, Reported
<1>. QED
  BY <1>1, Invariance, PTL

\* "Both halves are always tried, so a failure in one cannot cost the other its objects"
\* (lfs.go:257-258): whatever failed, no object of a chunk was passed over.
THEOREM AllAsked == Spec => []EveryObjectAsked
<1>1. IndInv => EveryObjectAsked
  <2>. SUFFICES ASSUME IndInv PROVE EveryObjectAsked
    OBVIOUS
  <2>1. next \in Nat /\ Len(list) \in Nat /\ DOMAIN list = 1 .. Len(list)
    BY LenProperties DEF IndInv, FetchInv, FetchTypes
  <2>2. ASSUME pc \in {"chunk", "done"}, NEW i \in DOMAIN list, i < next
        PROVE  list[i] \in accepted \cup lost \cup dropped
    <3>1. i \in 1 .. Done
      BY <2>1, <2>2 DEF Done, InCall, Smaller
    <3>2. list[i] \in Segment(1, Done)
      BY <3>1 DEF Segment
    <3>. QED
      BY <3>2 DEF IndInv, FetchInv, Sweep
  <2>. QED
    BY <2>2 DEF EveryObjectAsked, IndInv, Reported
<1>. QED
  BY <1>1, Invariance, PTL

\* "A refused sibling object is that object's fault rather than the endpoint's"
\* (lfs.go:307-309): fetchChunk returns a refusal for a chunk only if none of its objects
\* was answered for, at any depth of the narrowing.
THEOREM BlameIsFair == Spec => []BlamedOnlyIfSilent
<1>1. IndInv => BlamedOnlyIfSilent
  <2>. SUFFICES ASSUME IndInv, pc = "return", ret.err = "refused", calls = <<>>,
                       NEW i \in DOMAIN list, next - limit <= i, i < next
                PROVE  list[i] \notin accepted
    BY DEF BlamedOnlyIfSilent
  <2>1. next \in Nat /\ limit \in Nat /\ Len(list) \in Nat /\ DOMAIN list = 1 .. Len(list)
    BY LenProperties DEF IndInv, FetchInv, FetchTypes
  <2>2. Settled(ChunkLo, ChunkHi, ret.outcome, ret.err)
    BY DEF IndInv, FetchInv, Top, RetLo, RetHi
  <2>3. Segment(ChunkLo, ChunkHi) \cap accepted = {}
    BY <2>2 DEF Settled
  <2>4. i \in ChunkLo .. ChunkHi
    BY <2>1 DEF ChunkLo, ChunkHi, Smaller
  <2>. QED
    BY <2>3, <2>4 DEF Segment
<1>. QED
  BY <1>1, Invariance, PTL

\* ErrDisabled (git.go:199) is returned only if the root that the remote configures said
\* so or is absent, and then not over a failure of the guessed root.
THEOREM DisabledIsHeard == Spec => []DisabledIsSaid
<1>1. IndInv => DisabledIsSaid
  BY DEF IndInv, Reported
<1>. QED
  BY <1>1, Invariance, PTL

-----------------------------------------------------------------------------
(* The fetch can go on, and every step brings it nearer to its end.        *)

\* The guards of FetchStep: an endpoint may always fail to answer.
ScanReady ==
    \/ scan \in {"refs", "done", "failed"}
    \/ scan = "commits" /\ pending # {}
    \/ scan = "commits" /\ queue = {} /\ pending = {}
    \/ /\ scan = "commits" /\ pending = {}
       /\ \E c \in queue : \/ cancelled
                           \/ ~IsCommit(c)
                           \/ IsCommit(c) /\ Readable(repo.tree[c])
                           \/ IsCommit(c) /\ ~Readable(repo.tree[c])

FetchReady ==
    \/ pc = "scan" /\ ScanReady
    \/ pc = "probe" /\ candidates # <<>>
    \/ pc = "chunk"
    \/ pc \in {"ask", "download", "again"} /\ calls # <<>>
    \/ pc = "return" /\ (calls = <<>> \/ Current.stage \in Halves)

\* The scan visits no commit twice, and none but those of the refs and of the history.
ScanFresh ==
    /\ scan \in {"refs", "commits", "done", "failed"}
    /\ scan = "refs" => seenCommits = {}
    /\ queue \cap seenCommits = {}
    /\ queue \cup seenCommits \subseteq Objects \cup TipCommits

LEMMA FreshInit == ScanInit => ScanFresh
BY DEF ScanInit, ScanFresh

LEMMA FreshStep == ASSUME ScanInv, ScanFresh, ScanNext PROVE ScanFresh'
<1>0. repo' = repo /\ TipCommits' = TipCommits
  <2>1. repo' = repo
    BY DEF ScanNext, CollectRefs, SkipCommit, VisitCommit, WalkTree, ScanDone, ScanFails
  <2>. QED
    BY <2>1, RepositoryStays
<1>1. CASE CollectRefs
  BY <1>0, <1>1 DEF CollectRefs, ScanFresh
<1>2. ASSUME NEW c \in queue, SkipCommit(c) PROVE ScanFresh'
  BY <1>0, <1>2 DEF SkipCommit, ScanFresh
<1>3. ASSUME NEW c \in queue, VisitCommit(c) PROVE ScanFresh'
  <2>1. repo.parents[c] \subseteq Objects
    <3>1. Repository(repo)
      BY LfsScanAssumption DEF ScanInv, Kinds
    <3>2. c \in Objects
      BY <1>3, <3>1 DEF VisitCommit, IsCommit, Readable, Repository
    <3>. QED
      BY <3>1, <3>2 DEF Repository
  <2>2. /\ scan = "commits" /\ scan' = scan
        /\ seenCommits' = seenCommits \cup {c}
        /\ queue' = (queue \ {c}) \cup (repo.parents[c] \ seenCommits')
    BY <1>3 DEF VisitCommit
  <2>. QED
    BY <1>0, <2>1, <2>2 DEF ScanFresh
<1>4. ASSUME NEW t \in pending, WalkTree(t) PROVE ScanFresh'
  BY <1>0, <1>4 DEF WalkTree, ScanFresh
<1>5. CASE ScanDone \/ ScanFails
  BY <1>0, <1>5 DEF ScanDone, ScanFails, ScanFresh
<1>. QED
  BY <1>1, <1>2, <1>3, <1>4, <1>5 DEF ScanNext

LEMMA FreshStays == ASSUME ScanFresh, UNCHANGED mirrorVars PROVE ScanFresh'
<1>1. UNCHANGED <<repo, scan, queue, seenCommits>>
  BY DEF mirrorVars
<1>2. TipCommits' = TipCommits
  BY <1>1, RepositoryStays
<1>. QED
  BY <1>1, <1>2 DEF ScanFresh

LEMMA FreshNext == IndInv /\ ScanFresh /\ [Next]_vars => ScanFresh'
<1>. SUFFICES ASSUME IndInv, ScanFresh, [Next]_vars PROVE ScanFresh'
  OBVIOUS
<1>1. CASE Scan
  BY <1>1, FreshStep DEF Scan, IndInv
<1>2. CASE UNCHANGED vars
  BY <1>2, FreshStays DEF vars, scanVars
<1>3. CASE SweepStep
  BY <1>3, SweepSteps, FreshStays
<1>4. CASE Scanned \/ Probe \/ SweepDone \/ Cancel
  <2>1. UNCHANGED mirrorVars
    BY <1>4 DEF Scanned, Probe, SweepDone, Cancel, CancelScan, scanVars
  <2>. QED
    BY <2>1, FreshStays
<1>. QED
  BY <1>1, <1>2, <1>3, <1>4 DEF Next, FetchStep, SweepStep

LEMMA FreshInvariance == Spec => [](IndInv /\ ScanFresh)
<1>1. Init => ScanFresh
  BY FreshInit DEF Init
<1>. QED
  BY <1>1, IndInvInit, IndInvNext, FreshNext, PTL DEF Spec

LEMMA SomeStepIsReady == IndInv /\ ScanFresh => (pc # "done" => FetchReady)
<1>. SUFFICES ASSUME IndInv, ScanFresh, pc # "done" PROVE FetchReady
  OBVIOUS
<1>1. CASE pc = "scan"
  BY <1>1 DEF ScanFresh, FetchReady, ScanReady
<1>2. CASE pc = "probe"
  <2>1. candidates # <<>>
    BY <1>2 DEF IndInv, Probed
  <2>. QED
    BY <1>2, <2>1 DEF FetchReady
<1>3. CASE pc \in {"ask", "download", "again"}
  BY <1>3 DEF IndInv, FetchInv, Stack, FetchReady
<1>4. CASE pc = "return"
  BY <1>4, CurrentIs DEF IndInv, FetchReady
<1>5. CASE pc = "chunk"
  BY <1>5 DEF FetchReady
<1>. QED
  BY <1>1, <1>2, <1>3, <1>4, <1>5 DEF IndInv, FetchInv, FetchTypes

\* Until FetchAll returns, it can go on: a root is left to probe, a request is open while
\* one is asked for, and what fetchChunk returns to has asked for a half (lfs.go:262).
THEOREM FetchGoesOn == Spec => [](pc # "done" => FetchReady)
BY FreshInvariance, SomeStepIsReady, PTL

\* A step of the scan: it visits another commit, reads other trees, or is through with one;
\* or it ends.
Grows(set) == set \subseteq set' /\ set # set'

ScanAdvances ==
    \/ scan = "refs" /\ scan' # "refs"
    \/ scan = "commits" /\ scan' \in {"done", "failed"}
    \/ /\ scan = "commits" /\ scan' = "commits"
       /\ \/ Grows(seenCommits)
          \/ seenCommits' = seenCommits /\ Grows(seenTrees)
          \/ UNCHANGED <<seenCommits, seenTrees>> /\ pending' \subseteq pending /\ pending' # pending

LEMMA ScanGoesForward == ASSUME ScanInv, ScanFresh, ScanNext PROVE ScanAdvances
<1>1. CASE CollectRefs \/ ScanDone \/ ScanFails
  BY <1>1 DEF CollectRefs, ScanDone, ScanFails, ScanAdvances
<1>2. ASSUME NEW c \in queue, SkipCommit(c) \/ VisitCommit(c) PROVE ScanAdvances
  <2>1. c \notin seenCommits
    BY DEF ScanFresh
  <2>2. scan = "commits" /\ scan' = scan /\ seenCommits' = seenCommits \cup {c}
    BY <1>2 DEF SkipCommit, VisitCommit
  <2>. QED
    BY <2>1, <2>2 DEF ScanAdvances, Grows
<1>3. ASSUME NEW t \in pending, WalkTree(t) PROVE ScanAdvances
  <2>1. PICK subtrees : subtrees = OfKind(repo.entries[t], "tree") \ seenTrees
    OBVIOUS
  <2>2. /\ scan = "commits" /\ scan' = scan /\ seenCommits' = seenCommits
        /\ pending' = (pending \ {t}) \cup (subtrees \cap repo.readable)
        /\ seenTrees' = seenTrees \cup subtrees
    BY <1>3, <2>1 DEF WalkTree
  <2>3. CASE subtrees = {}
    BY <1>3, <2>2, <2>3 DEF ScanAdvances
  <2>4. CASE subtrees # {}
    BY <2>1, <2>2, <2>4 DEF ScanAdvances, Grows
  <2>. QED
    BY <2>3, <2>4
<1>. QED
  BY <1>1, <1>2, <1>3 DEF ScanNext

\* How many pointers are neither answered for nor failed.
Unsettled ==
    CASE pc \in {"probe", "chunk"}             -> IF next <= Len(list) THEN Len(list) - next + 1 ELSE 0
      [] pc \in {"ask", "download", "again"}   -> Len(list) - Current.lo + 1
      [] pc = "return"                         -> Len(list) - RetHi
      [] OTHER                                 -> 0

\* And how many steps may be taken before the next one is: what is left is to probe, to
\* return from the open calls, to begin the next request, and to narrow it.
StepsLeft ==
    CASE pc = "probe"    -> Len(list) + 5 + Len(candidates)
      [] pc = "return"   -> Len(list) + 5 + Len(calls)
      [] pc = "chunk"    -> Len(list) + 4
      [] pc = "ask"      -> Current.hi - Current.lo + 3
      [] pc = "download" -> 2
      [] pc = "again"    -> 1
      [] OTHER           -> 0

FetchAdvances ==
    \/ Unsettled' < Unsettled
    \/ Unsettled' = Unsettled /\ StepsLeft' < StepsLeft

FetchStepTaken ==
    \/ pc = "scan" /\ pc' = "scan" /\ ScanAdvances
    \/ pc = "scan" /\ pc' # "scan"
    \/ pc # "scan" /\ pc' # "scan" /\ FetchAdvances
    \/ ~cancelled /\ cancelled' /\ UNCHANGED <<mirrorVars, pc, Unsettled, StepsLeft>>

\* What the scan has visited and read is of the repository, and the rest is counted in
\* natural numbers.
FetchMeasured ==
    /\ seenCommits \subseteq Objects \cup TipCommits
    /\ pending \subseteq seenTrees /\ seenTrees \subseteq Objects
    /\ Unsettled \in Nat /\ StepsLeft \in Nat

\* The range of the call on top, in numbers.
LEMMA AtCall ==
    ASSUME FetchInv, calls # <<>>
    PROVE  /\ Len(calls) \in Nat /\ Len(calls) >= 1
           /\ \E lo, hi, n \in Nat : /\ lo = Current.lo /\ hi = Current.hi /\ n = Len(list)
                                     /\ 1 <= lo /\ lo <= hi /\ hi <= n
<1>1. /\ Len(calls) \in Nat /\ Len(calls) >= 1 /\ Current \in CallSet
      /\ ChunkLo \in Nat /\ 1 <= ChunkLo /\ ChunkLo <= Current.lo
      /\ Current.lo <= Current.hi /\ Current.hi <= ChunkHi /\ ChunkHi <= Len(list)
      /\ Len(list) \in Nat
  BY TopCall
<1>2. ChunkHi \in Int
  BY LenProperties DEF ChunkHi, FetchInv, FetchTypes, Smaller
<1>3. Current.lo \in Nat /\ Current.hi \in Nat
  BY <1>1 DEF CallSet
<1>4. 1 <= Current.lo /\ Current.lo <= Current.hi /\ Current.hi <= Len(list)
  BY <1>1, <1>2, <1>3
<1>. QED
  BY <1>1, <1>3, <1>4

\* How far a call reaches that has just returned.
LEMMA AtReturn ==
    ASSUME FetchInv, pc = "return"
    PROVE  /\ Len(calls) \in Nat
           /\ \E r, n \in Nat : r = RetHi /\ n = Len(list) /\ r <= n
<1>1. Len(calls) \in Nat /\ Len(list) \in Nat
  BY LenProperties DEF FetchInv, FetchTypes
<1>2. CASE calls = <<>>
  <2>1. RetHi = ChunkHi /\ 1 <= ChunkLo /\ ChunkLo <= ChunkHi
    BY <1>2 DEF RetHi, FetchInv, Stack, InCall
  <2>2. ChunkLo \in Int /\ ChunkHi \in Int /\ ChunkHi <= Len(list)
    BY <1>1 DEF FetchInv, FetchTypes, ChunkLo, ChunkHi, Smaller
  <2>3. ChunkHi \in Nat
    BY <2>1, <2>2
  <2>. QED
    BY <1>1, <2>1, <2>2, <2>3
<1>3. CASE calls # <<>>
  <2>1. PICK lo, hi, n \in Nat : lo = Current.lo /\ hi = Current.hi /\ n = Len(list) /\ hi <= n
    BY <1>3, AtCall
  <2>2. Current \in CallSet /\ Current.lo < Current.hi
    BY <1>3, CurrentIs
  <2>3. HalfHi(Current) \in Nat /\ HalfHi(Current) <= Current.hi
    BY <2>2, HalfInside
  <2>4. RetHi = HalfHi(Current)
    BY <1>3 DEF RetHi
  <2>5. HalfHi(Current) <= n
    BY <2>1, <2>3, UpTo
  <2>. QED
    BY <1>1, <2>1, <2>3, <2>4, <2>5
<1>. QED
  BY <1>2, <1>3

LEMMA MeasuredFetch == IndInv /\ ScanFresh => FetchMeasured
<1>. SUFFICES ASSUME IndInv, ScanFresh PROVE FetchMeasured
  OBVIOUS
<1>1. /\ seenCommits \subseteq Objects \cup TipCommits
      /\ pending \subseteq seenTrees /\ seenTrees \subseteq Objects
  BY DEF ScanFresh, IndInv, ScanInv, Kinds, OfKind
<1>2. PICK u, s : u = Unsettled /\ s = StepsLeft
  OBVIOUS
<1>3. CASE pc \in {"ask", "download", "again"}
  <2>1. calls # <<>>
    BY <1>3 DEF IndInv, FetchInv, Stack
  <2>2. PICK lo, hi, n \in Nat : /\ lo = Current.lo /\ hi = Current.hi /\ n = Len(list)
                                 /\ 1 <= lo /\ lo <= hi /\ hi <= n
    BY <2>1, AtCall DEF IndInv
  <2>3. u = n - lo + 1 /\ s \in {1, 2, hi - lo + 3}
    BY <1>2, <1>3, <2>2 DEF Unsettled, StepsLeft
  <2>4. n - lo + 1 \in Nat /\ hi - lo + 3 \in Nat
    BY <2>2
  <2>. QED
    BY <1>1, <1>2, <2>3, <2>4 DEF FetchMeasured
<1>4. CASE pc = "return"
  <2>1. PICK r, n \in Nat : r = RetHi /\ n = Len(list) /\ r <= n
    BY <1>4, AtReturn DEF IndInv
  <2>2. PICK d \in Nat : d = Len(calls)
    BY <1>4, AtReturn DEF IndInv
  <2>3. u = n - r /\ s = n + 5 + d
    BY <1>2, <1>4, <2>1, <2>2 DEF Unsettled, StepsLeft
  <2>4. n - r \in Nat /\ n + 5 + d \in Nat
    BY <2>1, <2>2
  <2>. QED
    BY <1>1, <1>2, <2>3, <2>4 DEF FetchMeasured
<1>5. CASE pc \in {"probe", "chunk"}
  <2>1. PICK n, a \in Nat : n = Len(list) /\ a = next
    BY LenProperties DEF IndInv, FetchInv, FetchTypes
  <2>2. pc = "probe" => Len(candidates) \in Nat
    BY DEF IndInv, Probed
  <2>3. u = IF a <= n THEN n - a + 1 ELSE 0
    BY <1>2, <1>5, <2>1 DEF Unsettled
  <2>4. u \in Nat
    BY <2>1, <2>3
  <2>5. s \in Nat
    <3>1. CASE pc = "probe"
      <4>1. PICK c \in Nat : c = Len(candidates)
        BY <2>2, <3>1
      <4>2. s = n + 5 + c
        BY <1>2, <2>1, <3>1, <4>1 DEF StepsLeft
      <4>. QED
        BY <2>1, <4>1, <4>2
    <3>2. CASE pc = "chunk"
      <4>1. s = n + 4
        BY <1>2, <2>1, <3>2 DEF StepsLeft
      <4>. QED
        BY <2>1, <4>1
    <3>. QED
      BY <1>5, <3>1, <3>2
  <2>. QED
    BY <1>1, <1>2, <2>4, <2>5 DEF FetchMeasured
<1>6. CASE pc \in {"scan", "done"}
  <2>1. u = 0 /\ s = 0
    BY <1>2, <1>6 DEF Unsettled, StepsLeft
  <2>. QED
    BY <1>1, <1>2, <2>1 DEF FetchMeasured
<1>. QED
  BY <1>3, <1>4, <1>5, <1>6 DEF IndInv, FetchInv, FetchTypes

\* A call that returns has settled its own range: what it returns to is at its end.
LEMMA ReturnsAtEnd ==
    ASSUME FetchInv, calls # <<>>, calls' = Front(calls), UNCHANGED <<list, limit, next>>
    PROVE  RetHi' = Current.hi /\ Len(calls') = Len(calls) - 1
<1>1. PICK n, t : n = Len(calls) /\ t = calls'
  OBVIOUS
<1>2. n \in Nat /\ n >= 1 /\ Current = calls[n]
  BY <1>1, TopCall
<1>3. t \in Seq(CallSet) /\ Len(t) = n - 1 /\ \A k \in 1 .. n - 1 : t[k] = calls[k]
  BY <1>1, Popped DEF FetchInv, FetchTypes
<1>4. ChunkHi' = ChunkHi
  BY DEF ChunkHi
<1>5. CASE n = 1
  <2>1. calls' = <<>>
    BY <1>1, <1>3, <1>5, EmptySeq
  <2>2. Frame(calls, 1)
    BY <1>1, <1>2, <1>5 DEF FetchInv, Stack
  <2>3. Current.hi = ChunkHi
    BY <1>2, <1>5, <2>2 DEF Frame
  <2>. QED
    BY <1>1, <1>3, <1>4, <2>1, <2>3 DEF RetHi
<1>6. CASE n >= 2
  <2>1. n - 1 \in 1 .. n - 1 /\ n - 1 < n /\ (n - 1) + 1 = n /\ n - 1 \in 1 .. n
    BY <1>2, <1>6
  <2>2. calls' # <<>> /\ Current' = calls[n - 1]
    BY <1>1, <1>3, <2>1, EmptySeq DEF Current, Last
  <2>3. Frame(calls, n - 1)
    BY <1>1, <2>1, Zenon DEF FetchInv, Stack
  <2>4. calls[n].hi = HalfHi(calls[n - 1])
    BY <1>1, <2>1, <2>3 DEF Frame
  <2>. QED
    BY <1>1, <1>2, <1>3, <2>2, <2>4 DEF RetHi
<1>. QED
  BY <1>2, <1>5, <1>6

\* The arithmetic of the measure.
LEMMA Numbers ==
    \A lo, hi, n \in Nat :
        1 <= lo /\ lo <= hi /\ hi <= n =>
            /\ n - hi < n - lo + 1
            /\ 2 < hi - lo + 3 /\ hi - lo + 3 < n + 4
            /\ \A d \in Nat : hi - lo + 3 < n + 5 + d
OBVIOUS

LEMMA HalfNumbers ==
    \A lo, hi, m \in Nat :
        lo + m <= hi =>
            /\ (lo + m - 1) - lo + 3 < hi - lo + 3
OBVIOUS

\* Any return from a request.
LEMMA RequestReturns ==
    ASSUME FetchInv, pc \in {"ask", "download", "again"}, NEW outcome, NEW err, Return(outcome, err),
           UNCHANGED <<list, limit, next>>
    PROVE  FetchAdvances
<1>1. calls # <<>>
  BY DEF FetchInv, Stack
<1>2. PICK lo, hi, n \in Nat : /\ lo = Current.lo /\ hi = Current.hi /\ n = Len(list)
                               /\ 1 <= lo /\ lo <= hi /\ hi <= n
  BY <1>1, AtCall
<1>3. pc' = "return" /\ RetHi' = hi /\ Len(list)' = n
  BY <1>1, <1>2, ReturnsAtEnd DEF Return
<1>4. Unsettled = n - lo + 1 /\ Unsettled' = n - hi
  BY <1>2, <1>3 DEF Unsettled
<1>5. n - hi < n - lo + 1
  BY <1>2, Numbers, Zenon
<1>. QED
  BY <1>4, <1>5 DEF FetchAdvances

\* What Current is after a call was halved.
LEMMA TopOfPushed ==
    ASSUME FetchInv, calls # <<>>, NEW c \in CallSet, NEW d \in CallSet, GoesOn(c, d)
    PROVE  Current' = d
<1>1. PICK t : t = calls'
  OBVIOUS
<1>2. Len(t) = Len(calls) + 1 /\ t[Len(calls) + 1] = d
  BY <1>1, Pushed DEF GoesOn, FetchInv, FetchTypes
<1>. QED
  BY <1>1, <1>2 DEF Current, Last

LEMMA RefusedGoesForward == ASSUME FetchInv, Refused PROVE FetchAdvances
<1>1. pc = "ask" /\ calls # <<>> /\ UNCHANGED <<list, limit, next>>
  BY DEF Refused, FetchInv, Stack, sweepVars
<1>2. CASE ~(Current.lo < Current.hi)
  <2>1. Return([NoOutcome EXCEPT !.rejected = 1], "refused")
    BY <1>2 DEF Refused
  <2>. QED
    BY <1>1, <2>1, RequestReturns
<1>3. CASE Current.lo < Current.hi
  <2>1. PICK lo, hi, n \in Nat : /\ lo = Current.lo /\ hi = Current.hi /\ n = Len(list)
                                 /\ 1 <= lo /\ lo <= hi /\ hi <= n
    BY <1>1, AtCall
  <2>2. PICK m \in Nat : m = Middle(Current) /\ lo < lo + m /\ lo + m <= hi
    BY <1>1, <1>3, <2>1, CurrentIs, MiddleInside
  <2>3. PICK c, d : /\ c = Split(Current, "first half", NoOutcome, "none")
                    /\ d = Call(Current.lo, Current.lo + Middle(Current) - 1)
    OBVIOUS
  <2>4. GoesOn(c, d) /\ pc' = "ask"
    <3>1. Current.lo # Current.hi
      BY <1>3, <2>1
    <3>. QED
      BY <1>1, <2>3, <3>1, Zenon DEF Refused, GoesOn
  <2>5. c \in CallSet
    <3>1. "first half" \in Halves /\ "none" \in Errors /\ NoOutcome \in Outcomes
      BY NoOutcomes DEF Halves, Errors
    <3>2. PICK call \in CallSet, stage \in Halves, outcome \in Outcomes, err \in Errors :
             call = Current /\ stage = "first half" /\ outcome = NoOutcome /\ err = "none"
      BY <1>1, <3>1, CurrentIs
    <3>3. c = Split(call, stage, outcome, err)
      BY <2>3, <3>2
    <3>. QED
      BY <3>3, SplitIs
  <2>6. lo + m - 1 \in Nat
    BY <2>2
  <2>7. d \in CallSet /\ d.lo = lo /\ d.hi = lo + m - 1
    BY <2>1, <2>2, <2>3, <2>6, CallIs
  <2>8. Current' = d
    BY <1>1, <2>4, <2>5, <2>7, TopOfPushed
  <2>9. Unsettled = n - lo + 1 /\ Unsettled' = n - lo + 1
    BY <1>1, <2>1, <2>4, <2>7, <2>8 DEF Unsettled
  <2>10. StepsLeft = hi - lo + 3 /\ StepsLeft' = (lo + m - 1) - lo + 3
    BY <1>1, <2>1, <2>4, <2>7, <2>8 DEF StepsLeft
  <2>11. (lo + m - 1) - lo + 3 < hi - lo + 3
    <3>1. lo + m <= hi
      BY <2>2
    <3>. QED
      BY <3>1, HalfNumbers, Zenon
  <2>. QED
    BY <2>9, <2>10, <2>11 DEF FetchAdvances
<1>. QED
  BY <1>2, <1>3

LEMMA FirstHalfGoesForward == ASSUME FetchInv, FirstHalfDone PROVE FetchAdvances
<1>1. /\ pc = "return" /\ pc' = "ask" /\ calls # <<>> /\ Current.stage = "first half"
      /\ list' = list
  BY DEF FirstHalfDone
<1>2. PICK lo, hi, n \in Nat : /\ lo = Current.lo /\ hi = Current.hi /\ n = Len(list)
                               /\ 1 <= lo /\ lo <= hi /\ hi <= n
  BY <1>1, AtCall
<1>3. Current \in CallSet /\ Current.lo < Current.hi
  BY <1>1, CurrentIs DEF Halves
<1>4. PICK m \in Nat : m = Middle(Current) /\ lo < lo + m /\ lo + m <= hi
  BY <1>2, <1>3, MiddleInside
<1>5. PICK c, d : /\ c = Split(Current, "second half", ret.outcome, ret.err)
                  /\ d = Call(Current.lo + Middle(Current), Current.hi)
  OBVIOUS
<1>6. GoesOn(c, d)
  BY <1>5, Zenon DEF FirstHalfDone, GoesOn
<1>7. c \in CallSet
  <2>1. "second half" \in Halves /\ ret.outcome \in Outcomes /\ ret.err \in Errors
    BY DEF Halves, FetchInv, FetchTypes
  <2>2. PICK call \in CallSet, stage \in Halves, outcome \in Outcomes, err \in Errors :
           call = Current /\ stage = "second half" /\ outcome = ret.outcome /\ err = ret.err
    BY <1>3, <2>1
  <2>3. c = Split(call, stage, outcome, err)
    BY <1>5, <2>2
  <2>. QED
    BY <2>3, SplitIs
<1>8. lo + m \in Nat
  BY <1>4
<1>9. d \in CallSet /\ d.lo = lo + m /\ d.hi = hi
  BY <1>2, <1>4, <1>5, <1>8, CallIs
<1>10. Current' = d
  BY <1>1, <1>6, <1>7, <1>9, TopOfPushed
<1>11. RetHi = lo + m - 1
  BY <1>1, <1>2, <1>4 DEF RetHi, HalfHi
<1>12. PICK k \in Nat : k = Len(calls)
  BY <1>1, AtCall
<1>13. Unsettled = n - (lo + m - 1) /\ Unsettled' = n - (lo + m) + 1
  BY <1>1, <1>2, <1>9, <1>10, <1>11 DEF Unsettled
<1>14. StepsLeft = n + 5 + k /\ StepsLeft' = hi - (lo + m) + 3
  BY <1>1, <1>2, <1>9, <1>10, <1>12 DEF StepsLeft
<1>15. n - (lo + m) + 1 = n - (lo + m - 1) /\ hi - (lo + m) + 3 < n + 5 + k
  <2>1. lo + m <= hi /\ hi <= n
    BY <1>2, <1>4
  <2>. QED
    BY <2>1
<1>. QED
  BY <1>13, <1>14, <1>15 DEF FetchAdvances

LEMMA SecondHalfGoesForward == ASSUME FetchInv, SecondHalfDone PROVE FetchAdvances
<1>1. /\ pc = "return" /\ pc' = "return" /\ calls # <<>> /\ Current.stage = "second half"
      /\ calls' = Front(calls) /\ UNCHANGED <<list, limit, next>>
  BY DEF SecondHalfDone, Return, sweepVars
<1>2. PICK lo, hi, n \in Nat : lo = Current.lo /\ hi = Current.hi /\ n = Len(list)
  BY <1>1, AtCall
<1>3. PICK k \in Nat : k = Len(calls) /\ k >= 1
  BY <1>1, AtCall
<1>4. RetHi' = hi /\ Len(calls') = k - 1
  BY <1>1, <1>2, <1>3, ReturnsAtEnd
<1>5. RetHi = hi
  BY <1>1, <1>2 DEF RetHi, HalfHi
<1>6. Unsettled = n - hi /\ Unsettled' = n - hi
  BY <1>1, <1>2, <1>4, <1>5 DEF Unsettled
<1>7. StepsLeft = n + 5 + k /\ StepsLeft' = n + 5 + (k - 1)
  BY <1>1, <1>2, <1>3, <1>4 DEF StepsLeft
<1>8. n + 5 + (k - 1) < n + 5 + k
  BY <1>2, <1>3
<1>. QED
  BY <1>6, <1>7, <1>8 DEF FetchAdvances

LEMMA RequestGoesForward ==
    ASSUME FetchInv, Scheduled \/ AskFails \/ Download \/ RescheduleFails \/ Reschedule
    PROVE  FetchAdvances
<1>1. pc \in {"ask", "download", "again"} /\ UNCHANGED <<list, limit, next>>
  BY DEF Scheduled, AskFails, Download, RescheduleFails, Reschedule, sweepVars
<1>2. calls # <<>>
  BY <1>1 DEF FetchInv, Stack
<1>3. PICK lo, hi, n \in Nat : /\ lo = Current.lo /\ hi = Current.hi /\ n = Len(list)
                               /\ 1 <= lo /\ lo <= hi /\ hi <= n
  BY <1>2, AtCall
<1>4. CASE Scheduled
  <2>1. pc = "ask" /\ pc' = "download" /\ Current' = Current
    BY <1>4 DEF Scheduled, callVars, Current
  <2>2. Unsettled' = Unsettled /\ StepsLeft = hi - lo + 3 /\ StepsLeft' = 2
    BY <1>1, <1>3, <2>1 DEF Unsettled, StepsLeft
  <2>3. 2 < hi - lo + 3
    BY <1>3, Numbers, Zenon
  <2>. QED
    BY <2>2, <2>3 DEF FetchAdvances
<1>5. CASE AskFails
  <2>1. Return(NoOutcome, "failed")
    BY <1>5 DEF AskFails
  <2>. QED
    BY <1>1, <2>1, RequestReturns
<1>6. CASE Download
  <2>1. PICK fate : \/ Settle(Cardinality(Having(fate, {"refused"})), 0,
                              Having(fate, {"broken", "unreached"}) # {})
                    \/ pc' = "again" /\ UNCHANGED callVars
    BY <1>6, Zenon DEF Download
  <2>2. CASE pc' = "again" /\ UNCHANGED callVars
    <3>1. pc = "download" /\ Current' = Current
      BY <1>6, <2>2 DEF Download, callVars, Current
    <3>2. Unsettled' = Unsettled /\ StepsLeft = 2 /\ StepsLeft' = 1
      BY <1>1, <2>2, <3>1 DEF Unsettled, StepsLeft
    <3>. QED
      BY <3>2 DEF FetchAdvances
  <2>3. CASE Settle(Cardinality(Having(fate, {"refused"})), 0,
                    Having(fate, {"broken", "unreached"}) # {})
    <3>1. \E outcome, err : Return(outcome, err)
      BY <2>3, Zenon DEF Settle
    <3>. QED
      BY <1>1, <3>1, RequestReturns
  <2>. QED
    BY <2>1, <2>2, <2>3
<1>7. CASE RescheduleFails
  <2>1. \E outcome, err : Return(outcome, err)
    BY <1>7, Zenon DEF RescheduleFails, Settle
  <2>. QED
    BY <1>1, <2>1, RequestReturns
<1>8. CASE Reschedule
  <2>1. \E outcome, err : Return(outcome, err)
    BY <1>8, Zenon DEF Reschedule, Settle
  <2>. QED
    BY <1>1, <2>1, RequestReturns
<1>. QED
  BY <1>4, <1>5, <1>6, <1>7, <1>8

LEMMA ChunksGoForward ==
    ASSUME FetchInv, NextChunk \/ ChunkDone \/ SweepDone
    PROVE  FetchAdvances
<1>1. PICK n, a, b \in Nat : n = Len(list) /\ a = next /\ b = limit /\ 1 <= a /\ 1 <= b
  BY LenProperties DEF FetchInv, FetchTypes
<1>2. list' = list
  BY DEF NextChunk, ChunkDone, SweepDone, fetchVars
<1>3. CASE NextChunk
  <2>1. PICK hi \in Nat : hi = Smaller(next + limit - 1, Len(list)) /\ a <= hi /\ hi <= n
    <3>1. a <= n
      BY <1>1, <1>3 DEF NextChunk
    <3>2. a + b - 1 \in Nat /\ a <= a + b - 1
      BY <1>1
    <3>. QED
      BY <1>1, <3>1, <3>2 DEF Smaller
  <2>2. PICK c : c = Call(a, hi) /\ c.lo = a /\ c.hi = hi
    BY CallIs
  <2>3. pc = "chunk" /\ pc' = "ask" /\ calls' = <<c>>
    BY <1>1, <1>3, <2>1, <2>2 DEF NextChunk
  <2>4. Current' = c
    BY <2>3 DEF Current, Last
  <2>5. a <= n
    BY <1>1, <1>3 DEF NextChunk
  <2>6. Unsettled = n - a + 1 /\ Unsettled' = n - a + 1
    BY <1>1, <1>2, <2>2, <2>3, <2>4, <2>5 DEF Unsettled
  <2>7. StepsLeft = n + 4 /\ StepsLeft' = hi - a + 3
    BY <1>1, <2>2, <2>3, <2>4 DEF StepsLeft
  <2>8. hi - a + 3 < n + 4
    BY <1>1, <2>1, Numbers, Zenon
  <2>. QED
    BY <2>6, <2>7, <2>8 DEF FetchAdvances
<1>4. CASE ChunkDone
  <2>1. /\ pc = "return" /\ calls = <<>> /\ pc' = "chunk" /\ next' = next
    BY <1>4 DEF ChunkDone
  <2>2. RetHi = IF a - 1 < n THEN a - 1 ELSE n
    BY <1>1, <2>1 DEF RetHi, ChunkHi, Smaller
  <2>3. Unsettled = n - (IF a - 1 < n THEN a - 1 ELSE n)
    BY <1>1, <2>1, <2>2 DEF Unsettled
  <2>4. Unsettled' = IF a <= n THEN n - a + 1 ELSE 0
    BY <1>1, <1>2, <2>1 DEF Unsettled
  <2>5. Unsettled' = Unsettled
    <3>1. \A x, y \in Nat : (IF x <= y THEN y - x + 1 ELSE 0) = y - (IF x - 1 < y THEN x - 1 ELSE y)
      OBVIOUS
    <3>. QED
      BY <2>3, <2>4, <3>1, Zenon
  <2>6. StepsLeft = n + 5 + 0 /\ StepsLeft' = n + 4
    BY <1>1, <1>2, <2>1 DEF StepsLeft
  <2>7. n + 4 < n + 5 + 0
    BY <1>1
  <2>. QED
    BY <2>5, <2>6, <2>7 DEF FetchAdvances
<1>5. CASE SweepDone
  <2>1. pc = "chunk" /\ pc' = "done"
    BY <1>5 DEF SweepDone, End
  <2>2. Unsettled' = 0 /\ StepsLeft' = 0 /\ StepsLeft = n + 4
    BY <1>1, <2>1 DEF Unsettled, StepsLeft
  <2>3. Unsettled = IF a <= n THEN n - a + 1 ELSE 0
    BY <1>1, <2>1 DEF Unsettled
  <2>4. Unsettled = 0 \/ 0 < Unsettled
    BY <1>1, <2>3
  <2>5. 0 < n + 4
    BY <1>1
  <2>. QED
    BY <2>2, <2>4, <2>5 DEF FetchAdvances
<1>. QED
  BY <1>3, <1>4, <1>5

LEMMA ProbeGoesForward == ASSUME IndInv, Probe PROVE FetchAdvances
<1>1. PICK n, a \in Nat : n = Len(list) /\ a = next
  BY LenProperties DEF IndInv, FetchInv, FetchTypes
<1>2. /\ pc = "probe" /\ pc' \in {"probe", "chunk", "done"}
      /\ UNCHANGED <<list, next>> /\ candidates' = Tail(candidates)
  BY DEF Probe, End, sweepVars
<1>3. PICK u \in Nat : u = Unsettled /\ u = IF a <= n THEN n - a + 1 ELSE 0
  BY <1>1, <1>2 DEF Unsettled
<1>4. PICK k \in Nat : k = Len(candidates) /\ k >= 1 /\ Len(candidates') = k - 1
  BY <1>2 DEF IndInv, Probed
<1>5. StepsLeft = n + 5 + k
  BY <1>1, <1>2, <1>4 DEF StepsLeft
<1>6. CASE pc' \in {"probe", "chunk"}
  <2>1. Unsettled' = u
    BY <1>1, <1>2, <1>3, <1>6 DEF Unsettled
  <2>2. StepsLeft' \in {n + 5 + (k - 1), n + 4}
    BY <1>1, <1>2, <1>4, <1>6 DEF StepsLeft
  <2>3. n + 5 + (k - 1) < n + 5 + k /\ n + 4 < n + 5 + k
    BY <1>1, <1>4
  <2>. QED
    BY <1>3, <1>5, <2>1, <2>2, <2>3 DEF FetchAdvances
<1>7. CASE pc' = "done"
  <2>1. Unsettled' = 0 /\ StepsLeft' = 0
    BY <1>7 DEF Unsettled, StepsLeft
  <2>2. 0 < n + 5 + k /\ (u = 0 \/ 0 < u)
    BY <1>1, <1>3, <1>4
  <2>. QED
    BY <1>3, <1>5, <2>1, <2>2 DEF FetchAdvances
<1>. QED
  BY <1>2, <1>6, <1>7

LEMMA FetchGoesForward == IndInv /\ ScanFresh /\ [Next]_vars => [FetchStepTaken]_vars
<1>. SUFFICES ASSUME IndInv, ScanFresh, Next PROVE FetchStepTaken
  OBVIOUS
<1>0. FetchInv
  BY DEF IndInv
<1>1. CASE Scan
  <2>1. pc = "scan" /\ pc' = "scan" /\ ScanAdvances
    BY <1>1, ScanGoesForward DEF Scan, IndInv
  <2>. QED
    BY <2>1 DEF FetchStepTaken
<1>2. CASE Scanned
  BY <1>2 DEF Scanned, End, FetchStepTaken
<1>3. CASE Probe
  <2>1. pc # "scan" /\ pc' # "scan"
    BY <1>3 DEF Probe, End
  <2>. QED
    BY <1>3, <2>1, ProbeGoesForward DEF FetchStepTaken
<1>4. CASE SweepStep
  <2>1. pc # "scan" /\ pc' # "scan"
    BY <1>4, SweepSteps
  <2>2. FetchAdvances
    BY <1>0, <1>4, RequestGoesForward, ChunksGoForward, RefusedGoesForward, FirstHalfGoesForward,
       SecondHalfGoesForward DEF SweepStep
  <2>. QED
    BY <2>1, <2>2 DEF FetchStepTaken
<1>5. CASE SweepDone
  <2>1. pc # "scan" /\ pc' # "scan"
    BY <1>5 DEF SweepDone, End
  <2>. QED
    BY <1>0, <1>5, <2>1, ChunksGoForward DEF FetchStepTaken
<1>6. CASE Cancel
  <2>1. ~cancelled /\ cancelled' /\ UNCHANGED <<mirrorVars, pc, list, next, limit, calls, candidates>>
    BY <1>6 DEF Cancel, CancelScan, fetchVars, sweepVars, callVars, probeVars
  <2>2. Current' = Current /\ RetHi' = RetHi
    BY <2>1 DEF Current, RetHi, HalfHi, ChunkHi
  <2>3. UNCHANGED <<Unsettled, StepsLeft>>
    BY <2>1, <2>2 DEF Unsettled, StepsLeft
  <2>. QED
    BY <2>1, <2>3 DEF FetchStepTaken
<1>. QED
  BY <1>1, <1>2, <1>3, <1>4, <1>5, <1>6 DEF Next, FetchStep, SweepStep

\* What FetchEnds says without fairness: every step uses up some of what is left.  The scan
\* visits a commit or reads a tree it has not been at, or is through with one; from then on
\* fewer pointers are unsettled, or as many and fewer steps remain until one is, however
\* requests are refused and halved (lfs.go:256), URLs lapse and chunks fail.
THEOREM FetchRunsOut == Spec => /\ []FetchMeasured
                                /\ [][FetchStepTaken]_vars
BY FreshInvariance, MeasuredFetch, FetchGoesForward, PTL DEF Spec
=============================================================================
