------------------------------- MODULE LfsScan -------------------------------
(***************************************************************************)
(* The scan of a mirror for Git LFS pointers: collectPointers and scanTree *)
(* of internal/lfs/scan.go.                                                *)
(*                                                                         *)
(* The refs name commits, possibly through annotated tags; every commit    *)
(* reached has its tree walked; every blob of a tree that holds a pointer  *)
(* gives an LFS object to fetch.  Commits, trees and blobs are looked at   *)
(* once, over all refs, and any object of a mirror may be unreadable.      *)
(*                                                                         *)
(* The two stacks of the code are sets: in which order commits and trees   *)
(* are visited is left open.  Whether a blob is small and parses as a      *)
(* pointer is part of the repository (pointer).                            *)
(***************************************************************************)
EXTENDS FiniteSets

CONSTANTS Objects,      \* Git objects, named by their hashes
          Oids,         \* LFS objects
          Repositories  \* what a mirror may look like

Zero       == "zero"          \* plumbing.ZeroHash
NotPointer == "not a pointer"

Repository(r) ==
    /\ r.kind \in [Objects -> {"commit", "tag", "tree", "blob"}]
    /\ r.readable \subseteq Objects
    /\ r.tips \subseteq Objects             \* refs, neither symbolic nor of a remote
    /\ r.target \in [Objects -> Objects]    \* of a tag
    /\ r.tree \in [Objects -> Objects]      \* root tree of a commit
    /\ r.parents \in [Objects -> SUBSET Objects]
    /\ \A o \in Objects : r.kind[o] = "commit" =>
          r.kind[r.tree[o]] = "tree" /\ \A p \in r.parents[o] : r.kind[p] = "commit"
    /\ r.entries \in [Objects -> SUBSET Objects]  \* subtrees and files of a tree
    /\ r.pointer \in [Objects -> Oids \cup {NotPointer}]

ASSUME LfsScanAssumption ==
    /\ Zero \notin Objects
    /\ NotPointer \notin Oids
    /\ \A r \in Repositories : Repository(r)

VARIABLES repo,
          scan,         \* "refs", "commits", "done" or "failed"
          queue, seenCommits,
          pending,      \* trees read and still to be walked
          seenTrees, seenBlobs,
          skipped,      \* what could not be read, and is reported
          pointers,     \* the LFS objects found
          cancelled     \* ctx

mirrorVars == <<repo, scan, queue, seenCommits, pending, seenTrees, seenBlobs, skipped, pointers>>
scanVars == <<mirrorVars, cancelled>>

Readable(o) == o \in repo.readable
IsCommit(o) == Readable(o) /\ repo.kind[o] = "commit"
OfKind(objects, kind) == {o \in objects : repo.kind[o] = kind}

\* peelToCommitHash: the commit a ref designates, through any number of tags.
PeelToCommitHash[o \in Objects] ==
    IF IsCommit(o) THEN o
    ELSE IF ~(Readable(o) /\ repo.kind[o] = "tag") THEN Zero
    ELSE IF repo.kind[repo.target[o]] = "commit" THEN repo.target[o]
    ELSE IF repo.kind[repo.target[o]] = "tag" THEN PeelToCommitHash[repo.target[o]]
    ELSE Zero

TipCommits == {PeelToCommitHash[o] : o \in repo.tips} \ {Zero}

ScanInit ==
    /\ repo \in Repositories
    /\ scan = "refs"
    /\ queue = {} /\ seenCommits = {}
    /\ pending = {} /\ seenTrees = {} /\ seenBlobs = {}
    /\ skipped = {} /\ pointers = {}
    /\ cancelled = FALSE

CollectRefs ==
    /\ scan = "refs"
    /\ cancelled => repo.tips = {}
    /\ queue' = TipCommits
    /\ scan' = "commits"
    /\ UNCHANGED <<repo, seenCommits, pending, seenTrees, seenBlobs, skipped, pointers, cancelled>>

\* What cannot be read as a commit is passed over without a word.
SkipCommit(c) ==
    /\ scan = "commits" /\ pending = {} /\ ~cancelled
    /\ c \in queue
    /\ ~IsCommit(c)
    /\ queue' = queue \ {c}
    /\ seenCommits' = seenCommits \cup {c}
    /\ UNCHANGED <<repo, scan, pending, seenTrees, seenBlobs, skipped, pointers, cancelled>>

\* Mutant: the parents are left out, as if the tips were all there is.
VisitTipOnly(c) ==
    /\ scan = "commits" /\ pending = {} /\ ~cancelled
    /\ c \in queue
    /\ IsCommit(c) /\ Readable(repo.tree[c])
    /\ queue' = queue \ {c}
    /\ seenCommits' = seenCommits \cup {c}
    /\ pending' = {repo.tree[c]}
    /\ seenTrees' = seenTrees \cup {repo.tree[c]}
    /\ UNCHANGED <<repo, scan, seenBlobs, skipped, pointers, cancelled>>

\* The root tree is walked even if it was seen as a subtree before.
VisitCommit(c) ==
    /\ scan = "commits" /\ pending = {} /\ ~cancelled
    /\ c \in queue
    /\ IsCommit(c) /\ Readable(repo.tree[c])
    /\ seenCommits' = seenCommits \cup {c}
    /\ queue' = (queue \ {c}) \cup (repo.parents[c] \ seenCommits')
    /\ pending' = {repo.tree[c]}
    /\ seenTrees' = seenTrees \cup {repo.tree[c]}
    /\ UNCHANGED <<repo, scan, seenBlobs, skipped, pointers, cancelled>>

\* scanTree, one tree: its new subtrees are read, its new blobs looked into.
WalkTree(t) ==
    LET subtrees == OfKind(repo.entries[t], "tree") \ seenTrees
        blobs    == OfKind(repo.entries[t], "blob") \ seenBlobs
        found    == {repo.pointer[b] : b \in blobs \cap repo.readable} \ {NotPointer}
    IN /\ scan = "commits"
       /\ t \in pending
       /\ pending' = (pending \ {t}) \cup (subtrees \cap repo.readable)
       /\ seenTrees' = seenTrees \cup subtrees
       /\ seenBlobs' = seenBlobs \cup blobs
       /\ skipped' = skipped \cup ((subtrees \cup blobs) \ repo.readable)
       /\ pointers' = pointers \cup found
       /\ UNCHANGED <<repo, scan, queue, seenCommits, cancelled>>

ScanDone ==
    /\ scan = "commits" /\ queue = {} /\ pending = {}
    /\ scan' = "done"
    /\ UNCHANGED <<repo, queue, seenCommits, pending, seenTrees, seenBlobs, skipped, pointers, cancelled>>

\* The refs cannot be listed; ctx is found cancelled; a root tree cannot be read.
ScanFails ==
    /\ \/ scan = "refs"
       \/ /\ scan = "commits" /\ pending = {}
          /\ \E c \in queue : cancelled \/ (IsCommit(c) /\ ~Readable(repo.tree[c]))
    /\ scan' = "failed"
    /\ UNCHANGED <<repo, queue, seenCommits, pending, seenTrees, seenBlobs, skipped, pointers, cancelled>>

\* ctx is cancelled, at any moment.
CancelScan ==
    /\ ~cancelled
    /\ cancelled' = TRUE
    /\ UNCHANGED mirrorVars

ScanNext ==
    \/ CollectRefs
    \/ \E c \in queue : SkipCommit(c) \/ VisitCommit(c)
    \/ \E t \in pending : WalkTree(t)
    \/ ScanDone
    \/ ScanFails

ScanSpec == ScanInit /\ [][ScanNext \/ CancelScan]_scanVars

-----------------------------------------------------------------------------
(* What there is to find, said without the algorithm: the objects in every *)
(* set that holds the commits of the refs and, with a readable object, all *)
(* that it names.  What lies behind an unreadable commit is not in it.     *)

Names(o) ==
    IF repo.kind[o] = "commit" THEN repo.parents[o] \cup {repo.tree[o]}
    ELSE IF repo.kind[o] = "tree"
         THEN OfKind(repo.entries[o], "tree") \cup OfKind(repo.entries[o], "blob")
         ELSE {}

Closed(set) ==
    /\ TipCommits \cap OfKind(Objects, "commit") \subseteq set
    /\ \A o \in set \cap repo.readable : Names(o) \subseteq set

Reachable == {o \in Objects : \A set \in SUBSET Objects : Closed(set) => o \in set}

ReachablePointers ==
    {repo.pointer[b] : b \in OfKind(Reachable, "blob")} \ {NotPointer}

\* "A backup reported as complete while content it could not scan is silently absent
\* is worse than one that reports what it could not do" (lfs.go:114-116): a scan that
\* ends without an error and without skipped entries has found the pointer of every
\* blob that the refs reach, however commits share trees and trees share blobs.
ScanComplete == scan = "done" /\ skipped = {} => ReachablePointers \subseteq pointers
=============================================================================
