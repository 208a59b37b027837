----------------------------- MODULE Discovery -----------------------------
(***************************************************************************)
(* ListRepositories of the three forges (internal/forge/github.go,         *)
(* gitlab.go, forgejo.go): which walks a job asks for, the walks, one      *)
(* goroutine each, over the pages of a listing, the retries of a page, and *)
(* mergeDiscoveryWalks, which waits for all of them (client.go).           *)
(*                                                                         *)
(* The backup removes the local mirror of every repository that a          *)
(* discovery without error does not return, and backs up the metadata of   *)
(* those it returns as owned: hence the properties.                        *)
(*                                                                         *)
(* Abstracted: a repository, gist or snippet is its clone URL; delays, and *)
(* with them Retry-After; the JSON of a page, but for items that have no   *)
(* clone URL.  A forge may keep a request open for ever: the client has no *)
(* timeout.                                                                *)
(***************************************************************************)
EXTENDS Naturals, Sequences, FiniteSets, SequencesExt

CONSTANTS Urls,         \* what the forge lists
          Nameless,     \* those whose item has no clone URL or no id
          Newcomers,    \* bound: what may be added to a listing meanwhile
          Upstreams,    \* the listings to begin with: sequences of Urls by endpoint
          PageSize,     \* the page size the client asks for
          Served,       \* the page size each forge grants
          ProviderMaxAttempts,  \* providerMaxAttempts
          MaxChanges    \* bound: changes to the listings

Providers == {"github", "gitlab", "forgejo"}

\* The endpoints, in the order the walks are appended in.
Endpoints == <<"owned", "starred", "snippets", "starredGists">>
Walks     == Range(Endpoints)

\* A full page is all that GitHub's and Forgejo's clients take for a sign of
\* another: the forge must grant the size they ask for.
ASSUME DiscoveryAssumption ==
    /\ Nameless \subseteq Urls /\ Newcomers \subseteq Urls
    /\ \A u \in Upstreams : u \in [Walks -> Seq(Urls)]
    /\ ProviderMaxAttempts \in Nat \ {0} /\ MaxChanges \in Nat
    /\ PageSize \in Nat \ {0} /\ Served \in [Providers -> 1..PageSize]
    /\ \A p \in Providers \ {"gitlab"} : Served[p] = PageSize

VARIABLES
    job,        \* provider and options of the job, and whether it has an API key
    listing,    \* what each endpoint lists, in order
    changes,    \* changes made to the listings so far
    throughout, \* history: what each endpoint has listed since the start
    shifted,    \* history: the endpoints where an entry of a page already read was removed
    cancelled,  \* ctx
    walk,       \* the goroutines: position, page, attempt and the items so far
    result      \* what ListRepositories has returned

discoveryVars == <<job, listing, changes, throughout, shifted, cancelled, walk, result>>
upstreamVars == <<listing, changes, throughout, shifted>>

Wanted ==
    {w \in Walks :
        /\ w \in {"starred", "starredGists"} => job.starred
        /\ w \in {"snippets", "starredGists"} => job.snippets /\ job.provider # "forgejo"
        /\ w = "starredGists" => job.provider = "github"}

Asking  == [at |-> "asking", page |-> 1, attempt |-> 1, items |-> <<>>]
Running == [said |-> "nothing yet", list |-> {}]

DiscoveryInit ==
    /\ job \in [provider : Providers, key : BOOLEAN, starred : BOOLEAN, snippets : BOOLEAN]
    /\ listing \in Upstreams
    /\ changes = 0
    /\ throughout = [w \in Walks |-> Range(listing[w])]
    /\ shifted = {}
    /\ cancelled = FALSE
    /\ walk = [w \in Walks |-> Asking]
    /\ result = Running

-----------------------------------------------------------------------------
(* The world: users of the forge, and main's signal handler; what they do  *)
(* to a listing that is not walked, or not any more, is left out.          *)

Live(w) == job.key /\ w \in Wanted /\ result = Running

\* How far the pages read so far reach.
Fetched(w) == (walk[w].page - 1) * Served[job.provider]

\* A listing is sorted by the forge: a new entry may come anywhere in it.
Walked(w) == Live(w) /\ walk[w].at \in {"asking", "waiting"}

Add(w) ==
    /\ Walked(w) /\ changes < MaxChanges /\ changes' = changes + 1
    /\ \E u \in Newcomers \ Range(listing[w]), i \in 1..(Len(listing[w]) + 1) :
           listing' = [listing EXCEPT ![w] = InsertAt(@, i, u)]
    /\ UNCHANGED <<job, throughout, shifted, cancelled, walk, result>>

Withdraw(w) ==
    /\ Walked(w) /\ changes < MaxChanges /\ changes' = changes + 1
    /\ \E i \in DOMAIN listing[w] :
           /\ listing' = [listing EXCEPT ![w] = RemoveAt(@, i)]
           /\ throughout' = [throughout EXCEPT ![w] = @ \ {listing[w][i]}]
           /\ shifted' = IF i <= Fetched(w) THEN shifted \cup {w} ELSE shifted
    /\ UNCHANGED <<job, cancelled, walk, result>>

Cancel ==
    /\ ~cancelled /\ result = Running
    /\ cancelled' = TRUE
    /\ UNCHANGED <<job, upstreamVars, walk, result>>

-----------------------------------------------------------------------------
(* One walk: collect, fetchPage and get. *)

Becomes(w, state) ==
    /\ walk' = [walk EXCEPT ![w] = state]
    /\ UNCHANGED <<job, upstreamVars, cancelled, result>>

\* collect returns no items with an error.
Fails(w) == Becomes(w, [Asking EXCEPT !.at = "failed"])

OnPage(w, p) ==
    LET size == Served[job.provider]
        last == p * size
    IN  SubSeq(listing[w], last - size + 1, IF last < Len(listing[w]) THEN last ELSE Len(listing[w]))

\* pageIsFull of GitHub and Forgejo; GitLab says which page is next.
HasNext(w, p) ==
    IF job.provider = "gitlab" THEN p * Served["gitlab"] < Len(listing[w])
                               ELSE Len(OnPage(w, p)) >= PageSize

Page(w) ==
    /\ Live(w) /\ walk[w].at = "asking" /\ ~cancelled
    /\ LET items == walk[w].items \o OnPage(w, walk[w].page)
       IN IF HasNext(w, walk[w].page)
          THEN Becomes(w, [at |-> "asking", page |-> walk[w].page + 1, attempt |-> 1, items |-> items])
          ELSE Becomes(w, [walk[w] EXCEPT !.at = "done", !.page = 1, !.attempt = 1, !.items = items])

\* The transport, the status (none that is retried), the body or ctx fails.
RequestFails(w) ==
    /\ Live(w) /\ walk[w].at = "asking"
    /\ Fails(w)

\* 429 or 5xx; after the last attempt it is the answer, and a failure.
Busy(w) ==
    /\ Live(w) /\ walk[w].at = "asking" /\ ~cancelled
    /\ IF walk[w].attempt < ProviderMaxAttempts THEN Becomes(w, [walk[w] EXCEPT !.at = "waiting"])
                                        ELSE Fails(w)

\* Mutant: the attempts are not counted.
WaitOverUncounted(w) ==
    /\ Live(w) /\ walk[w].at = "waiting"
    /\ Becomes(w, [walk[w] EXCEPT !.at = "asking"])

WaitOver(w) ==
    /\ Live(w) /\ walk[w].at = "waiting"
    /\ Becomes(w, [walk[w] EXCEPT !.at = "asking", !.attempt = @ + 1])

WaitCancelled(w) ==
    /\ Live(w) /\ walk[w].at = "waiting" /\ cancelled
    /\ Fails(w)

\* The forge keeps the connection and answers nothing; only ctx ends that.
Hang(w) ==
    /\ Live(w) /\ walk[w].at = "asking" /\ ~cancelled
    /\ Becomes(w, [walk[w] EXCEPT !.at = "hung"])

HangCancelled(w) ==
    /\ Live(w) /\ walk[w].at = "hung" /\ cancelled
    /\ Fails(w)

WalkStep(w) ==
    \/ Page(w)
    \/ RequestFails(w)
    \/ Busy(w)
    \/ WaitOver(w)
    \/ WaitCancelled(w)
    \/ Hang(w)
    \/ HangCancelled(w)

-----------------------------------------------------------------------------
(* mergeDiscoveryWalks. *)

Answer(said, list) ==
    /\ result' = [said |-> said, list |-> list]
    /\ UNCHANGED <<job, upstreamVars, cancelled, walk>>

\* No API key: an empty list, and no error.
NoKey ==
    /\ ~job.key /\ result = Running
    /\ Answer("list", {})

\* What the i-th walk of those asked for has brought, and what is said of it.
Discovered(i) ==
    IF Endpoints[i] \in Wanted THEN Range(walk[Endpoints[i]].items) \ Nameless ELSE {}

Entries(i, urls) == {[url |-> u, starred |-> Endpoints[i] = "starred"] : u \in urls}

\* Mutant: the entry of a later walk replaces that of an earlier one.
LastOccurrences ==
    UNION {Entries(i, Discovered(i) \ UNION {Discovered(j) : j \in (i + 1)..Len(Endpoints)}) :
              i \in DOMAIN Endpoints}

FirstOccurrences ==
    UNION {Entries(i, Discovered(i) \ UNION {Discovered(j) : j \in 1..(i - 1)}) :
              i \in DOMAIN Endpoints}

AllEnded == \A w \in Wanted : walk[w].at \in {"done", "failed"}

\* Mutant: a walk that failed is left out of the list.
MergeWhatCame ==
    /\ job.key /\ result = Running /\ AllEnded
    /\ Answer("list", FirstOccurrences)

\* wg.Wait, then the first error if there is one.
Merge ==
    /\ job.key /\ result = Running /\ AllEnded
    /\ IF \E w \in Wanted : walk[w].at = "failed" THEN Answer("error", {})
                                                  ELSE Answer("list", FirstOccurrences)

DiscoveryNext ==
    \/ Cancel
    \/ NoKey
    \/ Merge
    \/ \E w \in Walks : Add(w) \/ Withdraw(w) \/ WalkStep(w)

DiscoverySpec == DiscoveryInit /\ [][DiscoveryNext]_discoveryVars

\* Every goroutine runs, every timer fires, and every request is answered,
\* fails, or hangs; of what hangs nothing more is assumed than that ctx ends it.
FairDiscoverySpec ==
    /\ DiscoverySpec
    /\ WF_discoveryVars(NoKey)
    /\ WF_discoveryVars(Merge)
    /\ \A w \in Walks : WF_discoveryVars(WalkStep(w))

-----------------------------------------------------------------------------
(* Properties. *)

\* A list that is given without an error and with a key names whatever an
\* endpoint of the job listed from start to end, however the walks fared and
\* whatever was added meanwhile: the mirrors of the rest are removed
\* (client.go:444, sync.go:196).  Only where an entry of a page already read
\* was removed may the next page begin beyond one (client.go:208).
Throughout(w) == throughout[w] \ Nameless

NothingOverlooked ==
    result.said = "list" /\ job.key =>
        \A w \in Wanted \ shifted : Throughout(w) \subseteq {e.url : e \in result.list}

\* Each clone URL is returned once, and one that is owned throughout is
\* returned as owned, though it be starred too and whichever walk ended
\* first: shouldBackUpProjectMetadata leaves the starred out (client.go:425).
OwnedWins ==
    /\ \A e, f \in result.list : e.url = f.url => e = f
    /\ "owned" \notin shifted =>
           \A e \in result.list : e.url \in throughout["owned"] => ~e.starred

\* Discovery ends, after a bounded number of attempts on a page, unless the
\* forge leaves a request unanswered; and then it ends if ctx is cancelled
\* (client.go:134, 143).
Ended == result # Running
DiscoveryEnds ==
    <>[](Ended \/ (~cancelled /\ \E w \in Walks : walk[w].at = "hung"))
=============================================================================
