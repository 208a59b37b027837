--------------------------- MODULE SettingsWatcher ---------------------------
(***************************************************************************)
(* Hot reload of the settings: LiveSettings of internal/config/live.go,    *)
(* with the initial load of main.go.                                       *)
(*                                                                         *)
(* main loads the settings file; Start hashes the file for a baseline; a   *)
(* goroutine then polls: it hashes the file, records a hash that differs   *)
(* from the last one, and loads the file a second time.                    *)
(*                                                                         *)
(* A content of the file is a model value, and stands for its hash.  A     *)
(* valid content loads if the secrets it names can be read.  File and      *)
(* secrets may change at any moment.                                       *)
(***************************************************************************)
EXTENDS Naturals

CONSTANTS Contents,   \* what may be written to the settings file
          Valid,      \* the contents that parse and validate
          MaxEdits    \* bound: changes to the file and to the secrets

Missing == "missing"  \* no such file, or none that can be read
None    == "none"

ASSUME WatcherAssumption ==
    /\ Valid \subseteq Contents
    /\ Missing \notin Contents /\ None \notin Contents
    /\ MaxEdits \in Nat

VARIABLES file,      \* the content of the settings file
          secrets,   \* whether the secret files can be read
          edits,     \* changes made so far
          current,   \* LiveSettings.current
          lastHash,  \* LiveSettings.lastHash
          watcher,   \* where the goroutine is, or main before it starts
          raced      \* history: since the last load or poll that saw a change, the
                     \* file changed in the midst of it, or the secrets changed

worldVars == <<file, secrets, edits>>
vars == <<worldVars, current, lastHash, watcher, raced>>

Loadable == file \in Valid /\ secrets

Init ==
    /\ file \in Contents
    /\ secrets = TRUE
    /\ edits = 0
    /\ current = None
    /\ lastHash = None
    /\ watcher = "load"
    /\ raced = FALSE

\* Anyone may write the file, between main's load and Start's hash of it, or
\* between a poll's hash and its load, as well as at any other time.
Edit ==
    /\ edits < MaxEdits
    /\ edits' = edits + 1
    /\ \E c \in (Contents \cup {Missing}) \ {file} : file' = c
    /\ raced' = (raced \/ watcher \in {"seed", "reload"})
    /\ UNCHANGED <<secrets, current, lastHash, watcher>>

\* A secret that a content names is mounted late, or is being replaced.
ChangeSecrets ==
    /\ edits < MaxEdits
    /\ edits' = edits + 1
    /\ secrets' = ~secrets
    /\ raced' = TRUE
    /\ UNCHANGED <<file, current, lastHash, watcher>>

-----------------------------------------------------------------------------
\* main: Load; the process ends if that fails.
InitialLoad ==
    /\ watcher = "load"
    /\ IF Loadable THEN current' = file /\ watcher' = "seed"
                   ELSE watcher' = "done" /\ UNCHANGED current
    /\ raced' = FALSE
    /\ UNCHANGED <<worldVars, lastHash>>

\* Start: the baseline is taken from the file as it is now.
Start ==
    /\ watcher = "seed"
    /\ lastHash' = IF file = Missing THEN None ELSE file
    /\ watcher' = "wait"
    /\ UNCHANGED <<worldVars, current, raced>>

\* Mutant: the baseline is never moved on.
DetectWithoutRecord ==
    /\ watcher = "wait"
    /\ file # Missing
    /\ file # lastHash
    /\ lastHash' = lastHash
    /\ watcher' = "reload"
    /\ raced' = FALSE
    /\ UNCHANGED <<worldVars, current>>

\* Mutant: after a content that did not load no other one is looked at.
DetectUntilBroken ==
    /\ watcher = "wait"
    /\ file # Missing
    /\ file # lastHash
    /\ lastHash \in Valid \cup {None}
    /\ lastHash' = file
    /\ watcher' = "reload"
    /\ raced' = FALSE
    /\ UNCHANGED <<worldVars, current>>

\* checkForChange, when the file can be read and has another hash.
DetectChange ==
    /\ watcher = "wait"
    /\ file # Missing
    /\ file # lastHash
    /\ lastHash' = file
    /\ watcher' = "reload"
    /\ raced' = FALSE
    /\ UNCHANGED <<worldVars, current>>

\* reload: the file is read again; errors keep the settings as they are.
Reload ==
    /\ watcher = "reload"
    /\ IF Loadable THEN current' = file /\ watcher' = "callback"
                   ELSE watcher' = "wait" /\ UNCHANGED current
    /\ UNCHANGED <<worldVars, lastHash, raced>>

\* onReload is called with the new settings, and returns.
OnReload ==
    /\ watcher = "callback"
    /\ watcher' = "applying"
    /\ UNCHANGED <<worldVars, current, lastHash, raced>>

ReloadDone ==
    /\ watcher = "applying"
    /\ watcher' = "wait"
    /\ UNCHANGED <<worldVars, current, lastHash, raced>>

\* Close: the goroutine ends between two polls.
Close ==
    /\ watcher = "wait"
    /\ watcher' = "closed"
    /\ UNCHANGED <<worldVars, current, lastHash, raced>>

Next ==
    \/ Edit \/ ChangeSecrets
    \/ InitialLoad \/ Start \/ DetectChange \/ Reload \/ OnReload \/ ReloadDone \/ Close

Spec == Init /\ [][Next]_vars

-----------------------------------------------------------------------------
\* The daemon never runs without settings that were loaded as a whole ("A failed
\* reload keeps the previous settings running", live.go:31).
TypeOK ==
    /\ file \in Contents \cup {Missing}
    /\ secrets \in BOOLEAN
    /\ edits \in 0..MaxEdits
    /\ current \in Valid \cup {None}
    /\ lastHash \in Contents \cup {None}
    /\ watcher \in {"load", "seed", "wait", "reload", "callback", "applying", "closed", "done"}
    /\ raced \in BOOLEAN
    /\ current = None <=> watcher \in {"load", "done"}

\* "The first poll only reloads when the content has actually changed since
\* startup" (live.go:80-81), and a content that was acted upon is in force: the
\* poller never rests on settings that are not those of the file, unless the file
\* changed under the load or hash that saw it, or a secret came too late.
NeverStale ==
    watcher = "wait" /\ file = lastHash /\ Loadable /\ ~raced => current = file
=============================================================================
