-------------------------------- MODULE Daemon --------------------------------
(***************************************************************************)
(* The life of the process around the scheduler loop: run of main.go, with *)
(* the settings watcher and the status listener it starts and stops.       *)
(*                                                                         *)
(* Two goroutines call the listener: main, which starts it before the      *)
(* watcher and stops it after the scheduler loop, and the poller, which    *)
(* restarts it in onReload.  main stops the listener first and closes the  *)
(* watcher last (deferred), so the two may meet.                           *)
(***************************************************************************)
EXTENDS SettingsWatcher

CONSTANTS Addresses,  \* see HealthServer
          Listener    \* the health address each valid content configures

ASSUME DaemonAssumption ==
    /\ Addresses \subseteq Nat \ {0}
    /\ Listener \in [Valid -> Addresses \cup {0}]

VARIABLES address, httpServer, registered, listening, serving, busy, call, panicked,
          main     \* where run is

healthVars  == <<address, httpServer, registered, listening, serving, busy, call, panicked>>
daemonVars == <<vars, healthVars, main>>

Callers == {"main", "poller"}

Health == INSTANCE HealthServer

DaemonInit ==
    /\ Init
    /\ Health!Init
    /\ main = "load"

Alive == ~panicked /\ main # "exited"

-----------------------------------------------------------------------------
(* main. *)

LoadSettings ==
    /\ Alive
    /\ main = "load"
    /\ InitialLoad
    /\ main' = IF watcher' = "done" THEN "exited" ELSE "listen"
    /\ UNCHANGED healthVars

\* applyHealthListener(healthServer, settings.Health).
StartListener ==
    /\ Alive
    /\ main = "listen"
    /\ Health!Restart("main", Listener[current])
    /\ main' = "listening"
    /\ UNCHANGED vars

\* liveSettings.Start(), then the scheduler loop.
StartWatcher ==
    /\ Alive
    /\ main = "listening"
    /\ call["main"] = Health!Idle
    /\ Start
    /\ main' = "run"
    /\ UNCHANGED healthVars

\* The scheduler loop has returned: healthServer.Stop().
StopListener ==
    /\ Alive
    /\ main = "run"
    /\ Health!Stop("main")
    /\ main' = "stopping"
    /\ UNCHANGED vars

\* Mutant: Close waits, without a timeout, for a goroutine it has not told to stop.
CloseUnsignalled ==
    /\ Alive
    /\ main = "stopping"
    /\ call["main"] = Health!Idle
    /\ watcher = "closed"
    /\ main' = "exited"
    /\ UNCHANGED <<vars, healthVars>>

\* The deferred Close: the poller ends between two polls; after five seconds main
\* returns all the same.
CloseWatcher ==
    /\ Alive
    /\ main = "stopping"
    /\ call["main"] = Health!Idle
    /\ Close \/ (watcher # "wait" /\ UNCHANGED vars)
    /\ main' = "exited"
    /\ UNCHANGED healthVars

-----------------------------------------------------------------------------
(* The poller. *)

\* A poll comes two seconds after the last one, or after the start: the goroutine
\* of the last Start of the listener has begun by then.
Poll ==
    /\ Alive
    /\ serving = {}
    /\ DetectChange
    /\ UNCHANGED <<healthVars, main>>

ReloadSettings ==
    /\ Alive
    /\ Reload
    /\ UNCHANGED <<healthVars, main>>

\* Mutant: a reload leaves the listener alone.
KeepListener ==
    /\ Alive
    /\ OnReload
    /\ UNCHANGED <<healthVars, main>>

\* onReload: applyHealthListener(healthServer, reloaded.Health).
RestartListener ==
    /\ Alive
    /\ OnReload
    /\ Health!Restart("poller", Listener[current])
    /\ UNCHANGED main

EndReload ==
    /\ Alive
    /\ call["poller"] = Health!Idle
    /\ ReloadDone
    /\ UNCHANGED <<healthVars, main>>

-----------------------------------------------------------------------------
(* The status listener, and the world. *)

CallStep(c) == Alive /\ Health!CallStep(c) /\ UNCHANGED <<vars, main>>

BeginServe == Alive /\ (\E a \in Addresses : Health!Serve(a)) /\ UNCHANGED <<vars, main>>

World ==
    /\ Alive
    /\ \/ (Edit \/ ChangeSecrets) /\ UNCHANGED healthVars
       \/ Health!OtherProcess /\ UNCHANGED vars
    /\ UNCHANGED main

MainStep ==
    \/ LoadSettings \/ StartListener \/ StartWatcher \/ StopListener \/ CloseWatcher

PollerStep == Poll \/ ReloadSettings \/ RestartListener \/ EndReload

DaemonNext ==
    \/ World \/ MainStep \/ PollerStep \/ BeginServe
    \/ \E c \in Callers : CallStep(c)

DaemonSpec == DaemonInit /\ [][DaemonNext]_daemonVars

\* Goroutines are scheduled and Shutdown has a timeout.  The scheduler loop need
\* not end: StopListener is not fair.
Fairness ==
    /\ WF_daemonVars(CloseWatcher)
    /\ WF_daemonVars(PollerStep)
    /\ WF_daemonVars(BeginServe)
    /\ \A c \in Callers : WF_daemonVars(CallStep(c))

FairSpec == DaemonSpec /\ Fairness

-----------------------------------------------------------------------------
\* "The change is picked up within a couple of seconds" (README.md:36): a content that
\* differs from the last one hashed, and then stays, comes into force if the scheduler
\* keeps running, whatever happened before and however long the listener took.
EditHeals ==
    \A c \in Valid :
        (watcher = "wait" /\ lastHash # c /\ [](file = c /\ secrets /\ main = "run"))
            ~> (current = c)

\* "All mutators are safe for concurrent use" (health.go:17), and "its errors
\* never stop the daemon" (main.go:73): the process does not go down while main and
\* the poller use the listener together.
ConcurrentUseSafe == ~(panicked /\ \A c \in Callers : call[c] # Health!Idle)

\* As long as main does not stop the listener there is one caller at a time, and
\* none finds the server gone between its check and its use: neither Shutdown in
\* a restart nor the goroutine that Start leaves behind.
NoPanicWhileRunning == panicked => main = "stopping"

\* Between reloads the process is bound to no address but the one in force: a
\* restart leaves nothing behind on an address that was given up, even if the
\* new one could not be bound.
ListenerFollows ==
    main = "run" /\ watcher = "wait" => listening \subseteq {Listener[current]}

\* The daemon's end is not held up by a reload or by a listener that is slow to
\* stop: after the scheduler loop main returns.
ShutdownEnds == main = "stopping" ~> main = "exited" \/ panicked
=============================================================================
