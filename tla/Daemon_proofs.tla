----------------------------- MODULE Daemon_proofs -----------------------------
(***************************************************************************)
(* The settings: the reload keeps whole settings, whenever the world       *)
(* changes; and the poller rests on old ones only after the world changed  *)
(* under a load.                                                           *)
(*                                                                         *)
(* The process: it implements the watcher, and until main stops the        *)
(* listener, main and the poller never use it at the same time; after      *)
(* that, nothing the poller does holds up the end of main.                 *)
(***************************************************************************)
EXTENDS Daemon, TLAPS

\* The variables keep their types: in particular current is None or a content that
\* parses and validates, at whatever moment the file or the secrets change ("A failed
\* reload keeps the previous settings running", live.go:31).
THEOREM TypeCorrect == Spec => []TypeOK
<1>. USE WatcherAssumption DEF TypeOK, Missing, None
<1>1. Init => TypeOK
  <2>. SUFFICES ASSUME Init PROVE TypeOK
    OBVIOUS
  <2>1. file \in Contents /\ edits = 0 /\ current = None /\ lastHash = None /\ watcher = "load"
    BY DEF Init
  <2>2. secrets \in BOOLEAN /\ raced \in BOOLEAN
    BY DEF Init
  <2>. QED
    BY <2>1, <2>2
<1>2. TypeOK /\ [Next]_vars => TypeOK'
  <2>. SUFFICES ASSUME TypeOK, [Next]_vars PROVE TypeOK'
    OBVIOUS
  <2>1. CASE Edit
    BY <2>1 DEF Edit
  <2>2. CASE ChangeSecrets
    BY <2>2 DEF ChangeSecrets
  <2>3. CASE InitialLoad
    BY <2>3 DEF InitialLoad, Loadable, worldVars
  <2>4. CASE Start
    BY <2>4 DEF Start, worldVars
  <2>5. CASE DetectChange
    BY <2>5 DEF DetectChange, worldVars
  <2>6. CASE Reload
    BY <2>6 DEF Reload, Loadable, worldVars
  <2>7. CASE OnReload
    BY <2>7 DEF OnReload, worldVars
  <2>8. CASE ReloadDone
    BY <2>8 DEF ReloadDone, worldVars
  <2>9. CASE Close
    BY <2>9 DEF Close, worldVars
  <2>10. CASE UNCHANGED vars
    BY <2>10 DEF vars, worldVars
  <2>. QED
    BY <2>1, <2>2, <2>3, <2>4, <2>5, <2>6, <2>7, <2>8, <2>9, <2>10 DEF Next
<1>. QED
  BY <1>1, <1>2, PTL DEF Spec

-----------------------------------------------------------------------------
\* What is in force unless the world changed in the midst of the last load.  A
\* content that was hashed and is valid has been loaded by the time the poller rests,
\* if its secrets can be read; in a reload the file is still the one that was hashed.
Caught ==
    ~raced =>
        /\ watcher = "seed" => current = file /\ file \in Valid
        /\ watcher = "wait" => (secrets /\ lastHash \in Valid => current = lastHash)
        /\ watcher = "reload" => file = lastHash
        /\ watcher \in {"callback", "applying"} => current = lastHash

Inv == TypeOK /\ Caught

LEMMA CaughtNext ==
    ASSUME Inv, [Next]_vars
    PROVE  Caught'
<1>. USE WatcherAssumption DEF Inv, TypeOK, Caught, Missing, None
<1>1. CASE Edit
  BY <1>1 DEF Edit
<1>2. CASE ChangeSecrets
  BY <1>2 DEF ChangeSecrets
<1>3. CASE InitialLoad
  BY <1>3 DEF InitialLoad, Loadable, worldVars
<1>4. CASE Start
  BY <1>4 DEF Start, worldVars
<1>5. CASE DetectChange
  BY <1>5 DEF DetectChange, worldVars
<1>6. CASE Reload
  BY <1>6 DEF Reload, Loadable, worldVars
<1>7. CASE OnReload
  BY <1>7 DEF OnReload, worldVars
<1>8. CASE ReloadDone
  BY <1>8 DEF ReloadDone, worldVars
<1>9. CASE Close
  BY <1>9 DEF Close, worldVars
<1>10. CASE UNCHANGED vars
  BY <1>10 DEF vars, worldVars
<1>. QED
  BY <1>1, <1>2, <1>3, <1>4, <1>5, <1>6, <1>7, <1>8, <1>9, <1>10 DEF Next

\* The settings in force are those of the file whenever the poller rests on a content
\* it has hashed and can load, unless file or secrets changed in the midst of its load:
\* these are the only windows in which a change is missed.
THEOREM WatcherNeverStale == Spec => []NeverStale
<1>1. Init => Caught
  BY DEF Init, Caught
<1>2. TypeOK /\ Caught /\ [Next]_vars => Caught'
  BY CaughtNext DEF Inv
<1>3. TypeOK /\ Caught => NeverStale
  BY DEF Caught, NeverStale, Loadable
<1>. QED
  BY <1>1, <1>2, <1>3, TypeCorrect, PTL DEF Spec

-----------------------------------------------------------------------------
(* The process implements the watcher. *)

LEMMA DaemonStep ==
    ASSUME [DaemonNext]_daemonVars
    PROVE  [Next]_vars
<1>. USE DEF Next
<1>1. CASE World
  BY <1>1 DEF World
<1>2. CASE MainStep
  BY <1>2 DEF MainStep, LoadSettings, StartListener, StartWatcher, StopListener, CloseWatcher
<1>3. CASE PollerStep
  BY <1>3 DEF PollerStep, Poll, ReloadSettings, RestartListener, EndReload
<1>4. CASE BeginServe
  BY <1>4 DEF BeginServe
<1>5. CASE \E c \in Callers : CallStep(c)
  BY <1>5 DEF CallStep
<1>6. CASE UNCHANGED daemonVars
  BY <1>6 DEF daemonVars
<1>. QED
  BY <1>1, <1>2, <1>3, <1>4, <1>5, <1>6 DEF DaemonNext

\* The process is an implementation of the watcher: main, the listener, a panic and the
\* shutdown take nothing from what is shown of the settings above.
THEOREM DaemonWatches == DaemonSpec => Spec
<1>1. DaemonInit => Init
  BY DEF DaemonInit
<1>2. [DaemonNext]_daemonVars => [Next]_vars
  BY DaemonStep
<1>. QED
  BY <1>1, <1>2, PTL DEF DaemonSpec, Spec

-----------------------------------------------------------------------------
(* One caller of the listener at a time. *)

Places == {"idle", "check", "shutdown", "clear", "rebind", "start",
           "checkLast", "shutdownLast", "clearLast"}
Wanted == [at : Places, want : Addresses \cup {0}]

\* The types; main's places are not of SettingsWatcher's TypeOK.
HealthOK ==
    /\ address \in Addresses \cup {0}
    /\ httpServer \in {"nil", "open", "closed"}
    /\ registered \subseteq Addresses \cup {0}
    /\ listening \subseteq Addresses \cup {0}
    /\ serving \subseteq Addresses \cup {0}
    /\ busy \subseteq Addresses
    /\ call \in [Callers -> Wanted]
    /\ panicked \in BOOLEAN
    /\ main \in {"load", "listen", "listening", "run", "stopping", "exited"}

\* Until the scheduler loop has returned.
Running == main \notin {"stopping", "exited"}

MainWatcher ==
    /\ main = "load" => watcher = "load"
    /\ main \in {"listen", "listening"} => watcher = "seed"
    /\ main = "run" => watcher \in {"wait", "reload", "callback", "applying"}

\* main is inside the listener only before there is a poller, the poller only in onReload.
OneCaller ==
    /\ call["main"].at # "idle" => main = "listening"
    /\ call["poller"].at # "idle" => main = "run" /\ watcher = "applying"

\* What a caller that has passed a place may rely on: the server is as its check found
\* it, and no goroutine of an earlier Start is still to call Serve.
CallOK(c) ==
    /\ call[c].at \notin {"checkLast", "shutdownLast", "clearLast"}
    /\ call[c].at = "shutdown" => httpServer = "open"
    /\ call[c].at = "clear" => httpServer = "closed"
    /\ call[c].at \in {"rebind", "start"} => httpServer = "nil"
    /\ call[c].at # "idle" => call[c].want = Listener[current] /\ serving = {}
    /\ call[c].at = "start" => address = Listener[current] /\ address # 0

\* An open server is bound to its address and nothing else, and nothing is bound without
\* one; a server that Shutdown has closed is about to be cleared.
ServerOK ==
    /\ httpServer = "open" => listening = {address} /\ registered \cup serving = {address}
    /\ httpServer # "open" => listening = {} /\ serving = {}
    /\ httpServer = "closed" => \E c \in Callers : call[c].at = "clear"
    /\ main \in {"load", "listen"} => httpServer = "nil"
    /\ watcher \in {"reload", "callback"} => serving = {}

\* When no reload is under way: the settings of the listener are the current ones.
InForce ==
    \/ main = "listening" /\ call["main"].at = "idle"
    \/ main = "run" /\ watcher \in {"wait", "reload"}
    \/ main = "run" /\ watcher = "applying" /\ call["poller"].at = "idle"

RunningInv ==
    /\ MainWatcher
    /\ OneCaller
    /\ \A c \in Callers : CallOK(c)
    /\ ServerOK
    /\ InForce => (httpServer = "open" => address = Listener[current])

DaemonInv ==
    /\ HealthOK
    /\ Running => RunningInv
    /\ panicked => main = "stopping"

LEMMA GotoCall ==
    ASSUME call \in [Callers -> Wanted], NEW c \in Callers, NEW place \in Places,
           Health!Goto(c, place)
    PROVE  /\ call' \in [Callers -> Wanted]
           /\ call'[c].at = place
           /\ call'[c].want = IF place = "idle" THEN 0 ELSE call[c].want
           /\ \A d \in Callers : d # c => call'[d] = call[d]
<1>1. PICK r \in Wanted : r = call[c]
  OBVIOUS
<1>2. /\ Health!Idle \in Wanted
      /\ Health!Idle.at = "idle" /\ Health!Idle.want = 0
  BY DEF Health!Idle, Wanted, Places
<1>3. /\ [r EXCEPT !.at = place] \in Wanted
      /\ [r EXCEPT !.at = place].at = place /\ [r EXCEPT !.at = place].want = r.want
  BY DEF Wanted
<1>4. call' = [call EXCEPT ![c] = IF place = "idle" THEN Health!Idle ELSE [r EXCEPT !.at = place]]
  BY <1>1 DEF Health!Goto
<1>. QED
  BY <1>1, <1>2, <1>3, <1>4

\* While main has not called Stop, at most one goroutine is inside the listener.
LEMMA Alone ==
    ASSUME OneCaller, NEW c \in Callers, call[c].at # "idle"
    PROVE  \A d \in Callers : d # c => call[d].at = "idle"
BY DEF OneCaller, Callers

LEMMA IdleCall ==
    /\ Health!Idle \in Wanted
    /\ Health!Idle.at = "idle" /\ Health!Idle.want = 0
BY DEF Health!Idle, Wanted, Places

LEMMA RestartCall ==
    ASSUME call \in [Callers -> Wanted], NEW c \in Callers, NEW new \in Addresses \cup {0},
           Health!Restart(c, new)
    PROVE  /\ call' \in [Callers -> Wanted]
           /\ call[c].at = "idle"
           /\ call'[c].at = (IF httpServer # "nil" /\ address = new THEN "idle" ELSE "check")
           /\ call'[c].at = "check" => call'[c].want = new
           /\ \A d \in Callers : d # c => call'[d] = call[d]
<1>1. /\ [at |-> "check", want |-> new] \in Wanted
      /\ [at |-> "check", want |-> new].at = "check" /\ [at |-> "check", want |-> new].want = new
  BY DEF Wanted, Places
<1>. QED
  BY <1>1, IdleCall DEF Health!Restart, Health!At

LEMMA StopCall ==
    ASSUME call \in [Callers -> Wanted], NEW c \in Callers, Health!Stop(c)
    PROVE  call' \in [Callers -> Wanted]
<1>1. [at |-> "checkLast", want |-> 0] \in Wanted
  BY DEF Wanted, Places
<1>. QED
  BY <1>1 DEF Health!Stop

LEMMA ListenerKnown ==
    ASSUME TypeOK, watcher \notin {"load", "done"}
    PROVE  current \in Valid /\ Listener[current] \in Addresses \cup {0}
BY DaemonAssumption DEF TypeOK

LEMMA DaemonInitInv == DaemonInit => DaemonInv
<1>. SUFFICES ASSUME DaemonInit PROVE DaemonInv
  OBVIOUS
<1>1. /\ call \in [Callers -> Wanted]
      /\ \A c \in Callers : call[c].at = "idle"
  BY IdleCall DEF DaemonInit, Health!Init
<1>2. HealthOK
  BY <1>1, DaemonAssumption DEF DaemonInit, Health!Init, HealthOK
<1>3. main = "load" /\ watcher = "load" /\ httpServer = "nil" /\ listening = {} /\ serving = {}
      /\ panicked = FALSE
  BY DEF DaemonInit, Init, Health!Init
<1>4. MainWatcher /\ OneCaller /\ (\A c \in Callers : CallOK(c)) /\ ServerOK
  BY <1>1, <1>3 DEF MainWatcher, OneCaller, CallOK, ServerOK, Callers
<1>. QED
  BY <1>2, <1>3, <1>4 DEF DaemonInv, RunningInv, InForce, Running

LEMMA WorldKeeps ==
    ASSUME TypeOK, DaemonInv, World
    PROVE  DaemonInv'
<1>1. /\ UNCHANGED <<current, watcher, main, address, httpServer, registered, listening, serving,
                     call, panicked>>
      /\ busy' \subseteq Addresses
  BY DEF World, Edit, ChangeSecrets, Health!OtherProcess, Health!serverVars, healthVars, vars,
    worldVars, DaemonInv, HealthOK
<1>. QED
  BY <1>1 DEF DaemonInv, HealthOK, Running, RunningInv, MainWatcher, OneCaller, CallOK, ServerOK, InForce

LEMMA MainKeeps ==
    ASSUME TypeOK, DaemonInv, MainStep
    PROVE  DaemonInv'
<1>. USE DEF DaemonInv
<1>0. call \in [Callers -> Wanted] /\ "main" \in Callers /\ "poller" \in Callers
  BY DEF HealthOK, Callers
<1>1. CASE LoadSettings
  <2>1. UNCHANGED healthVars /\ main = "load" /\ ~panicked
        /\ \/ main' = "listen" /\ watcher' = "seed"
           \/ main' = "exited"
    BY <1>1 DEF LoadSettings, InitialLoad, Alive
  <2>2. UNCHANGED <<address, httpServer, registered, listening, serving, busy, call, panicked>>
    BY <2>1 DEF healthVars
  <2>. QED
    BY <2>1, <2>2 DEF HealthOK, Running, RunningInv, MainWatcher, OneCaller, CallOK, ServerOK, InForce, Callers
<1>2. CASE StartListener
  <2>1. main = "listen" /\ main' = "listening" /\ ~panicked /\ Health!Restart("main", Listener[current])
        /\ UNCHANGED <<current, watcher>>
    BY <1>2 DEF StartListener, vars, Alive
  <2>2. UNCHANGED <<address, httpServer, registered, listening, serving, busy, panicked>>
    BY <2>1 DEF Health!Restart, Health!serverVars
  <2>3. RunningInv /\ watcher = "seed"
    BY <2>1 DEF Running, RunningInv, MainWatcher
  <2>4. Listener[current] \in Addresses \cup {0}
    BY <2>3, ListenerKnown
  <2>5. httpServer = "nil" /\ serving = {} /\ listening = {}
    BY <2>3, <2>1 DEF RunningInv, ServerOK
  <2>6. /\ call' \in [Callers -> Wanted]
        /\ call'["main"].at = "check" /\ call'["main"].want = Listener[current]
        /\ call'["poller"].at = "idle"
    BY <1>0, <2>1, <2>3, <2>4, <2>5, RestartCall DEF RunningInv, OneCaller
  <2>. QED
    BY <2>1, <2>2, <2>3, <2>5, <2>6 DEF HealthOK, Running, RunningInv, MainWatcher, OneCaller, CallOK, ServerOK, InForce, Callers
<1>3. CASE StartWatcher
  <2>1. main = "listening" /\ main' = "run" /\ watcher' = "wait" /\ ~panicked /\ UNCHANGED current
        /\ call["main"].at = "idle"
        /\ UNCHANGED <<address, httpServer, registered, listening, serving, busy, call, panicked>>
    BY <1>3, IdleCall DEF StartWatcher, Start, Alive, healthVars
  <2>. QED
    BY <2>1 DEF HealthOK, Running, RunningInv, MainWatcher, OneCaller, CallOK, ServerOK, InForce, Callers
<1>4. CASE StopListener
  <2>1. main' = "stopping" /\ ~panicked /\ Health!Stop("main")
    BY <1>4 DEF StopListener, Alive
  <2>2. UNCHANGED <<address, httpServer, registered, listening, serving, busy, panicked>>
    BY <2>1 DEF Health!Stop, Health!serverVars
  <2>3. call' \in [Callers -> Wanted]
    BY <1>0, <2>1, StopCall
  <2>. QED
    BY <2>1, <2>2, <2>3 DEF HealthOK, Running
<1>5. CASE CloseWatcher
  <2>1. main' = "exited" /\ ~panicked /\ UNCHANGED healthVars
    BY <1>5 DEF CloseWatcher, Alive
  <2>. QED
    BY <2>1 DEF healthVars, HealthOK, Running
<1>. QED
  BY <1>1, <1>2, <1>3, <1>4, <1>5 DEF MainStep

LEMMA PollerKeeps ==
    ASSUME TypeOK, DaemonInv, PollerStep
    PROVE  DaemonInv'
<1>. USE DEF DaemonInv
<1>0. call \in [Callers -> Wanted] /\ "main" \in Callers /\ "poller" \in Callers
  BY DEF HealthOK, Callers
<1>1. UNCHANGED main /\ ~panicked
  BY DEF PollerStep, Poll, ReloadSettings, RestartListener, EndReload, Alive
<1>2. CASE Poll
  <2>1. serving = {} /\ watcher = "wait" /\ watcher' = "reload" /\ UNCHANGED current
        /\ UNCHANGED <<address, httpServer, registered, listening, serving, busy, call, panicked>>
    BY <1>2 DEF Poll, DetectChange, healthVars
  <2>. QED
    BY <1>1, <2>1 DEF HealthOK, Running, RunningInv, MainWatcher, OneCaller, CallOK, ServerOK, InForce, Callers
<1>3. CASE ReloadSettings
  <2>1. watcher = "reload"
        /\ watcher' \in {"callback", "wait"} /\ (watcher' = "wait" => current' = current)
        /\ UNCHANGED <<address, httpServer, registered, listening, serving, busy, call, panicked>>
    BY <1>3 DEF ReloadSettings, Reload, healthVars
  <2>. QED
    BY <1>1, <2>1 DEF HealthOK, Running, RunningInv, MainWatcher, OneCaller, CallOK, ServerOK, InForce, Callers
<1>4. CASE RestartListener
  <2>1. watcher = "callback" /\ watcher' = "applying" /\ UNCHANGED current
        /\ Health!Restart("poller", Listener[current])
    BY <1>4 DEF RestartListener, OnReload
  <2>2. UNCHANGED <<address, httpServer, registered, listening, serving, busy, panicked>>
    BY <2>1 DEF Health!Restart, Health!serverVars
  <2>3. Listener[current] \in Addresses \cup {0}
    BY <2>1, ListenerKnown
  <2>4. /\ call' \in [Callers -> Wanted]
        /\ call'["poller"].at = (IF httpServer # "nil" /\ address = Listener[current] THEN "idle" ELSE "check")
        /\ call'["poller"].at = "check" => call'["poller"].want = Listener[current]
        /\ call'["main"] = call["main"]
    BY <1>0, <2>1, <2>3, RestartCall
  <2>5. CASE Running
    <3>1. RunningInv /\ main = "run"
      BY <1>1, <2>1, <2>5 DEF Running, RunningInv, MainWatcher, HealthOK
    <3>2. serving = {} /\ call["main"].at = "idle"
      BY <2>1, <3>1 DEF RunningInv, ServerOK, OneCaller
    <3>3. \A c \in Callers : call[c].at = "idle"
      BY <2>1, <3>1 DEF RunningInv, OneCaller, Callers
    <3>. QED
      BY <1>1, <2>1, <2>2, <2>4, <3>1, <3>2, <3>3 DEF HealthOK, Running, RunningInv, MainWatcher, OneCaller, CallOK, ServerOK, InForce, Callers
  <2>. QED
    BY <1>1, <2>2, <2>4, <2>5 DEF HealthOK, Running
<1>5. CASE EndReload
  <2>1. watcher = "applying" /\ watcher' = "wait" /\ UNCHANGED current /\ call["poller"].at = "idle"
        /\ UNCHANGED <<address, httpServer, registered, listening, serving, busy, call, panicked>>
    BY <1>5, IdleCall DEF EndReload, ReloadDone, healthVars
  <2>. QED
    BY <1>1, <2>1 DEF HealthOK, Running, RunningInv, MainWatcher, OneCaller, CallOK, ServerOK, InForce, Callers
<1>. QED
  BY <1>2, <1>3, <1>4, <1>5 DEF PollerStep


\* A step inside the listener.  No one else is inside it, so what the check found still
\* holds when the server is used; Start binds where nothing is bound.
LEMMA CallKeeps ==
    ASSUME TypeOK, DaemonInv, NEW c \in Callers, CallStep(c)
    PROVE  DaemonInv'
<1>. USE DEF DaemonInv
<1>0. /\ UNCHANGED <<current, watcher, main>> /\ ~panicked /\ main # "exited" /\ Health!CallStep(c)
      /\ call \in [Callers -> Wanted] /\ call[c] \in Wanted
  BY DEF CallStep, Alive, vars, HealthOK
<1>1. /\ call[c].at \in Places /\ call[c].at # "idle" /\ call[c].want \in Addresses \cup {0}
  BY <1>0 DEF Wanted, Health!CallStep, Health!CheckNil, Health!Shutdown, Health!Clear, Health!Rebind,
    Health!Listen, Health!At
<1>2. /\ HealthOK'
      /\ \A d \in Callers : d # c => call'[d] = call[d]
  <2>1. CASE Health!CheckNil(c)
    <3>1. PICK p \in Places : Health!Goto(c, p)
      BY <2>1 DEF Health!CheckNil, Places
    <3>. QED
      BY <1>0, <2>1, <3>1, GotoCall DEF Health!CheckNil, Health!serverVars, HealthOK
  <2>2. CASE Health!Shutdown(c)
    <3>1. PICK p \in Places : Health!Goto(c, p)
      BY <2>2 DEF Health!Shutdown, Places
    <3>. QED
      BY <1>0, <2>2, <3>1, GotoCall DEF Health!Shutdown, HealthOK
  <2>3. CASE Health!Clear(c)
    <3>1. PICK p \in Places : Health!Goto(c, p)
      BY <2>3 DEF Health!Clear, Places
    <3>. QED
      BY <1>0, <2>3, <3>1, GotoCall DEF Health!Clear, HealthOK
  <2>4. CASE Health!Rebind(c)
    <3>1. PICK p \in Places : Health!Goto(c, p)
      BY <2>4 DEF Health!Rebind, Places
    <3>. QED
      BY <1>0, <1>1, <2>4, <3>1, GotoCall DEF Health!Rebind, HealthOK
  <2>5. CASE Health!Listen(c)
    <3>1. "idle" \in Places /\ Health!Goto(c, "idle")
      BY <2>5 DEF Health!Listen, Places
    <3>. QED
      BY <1>0, <2>5, <3>1, GotoCall DEF Health!Listen, HealthOK
  <2>. QED
    BY <1>0, <2>1, <2>2, <2>3, <2>4, <2>5 DEF Health!CallStep
<1>3. CASE Running
  <2>1. RunningInv
    BY <1>3
  <2>2. \A d \in Callers : d # c => call[d].at = "idle" /\ call'[d].at = "idle"
    BY <1>1, <1>2, <2>1, Alone DEF RunningInv
  <2>3. /\ c = "main" => main = "listening"
        /\ c = "poller" => main = "run" /\ watcher = "applying"
        /\ c \in {"main", "poller"}
    BY <1>1, <2>1 DEF RunningInv, OneCaller, Callers
  <2>4. /\ call[c].at \notin {"checkLast", "shutdownLast", "clearLast"}
        /\ call[c].at = "shutdown" => httpServer = "open"
        /\ call[c].at = "clear" => httpServer = "closed"
        /\ call[c].at \in {"rebind", "start"} => httpServer = "nil"
        /\ call[c].want = Listener[current] /\ serving = {}
        /\ call[c].at = "start" => address = Listener[current] /\ address # 0
    BY <1>1, <2>1 DEF RunningInv, CallOK
  <2>5. MainWatcher' /\ OneCaller'
    BY <1>0, <1>2, <2>1, <2>2, <2>3 DEF RunningInv, MainWatcher, OneCaller, Callers
  <2>6. /\ panicked' = panicked
        /\ CallOK(c)'
        /\ ServerOK'
        /\ InForce' => (httpServer' = "open" => address' = Listener[current])
    <3>1. CASE Health!CheckNil(c)
      <4>1. /\ call[c].at = "check" 
            /\ Health!Goto(c, IF httpServer = "nil" THEN "rebind" ELSE "shutdown")
            /\ UNCHANGED <<address, httpServer, registered, listening, serving, panicked>>
        BY <2>4, <3>1 DEF Health!CheckNil, Health!At, Health!serverVars
      <4>2. /\ call'[c].at = IF httpServer = "nil" THEN "rebind" ELSE "shutdown"
            /\ call'[c].want = call[c].want
        BY <1>0, <4>1, GotoCall DEF Places
      <4>3. httpServer # "closed"
        BY <2>1, <2>2, <4>1 DEF RunningInv, ServerOK
      <4>. QED
        BY <1>0, <2>1, <2>2, <2>3, <2>4, <4>1, <4>2, <4>3
           DEF HealthOK, RunningInv, CallOK, ServerOK, InForce, MainWatcher, Callers
    <3>2. CASE Health!Shutdown(c)
      <4>1. /\ call[c].at = "shutdown" /\ Health!Goto(c, "clear")
            /\ httpServer' = "closed" /\ listening' = listening \ registered /\ registered' = {}
            /\ UNCHANGED <<address, serving, panicked>>
        BY <2>4, <3>2 DEF Health!Shutdown, Health!At
      <4>2. /\ call'[c].at = "clear" /\ call'[c].want = call[c].want
        BY <1>0, <4>1, GotoCall DEF Places
      <4>3. listening' = {}
        BY <2>1, <2>4, <4>1 DEF RunningInv, ServerOK
      <4>. QED
        BY <1>0, <2>1, <2>2, <2>3, <2>4, <4>1, <4>2, <4>3
           DEF HealthOK, RunningInv, CallOK, ServerOK, InForce, MainWatcher, Callers
    <3>3. CASE Health!Clear(c)
      <4>1. /\ call[c].at = "clear" /\ Health!Goto(c, "rebind")
            /\ httpServer' = "nil" /\ registered' = {}
            /\ UNCHANGED <<address, listening, serving, panicked>>
        BY <2>4, <3>3 DEF Health!Clear, Health!At
      <4>2. /\ call'[c].at = "rebind" /\ call'[c].want = call[c].want
        BY <1>0, <4>1, GotoCall DEF Places
      <4>. QED
        BY <1>0, <2>1, <2>2, <2>3, <2>4, <4>1, <4>2
           DEF HealthOK, RunningInv, CallOK, ServerOK, InForce, MainWatcher, Callers
    <3>4. CASE Health!Rebind(c)
      <4>1. /\ call[c].at = "rebind" /\ Health!Goto(c, IF call[c].want = 0 THEN "idle" ELSE "start")
            /\ address' = call[c].want
            /\ UNCHANGED <<httpServer, registered, listening, serving, panicked>>
        BY <3>4 DEF Health!Rebind, Health!At
      <4>2. /\ call'[c].at = IF call[c].want = 0 THEN "idle" ELSE "start"
            /\ call'[c].at = "start" => call'[c].want = call[c].want
        BY <1>0, <4>1, GotoCall DEF Places
      <4>. QED
        BY <1>0, <2>1, <2>2, <2>3, <2>4, <4>1, <4>2
           DEF HealthOK, RunningInv, CallOK, ServerOK, InForce, MainWatcher, Callers
    <3>5. CASE Health!Listen(c)
      <4>1. /\ call[c].at = "start" /\ Health!Goto(c, "idle")
            /\ \/ UNCHANGED <<httpServer, registered, listening, serving>>
               \/ /\ listening' = listening \cup {address}
                  /\ httpServer' = "open" /\ registered' = {}
                  /\ serving' = serving \cup {address}
            /\ UNCHANGED <<address, panicked>>
        BY <3>5 DEF Health!Listen, Health!At
      <4>2. call'[c].at = "idle"
        BY <1>0, <4>1, GotoCall DEF Places
      <4>3. httpServer = "nil" /\ listening = {} /\ serving = {}
        BY <2>1, <2>4, <4>1 DEF RunningInv, ServerOK
      <4>. QED
        BY <1>0, <2>1, <2>2, <2>3, <2>4, <4>1, <4>2, <4>3
           DEF HealthOK, RunningInv, CallOK, ServerOK, InForce, MainWatcher, Callers
    <3>. QED
      BY <1>0, <3>1, <3>2, <3>3, <3>4, <3>5 DEF Health!CallStep
  <2>7. ASSUME NEW d \in Callers PROVE CallOK(d)'
    BY <2>2, <2>6 DEF CallOK
  <2>. QED
    BY <1>0, <1>2, <2>5, <2>6, <2>7 DEF RunningInv
<1>4. CASE ~Running
  BY <1>0, <1>2, <1>4 DEF Running, HealthOK
<1>. QED
  BY <1>3, <1>4

\* The goroutine of Start begins while the server is open: no one is inside the
\* listener as long as it has not.
LEMMA ServeKeeps ==
    ASSUME TypeOK, DaemonInv, BeginServe
    PROVE  DaemonInv'
<1>. USE DEF DaemonInv
<1>1. PICK a \in Addresses : Health!Serve(a)
  BY DEF BeginServe
<1>2. /\ UNCHANGED <<current, watcher, main>> /\ ~panicked /\ main # "exited"
      /\ UNCHANGED <<address, httpServer, busy, call>>
      /\ a \in serving /\ serving' = serving \ {a}
  BY <1>1 DEF BeginServe, Alive, vars, Health!Serve
<1>3. HealthOK'
  BY <1>1, <1>2 DEF HealthOK, Health!Serve
<1>4. CASE Running
  <2>1. httpServer = "open"
    BY <1>2, <1>4 DEF RunningInv, ServerOK
  <2>2. UNCHANGED <<listening, panicked>> /\ registered' = registered \cup {a}
    BY <1>1, <2>1 DEF Health!Serve
  <2>. QED
    BY <1>2, <1>3, <1>4, <2>1, <2>2
       DEF Running, RunningInv, MainWatcher, OneCaller, CallOK, ServerOK, InForce
<1>5. CASE ~Running
  BY <1>2, <1>3, <1>5 DEF Running, HealthOK
<1>. QED
  BY <1>4, <1>5

LEMMA DaemonInvariance == DaemonSpec => [](TypeOK /\ DaemonInv)
<1>1. DaemonInit => DaemonInv
  BY DaemonInitInv
<1>2. TypeOK /\ DaemonInv /\ [DaemonNext]_daemonVars => DaemonInv'
  <2>. SUFFICES ASSUME TypeOK, DaemonInv, [DaemonNext]_daemonVars PROVE DaemonInv'
    OBVIOUS
  <2>1. CASE UNCHANGED daemonVars
    BY <2>1 DEF daemonVars, vars, healthVars, DaemonInv, HealthOK, Running, RunningInv, MainWatcher,
      OneCaller, CallOK, ServerOK, InForce
  <2>. QED
    BY <2>1, WorldKeeps, MainKeeps, PollerKeeps, CallKeeps, ServeKeeps DEF DaemonNext
<1>. QED
  BY <1>1, <1>2, DaemonWatches, TypeCorrect, PTL DEF DaemonSpec

\* Whatever the settings say, however reloads, edits and other processes interleave: a nil
\* server is never used before main calls Stop, neither by a restart nor by the goroutine
\* that Start leaves behind ("All mutators are safe for concurrent use", health.go:17).
THEOREM NoPanic == DaemonSpec => []NoPanicWhileRunning
<1>1. DaemonInv => NoPanicWhileRunning
  BY DEF DaemonInv, NoPanicWhileRunning
<1>. QED
  BY <1>1, DaemonInvariance, PTL

\* Between reloads the process is bound to the address in force or to none, for any
\* settings and whichever addresses other processes hold.
THEOREM ListenerIsInForce == DaemonSpec => []ListenerFollows
<1>1. DaemonInv => ListenerFollows
  BY DEF DaemonInv, HealthOK, RunningInv, Running, ServerOK, InForce, ListenerFollows
<1>. QED
  BY <1>1, DaemonInvariance, PTL

-----------------------------------------------------------------------------
(* The end of the process, as far as no fairness is needed for it. *)

\* Where main may be inside its Stop, and the steps it has before it there.
LastPlaces == {"checkLast", "shutdownLast", "clearLast"}

StopsLeft ==
    CASE call["main"].at = "checkLast"    -> 3
      [] call["main"].at = "shutdownLast" -> 2
      [] call["main"].at = "clearLast"    -> 1
      [] OTHER                            -> 0

\* The guards of a step of main: of its Stop, or of the deferred Close.
StopReady  == Alive /\ main = "stopping" /\ call["main"].at \in LastPlaces
CloseReady == Alive /\ main = "stopping" /\ call["main"] = Health!Idle

StopPlaced == main = "stopping" => call["main"] = Health!Idle \/ call["main"].at \in LastPlaces

\* What a step does to a main that is stopping: it is main's own and leaves it fewer, or
\* it leaves main where it is.
ShutdownStepTaken ==
    \/ main' = "exited"
    \/ main' = "stopping" /\ CallStep("main") /\ StopsLeft' < StopsLeft
    \/ UNCHANGED <<main, call["main"]>>

LEMMA CallsApart ==
    ASSUME call \in [Callers -> Wanted], NEW c \in Callers, Health!CallStep(c)
    PROVE  \A d \in Callers : d # c => call'[d] = call[d]
BY DEF Health!CallStep, Health!CheckNil, Health!Shutdown, Health!Clear, Health!Rebind,
       Health!Listen, Health!Goto

\* main inside its Stop: from the check to the shutdown, to the clearing, to the end.
LEMMA StopMoves ==
    ASSUME call \in [Callers -> Wanted], call["main"].at \in LastPlaces, Health!CallStep("main")
    PROVE  /\ call'["main"] = Health!Idle \/ call'["main"].at \in LastPlaces
           /\ StopsLeft' < StopsLeft
<1>1. PICK place \in {"idle", "shutdownLast", "clearLast"} :
        /\ Health!Goto("main", place)
        /\ place = "shutdownLast" => call["main"].at = "checkLast"
        /\ place = "clearLast" => call["main"].at = "shutdownLast"
  BY DEF LastPlaces, Health!CallStep, Health!CheckNil, Health!Shutdown, Health!Clear, Health!Rebind,
    Health!Listen, Health!At
<1>2. "main" \in Callers /\ place \in Places
  BY <1>1 DEF Callers, Places
<1>3. call'["main"].at = place
  BY <1>1, <1>2, GotoCall
<1>4. place = "idle" => call'["main"] = Health!Idle
  BY <1>1, <1>2 DEF Health!Goto
<1>. QED
  BY <1>1, <1>3, <1>4 DEF LastPlaces, StopsLeft

LEMMA ShutdownStep ==
    ASSUME DaemonInv, StopPlaced, [DaemonNext]_daemonVars
    PROVE  StopPlaced' /\ (main = "stopping" => ShutdownStepTaken)
<1>. USE DEF StopPlaced, ShutdownStepTaken
<1>0. call \in [Callers -> Wanted] /\ "main" \in Callers /\ "poller" \in Callers /\ "main" # "poller"
  BY DEF DaemonInv, HealthOK, Callers
<1>1. CASE World
  BY <1>1 DEF World, Health!OtherProcess, Health!serverVars, healthVars
<1>2. CASE MainStep
  <2>1. CASE LoadSettings
    BY <2>1 DEF LoadSettings
  <2>2. CASE StartListener
    BY <2>2 DEF StartListener
  <2>3. CASE StartWatcher
    BY <2>3 DEF StartWatcher
  <2>4. CASE StopListener
    <3>1. main = "run" /\ main' = "stopping"
          /\ call' = [call EXCEPT !["main"] = [at |-> "checkLast", want |-> 0]]
      BY <2>4 DEF StopListener, Health!Stop
    <3>2. call'["main"].at = "checkLast"
      BY <1>0, <3>1
    <3>. QED
      BY <3>1, <3>2 DEF LastPlaces
  <2>5. CASE CloseWatcher
    BY <2>5 DEF CloseWatcher
  <2>. QED
    BY <1>2, <2>1, <2>2, <2>3, <2>4, <2>5 DEF MainStep
<1>3. CASE PollerStep
  <2>1. CASE RestartListener
    <3>1. UNCHANGED main /\ Health!Restart("poller", Listener[current])
      BY <2>1 DEF RestartListener
    <3>2. call'["main"] = call["main"]
      BY <1>0, <3>1 DEF Health!Restart
    <3>. QED
      BY <3>1, <3>2
  <2>2. CASE Poll \/ ReloadSettings \/ EndReload
    BY <2>2 DEF Poll, ReloadSettings, EndReload, healthVars
  <2>. QED
    BY <1>3, <2>1, <2>2 DEF PollerStep
<1>4. CASE BeginServe
  BY <1>4 DEF BeginServe, Health!Serve
<1>5. ASSUME NEW c \in Callers, CallStep(c) PROVE StopPlaced' /\ (main = "stopping" => ShutdownStepTaken)
  <2>1. UNCHANGED main /\ Health!CallStep(c)
    BY <1>5 DEF CallStep
  <2>2. CASE c = "main"
    <3>1. call["main"] # Health!Idle
      BY <2>1, <2>2, IdleCall DEF Health!CallStep, Health!CheckNil, Health!Shutdown, Health!Clear,
        Health!Rebind, Health!Listen, Health!At
    <3>. QED
      BY <1>0, <1>5, <2>1, <2>2, <3>1, StopMoves
  <2>3. CASE c # "main"
    BY <1>0, <2>1, <2>3, CallsApart
  <2>. QED
    BY <2>2, <2>3
<1>6. CASE UNCHANGED daemonVars
  BY <1>6 DEF daemonVars, healthVars
<1>. QED
  BY <1>1, <1>2, <1>3, <1>4, <1>5, <1>6 DEF DaemonNext

LEMMA ShutdownInvariance == DaemonSpec => [](DaemonInv /\ StopPlaced)
<1>1. DaemonInit => StopPlaced
  BY DEF DaemonInit, StopPlaced
<1>2. DaemonInv /\ StopPlaced /\ [DaemonNext]_daemonVars => StopPlaced'
  BY ShutdownStep
<1>. QED
  BY <1>1, <1>2, DaemonInvariance, PTL DEF DaemonSpec

\* Until main returns, a step of its own can be taken, whatever the poller does to the
\* listener meanwhile and wherever a reload is: neither Stop nor Close waits for it.  This is
\* what ShutdownEnds needs beside fairness.
THEOREM ShutdownGoesOn ==
    DaemonSpec => [](main = "stopping" /\ ~panicked => StopReady \/ CloseReady)
<1>1. StopPlaced => (main = "stopping" /\ ~panicked => StopReady \/ CloseReady)
  BY DEF StopPlaced, StopReady, CloseReady, Alive
<1>. QED
  BY <1>1, ShutdownInvariance, PTL

\* And the way is short: main takes at most three steps inside Stop and one to close the watcher,
\* and no one else moves it back or holds it where it is.
THEOREM ShutdownRunsOut == DaemonSpec => [][main = "stopping" => ShutdownStepTaken]_daemonVars
<1>1. DaemonInv /\ StopPlaced /\ [DaemonNext]_daemonVars
        => [main = "stopping" => ShutdownStepTaken]_daemonVars
  BY ShutdownStep
<1>. QED
  BY <1>1, ShutdownInvariance, PTL DEF DaemonSpec
=============================================================================
