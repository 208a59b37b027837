----------------------------- MODULE HealthServer -----------------------------
(***************************************************************************)
(* The status listener: Start, Stop and Restart of                         *)
(* internal/health/health.go, called from more than one goroutine.         *)
(*                                                                         *)
(* httpServer is read and written without the mutex; every read and every  *)
(* write of it is a step of its own.  Start leaves it to a new goroutine   *)
(* to call s.httpServer.Serve, which registers the listener with the       *)
(* server that Shutdown later closes.                                      *)
(*                                                                         *)
(* An address stands for bind and port; 0 for a port of 0, which disables  *)
(* the listener.  The mutex-protected run state of the report is part of   *)
(* module Scheduler.                                                       *)
(***************************************************************************)
EXTENDS Naturals

CONSTANTS Callers,    \* the goroutines that restart or stop the server
          Addresses   \* the addresses of the settings, without the 0 of none

VARIABLES address,    \* bind, port
          httpServer, \* "nil", "open", or "closed" by Shutdown
          registered, \* the listeners that are registered with httpServer
          listening,  \* the addresses this process is bound to
          serving,    \* the listeners whose Serve goroutine has not begun
          busy,       \* addresses that other processes hold
          call,       \* of each caller: where it is and the address it wants
          panicked    \* a nil *http.Server was used: the process is gone

serverVars == <<address, httpServer, registered, listening, serving, panicked>>
vars == <<serverVars, busy, call>>

Idle == [at |-> "idle", want |-> 0]

Init ==
    /\ address = 0
    /\ httpServer = "nil"
    /\ registered = {} /\ listening = {} /\ serving = {}
    /\ busy \in SUBSET Addresses
    /\ call = [c \in Callers |-> Idle]
    /\ panicked = FALSE

At(c, place) == ~panicked /\ call[c].at = place
Goto(c, place) ==
    call' = [call EXCEPT ![c] = IF place = "idle" THEN Idle ELSE [@ EXCEPT !.at = place]]

-----------------------------------------------------------------------------
(* Restart(bind, port), up to its call of Stop. *)

Restart(c, new) ==
    /\ At(c, "idle")
    /\ call' = [call EXCEPT ![c] = IF httpServer # "nil" /\ address = new
                                   THEN Idle ELSE [at |-> "check", want |-> new]]
    /\ UNCHANGED <<serverVars, busy>>

\* Stop on its own: nothing is started afterwards.
Stop(c) ==
    /\ At(c, "idle")
    /\ call' = [call EXCEPT ![c] = [at |-> "checkLast", want |-> 0]]
    /\ UNCHANGED <<serverVars, busy>>

\* Mutant: the check is left out.
SkipCheck(c) ==
    /\ \/ At(c, "check") /\ Goto(c, "shutdown")
       \/ At(c, "checkLast") /\ Goto(c, "shutdownLast")
    /\ UNCHANGED <<serverVars, busy>>

\* if s.httpServer == nil.
CheckNil(c) ==
    /\ \/ At(c, "check") /\ Goto(c, IF httpServer = "nil" THEN "rebind" ELSE "shutdown")
       \/ At(c, "checkLast") /\ Goto(c, IF httpServer = "nil" THEN "idle" ELSE "shutdownLast")
    /\ UNCHANGED <<serverVars, busy>>

\* s.httpServer.Shutdown: the registered listeners are closed at once.
Shutdown(c) ==
    /\ \/ At(c, "shutdown") /\ Goto(c, "clear")
       \/ At(c, "shutdownLast") /\ Goto(c, "clearLast")
    /\ IF httpServer = "nil"
       THEN panicked' = TRUE /\ UNCHANGED <<httpServer, registered, listening>>
       ELSE /\ httpServer' = "closed"
            /\ listening' = listening \ registered
            /\ registered' = {}
            /\ UNCHANGED panicked
    /\ UNCHANGED <<address, serving, busy>>

\* s.httpServer = nil, s.listener = nil.
Clear(c) ==
    /\ \/ At(c, "clear") /\ Goto(c, "rebind")
       \/ At(c, "clearLast") /\ Goto(c, "idle")
    /\ httpServer' = "nil"
    /\ registered' = {}
    /\ UNCHANGED <<address, listening, serving, busy, panicked>>

\* s.bind = bind, s.port = port.
Rebind(c) ==
    /\ At(c, "rebind")
    /\ address' = call[c].want
    /\ Goto(c, IF call[c].want = 0 THEN "idle" ELSE "start")
    /\ UNCHANGED <<httpServer, registered, listening, serving, busy, panicked>>

\* Start: net.Listen, which fails on an address that is taken.
Listen(c) ==
    /\ At(c, "start")
    /\ IF address \in listening \cup busy
       THEN UNCHANGED <<httpServer, registered, listening, serving>>
       ELSE /\ listening' = listening \cup {address}
            /\ httpServer' = "open" /\ registered' = {}
            /\ serving' = serving \cup {address}
    /\ Goto(c, "idle")
    /\ UNCHANGED <<address, busy, panicked>>

\* The goroutine of Start: s.httpServer.Serve(listener).
Serve(a) ==
    /\ ~panicked
    /\ a \in serving
    /\ serving' = serving \ {a}
    /\ \/ httpServer = "nil" /\ panicked' = TRUE /\ UNCHANGED <<registered, listening>>
       \/ httpServer = "open" /\ registered' = registered \cup {a} /\ UNCHANGED <<listening, panicked>>
       \/ httpServer = "closed" /\ listening' = listening \ {a} /\ UNCHANGED <<registered, panicked>>
    /\ UNCHANGED <<address, httpServer, busy, call>>

\* Another process takes or frees an address.
OtherProcess ==
    /\ \E a \in Addresses \ listening : busy' \in {busy \cup {a}, busy \ {a}}
    /\ UNCHANGED <<serverVars, call>>

CallStep(c) == CheckNil(c) \/ Shutdown(c) \/ Clear(c) \/ Rebind(c) \/ Listen(c)
=============================================================================
