---------------------------- MODULE GracefulShutdown ----------------------------
(* The process from its start to its end: run in cmd/api/main.go with the calls *)
(* that prepare the server, httpserver.Run (internal/platform/httpserver), the *)
(* goroutine it starts, main's exit status, and of net/http.Server what Run    *)
(* relies on.  Shutdown closes the listener and connections that carry no      *)
(* request, waits for those that do, and gives up at its deadline, which leaves *)
(* the connections it was waiting for as they are.                             *)
EXTENDS Naturals

CONSTANTS
    Conns,      \* the connections of a behaviour, one request each
    Resources   \* how many closers Run is given

ASSUME ResourcesAreCounted == Resources \in Nat

VARIABLES
    run,        \* where main's run is, and httpserver.Run after it
    listener,   \* the goroutine with ListenAndServe
    errCh,      \* an error is waiting in the channel
    signalled,  \* ctx is done: SIGINT or SIGTERM has come
    conn,       \* conn[c]
    closed,     \* how many closers have been closed, in order
    status      \* the exit status of the process

vars == <<run, listener, errCh, signalled, conn, closed, status>>

RunStates == {"loading", "database", "redis", "serving", "draining", "closing", "failed", "timed_out", "succeeded"}

(* open: accepted, and no request has been read from it; shut: closed by the   *)
(* server without a request; cut: lost in the middle of one                    *)
ConnStates == {"none", "open", "active", "answered", "shut", "cut"}

Alive == status = "running"

TypeOK ==
    /\ run \in RunStates
    /\ listener \in {"none", "starting", "listening", "stopped"}
    /\ errCh \in BOOLEAN
    /\ signalled \in BOOLEAN
    /\ conn \in [Conns -> ConnStates]
    /\ closed \in 0 .. Resources
    /\ status \in {"running", "0", "1", "killed"}
    /\ run \in {"draining", "closing", "timed_out", "succeeded"} => signalled /\ listener # "listening"
    /\ closed > 0 => run \in {"closing", "succeeded"}
    /\ status = "0" => run = "succeeded"

Init ==
    /\ run = "loading"
    /\ listener = "none"
    /\ errCh = FALSE
    /\ signalled = FALSE
    /\ conn = [c \in Conns |-> "none"]
    /\ closed = 0
    /\ status = "running"

-------------------------------------------------------------------------------
(* run in main.go, 46-61 *)

(* Load reads the file and the environment and validates; then NotifyContext.  *)
LoadConfig ==
    /\ Alive /\ run = "loading"
    /\ run' \in {"database", "failed"}
    /\ UNCHANGED <<listener, errCh, signalled, conn, closed, status>>

(* sqlx.Connect pings MySQL, with no deadline and without ctx.                 *)
ConnectDatabase ==
    /\ Alive /\ run = "database"
    /\ run' \in {"redis", "failed"}
    /\ UNCHANGED <<listener, errCh, signalled, conn, closed, status>>

(* cache.Connect; a signal may make its PING fail.  Then Run, whose goroutine  *)
(* is to listen.                                                               *)
ConnectRedis ==
    /\ Alive /\ run = "redis"
    /\ \/ run' = "serving" /\ listener' = "starting"
       \/ run' = "failed" /\ UNCHANGED listener
    /\ UNCHANGED <<errCh, signalled, conn, closed, status>>

-------------------------------------------------------------------------------
(* The goroutine, 36-41, and the connections it serves *)

(* The port is bound, unless Shutdown was called first: then ErrServerClosed.  *)
Listen ==
    /\ Alive /\ listener = "starting"
    /\ listener' = IF run = "serving" THEN "listening" ELSE "stopped"
    /\ UNCHANGED <<run, errCh, signalled, conn, closed, status>>

(* The port is taken, or Accept fails for good. *)
ListenFails ==
    /\ Alive /\ listener \in {"starting", "listening"}
    /\ listener' = "stopped"
    /\ errCh' = TRUE
    /\ UNCHANGED <<run, signalled, conn, closed, status>>

Move(c, from, to) ==
    /\ Alive
    /\ conn[c] = from
    /\ conn' = [conn EXCEPT ![c] = to]
    /\ UNCHANGED <<run, listener, errCh, signalled, closed, status>>

Accept(c) == listener = "listening" /\ Move(c, "none", "open")

ReadRequest(c) == Move(c, "open", "active")

Answer(c) == Move(c, "active", "answered")

(* Shutdown closes what carries no request. *)
ShutIdle(c) == run = "draining" /\ Move(c, "open", "shut")

-------------------------------------------------------------------------------
(* Run, 43-64 *)

(* Until NotifyContext a signal kills the process; then the first one ends ctx *)
(* and later ones have no effect.                                              *)
Signal ==
    /\ Alive /\ ~signalled
    /\ signalled' = TRUE
    /\ status' = IF run = "loading" THEN "killed" ELSE status
    /\ UNCHANGED <<run, listener, errCh, conn, closed>>

(* With both cases ready the select takes either. *)
TakeError ==
    /\ Alive /\ run = "serving" /\ errCh
    /\ run' = "failed"
    /\ errCh' = FALSE
    /\ UNCHANGED <<listener, signalled, conn, closed, status>>

(* Shutdown returns nil as soon as it finds no connection left.                *)
Quiescent == \A c \in Conns : conn[c] \notin {"open", "active"}

(* Shutdown closes the listener and has a first look. *)
TakeSignalLoose ==
    /\ Alive /\ run = "serving" /\ signalled
    /\ run' = IF Quiescent THEN "closing" ELSE "draining"
    /\ UNCHANGED <<listener, errCh, signalled, conn, closed, status>>

TakeSignal ==
    /\ Alive /\ run = "serving" /\ signalled
    /\ run' = IF Quiescent THEN "closing" ELSE "draining"
    /\ listener' = IF listener = "listening" THEN "stopped" ELSE listener
    /\ UNCHANGED <<errCh, signalled, conn, closed, status>>

Drained ==
    /\ Alive /\ run = "draining" /\ Quiescent
    /\ run' = "closing"
    /\ UNCHANGED <<listener, errCh, signalled, conn, closed, status>>

(* Shutdown returns an error: shutdownCtx has reached its deadline, before the *)
(* last connection went or before Shutdown looked again.  Run returns at once. *)
HasDeadlineLoose == FALSE

HasDeadline == TRUE

DrainFailsLoose ==
    /\ Alive /\ run = "draining" /\ HasDeadline
    /\ run' = "closing"
    /\ UNCHANGED <<listener, errCh, signalled, conn, closed, status>>

DrainFails ==
    /\ Alive /\ run = "draining" /\ HasDeadline
    /\ run' = "timed_out"
    /\ UNCHANGED <<listener, errCh, signalled, conn, closed, status>>

(* 57-61: the next closer; whether Close returns an error makes no difference. *)
Close ==
    /\ Alive /\ run = "closing" /\ closed < Resources
    /\ closed' = closed + 1
    /\ UNCHANGED <<run, listener, errCh, signalled, conn, status>>

Return ==
    /\ Alive /\ run = "closing" /\ closed = Resources
    /\ run' = "succeeded"
    /\ UNCHANGED <<listener, errCh, signalled, conn, closed, status>>

(* main returns, or calls os.Exit(1); every other goroutine ends with it.      *)
Exit ==
    /\ Alive /\ run \in {"failed", "timed_out", "succeeded"}
    /\ status' = IF run = "succeeded" THEN "0" ELSE "1"
    /\ conn' = [c \in Conns |-> IF conn[c] \in {"open", "active"} THEN "cut" ELSE conn[c]]
    /\ UNCHANGED <<run, listener, errCh, signalled, closed>>

RunStep ==
    \/ LoadConfig \/ ConnectRedis
    \/ TakeError \/ TakeSignal \/ Drained \/ DrainFails \/ Close \/ Return \/ Exit

Next ==
    \/ RunStep \/ ConnectDatabase
    \/ Listen \/ ListenFails \/ Signal
    \/ \E c \in Conns : Accept(c) \/ ReadRequest(c) \/ Answer(c) \/ ShutIdle(c)

(* The main goroutine is scheduled, go-redis gives up a PING by its time       *)
(* limits and the timer of shutdownCtx fires; nothing is assumed of MySQL nor  *)
(* of handlers: a ping or a request may take for ever.                         *)
Spec == Init /\ [][Next]_vars /\ WF_vars(RunStep)

-------------------------------------------------------------------------------
(* Properties *)

(* No handler runs after the pool or the Redis client under it was closed,     *)
(* even one whose connection was accepted as the signal came, and after a      *)
(* clean exit no request has been lost (server.go:1-4, 53-61).                 *)
NoUseAfterClose ==
    /\ closed > 0 => \A c \in Conns : conn[c] \notin {"open", "active"}
    /\ status = "0" => \A c \in Conns : conn[c] # "cut"

(* The process ends after a signal, and after its listener has failed,         *)
(* whatever the handlers do ("bounded by a timeout", server.go:3), unless the  *)
(* signal meets it at start-up in a ping that MySQL never answers (main.go:56). *)
SignalEndsProcess == signalled \/ errCh ~> ~Alive \/ run = "database"

(* server.go:1-4: on cancellation Run "stops accepting new connections", waits *)
(* for requests "(bounded by a timeout), then closes the supplied resources    *)
(* (DB pool, Redis client, ...)".                                              *)
ResourcesAreClosed == run \in {"timed_out", "succeeded"} => closed = Resources

================================================================================
