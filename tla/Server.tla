------------------------------- MODULE Server -------------------------------
(***************************************************************************)
(* The life of the process (server.ts, bootstrap.ts): it starts step by    *)
(* step, serves requests, and stops on a signal or an unhandled rejection: *)
(* server.close waits for the open requests, then Redis, the queues and    *)
(* the database are closed side by side, and a timer forces the exit. The  *)
(* email worker lives in the same process and has signal handlers of its   *)
(* own (email.worker.ts).                                                  *)
(***************************************************************************)
EXTENDS Naturals, FiniteSets

CONSTANTS
    MaxRequests,    \* bound: requests handled at one time
    Concurrency,    \* jobs that the email worker handles at one time
    MaxStarts,      \* bound: starts of the process
    None

ASSUME ServerAssumption ==
    /\ MaxRequests \in Nat /\ Concurrency \in Nat /\ MaxStarts \in Nat \ {0}
    /\ None \notin STRING

VARIABLES
    phase,      \* how far the process has come
    database,   \* is the data source initialised?
    closing,    \* what closeHandler still waits for
    worker,     \* the email worker: absent, loading, running, stopping
    requests,   \* requests that have no answer yet
    mails,      \* jobs in the email worker
    timer,      \* is the forced shutdown armed?
    exit,       \* what ended the process: the cause, the requests that it
                \* cut off and the jobs of the worker that it left
    starts      \* how often it was started

server == <<phase, database, closing, worker, requests, mails, timer, exit, starts>>

Phases == {"config", "database", "jobs", "listen", "up", "stopping", "closing", "exited"}
Alive == phase # "exited"
closeOperations == {"Redis", "Queues", "Database"}
NoExit == [cause |-> None, cut |-> 0, left |-> 0]

ServerInit ==
    /\ phase = "config" /\ database = FALSE /\ closing = {}
    /\ worker = "absent" /\ requests = 0 /\ mails = 0
    /\ timer = FALSE /\ exit = NoExit /\ starts = 1

Exit(cause) ==
    /\ phase' = "exited" /\ exit' = [cause |-> cause, cut |-> requests, left |-> mails]
    /\ database' = FALSE /\ closing' = {} /\ timer' = FALSE
    /\ worker' = "absent" /\ requests' = 0 /\ mails' = 0
    /\ UNCHANGED starts

\* A process manager starts it again.
Restart ==
    /\ phase = "exited" /\ starts < MaxStarts
    /\ phase' = "config" /\ exit' = NoExit /\ starts' = starts + 1
    /\ UNCHANGED <<database, closing, worker, requests, mails, timer>>

-----------------------------------------------------------------------------
(* Starting *)

idle == <<closing, requests, mails, timer, exit, starts>>

\* validateConfig and initializeI18next; then initDatabase, which may fail.
validateConfig ==
    /\ phase = "config" /\ phase' = "database"
    /\ UNCHANGED <<database, worker, idle>>
initDatabase ==
    /\ phase = "database" /\ phase' = "jobs" /\ database' = TRUE
    /\ UNCHANGED <<worker, idle>>

\* Listeners and queues (whose errors are only logged), the import of the
\* worker that nobody waits for, and the cron jobs.
bootstrap ==
    /\ phase = "jobs" /\ phase' = "listen" /\ worker' = "loading"
    /\ UNCHANGED <<database, idle>>
WorkerLoaded ==
    /\ worker = "loading"
    /\ worker' \in {"running", "absent"}
    /\ UNCHANGED <<phase, database, idle>>

\* createApp, app.listen and, in its callback's turn, setupSignalHandlers.
start ==
    /\ phase = "listen" /\ phase' = "up"
    /\ UNCHANGED <<database, worker, idle>>
StartFails ==
    /\ phase \in {"config", "database", "jobs", "listen"}
    /\ Exit("startup")

-----------------------------------------------------------------------------
(* Serving *)

Request ==
    /\ phase = "up" /\ requests < MaxRequests
    /\ requests' = requests + 1
    /\ UNCHANGED <<phase, database, closing, worker, mails, timer, exit, starts>>
Respond ==
    /\ requests > 0 /\ requests' = requests - 1
    /\ UNCHANGED <<phase, database, closing, worker, mails, timer, exit, starts>>
TakeMail ==
    /\ worker = "running" /\ mails < Concurrency
    /\ mails' = mails + 1
    /\ UNCHANGED <<phase, database, closing, worker, requests, timer, exit, starts>>
FinishMail ==
    /\ mails > 0 /\ mails' = mails - 1
    /\ UNCHANGED <<phase, database, closing, worker, requests, timer, exit, starts>>

-----------------------------------------------------------------------------
(* Stopping *)

\* shutdown: once; server.close, and the timer beside it. (And: the requests are
\* not waited for; and: no timer is armed.)
CloseAtOnce ==
    IF phase = "up" THEN phase' = "closing" /\ timer' = TRUE /\ closing' = closeOperations
    ELSE UNCHANGED <<phase, timer, closing>>
NeverArmed == phase' = (IF phase = "up" THEN "stopping" ELSE phase) /\ UNCHANGED <<timer, closing>>
shutdown ==
    IF phase = "up" THEN phase' = "stopping" /\ timer' = TRUE /\ UNCHANGED closing
    ELSE UNCHANGED <<phase, timer, closing>>

\* SIGINT or SIGTERM: every handler that is installed runs. Without any, the
\* process dies.
Signal ==
    /\ Alive
    /\ IF phase \in {"up", "stopping", "closing"} \/ worker \in {"running", "stopping"}
       THEN /\ shutdown
            /\ worker' = IF worker = "running" THEN "stopping" ELSE worker
            /\ UNCHANGED <<database, requests, mails, exit, starts>>
       ELSE Exit("signal")

\* An unhandled rejection or an uncaught exception; before setupSignalHandlers
\* the process dies.
Rejection ==
    /\ Alive
    /\ IF phase \in {"up", "stopping", "closing"}
       THEN shutdown /\ UNCHANGED <<database, worker, requests, mails, exit, starts>>
       ELSE Exit("rejection")

\* emailWorker.close waits for its jobs; then its handler exits the process.
WorkerClosed ==
    /\ worker = "stopping" /\ mails = 0
    /\ Exit("worker")

\* The callback of server.close. (And: it disarms the timer.)
CloseStarts(armed) ==
    /\ phase = "stopping" /\ requests = 0
    /\ phase' = "closing" /\ closing' = closeOperations /\ timer' = armed
    /\ UNCHANGED <<database, worker, requests, mails, exit, starts>>
ServerClosedDisarmed == CloseStarts(FALSE)
ServerClosed == CloseStarts(timer)

\* closeHandler: the operations end in any order, an error is only logged, one
\* may never end. (closeFileStreams is called on a new LogStream and does nothing.)
closeHandler ==
    /\ phase = "closing"
    /\ \E x \in closing :
        /\ closing' = closing \ {x}
        /\ database' = (database /\ x # "Database")
    /\ UNCHANGED <<phase, worker, requests, mails, timer, exit, starts>>
Closed == phase = "closing" /\ closing = {} /\ Exit("clean")
ForceExit == timer /\ Exit("forced")

ServerNext ==
    \/ validateConfig \/ initDatabase \/ bootstrap \/ WorkerLoaded \/ start \/ StartFails
    \/ Request \/ Respond \/ TakeMail \/ FinishMail
    \/ Signal \/ Rejection \/ WorkerClosed \/ ServerClosed \/ closeHandler \/ Closed \/ ForceExit
    \/ Restart
=============================================================================
