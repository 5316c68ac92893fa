-------------------------------- MODULE Cron --------------------------------
(***************************************************************************)
(* The cron jobs (cron.provider.ts, shared/cron-jobs) in the process of    *)
(* Server: executeCron runs a job, logs its failure and saves a row of     *)
(* cron_history. A job is started at its time whether or not its last run  *)
(* has ended, and also while the server stops.                             *)
(***************************************************************************)
EXTENDS Server, Logger

CONSTANTS
    Runs,           \* bound: runs at one time
    Jobs,           \* the jobs
    Settings        \* the lists of levels that the logger may have

ASSUME CronAssumption ==
    /\ Settings \subseteq [levelFile : SUBSET Levels, levelDatabase : SUBSET Levels,
                           levelEmail : SUBSET Levels]
    \* Errors are kept in files, or mailed and so kept when the mail is refused.
    /\ \A s \in Settings : "error" \in s.levelFile \cup s.levelEmail
    /\ None \notin Jobs

VARIABLES
    run,            \* run[r]: an executeCron
    levels          \* the settings of the logger

vars == <<server, run, levels>>

Ticking == phase \in {"listen", "up", "stopping", "closing"}    \* startCronJobs has run
NoRun == [pc |-> "idle", job |-> None, status |-> None, line |-> NoLine, row |-> FALSE]

Init == ServerInit /\ run = [r \in Runs |-> NoRun] /\ levels \in Settings

-----------------------------------------------------------------------------
scheduleCronJob(r) ==
    /\ Ticking /\ run[r].pc = "idle"
    /\ \E j \in Jobs : run' = [run EXCEPT ![r] = [NoRun EXCEPT !.pc = "action", !.job = j]]
    /\ UNCHANGED <<server, levels>>

\* What a job may come to. Most query the database, and finding nothing
\* (NotFoundError) counts as done; cron-time-check uses a function that Postgres
\* lacks; worker-maintenance asks Redis alone.
Outcomes(j) ==
    CASE j = "cron-time-check" -> {"error"}
      [] j = "worker-maintenance" -> {"ok", "error"}
      [] OTHER -> IF database THEN {"ok", "error"} ELSE {"error"}

\* The catch block logs an error.
action(r) ==
    /\ run[r].pc = "action"
    /\ \E status \in Outcomes(run[r].job) :
        run' = [run EXCEPT ![r].pc = "save", ![r].status = status,
                           ![r].line = IF status = "error" THEN Written("error", levels) ELSE NoLine]
    /\ UNCHANGED <<server, levels>>

\* The finally block: a run that took too long and is no error is a warning; the
\* row is saved, or the save fails and the scheduler takes the error.
save(r) ==
    /\ run[r].pc = "save"
    /\ \E status \in {run[r].status} \cup (IF run[r].status = "ok" THEN {"warning"} ELSE {}),
          saved \in IF database THEN BOOLEAN ELSE {FALSE} :
        run' = [run EXCEPT ![r].pc = "saved", ![r].status = status, ![r].row = saved]
    /\ UNCHANGED <<server, levels>>

\* Writes of the line, which executeCron does not wait for. Each may fail, the
\* one to the file too (a full disk); an error that its stream then emits is a
\* Rejection, which may come at any time.
LogWrite(r) ==
    /\ \E x \in run[r].line.pending :
        \/ (x = "database" => database) /\ run' = [run EXCEPT ![r].line = Arrived(@, x)]
        \/ run' = [run EXCEPT ![r].line = Refused(@, x)]
    /\ UNCHANGED <<server, levels>>

Forget(r) ==
    /\ run[r].pc = "saved" /\ run[r].line.pending = {}
    /\ run' = [run EXCEPT ![r] = NoRun]
    /\ UNCHANGED <<server, levels>>

\* What the process does beside; its exit ends every run and every write.
ServerStep ==
    /\ ServerNext
    /\ run' = IF phase' = "exited" THEN [r \in Runs |-> NoRun] ELSE run
    /\ UNCHANGED levels

Next ==
    \/ ServerStep
    \/ \E r \in Runs : scheduleCronJob(r) \/ action(r) \/ save(r) \/ LogWrite(r) \/ Forget(r)

\* The timers of a process fire as long as it runs.
Spec == Init /\ [][Next]_vars /\ WF_vars(ServerStep /\ ForceExit)

-----------------------------------------------------------------------------
(* Properties *)

LineType == [destinations : SUBSET Sinks, pending : SUBSET Sinks, kept : SUBSET Sinks,
             refused : SUBSET Sinks]
TypeOK ==
    /\ phase \in Phases /\ database \in BOOLEAN /\ closing \subseteq closeOperations
    /\ worker \in {"absent", "loading", "running", "stopping"}
    /\ requests \in 0 .. MaxRequests /\ mails \in 0 .. Concurrency
    /\ timer \in BOOLEAN /\ starts \in 1 .. MaxStarts
    /\ timer = TRUE <=> phase \in {"stopping", "closing"}
    /\ run \in [Runs -> [pc : {"idle", "action", "save", "saved"}, job : Jobs \cup {None},
                         status : {None, "ok", "warning", "error"}, line : LineType, row : BOOLEAN]]

\* Until it is answered, a request has the database; whatever stops the process,
\* requests are cut off only when the time is over or the email worker's own
\* signal handler exits first, which leaves none of its jobs behind.
Drained ==
    /\ requests > 0 => database
    /\ exit.cut > 0 => exit.cause \in {"forced", "worker"}
    /\ exit.cause = "worker" => exit.left = 0

\* A failed run of a job that has ended has left a trace, a row or a log line,
\* unless the log file itself refused the line: whenever the database is closed,
\* whatever mail or database refuse, and also when errors are not logged to
\* files. (A file that refuses has no substitute: a line marked as written to it
\* is not mailed.)
FailuresLeaveTrace ==
    \A r \in Runs :
        (run[r].pc = "saved" /\ run[r].status = "error" /\ run[r].line.pending = {}) =>
            run[r].row \/ run[r].line.kept # {} \/ "file" \in run[r].line.refused

\* A shutdown that has begun ends, whatever request or closing hangs.
ShutdownEnds == phase \in {"stopping", "closing"} ~> phase = "exited"
=============================================================================
