------------------------------ MODULE MailQueue ------------------------------
(***************************************************************************)
(* Outgoing mail. queueEmail saves a row of the table mail_queue; the      *)
(* subscriber adds a job to the queue emailQueue inside the transaction of *)
(* that save; the email worker takes jobs, sends the mail and writes the   *)
(* outcome into the row. The queue itself is BullMQ over Redis, which is   *)
(* external: its actions here are what the code relies on.                 *)
(***************************************************************************)
EXTENDS Naturals, FiniteSets

CONSTANTS
    Mails,        \* ids of rows of the table mail_queue
    Slots,        \* jobs the workers process at one time (concurrency)
    None,
    MaxAttempts,  \* attempts of a job
    MaxStalled    \* how often a job may lose its worker (maxStalledCount)

ASSUME MailAssumption ==
    /\ IsFiniteSet(Slots)
    /\ None \notin Mails \cup Slots /\ None \notin {"pending", "sent", "error"}
    /\ MaxAttempts \in Nat \ {0} /\ MaxStalled \in Nat

VARIABLES
    tx,        \* tx[m]: the transaction that inserts the row of m
    row,       \* row[m]: the status in the committed row of m, or None
    job,       \* job[m]: where the job of m is
    attempts,  \* attempts[m]: runs of the job that ended with an exception
    stalled,   \* stalled[m]: runs whose worker lost the job
    holder,    \* holder[m]: the slot that holds the lock of the job, or None
    slot,      \* slot[w]: what the processor in slot w does, and for which mail
    copies     \* copies[m]: how often the mail server accepted m

vars == <<tx, row, job, attempts, stalled, holder, slot, copies>>

Ended == {"completed", "failed", "cleaned"}
Free == [pc |-> "idle", mail |-> None]
In(w, pc) == slot[w].pc = pc
Mail(w) == slot[w].mail
Goto(w, pc) == slot' = [slot EXCEPT ![w].pc = pc]

TypeOK ==
    /\ tx \in [Mails -> {"none", "open", "done", "aborted"}]
    /\ row \in [Mails -> {None, "pending", "sent", "error"}]
    /\ job \in [Mails -> {"none", "waiting", "active", "delayed"} \cup Ended]
    /\ attempts \in [Mails -> 0 .. MaxAttempts]
    /\ stalled \in [Mails -> 0 .. MaxStalled + 1]
    /\ holder \in [Mails -> Slots \cup {None}]
    /\ copies \in [Mails -> Nat]
    /\ slot \in [Slots -> {Free} \cup
                   [pc : {"send", "markSent", "markError", "finish", "giveUp"},
                    mail : Mails]]

Init ==
    /\ tx = [m \in Mails |-> "none"]
    /\ row = [m \in Mails |-> None]
    /\ job = [m \in Mails |-> "none"]
    /\ attempts = [m \in Mails |-> 0]
    /\ stalled = [m \in Mails |-> 0]
    /\ holder = [m \in Mails |-> None]
    /\ slot = [w \in Slots |-> Free]
    /\ copies = [m \in Mails |-> 0]

-----------------------------------------------------------------------------
(* queueEmail: save() opens a transaction and inserts the row, afterInsert *)
(* renders the mail and adds its job, and the transaction is committed.    *)

queue == <<attempts, stalled, holder, slot, copies>>

Insert(m) ==
    /\ tx[m] = "none"
    /\ tx' = [tx EXCEPT ![m] = "open"]
    /\ UNCHANGED <<row, job, queue>>

AddJob(m) ==
    /\ tx[m] = "open" /\ job[m] = "none"
    /\ job' = [job EXCEPT ![m] = "waiting"]
    /\ UNCHANGED <<tx, row, queue>>

\* The subscriber awaits the queue before it returns to the transaction; and a
\* subscriber that does not.
AddStarted(m) == TRUE
Added(m) == job[m] # "none"

Commit(m) ==
    /\ tx[m] = "open" /\ Added(m)
    /\ tx' = [tx EXCEPT ![m] = "done"]
    /\ row' = [row EXCEPT ![m] = "pending"]
    /\ UNCHANGED <<job, queue>>

\* The template cannot be rendered, the queue refuses the job or its answer is
\* lost, or the database refuses the commit: save() fails. The job stays.
Rollback(m) ==
    /\ tx[m] = "open"
    /\ tx' = [tx EXCEPT ![m] = "aborted"]
    /\ UNCHANGED <<row, job, queue>>

\* The back office removes the row for good. The job stays.
Delete(m) ==
    /\ row[m] # None
    /\ row' = [row EXCEPT ![m] = None]
    /\ UNCHANGED <<tx, job, queue>>

-----------------------------------------------------------------------------
(* The processor of the email worker. *)

\* sendEmail: an error is logged and thrown on; and one that is swallowed.
AfterSwallowed == "markSent"
AfterRefusal == "markError"

Send(w) ==
    /\ In(w, "send")
    /\ \/ /\ Goto(w, "markSent")
          /\ copies' = [copies EXCEPT ![Mail(w)] = @ + 1]
       \/ Goto(w, AfterRefusal) /\ UNCHANGED copies
       \/ /\ Goto(w, "markError")  \* accepted, but the answer is lost
          /\ copies' = [copies EXCEPT ![Mail(w)] = @ + 1]
    /\ UNCHANGED <<tx, row, job, attempts, stalled, holder>>

\* UPDATE by id: of a row that is deleted, or not yet committed, none.
Write(w, status) ==
    row' = [row EXCEPT ![Mail(w)] = IF @ = None THEN None ELSE status]

\* The row is marked as sent; if that fails, the catch block marks an error.
MarkSent(w) ==
    /\ In(w, "markSent")
    /\ \/ Write(w, "sent") /\ Goto(w, "finish")
       \/ UNCHANGED row /\ Goto(w, "markError")
    /\ UNCHANGED <<tx, job, attempts, stalled, holder, copies>>

\* The catch block: it ends the run as a success unless its own UPDATE fails.
MarkError(w) ==
    /\ In(w, "markError")
    /\ \/ Write(w, "error") /\ Goto(w, "finish")
       \/ UNCHANGED row /\ Goto(w, "giveUp")
    /\ UNCHANGED <<tx, job, attempts, stalled, holder, copies>>

-----------------------------------------------------------------------------
(* BullMQ. *)

Take(w, m) ==
    /\ In(w, "idle") /\ job[m] = "waiting"
    /\ job' = [job EXCEPT ![m] = "active"]
    /\ holder' = [holder EXCEPT ![m] = w]
    /\ slot' = [slot EXCEPT ![w] = [pc |-> "send", mail |-> m]]
    /\ UNCHANGED <<tx, row, attempts, stalled, copies>>

\* A run that lost its lock has no say in what becomes of the job.
Owns(w) == holder[Mail(w)] = w

\* A slot is taken until the processor's promise is settled; and one whose
\* promise never is.
NeverReleased(w) == slot[w]
Released(w) == Free

\* The processor returned: the job is complete and removed.
Finish(w) ==
    /\ In(w, "finish")
    /\ IF Owns(w)
       THEN /\ job' = [job EXCEPT ![Mail(w)] = "completed"]
            /\ holder' = [holder EXCEPT ![Mail(w)] = None]
       ELSE UNCHANGED <<job, holder>>
    /\ slot' = [slot EXCEPT ![w] = Released(w)]
    /\ UNCHANGED <<tx, row, attempts, stalled, copies>>

\* attempts: 3 counts the first one.
OneMoreAttempt(m) == attempts[m] < MaxAttempts
AttemptsLeft(m) == attempts[m] + 1 < MaxAttempts

\* The processor threw: the job is delayed, or has failed.
GiveUp(w) ==
    /\ In(w, "giveUp")
    /\ LET m == Mail(w)
       IN IF Owns(w)
          THEN /\ job' = [job EXCEPT ![m] = IF AttemptsLeft(m) THEN "delayed" ELSE "failed"]
               /\ attempts' = [attempts EXCEPT ![m] = @ + 1]
               /\ holder' = [holder EXCEPT ![m] = None]
          ELSE UNCHANGED <<job, attempts, holder>>
    /\ slot' = [slot EXCEPT ![w] = Released(w)]
    /\ UNCHANGED <<tx, row, stalled, copies>>

\* The backoff of a failed attempt is over.
Backoff(m) ==
    /\ job[m] = "delayed"
    /\ job' = [job EXCEPT ![m] = "waiting"]
    /\ UNCHANGED <<tx, row, queue>>

\* The lock of an active job ran out: it goes back to the queue, or fails.
Stalled(m) ==
    /\ job[m] = "active"
    /\ stalled' = [stalled EXCEPT ![m] = @ + 1]
    /\ holder' = [holder EXCEPT ![m] = None]
    /\ job' = [job EXCEPT ![m] = IF stalled[m] < MaxStalled THEN "waiting" ELSE "failed"]
    /\ UNCHANGED <<tx, row, attempts, slot, copies>>

\* Its worker is gone; or is busy or cut off, and goes on without the lock.
Orphaned(m) == holder[m] = None /\ Stalled(m)
LoseLock(m) == holder[m] # None /\ Stalled(m)

\* workerMaintenance removes failed jobs for good; and one that retries them.
RetriedAgain == "waiting"
AfterMaintenance == "cleaned"

CleanFailed(m) ==
    /\ job[m] = "failed"
    /\ job' = [job EXCEPT ![m] = AfterMaintenance]
    /\ UNCHANGED <<tx, row, queue>>

\* The process ends, with the requests that save and the runs of its worker,
\* and starts again. Redis and the database survive.
Crash ==
    /\ tx' = [m \in Mails |-> IF tx[m] = "open" THEN "aborted" ELSE tx[m]]
    /\ slot' = [w \in Slots |-> Free]
    /\ holder' = [m \in Mails |-> None]
    /\ UNCHANGED <<row, job, attempts, stalled, copies>>

-----------------------------------------------------------------------------
Run(w) == Send(w) \/ MarkSent(w) \/ MarkError(w) \/ Finish(w) \/ GiveUp(w)

Next ==
    \/ \E m \in Mails :
          \/ Insert(m) \/ AddJob(m) \/ Commit(m) \/ Rollback(m) \/ Delete(m)
          \/ Backoff(m) \/ Orphaned(m) \/ LoseLock(m) \/ CleanFailed(m)
          \/ \E w \in Slots : Take(w, m)
    \/ \E w \in Slots : Run(w)
    \/ Crash

Spec == Init /\ [][Next]_vars

\* BullMQ keeps serving its jobs, and every query and every send is answered.
Fairness ==
    /\ \A m \in Mails : /\ WF_vars(\E w \in Slots : Take(w, m))
                        /\ WF_vars(Backoff(m)) /\ WF_vars(Orphaned(m))
    /\ \A w \in Slots : WF_vars(Run(w))

FairSpec == Spec /\ Fairness

-----------------------------------------------------------------------------
(* Properties. *)

\* How often the job was handed to a worker.
Runs(m) == attempts[m] + stalled[m] + IF job[m] \in {"active", "completed"} THEN 1 ELSE 0

\* Whatever is retried, lost, locked twice or left behind by a crash, nobody
\* gets more copies of a mail than the attempts of its job and its stalls allow.
DeliveryBound == \A m \in Mails : copies[m] <= MaxAttempts + MaxStalled

\* No mail is forgotten between the database and the queue: the job of a saved
\* mail that was never tried is waiting.
NeverForgotten ==
    \A m \in Mails : tx[m] = "done" /\ Runs(m) = 0 => job[m] = "waiting"

\* A mail that the back office sees as sent was accepted by the mail server.
SentIsDelivered == \A m \in Mails : row[m] = "sent" => copies[m] > 0

\* The pipeline keeps its promise.
Promise == INSTANCE MailPromise WITH
    Limit <- MaxAttempts + MaxStalled,
    runs <- [m \in Mails |-> Runs(m)],
    ended <- {m \in Mails : job[m] \in Ended}
Promised == Promise!Spec

\* Every job ends, however often its runs throw, stall or crash.
JobsEnd == \A m \in Mails : job[m] = "waiting" ~> job[m] \in Ended
=============================================================================
