---------------------------- MODULE ProcessProofs ----------------------------
(***************************************************************************)
(* What holds of the process for any number of requests, mails, starts and *)
(* runs of jobs: its types, what a stop may cut off, and that a failed job *)
(* leaves a trace.                                                         *)
(***************************************************************************)
EXTENDS Cron, TLAPS

(***************************************************************************)
(* The server by itself.                                                   *)
(***************************************************************************)

ServerType ==
    /\ phase \in Phases /\ database \in BOOLEAN /\ closing \subseteq closeOperations
    /\ worker \in {"absent", "loading", "running", "stopping"}
    /\ requests \in 0 .. MaxRequests /\ mails \in 0 .. Concurrency
    /\ timer \in BOOLEAN /\ starts \in 1 .. MaxStarts
    /\ timer = TRUE <=> phase \in {"stopping", "closing"}

\* Where there are requests, and where the database is.
Serving ==
    /\ requests > 0 => phase \in {"up", "stopping"}
    /\ phase \in {"jobs", "listen", "up", "stopping"} => database
    /\ Drained

ServerInv == ServerType /\ Serving

LEMMA ServerStart == ServerInit => ServerInv
<1> SUFFICES ASSUME ServerInit PROVE ServerInv
  OBVIOUS
<1>a. 0 \in 0 .. MaxRequests /\ 0 \in 0 .. Concurrency /\ 1 \in 1 .. MaxStarts
  BY ServerAssumption
<1>1. ServerType
  BY <1>a DEF ServerInit, ServerType, Phases
<1>2. Serving
  BY DEF ServerInit, Serving, Drained, NoExit
<1> QED
  BY <1>1, <1>2 DEF ServerInv

\* A process that ends has no state left.
LEMMA ServerExit ==
    ASSUME ServerInv, NEW cause, Exit(cause),
           requests > 0 => cause \in {"forced", "worker"}, cause = "worker" => mails = 0
    PROVE  ServerInv'
<1>1. exit'.cut = requests /\ exit'.cause = cause /\ exit'.left = mails
  BY DEF Exit
<1>2. /\ phase' = "exited" /\ database' = FALSE /\ closing' = {} /\ timer' = FALSE
      /\ worker' = "absent" /\ requests' = 0 /\ mails' = 0 /\ starts' = starts
  BY DEF Exit
<1>3. starts \in 1 .. MaxStarts
  BY DEF ServerInv, ServerType
<1>a. 0 \in 0 .. MaxRequests /\ 0 \in 0 .. Concurrency
  BY ServerAssumption
<1>4. ServerType'
  BY <1>2, <1>3, <1>a DEF ServerType, Phases
<1>5. Drained'
  BY <1>1, <1>2 DEF Drained
<1>6. Serving'
  BY <1>2, <1>5 DEF Serving
<1> QED
  BY <1>4, <1>6 DEF ServerInv

LEMMA ServerShutdown ==
    ASSUME ServerInv, shutdown, UNCHANGED <<database, requests, mails, exit, starts>>,
           worker' \in {"absent", "loading", "running", "stopping"}
    PROVE  ServerInv'
<1>1. CASE phase = "up"
  <2>1. ServerType'
    BY <1>1 DEF ServerInv, ServerType, shutdown, Phases
  <2>2. Serving'
    BY <1>1 DEF ServerInv, Serving, Drained, shutdown
  <2> QED
    BY <2>1, <2>2 DEF ServerInv
<1>2. CASE phase # "up"
  <2>1. ServerType'
    BY <1>2 DEF ServerInv, ServerType, shutdown
  <2>2. Serving'
    BY <1>2 DEF ServerInv, Serving, Drained, shutdown
  <2> QED
    BY <2>1, <2>2 DEF ServerInv
<1> QED
  BY <1>1, <1>2

LEMMA ServerKeeps == ServerInv /\ (ServerNext \/ UNCHANGED server) => ServerInv'
<1> SUFFICES ASSUME ServerInv, ServerNext \/ UNCHANGED server PROVE ServerInv'
  OBVIOUS
<1>1. CASE UNCHANGED server
  BY <1>1 DEF server, ServerInv, ServerType, Serving, Drained
<1>2. CASE validateConfig \/ initDatabase \/ bootstrap \/ WorkerLoaded \/ start
  BY <1>2 DEF validateConfig, initDatabase, bootstrap, WorkerLoaded, start, idle, ServerInv,
     ServerType, Serving, Drained, Phases
<1>3. CASE StartFails
  BY <1>3, ServerExit DEF StartFails, ServerInv, ServerType, Serving
<1>4. CASE Request \/ Respond
  BY <1>4, ServerAssumption DEF Request, Respond, ServerInv, ServerType, Serving, Drained
<1>5. CASE TakeMail \/ FinishMail
  BY <1>5, ServerAssumption DEF TakeMail, FinishMail, ServerInv, ServerType, Serving, Drained
<1>6. CASE Signal
  <2>1. CASE phase \in {"up", "stopping", "closing"} \/ worker \in {"running", "stopping"}
    BY <1>6, <2>1, ServerShutdown DEF Signal, ServerInv, ServerType
  <2>2. CASE ~(phase \in {"up", "stopping", "closing"} \/ worker \in {"running", "stopping"})
    BY <1>6, <2>2, ServerExit DEF Signal, ServerInv, Serving
  <2> QED
    BY <2>1, <2>2
<1>7. CASE Rejection
  <2>1. CASE phase \in {"up", "stopping", "closing"}
    BY <1>7, <2>1, ServerShutdown DEF Rejection, ServerInv, ServerType
  <2>2. CASE phase \notin {"up", "stopping", "closing"}
    BY <1>7, <2>2, ServerExit DEF Rejection, ServerInv, Serving
  <2> QED
    BY <2>1, <2>2
<1>8. CASE WorkerClosed
  BY <1>8, ServerExit DEF WorkerClosed
<1>9. CASE ServerClosed
  BY <1>9 DEF ServerClosed, CloseStarts, ServerInv, ServerType, Serving, Drained, Phases
<1>10. CASE closeHandler
  BY <1>10 DEF closeHandler, ServerInv, ServerType, Serving, Drained
<1>11. CASE Closed
  BY <1>11, ServerExit DEF Closed, ServerInv, Serving
<1>12. CASE ForceExit
  BY <1>12, ServerExit DEF ForceExit
<1>13. CASE Restart
  BY <1>13, ServerAssumption DEF Restart, NoExit, ServerInv, ServerType, Serving, Drained, Phases
<1> QED
  BY <1>1, <1>2, <1>3, <1>4, <1>5, <1>6, <1>7, <1>8, <1>9, <1>10, <1>11, <1>12, <1>13
  DEF ServerNext

(***************************************************************************)
(* A log line. A refused mail goes to the file unless it is marked as      *)
(* written there; a line that a file refused is in its set of refusals.    *)
(***************************************************************************)

FileStays(l) == "file" \in l.destinations => "file" \in l.pending \cup l.kept \cup l.refused
Traced(l) == (l.pending \cup l.kept) \cap {"file", "email"} # {} \/ "file" \in l.refused

LEMMA NoLineHolds == NoLine \in LineType /\ FileStays(NoLine)
BY DEF NoLine, LineType, FileStays

LEMMA WriteToFile ==
    ASSUME NEW l \in LineType, FileStays(l)
    PROVE  /\ writeToFile(l) \in LineType /\ FileStays(writeToFile(l)) /\ Traced(writeToFile(l))
           /\ writeToFile(l).kept = l.kept
<1>1. CASE "file" \in l.destinations
  BY <1>1 DEF writeToFile, FileStays, Traced
<1>2. CASE "file" \notin l.destinations
  <2>1. writeToFile(l) = [destinations |-> l.destinations \cup {"email", "file"},
                          pending |-> l.pending \cup {"file"}, kept |-> l.kept,
                          refused |-> l.refused]
    BY <1>2 DEF writeToFile, LineType
  <2> QED
    BY <2>1 DEF LineType, Sinks, FileStays, Traced
<1> QED
  BY <1>1, <1>2

LEMMA WriteToDatabase ==
    ASSUME NEW l \in LineType, FileStays(l)
    PROVE  /\ writeToDatabase(l) \in LineType /\ FileStays(writeToDatabase(l))
           /\ Traced(l) => Traced(writeToDatabase(l))
           /\ "email" \in writeToDatabase(l).destinations <=> "email" \in l.destinations
<1>1. CASE "database" \in l.destinations
  BY <1>1 DEF writeToDatabase
<1>2. CASE "database" \notin l.destinations
  <2>1. writeToDatabase(l) = [destinations |-> l.destinations \cup {"database"},
                              pending |-> l.pending \cup {"database"}, kept |-> l.kept,
                              refused |-> l.refused]
    BY <1>2 DEF writeToDatabase, LineType
  <2> QED
    BY <2>1 DEF LineType, Sinks, FileStays, Traced
<1> QED
  BY <1>1, <1>2

LEMMA SendToEmail ==
    ASSUME NEW l \in LineType, FileStays(l)
    PROVE  /\ sendToEmail(l) \in LineType /\ FileStays(sendToEmail(l))
           /\ Traced(l) \/ "email" \notin l.destinations => Traced(sendToEmail(l))
<1>1. CASE "email" \in l.destinations
  BY <1>1 DEF sendToEmail
<1>2. CASE "email" \notin l.destinations
  <2>1. sendToEmail(l) = [destinations |-> l.destinations \cup {"database"},
                          pending |-> l.pending \cup {"email"}, kept |-> l.kept,
                          refused |-> l.refused]
    BY <1>2 DEF sendToEmail, LineType
  <2> QED
    BY <2>1 DEF LineType, Sinks, FileStays, Traced
<1> QED
  BY <1>1, <1>2

\* An error is written to a file, or mailed.
LEMMA ErrorTraced ==
    ASSUME NEW s \in Settings
    PROVE  /\ Written("error", s) \in LineType /\ FileStays(Written("error", s))
           /\ Traced(Written("error", s))
<1> DEFINE toFile == IF "error" \in s.levelFile THEN writeToFile(NoLine) ELSE NoLine
           toDatabase == IF "error" \in s.levelDatabase THEN writeToDatabase(toFile) ELSE toFile
<1>1. Written("error", s) = IF "error" \in s.levelEmail THEN sendToEmail(toDatabase) ELSE toDatabase
  BY DEF Written
<1>2. "error" \in s.levelFile \/ "error" \in s.levelEmail
  BY CronAssumption
<1>3. /\ toFile \in LineType /\ FileStays(toFile)
      /\ "error" \in s.levelFile => Traced(toFile)
      /\ "error" \notin s.levelFile => "email" \notin toFile.destinations
  BY NoLineHolds, WriteToFile DEF NoLine
<1> HIDE DEF toFile
<1>4. /\ toDatabase \in LineType /\ FileStays(toDatabase)
      /\ "error" \in s.levelFile => Traced(toDatabase)
      /\ "error" \notin s.levelFile => "email" \notin toDatabase.destinations
  BY <1>3, WriteToDatabase
<1> HIDE DEF toDatabase
<1> QED
  BY <1>1, <1>2, <1>4, SendToEmail

LEMMA ArrivedKeeps ==
    ASSUME NEW l \in LineType, FileStays(l), NEW x \in l.pending
    PROVE  /\ Arrived(l, x) \in LineType /\ FileStays(Arrived(l, x))
           /\ Traced(l) => Traced(Arrived(l, x))
<1>1. Arrived(l, x) = [destinations |-> l.destinations, pending |-> l.pending \ {x},
                       kept |-> l.kept \cup {x}, refused |-> l.refused]
  <2>1. l \in [destinations : SUBSET Sinks, pending : SUBSET Sinks, kept : SUBSET Sinks,
               refused : SUBSET Sinks]
    BY DEF LineType
  <2>2. Arrived(l, x) = [l EXCEPT !.pending = l.pending \ {x}, !.kept = l.kept \cup {x}]
    BY DEF Arrived
  <2> QED
    BY <2>1, <2>2
<1>2. l.pending \ {x} \in SUBSET Sinks /\ l.kept \cup {x} \in SUBSET Sinks
  BY DEF LineType
<1>3. (l.pending \ {x}) \cup (l.kept \cup {x}) = l.pending \cup l.kept
  OBVIOUS
<1>4. Arrived(l, x) \in LineType
  BY <1>1, <1>2 DEF LineType
<1>5. FileStays(Arrived(l, x)) /\ (Traced(l) => Traced(Arrived(l, x)))
  BY <1>1, <1>3 DEF FileStays, Traced
<1> QED
  BY <1>4, <1>5

LEMMA RefusedKeeps ==
    ASSUME NEW l \in LineType, FileStays(l), NEW x \in l.pending
    PROVE  /\ Refused(l, x) \in LineType /\ FileStays(Refused(l, x))
           /\ Traced(l) => Traced(Refused(l, x))
<1> DEFINE rest == [l EXCEPT !.pending = @ \ {x}, !.refused = @ \cup {x}]
<1>1. rest = [destinations |-> l.destinations, pending |-> l.pending \ {x}, kept |-> l.kept,
              refused |-> l.refused \cup {x}]
  <2>1. l \in [destinations : SUBSET Sinks, pending : SUBSET Sinks, kept : SUBSET Sinks,
               refused : SUBSET Sinks]
    BY DEF LineType
  <2>2. rest = [l EXCEPT !.pending = l.pending \ {x}, !.refused = l.refused \cup {x}]
    OBVIOUS
  <2> HIDE DEF rest
  <2> QED
    BY <2>1, <2>2
<1>a. l.pending \ {x} \in SUBSET Sinks /\ l.refused \cup {x} \in SUBSET Sinks
  BY DEF LineType
<1>2. rest \in LineType /\ FileStays(rest)
  BY <1>1, <1>a DEF LineType, FileStays
<1>3. x # "email" /\ Traced(l) => Traced(rest)
  BY <1>1 DEF Traced
<1>4. Refused(l, x) = IF x = "email" THEN writeToFile(rest) ELSE rest
  BY DEF Refused
<1> HIDE DEF rest
<1> QED
  BY <1>2, <1>3, <1>4, WriteToFile

(***************************************************************************)
(* The runs of jobs.                                                       *)
(***************************************************************************)

RunSet == [pc : {"idle", "action", "save", "saved"}, job : Jobs \cup {None},
           status : {None, "ok", "warning", "error"}, line : LineType, row : BOOLEAN]

\* One run: the failure of a run past its catch block is in its log line.
RunHolds(x) ==
    /\ x \in RunSet
    /\ FileStays(x.line)
    /\ x.pc \in {"save", "saved"} /\ x.status = "error" => Traced(x.line)

RunInv ==
    /\ levels \in Settings
    /\ DOMAIN run = Runs /\ run = [r \in Runs |-> run[r]]
    /\ \A r \in Runs : RunHolds(run[r])

Inv == ServerInv /\ RunInv

LEMMA NoRunHolds == RunHolds(NoRun)
BY NoLineHolds DEF RunHolds, NoRun, RunSet

\* One run moves; the others and the settings stay.
LEMMA RunMoves ==
    ASSUME RunInv, NEW r \in Runs, NEW x, RunHolds(x), run' = [run EXCEPT ![r] = x],
           levels' = levels
    PROVE  RunInv'
<1>1. \A q \in Runs : run'[q] = IF q = r THEN x ELSE run[q]
  BY DEF RunInv
<1>2. \A q \in Runs : RunHolds(run'[q])
  BY <1>1 DEF RunInv
<1>3. DOMAIN run' = Runs /\ run' = [q \in Runs |-> run'[q]]
  BY DEF RunInv
<1> QED
  BY <1>2, <1>3 DEF RunInv

LEMMA ActionKeeps == ASSUME RunInv, NEW r \in Runs, action(r) PROVE RunInv'
<1>1. PICK status \in Outcomes(run[r].job) :
        run' = [run EXCEPT ![r].pc = "save", ![r].status = status,
                           ![r].line = IF status = "error" THEN Written("error", levels) ELSE NoLine]
  BY DEF action
<1>2. status \in {"ok", "error"}
  BY <1>1 DEF Outcomes
<1> DEFINE line == IF status = "error" THEN Written("error", levels) ELSE NoLine
           x == [run[r] EXCEPT !.pc = "save", !.status = status, !.line = line]
<1>3. line \in LineType /\ FileStays(line) /\ (status = "error" => Traced(line))
  BY ErrorTraced, NoLineHolds DEF RunInv
<1>4. run' = [run EXCEPT ![r] = x]
  BY <1>1 DEF RunInv
<1> HIDE DEF line
<1>5. RunHolds(x)
  BY <1>2, <1>3 DEF RunInv, RunHolds, RunSet
<1>6. levels' = levels
  BY DEF action
<1> HIDE DEF x
<1> QED
  BY <1>4, <1>5, <1>6, RunMoves

LEMMA SaveKeeps == ASSUME RunInv, NEW r \in Runs, save(r) PROVE RunInv'
<1>1. PICK status \in {run[r].status} \cup (IF run[r].status = "ok" THEN {"warning"} ELSE {}),
           saved \in IF database THEN BOOLEAN ELSE {FALSE} :
        run' = [run EXCEPT ![r].pc = "saved", ![r].status = status, ![r].row = saved]
  BY DEF save
<1> DEFINE x == [run[r] EXCEPT !.pc = "saved", !.status = status, !.row = saved]
<1>2. saved \in BOOLEAN /\ (status = run[r].status \/ status = "warning")
  BY <1>1
<1>3. run' = [run EXCEPT ![r] = x]
  BY <1>1 DEF RunInv
<1>4. run[r].pc = "save"
  BY DEF save
<1>5. RunHolds(x)
  BY <1>2, <1>4 DEF RunInv, RunHolds, RunSet
<1>6. levels' = levels
  BY DEF save
<1> HIDE DEF x
<1> QED
  BY <1>3, <1>5, <1>6, RunMoves

LEMMA LogWriteKeeps == ASSUME RunInv, NEW r \in Runs, LogWrite(r) PROVE RunInv'
<1>1. PICK x \in run[r].line.pending :
        \/ run' = [run EXCEPT ![r].line = Arrived(@, x)]
        \/ run' = [run EXCEPT ![r].line = Refused(@, x)]
  BY DEF LogWrite
<1>2. levels' = levels
  BY DEF LogWrite
<1>3. RunHolds(run[r]) /\ run[r].line \in LineType /\ FileStays(run[r].line)
  BY DEF RunInv, RunHolds, RunSet
<1>4. ASSUME NEW l, l \in LineType, FileStays(l), Traced(run[r].line) => Traced(l),
             run' = [run EXCEPT ![r].line = l]
      PROVE  RunInv'
  <2> DEFINE y == [run[r] EXCEPT !.line = l]
  <2>1. run' = [run EXCEPT ![r] = y]
    BY <1>4 DEF RunInv
  <2>2. RunHolds(y)
    BY <1>3, <1>4 DEF RunHolds, RunSet
  <2> HIDE DEF y
  <2> QED
    BY <1>2, <2>1, <2>2, RunMoves
<1>5. CASE run' = [run EXCEPT ![r].line = Arrived(@, x)]
  <2>1. run' = [run EXCEPT ![r].line = Arrived(run[r].line, x)]
    BY <1>5 DEF RunInv
  <2> QED
    BY <1>3, <1>4, <2>1, ArrivedKeeps
<1>6. CASE run' = [run EXCEPT ![r].line = Refused(@, x)]
  <2>1. run' = [run EXCEPT ![r].line = Refused(run[r].line, x)]
    BY <1>6 DEF RunInv
  <2> QED
    BY <1>3, <1>4, <1>6, <2>1, RefusedKeeps
<1> QED
  BY <1>1, <1>5, <1>6

LEMMA Start == Init => Inv
<1> SUFFICES ASSUME Init PROVE Inv
  OBVIOUS
<1>1. run = [r \in Runs |-> NoRun] /\ levels \in Settings
  BY DEF Init
<1>2. RunInv
  BY <1>1, NoRunHolds DEF RunInv
<1> QED
  BY <1>2, ServerStart DEF Init, Inv

LEMMA Keeps == Inv /\ [Next]_vars => Inv'
<1> SUFFICES ASSUME Inv, [Next]_vars PROVE Inv'
  OBVIOUS
<1>1. CASE ServerStep
  <2>1. ServerInv'
    BY <1>1, ServerKeeps DEF ServerStep, Inv
  <2>2. run' = (IF phase' = "exited" THEN [r \in Runs |-> NoRun] ELSE run) /\ levels' = levels
    BY <1>1 DEF ServerStep
  <2>3. RunInv'
    BY <2>2, NoRunHolds DEF Inv, RunInv
  <2> QED
    BY <2>1, <2>3 DEF Inv
<1>2. ASSUME NEW r \in Runs,
             scheduleCronJob(r) \/ action(r) \/ save(r) \/ LogWrite(r) \/ Forget(r)
      PROVE  Inv'
  <2>1. UNCHANGED server
    BY <1>2 DEF scheduleCronJob, action, save, LogWrite, Forget
  <2>2. ASSUME scheduleCronJob(r) PROVE RunInv'
    <3>1. PICK j \in Jobs : run' = [run EXCEPT ![r] = [NoRun EXCEPT !.pc = "action", !.job = j]]
      BY <2>2 DEF scheduleCronJob
    <3> DEFINE x == [NoRun EXCEPT !.pc = "action", !.job = j]
    <3>2. RunHolds(x)
      BY NoLineHolds DEF RunHolds, NoRun, RunSet
    <3>3. run' = [run EXCEPT ![r] = x]
      BY <3>1
    <3> HIDE DEF x
    <3> QED
      BY <2>2, <3>2, <3>3, RunMoves DEF Inv, scheduleCronJob
  <2>3. ASSUME Forget(r) PROVE RunInv'
    BY <2>3, NoRunHolds, RunMoves DEF Inv, Forget
  <2>4. RunInv'
    BY <1>2, <2>2, <2>3, ActionKeeps, SaveKeeps, LogWriteKeeps DEF Inv
  <2> QED
    BY <2>1, <2>4, ServerKeeps DEF Inv
<1>3. CASE UNCHANGED vars
  <2>1. ServerInv'
    BY <1>3, ServerKeeps DEF Inv, vars
  <2>2. RunInv'
    BY <1>3 DEF Inv, RunInv, vars
  <2> QED
    BY <2>1, <2>2 DEF Inv
<1> QED
  BY <1>1, <1>2, <1>3 DEF Next

LEMMA InvHolds == Spec => []Inv
BY Start, Keeps, PTL DEF Spec

(***************************************************************************)
(* The theorems.                                                           *)
(***************************************************************************)

\* The state of the process, of its worker and of the runs of its jobs keeps its
\* types (server.ts, cron.provider.ts), and the timer of a shutdown is armed
\* from the signal to the exit and at no other time.
THEOREM TypeCorrect == Spec => []TypeOK
<1>1. Inv => TypeOK
  <2> SUFFICES ASSUME Inv PROVE TypeOK
    OBVIOUS
  <2>1. \A r \in Runs : run[r] \in RunSet
    BY DEF Inv, RunInv, RunHolds
  <2>2. run = [r \in Runs |-> run[r]]
    BY DEF Inv, RunInv
  <2> HIDE DEF RunSet
  <2>3. run \in [Runs -> RunSet]
    BY <2>1, <2>2, Zenon
  <2>4. ServerType
    BY DEF Inv, ServerInv
  <2> QED
    BY <2>3, <2>4 DEF TypeOK, RunSet, ServerType
<1> QED
  BY <1>1, InvHolds, PTL

\* However a stop of server.ts meets its requests, its closing and the worker's
\* handler, an unanswered request has the database, and only the timer or the
\* worker cuts one off.
THEOREM StopsDrain == Spec => []Drained
<1>1. Inv => Drained
  BY DEF Inv, ServerInv, Serving
<1> QED
  BY <1>1, InvHolds, PTL

\* A job that failed (executeCron) left a row or a log line, or the log file
\* refused the line, for any settings of the logger that keep errors in files or
\* mail them: what mail and database refuse never loses a failure by itself.
THEOREM FailuresTraced == Spec => []FailuresLeaveTrace
<1>1. Inv => FailuresLeaveTrace
  <2> SUFFICES ASSUME Inv, NEW r \in Runs, run[r].pc = "saved", run[r].status = "error",
                      run[r].line.pending = {}
               PROVE  run[r].line.kept # {} \/ "file" \in run[r].line.refused
    BY DEF FailuresLeaveTrace
  <2>1. Traced(run[r].line)
    BY DEF Inv, RunInv, RunHolds
  <2> QED
    BY <2>1 DEF Traced
<1> QED
  BY <1>1, InvHolds, PTL
=============================================================================
