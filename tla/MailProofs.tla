----------------------------- MODULE MailProofs ------------------------------
(***************************************************************************)
(* The promise of the mail pipeline for any number of mails, slots,        *)
(* attempts and stalls.                                                    *)
(***************************************************************************)
EXTENDS MailQueue, FiniteSetTheorems, TLAPS

\* The steps of a mail's row and job, but for the one that starts a run.
MailStep(m) ==
    \/ Insert(m) \/ AddJob(m) \/ Commit(m) \/ Rollback(m) \/ Delete(m)
    \/ Backoff(m) \/ Orphaned(m) \/ LoseLock(m) \/ CleanFailed(m)

LEMMA NextCases ==
    ASSUME Next
    PROVE  \/ \E m \in Mails : MailStep(m)
           \/ \E m \in Mails, w \in Slots : Take(w, m)
           \/ \E w \in Slots : Run(w)
           \/ Crash
BY DEF Next, MailStep

(***************************************************************************)
(* Types.                                                                  *)
(***************************************************************************)

Pcs == {"send", "markSent", "markError", "finish", "giveUp"}

LEMMA SlotCases ==
    ASSUME TypeOK, NEW w \in Slots
    PROVE  \/ slot[w] = Free
           \/ /\ Mail(w) \in Mails /\ slot[w].pc \in Pcs
              /\ \A p : [slot[w] EXCEPT !.pc = p] = [pc |-> p, mail |-> Mail(w)]
BY DEF TypeOK, Mail, Pcs, Free

\* A run moves its slot on, or leaves it.
LEMMA RunMoves ==
    ASSUME TypeOK, NEW w \in Slots, Run(w)
    PROVE  /\ Mail(w) \in Mails /\ slot[w].pc \in Pcs
           /\ \E s \in {Free} \cup {[pc |-> p, mail |-> Mail(w)] : p \in Pcs \ {"send"}} :
                 slot' = [slot EXCEPT ![w] = s]
<1>1. Mail(w) \in Mails /\ slot[w].pc \in Pcs
  BY SlotCases DEF Run, Send, MarkSent, MarkError, Finish, GiveUp, In, Free
<1>2. \A p : [slot[w] EXCEPT !.pc = p] = [pc |-> p, mail |-> Mail(w)]
  BY <1>1, SlotCases DEF Free, Pcs
<1>3. \A p : [slot EXCEPT ![w].pc = p] = [slot EXCEPT ![w] = [pc |-> p, mail |-> Mail(w)]]
  BY <1>2, Zenon
<1>4. \/ slot' = [slot EXCEPT ![w] = Free]
      \/ \E p \in Pcs \ {"send"} : slot' = [slot EXCEPT ![w].pc = p]
  BY DEF Run, Send, MarkSent, MarkError, Finish, GiveUp, Goto, Pcs, AfterRefusal,
         Released
<1> QED
  BY <1>1, <1>3, <1>4

\* What the counters and the lock say of a job.
JobOK(m) ==
    /\ job[m] \notin {"failed", "cleaned"}
          => attempts[m] < MaxAttempts /\ stalled[m] <= MaxStalled
    /\ attempts[m] + stalled[m] <= MaxAttempts + MaxStalled
    /\ job[m] \in {"delayed", "failed", "cleaned"} => attempts[m] + stalled[m] > 0
    /\ holder[m] # None => job[m] = "active"
    /\ tx[m] = "done" => job[m] # "none"
JobInv == \A m \in Mails : JobOK(m)

\* Every step leaves all mails but one alone, or touches only what a crash does.
Others(m) ==
    \A n \in Mails \ {m} :
        /\ tx'[n] = tx[n] /\ row'[n] = row[n] /\ job'[n] = job[n]
        /\ attempts'[n] = attempts[n] /\ stalled'[n] = stalled[n]
        /\ holder'[n] = holder[n] /\ copies'[n] = copies[n]

LEMMA TypeMailStep ==
    ASSUME TypeOK, JobInv, NEW m \in Mails, MailStep(m)
    PROVE  TypeOK' /\ JobOK(m)' /\ Others(m)
<1> USE MailAssumption
<1>0. /\ JobOK(m) /\ attempts[m] \in Nat /\ stalled[m] \in Nat /\ UNCHANGED <<slot, copies>>
      /\ holder[m] \in Slots \cup {None}
  BY DEF TypeOK, JobInv, MailStep, Insert, AddJob, Commit, Rollback, Delete, Backoff,
         Orphaned, LoseLock, Stalled, CleanFailed, queue
<1>1. CASE Insert(m)
  BY <1>0, <1>1 DEF TypeOK, JobOK, Others, Insert, queue
<1>2. CASE AddJob(m)
  BY <1>0, <1>2 DEF TypeOK, JobOK, Others, AddJob, queue
<1>3. CASE Commit(m)
  BY <1>0, <1>3 DEF TypeOK, JobOK, Others, Commit, Added, queue
<1>4. CASE Rollback(m)
  BY <1>0, <1>4 DEF TypeOK, JobOK, Others, Rollback, queue
<1>5. CASE Delete(m)
  BY <1>0, <1>5 DEF TypeOK, JobOK, Others, Delete, queue
<1>6. CASE Backoff(m)
  BY <1>0, <1>6 DEF TypeOK, JobOK, Others, Backoff, queue
<1>7. CASE Orphaned(m) \/ LoseLock(m)
  <2>1. Stalled(m)
    BY <1>7 DEF Orphaned, LoseLock
  <2>2. stalled[m] \in 0 .. MaxStalled /\ attempts[m] < MaxAttempts
    BY <1>0, <2>1 DEF Stalled, JobOK
  <2>3. TypeOK'
    BY <2>1, <2>2 DEF TypeOK, Stalled, Ended
  <2>4. JobOK(m)'
    BY <1>0, <2>1, <2>2 DEF TypeOK, JobOK, Stalled
  <2> QED
    BY <2>1, <2>3, <2>4 DEF Others, Stalled
<1>8. CASE CleanFailed(m)
  BY <1>0, <1>8 DEF TypeOK, JobOK, Others, CleanFailed, AfterMaintenance, Ended, queue
<1> QED
  BY <1>1, <1>2, <1>3, <1>4, <1>5, <1>6, <1>7, <1>8 DEF MailStep

LEMMA TypeTake ==
    ASSUME TypeOK, JobInv, NEW m \in Mails, NEW w \in Slots, Take(w, m)
    PROVE  TypeOK' /\ JobOK(m)' /\ Others(m)
<1>1. /\ JobOK(m) /\ [pc |-> "send", mail |-> m] \in [pc : Pcs, mail : Mails]
  BY DEF JobInv, Pcs
<1>2. TypeOK'
  BY <1>1 DEF TypeOK, Take, Pcs
<1>3. JobOK(m)'
  BY <1>1 DEF TypeOK, JobOK, Take
<1> QED
  BY <1>2, <1>3 DEF Others, Take

LEMMA TypeRun ==
    ASSUME TypeOK, JobInv, NEW w \in Slots, NEW m \in Mails, m = Mail(w), Run(w)
    PROVE  TypeOK' /\ JobOK(m)' /\ Others(m)
<1> USE MailAssumption
<1>1. /\ JobOK(m) /\ attempts[m] \in Nat /\ stalled[m] \in Nat /\ copies[m] \in Nat
      /\ tx' = tx
  BY DEF JobInv, TypeOK, Run, Send, MarkSent, MarkError, Finish, GiveUp
<1>2. slot' \in [Slots -> {Free} \cup [pc : Pcs, mail : Mails]]
  <2>1. PICK s \in {Free} \cup {[pc |-> p, mail |-> m] : p \in Pcs \ {"send"}} :
               slot' = [slot EXCEPT ![w] = s]
    BY RunMoves
  <2>2. s \in {Free} \cup [pc : Pcs, mail : Mails]
    BY <1>1, <2>1
  <2> QED
    BY <2>1, <2>2 DEF TypeOK, Pcs
<1>3. CASE Send(w)
  <2>1. /\ UNCHANGED <<row, job, attempts, stalled, holder>>
        /\ copies' \in {copies, [copies EXCEPT ![m] = @ + 1]}
    BY <1>3 DEF Send
  <2> QED
    BY <1>1, <1>2, <2>1 DEF TypeOK, JobOK, Others, Pcs
<1>4. CASE MarkSent(w) \/ MarkError(w)
  <2>1. /\ UNCHANGED <<job, attempts, stalled, holder, copies>>
        /\ \E v \in {None, "pending", "sent", "error"} : row' = [row EXCEPT ![m] = v]
    BY <1>4 DEF MarkSent, MarkError, Write, TypeOK
  <2> QED
    BY <1>1, <1>2, <2>1 DEF TypeOK, JobOK, Others, Pcs
<1>5. CASE Finish(w)
  <2>1. /\ UNCHANGED <<row, attempts, stalled, copies>>
        /\ \/ UNCHANGED <<job, holder>>
           \/ /\ holder[m] = w
              /\ job' = [job EXCEPT ![m] = "completed"]
              /\ holder' = [holder EXCEPT ![m] = None]
    BY <1>5 DEF Finish, Owns
  <2> QED
    BY <1>1, <1>2, <2>1 DEF TypeOK, JobOK, Others, Ended, Pcs
<1>6. CASE GiveUp(w)
  <2>1. UNCHANGED <<row, stalled, copies>>
    BY <1>6 DEF GiveUp
  <2>2. CASE Owns(w)
    <3>1. holder[m] # None /\ attempts[m] < MaxAttempts
      BY <1>1, <2>2 DEF Owns, JobOK
    <3>2. /\ job' = [job EXCEPT ![m] = IF AttemptsLeft(m) THEN "delayed" ELSE "failed"]
          /\ attempts' = [attempts EXCEPT ![m] = @ + 1]
          /\ holder' = [holder EXCEPT ![m] = None]
      BY <1>6, <2>2 DEF GiveUp
    <3> QED
      BY <1>1, <1>2, <2>1, <3>1, <3>2 DEF TypeOK, JobOK, Others, AttemptsLeft, Ended, Pcs
  <2>3. CASE ~Owns(w)
    <3>1. UNCHANGED <<job, attempts, holder>>
      BY <1>6, <2>3 DEF GiveUp
    <3> QED
      BY <1>1, <1>2, <2>1, <3>1 DEF TypeOK, JobOK, Others, Pcs
  <2> QED
    BY <2>2, <2>3
<1> QED
  BY <1>3, <1>4, <1>5, <1>6 DEF Run

LEMMA TypeCrash ==
    ASSUME TypeOK, JobInv, Crash
    PROVE  TypeOK' /\ JobInv'
<1>1. TypeOK'
  BY DEF TypeOK, Crash
<1>2. ASSUME NEW m \in Mails PROVE JobOK(m)'
  BY <1>2 DEF TypeOK, JobInv, JobOK, Crash
<1> QED
  BY <1>1, <1>2 DEF JobInv

LEMMA OthersOK ==
    ASSUME JobInv, NEW m \in Mails, JobOK(m)', Others(m)
    PROVE  JobInv'
BY DEF JobInv, JobOK, Others

LEMMA TypeInit ==
    ASSUME Init
    PROVE  TypeOK /\ JobInv
BY MailAssumption DEF Init, TypeOK, JobInv, JobOK

LEMMA TypeNext ==
    ASSUME TypeOK, JobInv, [Next]_vars
    PROVE  TypeOK' /\ JobInv'
<1>1. CASE Next
  BY <1>1, NextCases, TypeMailStep, TypeTake, TypeRun, TypeCrash, RunMoves, OthersOK
<1>2. CASE UNCHANGED vars
  BY <1>2 DEF vars, TypeOK, JobInv, JobOK
<1> QED
  BY <1>1, <1>2

\* Every variable of the model has its type, whatever is retried, stalls or
\* crashes: the attempts and the stalls of a job never pass their bounds.
THEOREM TypeCorrect == Spec => [](TypeOK /\ JobInv)
<1>1. Init => TypeOK /\ JobInv
  BY TypeInit
<1>2. (TypeOK /\ JobInv) /\ [Next]_vars => (TypeOK /\ JobInv)'
  BY TypeNext
<1> QED
  BY <1>1, <1>2, PTL DEF Spec

(***************************************************************************)
(* Runs and copies.                                                        *)
(***************************************************************************)

LEMMA RunsType ==
    ASSUME TypeOK, JobInv, NEW m \in Mails
    PROVE  /\ Runs(m) \in Nat /\ Runs(m) <= MaxAttempts + MaxStalled
           /\ job[m] = "waiting" => Runs(m) < MaxAttempts + MaxStalled
BY MailAssumption DEF TypeOK, JobInv, JobOK, Runs

\* Only Take starts a run; what ends a run has counted it.
LEMMA RunsOfMailStep ==
    ASSUME TypeOK, JobInv, NEW m \in Mails, MailStep(m), NEW n \in Mails
    PROVE  Runs(n)' = Runs(n)
<1>1. CASE n # m
  BY <1>1, TypeMailStep DEF Others, Runs
<1>2. CASE n = m /\ (Orphaned(m) \/ LoseLock(m))
  BY <1>2 DEF Orphaned, LoseLock, Stalled, Runs, TypeOK
<1>3. CASE n = m /\ ~(Orphaned(m) \/ LoseLock(m))
  BY <1>3 DEF MailStep, Insert, AddJob, Commit, Rollback, Delete, Backoff, CleanFailed,
              AfterMaintenance, Added, queue, Runs, TypeOK
<1> QED
  BY <1>1, <1>2, <1>3

LEMMA RunsOfRun ==
    ASSUME TypeOK, JobInv, NEW w \in Slots, Run(w), NEW n \in Mails
    PROVE  Runs(n)' = Runs(n)
<1>1. PICK m \in Mails : m = Mail(w)
  BY RunMoves
<1>2. CASE n # m
  BY <1>1, <1>2, TypeRun DEF Others, Runs
<1>3. CASE n = m /\ Owns(w)
  <2>1. job[m] = "active" /\ attempts[m] \in Nat /\ stalled[m] \in Nat
    BY <1>1, <1>3, MailAssumption DEF Owns, JobInv, JobOK, TypeOK
  <2>2. CASE Finish(w)
    BY <1>1, <1>3, <2>1, <2>2 DEF Finish, Runs, TypeOK
  <2>3. CASE GiveUp(w)
    BY <1>1, <1>3, <2>1, <2>3 DEF GiveUp, Runs, TypeOK
  <2>4. CASE Send(w) \/ MarkSent(w) \/ MarkError(w)
    BY <2>4, <1>3 DEF Send, MarkSent, MarkError, Runs
  <2> QED
    BY <2>2, <2>3, <2>4 DEF Run
<1>4. CASE n = m /\ ~Owns(w)
  BY <1>4 DEF Run, Send, MarkSent, MarkError, Finish, GiveUp, Runs
<1> QED
  BY <1>2, <1>3, <1>4

LEMMA RunsOfTake ==
    ASSUME TypeOK, JobInv, NEW m \in Mails, NEW w \in Slots, Take(w, m), NEW n \in Mails
    PROVE  Runs(n)' = IF n = m THEN Runs(m) + 1 ELSE Runs(n)
<1>1. CASE n # m
  BY <1>1, TypeTake DEF Others, Runs
<1>2. CASE n = m
  BY <1>2 DEF Take, Runs, TypeOK
<1> QED
  BY <1>1, <1>2

\* Every copy that was delivered, and every one that may still be, belongs to
\* a run of its own.
Sending(m) == {w \in Slots : slot[w].pc = "send" /\ slot[w].mail = m}
CopyOK(m) == copies[m] + Cardinality(Sending(m)) <= Runs(m)
CopyInv == \A m \in Mails : CopyOK(m)

LEMMA SendingType ==
    ASSUME NEW m
    PROVE  IsFiniteSet(Sending(m)) /\ Cardinality(Sending(m)) \in Nat
<1>1. Sending(m) \in SUBSET Slots
  BY DEF Sending
<1>2. IsFiniteSet(Sending(m))
  BY <1>1, MailAssumption, FS_Subset
<1> QED
  BY <1>2, FS_CardinalityType

LEMMA CopyMailStep ==
    ASSUME TypeOK, JobInv, CopyInv, NEW m \in Mails, MailStep(m), NEW n \in Mails
    PROVE  CopyOK(n)'
<1>1. UNCHANGED <<slot, copies>>
  BY DEF MailStep, Insert, AddJob, Commit, Rollback, Delete, Backoff, Orphaned, LoseLock,
         Stalled, CleanFailed, queue
<1>2. Runs(n)' = Runs(n)
  BY RunsOfMailStep
<1>3. Sending(n)' = Sending(n)
  BY <1>1 DEF Sending
<1> QED
  BY <1>1, <1>2, <1>3 DEF CopyInv, CopyOK

LEMMA CopyTake ==
    ASSUME TypeOK, JobInv, CopyInv, NEW m \in Mails, NEW w \in Slots, Take(w, m),
           NEW n \in Mails
    PROVE  CopyOK(n)'
<1>1. /\ UNCHANGED copies /\ copies[n] \in Nat /\ slot[w].pc = "idle"
      /\ slot' = [slot EXCEPT ![w] = [pc |-> "send", mail |-> m]]
  BY DEF Take, TypeOK, In
<1>2. Runs(n)' = IF n = m THEN Runs(m) + 1 ELSE Runs(n)
  BY RunsOfTake
<1>3. CASE n # m
  <2>1. Sending(n)' = Sending(n)
    BY <1>1, <1>3 DEF Sending, TypeOK
  <2> QED
    BY <1>1, <1>2, <1>3, <2>1 DEF CopyInv, CopyOK
<1>4. CASE n = m
  <2>1. Sending(n)' = Sending(n) \cup {w} /\ w \notin Sending(n)
    BY <1>1, <1>4 DEF Sending, TypeOK
  <2>2. Cardinality(Sending(n)') = Cardinality(Sending(n)) + 1
    BY <2>1, SendingType, FS_AddElement
  <2> QED
    BY <1>1, <1>2, <1>4, <2>2, SendingType, RunsType DEF CopyInv, CopyOK
<1> QED
  BY <1>3, <1>4

\* A run that is about to send has a copy to spare.
LEMMA SpareCopy ==
    ASSUME TypeOK, JobInv, CopyInv, NEW w \in Slots, NEW m \in Mails, m = Mail(w),
           In(w, "send")
    PROVE  /\ w \in Sending(m) /\ copies[m] < Runs(m)
           /\ Cardinality(Sending(m) \ {w}) = Cardinality(Sending(m)) - 1
<1>1. w \in Sending(m)
  BY DEF Sending, In, Mail
<1>2. Cardinality(Sending(m) \ {w}) = Cardinality(Sending(m)) - 1
  BY <1>1, SendingType, FS_RemoveElement
<1>3. Cardinality(Sending(m)) # 0
  BY <1>1, SendingType, FS_EmptySet
<1>4. copies[m] \in Nat /\ copies[m] + Cardinality(Sending(m)) <= Runs(m)
  BY DEF TypeOK, CopyInv, CopyOK
<1>5. copies[m] < Runs(m)
  BY <1>3, <1>4, SendingType, RunsType
<1> QED
  BY <1>1, <1>2, <1>5

LEMMA CopyRun ==
    ASSUME TypeOK, JobInv, CopyInv, NEW w \in Slots, Run(w), NEW n \in Mails
    PROVE  CopyOK(n)'
<1>1. PICK m \in Mails : m = Mail(w)
  BY RunMoves
<1>2. Runs(n)' = Runs(n)
  BY RunsOfRun
<1>3. slot[w].mail = m /\ slot \in [Slots -> {Free} \cup [pc : Pcs, mail : Mails]]
  BY <1>1 DEF Mail, TypeOK, Pcs
<1>4. PICK s \in {Free} \cup {[pc |-> p, mail |-> m] : p \in Pcs \ {"send"}} :
             slot' = [slot EXCEPT ![w] = s]
  BY <1>1, RunMoves
<1>5. s.pc # "send"
  BY <1>4 DEF Free
<1>6. Sending(n)' = Sending(n) \ {w}
  BY <1>3, <1>4, <1>5 DEF Sending
<1>7. CASE Send(w) /\ n = m
  <2>1. copies'[n] <= copies[n] + 1 /\ copies[n] \in Nat /\ copies'[n] \in Nat
    BY <1>1, <1>7 DEF Send, TypeOK
  <2>2. Cardinality(Sending(n)') = Cardinality(Sending(n)) - 1
    BY <1>1, <1>6, <1>7, SpareCopy DEF Send
  <2> QED
    BY <1>2, <2>1, <2>2, SendingType, RunsType DEF CopyInv, CopyOK
<1>8. CASE ~(Send(w) /\ n = m)
  <2>1. copies'[n] = copies[n] /\ w \notin Sending(n)
    BY <1>1, <1>3, <1>8
    DEF Run, Send, MarkSent, MarkError, Finish, GiveUp, In, Sending, TypeOK
  <2>2. Sending(n)' = Sending(n)
    BY <1>6, <2>1
  <2> QED
    BY <1>2, <2>1, <2>2 DEF CopyInv, CopyOK
<1> QED
  BY <1>7, <1>8

LEMMA CopyCrash ==
    ASSUME TypeOK, JobInv, CopyInv, Crash, NEW n \in Mails
    PROVE  CopyOK(n)'
<1>1. Sending(n)' = {} /\ copies'[n] = copies[n] /\ Runs(n)' = Runs(n)
  BY DEF Crash, Sending, Free, Runs
<1>2. copies[n] \in Nat
  BY DEF TypeOK
<1> QED
  BY <1>1, <1>2, SendingType, RunsType, FS_EmptySet DEF CopyInv, CopyOK

LEMMA CopyInit ==
    ASSUME Init
    PROVE  CopyInv
<1>1. ASSUME NEW m \in Mails PROVE CopyOK(m)
  <2>1. Sending(m) = {} /\ copies[m] = 0 /\ Runs(m) = 0
    BY DEF Init, Sending, Free, Runs
  <2> QED
    BY <2>1, FS_EmptySet DEF CopyOK
<1> QED
  BY <1>1 DEF CopyInv

LEMMA CopyNext ==
    ASSUME TypeOK, JobInv, CopyInv, [Next]_vars
    PROVE  CopyInv'
<1>1. CASE Next
  BY <1>1, NextCases, CopyMailStep, CopyTake, CopyRun, CopyCrash DEF CopyInv
<1>2. CASE UNCHANGED vars
  BY <1>2 DEF vars, CopyInv, CopyOK, Sending, Runs
<1> QED
  BY <1>1, <1>2

\* For any number of attempts, stalls, mails and slots, nobody gets more copies
\* of a mail than its attempts and stalls allow.
THEOREM CopiesAreBounded == Spec => []DeliveryBound
<1>1. Init => CopyInv
  BY CopyInit
<1>2. (TypeOK /\ JobInv) /\ CopyInv /\ [Next]_vars => CopyInv'
  BY CopyNext
<1>3. (TypeOK /\ JobInv) /\ CopyInv => DeliveryBound
  <2> SUFFICES ASSUME TypeOK, JobInv, CopyInv, NEW m \in Mails
               PROVE  copies[m] <= MaxAttempts + MaxStalled
    BY DEF DeliveryBound
  <2>1. copies[m] \in Nat /\ copies[m] + Cardinality(Sending(m)) <= Runs(m)
    BY DEF TypeOK, CopyInv, CopyOK
  <2> QED
    BY <2>1, MailAssumption, SendingType, RunsType
<1> QED
  BY <1>1, <1>2, <1>3, TypeCorrect, PTL DEF Spec

\* No saved mail is without the job that sends it.
THEOREM NoMailIsForgotten == Spec => []NeverForgotten
<1>1. (TypeOK /\ JobInv) => NeverForgotten
  BY MailAssumption DEF TypeOK, JobInv, JobOK, NeverForgotten, Runs, Ended
<1> QED
  BY <1>1, TypeCorrect, PTL

(***************************************************************************)
(* What the row says.                                                      *)
(***************************************************************************)

SentInv ==
    /\ SentIsDelivered
    /\ \A w \in Slots : In(w, "markSent") => copies[Mail(w)] > 0

LEMMA SentMailStep ==
    ASSUME SentInv, TypeOK, NEW m \in Mails, MailStep(m)
    PROVE  SentInv'
<1>1. UNCHANGED <<slot, copies>>
  BY DEF MailStep, Insert, AddJob, Commit, Rollback, Delete, Backoff, Orphaned, LoseLock,
         Stalled, CleanFailed, queue
<1>2. row' = row \/ \E v \in {None, "pending"} : row' = [row EXCEPT ![m] = v]
  BY DEF MailStep, Insert, AddJob, Commit, Rollback, Delete, Backoff, Orphaned, LoseLock,
         Stalled, CleanFailed
<1>3. SentIsDelivered'
  BY <1>1, <1>2, MailAssumption DEF SentInv, SentIsDelivered, TypeOK
<1> QED
  BY <1>1, <1>3 DEF SentInv, In, Mail

LEMMA SentTake ==
    ASSUME SentInv, TypeOK, NEW m \in Mails, NEW w \in Slots, Take(w, m)
    PROVE  SentInv'
<1>1. /\ UNCHANGED <<row, copies>>
      /\ slot' = [slot EXCEPT ![w] = [pc |-> "send", mail |-> m]]
  BY DEF Take
<1> QED
  BY <1>1 DEF SentInv, SentIsDelivered, In, Mail, TypeOK

LEMMA SentRun ==
    ASSUME SentInv, TypeOK, NEW w \in Slots, NEW m \in Mails, m = Mail(w), Run(w)
    PROVE  SentInv'
<1>1. PICK s \in {Free} \cup {[pc |-> p, mail |-> m] : p \in Pcs \ {"send"}} :
             slot' = [slot EXCEPT ![w] = s]
  BY RunMoves
<1>2. slot'[w] = s /\ \A v \in Slots \ {w} : slot'[v] = slot[v]
  BY <1>1 DEF TypeOK
<1>3. \A v \in Slots : In(v, "markSent") => Mail(v) \in Mails
  BY SlotCases DEF In, Free
<1>4. \A n \in Mails : copies[n] \in Nat
  BY DEF TypeOK
<1>5. CASE Send(w)
  <2>1. \A n \in Mails : copies'[n] \in Nat /\ copies'[n] >= copies[n]
    BY <1>4, <1>5 DEF Send, TypeOK
  <2>2. s.pc = "markSent" => copies'[m] > 0
    <3>1. [slot[w] EXCEPT !.pc = "markError"].pc = "markError"
      BY RunMoves, SlotCases DEF Pcs, Free
    <3>2. s.pc = "markSent" => copies' = [copies EXCEPT ![m] = @ + 1]
      BY <1>2, <1>5, <3>1 DEF Send, Goto, TypeOK, AfterRefusal
    <3> QED
      BY <1>4, <3>2 DEF TypeOK
  <2>3. s.pc = "markSent" => s.mail = m
    BY <1>1 DEF Free
  <2>4. SentIsDelivered'
    BY <1>4, <1>5, <2>1 DEF Send, SentInv, SentIsDelivered
  <2> QED
    BY <1>2, <1>3, <1>4, <2>1, <2>2, <2>3, <2>4 DEF SentInv, In, Mail
<1>6. CASE ~Send(w)
  <2>1. UNCHANGED copies
    BY <1>6 DEF Run, MarkSent, MarkError, Finish, GiveUp
  <2>2. s.pc # "markSent"
    <3>1. \A p : [slot[w] EXCEPT !.pc = p].pc = p
      BY RunMoves, SlotCases DEF Pcs, Free
    <3> QED
      BY <1>2, <1>6, <3>1
      DEF Run, MarkSent, MarkError, Finish, GiveUp, Goto, Released, Free, TypeOK
  <2>3. SentIsDelivered'
    <3>1. CASE MarkSent(w)
      <4>1. copies[m] > 0
        BY <3>1 DEF MarkSent, SentInv
      <4>2. \A n \in Mails \ {m} : row'[n] = row[n]
        BY <3>1 DEF MarkSent, Write, TypeOK
      <4> QED
        BY <2>1, <4>1, <4>2 DEF SentInv, SentIsDelivered
    <3>2. CASE MarkError(w)
      <4>1. \A n \in Mails : row'[n] \in {row[n], "error"}
        BY <3>2 DEF MarkError, Write, TypeOK
      <4> QED
        BY <2>1, <4>1 DEF SentInv, SentIsDelivered
    <3>3. CASE Finish(w) \/ GiveUp(w)
      BY <2>1, <3>3 DEF Finish, GiveUp, SentInv, SentIsDelivered
    <3> QED
      BY <1>6, <3>1, <3>2, <3>3 DEF Run
  <2> QED
    BY <1>2, <2>1, <2>2, <2>3 DEF SentInv, In, Mail
<1> QED
  BY <1>5, <1>6

LEMMA SentCrash ==
    ASSUME SentInv, Crash
    PROVE  SentInv'
BY DEF Crash, SentInv, SentIsDelivered, In, Free

LEMMA SentNext ==
    ASSUME TypeOK, SentInv, [Next]_vars
    PROVE  SentInv'
<1>1. CASE UNCHANGED vars
  BY <1>1 DEF vars, SentInv, SentIsDelivered, In, Mail
<1>2. CASE Next
  BY <1>2, NextCases, SentMailStep, SentTake, SentRun, SentCrash, RunMoves
<1> QED
  BY <1>1, <1>2

\* A mail whose row says sent has reached the mail server, whichever of its
\* runs wrote that.
THEOREM SentIsTrue == Spec => []SentIsDelivered
<1>1. Init => SentInv
  BY MailAssumption DEF Init, SentInv, SentIsDelivered, In, Free
<1>2. (TypeOK /\ JobInv) /\ SentInv /\ [Next]_vars => SentInv'
  BY SentNext
<1>3. SentInv => SentIsDelivered
  BY DEF SentInv
<1> QED
  BY <1>1, <1>2, <1>3, TypeCorrect, PTL DEF Spec

(***************************************************************************)
(* The promise.                                                            *)
(***************************************************************************)

runs == [m \in Mails |-> Runs(m)]
ended == {m \in Mails : job[m] \in Ended}
promised == <<runs, copies, ended>>

LEMMA PromiseMailStep ==
    ASSUME TypeOK, JobInv, NEW m \in Mails, MailStep(m)
    PROVE  Promise!End(m) \/ UNCHANGED promised
<1>1. UNCHANGED copies
  BY DEF MailStep, Insert, AddJob, Commit, Rollback, Delete, Backoff, Orphaned, LoseLock,
         Stalled, CleanFailed, queue
<1>2. runs' = runs
  BY RunsOfMailStep DEF runs
<1>3. \/ ended' = ended
      \/ ended' = ended \cup {m} /\ m \notin ended /\ job[m] = "active"
  <2>1. \A n \in Mails \ {m} : job'[n] = job[n]
    BY TypeMailStep DEF Others
  <2>2. \/ job'[m] \in Ended <=> job[m] \in Ended
        \/ job[m] = "active" /\ job'[m] = "failed"
    BY DEF MailStep, Insert, AddJob, Commit, Rollback, Delete, Backoff, Orphaned, LoseLock,
           Stalled, CleanFailed, AfterMaintenance, queue, Ended, TypeOK
  <2> QED
    BY <2>1, <2>2 DEF ended, Ended
<1>4. job[m] = "active" => Runs(m) > 0
  BY DEF Runs, TypeOK
<1> QED
  BY <1>1, <1>2, <1>3, <1>4 DEF Promise!End, promised, runs, ended

LEMMA PromiseTake ==
    ASSUME TypeOK, JobInv, NEW m \in Mails, NEW w \in Slots, Take(w, m)
    PROVE  Promise!Hand(m)
<1>1. UNCHANGED copies /\ job[m] = "waiting" /\ job' = [job EXCEPT ![m] = "active"]
  BY DEF Take
<1>2. ended' = ended /\ m \notin ended
  BY <1>1 DEF ended, Ended, TypeOK
<1>3. Runs(m) < MaxAttempts + MaxStalled
  BY <1>1, RunsType
<1>4. runs' = [runs EXCEPT ![m] = @ + 1]
  BY RunsOfTake DEF runs
<1> QED
  BY <1>1, <1>2, <1>3, <1>4 DEF Promise!Hand, runs, ended

LEMMA PromiseRun ==
    ASSUME TypeOK, JobInv, CopyInv, NEW w \in Slots, NEW m \in Mails, m = Mail(w), Run(w)
    PROVE  Promise!Deliver(m) \/ Promise!End(m) \/ UNCHANGED promised
<1>1. runs' = runs
  BY RunsOfRun DEF runs
<1>2. CASE Send(w)
  <2>1. ended' = ended /\ copies[m] < Runs(m)
    BY <1>2, SpareCopy DEF Send, ended
  <2>2. copies' \in {copies, [copies EXCEPT ![m] = @ + 1]}
    BY <1>2 DEF Send
  <2> QED
    BY <1>1, <2>1, <2>2 DEF Promise!Deliver, promised, runs, ended
<1>3. CASE MarkSent(w) \/ MarkError(w)
  BY <1>1, <1>3 DEF MarkSent, MarkError, promised, ended
<1>4. CASE Finish(w) \/ GiveUp(w)
  <2>1. UNCHANGED copies
    BY <1>4 DEF Finish, GiveUp
  <2>2. CASE ~Owns(w)
    BY <1>1, <1>4, <2>2 DEF Finish, GiveUp, promised, ended
  <2>3. CASE Owns(w)
    <3>1. job[m] = "active" /\ Runs(m) > 0 /\ m \notin ended
      BY <2>3, MailAssumption DEF Owns, JobInv, JobOK, TypeOK, Runs, ended, Ended
    <3>2. \E s \in {"completed", "delayed", "failed"} : job' = [job EXCEPT ![m] = s]
      BY <1>4, <2>3 DEF Finish, GiveUp
    <3>3. ended' = ended \/ ended' = ended \cup {m}
      BY <3>1, <3>2 DEF ended, Ended, TypeOK
    <3> QED
      BY <1>1, <2>1, <3>1, <3>3 DEF Promise!End, promised, runs, ended
  <2> QED
    BY <2>2, <2>3
<1> QED
  BY <1>2, <1>3, <1>4 DEF Run

LEMMA PromiseCrash ==
    ASSUME Crash
    PROVE  UNCHANGED promised
BY DEF Crash, promised, runs, ended, Runs

LEMMA PromiseNext ==
    ASSUME TypeOK, JobInv, CopyInv, [Next]_vars
    PROVE  [Promise!Next]_promised
<1>1. CASE UNCHANGED vars
  BY <1>1 DEF vars, promised, runs, ended, Runs
<1>2. CASE Next
  BY <1>2, NextCases, PromiseMailStep, PromiseTake, PromiseRun, PromiseCrash, RunMoves
  DEF Promise!Next
<1> QED
  BY <1>1, <1>2

\* The pipeline implements its promise: every step hands the job out, delivers
\* a copy, ends the job, or changes nothing the sender can tell.
THEOREM PromiseIsKept == Spec => Promised
<1>1. Init => Promise!Init
  BY DEF Init, Promise!Init, Runs, Ended
<1>2. (TypeOK /\ JobInv) /\ CopyInv /\ [Next]_vars => [Promise!Next]_promised
  BY PromiseNext
<1>3. Init => CopyInv
  BY CopyInit
<1>4. (TypeOK /\ JobInv) /\ CopyInv /\ [Next]_vars => CopyInv'
  BY CopyNext
<1> QED
  BY <1>1, <1>2, <1>3, <1>4, TypeCorrect, PTL
  DEF Spec, Promised, Promise!Spec, promised, runs, ended
=============================================================================
