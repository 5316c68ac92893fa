----------------------------- MODULE MailPromise -----------------------------
(***************************************************************************)
(* What the mail pipeline promises whoever queues a mail: its job is run   *)
(* at most Limit times, every run delivers at most one copy (a run that    *)
(* hangs may deliver it late, even after the job ended), and a job that    *)
(* ended is never run again.                                               *)
(***************************************************************************)
EXTENDS Naturals

CONSTANTS Mails, Limit

VARIABLES
    runs,    \* runs[m]: how often the job of m was handed to a worker
    copies,  \* copies[m]: how many copies of m the mail server accepted
    ended    \* the mails whose job is over

Init ==
    /\ runs = [m \in Mails |-> 0]
    /\ copies = [m \in Mails |-> 0]
    /\ ended = {}

Hand(m) ==
    /\ m \notin ended /\ runs[m] < Limit
    /\ runs' = [runs EXCEPT ![m] = @ + 1]
    /\ UNCHANGED <<copies, ended>>

Deliver(m) ==
    /\ copies[m] < runs[m]
    /\ copies' = [copies EXCEPT ![m] = @ + 1]
    /\ UNCHANGED <<runs, ended>>

End(m) ==
    /\ m \notin ended /\ runs[m] > 0
    /\ ended' = ended \cup {m}
    /\ UNCHANGED <<runs, copies>>

Next == \E m \in Mails : Hand(m) \/ Deliver(m) \/ End(m)

Spec == Init /\ [][Next]_<<runs, copies, ended>>
=============================================================================
