------------------------------- MODULE MCMail --------------------------------
(***************************************************************************)
(* An instance of MailQueue for TLC: one mail with the attempts of the     *)
(* code and the stalls of BullMQ, and two slots, so that a run that lost   *)
(* its lock overlaps with the next run of the same job. Mails share        *)
(* nothing but the slots, and a run without its lock is one more claim on  *)
(* them.                                                                   *)
(***************************************************************************)
EXTENDS MailQueue
=============================================================================
