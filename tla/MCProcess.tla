------------------------------ MODULE MCProcess ------------------------------
(***************************************************************************)
(* An instance of Cron (and of Server and Logger in it) for TLC: with the  *)
(* logger's settings of the repository, and with errors kept from files.   *)
(***************************************************************************)
EXTENDS Cron

SettingsMC == {settings, [settings EXCEPT !.levelFile = {"debug", "info", "warn"}]}
=============================================================================
