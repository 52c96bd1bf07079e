---------------------------- MODULE MCReminders ----------------------------
(* Constants of Reminders for TLC. *)
EXTENDS Reminders
=============================================================================
