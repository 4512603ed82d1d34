-------------------------- MODULE MCNotifications ---------------------------
(* The notification service for TLC. *)
EXTENDS Notifications
=============================================================================
