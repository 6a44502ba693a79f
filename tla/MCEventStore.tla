---------------------------- MODULE MCEventStore ----------------------------
(* The event store on a small instance: two processes, two keys. *)
EXTENDS EventStore
=============================================================================
