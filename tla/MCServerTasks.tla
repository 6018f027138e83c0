---------------------------- MODULE MCServerTasks ----------------------------
(* An instance of ServerTasks: a client that posts and one that asks, a      *)
(* pool of two connections and a mailbox for one task.                       *)
EXTENDS ServerTasks

AllFaults == {"database", "other", "client", "model", "panic"}
=============================================================================
