-------------------------- MODULE DeferredDeletion --------------------------
(***************************************************************************)
(* What Device promises about the lifetime of the objects it hands out     *)
(* (doc/basics.md:131-138): the application may drop its last reference    *)
(* to an object at any time, even between recording a command that uses    *)
(* it and submitting that command, and the object is freed only when no    *)
(* such command can still touch it.  How the Device knows is not said.     *)
(***************************************************************************)
CONSTANTS Cmds, Objects

VARIABLES
  work,   (* per command buffer, "idle", "inFlight" or "executed"            *)
  uses,   (* the objects it uses                                             *)
  obj     (* Objects: "live", "dead" (dropped by the application) or "freed" *)

vars == <<work, uses, obj>>

Init ==
  /\ work = [c \in Cmds |-> "idle"]
  /\ uses = [c \in Cmds |-> {}]
  /\ obj = [o \in Objects |-> "live"]

(* c is recorded: it may use what the application still holds.             *)
Start(c) ==
  /\ work[c] = "idle"
  /\ \E objects \in SUBSET {o \in Objects : obj[o] = "live"} :
       uses' = [uses EXCEPT ![c] = objects]
  /\ work' = [work EXCEPT ![c] = "inFlight"]
  /\ UNCHANGED obj

(* The GPU completes a batch.                                              *)
Execute(batch) ==
  /\ \A c \in batch : work[c] = "inFlight"
  /\ work' = [c \in Cmds |-> IF c \in batch THEN "executed" ELSE work[c]]
  /\ UNCHANGED <<uses, obj>>

Drop(o) ==
  /\ obj[o] = "live"
  /\ obj' = [obj EXCEPT ![o] = "dead"]
  /\ UNCHANGED <<work, uses>>

Unused(o) == \A c \in Cmds : o \in uses[c] => work[c] = "executed"

Free(garbage) ==
  /\ \A o \in garbage : obj[o] = "dead" /\ Unused(o)
  /\ obj' = [o \in Objects |-> IF o \in garbage THEN "freed" ELSE obj[o]]
  /\ UNCHANGED <<work, uses>>

Next ==
  \/ \E c \in Cmds : Start(c)
  \/ \E batch \in SUBSET Cmds : Execute(batch)
  \/ \E o \in Objects : Drop(o)
  \/ \E garbage \in SUBSET Objects : Free(garbage)

Spec == Init /\ [][Next]_vars
=============================================================================
