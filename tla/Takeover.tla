------------------------------ MODULE Takeover ------------------------------
(***************************************************************************)
(* Ownership of one WhatsApp conversation (one lead of one tenant): who may *)
(* answer it, the automated pipeline or a human operator.                   *)
(*                                                                          *)
(* leads.is_human_takeover and leads.takeover_version are written together  *)
(* by whatsapp_inbox.transition_takeover under the lead row lock.  The      *)
(* store API writes the flag a second time, without the version, after the  *)
(* transition has committed (jobs.process_webhook_message in every storage  *)
(* mode, the takeover and release routes only when the CRM is not           *)
(* Postgres-only): `mirror` holds the values still to be written.           *)
(***************************************************************************)
EXTENDS Integers

CONSTANTS
    MaxVersion,   \* bound on the number of ownership changes explored
    DualStore     \* TRUE: the routes mirror the flag through the store too

ASSUME TakeoverAssumption == MaxVersion \in Nat /\ DualStore \in BOOLEAN

VARIABLES
    takeover,     \* leads.is_human_takeover
    version,      \* leads.takeover_version
    task,         \* whatsapp_takeover_tasks.status, by takeover_version
    mirror        \* flag values a store write is still about to put

takeoverVars == <<takeover, version, task, mirror>>

TaskStatus == {"none", "open", "acknowledged", "resolved"}
Unresolved == {"open", "acknowledged"}

TakeoverTypeOK ==
    /\ takeover \in BOOLEAN
    /\ version \in 0 .. MaxVersion
    /\ task \in [1 .. MaxVersion -> TaskStatus]
    /\ mirror \subseteq BOOLEAN

TakeoverInit ==
    /\ takeover = FALSE
    /\ version = 0
    /\ task = [v \in 1 .. MaxVersion |-> "none"]
    /\ mirror = {}

\* Slip: the release leaves the acknowledged tasks behind.
ReleasedOpenTasks ==
    [v \in 1 .. MaxVersion |-> IF task[v] = "open" THEN "resolved" ELSE task[v]]

\* Releasing the conversation closes whatever the operators still had to do.
ReleasedTasks ==
    [v \in 1 .. MaxVersion |-> IF task[v] \in Unresolved THEN "resolved" ELSE task[v]]

\* transition_takeover with a changed flag.  A stale expected_version is an
\* InboxConflict and changes nothing, so a request that is applied is one whose
\* expected version is the current one (or None, for the worker's own).  A
\* worker only takes over, it never releases.
SwitchTakeover(enabled, worker) ==
    /\ takeover # enabled
    /\ worker => enabled
    /\ version < MaxVersion
    /\ takeover' = enabled
    /\ version' = version + 1
    /\ task' = IF enabled THEN [task EXCEPT ![version + 1] = "open"] ELSE ReleasedTasks
    /\ mirror' = IF worker \/ DualStore THEN mirror \cup {enabled} ELSE mirror

\* transition_takeover finds the flag already set: only the store write follows.
RepeatTakeover(worker) ==
    /\ worker => takeover
    /\ worker \/ DualStore
    /\ mirror' = mirror \cup {takeover}
    /\ UNCHANGED <<takeover, version, task>>

\* update_human_takeover_by_id: the flag alone, whatever it is by now.
MirrorTakeover(enabled) ==
    /\ enabled \in mirror
    /\ takeover' = enabled
    /\ mirror' = mirror \ {enabled}
    /\ UNCHANGED <<version, task>>

\* update_task: open -> acknowledged -> resolved, never back.
UpdateTask(v, resolve) ==
    /\ \/ task[v] = "open"
       \/ task[v] = "acknowledged" /\ resolve
    /\ task' = [task EXCEPT ![v] = IF resolve THEN "resolved" ELSE "acknowledged"]
    /\ UNCHANGED <<takeover, version, mirror>>

=============================================================================
