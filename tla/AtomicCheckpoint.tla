--------------------------- MODULE AtomicCheckpoint ---------------------------
(***************************************************************************)
(* What a set of WDB tables promises its users, whatever happens to the    *)
(* process: the contents a restart finds change only by installing one     *)
(* snapshot on every enrolled table at once, checkpoint() answers true     *)
(* only when the whole snapshot is installed, and a restart finds exactly  *)
(* the installed contents.                                                 *)
(*                                                                         *)
(* A table is enrolled once its data file carries a log id.  A table that  *)
(* has never been through a checkpoint joins one of its own: the source    *)
(* does not promise it atomicity with the others until then.               *)
(***************************************************************************)

CONSTANTS Table,      \* the tables of the collection
          Content     \* the possible contents of a table

VARIABLES mem,        \* contents the running process works on
          shot,       \* contents at the last snapshot
          stable,     \* contents a restart would find
          enrolled,   \* tables that take part in atomic checkpoints
          state       \* "down", "up", or "taken": a checkpoint is in progress

vars == <<mem, shot, stable, enrolled, state>>

Init ==
    /\ stable \in [Table -> Content]
    /\ mem = stable
    /\ shot = stable
    /\ enrolled \in SUBSET Table
    /\ state = "down"

\* The process starts and serves what is installed.
Restart ==
    /\ state = "down"
    /\ state' = "up"
    /\ mem' = stable
    /\ UNCHANGED <<shot, stable, enrolled>>

\* The tables' users change one table.
Change(t) ==
    /\ state # "down"
    /\ \E c \in Content : mem' = [mem EXCEPT ![t] = c]
    /\ UNCHANGED <<shot, stable, enrolled, state>>

\* A checkpoint begins: one snapshot of all tables.
Take ==
    /\ state = "up"
    /\ state' = "taken"
    /\ shot' = mem
    /\ UNCHANGED <<mem, stable, enrolled>>

\* The snapshot becomes what a restart finds: on all the enrolled tables and
\* those that enrol in this step, in one step.
Install(joining) ==
    /\ state = "taken"
    /\ enrolled' = enrolled \cup joining
    /\ stable' = [t \in Table |-> IF t \in enrolled' THEN shot[t] ELSE stable[t]]
    /\ UNCHANGED <<mem, shot, state>>

\* checkpoint() answers true.
Acknowledge ==
    /\ state = "taken"
    /\ stable = shot
    /\ state' = "up"
    /\ UNCHANGED <<mem, shot, stable, enrolled>>

Crash ==
    /\ state' = "down"
    /\ mem' = stable
    /\ shot' = stable
    /\ UNCHANGED <<stable, enrolled>>

Next ==
    \/ Restart
    \/ \E t \in Table : Change(t)
    \/ Take
    \/ \E joining \in SUBSET Table : Install(joining)
    \/ Acknowledge
    \/ Crash

Spec == Init /\ [][Next]_vars
===============================================================================
