---------------------------- MODULE PreloaderSpec ----------------------------
(***************************************************************************)
(* What the preloader promises the rest of the system: every stored task   *)
(* is in the hands of its creator, or still to be read from the database,  *)
(* and is then handed to the waiting service - or LevelFatal was raised,   *)
(* and the next start reads everything again.                              *)
(*                                                                         *)
(* Collections, statements, rounds and the clock are gone:                 *)
(* PreloaderService implements this specification, TriggerHook builds on   *)
(* it.                                                                     *)
(***************************************************************************)
EXTENDS Naturals

CONSTANT Tasks

VARIABLES
    rows,      \* tasks that are in the database
    unread,    \* those of them that some worker of this instance will read
    creating,  \* tasks stored as taken that their creator has still to push
    reading,   \* tasks that workers have read and have still to push
    loads,     \* how often this instance handed a task to the waiting service
    fatal      \* this instance raised LevelFatal

vars == <<rows, unread, creating, reading, loads, fatal>>

Init ==
    /\ rows = {} /\ unread = {} /\ creating = {} /\ reading = {}
    /\ loads = [t \in Tasks |-> 0]
    /\ fatal = FALSE

(* The steps below are those of unread and reading only.                    *)

StoreForLater(t) == unread' = unread \cup {t} /\ UNCHANGED reading

(* A task stored as taken may join a collection that is still to be read.   *)
StoreAsTaken(t) == unread' \in {unread, unread \cup {t}} /\ UNCHANGED reading

Read(ts) ==
    /\ ts \subseteq unread
    /\ unread' = unread \ ts
    /\ reading' = reading \cup ts

HandOver(t) ==
    /\ t \in reading
    /\ reading' = reading \ {t}
    /\ UNCHANGED unread

RowDeleted(t) == unread' = unread \ {t} /\ UNCHANGED reading

Lose == unread' \in SUBSET unread /\ UNCHANGED reading

StartAgain(stored) == unread' = stored /\ reading' = {}

-----------------------------------------------------------------------------

Create(t) ==
    /\ t \notin rows
    /\ rows' = rows \cup {t}
    /\ \/ StoreForLater(t) /\ UNCHANGED creating
       \/ StoreAsTaken(t) /\ creating' = creating \cup {t}
    /\ UNCHANGED <<loads, fatal>>

(* The row is stored but the caller was told of an error: nobody pushes it. *)
CreateUnanswered(t) ==
    /\ t \notin rows
    /\ rows' = rows \cup {t}
    /\ StoreAsTaken(t)
    /\ UNCHANGED <<creating, loads, fatal>>

Delete(t) ==
    /\ rows' = rows \ {t}
    /\ RowDeleted(t)
    /\ UNCHANGED <<creating, loads, fatal>>

ReadTasks ==
    /\ \E ts \in SUBSET unread : Read(ts)
    /\ UNCHANGED <<rows, creating, loads, fatal>>

Push(t) ==
    /\ \/ t \in creating /\ creating' = creating \ {t} /\ UNCHANGED <<unread, reading>>
       \/ HandOver(t) /\ UNCHANGED creating
    /\ loads' = [loads EXCEPT ![t] = @ + 1]
    /\ UNCHANGED <<rows, fatal>>

Fail ==
    /\ Lose
    /\ fatal' = TRUE
    /\ UNCHANGED <<rows, creating, loads>>

Restart ==
    /\ StartAgain(rows)
    /\ creating' = {}
    /\ loads' = [t \in Tasks |-> 0]
    /\ fatal' = FALSE
    /\ UNCHANGED rows

Next ==
    \/ \E t \in Tasks : Create(t) \/ CreateUnanswered(t) \/ Delete(t) \/ Push(t)
    \/ ReadTasks
    \/ Fail
    \/ Restart

Spec == Init /\ [][Next]_vars

=============================================================================
