----------------------------- MODULE Repository -----------------------------
(***************************************************************************)
(* repository/mysql_repository.go: the two tables and the statements the   *)
(* program runs on them.  Every operator below is one statement (or one    *)
(* transaction) of the database; the callers in PreloaderService decide    *)
(* what runs between two of them, because the procedure create_task and    *)
(* the cleaning of empty collections are not transactions.                 *)
(*                                                                         *)
(* A collection row says when its tasks are due and which instance of the  *)
(* application has taken it.  Instances are numbered by restarts; 0 is the *)
(* empty taken_by_instance.  Collection ids are auto-increment numbers.    *)
(***************************************************************************)
EXTENDS Integers, FiniteSets

CONSTANTS
    Ids,                        \* uuids of tasks
    Nil,                        \* no row
    MaxCollections,             \* bound: values of the auto-increment key
    MaxCountTasksInCollection,  \* Options.MaxCountTasksInCollection
    CleanAge                    \* the 5 seconds of deleteEmptyCollections

ASSUME MaxCollectionsAssumption == MaxCollections \in Nat
ASSUME CleanAgeAssumption == CleanAge \in Nat
ASSUME NilRowAssumption == Nil \notin [execTime : Int, takenBy : Nat]

VARIABLES
    collection,  \* rows of collection, by id
    lastId,      \* last value of the auto-increment key
    taskRow,     \* rows of task: the collection_id of a uuid, 0 without a row
    instance     \* appInstanceId of the running application

tables == <<collection, lastId, taskRow>>

CollectionIds == 1..MaxCollections

Row == [execTime : Int, takenBy : Nat]

Exists(k) == collection[k] # Nil

TasksOf(k) == {id \in Ids : taskRow[id] = k}

RepositoryTypeOK ==
    /\ collection \in [CollectionIds -> Row \cup {Nil}]
    /\ lastId \in 0..MaxCollections
    /\ \A k \in CollectionIds : k > lastId => ~Exists(k)
    /\ taskRow \in [Ids -> 0..MaxCollections]
    /\ instance \in Nat \ {0}

RepositoryInit ==
    /\ collection = [k \in CollectionIds |-> Nil]
    /\ lastId = 0
    /\ taskRow = [id \in Ids |-> 0]
    /\ instance = 1

-----------------------------------------------------------------------------
(* create_task                                                              *)

(* The collections its SELECT may return.                                   *)
FindCollection(execTime, isTaken) ==
    {k \in CollectionIds :
        /\ Exists(k)
        /\ collection[k].execTime = execTime
        /\ (collection[k].takenBy = instance) <=> isTaken
        /\ Cardinality(TasksOf(k)) < MaxCountTasksInCollection}

InsertCollection(execTime, isTaken) ==
    /\ lastId < MaxCollections
    /\ lastId' = lastId + 1
    /\ collection' = [collection EXCEPT ![lastId + 1] =
                         [execTime |-> execTime, takenBy |-> IF isTaken THEN instance ELSE 0]]

(* The insert respects the primary key and the foreign key.                 *)
InsertTask(id, k) ==
    /\ taskRow[id] = 0
    /\ Exists(k)
    /\ taskRow' = [taskRow EXCEPT ![id] = k]

-----------------------------------------------------------------------------
(* FindBySecToExecTime, getTasksByCollection                                *)

(* A wrong variant: taken_by_instance is not looked at.                     *)
DueTakenByAnyone(to) == {k \in CollectionIds : Exists(k) /\ collection[k].execTime <= to}

(* A wrong variant: only collections nobody has taken, as if a crashed      *)
(* instance still ran.                                                      *)
DueOnlyUntaken(to) ==
    {k \in CollectionIds :
        Exists(k) /\ collection[k].execTime <= to /\ collection[k].takenBy = 0}

(* SELECT ... FOR UPDATE                                                    *)
Due(to) ==
    {k \in CollectionIds :
        Exists(k) /\ collection[k].execTime <= to /\ collection[k].takenBy # instance}

(* UPDATE collection SET taken_by_instance, in the same transaction.        *)
TakeCollections(ks) ==
    collection' = [k \in CollectionIds |->
        IF k \in ks THEN [collection[k] EXCEPT !.takenBy = instance] ELSE collection[k]]

-----------------------------------------------------------------------------
(* Delete, deleteEmptyCollections                                           *)

DeleteTask(id) == taskRow' = [taskRow EXCEPT ![id] = 0]

(* A wrong variant: collections that are still to come are cleaned too.     *)
EmptyCollectionsOfAnyAge(now) ==
    {k \in CollectionIds : Exists(k) /\ TasksOf(k) = {}}

EmptyCollections(now) ==
    {k \in CollectionIds :
        Exists(k) /\ collection[k].execTime < now - CleanAge /\ TasksOf(k) = {}}

(* DELETE FROM collection WHERE id IN (ks): the foreign key makes the whole *)
(* statement fail when one of them has a task.                              *)
DeleteCollections(ks) ==
    /\ \A k \in ks : TasksOf(k) = {}
    /\ collection' = [k \in CollectionIds |-> IF k \in ks THEN Nil ELSE collection[k]]

=============================================================================
