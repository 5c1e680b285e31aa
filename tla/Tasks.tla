------------------------------- MODULE Tasks -------------------------------
(***************************************************************************)
(* Tasks: creates that an automation may repeat, told apart by the event   *)
(* they come from, and partial updates.  An update reads the row, applies  *)
(* its changes to what it read and writes every editable field back, and   *)
(* decides from what it read whether the task was completed: no lock and   *)
(* no version ties the write to the read.                                  *)
(*                                                                         *)
(* A call stands for the task it would create, and may end between any two *)
(* of its steps.                                                           *)
(***************************************************************************)
EXTENDS Naturals, FiniteSets

CONSTANTS
  Calls,     \* calls of createTask and updateTask
  Origins,   \* origins a create can name: a source and its event
  None,      \* no origin, no task
  Titles,    \* values of the other editable fields
  MaxDeaths  \* bound on calls cut short

ASSUME NoneAssumption == None \notin Calls \cup Origins \cup Titles
ASSUME DeathsAssumption == MaxDeaths \in Nat

VARIABLES
  rows,       \* the stored tasks: a function from tasks to rows
  origin,     \* per call, the origin its create names; None for no origin
  changes,    \* per call, the fields its update names
  pc,         \* per call: "idle", "read", "announce", "done"
  target,     \* per call, the task it updates, or answered
  read,       \* per call, the row its update read
  died,       \* calls cut short
  created,    \* per task, task.created events
  completed,  \* per task, task.completed events
  moved,      \* history: per task, writes that moved it from open to done
  raced       \* history: calls whose row was written after they read it

vars == <<rows, origin, changes, pc, target, read, died, created, completed, moved, raced>>

Rows    == [status : {"open", "done"}, title : Titles]
Changes == [status : {"open", "done", None}, title : Titles \cup {None}]

NoChanges == [status |-> None, title |-> None]

Stored == DOMAIN rows

\* A slip the runs must notice: a field the update does not name is written as missing.
AppliedRaw(row, given) == given

\* Apply: the named fields replaced, the others kept.
Applied(row, given) ==
  [status |-> IF given.status = None THEN row.status ELSE given.status,
   title  |-> IF given.title = None THEN row.title ELSE given.title]

\* A slip the runs must notice: announcing the state instead of the move into it.
IsDone(before, after) == after.status = "done"

\* completesTask
Completes(before, after) == before.status # "done" /\ after.status = "done"

---------------------------------------------------------------------------
(* Creating.                                                               *)

\* A slip the runs must notice: an insert without the conflict clause.
NeverMatches(c) == {}

\* The task an earlier create of the same origin stored.
Matches(c) == {t \in Stored : origin[c] # None /\ origin[t] = origin[c]}

\* A new task; one of the same origin would have been matched instead.
CreateTask(c) ==
  /\ pc[c] = "idle"
  /\ Matches(c) = {}
  /\ \E title \in Titles :
       rows' = [t \in Stored \cup {c} |->
                  IF t = c THEN [status |-> "open", title |-> title] ELSE rows[t]]
  /\ target' = [target EXCEPT ![c] = c]
  /\ pc' = [pc EXCEPT ![c] = "announce"]
  /\ UNCHANGED <<origin, changes, read, died, created, completed, moved, raced>>

\* The stored task is answered as a replay, and nothing is published.
ReplayCreate(c) ==
  /\ pc[c] = "idle"
  /\ \E t \in Matches(c) : target' = [target EXCEPT ![c] = t]
  /\ pc' = [pc EXCEPT ![c] = "done"]
  /\ UNCHANGED <<rows, origin, changes, read, died, created, completed, moved, raced>>

\* task.created follows the stored row.
AnnounceCreated(c) ==
  /\ pc[c] = "announce"
  /\ target[c] = c
  /\ created' = [created EXCEPT ![c] = @ + 1]
  /\ pc' = [pc EXCEPT ![c] = "done"]
  /\ UNCHANGED <<rows, origin, changes, target, read, died, completed, moved, raced>>

---------------------------------------------------------------------------
(* Updating.                                                               *)

\* Get; an update that names no field answers what it read.
ReadTask(c, t) ==
  /\ pc[c] = "idle"
  /\ t \in Stored
  /\ target' = [target EXCEPT ![c] = t]
  /\ read' = [read EXCEPT ![c] = rows[t]]
  /\ \E given \in Changes :
       /\ changes' = [changes EXCEPT ![c] = given]
       /\ pc' = [pc EXCEPT ![c] = IF given = NoChanges THEN "done" ELSE "read"]
  /\ UNCHANGED <<rows, origin, died, created, completed, moved, raced>>

\* Update writes every editable field.
WriteTask(c) ==
  LET t == target[c]
      updated == Applied(read[c], changes[c])
  IN
  /\ pc[c] = "read"
  /\ rows' = [rows EXCEPT ![t] = updated]
  /\ pc' = [pc EXCEPT ![c] = IF Completes(read[c], updated) THEN "announce" ELSE "done"]
  /\ moved' = [moved EXCEPT ![t] =
                 IF rows[t].status = "open" /\ updated.status = "done" THEN @ + 1 ELSE @]
  /\ raced' = raced \cup {d \in Calls : d # c /\ pc[d] = "read" /\ target[d] = t}
  /\ read' = [read EXCEPT ![c] = None]
  /\ changes' = [changes EXCEPT ![c] = NoChanges]
  /\ UNCHANGED <<origin, target, died, created, completed>>

\* task.completed follows the write.
AnnounceCompleted(c) ==
  /\ pc[c] = "announce"
  /\ target[c] # c
  /\ completed' = [completed EXCEPT ![target[c]] = @ + 1]
  /\ pc' = [pc EXCEPT ![c] = "done"]
  /\ UNCHANGED <<rows, origin, changes, target, read, died, created, moved, raced>>

\* The call ends here, its events unpublished.
Dies(c) ==
  /\ pc[c] \in {"read", "announce"}
  /\ Cardinality(died) < MaxDeaths
  /\ died' = died \cup {c}
  /\ pc' = [pc EXCEPT ![c] = "done"]
  /\ UNCHANGED <<rows, origin, changes, target, read, created, completed, moved, raced>>

---------------------------------------------------------------------------
Init ==
  /\ rows = <<>>
  /\ origin \in [Calls -> Origins \cup {None}]
  /\ changes = [c \in Calls |-> NoChanges]
  /\ pc = [c \in Calls |-> "idle"]
  /\ target = [c \in Calls |-> None]
  /\ read = [c \in Calls |-> None]
  /\ died = {}
  /\ created = [c \in Calls |-> 0]
  /\ completed = [c \in Calls |-> 0]
  /\ moved = [c \in Calls |-> 0]
  /\ raced = {}

Next ==
  \E c \in Calls :
    \/ CreateTask(c) \/ ReplayCreate(c) \/ AnnounceCreated(c)
    \/ WriteTask(c) \/ AnnounceCompleted(c) \/ Dies(c)
    \/ \E t \in Calls : ReadTask(c, t)

Spec == Init /\ [][Next]_vars

---------------------------------------------------------------------------
(* Properties.                                                             *)

TypeOK ==
  /\ Stored \subseteq Calls /\ \A t \in Stored : rows[t] \in Rows
  /\ origin \in [Calls -> Origins \cup {None}]
  /\ changes \in [Calls -> Changes]
  /\ pc \in [Calls -> {"idle", "read", "announce", "done"}]
  /\ target \in [Calls -> Calls \cup {None}]
  /\ \A c \in Calls : pc[c] # "idle" => target[c] \in Stored
  /\ read \in [Calls -> Rows \cup {None}]
  /\ died \subseteq Calls /\ raced \subseteq Calls
  /\ created \in [Calls -> Nat] /\ completed \in [Calls -> Nat] /\ moved \in [Calls -> Nat]

\* However often a create is repeated, its origin has one task, announced once at most, and
\* once exactly when the call that stored it ran to its end.
OneTaskPerOrigin ==
  /\ \A t, u \in Stored : origin[t] = origin[u] /\ origin[t] # None => t = u
  /\ \A t \in Stored : pc[t] = "done" => created[t] = IF t \in died THEN 0 ELSE 1

\* Calls that meet no other write between their read and theirs lose nothing: the fields an
\* update does not name stay as they are, and completion is announced when and only when the
\* task moved into done.
ExactUnlessRaced ==
  [][\A c \in Calls \ raced :
       pc[c] = "read" /\ pc'[c] # "read" /\ c \notin died' =>
         LET t == target[c] IN
         /\ changes[c].title = None => rows'[t].title = rows[t].title
         /\ changes[c].status = None => rows'[t].status = rows[t].status
         /\ pc'[c] = "announce" <=> moved'[t] > moved[t]]_vars

\* What the webhook guide says: task.completed fires on the move into done, and patching a
\* task that is already done publishes nothing.
CompletedOnMove == \A t \in Calls : completed[t] <= moved[t]

===========================================================================
