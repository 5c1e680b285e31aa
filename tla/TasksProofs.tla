---------------------------- MODULE TasksProofs ----------------------------
(***************************************************************************)
(* Creates and updates of tasks, for any number of calls, origins and      *)
(* values.                                                                 *)
(*                                                                         *)
(* That an origin has one task, announced as often as its call survived,   *)
(* rests on who publishes task.created: only the call that stored the task *)
(* (Creators).  That an update is exact rests on the row being as it was   *)
(* read for as long as nobody else wrote it (Fresh).                       *)
(***************************************************************************)
EXTENDS Tasks, TLAPS

\* A task's call is the one that created it and is past its create; no other targets itself.
Creators ==
  /\ \A c \in Calls : c \in Stored <=> pc[c] # "idle" /\ target[c] = c
  /\ \A t \in Stored : pc[t] \in {"announce", "done"}
  /\ \A c \in Calls : pc[c] # "done" => c \notin died

\* task.created is published by the last step of the call that stored the task.
Announced ==
  \A c \in Calls :
    created[c] = IF c \in Stored /\ pc[c] = "done" /\ c \notin died THEN 1 ELSE 0

\* Stored tasks of one origin are one task.
Unique == \A t, u \in Stored : origin[t] = origin[u] /\ origin[t] # None => t = u

\* A call about to write holds the row it read, still the stored one unless the call was raced.
Fresh ==
  \A c \in Calls : pc[c] = "read" =>
    /\ read[c] \in Rows
    /\ c \notin raced => rows[target[c]] = read[c]

IInv == TypeOK /\ Creators /\ Announced /\ Unique /\ Fresh

---------------------------------------------------------------------------
\* An update answers a row.
LEMMA AppliedType ==
  ASSUME NEW row \in Rows, NEW given \in Changes PROVE Applied(row, given) \in Rows
  BY DEF Rows, Changes, Applied

\* The first state satisfies the invariant: no task is stored.
LEMMA InitIInv == Init => IInv
<1> SUFFICES ASSUME Init PROVE IInv
  OBVIOUS
<1>1. Stored = {}
  BY DEF Init, Stored
<1>2. NoChanges \in Changes
  BY DEF NoChanges, Changes
<1>3. TypeOK
  BY <1>1, <1>2 DEF Init, TypeOK
<1>4. Creators /\ Announced /\ Unique /\ Fresh
  BY <1>1 DEF Init, Creators, Announced, Unique, Fresh
<1> QED
  BY <1>3, <1>4 DEF IInv

\* What a create leaves stored.
LEMMA CreateStores ==
  ASSUME NEW c \in Calls, TypeOK, CreateTask(c)
  PROVE  /\ Stored' = Stored \cup {c}
         /\ rows'[c] \in Rows
         /\ \A t \in Stored \ {c} : rows'[t] = rows[t]
<1>1. PICK title \in Titles :
        rows' = [t \in Stored \cup {c} |->
                   IF t = c THEN [status |-> "open", title |-> title] ELSE rows[t]]
  BY DEF CreateTask
<1> QED
  BY <1>1 DEF Stored, Rows

\* What a write leaves stored.
LEMMA WriteStores ==
  ASSUME NEW c \in Calls, IInv, WriteTask(c)
  PROVE  /\ target[c] \in Stored /\ Stored' = Stored
         /\ rows'[target[c]] = Applied(read[c], changes[c])
         /\ rows'[target[c]] \in Rows
         /\ \A t \in Stored \ {target[c]} : rows'[t] = rows[t]
<1>1. target[c] \in Stored /\ read[c] \in Rows /\ changes[c] \in Changes
  BY DEF WriteTask, IInv, TypeOK, Fresh
<1>2. Applied(read[c], changes[c]) \in Rows
  BY <1>1, AppliedType
<1>3. rows' = [rows EXCEPT ![target[c]] = Applied(read[c], changes[c])]
  BY DEF WriteTask
<1> QED
  BY <1>1, <1>2, <1>3 DEF Stored

---------------------------------------------------------------------------
\* Every step keeps every variable in its type.
LEMMA TypeStep == IInv /\ [Next]_vars => TypeOK'
<1> SUFFICES ASSUME IInv, [Next]_vars PROVE TypeOK'
  OBVIOUS
<1>a. TypeOK
  BY DEF IInv
<1> USE DEF TypeOK
<1>1. ASSUME NEW c \in Calls, CreateTask(c) PROVE TypeOK'
  <2>1. Stored' \subseteq Calls /\ \A t \in Stored' : rows'[t] \in Rows
    BY <1>a, <1>1, CreateStores
  <2>2. \A d \in Calls : pc'[d] # "idle" => target'[d] \in Stored'
    BY <1>a, <1>1, CreateStores DEF CreateTask
  <2> QED
    BY <1>a, <1>1, <2>1, <2>2 DEF CreateTask
<1>2. ASSUME NEW c \in Calls, ReplayCreate(c) PROVE TypeOK'
  BY <1>a, <1>2 DEF ReplayCreate, Matches, Stored
<1>3. ASSUME NEW c \in Calls, AnnounceCreated(c) PROVE TypeOK'
  BY <1>a, <1>3 DEF AnnounceCreated, Stored
<1>4. ASSUME NEW c \in Calls, NEW t \in Calls, ReadTask(c, t) PROVE TypeOK'
  <2>1. PICK given \in Changes :
          /\ changes' = [changes EXCEPT ![c] = given]
          /\ pc' = [pc EXCEPT ![c] = IF given = NoChanges THEN "done" ELSE "read"]
    BY <1>4 DEF ReadTask
  <2> QED
    BY <1>a, <1>4, <2>1 DEF ReadTask, Stored
<1>5. ASSUME NEW c \in Calls, WriteTask(c) PROVE TypeOK'
  <2>1. Stored' = Stored /\ \A t \in Stored' : rows'[t] \in Rows
    BY <1>a, <1>5, WriteStores
  <2>2. NoChanges \in Changes
    BY DEF NoChanges, Changes
  <2>3. moved' \in [Calls -> Nat]
    BY <1>a, <1>5 DEF WriteTask
  <2>4. \A d \in Calls : pc'[d] # "idle" => target'[d] \in Stored'
    BY <1>a, <1>5, <2>1 DEF WriteTask
  <2> QED
    BY <1>a, <1>5, <2>1, <2>2, <2>3, <2>4 DEF WriteTask
<1>6. ASSUME NEW c \in Calls, AnnounceCompleted(c) PROVE TypeOK'
  BY <1>a, <1>6 DEF AnnounceCompleted, Stored
<1>7. ASSUME NEW c \in Calls, Dies(c) PROVE TypeOK'
  BY <1>a, <1>7 DEF Dies, Stored
<1>8. CASE UNCHANGED vars
  BY <1>a, <1>8 DEF vars, Stored
<1> QED
  BY <1>1, <1>2, <1>3, <1>4, <1>5, <1>6, <1>7, <1>8 DEF Next

\* The call that stored a task is the one that announces it, and a create of a stored origin
\* stores nothing.
LEMMA CreatorsStep == IInv /\ [Next]_vars => Creators' /\ Announced' /\ Unique'
<1> SUFFICES ASSUME IInv, [Next]_vars PROVE Creators' /\ Announced' /\ Unique'
  OBVIOUS
<1>a. TypeOK /\ Creators /\ Announced /\ Unique
  BY DEF IInv
<1> USE DEF TypeOK, Creators, Announced, Unique
<1>1. ASSUME NEW c \in Calls, CreateTask(c) PROVE Creators' /\ Announced' /\ Unique'
  <2>1. Stored' = Stored \cup {c} /\ c \notin Stored
    BY <1>a, <1>1, CreateStores DEF CreateTask
  <2>2. \A t \in Stored : ~(origin[c] # None /\ origin[t] = origin[c])
    BY <1>1 DEF CreateTask, Matches
  <2>3. Creators'
    BY <1>a, <1>1, <2>1 DEF CreateTask
  <2>4. Announced'
    BY <1>a, <1>1, <2>1 DEF CreateTask
  <2>5. Unique'
    BY <1>a, <1>1, <2>1, <2>2 DEF CreateTask
  <2> QED
    BY <2>3, <2>4, <2>5
<1>2. ASSUME NEW c \in Calls, ReplayCreate(c) PROVE Creators' /\ Announced' /\ Unique'
  <2>1. PICK t \in Matches(c) : target' = [target EXCEPT ![c] = t]
    BY <1>2 DEF ReplayCreate
  <2>2. t # c /\ Stored' = Stored
    BY <1>a, <1>2 DEF ReplayCreate, Matches, Stored
  <2> QED
    BY <1>a, <1>2, <2>1, <2>2 DEF ReplayCreate
<1>3. ASSUME NEW c \in Calls, AnnounceCreated(c) PROVE Creators' /\ Announced' /\ Unique'
  BY <1>a, <1>3 DEF AnnounceCreated, Stored
<1>4. ASSUME NEW c \in Calls, NEW t \in Calls, ReadTask(c, t)
      PROVE  Creators' /\ Announced' /\ Unique'
  <2>1. t # c /\ c \notin Stored /\ Stored' = Stored
    BY <1>a, <1>4 DEF ReadTask, Stored
  <2>2. \A d \in Calls : pc'[d] = IF d = c THEN pc'[c] ELSE pc[d]
    BY <1>a, <1>4 DEF ReadTask
  <2>3. pc'[c] \in {"read", "done"}
    BY <1>a, <1>4 DEF ReadTask
  <2> QED
    BY <1>a, <1>4, <2>1, <2>2, <2>3 DEF ReadTask
<1>5. ASSUME NEW c \in Calls, WriteTask(c) PROVE Creators' /\ Announced' /\ Unique'
  <2>1. Stored' = Stored /\ c \notin Stored
    BY <1>a, <1>5, WriteStores DEF WriteTask
  <2>2. \A d \in Calls : pc'[d] = IF d = c THEN pc'[c] ELSE pc[d]
    BY <1>a, <1>5 DEF WriteTask
  <2>3. pc'[c] \in {"announce", "done"}
    BY <1>a, <1>5 DEF WriteTask
  <2> QED
    BY <1>a, <1>5, <2>1, <2>2, <2>3 DEF WriteTask
<1>6. ASSUME NEW c \in Calls, AnnounceCompleted(c) PROVE Creators' /\ Announced' /\ Unique'
  BY <1>a, <1>6 DEF AnnounceCompleted, Stored
<1>7. ASSUME NEW c \in Calls, Dies(c) PROVE Creators' /\ Announced' /\ Unique'
  BY <1>a, <1>7 DEF Dies, Stored
<1>8. CASE UNCHANGED vars
  BY <1>a, <1>8 DEF vars, Stored
<1> QED
  BY <1>1, <1>2, <1>3, <1>4, <1>5, <1>6, <1>7, <1>8 DEF Next

\* Only a write changes a stored row, and it marks every call it overtakes.
LEMMA FreshStep == IInv /\ [Next]_vars => Fresh'
<1> SUFFICES ASSUME IInv, [Next]_vars PROVE Fresh'
  OBVIOUS
<1>a. TypeOK /\ Creators /\ Fresh
  BY DEF IInv
<1> USE DEF TypeOK, Fresh
<1>1. ASSUME NEW c \in Calls, CreateTask(c) PROVE Fresh'
  <2>1. c \notin Stored
    BY <1>a, <1>1 DEF CreateTask, Creators
  <2>2. \A t \in Stored : rows'[t] = rows[t]
    BY <1>a, <1>1, <2>1, CreateStores
  <2> QED
    BY <1>a, <1>1, <2>2 DEF CreateTask
<1>2. ASSUME NEW c \in Calls, ReplayCreate(c) PROVE Fresh'
  BY <1>a, <1>2 DEF ReplayCreate
<1>3. ASSUME NEW c \in Calls, AnnounceCreated(c) PROVE Fresh'
  BY <1>a, <1>3 DEF AnnounceCreated
<1>4. ASSUME NEW c \in Calls, NEW t \in Calls, ReadTask(c, t) PROVE Fresh'
  <2>1. \A d \in Calls : d # c => pc'[d] = pc[d]
    BY <1>a, <1>4 DEF ReadTask
  <2> QED
    BY <1>a, <1>4, <2>1 DEF ReadTask
<1>5. ASSUME NEW c \in Calls, WriteTask(c) PROVE Fresh'
  <2>1. \A d \in Calls : pc'[d] = "read" => d # c /\ pc[d] = "read"
    BY <1>a, <1>5 DEF WriteTask
  <2>2. ASSUME NEW d \in Calls, d # c, pc[d] = "read"
        PROVE  /\ read'[d] \in Rows
               /\ d \notin raced' => rows'[target'[d]] = read'[d]
    <3>1. d \notin raced' => target[d] # target[c] /\ d \notin raced
      BY <1>5, <2>2 DEF WriteTask
    <3>2. target[d] # target[c] => rows'[target[d]] = rows[target[d]]
      BY <1>a, <1>5, <2>2, WriteStores
    <3> QED
      BY <1>a, <1>5, <2>2, <3>1, <3>2 DEF WriteTask
  <2> QED
    BY <2>1, <2>2
<1>6. ASSUME NEW c \in Calls, AnnounceCompleted(c) PROVE Fresh'
  BY <1>a, <1>6 DEF AnnounceCompleted
<1>7. ASSUME NEW c \in Calls, Dies(c) PROVE Fresh'
  BY <1>a, <1>7 DEF Dies
<1>8. CASE UNCHANGED vars
  BY <1>a, <1>8 DEF vars
<1> QED
  BY <1>1, <1>2, <1>3, <1>4, <1>5, <1>6, <1>7, <1>8 DEF Next

\* Every step keeps the invariant.
LEMMA IInvStep == IInv /\ [Next]_vars => IInv'
  BY TypeStep, CreatorsStep, FreshStep DEF IInv

---------------------------------------------------------------------------
\* Tasks, calls and counts keep their types.
THEOREM TypeCorrect == Spec => []TypeOK
<1>1. IInv => TypeOK
  BY DEF IInv
<1> QED
  BY <1>1, InitIInv, IInvStep, PTL DEF Spec

\* However often createTask is repeated, an origin has one task, announced once unless the
\* call that stored it was cut short.
THEOREM OneTask == Spec => []OneTaskPerOrigin
<1>1. IInv => OneTaskPerOrigin
  BY DEF IInv, TypeOK, Creators, Announced, Unique, OneTaskPerOrigin
<1> QED
  BY <1>1, InitIInv, IInvStep, PTL DEF Spec

\* An update nobody raced keeps what it does not name, and announces the move into done.
LEMMA ExactStep ==
  IInv /\ [Next]_vars =>
    \A c \in Calls \ raced :
      pc[c] = "read" /\ pc'[c] # "read" /\ c \notin died' =>
        LET t == target[c] IN
        /\ changes[c].title = None => rows'[t].title = rows[t].title
        /\ changes[c].status = None => rows'[t].status = rows[t].status
        /\ pc'[c] = "announce" <=> moved'[t] > moved[t]
<1> SUFFICES ASSUME IInv, [Next]_vars, NEW c \in Calls \ raced,
                    pc[c] = "read", pc'[c] # "read", c \notin died'
             PROVE  /\ changes[c].title = None => rows'[target[c]].title = rows[target[c]].title
                    /\ changes[c].status = None => rows'[target[c]].status = rows[target[c]].status
                    /\ pc'[c] = "announce" <=> moved'[target[c]] > moved[target[c]]
  OBVIOUS
<1>a. TypeOK /\ Fresh
  BY DEF IInv
<1> USE DEF TypeOK
<1>1. WriteTask(c)
  <2>1. ASSUME NEW d \in Calls, d # c,
               \/ CreateTask(d) \/ ReplayCreate(d) \/ AnnounceCreated(d)
               \/ WriteTask(d) \/ AnnounceCompleted(d) \/ Dies(d)
               \/ \E t \in Calls : ReadTask(d, t)
        PROVE  pc'[c] = pc[c]
    BY <1>a, <2>1 DEF CreateTask, ReplayCreate, AnnounceCreated, WriteTask, AnnounceCompleted,
                      Dies, ReadTask
  <2>2. ~(\/ CreateTask(c) \/ ReplayCreate(c) \/ AnnounceCreated(c) \/ AnnounceCompleted(c)
          \/ \E t \in Calls : ReadTask(c, t))
    BY DEF CreateTask, ReplayCreate, AnnounceCreated, AnnounceCompleted, ReadTask
  <2>3. ~Dies(c)
    BY DEF Dies
  <2>4. ~UNCHANGED vars
    BY DEF vars
  <2> QED
    BY <2>1, <2>2, <2>3, <2>4 DEF Next
<1>2. read[c] \in Rows /\ rows[target[c]] = read[c] /\ target[c] \in Calls
  BY <1>a DEF Fresh
<1>3. rows'[target[c]] = Applied(read[c], changes[c])
  BY <1>1, WriteStores
<1>4. /\ changes[c].title = None => rows'[target[c]].title = rows[target[c]].title
      /\ changes[c].status = None => rows'[target[c]].status = rows[target[c]].status
  BY <1>2, <1>3 DEF Applied
<1>5. pc'[c] = "announce" <=> Completes(read[c], Applied(read[c], changes[c]))
  BY <1>a, <1>1 DEF WriteTask
<1>6. moved'[target[c]] > moved[target[c]] <=>
        rows[target[c]].status = "open" /\ Applied(read[c], changes[c]).status = "done"
  BY <1>a, <1>1, <1>2 DEF WriteTask
<1>7. read[c].status # "done" <=> read[c].status = "open"
  BY <1>2 DEF Rows
<1> QED
  BY <1>2, <1>4, <1>5, <1>6, <1>7 DEF Completes

\* updateTask is exact unless another update writes between its read and its write.
THEOREM UpdatesExact == Spec => ExactUnlessRaced
<1>1. IInv /\ [Next]_vars =>
        [\A c \in Calls \ raced :
           pc[c] = "read" /\ pc'[c] # "read" /\ c \notin died' =>
             LET t == target[c] IN
             /\ changes[c].title = None => rows'[t].title = rows[t].title
             /\ changes[c].status = None => rows'[t].status = rows[t].status
             /\ pc'[c] = "announce" <=> moved'[t] > moved[t]]_vars
  BY ExactStep
<1> QED
  BY <1>1, InitIInv, IInvStep, PTL DEF Spec, ExactUnlessRaced

===========================================================================
