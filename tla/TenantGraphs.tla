---------------------------- MODULE TenantGraphs ----------------------------
(***************************************************************************)
(* The graph of one workspace: the compiled schema widened by the fields   *)
(* of its catalogue.  A request is served the graph held, if the stamp of  *)
(* the catalogue's view is the one it was built from; otherwise a graph is *)
(* built, by one request at a time, under a lock that exists only while a  *)
(* request holds or awaits it.                                             *)
(*                                                                         *)
(* Every reading of the catalogue is a call of viewFor: FieldsCatalog with *)
(* its callers, its forgets and its failures runs underneath.              *)
(***************************************************************************)
EXTENDS FieldsCatalog

CONSTANTS
  Locks,    \* build locks that can exist at once, a set of numbers
  MaxCalls  \* bound on requests

ASSUME LocksAssumption == Locks \subseteq Nat \ {0} /\ Locks # {}
ASSUME CallsAssumption == MaxCalls \in Nat

VARIABLES
  held,    \* the graph held: the stamp and the version it was built from
  pc,      \* per caller: "idle", "first", "lock", "await", "second", "build", "release"
  cached,  \* per caller, the held graph its check found
  snap,    \* per caller, the snapshot it builds from
  lockAt,  \* the workspace's lock, 0 for none
  users,   \* per lock, the callers holding or awaiting it
  holder,  \* the locks held
  mine,    \* per caller, its lock, 0 for none
  calls    \* requests made

locking == <<lockAt, users, holder, mine>>
graphs == <<held, pc, cached, snap, calls>>
gvars == <<graphs, locking>>
vars == <<cvars, gvars>>

---------------------------------------------------------------------------
\* check: the held graph is looked up before the sources are read.
Enter(c) ==
  /\ pc[c] = "idle"
  /\ calls < MaxCalls
  /\ calls' = calls + 1
  /\ Ask(c)
  /\ cached' = [cached EXCEPT ![c] = held]
  /\ pc' = [pc EXCEPT ![c] = "first"]
  /\ UNCHANGED <<held, snap, locking>>

\* The held graph was built from the stamp just read.
UpToDate(c) == IsView(cached[c]) /\ cached[c].stamp = answer[c].stamp

\* check answers, with the held graph or, when reading failed, the best there is.
CheckAnswers(c, next) ==
  /\ at[c] = "answered"
  /\ ~IsView(answer[c]) \/ UpToDate(c)
  /\ Return(c)
  /\ cached' = [cached EXCEPT ![c] = Nothing]
  /\ pc' = [pc EXCEPT ![c] = next]
  /\ UNCHANGED <<held, snap, calls>>

\* check asks for a build from the snapshot it read.
CheckAsks(c, next) ==
  /\ at[c] = "answered"
  /\ IsView(answer[c]) /\ ~UpToDate(c)
  /\ Return(c)
  /\ snap' = [snap EXCEPT ![c] = IF next = "build" THEN answer[c] ELSE Nothing]
  /\ cached' = [cached EXCEPT ![c] = Nothing]
  /\ pc' = [pc EXCEPT ![c] = next]
  /\ UNCHANGED <<held, calls>>

FirstCheck(c) ==
  /\ pc[c] = "first"
  /\ CheckAnswers(c, "idle") \/ CheckAsks(c, "lock")
  /\ UNCHANGED locking

\* lockFor, under locking: the workspace's lock, made if there is none.
TakeLock(c) ==
  LET unused == {l \in Locks : users[l] = 0}
      l == IF lockAt # 0 THEN lockAt ELSE Min(unused)
  IN
  /\ pc[c] = "lock"
  /\ lockAt # 0 \/ unused # {}
  /\ lockAt' = l
  /\ users' = [users EXCEPT ![l] = @ + 1]
  /\ mine' = [mine EXCEPT ![c] = l]
  /\ pc' = [pc EXCEPT ![c] = "await"]
  /\ UNCHANGED <<held, cached, snap, calls, holder, cvars>>

\* The lock is free, and the second check begins.
Acquire(c) ==
  /\ pc[c] = "await"
  /\ mine[c] \notin holder
  /\ holder' = holder \cup {mine[c]}
  /\ Ask(c)
  /\ cached' = [cached EXCEPT ![c] = held]
  /\ pc' = [pc EXCEPT ![c] = "second"]
  /\ UNCHANGED <<held, snap, calls, lockAt, users, mine>>

\* A slip the runs must notice: the lock is not given back.
NotUnlocked(c) == UNCHANGED locking

\* The first half of the unlock that For defers.
Unlocked(c) == holder' = holder \ {mine[c]} /\ UNCHANGED <<lockAt, users, mine>>

SecondCheck(c) ==
  /\ pc[c] = "second"
  /\ \/ CheckAnswers(c, "release") /\ Unlocked(c)
     \/ CheckAsks(c, "build") /\ UNCHANGED locking

\* graphOf and Add.
Build(c) ==
  /\ pc[c] = "build"
  /\ held' = snap[c]
  /\ snap' = [snap EXCEPT ![c] = Nothing]
  /\ pc' = [pc EXCEPT ![c] = "release"]
  /\ Unlocked(c)
  /\ UNCHANGED <<cached, calls, cvars>>

\* A slip the runs must notice: the lock goes with the caller that held it.
AlwaysLast(l) == TRUE

\* Nobody else holds or awaits the lock.
LastUser(l) == users[l] = 1

\* The unlock's second half, under locking.
Release(c) ==
  LET l == mine[c] IN
  /\ pc[c] = "release"
  /\ users' = [users EXCEPT ![l] = @ - 1]
  /\ lockAt' = IF LastUser(l) THEN 0 ELSE lockAt
  /\ mine' = [mine EXCEPT ![c] = 0]
  /\ pc' = [pc EXCEPT ![c] = "idle"]
  /\ UNCHANGED <<held, cached, snap, calls, holder, cvars>>

\* Graphs of other workspaces push this one out.
EvictGraph ==
  /\ IsView(held)
  /\ faults < MaxFaults
  /\ faults' = faults + 1
  /\ held' = Nothing
  /\ UNCHANGED <<shared, callers, changes, pc, cached, snap, calls, locking>>

---------------------------------------------------------------------------
Init ==
  /\ CatalogInit
  /\ held = Nothing
  /\ pc = [c \in Callers |-> "idle"]
  /\ cached = [c \in Callers |-> Nothing]
  /\ snap = [c \in Callers |-> Nothing]
  /\ lockAt = 0
  /\ users = [l \in Locks |-> 0]
  /\ holder = {}
  /\ mine = [c \in Callers |-> 0]
  /\ calls = 0

GraphStep(c) ==
  \/ FirstCheck(c) \/ TakeLock(c) \/ Acquire(c) \/ SecondCheck(c) \/ Build(c)
  \/ Release(c)

Next ==
  \/ CatalogStep /\ UNCHANGED gvars
  \/ EvictGraph
  \/ \E c \in Callers : Enter(c) \/ GraphStep(c)

Spec == Init /\ [][Next]_vars

\* Goroutines run, a read of the definitions comes to an end, and a lock that is
\* free is taken.
Fairness ==
  /\ \A f \in Flights : WF_vars((Read(f) \/ Land(f)) /\ UNCHANGED gvars)
  /\ \A c \in Callers : WF_vars((CallerStep(c) /\ UNCHANGED gvars) \/ GraphStep(c))

FairSpec == Spec /\ Fairness

---------------------------------------------------------------------------
(* Properties.                                                             *)

TypeOK ==
  /\ CatalogTypeOK
  /\ held \in Readings /\ cached \in [Callers -> Readings]
  /\ snap \in [Callers -> Readings]
  /\ pc \in [Callers -> {"idle", "first", "lock", "await", "second", "build", "release"}]
  /\ lockAt \in Locks \cup {0}
  /\ users \in [Locks -> 0..Cardinality(Callers)]
  /\ holder \subseteq Locks
  /\ mine \in [Callers -> Locks \cup {0}]
  /\ calls \in 0..MaxCalls

\* A request whose reading of the catalogue worked is served the fields that
\* reading found, whoever built the graph and from whichever reading: equal
\* stamps stand for equal fields, through forgets, evictions and reads of which
\* nobody kept the view.
GraphsCurrent ==
  \A c \in Callers :
    (at[c] = "answered" /\ IsView(answer[c]) /\ UpToDate(c))
      => FieldsOf(cached[c]) = FieldsOf(answer[c])

\* One request at a time builds the workspace's graph, however the lock comes
\* and goes.
OneBuildAtATime ==
  Cardinality({c \in Callers : pc[c] \in {"second", "build"}}) <= 1

\* The requests made so far are all answered in the end, whoever gives up, reads
\* that fail and fields that change meanwhile, and whoever awaits the lock.
AllAnswered == []<>(\A c \in Callers : pc[c] = "idle")
=============================================================================
