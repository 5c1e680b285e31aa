--------------------------- MODULE FieldsCatalog ---------------------------
(***************************************************************************)
(* Custom fields: the catalogue of one workspace as a process serves it.   *)
(* A view of the live definitions is kept until a change made here forgets *)
(* it, it is too old, or other workspaces push it out.  Callers that find  *)
(* none share one read of the definitions; a forget overtakes that read    *)
(* and sends its callers to read again, and the last caller to give up     *)
(* stops it.                                                               *)
(*                                                                         *)
(* The definitions are the sets of fields that were live one after another *)
(* and a view stands for the version it read.  A change elsewhere is one   *)
(* another process makes, which this one is not told of.                   *)
(***************************************************************************)
EXTENDS Naturals, Sequences, FiniteSetsExt

CONSTANTS
  Callers,     \* requests that need the view
  Flights,     \* reads under way at once, a set of numbers
  Fields,      \* fields that can be defined
  MaxChanges,  \* bound on changes of the definitions
  MaxFaults    \* bound on reads that fail, views pushed out and requests cancelled

\* Requests at one moment are finitely many.
ASSUME CallersAssumption == IsFiniteSet(Callers)
ASSUME FlightsAssumption == Flights \subseteq Nat \ {0} /\ Flights # {}
ASSUME BoundsAssumption == MaxChanges \in Nat /\ MaxFaults \in Nat

VARIABLES
  defs,        \* the definitions after each change, the last the current ones
  unforgotten, \* versions stored by a change here that has yet to forget the view
  view,        \* the held view
  fresh,       \* whether the held view is younger than the refresh interval
  current,     \* the read later callers join, 0 for none
  flights,     \* per flight, the read it stands for
  stamped,     \* the last stamp given
  at,          \* per caller: "idle", "join", "wait", "answered"
  on,          \* per caller, the flight it waits on, 0 for none
  answer,      \* per caller, what viewFor answered
  faults       \* reads that failed, views pushed out and requests cancelled

\* History, read by no action's guard.
VARIABLES
  forgotten,   \* the newest version a change here has forgotten the view for
  floor        \* per caller, that version when its call began

shared == <<view, fresh, current, flights, stamped>>
callers == <<at, on, answer, floor>>
changes == <<defs, unforgotten, forgotten>>
cvars == <<shared, callers, changes, faults>>

\* What a read comes to: a view, or an error that is its own, its stopping, or the caller's.
Reading(is, stamp, version) == [is |-> is, stamp |-> stamp, version |-> version]
Nothing == Reading("none", 0, 0)
Errors == {"failed", "stopped", "gone"}
Readings == [is : {"none", "view"} \cup Errors, stamp : Nat, version : Nat]
IsView(r) == r.is = "view"
FieldsOf(r) == defs[r.version]

Idle == [phase |-> "none", stopped |-> FALSE, overtaken |-> FALSE, waiting |-> 0, result |-> Nothing]
Starting == [Idle EXCEPT !.phase = "reading", !.waiting = 1]

\* A flight nobody waits on is collected once its read has landed.
Kept(flight, waiters) == IF flight.phase = "landed" /\ waiters = {} THEN Idle ELSE flight
WaitersOf(f) == {c \in Callers : on[c] = f}

---------------------------------------------------------------------------
(* Changes of the definitions.                                             *)

Stored(content) == defs' = Append(defs, content)

\* define, archive or order here: the statement, its forget still to come.
Change ==
  /\ Len(defs) <= MaxChanges
  /\ \E content \in SUBSET Fields : Stored(content)
  /\ unforgotten' = unforgotten \cup {Len(defs) + 1}
  /\ UNCHANGED <<shared, callers, faults, forgotten>>

\* The same by another process, or a change whose answer was lost.
ChangeElsewhere ==
  /\ Len(defs) <= MaxChanges
  /\ \E content \in SUBSET Fields : Stored(content)
  /\ UNCHANGED <<shared, callers, faults, unforgotten, forgotten>>

\* A slip the runs must notice: the read is stopped and its callers take what is left.
OnlyStopped ==
  IF current = 0 THEN flights ELSE [flights EXCEPT ![current].stopped = TRUE]

\* The read under way once a forget has overtaken it.
Overtaken ==
  IF current = 0 THEN flights
  ELSE [flights EXCEPT ![current].overtaken = TRUE, ![current].stopped = TRUE]

\* forget, after the change of version v.
Forget(v) ==
  /\ v \in unforgotten
  /\ unforgotten' = unforgotten \ {v}
  /\ forgotten' = IF v > forgotten THEN v ELSE forgotten
  /\ flights' = Overtaken
  /\ current' = 0
  /\ view' = Nothing
  /\ fresh' = FALSE
  /\ UNCHANGED <<stamped, callers, defs, faults>>

\* The refresh interval of the held view is over.
GrowsOld ==
  /\ fresh
  /\ fresh' = FALSE
  /\ UNCHANGED <<view, current, flights, stamped, callers, changes, faults>>

\* Views of other workspaces push this one out.
Evict ==
  /\ IsView(view)
  /\ faults < MaxFaults
  /\ faults' = faults + 1
  /\ view' = Nothing
  /\ fresh' = FALSE
  /\ UNCHANGED <<current, flights, stamped, callers, changes>>

---------------------------------------------------------------------------
(* viewFor.                                                                *)

\* A call of viewFor begins.
Ask(c) ==
  /\ at[c] = "idle"
  /\ at' = [at EXCEPT ![c] = "join"]
  /\ floor' = [floor EXCEPT ![c] = forgotten]
  /\ UNCHANGED <<shared, on, answer, changes, faults>>

\* join, a fresh view held.
JoinHeld(c) ==
  /\ at[c] = "join"
  /\ fresh
  /\ at' = [at EXCEPT ![c] = "answered"]
  /\ answer' = [answer EXCEPT ![c] = view]
  /\ UNCHANGED <<shared, on, floor, changes, faults>>

\* join of the read under way.
JoinFlight(c) ==
  /\ at[c] = "join"
  /\ ~fresh /\ current # 0
  /\ at' = [at EXCEPT ![c] = "wait"]
  /\ on' = [on EXCEPT ![c] = current]
  /\ flights' = [flights EXCEPT ![current].waiting = @ + 1]
  /\ UNCHANGED <<view, fresh, current, stamped, answer, floor, changes, faults>>

\* join that starts a read.
StartFlight(c) ==
  LET idle == {f \in Flights : flights[f].phase = "none"} IN
  /\ at[c] = "join"
  /\ ~fresh /\ current = 0
  /\ idle # {}
  /\ current' = Min(idle)
  /\ at' = [at EXCEPT ![c] = "wait"]
  /\ on' = [on EXCEPT ![c] = Min(idle)]
  /\ flights' = [flights EXCEPT ![Min(idle)] = Starting]
  /\ UNCHANGED <<view, fresh, stamped, answer, floor, changes, faults>>

\* read: the definitions of the moment, a failure, or the cancellation of a stopped read.
Read(f) ==
  /\ flights[f].phase = "reading"
  /\ \E result \in {Reading("view", 0, Len(defs)), Reading("failed", 0, 0), Reading("stopped", 0, 0)} :
       /\ result.is = "failed" => faults < MaxFaults
       /\ result.is = "stopped" => flights[f].stopped
       /\ faults' = IF result.is = "failed" THEN faults + 1 ELSE faults
       /\ flights' = [flights EXCEPT ![f].phase = "read", ![f].result = result]
  /\ UNCHANGED <<view, fresh, current, stamped, callers, changes>>

\* A slip the runs must notice: the held view's stamp whatever its fields were.
SameStamp(result) == IF IsView(view) THEN view.stamp ELSE stamped + 1

\* stampFor
StampFor(result) ==
  IF IsView(view) /\ FieldsOf(view) = FieldsOf(result) THEN view.stamp ELSE stamped + 1

\* The end of fly: the view is kept only if its flight is still the current one.
Land(f) ==
  LET result == flights[f].result
      landed == IF IsView(result) THEN [result EXCEPT !.stamp = StampFor(result)] ELSE result
      keeps == IsView(result) /\ current = f
  IN
  /\ flights[f].phase = "read"
  /\ flights' = [flights EXCEPT ![f] =
       Kept([@ EXCEPT !.phase = "landed", !.stopped = TRUE, !.result = landed], WaitersOf(f))]
  /\ stamped' = IF landed.stamp > stamped THEN landed.stamp ELSE stamped
  /\ current' = IF current = f THEN 0 ELSE current
  /\ view' = IF keeps THEN landed ELSE view
  /\ fresh' = (keeps \/ fresh)
  /\ UNCHANGED <<callers, changes, faults>>

\* The caller is off its flight.
Off(c) == on' = [on EXCEPT ![c] = 0]

\* done: the result of the read.
TakeResult(c) ==
  LET f == on[c] IN
  /\ at[c] = "wait" /\ flights[f].phase = "landed"
  /\ ~flights[f].overtaken
  /\ at' = [at EXCEPT ![c] = "answered"]
  /\ answer' = [answer EXCEPT ![c] = flights[f].result]
  /\ Off(c)
  /\ flights' = [flights EXCEPT ![f] = Kept(@, WaitersOf(f) \ {c})]
  /\ UNCHANGED <<view, fresh, current, stamped, floor, changes, faults>>

\* done, overtaken: the caller reads again.
JoinAgain(c) ==
  LET f == on[c] IN
  /\ at[c] = "wait" /\ flights[f].phase = "landed"
  /\ flights[f].overtaken
  /\ at' = [at EXCEPT ![c] = "join"]
  /\ Off(c)
  /\ flights' = [flights EXCEPT ![f] = Kept(@, WaitersOf(f) \ {c})]
  /\ UNCHANGED <<view, fresh, current, stamped, answer, floor, changes, faults>>

\* leave stops the read when the last caller is gone.
LastLeaving(waiting) == waiting = 1

\* The caller's request is cancelled: leave.
GiveUp(c) ==
  LET f == on[c]
      last == LastLeaving(flights[f].waiting)
      left == [flights[f] EXCEPT !.waiting = @ - 1, !.stopped = @ \/ last]
  IN
  /\ at[c] = "wait"
  /\ faults < MaxFaults
  /\ faults' = faults + 1
  /\ at' = [at EXCEPT ![c] = "answered"]
  /\ answer' = [answer EXCEPT ![c] = Reading("gone", 0, 0)]
  /\ Off(c)
  /\ flights' = [flights EXCEPT ![f] = Kept(left, WaitersOf(f) \ {c})]
  /\ current' = IF last /\ current = f THEN 0 ELSE current
  /\ UNCHANGED <<view, fresh, stamped, floor, changes>>

\* The caller has its answer.
Return(c) ==
  /\ at[c] = "answered"
  /\ at' = [at EXCEPT ![c] = "idle"]
  /\ answer' = [answer EXCEPT ![c] = Nothing]
  /\ floor' = [floor EXCEPT ![c] = 0]
  /\ UNCHANGED <<shared, on, changes, faults>>

---------------------------------------------------------------------------
CatalogInit ==
  /\ defs = <<{}>>
  /\ unforgotten = {}
  /\ forgotten = 0
  /\ view = Nothing
  /\ fresh = FALSE
  /\ current = 0
  /\ flights = [f \in Flights |-> Idle]
  /\ stamped = 0
  /\ at = [c \in Callers |-> "idle"]
  /\ on = [c \in Callers |-> 0]
  /\ answer = [c \in Callers |-> Nothing]
  /\ floor = [c \in Callers |-> 0]
  /\ faults = 0

\* A caller's way through viewFor, once it has asked.
CallerStep(c) ==
  JoinHeld(c) \/ JoinFlight(c) \/ StartFlight(c) \/ TakeResult(c) \/ JoinAgain(c)

\* Everything but asking and returning.
CatalogStep ==
  \/ Change \/ ChangeElsewhere \/ GrowsOld \/ Evict
  \/ \E v \in unforgotten : Forget(v)
  \/ \E c \in Callers : CallerStep(c) \/ GiveUp(c)
  \/ \E f \in Flights : Read(f) \/ Land(f)

CatalogNext == CatalogStep \/ \E c \in Callers : Ask(c) \/ Return(c)

CatalogSpec == CatalogInit /\ [][CatalogNext]_cvars

---------------------------------------------------------------------------
(* Properties.                                                             *)

CatalogTypeOK ==
  /\ defs \in Seq(SUBSET Fields) /\ Len(defs) \in 1..(MaxChanges + 1)
  /\ unforgotten \subseteq 1..Len(defs)
  /\ forgotten \in 0..Len(defs)
  /\ view \in Readings /\ view.is \in {"none", "view"}
  /\ fresh \in BOOLEAN /\ (fresh => IsView(view))
  /\ current \in Flights \cup {0}
  /\ flights \in [Flights -> [phase : {"none", "reading", "read", "landed"}, stopped : BOOLEAN,
                              overtaken : BOOLEAN, waiting : Nat, result : Readings]]
  /\ stamped \in Nat
  /\ at \in [Callers -> {"idle", "join", "wait", "answered"}]
  /\ on \in [Callers -> Flights \cup {0}]
  /\ \A c \in Callers : (at[c] = "wait") = (on[c] # 0)
  /\ answer \in [Callers -> Readings]
  /\ floor \in [Callers -> 0..Len(defs)]
  /\ faults \in 0..MaxFaults

\* A caller is never answered a reading older than a change whose forget came
\* before its call, though that reading was already under way and others share
\* it; and one that stayed is never answered the stopping of the read, which
\* another caller's leaving or a forget brought about.
AnswersCurrent ==
  \A c \in Callers :
    at[c] = "answered" =>
      /\ IsView(answer[c]) => answer[c].version >= floor[c]
      /\ answer[c].is # "stopped"
=============================================================================
