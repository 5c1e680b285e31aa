------------------------- MODULE TenantGraphsProofs -------------------------
(***************************************************************************)
(* The catalogue of FieldsCatalog and the graph TenantGraphs builds from   *)
(* it, for any callers, flights, fields, locks and bounds: no answer is    *)
(* older than a change forgotten before its call, equal stamps stand for   *)
(* equal fields, and one request at a time builds.                         *)
(***************************************************************************)
EXTENDS TenantGraphs, FiniteSetTheorems, TLAPS

Landing(f) == flights[f].phase \in {"reading", "read"}

\* A flight counts the callers on it until its read has landed, and at least
\* those afterwards; nobody is on a flight that was collected.
Counted ==
  \A f \in Flights :
    /\ Landing(f) => flights[f].waiting = Cardinality(WaitersOf(f))
    /\ flights[f].phase = "landed" => flights[f].waiting >= Cardinality(WaitersOf(f))
    /\ flights[f].phase = "none" => flights[f] = Idle /\ WaitersOf(f) = {}

\* The read later callers join is under way, and neither stopped nor overtaken.
Joinable ==
  current # 0 =>
    /\ Landing(current)
    /\ ~flights[current].stopped /\ ~flights[current].overtaken
    /\ flights[current].result.is # "stopped"

\* A read that was stopped before it landed, but not by a forget, has nobody on it.
Deserted ==
  \A f \in Flights :
    (~flights[f].overtaken /\ ((Landing(f) /\ flights[f].stopped)
                               \/ flights[f].result.is = "stopped"))
      => WaitersOf(f) = {}

\* What is held, or can still be joined, is as new as the last change forgotten;
\* what a caller waits for, unless a forget overtakes it, as its own floor.
Recent ==
  /\ IsView(view) => view.version >= forgotten
  /\ (current # 0 /\ IsView(flights[current].result)) =>
       flights[current].result.version >= forgotten
  /\ \A c \in Callers : floor[c] <= forgotten
  /\ \A f \in Flights : \A c \in WaitersOf(f) :
       (~flights[f].overtaken /\ IsView(flights[f].result))
         => flights[f].result.version >= floor[c]

\* Readings of the definitions name a version there was.
Versions ==
  \A f \in Flights : IsView(flights[f].result) => flights[f].result.version \in 1..Len(defs)

CatalogInv == CatalogTypeOK /\ Counted /\ Joinable /\ Deserted /\ Recent /\ Versions /\ AnswersCurrent

\* A view that was stamped and is kept somewhere.
Given(r) ==
  /\ IsView(r)
  /\ \/ r = view \/ r = held
     \/ \E f \in Flights : flights[f].phase = "landed" /\ r = flights[f].result
     \/ \E c \in Callers : r \in {answer[c], cached[c], snap[c]}

\* Equal stamps stand for equal fields.
Stamped ==
  /\ \A r \in Readings : Given(r) => r.stamp \in 1..stamped /\ r.version \in 1..Len(defs)
  /\ \A r, s \in Readings : (Given(r) /\ Given(s) /\ r.stamp = s.stamp) => FieldsOf(r) = FieldsOf(s)

\* The callers that hold or await lock l, and those inside it.
UsersOf(l) == {c \in Callers : mine[c] = l}
Inside(c) == pc[c] \in {"second", "build"}

\* The callers on a lock are on the one that exists, and counted by it; one is inside.
Locked ==
  /\ \A c \in Callers : (pc[c] \in {"await", "second", "build", "release"}) = (mine[c] # 0)
  /\ \A c \in Callers : mine[c] # 0 => mine[c] = lockAt
  /\ \A l \in Locks : users[l] = Cardinality(UsersOf(l))
  /\ \A c \in Callers : Inside(c) => mine[c] \in holder
  /\ \A c, d \in Callers : Inside(c) /\ Inside(d) => c = d

\* A caller is in viewFor while it checks.
Checking == \A c \in Callers : (at[c] # "idle") = (pc[c] \in {"first", "second"})

IInv == TypeOK /\ CatalogInv /\ Checking /\ Stamped /\ Locked

---------------------------------------------------------------------------
(* Sets and sequences.                                                     *)

\* A set of numbers has a least one: the intervals up to its members are finite
\* sets, which strict inclusion orders without infinite descent.
LEMMA LeastNumber ==
  ASSUME NEW S \in SUBSET Nat, S # {}
  PROVE  Min(S) \in S
<1> DEFINE T == {1..n : n \in S}
<1>1. \A n \in S : IsFiniteSet(1..n) /\ 1..n \subseteq Nat
  BY FS_Interval
<1>2. T \subseteq FiniteSubsetsOf(Nat) /\ T # {}
  BY <1>1 DEF FiniteSubsetsOf
<1>3. IsWellFoundedOn(StrictSubsetOrdering(Nat), FiniteSubsetsOf(Nat))
  BY FS_StrictSubsetOrderingWellFounded
<1> HIDE DEF T
<1>4. PICK X \in T : \A Y \in T : ~(<<Y, X>> \in StrictSubsetOrdering(Nat))
  BY <1>2, <1>3, WFMin
<1>5. PICK x \in S : X = 1..x
  BY <1>4 DEF T
<1>6. \A y \in S : x =< y
  <2> SUFFICES ASSUME NEW y \in S, y < x PROVE FALSE
    OBVIOUS
  <2>1. 1..y \in T /\ x \in 1..x /\ x \notin 1..y
    BY DEF T
  <2>2. 1..y \subseteq 1..x /\ 1..x \subseteq Nat
    OBVIOUS
  <2> QED
    BY <2>1, <2>2, <1>4, <1>5 DEF StrictSubsetOrdering
<1> QED
  BY <1>6 DEF Min

\* The size of a set of callers, as one comes and as one goes.
LEMMA Sizes ==
  ASSUME NEW S \in SUBSET Callers
  PROVE  /\ Cardinality(S) \in 0..Cardinality(Callers) /\ Cardinality(Callers) \in Nat
         /\ Cardinality(S) = 0 <=> S = {}
         /\ \A c \in Callers \ S : Cardinality(S \cup {c}) = Cardinality(S) + 1
         /\ \A c \in S : Cardinality(S \ {c}) = Cardinality(S) - 1
         /\ Cardinality(S) = 1 => \A c, d \in S : c = d
<1>1. IsFiniteSet(S) /\ Cardinality(S) <= Cardinality(Callers)
  BY CallersAssumption, FS_Subset
<1>2. Cardinality(S) \in Nat /\ Cardinality(Callers) \in Nat
  BY <1>1, CallersAssumption, FS_CardinalityType
<1>3. Cardinality(S) = 0 <=> S = {}
  BY <1>1, FS_EmptySet
<1>4. \A c \in Callers \ S : Cardinality(S \cup {c}) = Cardinality(S) + 1
  BY <1>1, FS_AddElement
<1>5. \A c \in S : Cardinality(S \ {c}) = Cardinality(S) - 1
  BY <1>1, FS_RemoveElement
<1>6. Cardinality(S) = 1 => \A c, d \in S : c = d
  BY <1>1, FS_Singleton
<1> QED
  BY <1>1, <1>2, <1>3, <1>4, <1>5, <1>6

\* A change only adds a version.
LEMMA OneMore ==
  ASSUME defs \in Seq(SUBSET Fields), NEW content \in SUBSET Fields, Stored(content)
  PROVE  /\ defs' \in Seq(SUBSET Fields) /\ Len(defs') = Len(defs) + 1
         /\ \A v \in 1..Len(defs) : defs'[v] = defs[v]
BY DEF Stored

---------------------------------------------------------------------------
(* Who is on a flight.                                                     *)

\* Callers who stay where they are are waiters of the same flights.
LEMMA Unmoved ==
  ASSUME UNCHANGED on, NEW f
  PROVE  WaitersOf(f)' = WaitersOf(f)
BY DEF WaitersOf

\* A caller who joins a flight is one waiter more of it and of no other.
LEMMA Boards ==
  ASSUME CatalogTypeOK, NEW c \in Callers, on[c] = 0, NEW f \in Flights,
         on' = [on EXCEPT ![c] = f]
  PROVE  /\ WaitersOf(f)' = WaitersOf(f) \cup {c} /\ c \notin WaitersOf(f)
         /\ Cardinality(WaitersOf(f)') = Cardinality(WaitersOf(f)) + 1
         /\ \A g \in Flights \ {f} : WaitersOf(g)' = WaitersOf(g)
<1>1. on \in [Callers -> Flights \cup {0}] /\ 0 \notin Flights
  BY FlightsAssumption DEF CatalogTypeOK
<1>2. WaitersOf(f)' = WaitersOf(f) \cup {c} /\ c \notin WaitersOf(f)
  BY <1>1 DEF WaitersOf
<1>3. \A g \in Flights \ {f} : WaitersOf(g)' = WaitersOf(g)
  BY <1>1 DEF WaitersOf
<1>4. WaitersOf(f) \in SUBSET Callers
  BY DEF WaitersOf
<1> QED
  BY <1>2, <1>3, <1>4, Sizes

\* A caller who leaves a flight is one waiter less of it and of no other.
LEMMA Leaves ==
  ASSUME CatalogTypeOK, NEW c \in Callers, NEW f, f = on[c], f # 0, Off(c)
  PROVE  /\ f \in Flights /\ c \in WaitersOf(f)
         /\ WaitersOf(f)' = WaitersOf(f) \ {c}
         /\ Cardinality(WaitersOf(f)) \in Nat \ {0}
         /\ Cardinality(WaitersOf(f)') = Cardinality(WaitersOf(f)) - 1
         /\ \A g \in Flights \ {f} : WaitersOf(g)' = WaitersOf(g)
<1>1. on \in [Callers -> Flights \cup {0}] /\ 0 \notin Flights
  BY FlightsAssumption DEF CatalogTypeOK
<1>2. f \in Flights /\ c \in WaitersOf(f)
  BY <1>1 DEF WaitersOf
<1>3. WaitersOf(f)' = WaitersOf(f) \ {c}
  BY <1>1 DEF WaitersOf, Off
<1>4. \A g \in Flights \ {f} : WaitersOf(g)' = WaitersOf(g)
  BY <1>1 DEF WaitersOf, Off
<1>5. WaitersOf(f) \in SUBSET Callers
  BY DEF WaitersOf
<1> QED
  BY <1>2, <1>3, <1>4, <1>5, Sizes

---------------------------------------------------------------------------
(* The catalogue.                                                          *)

\* What the graphs do to the catalogue: its own steps, and using up a fault.
CatalogMove ==
  \/ CatalogNext
  \/ UNCHANGED <<shared, callers, changes>> /\ faults' \in 0..MaxFaults

Flying == [phase : {"none", "reading", "read", "landed"}, stopped : BOOLEAN,
           overtaken : BOOLEAN, waiting : Nat, result : Readings]

\* The readings the catalog makes are readings.
LEMMA ReadingTypes ==
  /\ Nothing \in Readings /\ ~IsView(Nothing) /\ Nothing.is = "none"
  /\ \A n \in Nat : Reading("view", 0, n) \in Readings
  /\ Reading("failed", 0, 0) \in Readings /\ Reading("stopped", 0, 0) \in Readings
  /\ Reading("gone", 0, 0) \in Readings
  /\ \A r \in Readings : \A n \in Nat : [r EXCEPT !.stamp = n] \in Readings
  /\ \A r \in Readings : r.stamp \in Nat /\ r.version \in Nat
BY DEF Nothing, Reading, Readings, Errors, IsView

\* What the catalog makes of a flight is a flight.
LEMMA FlyingTypes ==
  /\ Idle \in Flying /\ Starting \in Flying
  /\ \A x \in Flying :
       /\ x.phase \in {"none", "reading", "read", "landed"} /\ x.stopped \in BOOLEAN
       /\ x.overtaken \in BOOLEAN /\ x.waiting \in Nat /\ x.result \in Readings
       /\ [x EXCEPT !.overtaken = TRUE, !.stopped = TRUE] \in Flying
       /\ [x EXCEPT !.waiting = @ + 1] \in Flying
       /\ \A r \in Readings : [x EXCEPT !.phase = "read", !.result = r] \in Flying
       /\ \A r \in Readings :
            [x EXCEPT !.phase = "landed", !.stopped = TRUE, !.result = r] \in Flying
       /\ \A b \in BOOLEAN :
            x.waiting # 0 => [x EXCEPT !.waiting = @ - 1, !.stopped = @ \/ b] \in Flying
       /\ \A S : Kept(x, S) \in Flying
<1>1. Nothing \in Readings
  BY ReadingTypes
<1>2. Idle \in Flying /\ Starting \in Flying
  BY <1>1 DEF Flying, Idle, Starting
<1>3. ASSUME NEW x \in Flying
      PROVE  /\ x.phase \in {"none", "reading", "read", "landed"} /\ x.stopped \in BOOLEAN
             /\ x.overtaken \in BOOLEAN /\ x.waiting \in Nat /\ x.result \in Readings
             /\ [x EXCEPT !.overtaken = TRUE, !.stopped = TRUE] \in Flying
             /\ [x EXCEPT !.waiting = @ + 1] \in Flying
  <2>1. /\ x.phase \in {"none", "reading", "read", "landed"} /\ x.stopped \in BOOLEAN
        /\ x.overtaken \in BOOLEAN /\ x.waiting \in Nat /\ x.result \in Readings
    BY DEF Flying
  <2>2. [x EXCEPT !.overtaken = TRUE, !.stopped = TRUE] \in Flying
    BY DEF Flying
  <2>3. x.waiting + 1 \in Nat
    BY <2>1
  <2>4. [x EXCEPT !.waiting = @ + 1] \in Flying
    BY <2>3 DEF Flying
  <2> QED
    BY <2>1, <2>2, <2>4
<1>4. ASSUME NEW x \in Flying, NEW r \in Readings
      PROVE  /\ [x EXCEPT !.phase = "read", !.result = r] \in Flying
             /\ [x EXCEPT !.phase = "landed", !.stopped = TRUE, !.result = r] \in Flying
  BY DEF Flying
<1>5. ASSUME NEW x \in Flying, NEW b \in BOOLEAN, x.waiting # 0
      PROVE  [x EXCEPT !.waiting = @ - 1, !.stopped = @ \/ b] \in Flying
  <2>1. x.waiting \in Nat
    BY <1>3
  <2>2. x.waiting - 1 \in Nat
    BY <2>1, <1>5
  <2>3. (x.stopped \/ b) \in BOOLEAN
    OBVIOUS
  <2> QED
    BY <2>2, <2>3 DEF Flying
<1>6. ASSUME NEW x \in Flying, NEW S
      PROVE  Kept(x, S) \in Flying
  BY <1>2 DEF Kept
<1> QED
  BY <1>2, <1>3, <1>4, <1>5, <1>6

\* The flights, once their types are known.
LEMMA FlightTypes ==
  ASSUME CatalogTypeOK
  PROVE  /\ flights \in [Flights -> Flying]
         /\ Len(defs) \in Nat \ {0} /\ 0 \notin Flights
BY FlightsAssumption DEF CatalogTypeOK, Flying

\* A flight starts in a place no other one uses.
LEMMA IdleFlight ==
  ASSUME NEW c \in Callers, StartFlight(c)
  PROVE  \E g \in Flights :
           /\ flights[g].phase = "none" /\ current' = g
           /\ on' = [on EXCEPT ![c] = g]
           /\ flights' = [flights EXCEPT ![g] = Starting]
<1> DEFINE idle == {f \in Flights : flights[f].phase = "none"}
<1>1. idle \in SUBSET Nat /\ idle # {}
  BY FlightsAssumption DEF StartFlight
<1>2. Min(idle) \in idle
  BY <1>1, LeastNumber
<1>3. /\ current' = Min(idle) /\ on' = [on EXCEPT ![c] = Min(idle)]
      /\ flights' = [flights EXCEPT ![Min(idle)] = Starting]
  BY DEF StartFlight
<1> QED
  BY <1>2, <1>3

\* Every step keeps the flights in their type.
LEMMA FlightsTyped ==
  CatalogTypeOK /\ Counted /\ CatalogMove => flights' \in [Flights -> Flying]
<1> SUFFICES ASSUME CatalogTypeOK, Counted, CatalogMove PROVE flights' \in [Flights -> Flying]
  OBVIOUS
<1>0. flights \in [Flights -> Flying] /\ Len(defs) \in Nat /\ current \in Flights \cup {0}
  BY FlightTypes DEF CatalogTypeOK
<1>1. ASSUME NEW v \in unforgotten, Forget(v) PROVE flights' \in [Flights -> Flying]
  BY <1>0, <1>1, FlyingTypes DEF Forget, Overtaken
<1>2. ASSUME NEW c \in Callers, JoinFlight(c) PROVE flights' \in [Flights -> Flying]
  BY <1>0, <1>2, FlyingTypes DEF JoinFlight
<1>3. ASSUME NEW c \in Callers, StartFlight(c) PROVE flights' \in [Flights -> Flying]
  BY <1>0, <1>3, FlyingTypes, IdleFlight
<1>4. ASSUME NEW f \in Flights, Read(f) PROVE flights' \in [Flights -> Flying]
  <2>1. PICK r \in Readings : flights' = [flights EXCEPT ![f].phase = "read", ![f].result = r]
    BY <1>0, <1>4, ReadingTypes DEF Read
  <2> QED
    BY <1>0, <2>1, FlyingTypes
<1>5. ASSUME NEW f \in Flights, Land(f) PROVE flights' \in [Flights -> Flying]
  <2> DEFINE r == IF IsView(flights[f].result)
                  THEN [flights[f].result EXCEPT !.stamp = StampFor(flights[f].result)]
                  ELSE flights[f].result
  <2>1. StampFor(flights[f].result) \in Nat /\ flights[f].result \in Readings
    <3>1. view \in Readings /\ stamped \in Nat
      BY DEF CatalogTypeOK
    <3>2. view.stamp \in Nat
      BY <3>1, ReadingTypes
    <3>3. StampFor(flights[f].result) \in Nat
      BY <3>1, <3>2 DEF StampFor
    <3>4. flights[f] \in Flying
      BY <1>0
    <3> QED
      BY <3>3, <3>4, FlyingTypes
  <2>2. r \in Readings
    BY <2>1, ReadingTypes
  <2>3. flights' = [flights EXCEPT ![f] =
          Kept([flights[f] EXCEPT !.phase = "landed", !.stopped = TRUE, !.result = r], WaitersOf(f))]
    BY <1>5 DEF Land
  <2> QED
    BY <1>0, <2>2, <2>3, FlyingTypes
<1>6. ASSUME NEW c \in Callers, TakeResult(c) \/ JoinAgain(c)
      PROVE  flights' \in [Flights -> Flying]
  <2>1. PICK S : flights' = [flights EXCEPT ![on[c]] = Kept(flights[on[c]], S)]
    BY <1>0, <1>6 DEF TakeResult, JoinAgain
  <2> QED
    BY <1>0, <2>1, FlyingTypes
<1>7. ASSUME NEW c \in Callers, GiveUp(c) PROVE flights' \in [Flights -> Flying]
  <2>0. on[c] # 0
    BY <1>7 DEF GiveUp, CatalogTypeOK
  <2>1. on[c] \in Flights /\ Cardinality(WaitersOf(on[c])) \in Nat \ {0}
    BY <1>7, <2>0, Leaves DEF GiveUp
  <2>2. flights[on[c]].waiting # 0 /\ LastLeaving(flights[on[c]].waiting) \in BOOLEAN
    <3>1. flights[on[c]].phase \in {"none", "reading", "read", "landed"} /\ WaitersOf(on[c]) # {}
      BY <1>0, <2>1, FlyingTypes, Leaves, <1>7, <2>0 DEF GiveUp
    <3>2. flights[on[c]].waiting \in Nat
      BY <1>0, <2>1, FlyingTypes
    <3> QED
      BY <2>1, <3>1, <3>2 DEF Counted, Landing, LastLeaving
  <2>3. flights' = [flights EXCEPT ![on[c]] =
          Kept([flights[on[c]] EXCEPT !.waiting = @ - 1,
                                      !.stopped = @ \/ LastLeaving(flights[on[c]].waiting)],
               WaitersOf(on[c]) \ {c})]
    BY <1>7 DEF GiveUp
  <2> QED
    BY <1>0, <2>1, <2>2, <2>3, FlyingTypes
<1>8. CASE UNCHANGED flights
  BY <1>0, <1>8
<1> QED
  BY <1>1, <1>2, <1>3, <1>4, <1>5, <1>6, <1>7, <1>8
     DEF CatalogMove, CatalogNext, CatalogStep, CallerStep, shared, Change, ChangeElsewhere,
         GrowsOld, Evict, Ask, JoinHeld, Return

\* A flight that somebody waits on was not collected, and counts one at least.
LEMMA Boarded ==
  ASSUME CatalogTypeOK, Counted, NEW c \in Callers, at[c] = "wait"
  PROVE  /\ on[c] \in Flights /\ c \in WaitersOf(on[c])
         /\ Landing(on[c]) \/ flights[on[c]].phase = "landed"
         /\ flights[on[c]].waiting \in Nat \ {0}
<1>1. on[c] \in Flights /\ c \in WaitersOf(on[c])
  BY DEF CatalogTypeOK, WaitersOf
<1>2. flights[on[c]] \in Flying
  BY <1>1, FlightTypes
<1>3. flights[on[c]].phase \in {"none", "reading", "read", "landed"} /\ flights[on[c]].waiting \in Nat
  BY <1>2, FlyingTypes
<1>4. Landing(on[c]) \/ flights[on[c]].phase = "landed"
  BY <1>1, <1>3 DEF Counted, Landing
<1>5. WaitersOf(on[c]) \in SUBSET Callers
  BY DEF WaitersOf
<1>6. Cardinality(WaitersOf(on[c])) \in Nat \ {0}
  BY <1>1, <1>5, Sizes
<1> QED
  BY <1>1, <1>3, <1>4, <1>6 DEF Counted

\* Every step keeps the held view and the answers in their types.
LEMMA ViewTyped ==
  CatalogTypeOK /\ CatalogMove =>
    /\ view' \in Readings /\ view'.is \in {"none", "view"}
    /\ fresh' \in BOOLEAN /\ (fresh' => IsView(view)')
    /\ stamped' \in Nat
    /\ answer' \in [Callers -> Readings]
<1> SUFFICES ASSUME CatalogTypeOK, CatalogMove
             PROVE  /\ view' \in Readings /\ view'.is \in {"none", "view"}
                    /\ fresh' \in BOOLEAN /\ (fresh' => IsView(view)')
                    /\ stamped' \in Nat
                    /\ answer' \in [Callers -> Readings]
  OBVIOUS
<1>0. /\ view \in Readings /\ view.is \in {"none", "view"}
      /\ fresh \in BOOLEAN /\ (fresh => IsView(view))
      /\ stamped \in Nat /\ answer \in [Callers -> Readings]
      /\ flights \in [Flights -> Flying]
  BY FlightTypes DEF CatalogTypeOK
<1>1. ASSUME NEW v \in unforgotten, Forget(v) PROVE view' = Nothing /\ UNCHANGED <<stamped, answer>> /\ fresh' = FALSE
  BY <1>1 DEF Forget, callers
<1>2. ASSUME NEW f \in Flights, Land(f)
      PROVE  /\ view' \in Readings /\ view'.is \in {"none", "view"} /\ fresh' \in BOOLEAN
             /\ (fresh' => IsView(view)') /\ stamped' \in Nat /\ UNCHANGED answer
  <2> DEFINE result == flights[f].result
             given == [result EXCEPT !.stamp = StampFor(result)]
             landed == IF IsView(result) THEN given ELSE result
             keeps == IsView(result) /\ current = f
  <2>1. view.stamp \in Nat /\ result \in Readings
    BY <1>0, ReadingTypes, FlyingTypes
  <2>2. StampFor(result) \in Nat
    BY <1>0, <2>1 DEF StampFor
  <2>3. given \in Readings /\ result.stamp \in Nat /\ given.stamp \in Nat
    BY <2>1, <2>2, ReadingTypes
  <2>4. IsView(result) => given.is = "view"
    BY <2>1 DEF IsView, Readings
  <2>5. /\ stamped' = IF landed.stamp > stamped THEN landed.stamp ELSE stamped
        /\ view' = IF keeps THEN given ELSE view
        /\ fresh' = (keeps \/ fresh) /\ UNCHANGED answer
    BY <1>2 DEF Land, callers
  <2> HIDE DEF result, given
  <2>6. stamped' \in Nat
    BY <1>0, <2>3, <2>5
  <2>7. CASE keeps
    BY <2>3, <2>4, <2>5, <2>6, <2>7 DEF IsView
  <2>8. CASE ~keeps
    BY <1>0, <2>5, <2>6, <2>8 DEF IsView
  <2> QED
    BY <2>7, <2>8
<1>3. ASSUME NEW c \in Callers, CallerStep(c) \/ GiveUp(c) \/ Return(c)
      PROVE  answer' \in [Callers -> Readings] /\ UNCHANGED <<view, fresh, stamped>>
  <2>1. PICK r \in Readings : answer' = [answer EXCEPT ![c] = r] \/ UNCHANGED answer
    <3>1. CASE JoinHeld(c) BY <1>0, <3>1 DEF JoinHeld
    <3>2. CASE TakeResult(c)
      <4>1. on[c] \in Flights
        BY <3>2 DEF TakeResult, CatalogTypeOK
      <4>2. flights[on[c]].result \in Readings
        BY <1>0, <4>1, FlyingTypes
      <4> QED
        BY <3>2, <4>2 DEF TakeResult
    <3>3. CASE GiveUp(c) BY <3>3, ReadingTypes DEF GiveUp
    <3>4. CASE Return(c) BY <3>4, ReadingTypes DEF Return
    <3>5. CASE UNCHANGED answer BY <3>5, ReadingTypes
    <3> QED
      BY <1>3, <3>1, <3>2, <3>3, <3>4, <3>5 DEF CallerStep, JoinFlight, StartFlight, JoinAgain
  <2>2. UNCHANGED <<view, fresh, stamped>>
    BY <1>3 DEF CallerStep, JoinHeld, JoinFlight, StartFlight, TakeResult, JoinAgain, GiveUp, Return, shared
  <2> QED
    BY <1>0, <2>1, <2>2
<1>4. CASE Evict
  BY <1>0, <1>4, ReadingTypes DEF Evict, callers
<1>5. CASE GrowsOld
  BY <1>0, <1>5 DEF GrowsOld, callers, IsView
<1>6. CASE UNCHANGED <<view, fresh, stamped, answer>>
  BY <1>0, <1>6 DEF IsView
<1> QED
  BY <1>0, <1>1, <1>2, <1>3, <1>4, <1>5, <1>6, ReadingTypes
     DEF CatalogMove, CatalogNext, CatalogStep, shared, callers, Change, ChangeElsewhere, Ask, Read, IsView

\* The rest of a caller's call.
LEMMA CallersTyped ==
  CatalogTypeOK /\ CatalogMove =>
    /\ at' \in [Callers -> {"idle", "join", "wait", "answered"}]
    /\ on' \in [Callers -> Flights \cup {0}]
    /\ \A c \in Callers : (at'[c] = "wait") = (on'[c] # 0)
    /\ current' \in Flights \cup {0}
    /\ faults' \in 0..MaxFaults
<1> SUFFICES ASSUME CatalogTypeOK, CatalogMove
             PROVE  /\ at' \in [Callers -> {"idle", "join", "wait", "answered"}]
                    /\ on' \in [Callers -> Flights \cup {0}]
                    /\ \A c \in Callers : (at'[c] = "wait") = (on'[c] # 0)
                    /\ current' \in Flights \cup {0}
                    /\ faults' \in 0..MaxFaults
  OBVIOUS
<1>0. /\ at \in [Callers -> {"idle", "join", "wait", "answered"}]
      /\ on \in [Callers -> Flights \cup {0}] /\ 0 \notin Flights
      /\ \A c \in Callers : (at[c] = "wait") = (on[c] # 0)
      /\ current \in Flights \cup {0}
      /\ faults \in 0..MaxFaults /\ MaxFaults \in Nat
  BY FlightTypes, BoundsAssumption DEF CatalogTypeOK
<1>1. ASSUME NEW v \in unforgotten, Forget(v) PROVE current' = 0 /\ UNCHANGED <<at, on, faults>>
  BY <1>1 DEF Forget, callers
<1>2. CASE Evict
  BY <1>0, <1>2 DEF Evict, callers
<1>3. ASSUME NEW c \in Callers, JoinFlight(c)
      PROVE  /\ at' = [at EXCEPT ![c] = "wait"] /\ current \in Flights
             /\ on' = [on EXCEPT ![c] = current] /\ UNCHANGED <<current, faults>>
  BY <1>0, <1>3 DEF JoinFlight
<1>4. ASSUME NEW c \in Callers, StartFlight(c)
      PROVE  \E g \in Flights :
               /\ at' = [at EXCEPT ![c] = "wait"] /\ current' = g
               /\ on' = [on EXCEPT ![c] = g] /\ UNCHANGED faults
  BY <1>4, IdleFlight DEF StartFlight
<1>5. ASSUME NEW c \in Callers, TakeResult(c) \/ JoinAgain(c) \/ GiveUp(c)
      PROVE  /\ \E p \in {"join", "answered"} : at' = [at EXCEPT ![c] = p]
             /\ on' = [on EXCEPT ![c] = 0] /\ current' \in {current, 0}
             /\ faults' \in 0..MaxFaults
  BY <1>0, <1>5 DEF TakeResult, JoinAgain, GiveUp, Off
<1>6. ASSUME NEW c \in Callers, Ask(c) \/ JoinHeld(c) \/ Return(c)
      PROVE  /\ at[c] # "wait" /\ \E p \in {"idle", "join", "answered"} : at' = [at EXCEPT ![c] = p]
             /\ UNCHANGED <<on, current, faults>>
  BY <1>0, <1>6 DEF Ask, JoinHeld, Return, shared
<1>7. ASSUME NEW f \in Flights, Read(f)
      PROVE  UNCHANGED <<at, on, current>> /\ faults' \in 0..MaxFaults
  BY <1>0, <1>7 DEF Read, callers
<1>8. ASSUME NEW f \in Flights, Land(f)
      PROVE  UNCHANGED <<at, on, faults>> /\ current' \in {current, 0}
  BY <1>0, <1>8 DEF Land, callers
<1>9. CASE UNCHANGED <<at, on, current>> /\ faults' \in 0..MaxFaults
  BY <1>0, <1>9
<1>10. ASSUME NEW c \in Callers, CallerStep(c) \/ GiveUp(c) \/ Ask(c) \/ Return(c)
       PROVE  /\ at' \in [Callers -> {"idle", "join", "wait", "answered"}]
              /\ on' \in [Callers -> Flights \cup {0}]
              /\ \A d \in Callers : (at'[d] = "wait") = (on'[d] # 0)
              /\ current' \in Flights \cup {0} /\ faults' \in 0..MaxFaults
  <2>1. CASE JoinFlight(c) BY <1>0, <1>3, <2>1
  <2>2. CASE StartFlight(c) BY <1>0, <1>4, <2>2
  <2>3. CASE TakeResult(c) \/ JoinAgain(c) \/ GiveUp(c) BY <1>0, <1>5, <2>3
  <2>4. CASE Ask(c) \/ JoinHeld(c) \/ Return(c) BY <1>0, <1>6, <2>4
  <2> QED
    BY <1>10, <2>1, <2>2, <2>3, <2>4 DEF CallerStep
<1> QED
  BY <1>0, <1>1, <1>2, <1>7, <1>8, <1>9, <1>10
     DEF CatalogMove, CatalogNext, CatalogStep, shared, callers, Change, ChangeElsewhere, GrowsOld

\* The definitions and the changes of them.
LEMMA ChangesTyped ==
  CatalogTypeOK /\ CatalogMove =>
    /\ defs' \in Seq(SUBSET Fields) /\ Len(defs') \in Len(defs)..(MaxChanges + 1)
    /\ \A v \in 1..Len(defs) : defs'[v] = defs[v]
    /\ unforgotten' \subseteq 1..Len(defs')
    /\ forgotten' \in forgotten..Len(defs')
    /\ floor' \in [Callers -> 0..Len(defs')]
<1> SUFFICES ASSUME CatalogTypeOK, CatalogMove
             PROVE  /\ defs' \in Seq(SUBSET Fields) /\ Len(defs') \in Len(defs)..(MaxChanges + 1)
                    /\ \A v \in 1..Len(defs) : defs'[v] = defs[v]
                    /\ unforgotten' \subseteq 1..Len(defs')
                    /\ forgotten' \in forgotten..Len(defs')
                    /\ floor' \in [Callers -> 0..Len(defs')]
  OBVIOUS
<1>0. /\ defs \in Seq(SUBSET Fields) /\ Len(defs) \in 1..(MaxChanges + 1) /\ Len(defs) \in Nat
      /\ unforgotten \subseteq 1..Len(defs) /\ forgotten \in 0..Len(defs)
      /\ floor \in [Callers -> 0..Len(defs)] /\ MaxChanges \in Nat
  BY BoundsAssumption DEF CatalogTypeOK
<1>1. CASE Change \/ ChangeElsewhere
  <2>1. PICK content \in SUBSET Fields : Stored(content)
    BY <1>1 DEF Change, ChangeElsewhere
  <2>2. /\ Len(defs') = Len(defs) + 1 /\ defs' \in Seq(SUBSET Fields)
        /\ \A v \in 1..Len(defs) : defs'[v] = defs[v]
    BY <1>0, <2>1, OneMore
  <2>3. /\ Len(defs) <= MaxChanges /\ UNCHANGED <<floor, forgotten>>
        /\ unforgotten' \subseteq unforgotten \cup {Len(defs) + 1}
    BY <1>1 DEF Change, ChangeElsewhere, callers
  <2> QED
    BY <1>0, <2>2, <2>3
<1>2. ASSUME NEW v \in unforgotten, Forget(v)
      PROVE  /\ forgotten' \in forgotten..Len(defs) /\ unforgotten' \subseteq unforgotten
             /\ UNCHANGED <<defs, floor>>
  BY <1>0, <1>2 DEF Forget, callers
<1>3. ASSUME NEW c \in Callers, Ask(c) \/ Return(c)
      PROVE  floor' \in [Callers -> 0..Len(defs)] /\ UNCHANGED changes
  BY <1>0, <1>3 DEF Ask, Return
<1>4. CASE UNCHANGED changes /\ floor' \in [Callers -> 0..Len(defs)]
  BY <1>0, <1>4 DEF changes
<1>5. CASE \E v \in unforgotten : Forget(v)
  <2>1. PICK v \in unforgotten : Forget(v)
    BY <1>5
  <2>2. /\ forgotten' \in forgotten..Len(defs) /\ unforgotten' \subseteq unforgotten
        /\ defs' = defs /\ floor' = floor
    BY <1>2, <2>1
  <2>3. Len(defs') \in Len(defs)..(MaxChanges + 1) /\ forgotten' \in forgotten..Len(defs')
    BY <1>0, <2>2
  <2> QED
    BY <1>0, <2>2, <2>3
<1>6. CASE UNCHANGED <<changes, floor>>
  BY <1>0, <1>4, <1>6
<1>7. CASE \E c \in Callers : Ask(c) \/ Return(c)
  BY <1>3, <1>4, <1>7
<1> QED
  BY <1>1, <1>5, <1>6, <1>7
     DEF CatalogMove, CatalogNext, CatalogStep, CallerStep, callers, GrowsOld, Evict, Read, Land,
         JoinHeld, JoinFlight, StartFlight, TakeResult, JoinAgain, GiveUp

\* Every step keeps the catalog's variables in their types.
LEMMA CatalogTypes == CatalogTypeOK /\ Counted /\ CatalogMove => CatalogTypeOK'
<1> SUFFICES ASSUME CatalogTypeOK, Counted, CatalogMove PROVE CatalogTypeOK'
  OBVIOUS
<1>1. flights' \in [Flights -> Flying]
  BY FlightsTyped
<1>2. /\ view' \in Readings /\ view'.is \in {"none", "view"}
      /\ fresh' \in BOOLEAN /\ (fresh' => IsView(view)')
      /\ stamped' \in Nat /\ answer' \in [Callers -> Readings]
  BY ViewTyped
<1>3. /\ at' \in [Callers -> {"idle", "join", "wait", "answered"}]
      /\ on' \in [Callers -> Flights \cup {0}]
      /\ \A c \in Callers : (at'[c] = "wait") = (on'[c] # 0)
      /\ current' \in Flights \cup {0} /\ faults' \in 0..MaxFaults
  BY CallersTyped
<1>4. /\ defs' \in Seq(SUBSET Fields) /\ Len(defs') \in 1..(MaxChanges + 1)
      /\ unforgotten' \subseteq 1..Len(defs') /\ forgotten' \in 0..Len(defs')
      /\ floor' \in [Callers -> 0..Len(defs')]
  <2>1. Len(defs) \in 1..(MaxChanges + 1) /\ forgotten \in 0..Len(defs) /\ MaxChanges \in Nat
    BY BoundsAssumption DEF CatalogTypeOK
  <2> QED
    BY <2>1, ChangesTyped
<1> QED
  BY <1>1, <1>2, <1>3, <1>4 DEF CatalogTypeOK, Flying

\* The conjuncts about flights: who is on them, and what they will be answered.
Flown == Counted /\ Joinable /\ Deserted /\ Recent /\ Versions

\* The steps that leave the flights and the callers on them alone.
LEMMA FlownAside ==
  ASSUME CatalogTypeOK, Flown, CatalogMove, UNCHANGED <<flights, on, current>>,
         IsView(view)' => IsView(view) /\ view' = view,
         forgotten' = forgotten,
         \A c \in Callers : floor'[c] <= forgotten /\ (on[c] # 0 => floor'[c] = floor[c])
  PROVE  Flown'
<1> USE DEF Flown
<1>0. \A f : WaitersOf(f)' = WaitersOf(f)
  BY Unmoved
<1>1. Counted' /\ Joinable' /\ Deserted'
  BY <1>0 DEF Counted, Joinable, Deserted, Landing
<1>2. Versions'
  <2>1. Len(defs) \in Nat /\ Len(defs') \in Nat /\ Len(defs) <= Len(defs')
    BY BoundsAssumption, ChangesTyped DEF CatalogTypeOK
  <2> QED
    BY <2>1 DEF Versions, IsView
<1>3. \A f \in Flights : \A c \in WaitersOf(f) : floor'[c] = floor[c]
  BY FlightTypes DEF WaitersOf
<1>4. Recent'
  BY <1>0, <1>3 DEF Recent, IsView
<1> QED
  BY <1>1, <1>2, <1>4

\* A forget overtakes the flight that reads and drops the view held.
LEMMA FlownForget ==
  ASSUME CatalogTypeOK, Flown, NEW v \in unforgotten, Forget(v)
  PROVE  Flown'
<1> USE DEF Flown
<1>0. /\ flights \in [Flights -> Flying] /\ current \in Flights \cup {0} /\ 0 \notin Flights
      /\ current' = 0 /\ flights' = Overtaken /\ view' = Nothing
      /\ UNCHANGED <<on, floor, defs>>
      /\ forgotten \in Nat /\ forgotten' \in Nat /\ forgotten <= forgotten'
      /\ \A c \in Callers : floor[c] \in Nat
  BY FlightTypes DEF Forget, CatalogTypeOK, callers
<1>1. \A f : WaitersOf(f)' = WaitersOf(f)
  BY <1>0, Unmoved
<1>2. ASSUME NEW f \in Flights
      PROVE  /\ f # current => flights'[f] = flights[f]
             /\ f = current => flights'[f] = [flights[f] EXCEPT !.overtaken = TRUE, !.stopped = TRUE]
  BY <1>0 DEF Overtaken
<1>3. ASSUME NEW f \in Flights
      PROVE  /\ f # current => flights'[f] = flights[f]
             /\ f = current => flights'[f].overtaken /\ Landing(f)
             /\ flights'[f].phase = flights[f].phase
             /\ flights'[f].waiting = flights[f].waiting
             /\ flights'[f].result = flights[f].result
  BY <1>0, <1>2 DEF Flying, Joinable
<1>4. Counted'
  BY <1>1, <1>3 DEF Counted, Landing
<1>5. Joinable'
  BY <1>0 DEF Joinable
<1>6. Deserted'
  BY <1>1, <1>3 DEF Deserted, Landing
<1>7. Recent'
  <2>1. ~IsView(view)'
    BY <1>0, ReadingTypes DEF IsView
  <2> QED
    BY <1>0, <1>1, <1>3, <2>1 DEF Recent, IsView
<1>8. Versions'
  BY <1>0, <1>3 DEF Versions, IsView
<1> QED
  BY <1>4, <1>5, <1>6, <1>7, <1>8

\* A caller who joins the current flight counts as waiting for it.
LEMMA FlownJoin ==
  ASSUME CatalogTypeOK, Flown, NEW c \in Callers, JoinFlight(c)
  PROVE  Flown'
<1> USE DEF Flown
<1>0. /\ flights \in [Flights -> Flying] /\ current \in Flights /\ 0 \notin Flights
      /\ current' = current /\ on[c] = 0 /\ on' = [on EXCEPT ![c] = current]
      /\ flights' = [flights EXCEPT ![current].waiting = @ + 1]
      /\ UNCHANGED <<view, forgotten, floor, defs>>
  BY FlightTypes DEF JoinFlight, CatalogTypeOK, changes
<1>1. \A f \in Flights \ {current} : flights'[f] = flights[f] /\ WaitersOf(f)' = WaitersOf(f)
  BY <1>0, Boards
<1>2. PICK g \in Flights : g = current
  BY <1>0
<1>3. /\ WaitersOf(g)' = WaitersOf(g) \cup {c} /\ c \notin WaitersOf(g)
      /\ Cardinality(WaitersOf(g)') = Cardinality(WaitersOf(g)) + 1
  BY <1>0, <1>2, Boards
<1>4. /\ flights'[g].waiting = flights[g].waiting + 1
      /\ flights'[g].phase = flights[g].phase /\ flights'[g].result = flights[g].result
      /\ flights'[g].stopped = flights[g].stopped /\ flights'[g].overtaken = flights[g].overtaken
  BY <1>0, <1>2 DEF Flying
<1>5. Landing(g) /\ ~flights[g].stopped /\ ~flights[g].overtaken /\ flights[g].result.is # "stopped"
  BY <1>0, <1>2 DEF Joinable
<1>6. Counted'
  BY <1>0, <1>1, <1>2, <1>3, <1>4, <1>5 DEF Counted, Landing
<1>7. Joinable'
  BY <1>0, <1>2, <1>4, <1>5 DEF Joinable, Landing
<1>8. Deserted'
  BY <1>0, <1>1, <1>2, <1>4, <1>5 DEF Deserted, Landing
<1>9. Recent'
  <2>1. IsView(flights[g].result) => flights[g].result.version >= forgotten /\ forgotten >= floor[c]
    BY <1>0, <1>2 DEF Recent
  <2>2. flights[g].result.version \in Nat /\ forgotten \in Nat /\ floor[c] \in Nat
    <3>1. flights[g].result \in Readings
      BY <1>0, FlyingTypes
    <3>2. forgotten \in Nat /\ floor[c] \in Nat
      BY DEF CatalogTypeOK
    <3> QED
      BY <3>1, <3>2, ReadingTypes
  <2>3. IsView(flights[g].result) => flights[g].result.version >= floor[c]
    BY <2>1, <2>2
  <2>4. \A f \in Flights : flights'[f].result = flights[f].result /\ flights'[f].overtaken = flights[f].overtaken
    BY <1>1, <1>2, <1>4
  <2>5. \A f \in Flights : \A d \in WaitersOf(f)' : d \in WaitersOf(f) \/ (f = g /\ d = c)
    BY <1>1, <1>2, <1>3
  <2> QED
    BY <1>0, <2>3, <2>4, <2>5 DEF Recent, IsView
<1>10. Versions'
  BY <1>0, <1>1, <1>2, <1>4 DEF Versions, IsView
<1> QED
  BY <1>6, <1>7, <1>8, <1>9, <1>10

\* A new flight is the current one, with one waiter, and knows of every forget.
LEMMA FlownStart ==
  ASSUME CatalogTypeOK, Flown, NEW c \in Callers, StartFlight(c)
  PROVE  Flown'
<1> USE DEF Flown
<1>0. PICK g \in Flights :
        /\ flights[g].phase = "none" /\ current' = g
        /\ on' = [on EXCEPT ![c] = g] /\ flights' = [flights EXCEPT ![g] = Starting]
  BY IdleFlight
<1>1. /\ flights \in [Flights -> Flying] /\ on[c] = 0 /\ current = 0 /\ 0 \notin Flights
      /\ UNCHANGED <<view, forgotten, floor, defs>>
  BY FlightTypes DEF StartFlight, CatalogTypeOK, changes
<1>2. \A f \in Flights \ {g} : flights'[f] = flights[f] /\ WaitersOf(f)' = WaitersOf(f)
  BY <1>0, <1>1, Boards
<1>3. /\ WaitersOf(g)' = WaitersOf(g) \cup {c}
      /\ Cardinality(WaitersOf(g)') = Cardinality(WaitersOf(g)) + 1
      /\ WaitersOf(g) = {}
  BY <1>0, <1>1, Boards DEF Counted
<1>4. Cardinality(WaitersOf(g)') = 1
  BY <1>3, FS_EmptySet
<1>5. /\ flights'[g].waiting = 1 /\ flights'[g].phase = "reading"
      /\ ~flights'[g].stopped /\ ~flights'[g].overtaken
      /\ flights'[g].result = Nothing
  BY <1>0, <1>1 DEF Starting, Idle
<1>6. Nothing.is = "none"
  BY ReadingTypes
<1>7. Counted'
  BY <1>0, <1>2, <1>4, <1>5 DEF Counted, Landing
<1>8. Joinable'
  BY <1>0, <1>5, <1>6 DEF Joinable, Landing
<1>9. Deserted'
  BY <1>0, <1>2, <1>5, <1>6 DEF Deserted, Landing
<1>10. Recent'
  BY <1>0, <1>1, <1>2, <1>5, <1>6 DEF Recent, IsView
<1>11. Versions'
  BY <1>0, <1>1, <1>2, <1>5, <1>6 DEF Versions, IsView
<1> QED
  BY <1>7, <1>8, <1>9, <1>10, <1>11

\* A reading is as recent as the forgets that did not overtake its flight.
LEMMA FlownRead ==
  ASSUME CatalogTypeOK, Flown, NEW f \in Flights, Read(f)
  PROVE  Flown'
<1> USE DEF Flown
<1>0. PICK r \in {Reading("view", 0, Len(defs)), Reading("failed", 0, 0), Reading("stopped", 0, 0)} :
        /\ r.is = "stopped" => flights[f].stopped
        /\ flights' = [flights EXCEPT ![f].phase = "read", ![f].result = r]
  BY DEF Read
<1>1. /\ flights \in [Flights -> Flying] /\ flights[f].phase = "reading" /\ 0 \notin Flights
      /\ UNCHANGED <<view, current, on, forgotten, floor, defs>>
      /\ forgotten \in 0..Len(defs) /\ Len(defs) \in Nat \ {0}
      /\ \A c \in Callers : floor[c] \in 0..Len(defs)
  BY FlightTypes DEF Read, CatalogTypeOK, changes, callers
<1>2. IsView(r) => r.version = Len(defs)
  BY <1>0 DEF IsView, Reading
<1>3. \A g \in Flights \ {f} : flights'[g] = flights[g]
  BY <1>0, <1>1
<1>4. /\ flights'[f].phase = "read" /\ flights'[f].result = r
      /\ flights'[f].waiting = flights[f].waiting
      /\ flights'[f].stopped = flights[f].stopped /\ flights'[f].overtaken = flights[f].overtaken
  BY <1>0, <1>1 DEF Flying
<1>5. \A g : WaitersOf(g)' = WaitersOf(g)
  BY <1>1, Unmoved
<1>6. Counted'
  BY <1>1, <1>3, <1>4, <1>5 DEF Counted, Landing
<1>7. Joinable'
  BY <1>0, <1>1, <1>3, <1>4 DEF Joinable, Landing, CatalogTypeOK
<1>8. Deserted'
  BY <1>0, <1>1, <1>3, <1>4, <1>5 DEF Deserted, Landing
<1>9. Recent'
  <2>1. IsView(flights'[f].result) => flights'[f].result.version >= forgotten
                                       /\ \A c \in Callers : flights'[f].result.version >= floor[c]
    BY <1>1, <1>2, <1>4
  <2>2. \A g \in Flights : WaitersOf(g) \subseteq Callers
    BY DEF WaitersOf
  <2> QED
    BY <1>1, <1>3, <1>4, <1>5, <2>1, <2>2 DEF Recent, IsView, CatalogTypeOK
<1>10. Versions'
  BY <1>1, <1>2, <1>3, <1>4 DEF Versions, IsView
<1> QED
  BY <1>6, <1>7, <1>8, <1>9, <1>10

\* A flight that lands leaves its reading held only when nothing overtook it.
LEMMA FlownLand ==
  ASSUME CatalogTypeOK, Flown, NEW f \in Flights, Land(f)
  PROVE  Flown'
<1> USE DEF Flown
<1> DEFINE result == flights[f].result
           landed == IF IsView(result) THEN [result EXCEPT !.stamp = StampFor(result)] ELSE result
           keeps == IsView(result) /\ current = f
           down == [flights[f] EXCEPT !.phase = "landed", !.stopped = TRUE, !.result = landed]
<1>0. /\ flights[f].phase = "read"
      /\ flights' = [flights EXCEPT ![f] = Kept(down, WaitersOf(f))]
      /\ current' = (IF current = f THEN 0 ELSE current)
      /\ view' = (IF keeps THEN landed ELSE view)
      /\ UNCHANGED <<on, forgotten, floor, defs>>
  BY DEF Land, callers, changes
<1>1. flights \in [Flights -> Flying] /\ result \in Readings /\ 0 \notin Flights
      /\ current \in Flights \cup {0}
  BY FlightTypes, FlyingTypes DEF CatalogTypeOK
<1>2. landed.is = result.is /\ landed.version = result.version
  BY <1>1 DEF Readings
<1>3. \A g \in Flights \ {f} : flights'[g] = flights[g]
  BY <1>0, <1>1
<1>4. \A g : WaitersOf(g)' = WaitersOf(g)
  BY <1>0, Unmoved
<1>5. /\ down.phase = "landed" /\ down.waiting = flights[f].waiting
      /\ down.overtaken = flights[f].overtaken /\ down.result = landed
  BY <1>1 DEF Flying
<1>6. CASE WaitersOf(f) = {}
  <2>1. flights'[f] = Idle
    BY <1>0, <1>1, <1>5, <1>6 DEF Kept
  <2>2. ~Landing(f)' /\ flights'[f].phase = "none" /\ ~IsView(flights'[f].result)
        /\ flights'[f].result.is = "none"
    BY <2>1, ReadingTypes DEF Idle, Landing, IsView
  <2>3. Counted'
    BY <1>3, <1>4, <1>6, <2>1, <2>2 DEF Counted, Landing
  <2>4. Joinable'
    BY <1>0, <1>1, <1>3 DEF Joinable, Landing
  <2>5. Deserted'
    BY <1>3, <1>4, <1>6 DEF Deserted, Landing
  <2>6. Recent'
    BY <1>0, <1>1, <1>2, <1>3, <1>4, <1>6, <2>2 DEF Recent, IsView
  <2>7. Versions'
    BY <1>0, <1>3, <2>2 DEF Versions, IsView
  <2> QED
    BY <2>3, <2>4, <2>5, <2>6, <2>7
<1>7. CASE WaitersOf(f) # {}
  <2>1. flights'[f] = down
    BY <1>0, <1>1, <1>5, <1>7 DEF Kept
  <2> HIDE DEF down, landed, result
  <2>2. Counted'
    <3>1. WaitersOf(f) \in SUBSET Callers
      BY DEF WaitersOf
    <3>2. flights[f].waiting = Cardinality(WaitersOf(f)) /\ Cardinality(WaitersOf(f)) \in Nat
      BY <1>0, <3>1, Sizes DEF Counted, Landing
    <3> QED
      BY <1>3, <1>4, <1>5, <2>1, <3>2 DEF Counted, Landing
  <2>3. Joinable'
    BY <1>0, <1>1, <1>3 DEF Joinable, Landing
  <2>4. Deserted'
    <3>1. ~flights[f].overtaken => result.is # "stopped"
      BY <1>7 DEF Deserted, result
    <3> QED
      BY <1>2, <1>3, <1>4, <1>5, <2>1, <3>1 DEF Deserted, Landing
  <2>5. Recent'
    BY <1>0, <1>1, <1>2, <1>3, <1>4, <1>5, <2>1 DEF Recent, IsView, result
  <2>6. Versions'
    BY <1>0, <1>2, <1>3, <1>5, <2>1 DEF Versions, IsView, result
  <2> QED
    BY <2>2, <2>3, <2>4, <2>5, <2>6
<1> QED
  BY <1>6, <1>7

\* A caller goes from a flight that has landed.
LEMMA FlownOff ==
  ASSUME CatalogTypeOK, Flown, NEW c \in Callers, TakeResult(c) \/ JoinAgain(c)
  PROVE  Flown'
<1> USE DEF Flown
<1>0. PICK f \in Flights : f = on[c]
  BY FlightTypes DEF TakeResult, JoinAgain, CatalogTypeOK
<1>1. /\ flights[f].phase = "landed" /\ f # 0 /\ Off(c)
      /\ flights' = [flights EXCEPT ![f] = Kept(flights[f], WaitersOf(f) \ {c})]
      /\ UNCHANGED <<view, current, forgotten, floor, defs>>
  BY <1>0, FlightTypes DEF TakeResult, JoinAgain, changes
<1>2. /\ flights \in [Flights -> Flying] /\ 0 \notin Flights /\ current \in Flights \cup {0}
  BY FlightTypes DEF CatalogTypeOK
<1>3. /\ WaitersOf(f)' = WaitersOf(f) \ {c} /\ c \in WaitersOf(f)
      /\ Cardinality(WaitersOf(f)) \in Nat \ {0}
      /\ Cardinality(WaitersOf(f)') = Cardinality(WaitersOf(f)) - 1
      /\ \A g \in Flights \ {f} : WaitersOf(g)' = WaitersOf(g)
  BY <1>0, <1>1, Leaves
<1>4. \A g \in Flights \ {f} : flights'[g] = flights[g]
  BY <1>1, <1>2
<1>5. current # f
  BY <1>1, <1>2 DEF Joinable, Landing
<1>6. Joinable'
  BY <1>1, <1>2, <1>4, <1>5 DEF Joinable, Landing
<1>7. CASE WaitersOf(f) \ {c} = {}
  <2>1. flights'[f] = Idle
    BY <1>1, <1>2, <1>7 DEF Kept
  <2>2. ~Landing(f)' /\ flights'[f].phase = "none" /\ ~IsView(flights'[f].result)
    BY <2>1, ReadingTypes DEF Idle, Landing, IsView
  <2>3. Counted'
    BY <1>3, <1>4, <1>7, <2>1, <2>2 DEF Counted, Landing
  <2>4. Deserted'
    BY <1>3, <1>4, <1>7 DEF Deserted, Landing
  <2>5. Recent'
    BY <1>1, <1>2, <1>3, <1>4, <1>5, <1>7, <2>2 DEF Recent, IsView
  <2>6. Versions'
    BY <1>1, <1>4, <2>2 DEF Versions, IsView
  <2> QED
    BY <1>6, <2>3, <2>4, <2>5, <2>6
<1>8. CASE WaitersOf(f) \ {c} # {}
  <2>1. flights'[f] = flights[f]
    BY <1>1, <1>2, <1>8 DEF Kept
  <2>2. Counted'
    <3>1. flights[f].waiting \in Nat /\ flights[f].waiting >= Cardinality(WaitersOf(f))
      BY <1>1, <1>2, FlyingTypes DEF Counted
    <3>2. flights[f].waiting >= Cardinality(WaitersOf(f)')
      BY <1>3, <3>1
    <3> QED
      BY <1>1, <1>3, <1>4, <2>1, <3>2 DEF Counted, Landing
  <2>3. Deserted'
    BY <1>3, <1>4, <2>1 DEF Deserted, Landing
  <2>4. Recent'
    BY <1>1, <1>2, <1>3, <1>4, <1>5, <2>1 DEF Recent, IsView
  <2>5. Versions'
    BY <1>1, <1>4, <2>1 DEF Versions, IsView
  <2> QED
    BY <1>6, <2>2, <2>3, <2>4, <2>5
<1> QED
  BY <1>7, <1>8

\* The last caller to leave a flight stops it, and it is current no longer.
LEMMA FlownGiveUp ==
  ASSUME CatalogTypeOK, Flown, NEW c \in Callers, GiveUp(c)
  PROVE  Flown'
<1> USE DEF Flown
<1>0. PICK f \in Flights : f = on[c]
  BY FlightTypes DEF GiveUp, CatalogTypeOK
<1> DEFINE last == flights[f].waiting = 1
           left == [flights[f] EXCEPT !.waiting = @ - 1, !.stopped = @ \/ last]
<1>1. /\ f # 0 /\ Off(c) /\ at[c] = "wait"
      /\ flights' = [flights EXCEPT ![f] = Kept(left, WaitersOf(f) \ {c})]
      /\ current' = (IF last /\ current = f THEN 0 ELSE current)
      /\ UNCHANGED <<view, forgotten, floor, defs>>
  BY <1>0, FlightTypes DEF GiveUp, changes, LastLeaving
<1>2. /\ flights \in [Flights -> Flying] /\ 0 \notin Flights /\ current \in Flights \cup {0}
  BY FlightTypes DEF CatalogTypeOK
<1>3. /\ WaitersOf(f)' = WaitersOf(f) \ {c} /\ c \in WaitersOf(f)
      /\ Cardinality(WaitersOf(f)) \in Nat \ {0}
      /\ Cardinality(WaitersOf(f)') = Cardinality(WaitersOf(f)) - 1
      /\ \A g \in Flights \ {f} : WaitersOf(g)' = WaitersOf(g)
  BY <1>0, <1>1, Leaves
<1>4. \A g \in Flights \ {f} : flights'[g] = flights[g]
  BY <1>1, <1>2
<1>5. Landing(f) \/ flights[f].phase = "landed"
  BY <1>0, <1>1, Boarded
<1>6. WaitersOf(f)' \in SUBSET Callers
  BY <1>3 DEF WaitersOf
<1>7. /\ left.phase = flights[f].phase /\ left.waiting = flights[f].waiting - 1
      /\ left.stopped = (flights[f].stopped \/ last)
      /\ left.overtaken = flights[f].overtaken /\ left.result = flights[f].result
      /\ flights[f].waiting \in Nat
  BY <1>2 DEF Flying
<1> HIDE DEF left
<1>8. CASE flights[f].phase = "landed" /\ WaitersOf(f) \ {c} = {}
  <2>1. flights'[f] = Idle
    BY <1>1, <1>2, <1>7, <1>8 DEF Kept
  <2>2. ~Landing(f)' /\ flights'[f].phase = "none" /\ ~IsView(flights'[f].result)
    BY <2>1, ReadingTypes DEF Idle, Landing, IsView
  <2>3. current # f
    BY <1>2, <1>8 DEF Joinable, Landing
  <2>4. Counted'
    BY <1>3, <1>4, <1>8, <2>1, <2>2 DEF Counted, Landing
  <2>5. Joinable'
    BY <1>1, <1>2, <1>4, <2>3 DEF Joinable, Landing
  <2>6. Deserted'
    BY <1>3, <1>4, <1>8 DEF Deserted, Landing
  <2>7. Recent'
    BY <1>1, <1>2, <1>3, <1>4, <1>8, <2>2, <2>3 DEF Recent, IsView
  <2>8. Versions'
    BY <1>1, <1>4, <2>2 DEF Versions, IsView
  <2> QED
    BY <2>4, <2>5, <2>6, <2>7, <2>8
<1>9. CASE ~(flights[f].phase = "landed" /\ WaitersOf(f) \ {c} = {})
  <2>1. flights'[f] = left
    BY <1>1, <1>2, <1>7, <1>9 DEF Kept
  <2>2. Counted'
    <3>1. Landing(f) => left.waiting = Cardinality(WaitersOf(f)')
      BY <1>3, <1>7 DEF Counted
    <3>2. flights[f].phase = "landed" => left.waiting >= Cardinality(WaitersOf(f)')
      BY <1>3, <1>7 DEF Counted
    <3> QED
      BY <1>3, <1>4, <1>5, <1>7, <2>1, <3>1, <3>2 DEF Counted, Landing
  <2>3. Joinable'
    <3>1. CASE current' = f
      <4>1. current = f /\ ~last
        BY <1>1, <1>2, <3>1
      <4> QED
        BY <1>1, <1>2, <1>7, <2>1, <3>1, <4>1 DEF Joinable, Landing
    <3>2. CASE current' # f
      <4>1. current' = 0 \/ (current' = current /\ current \in Flights \ {f})
        BY <1>1, <1>2, <3>2
      <4> QED
        BY <1>4, <4>1 DEF Joinable, Landing
    <3> QED
      BY <3>1, <3>2
  <2>4. Deserted'
    <3>1. Landing(f) /\ last => WaitersOf(f)' = {}
      <4>1. Landing(f) /\ last => Cardinality(WaitersOf(f)') = 0
        BY <1>3 DEF Counted
      <4> QED
        BY <1>6, <4>1, Sizes
    <3>2. ASSUME ~left.overtaken, (Landing(f) /\ left.stopped) \/ left.result.is = "stopped"
          PROVE  WaitersOf(f)' = {}
      BY <1>3, <1>7, <3>1, <3>2 DEF Deserted
    <3> QED
      BY <1>3, <1>4, <1>7, <2>1, <3>2 DEF Deserted, Landing
  <2>5. Recent'
    <3>1. flights'[f].result = flights[f].result /\ flights'[f].overtaken = flights[f].overtaken
      BY <1>7, <2>1
    <3>2. current' # 0 => current' = current
      BY <1>1
    <3>3. \A g \in Flights : WaitersOf(g)' \subseteq WaitersOf(g)
      BY <1>3
    <3> QED
      BY <1>1, <1>2, <1>4, <3>1, <3>2, <3>3 DEF Recent, IsView
  <2>6. Versions'
    BY <1>1, <1>4, <1>7, <2>1 DEF Versions, IsView
  <2> QED
    BY <2>2, <2>3, <2>4, <2>5, <2>6
<1> QED
  BY <1>8, <1>9

\* Every step keeps what is known of the flights.
LEMMA FlownStep == CatalogTypeOK /\ Flown /\ CatalogMove => Flown'
<1> SUFFICES ASSUME CatalogTypeOK, Flown, CatalogMove PROVE Flown'
  OBVIOUS
<1>0. /\ \A c \in Callers : (at[c] = "wait") = (on[c] # 0)
      /\ \A c \in Callers : floor[c] \in Nat
      /\ forgotten \in Nat /\ floor \in [Callers -> 0..Len(defs)]
  BY DEF CatalogTypeOK
<1>1. \A c \in Callers : floor[c] <= forgotten
  BY DEF Flown, Recent
<1>2. ~IsView(Nothing)
  BY ReadingTypes
<1>3. CASE Change \/ ChangeElsewhere \/ GrowsOld
  BY <1>1, <1>3, FlownAside DEF Change, ChangeElsewhere, GrowsOld, shared, callers, changes, IsView
<1>4. CASE Evict
  BY <1>1, <1>2, <1>4, FlownAside DEF Evict, callers, changes, IsView
<1>5. ASSUME NEW c \in Callers, Ask(c) PROVE Flown'
  BY <1>0, <1>1, <1>5, FlownAside DEF Ask, shared, changes, IsView
<1>6. ASSUME NEW c \in Callers, Return(c) PROVE Flown'
  <2>1. at[c] = "answered" /\ on[c] = 0
    BY <1>0, <1>6 DEF Return
  <2>2. UNCHANGED <<flights, on, current, view, forgotten>> /\ floor' = [floor EXCEPT ![c] = 0]
    BY <1>6 DEF Return, shared, changes
  <2>3. \A d \in Callers : floor'[d] <= forgotten /\ (on[d] # 0 => floor'[d] = floor[d])
    BY <1>0, <1>1, <2>1, <2>2
  <2> QED
    BY <2>2, <2>3, FlownAside DEF IsView
<1>7. ASSUME NEW c \in Callers, JoinHeld(c) PROVE Flown'
  BY <1>1, <1>7, FlownAside DEF JoinHeld, shared, changes, IsView
<1>8. CASE UNCHANGED <<shared, callers, changes>>
  BY <1>1, <1>8, FlownAside DEF shared, callers, changes, IsView
<1> QED
  BY <1>3, <1>4, <1>5, <1>6, <1>7, <1>8, FlownForget, FlownJoin, FlownStart, FlownRead, FlownLand,
     FlownOff, FlownGiveUp
     DEF CatalogMove, CatalogNext, CatalogStep, CallerStep

\* The answers given: those that come are as recent as what they are taken from.
LEMMA AnswersStep == CatalogTypeOK /\ Flown /\ AnswersCurrent /\ CatalogMove => AnswersCurrent'
<1> SUFFICES ASSUME CatalogTypeOK, Flown, AnswersCurrent, CatalogMove PROVE AnswersCurrent'
  OBVIOUS
<1> USE DEF AnswersCurrent, IsView
<1>0. /\ at \in [Callers -> {"idle", "join", "wait", "answered"}]
      /\ answer \in [Callers -> Readings] /\ floor \in [Callers -> 0..Len(defs)]
      /\ forgotten \in Nat /\ view \in Readings /\ (fresh => view.is = "view")
      /\ flights \in [Flights -> Flying]
      /\ \A c \in Callers : floor[c] \in Nat
  BY FlightTypes DEF CatalogTypeOK
<1>1. ASSUME NEW c \in Callers, JoinHeld(c) PROVE AnswersCurrent'
  <2>1. view.is = "view" /\ view.version >= forgotten /\ forgotten >= floor[c]
    BY <1>0, <1>1 DEF JoinHeld, Flown, Recent
  <2>2. view.version \in Nat
    BY <1>0, ReadingTypes
  <2>3. view.version >= floor[c]
    BY <1>0, <2>1, <2>2
  <2> QED
    BY <1>0, <1>1, <2>1, <2>3 DEF JoinHeld
<1>2. ASSUME NEW c \in Callers, TakeResult(c) PROVE AnswersCurrent'
  <2>1. PICK f \in Flights : f = on[c] /\ c \in WaitersOf(f)
    BY <1>2, Boarded DEF TakeResult, Flown
  <2>2. ~flights[f].overtaken
    BY <1>2, <2>1 DEF TakeResult
  <2>3. flights[f].result.is # "stopped"
    BY <2>1, <2>2 DEF Flown, Deserted
  <2>4. flights[f].result.is = "view" => flights[f].result.version >= floor[c]
    BY <2>1, <2>2 DEF Flown, Recent
  <2>5. /\ at' = [at EXCEPT ![c] = "answered"] /\ answer' = [answer EXCEPT ![c] = flights[f].result]
        /\ UNCHANGED floor
    BY <1>2, <2>1 DEF TakeResult
  <2> QED
    BY <1>0, <2>3, <2>4, <2>5
<1>3. ASSUME NEW c \in Callers, GiveUp(c) PROVE AnswersCurrent'
  BY <1>0, <1>3 DEF GiveUp, Reading
<1>4. ASSUME NEW c \in Callers, Ask(c) \/ JoinFlight(c) \/ StartFlight(c) \/ JoinAgain(c) \/ Return(c)
      PROVE  AnswersCurrent'
  <2>1. /\ \E p \in {"idle", "join", "wait"} : at' = [at EXCEPT ![c] = p]
        /\ \A d \in Callers \ {c} : answer'[d] = answer[d] /\ floor'[d] = floor[d]
    BY <1>0, <1>4 DEF Ask, JoinFlight, StartFlight, JoinAgain, Return
  <2> QED
    BY <1>0, <2>1
<1>5. CASE UNCHANGED callers
  BY <1>5 DEF callers
<1> QED
  BY <1>1, <1>2, <1>3, <1>4, <1>5
     DEF CatalogMove, CatalogNext, CatalogStep, CallerStep, Change, ChangeElsewhere, GrowsOld, Evict,
         Forget, Read, Land

\* No view is held and nobody waits.
LEMMA CatalogStart == CatalogInit => CatalogInv
<1> SUFFICES ASSUME CatalogInit PROVE CatalogInv
  OBVIOUS
<1> USE DEF CatalogInit
<1>0. Idle.phase = "none" /\ Idle.result = Nothing /\ ~Idle.stopped
  BY DEF Idle
<1>1. CatalogTypeOK
  <2>1. flights \in [Flights -> Flying] /\ answer \in [Callers -> Readings] /\ view \in Readings
    BY FlyingTypes, ReadingTypes
  <2>2. defs \in Seq(SUBSET Fields) /\ Len(defs) = 1
    OBVIOUS
  <2>3. 1 \in 1..(MaxChanges + 1) /\ 0 \in 0..MaxFaults
    BY BoundsAssumption
  <2>4. /\ at \in [Callers -> {"idle", "join", "wait", "answered"}]
        /\ on \in [Callers -> Flights \cup {0}]
        /\ \A c \in Callers : (at[c] = "wait") = (on[c] # 0)
        /\ floor \in [Callers -> 0..Len(defs)] /\ Len(defs) \in 1..(MaxChanges + 1)
    BY <2>2, <2>3
  <2>5. view.is = "none" /\ unforgotten \subseteq 1..Len(defs) /\ forgotten \in 0..Len(defs)
    BY <2>2, ReadingTypes
  <2> QED
    BY <2>1, <2>2, <2>3, <2>4, <2>5 DEF CatalogTypeOK, Flying
<1>2. \A f \in Flights : WaitersOf(f) = {}
  BY FlightsAssumption DEF WaitersOf
<1>3. Counted /\ Joinable /\ Deserted
  BY <1>0, <1>2, ReadingTypes DEF Counted, Joinable, Deserted, Landing
<1>4. Recent /\ Versions
  BY <1>0, <1>2, ReadingTypes DEF Recent, Versions
<1>5. AnswersCurrent
  BY DEF AnswersCurrent
<1> QED
  BY <1>1, <1>3, <1>4, <1>5 DEF CatalogInv

\* Every step of the catalog keeps its invariant.
LEMMA CatalogKept == CatalogInv /\ CatalogMove => CatalogInv'
BY CatalogTypes, FlownStep, AnswersStep DEF CatalogInv, Flown

---------------------------------------------------------------------------
(* The graphs over the catalogue.                                          *)

\* Every step of the graphs is a move of the catalogue.
LEMMA Moves == TypeOK /\ [Next]_vars => CatalogMove
<1> SUFFICES ASSUME TypeOK, [Next]_vars PROVE CatalogMove
  OBVIOUS
<1>0. faults \in 0..MaxFaults /\ MaxFaults \in Nat
  BY BoundsAssumption DEF TypeOK, CatalogTypeOK
<1>1. CASE CatalogStep
  BY <1>1 DEF CatalogMove, CatalogNext
<1>2. CASE EvictGraph
  BY <1>0, <1>2 DEF EvictGraph, CatalogMove
<1>3. ASSUME NEW c \in Callers, Enter(c) \/ FirstCheck(c) \/ Acquire(c) \/ SecondCheck(c)
      PROVE  CatalogMove
  BY <1>3 DEF Enter, FirstCheck, Acquire, SecondCheck, CheckAnswers, CheckAsks, CatalogMove, CatalogNext
<1>4. ASSUME NEW c \in Callers, TakeLock(c) \/ Build(c) \/ Release(c)
      PROVE  UNCHANGED cvars
  BY <1>4 DEF TakeLock, Build, Release
<1>5. CASE UNCHANGED cvars
  BY <1>0, <1>5 DEF cvars, CatalogMove
<1> QED
  BY <1>1, <1>2, <1>3, <1>4, <1>5 DEF Next, GraphStep, vars

Places == {"idle", "first", "lock", "await", "second", "build", "release"}

\* What is known of the lock, its users and the callers' places.
Locking ==
  /\ Locked
  /\ pc \in [Callers -> Places]
  /\ lockAt \in Locks \cup {0}
  /\ users \in [Locks -> 0..Cardinality(Callers)]
  /\ holder \subseteq Locks
  /\ mine \in [Callers -> Locks \cup {0}]

\* A lock has no more users than there are callers.
LEMMA UsersBounded ==
  ASSUME NEW l
  PROVE  Cardinality(UsersOf(l)) \in 0..Cardinality(Callers)
<1>1. UsersOf(l) \in SUBSET Callers
  BY DEF UsersOf
<1> QED
  BY <1>1, Sizes

\* A caller takes a lock in use, or one nobody uses, and is a user of it from then on.
LEMMA LockTaken ==
  ASSUME Locking, NEW c \in Callers, TakeLock(c)
  PROVE  Locking'
<1> USE DEF Locking, Locked, Places
<1> DEFINE unused == {k \in Locks : users[k] = 0}
<1>1. PICK l \in Locks :
        /\ lockAt # 0 => l = lockAt
        /\ lockAt' = l /\ users' = [users EXCEPT ![l] = @ + 1]
        /\ mine' = [mine EXCEPT ![c] = l]
  <2>1. unused # {} => Min(unused) \in unused
    BY LocksAssumption, LeastNumber
  <2>2. lockAt # 0 => lockAt \in Locks
    OBVIOUS
  <2> QED
    BY <2>1, <2>2 DEF TakeLock
<1>2. /\ pc[c] = "lock" /\ pc' = [pc EXCEPT ![c] = "await"] /\ UNCHANGED holder
  BY DEF TakeLock
<1>3. mine[c] = 0 /\ 0 \notin Locks
  BY <1>2, LocksAssumption
<1>4. /\ UsersOf(l)' = UsersOf(l) \cup {c} /\ c \notin UsersOf(l)
      /\ \A k \in Locks \ {l} : UsersOf(k)' = UsersOf(k)
  BY <1>1, <1>3 DEF UsersOf
<1>5. Cardinality(UsersOf(l)') = Cardinality(UsersOf(l)) + 1
  <2>1. UsersOf(l) \in SUBSET Callers
    BY DEF UsersOf
  <2> QED
    BY <1>4, <2>1, Sizes
<1>6. \A k \in Locks : users'[k] = Cardinality(UsersOf(k)')
  BY <1>1, <1>4, <1>5
<1>7. users' \in [Locks -> 0..Cardinality(Callers)]
  <2>1. \A k \in Locks : Cardinality(UsersOf(k)') \in 0..Cardinality(Callers)
    <3> TAKE k \in Locks
    <3>1. UsersOf(k)' \in SUBSET Callers
      BY DEF UsersOf
    <3> QED
      BY <3>1, Sizes
  <2>2. users' = [k \in Locks |-> users'[k]]
    BY <1>1
  <2> QED
    BY <1>6, <2>1, <2>2
<1>8. \A d \in Callers : mine'[d] # 0 => mine'[d] = lockAt'
  BY <1>1, <1>3
<1>9. /\ \A d \in Callers : (pc'[d] \in {"await", "second", "build", "release"}) = (mine'[d] # 0)
      /\ \A d \in Callers : Inside(d)' => Inside(d) /\ d # c
  BY <1>1, <1>2, <1>3 DEF Inside
<1> QED
  BY <1>1, <1>2, <1>6, <1>7, <1>8, <1>9

\* A lock is dropped when its last user leaves it.
LEMMA LockReleased ==
  ASSUME Locking, NEW c \in Callers, Release(c)
  PROVE  Locking'
<1> USE DEF Locking, Locked, Places
<1>0. pc[c] = "release" /\ 0 \notin Locks
  BY LocksAssumption DEF Release
<1>1. PICK l \in Locks : l = mine[c] /\ l = lockAt
  BY <1>0
<1>2. /\ users' = [users EXCEPT ![l] = @ - 1]
      /\ lockAt' = (IF users[l] = 1 THEN 0 ELSE lockAt)
      /\ mine' = [mine EXCEPT ![c] = 0] /\ pc' = [pc EXCEPT ![c] = "idle"]
      /\ UNCHANGED holder
  BY <1>1 DEF Release, LastUser
<1>3. /\ UsersOf(l)' = UsersOf(l) \ {c} /\ c \in UsersOf(l)
      /\ \A k \in Locks \ {l} : UsersOf(k)' = UsersOf(k)
  BY <1>0, <1>1, <1>2 DEF UsersOf
<1>4. /\ Cardinality(UsersOf(l)') = Cardinality(UsersOf(l)) - 1
      /\ Cardinality(UsersOf(l)) = 1 => \A d \in UsersOf(l) : d = c
  <2>1. UsersOf(l) \in SUBSET Callers
    BY DEF UsersOf
  <2> QED
    BY <1>3, <2>1, Sizes
<1>5. \A k \in Locks : users'[k] = Cardinality(UsersOf(k)')
  BY <1>2, <1>3, <1>4
<1>6. users' \in [Locks -> 0..Cardinality(Callers)]
  <2>1. \A k \in Locks : Cardinality(UsersOf(k)') \in 0..Cardinality(Callers)
    <3> TAKE k \in Locks
    <3>1. UsersOf(k)' \in SUBSET Callers
      BY DEF UsersOf
    <3> QED
      BY <3>1, Sizes
  <2>2. users' = [k \in Locks |-> users'[k]]
    BY <1>2
  <2> QED
    BY <1>5, <2>1, <2>2
<1>7. \A d \in Callers : mine'[d] # 0 => mine'[d] = lockAt'
  <2> TAKE d \in Callers
  <2> HAVE mine'[d] # 0
  <2>1. d # c /\ mine[d] = l /\ mine'[d] = l
    BY <1>1, <1>2
  <2>2. users[l] # 1
    BY <1>1, <1>4, <2>1 DEF UsersOf
  <2> QED
    BY <1>1, <1>2, <2>1, <2>2
<1>8. /\ \A d \in Callers : (pc'[d] \in {"await", "second", "build", "release"}) = (mine'[d] # 0)
      /\ \A d \in Callers : Inside(d)' => Inside(d) /\ d # c
  BY <1>0, <1>2 DEF Inside
<1>9. mine' \in [Callers -> Locks \cup {0}] /\ lockAt' \in Locks \cup {0} /\ pc' \in [Callers -> Places]
  BY <1>1, <1>2
<1>10. \A d \in Callers : Inside(d)' => mine'[d] \in holder'
  BY <1>2, <1>8
<1> QED
  BY <1>2, <1>5, <1>6, <1>7, <1>8, <1>9, <1>10

\* A step that moves one caller, and leaves the locks to their users.
LEMMA LockKept ==
  ASSUME Locking, UNCHANGED <<lockAt, users, mine>>,
         holder' \subseteq Locks,
         pc' \in [Callers -> Places],
         \A d \in Callers : (pc'[d] \in {"await", "second", "build", "release"})
                              = (pc[d] \in {"await", "second", "build", "release"}),
         \A d \in Callers : Inside(d)' => mine[d] \in holder',
         \A d, e \in Callers : Inside(d)' /\ Inside(e)' => d = e
  PROVE  Locking'
BY DEF Locking, Locked, UsersOf

\* Every step keeps the locks with those who use them.
LEMMA LockStep == Locking /\ [Next]_vars => Locking'
<1> SUFFICES ASSUME Locking, [Next]_vars PROVE Locking'
  OBVIOUS
<1>0. /\ pc \in [Callers -> Places] /\ holder \subseteq Locks /\ mine \in [Callers -> Locks \cup {0}]
      /\ \A c \in Callers : Inside(c) => mine[c] \in holder
      /\ \A c, d \in Callers : Inside(c) /\ Inside(d) => c = d
      /\ \A c \in Callers : (pc[c] \in {"await", "second", "build", "release"}) = (mine[c] # 0)
      /\ \A c \in Callers : mine[c] # 0 => mine[c] = lockAt
  BY DEF Locking, Locked
<1>1. ASSUME NEW c \in Callers, Enter(c) PROVE Locking'
  BY <1>0, <1>1, LockKept DEF Enter, locking, Inside, Places
<1>2. ASSUME NEW c \in Callers, FirstCheck(c) PROVE Locking'
  <2>1. pc[c] = "first" /\ \E p \in {"idle", "lock"} : pc' = [pc EXCEPT ![c] = p]
    BY <1>2 DEF FirstCheck, CheckAnswers, CheckAsks
  <2> QED
    BY <1>0, <1>2, <2>1, LockKept DEF FirstCheck, locking, Inside, Places
<1>3. ASSUME NEW c \in Callers, Acquire(c) PROVE Locking'
  <2>1. /\ pc[c] = "await" /\ mine[c] \notin holder /\ pc' = [pc EXCEPT ![c] = "second"]
        /\ holder' = holder \cup {mine[c]} /\ UNCHANGED <<lockAt, users, mine>>
    BY <1>3 DEF Acquire
  <2>2. mine[c] \in Locks /\ mine[c] = lockAt
    BY <1>0, <2>1
  <2>3. \A d \in Callers : ~Inside(d)
    BY <1>0, <2>1, <2>2, LocksAssumption DEF Inside
  <2>4. \A d \in Callers : Inside(d)' => d = c
    BY <1>0, <2>1, <2>3 DEF Inside
  <2> QED
    BY <1>0, <2>1, <2>2, <2>4, LockKept DEF Places
<1>4. ASSUME NEW c \in Callers, SecondCheck(c) \/ Build(c) PROVE Locking'
  <2>1. Inside(c) /\ \A d \in Callers : Inside(d) => d = c
    BY <1>0, <1>4 DEF SecondCheck, Build, Inside
  <2>2. CASE pc' = [pc EXCEPT ![c] = "release"] /\ Unlocked(c)
    <3>1. \A d \in Callers : ~Inside(d)'
      BY <1>0, <2>1, <2>2 DEF Inside
    <3> QED
      BY <1>0, <2>1, <2>2, <3>1, LockKept DEF Unlocked, Places, Inside
  <2>3. CASE pc' = [pc EXCEPT ![c] = "build"] /\ UNCHANGED locking
    BY <1>0, <2>1, <2>3, LockKept DEF locking, Places, Inside
  <2> QED
    BY <1>4, <2>2, <2>3 DEF SecondCheck, Build, CheckAnswers, CheckAsks
<1>5. CASE UNCHANGED <<pc, locking>>
  BY <1>0, <1>5, LockKept DEF locking, Inside
<1> QED
  BY <1>1, <1>2, <1>3, <1>4, <1>5, LockTaken, LockReleased
     DEF Next, GraphStep, gvars, graphs, vars, EvictGraph

\* The places agree with the calls of the catalogue.
LEMMA CheckingStep == TypeOK /\ Checking /\ [Next]_vars => Checking'
<1> SUFFICES ASSUME TypeOK, Checking, [Next]_vars PROVE Checking'
  OBVIOUS
<1> USE DEF Checking
<1>0. /\ at \in [Callers -> {"idle", "join", "wait", "answered"}] /\ pc \in [Callers -> Places]
  BY DEF TypeOK, CatalogTypeOK, Places
<1>1. CASE CatalogStep /\ UNCHANGED gvars
  <2>1. \A c \in Callers : (at'[c] # "idle") = (at[c] # "idle")
    <3>1. ASSUME NEW c \in Callers, CallerStep(c) \/ GiveUp(c)
          PROVE  at[c] # "idle" /\ \E p \in {"join", "wait", "answered"} : at' = [at EXCEPT ![c] = p]
      BY <3>1 DEF CallerStep, GiveUp, JoinHeld, JoinFlight, StartFlight, TakeResult, JoinAgain
    <3>2. CASE UNCHANGED at
      BY <3>2
    <3> QED
      BY <1>0, <1>1, <3>1, <3>2
         DEF CatalogStep, callers, Change, ChangeElsewhere, GrowsOld, Evict, Forget, Read, Land
  <2> QED
    BY <1>1, <2>1 DEF gvars, graphs
<1>2. ASSUME NEW c \in Callers, Enter(c) \/ Acquire(c) PROVE Checking'
  BY <1>0, <1>2 DEF Enter, Acquire, Ask
<1>3. ASSUME NEW c \in Callers, FirstCheck(c) \/ SecondCheck(c) PROVE Checking'
  <2>1. /\ at' = [at EXCEPT ![c] = "idle"]
        /\ \E p \in {"idle", "lock", "release", "build"} : pc' = [pc EXCEPT ![c] = p]
    BY <1>3 DEF FirstCheck, SecondCheck, CheckAnswers, CheckAsks, Return
  <2> QED
    BY <1>0, <2>1
<1>4. ASSUME NEW c \in Callers, TakeLock(c) \/ Build(c) \/ Release(c) PROVE Checking'
  <2>1. /\ UNCHANGED at /\ pc[c] \notin {"first", "second"}
        /\ \E p \in {"await", "release", "idle"} : pc' = [pc EXCEPT ![c] = p]
    BY <1>4 DEF TakeLock, Build, Release, cvars, callers
  <2> QED
    BY <1>0, <2>1
<1>5. CASE UNCHANGED <<at, pc>>
  BY <1>5
<1> QED
  BY <1>1, <1>2, <1>3, <1>4, <1>5
     DEF Next, GraphStep, vars, cvars, callers, gvars, graphs, EvictGraph

\* No new stamped view, and older versions as they were.
LEMMA StampedAside ==
  ASSUME TypeOK, Stamped, CatalogMove, stamped' = stamped,
         \A r \in Readings : Given(r)' => Given(r)
  PROVE  Stamped'
<1>1. /\ \A v \in 1..Len(defs) : defs'[v] = defs[v]
      /\ Len(defs) \in Nat /\ Len(defs') \in Nat /\ Len(defs) <= Len(defs')
  BY BoundsAssumption, ChangesTyped DEF TypeOK, CatalogTypeOK
<1>2. \A r \in Readings : Given(r)' => r.stamp \in 1..stamped' /\ r.version \in 1..Len(defs')
  BY <1>1 DEF Stamped
<1>3. \A r \in Readings : Given(r) => FieldsOf(r)' = FieldsOf(r)
  BY <1>1 DEF Stamped, FieldsOf
<1>4. ASSUME NEW r \in Readings, NEW s \in Readings, Given(r)', Given(s)', r.stamp = s.stamp
      PROVE  FieldsOf(r)' = FieldsOf(s)'
  <2>1. Given(r) /\ Given(s)
    BY <1>4
  <2> QED
    BY <1>3, <1>4, <2>1 DEF Stamped
<1> QED
  BY <1>2, <1>4 DEF Stamped

\* A stamp given to a reading: the one of the held view with the same fields, or a new one.
LEMMA StampedLand ==
  ASSUME TypeOK, CatalogInv, Stamped, NEW f \in Flights, Land(f), UNCHANGED gvars
  PROVE  Stamped'
<1> DEFINE result == flights[f].result
           given == [result EXCEPT !.stamp = StampFor(result)]
           landed == IF IsView(result) THEN given ELSE result
<1>0. /\ flights \in [Flights -> Flying] /\ result \in Readings
      /\ view \in Readings /\ stamped \in Nat /\ Len(defs) \in Nat
  BY FlightTypes, FlyingTypes DEF TypeOK, CatalogTypeOK
<1>1. /\ flights' = [flights EXCEPT ![f] = Kept([flights[f] EXCEPT !.phase = "landed", !.stopped = TRUE,
                                                                 !.result = landed], WaitersOf(f))]
      /\ stamped' = (IF landed.stamp > stamped THEN landed.stamp ELSE stamped)
      /\ view' \in {view, landed}
      /\ UNCHANGED <<defs, answer, held, cached, snap>>
  BY DEF Land, callers, changes, gvars, graphs
<1>2. view.stamp \in Nat /\ (IsView(view) => view.stamp \in 1..stamped)
  <2>1. IsView(view) => Given(view)
    BY DEF Given
  <2> QED
    BY <1>0, <2>1, ReadingTypes DEF Stamped
<1>3. /\ StampFor(result) \in 1..(stamped + 1)
      /\ StampFor(result) \in 1..stamped =>
           /\ IsView(view) /\ StampFor(result) = view.stamp
           /\ FieldsOf(view) = FieldsOf(result)
  BY <1>0, <1>2 DEF StampFor
<1>4. IsView(result) =>
        /\ landed = given /\ given \in Readings /\ given.stamp = StampFor(result)
        /\ given.version = result.version /\ IsView(given)
        /\ FieldsOf(given) = FieldsOf(result) /\ result.version \in 1..Len(defs)
  <2>1. given \in Readings /\ given.stamp = StampFor(result)
        /\ given.version = result.version /\ given.is = result.is
    BY <1>0, <1>3 DEF Readings
  <2> QED
    BY <2>1 DEF IsView, FieldsOf, CatalogInv, Versions
<1>5. result.stamp \in Nat
  BY <1>0, ReadingTypes
<1> HIDE DEF result, given
<1>6. /\ stamped' \in Nat /\ stamped <= stamped'
      /\ IsView(result) => StampFor(result) \in 1..stamped'
  BY <1>0, <1>1, <1>3, <1>4, <1>5
<1>7. ASSUME NEW r \in Readings, Given(r)'
      PROVE  Given(r) \/ (IsView(result) /\ r = given)
  <2>1. IsView(r)
    BY <1>7 DEF Given, IsView
  <2>2. CASE r = view' \/ r = held' \/ \E c \in Callers : r \in {answer'[c], cached'[c], snap'[c]}
    BY <1>1, <1>4, <2>1, <2>2 DEF Given, IsView
  <2>3. CASE \E g \in Flights : flights'[g].phase = "landed" /\ r = flights'[g].result
    <3>1. PICK g \in Flights : flights'[g].phase = "landed" /\ r = flights'[g].result
      BY <2>3
    <3>2. CASE g # f
      BY <1>0, <1>1, <2>1, <3>1, <3>2 DEF Given
    <3>3. CASE g = f
      <4>1. r = landed \/ r = Nothing
        BY <1>0, <1>1, <3>1, <3>3 DEF Kept, Idle, Flying
      <4> QED
        BY <1>4, <2>1, <4>1, ReadingTypes DEF IsView
    <3> QED
      BY <3>2, <3>3
  <2> QED
    BY <1>7, <2>2, <2>3 DEF Given
<1>8. \A r \in Readings : Given(r)' => r.stamp \in 1..stamped' /\ r.version \in 1..Len(defs')
  <2> SUFFICES ASSUME NEW r \in Readings, Given(r)'
               PROVE  r.stamp \in 1..stamped' /\ r.version \in 1..Len(defs')
    OBVIOUS
  <2>1. CASE Given(r)
    BY <1>0, <1>1, <1>6, <2>1 DEF Stamped
  <2>2. CASE IsView(result) /\ r = given
    BY <1>1, <1>4, <1>6, <2>2
  <2> QED
    BY <1>7, <2>1, <2>2
<1>9. \A r : FieldsOf(r)' = FieldsOf(r)
  BY <1>1 DEF FieldsOf
<1>10. \A r \in Readings :
         (Given(r) /\ IsView(result) /\ r.stamp = given.stamp) => FieldsOf(r) = FieldsOf(given)
  <2> SUFFICES ASSUME NEW r \in Readings, Given(r), IsView(result), r.stamp = given.stamp
               PROVE  FieldsOf(r) = FieldsOf(given)
    OBVIOUS
  <2>1. StampFor(result) \in 1..stamped
    BY <1>4 DEF Stamped
  <2>2. Given(view) /\ r.stamp = view.stamp
    BY <1>3, <1>4, <2>1 DEF Given
  <2> QED
    BY <1>0, <1>3, <1>4, <2>1, <2>2 DEF Stamped
<1>11. ASSUME NEW r \in Readings, NEW s \in Readings, Given(r)', Given(s)', r.stamp = s.stamp
       PROVE  FieldsOf(r)' = FieldsOf(s)'
  <2>1. Given(r) \/ (IsView(result) /\ r = given)
    BY <1>7, <1>11
  <2>2. Given(s) \/ (IsView(result) /\ s = given)
    BY <1>7, <1>11
  <2>3. FieldsOf(r) = FieldsOf(s)
    BY <1>10, <1>11, <2>1, <2>2 DEF Stamped
  <2> QED
    BY <1>9, <2>3
<1> QED
  BY <1>8, <1>11 DEF Stamped

\* A graph is kept under the stamp of the view it was built from.
LEMMA StampedStep == TypeOK /\ CatalogInv /\ Stamped /\ [Next]_vars => Stamped'
<1> SUFFICES ASSUME TypeOK, CatalogInv, Stamped, [Next]_vars PROVE Stamped'
  OBVIOUS
<1>0. /\ flights \in [Flights -> Flying] /\ answer \in [Callers -> Readings]
      /\ cached \in [Callers -> Readings] /\ snap \in [Callers -> Readings]
      /\ CatalogMove /\ ~IsView(Nothing)
      /\ \A r : IsView(r)' = IsView(r)
  BY FlightTypes, Moves, ReadingTypes DEF TypeOK, CatalogTypeOK, IsView
<1>1. CASE CatalogStep /\ UNCHANGED gvars
  <2>g. UNCHANGED <<held, cached, snap>>
    BY <1>1 DEF gvars, graphs
  <2>1. ASSUME NEW f \in Flights, Land(f) PROVE Stamped'
    BY <1>1, <2>1, StampedLand
  <2>2. ASSUME NEW f \in Flights, Read(f) PROVE Stamped'
    <3>1. PICK r : flights' = [flights EXCEPT ![f].phase = "read", ![f].result = r]
      BY <2>2 DEF Read
    <3>2. \A g \in Flights : flights'[g].phase = "landed" => flights'[g] = flights[g]
      BY <1>0, <3>1 DEF Flying
    <3>3. UNCHANGED <<view, stamped, answer>>
      BY <2>2 DEF Read, callers
    <3> QED
      BY <1>0, <2>g, <3>2, <3>3, StampedAside DEF Given
  <2>3. ASSUME NEW c \in Callers, JoinHeld(c) PROVE Stamped'
    <3>1. \A d \in Callers : answer'[d] \in {answer[d], view}
      BY <1>0, <2>3 DEF JoinHeld
    <3>2. UNCHANGED <<view, stamped, flights>>
      BY <2>3 DEF JoinHeld, shared
    <3> QED
      BY <1>0, <2>g, <3>1, <3>2, StampedAside DEF Given
  <2>4. ASSUME NEW c \in Callers, JoinFlight(c) PROVE Stamped'
    <3>1. flights' = [flights EXCEPT ![current].waiting = @ + 1] /\ UNCHANGED <<view, stamped, answer>>
      BY <2>4 DEF JoinFlight
    <3>2. \A g \in Flights : flights'[g].phase = flights[g].phase /\ flights'[g].result = flights[g].result
      BY <1>0, <3>1 DEF Flying
    <3> QED
      BY <1>0, <2>g, <3>1, <3>2, StampedAside DEF Given
  <2>5. ASSUME NEW c \in Callers, StartFlight(c) PROVE Stamped'
    <3>1. \A g \in Flights : flights'[g].phase = "landed" => flights'[g] = flights[g]
      <4>1. PICK g \in Flights : flights' = [flights EXCEPT ![g] = Starting]
        BY <2>5, IdleFlight
      <4> QED
        BY <1>0, <4>1 DEF Starting, Idle
    <3>2. UNCHANGED <<view, stamped, answer>>
      BY <2>5 DEF StartFlight
    <3> QED
      BY <1>0, <2>g, <3>1, <3>2, StampedAside DEF Given
  <2>6. ASSUME NEW c \in Callers, TakeResult(c) \/ JoinAgain(c) PROVE Stamped'
    <3>1. PICK f \in Flights : f = on[c] /\ flights[f].phase = "landed"
      BY <2>6 DEF TakeResult, JoinAgain, TypeOK, CatalogTypeOK
    <3>2. \A g \in Flights : flights'[g] \in {flights[g], Idle}
      BY <1>0, <2>6, <3>1 DEF TakeResult, JoinAgain, Kept
    <3>3. \A d \in Callers : answer'[d] \in {answer[d], flights[f].result}
      BY <1>0, <2>6, <3>1 DEF TakeResult, JoinAgain
    <3>4. UNCHANGED <<view, stamped>>
      BY <2>6 DEF TakeResult, JoinAgain
    <3>5. Idle.phase # "landed"
      BY DEF Idle
    <3>6. \A r \in Readings : Given(r)' => Given(r)
      BY <1>0, <2>g, <3>1, <3>2, <3>3, <3>4, <3>5 DEF Given
    <3> QED
      BY <1>0, <3>4, <3>6, StampedAside
  <2>7. ASSUME NEW c \in Callers, GiveUp(c) PROVE Stamped'
    <3>1. \A g \in Flights :
            flights'[g].phase = "landed" => flights[g].phase = "landed" /\ flights'[g].result = flights[g].result
      <4> DEFINE left == [flights[on[c]] EXCEPT !.waiting = @ - 1,
                            !.stopped = @ \/ LastLeaving(flights[on[c]].waiting)]
      <4>1. flights' = [flights EXCEPT ![on[c]] = Kept(left, WaitersOf(on[c]) \ {c})]
        BY <2>7 DEF GiveUp
      <4>2. on[c] \in Flights
        BY <2>7 DEF GiveUp, TypeOK, CatalogTypeOK
      <4>3. left.phase = flights[on[c]].phase /\ left.result = flights[on[c]].result /\ Idle.phase # "landed"
        BY <1>0, <4>2 DEF Flying, Idle
      <4> HIDE DEF left
      <4> QED
        BY <1>0, <4>1, <4>2, <4>3 DEF Kept
    <3>2. \A d \in Callers : answer'[d] = answer[d] \/ ~IsView(answer'[d])
      BY <1>0, <2>7 DEF GiveUp, Reading, IsView
    <3>3. UNCHANGED <<view, stamped>>
      BY <2>7 DEF GiveUp
    <3> QED
      BY <1>0, <2>g, <3>1, <3>2, <3>3, StampedAside DEF Given
  <2>8. ASSUME NEW v \in unforgotten, Forget(v) PROVE Stamped'
    <3>1. \A g \in Flights : flights'[g].phase = flights[g].phase /\ flights'[g].result = flights[g].result
      BY <1>0, <2>8 DEF Forget, Overtaken, Flying
    <3>2. view' = Nothing /\ UNCHANGED <<stamped, answer>>
      BY <2>8 DEF Forget, callers
    <3> QED
      BY <1>0, <2>g, <3>1, <3>2, StampedAside DEF Given
  <2>9. CASE Change \/ ChangeElsewhere \/ GrowsOld \/ Evict
    <3>1. view' \in {view, Nothing} /\ UNCHANGED <<stamped, flights, answer>>
      BY <2>9 DEF Change, ChangeElsewhere, GrowsOld, Evict, shared, callers
    <3> QED
      BY <1>0, <2>g, <3>1, StampedAside DEF Given
  <2> QED
    BY <1>1, <2>1, <2>2, <2>3, <2>4, <2>5, <2>6, <2>7, <2>8, <2>9 DEF CatalogStep, CallerStep
<1>2. ASSUME NEW c \in Callers, Enter(c) \/ GraphStep(c) PROVE Stamped'
  <2>1. UNCHANGED <<view, stamped, flights>>
    BY <1>2 DEF Enter, GraphStep, FirstCheck, TakeLock, Acquire, SecondCheck, Build, Release,
                CheckAnswers, CheckAsks, Ask, Return, cvars, shared
  <2>2. \A d \in Callers : answer'[d] \in {answer[d], Nothing}
    <3>1. answer' = [answer EXCEPT ![c] = Nothing] \/ UNCHANGED answer
      BY <1>2 DEF Enter, GraphStep, FirstCheck, TakeLock, Acquire, SecondCheck, Build, Release,
                  CheckAnswers, CheckAsks, Ask, Return, cvars, callers
    <3> QED
      BY <1>0, <3>1
  <2>3. \A d \in Callers : cached'[d] \in {cached[d], held, Nothing}
    <3>1. \/ cached' = [cached EXCEPT ![c] = Nothing] \/ cached' = [cached EXCEPT ![c] = held]
          \/ UNCHANGED cached
      BY <1>2 DEF Enter, GraphStep, FirstCheck, TakeLock, Acquire, SecondCheck, Build, Release,
                  CheckAnswers, CheckAsks
    <3> QED
      BY <1>0, <3>1
  <2>4. \A d \in Callers : snap'[d] \in {snap[d], answer[d], Nothing}
    <3>1. \/ snap' = [snap EXCEPT ![c] = Nothing] \/ snap' = [snap EXCEPT ![c] = answer[c]]
          \/ UNCHANGED snap
      BY <1>2 DEF Enter, GraphStep, FirstCheck, TakeLock, Acquire, SecondCheck, Build, Release,
                  CheckAnswers, CheckAsks
    <3> QED
      BY <1>0, <3>1
  <2>5. held' \in {held, snap[c]}
    BY <1>2 DEF Enter, GraphStep, FirstCheck, TakeLock, Acquire, SecondCheck, Build, Release,
                CheckAnswers, CheckAsks
  <2>6. \A r \in Readings : Given(r)' => Given(r)
    BY <1>0, <2>1, <2>2, <2>3, <2>4, <2>5 DEF Given
  <2> QED
    BY <1>0, <2>1, <2>6, StampedAside
<1>3. CASE EvictGraph
  <2>1. held' = Nothing /\ UNCHANGED <<view, stamped, flights, answer, cached, snap>>
    BY <1>3 DEF EvictGraph, shared, callers
  <2> QED
    BY <1>0, <2>1, StampedAside DEF Given
<1>4. CASE UNCHANGED vars
  <2>1. UNCHANGED <<view, stamped, flights, answer, held, cached, snap>>
    BY <1>4 DEF vars, cvars, shared, callers, gvars, graphs
  <2> QED
    BY <1>0, <2>1, StampedAside DEF Given
<1> QED
  BY <1>1, <1>2, <1>3, <1>4 DEF Next

\* The types of the graphs' own variables that are no locks.
LEMMA GraphTypes ==
  TypeOK /\ [Next]_vars =>
    /\ held' \in Readings /\ cached' \in [Callers -> Readings]
    /\ snap' \in [Callers -> Readings] /\ calls' \in 0..MaxCalls
<1> SUFFICES ASSUME TypeOK, [Next]_vars
             PROVE  /\ held' \in Readings /\ cached' \in [Callers -> Readings]
                    /\ snap' \in [Callers -> Readings] /\ calls' \in 0..MaxCalls
  OBVIOUS
<1>0. /\ held \in Readings /\ cached \in [Callers -> Readings] /\ snap \in [Callers -> Readings]
      /\ answer \in [Callers -> Readings] /\ Nothing \in Readings
      /\ calls \in 0..MaxCalls /\ MaxCalls \in Nat
  BY ReadingTypes, CallsAssumption DEF TypeOK, CatalogTypeOK
<1>1. ASSUME NEW c \in Callers, Enter(c)
      PROVE  /\ cached' = [cached EXCEPT ![c] = held] /\ calls' \in 0..MaxCalls
             /\ UNCHANGED <<held, snap>>
  BY <1>0, <1>1 DEF Enter
<1>2. ASSUME NEW c \in Callers, GraphStep(c)
      PROVE  /\ cached' \in [Callers -> Readings] /\ snap' \in [Callers -> Readings]
             /\ held' \in Readings /\ UNCHANGED calls
  <2>1. ASSUME NEW next \in Places, CheckAnswers(c, next) \/ CheckAsks(c, next)
        PROVE  /\ cached' \in [Callers -> Readings] /\ snap' \in [Callers -> Readings]
               /\ held' \in Readings /\ UNCHANGED calls
    BY <1>0, <2>1 DEF CheckAnswers, CheckAsks
  <2>2. CASE FirstCheck(c) \/ SecondCheck(c)
    BY <2>1, <2>2 DEF FirstCheck, SecondCheck, Places
  <2>3. CASE Acquire(c)
    BY <1>0, <2>3 DEF Acquire
  <2>4. CASE Build(c)
    BY <1>0, <2>4 DEF Build
  <2>5. CASE TakeLock(c) \/ Release(c)
    BY <1>0, <2>5 DEF TakeLock, Release
  <2> QED
    BY <1>2, <2>2, <2>3, <2>4, <2>5 DEF GraphStep
<1>3. CASE EvictGraph
  BY <1>0, <1>3 DEF EvictGraph
<1>4. CASE UNCHANGED gvars
  BY <1>0, <1>4 DEF gvars, graphs
<1> QED
  BY <1>0, <1>1, <1>2, <1>3, <1>4 DEF Next, vars

\* No view, no graph and no lock.
LEMMA Start == Init => IInv
<1> SUFFICES ASSUME Init PROVE IInv
  OBVIOUS
<1>1. CatalogInv
  BY CatalogStart DEF Init
<1>2. Locked
  <2>1. \A l \in Locks : UsersOf(l) = {}
    BY LocksAssumption DEF Init, UsersOf
  <2> QED
    BY <2>1, FS_EmptySet DEF Init, Locked, Inside
<1>3. Checking
  BY DEF Init, CatalogInit, Checking
<1>4. \A r : ~Given(r)
  BY ReadingTypes DEF Init, CatalogInit, Given, Idle
<1>5. Stamped
  BY <1>4 DEF Stamped
<1>6. TypeOK
  <2>1. Cardinality(Callers) \in Nat
    BY CallersAssumption, FS_CardinalityType
  <2>2. users \in [Locks -> 0..Cardinality(Callers)]
    BY <2>1 DEF Init
  <2>3. CatalogTypeOK
    BY <1>1 DEF CatalogInv
  <2> QED
    BY <2>2, <2>3, ReadingTypes, CallsAssumption DEF Init, TypeOK
<1> QED
  BY <1>1, <1>2, <1>3, <1>5, <1>6 DEF IInv

\* Every step keeps the invariant.
LEMMA Preserved == IInv /\ [Next]_vars => IInv'
<1> SUFFICES ASSUME IInv, [Next]_vars PROVE IInv'
  OBVIOUS
<1>1. TypeOK /\ CatalogInv /\ Checking /\ Stamped /\ Locked
  BY DEF IInv
<1>2. CatalogInv'
  BY <1>1, Moves, CatalogKept
<1>3. Locking'
  <2>1. Locking
    BY <1>1 DEF Locking, TypeOK, Places
  <2> QED
    BY <2>1, LockStep
<1>4. Checking' /\ Stamped'
  BY <1>1, CheckingStep, StampedStep
<1>5. TypeOK'
  <2>1. CatalogTypeOK'
    BY <1>2 DEF CatalogInv
  <2> QED
    BY <1>1, <1>3, <2>1, GraphTypes DEF TypeOK, Locking, Places
<1> QED
  BY <1>2, <1>3, <1>4, <1>5 DEF IInv, Locking

\* The invariant holds in every behaviour of the catalog and the graphs.
THEOREM Invariant == Spec => []IInv
<1> QED
  BY Start, Preserved, PTL DEF Spec

\* Every variable of the catalogue and of the graph keeps its type.
THEOREM TypeCorrect == Spec => []TypeOK
<1>1. IInv => TypeOK
  BY DEF IInv
<1> QED
  BY <1>1, Invariant, PTL

\* viewFor: whatever forgets, failures, evictions and callers that give up come
\* between, no caller is answered a reading older than a change forgotten before
\* its call, and none that stayed the stopping of the read it shared.
THEOREM AnswersStayCurrent == Spec => []AnswersCurrent
<1>1. IInv => AnswersCurrent
  BY DEF IInv, CatalogInv
<1> QED
  BY <1>1, Invariant, PTL

\* For: a request that is served the graph held is served the fields its own
\* reading of the catalogue found.
THEOREM GraphsStayCurrent == Spec => []GraphsCurrent
<1>1. IInv => GraphsCurrent
  <2> SUFFICES ASSUME IInv, NEW c \in Callers, at[c] = "answered", IsView(answer[c]), UpToDate(c)
               PROVE  FieldsOf(cached[c]) = FieldsOf(answer[c])
    BY DEF GraphsCurrent
  <2>1. cached[c] \in Readings /\ answer[c] \in Readings
    BY DEF IInv, TypeOK, CatalogTypeOK
  <2>2. Given(cached[c]) /\ Given(answer[c])
    BY DEF Given, UpToDate
  <2> QED
    BY <2>1, <2>2 DEF IInv, Stamped, UpToDate
<1> QED
  BY <1>1, Invariant, PTL

\* For builds under the workspace's lock: however locks come and go with their
\* users, two requests never build at once.
THEOREM BuildsExclude == Spec => []OneBuildAtATime
<1>1. IInv => OneBuildAtATime
  <2> SUFFICES ASSUME IInv PROVE OneBuildAtATime
    OBVIOUS
  <2> DEFINE S == {c \in Callers : pc[c] \in {"second", "build"}}
  <2>1. \A c, d \in S : c = d
    BY DEF IInv, Locked, Inside
  <2>2. Cardinality(S) <= 1
    <3>1. CASE S = {}
      BY <3>1, FS_EmptySet
    <3>2. CASE S # {}
      <4>1. PICK c : S = {c}
        BY <2>1, <3>2
      <4> QED
        BY <4>1, FS_Singleton
    <3> QED
      BY <3>1, <3>2
  <2> QED
    BY <2>2 DEF OneBuildAtATime
<1> QED
  BY <1>1, Invariant, PTL
=============================================================================
