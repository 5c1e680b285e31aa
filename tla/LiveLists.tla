----------------------------- MODULE LiveLists -----------------------------
(***************************************************************************)
(* A paged list on a screen and the stream that keeps it current.  Each    *)
(* name the stream brings, and each connection it makes, has the list read *)
(* again; the list's loader runs its reads one job at a time, a burst of   *)
(* rereads as one, and starts over when the list is asked for something    *)
(* else.                                                                   *)
(*                                                                         *)
(* A page stands for the changes that were stored when it was read and for *)
(* the variables it was read with.  The first page is the query cache's;   *)
(* the loader keeps those after it.                                        *)
(***************************************************************************)
EXTENDS LiveStreams, Sequences, Functions

CONSTANTS
  MaxPages,  \* bound on the pages past the first
  MaxKeys    \* bound on the changes of the list's variables

ASSUME RequestsAssumption == Streams \subseteq Nat \ {0}
ASSUME BoundsAssumption == MaxPages \in Nat /\ MaxKeys \in Nat

VARIABLES
  link,        \* the stream the screen reads, 0 for none
  heard,       \* whether its connection was announced
  paused,      \* whether the list is paused
  generation,  \* which variables the loader is at
  list,        \* the loader: its pages, its flags and the jobs that wait
  drains       \* per generation, the job its run awaits

\* History, read by no action's guard.
VARIABLES
  missed,  \* changes its stream was not told of, of those announced since it connected
  stuck    \* whether the latest reread failed

screen == <<link, heard, missed>>
loader == <<paused, generation, list, drains, stuck>>
vars == <<svars, screen, loader>>

Page(version, key) == [version |-> version, key |-> key]
Empty == [pages |-> <<>>, fetching |-> FALSE, running |-> FALSE,
          wantMore |-> FALSE, wantReread |-> FALSE]

\* What a run awaits: its kind, the pages read so far and the answer on its way.
Job(kind) == [kind |-> kind, walk |-> <<>>, got |-> {}]
NoJob == Job("none")

Idle(l) == [l EXCEPT !.running = FALSE]

---------------------------------------------------------------------------
(* The loader.                                                             *)

\* drain, from the head of its loop to the next read it awaits or to its end:
\* the loader then, and the job.  Whether the page past the last exists is the data's.
Outcomes(l, isPaused) ==
  LET reread == [l EXCEPT !.wantReread = FALSE]
      more == [reread EXCEPT !.wantMore = FALSE]
  IN
  IF l.wantReread /\ isPaused THEN {<<Idle(l), NoJob>>}
  ELSE IF l.wantReread /\ l.pages # <<>> THEN {<<reread, Job("reread")>>}
  ELSE {<<Idle(more), NoJob>>} \cup
       IF l.wantMore /\ Len(l.pages) < MaxPages
       THEN {<<[more EXCEPT !.fetching = TRUE], Job("more")>>} ELSE {}

Run(l, isPaused) ==
  \E o \in Outcomes([l EXCEPT !.running = TRUE], isPaused) :
    /\ list' = o[1]
    /\ drains' = [drains EXCEPT ![generation] = o[2]]

\* drain does nothing while another is running.
Drain(l, isPaused) ==
  IF l.running THEN list' = l /\ UNCHANGED drains ELSE Run(l, isPaused)

\* A slip the runs must notice: a refetch of a list being read is not remembered.
UnlessRunning == [list EXCEPT !.wantReread = ~list.running]

\* The refetch is remembered.
Remembered == [list EXCEPT !.wantReread = TRUE]

\* The doorbell: useGraphEvents, refetch and the loader's listener.
Ring ==
  /\ IF paused THEN list' = Remembered /\ UNCHANGED drains ELSE Drain(Remembered, FALSE)
  /\ UNCHANGED <<paused, generation, stuck>>

\* fetchNextPage
FetchNextPage ==
  /\ ~list.wantMore
  /\ Drain([list EXCEPT !.wantMore = TRUE], paused)
  /\ UNCHANGED <<svars, screen, paused, generation, stuck>>

Pause ==
  /\ ~paused
  /\ paused' = TRUE
  /\ UNCHANGED <<svars, screen, generation, list, drains, stuck>>

\* A slip the runs must notice: a resume that leaves the list as it is.
NothingWaits == FALSE

\* A refetch was heard meanwhile.
RereadWaits == list.wantReread

Resume ==
  /\ paused
  /\ paused' = FALSE
  /\ IF RereadWaits THEN Drain(list, FALSE) ELSE UNCHANGED <<list, drains>>
  /\ UNCHANGED <<svars, screen, generation, stuck>>

\* reset: the list is asked for with other variables.
Reset ==
  /\ generation < MaxKeys
  /\ generation' = generation + 1
  /\ list' = Empty
  /\ stuck' = FALSE
  /\ UNCHANGED <<svars, screen, paused, drains>>

\* The server answers the read a run awaits.
Answer(g) ==
  /\ drains[g] # NoJob /\ drains[g].got = {}
  /\ drains' = [drains EXCEPT ![g].got = {stored}]
  /\ UNCHANGED <<svars, screen, paused, generation, list, stuck>>

\* A slip the runs must notice: what an older run read lands in the list.
OfAnyRun(g) == TRUE

\* A run goes on only while the variables are those it began with.
OfThisRun(g) == g = generation

\* A job ends with the loader as given; an older run ends with it.
Finish(g, l) ==
  IF OfThisRun(g) THEN Run(l, paused)
  ELSE drains' = [drains EXCEPT ![g] = NoJob] /\ UNCHANGED list

\* The pages a reread keeps: those after the first.
Kept(walk, key) == [i \in 1..(Len(walk) - 1) |-> Page(walk[i + 1], key)]

\* readMore: the page arrives.
MoreArrives(g) ==
  /\ drains[g].kind = "more"
  /\ \E v \in drains[g].got :
       Finish(g, [list EXCEPT !.fetching = FALSE, !.pages = Append(@, Page(v, g))])
  /\ UNCHANGED <<svars, screen, paused, generation, stuck>>

\* rereadPages: a page arrives and there is another to read.
WalkGoesOn(g) ==
  /\ drains[g].kind = "reread"
  /\ Len(drains[g].walk) < MaxPages
  /\ \E v \in drains[g].got :
       drains' = [drains EXCEPT ![g].walk = Append(@, v), ![g].got = {}]
  /\ UNCHANGED <<svars, screen, paused, generation, list, stuck>>

\* rereadPages: the last page arrives.
WalkEnds(g) ==
  /\ drains[g].kind = "reread"
  /\ \E v \in drains[g].got :
       Finish(g, [list EXCEPT !.pages = Kept(Append(drains[g].walk, v), g)])
  /\ stuck' = IF g = generation THEN FALSE ELSE stuck
  /\ UNCHANGED <<svars, screen, paused, generation>>

\* A read fails and the pages stay.
ReadFails(g) ==
  /\ drains[g].got # {}
  /\ Finish(g, [list EXCEPT !.fetching = FALSE])
  /\ stuck' = (stuck \/ (g = generation /\ drains[g].kind = "reread"))
  /\ UNCHANGED <<svars, screen, paused, generation>>

---------------------------------------------------------------------------
(* The screen and its stream.                                              *)

\* The event stream client connects.
Connect(s) ==
  /\ link = 0
  /\ Admit(s)
  /\ link' = s
  /\ UNCHANGED <<heard, missed, loader>>

\* The connection is announced, and the list is read again.
Connected ==
  /\ link # 0 /\ ~heard
  /\ heard' = TRUE
  /\ Ring
  /\ UNCHANGED <<svars, link, missed>>

\* A name reaches the screen.
Deliver ==
  /\ link # 0 /\ heard
  /\ Write(link)
  /\ Ring
  /\ UNCHANGED screen

LinkLost == link' = 0 /\ heard' = FALSE /\ missed' = {}

\* The screen lets its stream go, or the connection breaks.
Disconnect ==
  /\ link # 0
  /\ LinkLost
  /\ over' = over \cup {link}
  /\ UNCHANGED <<hub, serving, pump, watcher, subs, shut, frames, names, loader>>

\* The answer ends; a screen that reads it is told.
StreamEnds(s) ==
  /\ Leave(s)
  /\ IF link = s THEN LinkLost ELSE UNCHANGED screen
  /\ UNCHANGED loader

\* A change is announced.
Announce(v) ==
  /\ Broadcast(v)
  /\ missed' = IF heard /\ link \notin subs THEN missed \cup {v} ELSE missed
  /\ UNCHANGED <<link, heard, loader>>

---------------------------------------------------------------------------
Init ==
  /\ StreamsInit
  /\ link = 0
  /\ heard = FALSE
  /\ missed = {}
  /\ paused = FALSE
  /\ generation = 0
  /\ list = Empty
  /\ drains = [g \in 0..MaxKeys |-> NoJob]
  /\ stuck = FALSE

Elsewhere == UNCHANGED <<screen, loader>>

LoaderStep(g) ==
  Answer(g) \/ MoreArrives(g) \/ WalkGoesOn(g) \/ WalkEnds(g) \/ ReadFails(g)

Next ==
  \/ StoreChange /\ Elsewhere
  \/ \E v \in unannounced : Announce(v)
  \/ \E s \in Streams :
       \/ (Resolve(s) \/ Goroutines(s) \/ EndRequest(s)) /\ Elsewhere
       \/ Connect(s) \/ StreamEnds(s)
  \/ Connected \/ Deliver \/ Disconnect
  \/ FetchNextPage \/ Pause \/ Resume \/ Reset
  \/ \E g \in 0..MaxKeys : LoaderStep(g)

Spec == Init /\ [][Next]_vars

---------------------------------------------------------------------------
(* Properties.                                                             *)

TypeOK ==
  /\ stored \in 0..MaxChanges
  /\ unannounced \subseteq 1..stored /\ missed \subseteq 1..stored
  /\ serving \subseteq Streams /\ Cardinality(serving) <= Slots
  /\ over \subseteq Streams /\ subs \subseteq Streams /\ shut \subseteq Streams
  /\ pump \in [Streams -> {"none", "start", "range", "hand", "done"}]
  /\ watcher \in [Streams -> {"none", "wait", "delisted", "done"}]
  /\ frames \in [Streams -> 0..HubBuffer] /\ names \in [Streams -> 0..NameBuffer]
  /\ link \in serving \cup {0} /\ (heard => link # 0)
  /\ paused \in BOOLEAN /\ stuck \in BOOLEAN
  /\ generation \in 0..MaxKeys
  /\ Len(list.pages) <= MaxPages
  /\ \A g \in generation + 1..MaxKeys : drains[g] = NoJob

\* Broadcast never finds the closed channel of a stream: sending on it would
\* end the process.
OpenWhileKnown == subs \cap shut = {}

\* A name, a frame or one a goroutine holds is on its way to the screen.
OnItsWay == frames[link] + names[link] > 0 \/ pump[link] = "hand"

Listening == heard /\ link \notin over

\* A page older than a change is read again, whatever the buffers dropped, the
\* burst swallowed, the pause put off or the reset threw away: a name is on its
\* way or a reread waits or runs.  The change is excused if it has yet to be
\* announced, or was announced to no stream since the screen last connected; the
\* page, if the screen's stream has ended or the latest reread failed.
NothingForgotten ==
  \A p \in Range(list.pages), v \in 1..stored :
    p.version < v =>
      \/ v \in unannounced \cup missed
      \/ ~Listening \/ OnItsWay
      \/ list.wantReread \/ drains[generation].kind = "reread"
      \/ stuck

\* The pages shown were read with the variables the list is asked for now.
PagesOfTheseVariables == \A p \in Range(list.pages) : p.key = generation

\* A job waits only behind one that runs or a pause that will start it, and
\* a run that goes on has a read under way: no flag is left behind for good.
JobsServed ==
  /\ (list.wantReread \/ list.wantMore) => list.running \/ (paused /\ list.wantReread)
  /\ list.running = (drains[generation] # NoJob)
  /\ list.fetching = (drains[generation].kind = "more")
=============================================================================
