---------------------------- MODULE LiveStreams ----------------------------
(***************************************************************************)
(* The live streams of one caller: requests for coreEvent, each held to a  *)
(* slot and a lifetime, the goroutines that pass frames from the hub to    *)
(* the answer, and the hub that drops frames for those that lag behind.    *)
(* The plugin's broadcaster and its pumps are the same protocol.           *)
(*                                                                         *)
(* A frame says only that something changed, so buffers are counted.       *)
(* Frames for other callers pass these streams by and are left out.        *)
(***************************************************************************)
EXTENDS Naturals, FiniteSets

CONSTANTS
  Streams,     \* requests that can be under way at once
  Slots,       \* streams one caller may hold
  HubBuffer,   \* frames a subscriber can lag behind
  NameBuffer,  \* names a subscription can lag behind
  MaxChanges   \* bound on changes announced

ASSUME StreamsAssumption == IsFiniteSet(Streams)
ASSUME LimitsAssumption ==
  {Slots, HubBuffer, NameBuffer} \subseteq Nat \ {0} /\ MaxChanges \in Nat

VARIABLES
  stored,       \* changes stored
  unannounced,  \* stored changes whose frame is still to come
  serving,      \* the requests that hold a slot
  over,         \* the requests whose context has ended
  pump,         \* per request: "none", "start", "range", "hand", "done"
  watcher,      \* per request, the goroutine awaiting its end: "none", "wait", "delisted", "done"
  subs,         \* the streams the hub knows
  shut,         \* the streams whose channel of frames is closed
  frames,       \* per stream, the frames its channel holds
  names         \* per stream, the names its answer has yet to take

hub == <<stored, unannounced>>
svars == <<hub, serving, over, pump, watcher, subs, shut, frames, names>>

---------------------------------------------------------------------------
(* Changes and their frames.                                               *)

\* A change is stored; Publish comes after.
StoreChange ==
  /\ stored < MaxChanges
  /\ stored' = stored + 1
  /\ unannounced' = unannounced \cup {stored + 1}
  /\ UNCHANGED <<serving, over, pump, watcher, subs, shut, frames, names>>

\* Broadcast, under the hub's mutex: a full channel is passed over.
Broadcast(v) ==
  /\ v \in unannounced
  /\ unannounced' = unannounced \ {v}
  /\ frames' = [s \in Streams |->
       IF s \in subs /\ frames[s] < HubBuffer THEN frames[s] + 1 ELSE frames[s]]
  /\ UNCHANGED <<stored, serving, over, pump, watcher, subs, shut, names>>

---------------------------------------------------------------------------
(* A request and its goroutines.                                           *)

\* The request and both its goroutines are gone.
Cleared(s) ==
  /\ s \notin serving \cup subs
  /\ pump[s] \in {"none", "done"} /\ watcher[s] \in {"none", "done"}

\* claim: a request of the caller takes a slot.
Admit(s) ==
  /\ Cleared(s)
  /\ Cardinality(serving) < Slots
  /\ serving' = serving \cup {s}
  /\ over' = over \ {s}
  /\ shut' = shut \ {s}
  /\ pump' = [pump EXCEPT ![s] = "none"]
  /\ watcher' = [watcher EXCEPT ![s] = "none"]
  /\ frames' = [frames EXCEPT ![s] = 0]
  /\ names' = [names EXCEPT ![s] = 0]
  /\ UNCHANGED <<hub, subs>>

\* CoreEvent: the channel of names, and a goroutine to fill it.
Resolve(s) ==
  /\ s \in serving /\ pump[s] = "none"
  /\ pump' = [pump EXCEPT ![s] = "start"]
  /\ UNCHANGED <<hub, serving, over, watcher, subs, shut, frames, names>>

\* pumpNames subscribes, and starts what awaits the request's end.
Subscribe(s) ==
  /\ pump[s] = "start"
  /\ pump' = [pump EXCEPT ![s] = "range"]
  /\ watcher' = [watcher EXCEPT ![s] = "wait"]
  /\ subs' = subs \cup {s}
  /\ UNCHANGED <<hub, serving, over, shut, frames, names>>

\* The next frame of the range.
TakeFrame(s) ==
  /\ pump[s] = "range" /\ frames[s] > 0
  /\ frames' = [frames EXCEPT ![s] = @ - 1]
  /\ pump' = [pump EXCEPT ![s] = "hand"]
  /\ UNCHANGED <<hub, serving, over, watcher, subs, shut, names>>

\* The range ends with a channel that is closed and empty.
RangeEnds(s) ==
  /\ pump[s] = "range" /\ frames[s] = 0 /\ s \in shut
  /\ pump' = [pump EXCEPT ![s] = "done"]
  /\ UNCHANGED <<hub, serving, over, watcher, subs, shut, frames, names>>

\* forwardName, the name sent.
Forward(s) ==
  /\ pump[s] = "hand" /\ names[s] < NameBuffer
  /\ names' = [names EXCEPT ![s] = @ + 1]
  /\ pump' = [pump EXCEPT ![s] = "range"]
  /\ UNCHANGED <<hub, serving, over, watcher, subs, shut, frames>>

\* forwardName, the request over.
GiveUp(s) ==
  /\ pump[s] = "hand" /\ s \in over
  /\ pump' = [pump EXCEPT ![s] = "done"]
  /\ UNCHANGED <<hub, serving, over, watcher, subs, shut, frames, names>>

\* A slip the runs must notice: the channel is closed while the hub knows it.
CloseFirst(s) == shut' = shut \cup {s} /\ UNCHANGED subs

\* The first half of Unsubscribe, under the hub's mutex.
Delist(s) == subs' = subs \ {s} /\ UNCHANGED shut

\* The request is over: its stream is delisted.
StartUnsubscribe(s) ==
  /\ watcher[s] = "wait" /\ s \in over
  /\ Delist(s)
  /\ watcher' = [watcher EXCEPT ![s] = "delisted"]
  /\ UNCHANGED <<hub, serving, over, pump, frames, names>>

\* The second half of Unsubscribe: the channel is closed.
EndUnsubscribe(s) ==
  /\ watcher[s] = "delisted"
  /\ shut' = shut \cup {s}
  /\ watcher' = [watcher EXCEPT ![s] = "done"]
  /\ UNCHANGED <<hub, serving, over, pump, subs, frames, names>>

\* The answer takes a name and writes it to the caller.
Write(s) ==
  /\ s \in serving /\ names[s] > 0
  /\ names' = [names EXCEPT ![s] = @ - 1]
  /\ UNCHANGED <<hub, serving, over, pump, watcher, subs, shut, frames>>

\* The lifetime is over, or the caller has gone.
EndRequest(s) ==
  /\ s \in serving \ over
  /\ over' = over \cup {s}
  /\ UNCHANGED <<hub, serving, pump, watcher, subs, shut, frames, names>>

\* withOperationGuards returns: the answer has ended and the slot is free.
Leave(s) ==
  /\ s \in serving /\ s \in over
  /\ serving' = serving \ {s}
  /\ UNCHANGED <<hub, over, pump, watcher, subs, shut, frames, names>>

---------------------------------------------------------------------------
StreamsInit ==
  /\ stored = 0
  /\ unannounced = {}
  /\ serving = {} /\ over = {} /\ subs = {} /\ shut = {}
  /\ pump = [s \in Streams |-> "none"]
  /\ watcher = [s \in Streams |-> "none"]
  /\ frames = [s \in Streams |-> 0]
  /\ names = [s \in Streams |-> 0]

\* What the goroutines of a request do of themselves.
Goroutines(s) ==
  \/ Subscribe(s) \/ TakeFrame(s) \/ RangeEnds(s) \/ Forward(s) \/ GiveUp(s)
  \/ StartUnsubscribe(s) \/ EndUnsubscribe(s)
=============================================================================
