-------------------------- MODULE WhatsAppMessages --------------------------
(***************************************************************************)
(* WhatsApp messages.  Meta posts deliveries of customers' messages and of *)
(* statuses of messages people sent, again and again until it hears a 200, *)
(* and may post one while an earlier post of it is still at work.  Each    *)
(* request ingests the items one by one and stops at the first failure, so *)
(* a delivery may be ingested in part, or whole with its answer lost.      *)
(* People's messages are accepted by Meta first and stored after, so their *)
(* statuses may arrive before the rows they are about.                     *)
(*                                                                         *)
(* A message carries the time it was sent, or none that parses; such a     *)
(* message is given the clock's reading each time a delivery of it is      *)
(* read, so its redeliveries carry other times than its row.               *)
(*                                                                         *)
(* One business number whose signature is proven, in one workspace, and    *)
(* one conversation.  Resolving a sender is its own module.                *)
(***************************************************************************)
EXTENDS Naturals, Sequences

CONSTANTS
  Requests,    \* requests served at once
  Deliveries,  \* what Meta posts: sequences of messages, then statuses
  Outbound,    \* messages people send
  Times,       \* the clock's readings, 0 for no reading
  ItemsMax,    \* ALPHONE_WHATSAPP_DELIVERY_ITEMS_MAX
  MaxFaults,   \* bound on failures: a query, an answer, or a request cut short
  MaxToggles   \* bound on the workspace closing or opening its channels

statusRanks ==
  [accepted |-> 1, sent |-> 2, delivered |-> 3, read |-> 4, played |-> 5, failed |-> 6]

Items    == UNION {{d[i] : i \in DOMAIN d} : d \in Deliveries}
Messages == {x \in Items : x.kind = "message"}

ASSUME DeliveriesAssumption ==
  \A d \in Deliveries : d \in Seq(Items) /\ \A i \in DOMAIN d :
    \/ d[i].kind = "message" /\ d[i].sentAt \in Times \cup {0}
    \/ d[i].kind = "status" /\ d[i].wamid \in Outbound
ASSUME BoundsAssumption ==
  Times \subseteq Nat \ {0} /\ ItemsMax \in Nat \ {0} /\ MaxFaults \in Nat /\ MaxToggles \in Nat

VARIABLES
  recording,  \* the workspace records what a channel delivers
  step,       \* per request: "idle", "ingesting", "resolved", "announcing"
  serving,    \* per request, the delivery it serves
  left,       \* per request, the items it has still to ingest
  taken,      \* per request, the items it set out to ingest
  settled,    \* deliveries Meta heard a 200 for
  stored,     \* inbound messages in the database
  receivedAt, \* per inbound message, its sent_at column; 0 when it has no row
  sending,    \* per outbound message: "new", "sent", "stored", "lost"
  status,     \* per outbound message, its status column; "none" for NULL
  sentAt,     \* per outbound message, its sent_at column; 0 when it has no row
  activity,   \* the conversation's last activity; 0 when there is no conversation
  published,  \* per inbound message, its whatsapp.message.received events
  faults, toggles

\* History, read by no action's guard.
VARIABLES
  answered,  \* items of deliveries answered 200 by a request that set out to ingest them
  cut,       \* messages stored by a request that ended before announcing them
  again,     \* times the clock gave redeliveries of stored messages
  applied    \* per outbound message, the ranked statuses ingested since it was stored

requestVars == <<step, serving, left, taken>>
sendVars    == <<sending, sentAt>>
bounds      == <<faults, toggles>>
history     == <<answered, cut, again, applied>>
vars == <<recording, requestVars, settled, stored, receivedAt, sendVars, status, activity,
          published, bounds, history>>

NoDelivery == <<>>

---------------------------------------------------------------------------
(* Requests from Meta.                                                     *)

\* parseWebhook: the items a delivery stores, in order, the rest dropped.
Kept(d) == IF Len(d) <= ItemsMax THEN d ELSE SubSeq(d, 1, ItemsMax)

\* Meta reports a status only of a message it accepted.
Postable(d) ==
  \A i \in DOMAIN d : d[i].kind = "status" => sending[d[i].wamid] # "new"

\* A post arrives; a workspace that records no traffic has every item dropped.  A post that
\* fails before its first item changes nothing.
Receive(r, d) ==
  LET kept == IF recording THEN Kept(d) ELSE <<>> IN
  /\ step[r] = "idle"
  /\ d \notin settled
  /\ Postable(d)
  /\ step' = [step EXCEPT ![r] = "ingesting"]
  /\ serving' = [serving EXCEPT ![r] = d]
  /\ left' = [left EXCEPT ![r] = kept]
  /\ taken' = [taken EXCEPT ![r] = kept]
  /\ UNCHANGED <<recording, settled, stored, receivedAt, sendVars, status, activity, published,
                 bounds, history>>

\* The request is over.
Ended(r) ==
  /\ step' = [step EXCEPT ![r] = "idle"]
  /\ serving' = [serving EXCEPT ![r] = NoDelivery]
  /\ left' = [left EXCEPT ![r] = <<>>]
  /\ taken' = [taken EXCEPT ![r] = <<>>]

\* The first item is ingested and the next one's turn comes.
Ingested(r) ==
  /\ step' = [step EXCEPT ![r] = "ingesting"]
  /\ left' = [left EXCEPT ![r] = Tail(@)]
  /\ UNCHANGED <<serving, taken>>

ResolveSender(r) ==
  /\ step[r] = "ingesting"
  /\ left[r] # <<>>
  /\ Head(left[r]).kind = "message"
  /\ step' = [step EXCEPT ![r] = "resolved"]
  /\ UNCHANGED <<recording, serving, left, taken, settled, stored, receivedAt, sendVars, status,
                 activity,
                 published, bounds, history>>

\* A slip the runs must notice: the last write's time instead of the latest.
RaisedTo(t) == t

\* GREATEST(last_activity_at, t)
Raised(t) == IF activity < t THEN t ELSE activity

\* A slip the runs must notice: a redelivery taken for an arrival.
ArrivesAgain(m) == TRUE

\* ON CONFLICT (tenant_id, external_id) DO NOTHING returned a row.
Arrives(m) == m \notin stored

\* parseTimestamp: the time a message carries, or the clock's when none parses.  The clock is
\* read as the delivery arrives; nothing looks at the reading before the message is stored.
SentAt(m) == IF m.sentAt = 0 THEN Times ELSE {m.sentAt}

\* One transaction that holds the conversation's row: the conversation is raised to the time
\* this delivery of m carries, and a row that is there already keeps the time it has.
Upsert(m) ==
  \E t \in SentAt(m) :
    /\ activity' = Raised(t)
    /\ stored' = stored \cup {m}
    /\ receivedAt' = IF m \in stored THEN receivedAt ELSE [receivedAt EXCEPT ![m] = t]
    /\ again' = IF m \in stored /\ m.sentAt = 0 THEN again \cup {t} ELSE again

\* A slip the runs must notice: a redelivery ends its request with an error.
PersistOrConflict(r) ==
  LET m == Head(left[r]) IN
  /\ step[r] = "resolved"
  /\ IF m \in stored
       THEN Ended(r) /\ UNCHANGED <<stored, receivedAt, activity, again>>
       ELSE /\ Upsert(m)
            /\ step' = [step EXCEPT ![r] = "announcing"]
            /\ UNCHANGED <<serving, left, taken>>
  /\ UNCHANGED <<recording, settled, sendVars, status, published, bounds, answered, cut, applied>>

\* persistInbound, in one transaction.
Persist(r) ==
  LET m == Head(left[r]) IN
  /\ step[r] = "resolved"
  /\ Upsert(m)
  /\ IF Arrives(m)
       THEN step' = [step EXCEPT ![r] = "announcing"] /\ UNCHANGED <<serving, left, taken>>
       ELSE Ingested(r)
  /\ UNCHANGED <<recording, settled, sendVars, status, published, bounds, answered, cut, applied>>

\* The transaction commits and its request does not hear of it.
PersistUnheard(r) ==
  LET m == Head(left[r]) IN
  /\ step[r] = "resolved"
  /\ faults < MaxFaults
  /\ faults' = faults + 1
  /\ Upsert(m)
  /\ cut' = IF Arrives(m) THEN cut \cup {m} ELSE cut
  /\ Ended(r)
  /\ UNCHANGED <<recording, settled, sendVars, status, published, toggles, answered, applied>>

\* Subscribers are told and the event is published.
Announce(r) ==
  LET m == Head(left[r]) IN
  /\ step[r] = "announcing"
  /\ published' = [published EXCEPT ![m] = @ + 1]
  /\ Ingested(r)
  /\ UNCHANGED <<recording, settled, stored, receivedAt, sendVars, status, activity, bounds,
                 history>>

\* A slip the runs must notice: whatever arrives last wins.
AdvancesAlways(u) == sending[u.wamid] = "stored" /\ u.status \in DOMAIN statusRanks

\* The row a status moves exists and is behind it.
Advances(u) ==
  /\ sending[u.wamid] = "stored"
  /\ u.status \in DOMAIN statusRanks
  /\ status[u.wamid] # "none" => statusRanks[u.status] > statusRanks[status[u.wamid]]

ApplyStatus(r) ==
  LET u == Head(left[r]) IN
  /\ step[r] = "ingesting"
  /\ left[r] # <<>>
  /\ u.kind = "status"
  /\ status' = IF Advances(u) THEN [status EXCEPT ![u.wamid] = u.status] ELSE status
  /\ applied' = IF sending[u.wamid] = "stored" /\ u.status \in DOMAIN statusRanks
                  THEN [applied EXCEPT ![u.wamid] = @ \cup {u.status}] ELSE applied
  /\ Ingested(r)
  /\ UNCHANGED <<recording, settled, stored, receivedAt, sendVars, activity, published, bounds,
                 answered, cut, again>>

\* Every item is ingested: 200, heard by Meta or not.
Answer(r, heard) ==
  /\ step[r] = "ingesting"
  /\ left[r] = <<>>
  /\ heard \/ faults < MaxFaults
  /\ settled' = IF heard THEN settled \cup {serving[r]} ELSE settled
  /\ faults' = IF heard THEN faults ELSE faults + 1
  /\ answered' = answered \cup {taken[r][i] : i \in DOMAIN taken[r]}
  /\ Ended(r)
  /\ UNCHANGED <<recording, stored, receivedAt, sendVars, status, activity, published, toggles,
                 cut, again, applied>>

\* A slip the runs must notice: a failed item is logged and the next one's turn comes.
FailsSilently(r) ==
  /\ step[r] \in {"ingesting", "resolved"}
  /\ left[r] # <<>>
  /\ faults < MaxFaults
  /\ faults' = faults + 1
  /\ Ingested(r)
  /\ UNCHANGED <<recording, settled, stored, receivedAt, sendVars, status, activity, published,
                 toggles, history>>

\* The sender's or the item's query fails: 500, and the items left wait for Meta to try again.
Fails(r) ==
  /\ step[r] \in {"ingesting", "resolved"}
  /\ left[r] # <<>>
  /\ faults < MaxFaults
  /\ faults' = faults + 1
  /\ Ended(r)
  /\ UNCHANGED <<recording, settled, stored, receivedAt, sendVars, status, activity, published,
                 toggles, history>>

\* The process dies, or Meta hangs up and the publisher's context with it, before the event.
Cut(r) ==
  /\ step[r] = "announcing"
  /\ faults < MaxFaults
  /\ faults' = faults + 1
  /\ cut' = cut \cup {Head(left[r])}
  /\ Ended(r)
  /\ UNCHANGED <<recording, settled, stored, receivedAt, sendVars, status, activity, published,
                 toggles,
                 answered, again, applied>>

---------------------------------------------------------------------------
(* People.                                                                 *)

\* sendText: Meta accepts the message; a rejection changes nothing.
SendText(o) ==
  /\ sending[o] = "new"
  /\ activity # 0
  /\ sending' = [sending EXCEPT ![o] = "sent"]
  /\ UNCHANGED <<recording, requestVars, settled, stored, receivedAt, status, sentAt, activity,
                 published,
                 bounds, history>>

\* appendOutboundMessage
AppendOutbound(o) ==
  /\ sending[o] = "sent"
  /\ sending' = [sending EXCEPT ![o] = "stored"]
  /\ \E t \in Times :
       /\ sentAt' = [sentAt EXCEPT ![o] = t]
       /\ activity' = Raised(t)
  /\ UNCHANGED <<recording, requestVars, settled, stored, receivedAt, status, published, bounds,
                 history>>

\* The insert fails or its process dies: Meta has the message and no row says so.
AppendOutboundFails(o) ==
  /\ sending[o] = "sent"
  /\ faults < MaxFaults
  /\ faults' = faults + 1
  /\ sending' = [sending EXCEPT ![o] = "lost"]
  /\ UNCHANGED <<recording, requestVars, settled, stored, receivedAt, status, sentAt, activity,
                 published,
                 toggles, history>>

\* The workspace is closed to traffic, or opened again.
Toggle ==
  /\ toggles < MaxToggles
  /\ toggles' = toggles + 1
  /\ recording' = ~recording
  /\ UNCHANGED <<requestVars, settled, stored, receivedAt, sendVars, status, activity, published,
                 faults, history>>

---------------------------------------------------------------------------
Init ==
  /\ recording = TRUE
  /\ step = [r \in Requests |-> "idle"]
  /\ serving = [r \in Requests |-> NoDelivery]
  /\ left = [r \in Requests |-> <<>>]
  /\ taken = [r \in Requests |-> <<>>]
  /\ settled = {} /\ stored = {}
  /\ receivedAt = [m \in Messages |-> 0]
  /\ sending = [o \in Outbound |-> "new"]
  /\ status = [o \in Outbound |-> "none"]
  /\ sentAt = [o \in Outbound |-> 0]
  /\ activity = 0
  /\ published = [m \in Messages |-> 0]
  /\ faults = 0 /\ toggles = 0
  /\ answered = {} /\ cut = {} /\ again = {}
  /\ applied = [o \in Outbound |-> {}]

Serve(r) ==
  \/ ResolveSender(r) \/ Persist(r) \/ PersistUnheard(r) \/ Announce(r)
  \/ ApplyStatus(r)
  \/ \E heard \in BOOLEAN : Answer(r, heard)
  \/ Fails(r) \/ Cut(r)

Post(d) == \E r \in Requests : Receive(r, d)

Next ==
  \/ \E d \in Deliveries : Post(d)
  \/ \E r \in Requests : Serve(r)
  \/ \E o \in Outbound : SendText(o) \/ AppendOutbound(o) \/ AppendOutboundFails(o)
  \/ Toggle

\* A request runs on, and Meta posts a delivery until it hears a 200.
Fairness ==
  /\ \A r \in Requests : WF_vars(Serve(r))
  /\ \A d \in Deliveries : WF_vars(Post(d))

Spec     == Init /\ [][Next]_vars
FairSpec == Spec /\ Fairness

---------------------------------------------------------------------------
(* Properties.                                                             *)

TypeOK ==
  /\ recording \in BOOLEAN
  /\ step \in [Requests -> {"idle", "ingesting", "resolved", "announcing"}]
  /\ serving \in [Requests -> Deliveries \cup {NoDelivery}]
  /\ left \in [Requests -> Seq(Items)] /\ taken \in [Requests -> Seq(Items)]
  /\ \A r \in Requests :
       /\ Len(left[r]) <= Len(taken[r]) /\ Len(taken[r]) <= ItemsMax
       /\ step[r] \in {"resolved", "announcing"} =>
            left[r] # <<>> /\ Head(left[r]) \in Messages
  /\ settled \subseteq Deliveries /\ stored \subseteq Messages
  /\ receivedAt \in [Messages -> Times \cup {0}]
  /\ sending \in [Outbound -> {"new", "sent", "stored", "lost"}]
  /\ status \in [Outbound -> DOMAIN statusRanks \cup {"none"}]
  /\ sentAt \in [Outbound -> Times \cup {0}] /\ activity \in Times \cup {0}
  /\ published \in [Messages -> Nat]
  /\ faults \in 0..MaxFaults /\ toggles \in 0..MaxToggles
  /\ answered \subseteq Items /\ cut \subseteq Messages /\ again \subseteq Times
  /\ applied \in [Outbound -> SUBSET DOMAIN statusRanks]

\* A 200 says that every message the request set out to store is stored, by it or before it.
AnsweredStored == answered \cap Messages \subseteq stored

\* However often and however concurrently a message is delivered, its arrival is announced
\* once; never only when the request that stored it ended before it could.
AnnouncedOnce ==
  \A m \in Messages :
    /\ published[m] <= 1
    /\ published[m] = 1 => m \in stored
    /\ m \in stored /\ published[m] = 0 =>
         m \in cut \/ \E r \in Requests : step[r] = "announcing" /\ Head(left[r]) = m

\* A stored message's status is the furthest of all that arrived since it was stored, in
\* whatever order they came.
StatusFurthest ==
  \A o \in Outbound :
    /\ status[o] = "none" <=> applied[o] = {}
    /\ status[o] # "none" =>
         /\ status[o] \in applied[o]
         /\ \A s \in applied[o] : statusRanks[s] <= statusRanks[status[o]]

\* The conversation's last activity is the latest of the times of its rows, sent or received,
\* in whatever order they are stored and however often, and of nothing else but the readings
\* redeliveries of messages without a time were given: those move it past their rows.
ActivityLatest ==
  LET times == {receivedAt[m] : m \in stored} \cup again
                 \cup {sentAt[o] : o \in {p \in Outbound : sentAt[p] # 0}}
  IN  IF times = {} THEN activity = 0
      ELSE activity \in times /\ \A t \in times : t <= activity

\* Every delivery Meta posts is answered 200 in the end, a redelivery of what was already
\* ingested included.
EventuallySettled ==
  \A d \in Deliveries : (\E r \in Requests : serving[r] = d) ~> d \in settled

=============================================================================
