---------------------------- MODULE WhatsAppProofs ----------------------------
(***************************************************************************)
(* The two components of the WhatsApp plugin.  The messages of             *)
(* WhatsAppMessages, for any deliveries, requests, people's messages and   *)
(* bounds: what a 200 promises, how often an arrival is announced, and     *)
(* what statuses and activity come to in whatever order things are stored. *)
(* The media of MediaFetcher, for any finite set of rows, any fetchers and *)
(* workspaces: which rows a sweep leaves alone.                            *)
(***************************************************************************)
EXTENDS WhatsAppMessages, MediaFetcher, FiniteSetTheorems, SequenceTheorems, TLAPS

Elems(s) == {s[i] : i \in DOMAIN s}

\* A request at work serves a delivery.
Serving == \A r \in Requests : step[r] # "idle" => serving[r] \in Deliveries

\* A message a request set out to store is stored or still to ingest.
Carried ==
  \A r \in Requests : Elems(taken[r]) \cap Messages \subseteq stored \cup Elems(left[r])

\* A message about to be announced is stored and was not announced, and one
\* request alone is at it.
Announcing(r, m) == step[r] = "announcing" /\ Head(left[r]) = m

Unannounced ==
  \A r \in Requests : \A m \in Messages :
    Announcing(r, m) =>
      /\ m \in stored /\ published[m] = 0
      /\ \A q \in Requests \ {r} : ~Announcing(q, m)

\* Without a row there is no time; with one, a message has one it could carry.
Timed ==
  /\ \A o \in Outbound : sending[o] \in {"new", "sent"} => sentAt[o] = 0
  /\ \A m \in stored : receivedAt[m] \in SentAt(m)

IInv ==
  /\ TypeOK /\ Serving /\ Carried /\ AnsweredStored
  /\ Unannounced /\ AnnouncedOnce
  /\ StatusFurthest /\ Timed /\ ActivityLatest

---------------------------------------------------------------------------
(* Sequences of items.                                                     *)

\* An item is a message, with its time, or a status of a sent one.
LEMMA ItemKinds ==
  \A x \in Items :
    \/ x.kind = "message" /\ x.sentAt \in Times \cup {0} /\ x \in Messages
    \/ x.kind = "status" /\ x.wamid \in Outbound /\ x \notin Messages
<1> SUFFICES ASSUME NEW x \in Items
             PROVE  \/ x.kind = "message" /\ x.sentAt \in Times \cup {0} /\ x \in Messages
                    \/ x.kind = "status" /\ x.wamid \in Outbound /\ x \notin Messages
  OBVIOUS
<1>1. PICK d \in Deliveries : \E i \in DOMAIN d : x = d[i]
  BY DEF Items
<1> QED
  BY <1>1, DeliveriesAssumption DEF Messages

\* The items of a sequence are those of its head and of its tail.
LEMMA HeadThenTail ==
  ASSUME NEW s \in Seq(Items), s # <<>>
  PROVE  /\ Head(s) \in Items /\ Tail(s) \in Seq(Items) /\ Len(Tail(s)) = Len(s) - 1
         /\ Elems(s) = {Head(s)} \cup Elems(Tail(s))
<1>1. /\ Head(s) \in Items /\ Tail(s) \in Seq(Items)
      /\ Len(Tail(s)) = Len(s) - 1
      /\ \A i \in 1..Len(Tail(s)) : Tail(s)[i] = s[i + 1]
  BY HeadTailProperties
<1>2. Len(s) \in Nat /\ DOMAIN s = 1..Len(s) /\ Head(s) = s[1] /\ Len(s) # 0
  BY EmptySeq, LenProperties
<1>3. DOMAIN Tail(s) = 1..(Len(s) - 1)
  BY <1>1, LenProperties
<1>4. \A i \in DOMAIN s : i = 1 \/ (i - 1 \in DOMAIN Tail(s) /\ Tail(s)[i - 1] = s[i])
  BY <1>1, <1>2, <1>3
<1>5. \A i \in DOMAIN Tail(s) : i + 1 \in DOMAIN s /\ Tail(s)[i] = s[i + 1]
  BY <1>1, <1>2, <1>3
<1>6. 1 \in DOMAIN s
  BY <1>2
<1>7. Elems(s) \subseteq {Head(s)} \cup Elems(Tail(s))
  BY <1>2, <1>4 DEF Elems
<1>8. {Head(s)} \cup Elems(Tail(s)) \subseteq Elems(s)
  BY <1>2, <1>5, <1>6 DEF Elems
<1> QED
  BY <1>1, <1>7, <1>8

\* A sequence of items holds items.
LEMMA ElemsItems == \A s \in Seq(Items) : Elems(s) \subseteq Items /\ Len(s) \in Nat
<1> SUFFICES ASSUME NEW s \in Seq(Items) PROVE Elems(s) \subseteq Items /\ Len(s) \in Nat
  OBVIOUS
<1>1. Len(s) \in Nat /\ \A i \in DOMAIN s : s[i] \in Items
  BY LenProperties, ElementOfSeq
<1> QED
  BY <1>1 DEF Elems

\* The empty sequence holds none.
LEMMA Empty == <<>> \in Seq(Items) /\ Len(<<>>) = 0 /\ Elems(<<>>) = {}
<1>1. <<>> \in Seq(Items) /\ Len(<<>>) = 0
  BY EmptySeq
<1>2. Elems(<<>>) = {}
  BY DEF Elems
<1> QED
  BY <1>1, <1>2

\* What of a delivery is kept under the limit is a sequence of items.
LEMMA KeptSome ==
  ASSUME NEW d \in Deliveries
  PROVE  Kept(d) \in Seq(Items) /\ Len(Kept(d)) <= ItemsMax
<1>1. d \in Seq(Items) /\ Len(d) \in Nat /\ ItemsMax \in Nat \ {0}
  BY DeliveriesAssumption, BoundsAssumption, LenProperties
<1>2. CASE Len(d) <= ItemsMax
  BY <1>1, <1>2 DEF Kept
<1>3. CASE ~(Len(d) <= ItemsMax)
  <2>1. SubSeq(d, 1, ItemsMax) \in Seq(Items) /\ Len(SubSeq(d, 1, ItemsMax)) = ItemsMax
    BY <1>1, <1>3, SubSeqProperties
  <2> QED
    BY <1>1, <1>3, <2>1 DEF Kept
<1> QED
  BY <1>2, <1>3

---------------------------------------------------------------------------
(* Requests, one step of one of them at a time.                            *)

\* The variables of requests have their types, and a request its delivery.
RequestTypes ==
  /\ step \in [Requests -> {"idle", "ingesting", "resolved", "announcing"}]
  /\ serving \in [Requests -> Deliveries \cup {NoDelivery}]
  /\ left \in [Requests -> Seq(Items)] /\ taken \in [Requests -> Seq(Items)]
  /\ \A r \in Requests :
       /\ Len(left[r]) <= Len(taken[r]) /\ Len(taken[r]) <= ItemsMax
       /\ step[r] \in {"resolved", "announcing"} => left[r] # <<>> /\ Head(left[r]) \in Messages
  /\ Serving

\* The item a request is at.
LEMMA CurrentItem ==
  ASSUME RequestTypes, NEW r \in Requests, left[r] # <<>>
  PROVE  /\ Head(left[r]) \in Items /\ Tail(left[r]) \in Seq(Items)
         /\ Len(Tail(left[r])) = Len(left[r]) - 1 /\ Len(left[r]) \in Nat /\ Len(taken[r]) \in Nat
         /\ Elems(left[r]) = {Head(left[r])} \cup Elems(Tail(left[r]))
<1>1. left[r] \in Seq(Items) /\ taken[r] \in Seq(Items)
  BY DEF RequestTypes
<1> QED
  BY <1>1, HeadThenTail, LenProperties

\* A request that ends gives its delivery back and changes no other.
LEMMA EndedTypes ==
  ASSUME RequestTypes, NEW r \in Requests, Ended(r)
  PROVE  /\ RequestTypes'
         /\ step'[r] = "idle" /\ left'[r] = <<>> /\ taken'[r] = <<>>
         /\ \A q \in Requests \ {r} : step'[q] = step[q] /\ left'[q] = left[q] /\ taken'[q] = taken[q]
<1>1. ItemsMax \in Nat
  BY BoundsAssumption
<1>2. /\ step' = [step EXCEPT ![r] = "idle"] /\ serving' = [serving EXCEPT ![r] = NoDelivery]
      /\ left' = [left EXCEPT ![r] = <<>>] /\ taken' = [taken EXCEPT ![r] = <<>>]
  BY DEF Ended
<1> QED
  BY <1>1, <1>2, Empty DEF RequestTypes, Serving

\* A request through with an item goes on to those behind it.
LEMMA IngestedTypes ==
  ASSUME RequestTypes, NEW r \in Requests, left[r] # <<>>, step[r] # "idle", Ingested(r)
  PROVE  /\ RequestTypes'
         /\ step'[r] = "ingesting" /\ left'[r] = Tail(left[r]) /\ taken' = taken
         /\ \A q \in Requests \ {r} : step'[q] = step[q] /\ left'[q] = left[q]
<1>1. /\ Tail(left[r]) \in Seq(Items) /\ Len(Tail(left[r])) = Len(left[r]) - 1
      /\ Len(left[r]) \in Nat /\ Len(taken[r]) \in Nat
  BY CurrentItem
<1>2. /\ step' = [step EXCEPT ![r] = "ingesting"] /\ left' = [left EXCEPT ![r] = Tail(left[r])]
      /\ serving' = serving /\ taken' = taken
  BY DEF Ingested
<1>3. Len(left'[r]) <= Len(taken'[r])
  BY <1>1, <1>2 DEF RequestTypes
<1> QED
  BY <1>1, <1>2, <1>3 DEF RequestTypes, Serving

\* A request that goes on with the item at hand keeps its types.
LEMMA MovedTypes ==
  ASSUME RequestTypes, NEW r \in Requests, step[r] # "idle",
         NEW p \in {"ingesting", "resolved", "announcing"},
         p \in {"resolved", "announcing"} => left[r] # <<>> /\ Head(left[r]) \in Messages,
         step' = [step EXCEPT ![r] = p], UNCHANGED <<serving, left, taken>>
  PROVE  RequestTypes'
BY DEF RequestTypes, Serving

\* Every step keeps the requests' variables in their types.
LEMMA RequestStep == RequestTypes /\ [Next]_vars => RequestTypes'
<1> SUFFICES ASSUME RequestTypes, [Next]_vars PROVE RequestTypes'
  OBVIOUS
<1>1. ASSUME NEW d \in Deliveries, NEW r \in Requests, Receive(r, d) PROVE RequestTypes'
  <2>1. PICK kept \in Seq(Items) :
          /\ Len(kept) <= ItemsMax /\ Len(kept) \in Nat
          /\ left' = [left EXCEPT ![r] = kept] /\ taken' = [taken EXCEPT ![r] = kept]
    <3>1. ItemsMax \in Nat
      BY BoundsAssumption
    <3>2. Kept(d) \in Seq(Items) /\ Len(Kept(d)) <= ItemsMax /\ Len(Kept(d)) \in Nat
      BY KeptSome, ElemsItems
    <3>3. <<>> \in Seq(Items) /\ Len(<<>>) <= ItemsMax /\ Len(<<>>) \in Nat
      BY <3>1, Empty
    <3> DEFINE kept == IF recording THEN Kept(d) ELSE <<>>
    <3>4. left' = [left EXCEPT ![r] = kept] /\ taken' = [taken EXCEPT ![r] = kept]
      BY <1>1 DEF Receive
    <3>5. kept \in Seq(Items) /\ Len(kept) <= ItemsMax /\ Len(kept) \in Nat
      BY <3>2, <3>3
    <3> QED
      BY <3>4, <3>5
  <2>2. step' = [step EXCEPT ![r] = "ingesting"] /\ serving' = [serving EXCEPT ![r] = d]
    BY <1>1 DEF Receive
  <2> QED
    BY <2>1, <2>2 DEF RequestTypes, Serving
<1>2. ASSUME NEW r \in Requests, ResolveSender(r) PROVE RequestTypes'
  <2>1. left[r] # <<>> /\ Head(left[r]) \in Items /\ Head(left[r]).kind = "message"
    BY <1>2, CurrentItem DEF ResolveSender
  <2>2. Head(left[r]) \in Messages
    BY <2>1 DEF Messages
  <2> QED
    BY <1>2, <2>1, <2>2, MovedTypes DEF ResolveSender
<1>3. ASSUME NEW r \in Requests, Persist(r) PROVE RequestTypes'
  <2>1. step[r] = "resolved" /\ left[r] # <<>> /\ Head(left[r]) \in Messages
    BY <1>3 DEF Persist, RequestTypes
  <2>2. \/ step' = [step EXCEPT ![r] = "announcing"] /\ UNCHANGED <<serving, left, taken>>
        \/ Ingested(r)
    BY <1>3 DEF Persist
  <2> QED
    BY <2>1, <2>2, MovedTypes, IngestedTypes
<1>4. ASSUME NEW r \in Requests, PersistUnheard(r) \/ Fails(r) \/ Cut(r) PROVE RequestTypes'
  BY <1>4, EndedTypes DEF PersistUnheard, Fails, Cut
<1>5. ASSUME NEW r \in Requests, Announce(r) PROVE RequestTypes'
  <2>1. step[r] = "announcing" /\ left[r] # <<>> /\ Ingested(r)
    BY <1>5 DEF Announce, RequestTypes
  <2> QED
    BY <2>1, IngestedTypes
<1>6. ASSUME NEW r \in Requests, ApplyStatus(r) PROVE RequestTypes'
  BY <1>6, IngestedTypes DEF ApplyStatus
<1>7. ASSUME NEW r \in Requests, NEW heard \in BOOLEAN, Answer(r, heard) PROVE RequestTypes'
  BY <1>7, EndedTypes DEF Answer
<1>8. CASE UNCHANGED requestVars
  BY <1>8 DEF requestVars, RequestTypes, Serving
<1> QED
  BY <1>1, <1>2, <1>3, <1>4, <1>5, <1>6, <1>7, <1>8
     DEF Next, Post, Serve, SendText, AppendOutbound, AppendOutboundFails, Toggle, vars

---------------------------------------------------------------------------
(* What is stored.                                                         *)

Types == TypeOK /\ Serving

\* Every step keeps every variable in its type.
LEMMA TypeStep == Types /\ [Next]_vars => Types'
<1> SUFFICES ASSUME Types, [Next]_vars PROVE Types'
  OBVIOUS
<1>0. RequestTypes /\ RequestTypes'
  <2>1. RequestTypes
    BY DEF Types, TypeOK, RequestTypes
  <2> QED
    BY <2>1, RequestStep
<1> DEFINE Rest ==
      /\ recording \in BOOLEAN
      /\ settled \subseteq Deliveries /\ stored \subseteq Messages
      /\ receivedAt \in [Messages -> Times \cup {0}]
      /\ sending \in [Outbound -> {"new", "sent", "stored", "lost"}]
      /\ status \in [Outbound -> DOMAIN statusRanks \cup {"none"}]
      /\ sentAt \in [Outbound -> Times \cup {0}] /\ activity \in Times \cup {0}
      /\ published \in [Messages -> Nat]
      /\ faults \in 0..MaxFaults /\ toggles \in 0..MaxToggles
      /\ answered \subseteq Items /\ cut \subseteq Messages /\ again \subseteq Times
      /\ applied \in [Outbound -> SUBSET DOMAIN statusRanks]
<1>1. Rest
  BY DEF Types, TypeOK
<1>2. /\ \A r \in Requests : step[r] \in {"resolved", "announcing"} => Head(left[r]) \in Messages
      /\ \A m \in Messages : SentAt(m) \subseteq Times
      /\ MaxFaults \in Nat /\ MaxToggles \in Nat
      /\ \A r \in Requests : Elems(taken[r]) \subseteq Items
  BY <1>0, ItemKinds, BoundsAssumption, ElemsItems DEF RequestTypes, Messages, SentAt
<1>3. ASSUME NEW r \in Requests, Persist(r) \/ PersistUnheard(r) PROVE Rest'
  <2>1. Head(left[r]) \in Messages
    BY <1>2, <1>3 DEF Persist, PersistUnheard
  <2>2. PICK t \in SentAt(Head(left[r])) :
          /\ activity' = Raised(t) /\ stored' = stored \cup {Head(left[r])}
          /\ receivedAt' \in {receivedAt, [receivedAt EXCEPT ![Head(left[r])] = t]}
          /\ again' \in {again, again \cup {t}}
    BY <1>3 DEF Persist, PersistUnheard, Upsert
  <2>3. t \in Times
    BY <1>2, <2>1
  <2>4. /\ activity' \in Times \cup {0} /\ stored' \subseteq Messages /\ again' \subseteq Times
        /\ receivedAt' \in [Messages -> Times \cup {0}]
    BY <1>1, <2>1, <2>2, <2>3 DEF Raised
  <2> QED
    BY <1>1, <1>2, <1>3, <2>1, <2>4 DEF Persist, PersistUnheard, sendVars, bounds
<1>4. ASSUME NEW r \in Requests, Announce(r) PROVE Rest'
  <2>1. Head(left[r]) \in Messages
    BY <1>2, <1>4 DEF Announce
  <2>2. published' \in [Messages -> Nat]
    BY <1>1, <1>4, <2>1 DEF Announce
  <2> QED
    BY <1>1, <1>4, <2>2 DEF Announce, sendVars, bounds, history
<1>5. ASSUME NEW r \in Requests, ApplyStatus(r) PROVE Rest'
  <2> DEFINE u == Head(left[r])
  <2>1. u \in Items /\ u.kind = "status"
    BY <1>0, <1>5, CurrentItem DEF ApplyStatus
  <2>2. u.wamid \in Outbound
    BY <2>1, ItemKinds
  <2>3. status' \in [Outbound -> DOMAIN statusRanks \cup {"none"}]
    BY <1>1, <1>5, <2>2 DEF ApplyStatus, Advances
  <2>4. applied' \in [Outbound -> SUBSET DOMAIN statusRanks]
    BY <1>1, <1>5, <2>2 DEF ApplyStatus
  <2> QED
    BY <1>1, <1>5, <2>3, <2>4 DEF ApplyStatus, sendVars, bounds
<1>6. ASSUME NEW r \in Requests, NEW heard \in BOOLEAN, Answer(r, heard) PROVE Rest'
  <2>1. serving[r] \in Deliveries
    BY <1>0, <1>6 DEF Answer, RequestTypes, Serving
  <2>2. {taken[r][i] : i \in DOMAIN taken[r]} \subseteq Items
    BY <1>2 DEF Elems
  <2> QED
    BY <1>1, <1>2, <1>6, <2>1, <2>2 DEF Answer, sendVars
<1>7. ASSUME NEW r \in Requests, Fails(r) \/ Cut(r) PROVE Rest'
  BY <1>1, <1>2, <1>7 DEF Fails, Cut, sendVars, history
<1>8. ASSUME NEW o \in Outbound, SendText(o) \/ AppendOutbound(o) \/ AppendOutboundFails(o)
      PROVE  Rest'
  <2>1. CASE SendText(o) BY <1>1, <2>1 DEF SendText, bounds, history
  <2>2. CASE AppendOutbound(o) BY <1>1, <2>2 DEF AppendOutbound, Raised, bounds, history
  <2>3. CASE AppendOutboundFails(o) BY <1>1, <1>2, <2>3 DEF AppendOutboundFails, history
  <2> QED
    BY <1>8, <2>1, <2>2, <2>3
<1>9. ASSUME Toggle PROVE Rest'
  BY <1>1, <1>2, <1>9 DEF Toggle, sendVars, history
<1>10. ASSUME UNCHANGED <<recording, settled, stored, receivedAt, sendVars, status, activity,
                         published, bounds, history>>
       PROVE  Rest'
  BY <1>1, <1>10 DEF sendVars, bounds, history
<1>11. Rest'
  BY <1>3, <1>4, <1>5, <1>6, <1>7, <1>8, <1>9, <1>10
     DEF Next, Post, Receive, Serve, ResolveSender, vars
<1> QED
  BY <1>0, <1>11 DEF RequestTypes, Types, TypeOK

\* Messages stored stay stored; the rest says what a step adds.
LEMMA Adds == [Next]_vars => stored \subseteq stored'
BY DEF Next, Post, Receive, Serve, ResolveSender, Persist, PersistUnheard, Upsert, Announce, ApplyStatus,
       Answer, Fails, Cut, SendText, AppendOutbound, AppendOutboundFails, Toggle, vars

\* A message leaves what a request carries by being stored or by the request's end.
LEMMA CarriedStep == Types /\ Unannounced /\ Carried /\ [Next]_vars => Carried'
<1> SUFFICES ASSUME Types, Unannounced, Carried, [Next]_vars PROVE Carried'
  OBVIOUS
<1>0. RequestTypes /\ stored \subseteq stored'
  BY Adds DEF Types, TypeOK, RequestTypes
<1>1. ASSUME NEW r \in Requests, Ended(r) PROVE Carried'
  <2>1. /\ taken'[r] = <<>>
        /\ \A q \in Requests \ {r} : left'[q] = left[q] /\ taken'[q] = taken[q]
    BY <1>0, <1>1, EndedTypes
  <2> QED
    BY <1>0, <2>1, Empty DEF Carried, Elems
<1>2. ASSUME NEW r \in Requests, Ingested(r), step[r] # "idle", left[r] # <<>>,
             Head(left[r]) \in Messages => Head(left[r]) \in stored'
      PROVE  Carried'
  <2>1. /\ taken' = taken /\ left'[r] = Tail(left[r])
        /\ \A q \in Requests \ {r} : left'[q] = left[q]
    BY <1>0, <1>2, IngestedTypes
  <2>2. Elems(left[r]) = {Head(left[r])} \cup Elems(Tail(left[r]))
    BY <1>0, <1>2, CurrentItem
  <2>3. \A q \in Requests : Elems(left[q]) \cap Messages \subseteq stored' \cup Elems(left'[q])
    BY <1>2, <2>1, <2>2
  <2>4. \A q \in Requests : Elems(taken'[q]) \cap Messages \subseteq stored' \cup Elems(left'[q])
    BY <1>0, <2>1, <2>3 DEF Carried
  <2> QED
    BY <2>4 DEF Carried, Elems
<1>3. ASSUME NEW d \in Deliveries, NEW r \in Requests, Receive(r, d) PROVE Carried'
  <2>1. PICK kept : left' = [left EXCEPT ![r] = kept] /\ taken' = [taken EXCEPT ![r] = kept]
    BY <1>3 DEF Receive
  <2>2. left'[r] = taken'[r] /\ \A q \in Requests \ {r} : left'[q] = left[q] /\ taken'[q] = taken[q]
    BY <1>0, <2>1 DEF RequestTypes
  <2> QED
    BY <1>0, <2>2 DEF Carried, Elems
<1>4. ASSUME NEW r \in Requests, Persist(r) PROVE Carried'
  <2>1. step[r] # "idle" /\ left[r] # <<>> /\ Head(left[r]) \in stored'
    BY <1>0, <1>4 DEF Persist, Upsert, RequestTypes
  <2> QED
    BY <1>0, <1>2, <1>4, <2>1 DEF Persist, Carried, Elems
<1>5. ASSUME NEW r \in Requests, Announce(r) PROVE Carried'
  <2>1. step[r] = "announcing" /\ left[r] # <<>> /\ Head(left[r]) \in Messages /\ Ingested(r)
    BY <1>0, <1>5 DEF Announce, RequestTypes
  <2>2. Head(left[r]) \in stored'
    BY <1>0, <2>1 DEF Unannounced, Announcing
  <2> QED
    BY <1>2, <2>1, <2>2
<1>6. ASSUME NEW r \in Requests, ApplyStatus(r) PROVE Carried'
  <2>1. left[r] # <<>> /\ Head(left[r]) \in Items /\ Head(left[r]).kind = "status"
    BY <1>0, <1>6, CurrentItem DEF ApplyStatus
  <2>2. Head(left[r]) \notin Messages
    BY <2>1 DEF Messages
  <2> QED
    BY <1>2, <1>6, <2>1, <2>2 DEF ApplyStatus
<1>7. CASE UNCHANGED <<left, taken>>
  BY <1>0, <1>7 DEF Carried, Elems
<1> QED
  BY <1>1, <1>3, <1>4, <1>5, <1>6, <1>7
     DEF Next, Post, Serve, ResolveSender, PersistUnheard, Answer, Fails, Cut, SendText, AppendOutbound,
         AppendOutboundFails, Toggle, vars, requestVars

\* A delivery is answered when all it carried has been worked off.
LEMMA AnsweredStep == Types /\ Carried /\ AnsweredStored /\ [Next]_vars => AnsweredStored'
<1> SUFFICES ASSUME Types, Carried, AnsweredStored, [Next]_vars PROVE AnsweredStored'
  OBVIOUS
<1>0. stored \subseteq stored'
  BY Adds
<1>1. ASSUME NEW r \in Requests, NEW heard \in BOOLEAN, Answer(r, heard) PROVE AnsweredStored'
  <2>1. left[r] = <<>> /\ answered' = answered \cup Elems(taken[r])
    BY <1>1 DEF Answer, Elems
  <2>2. Elems(taken[r]) \cap Messages \subseteq stored
    BY <2>1, Empty DEF Carried
  <2> QED
    BY <1>0, <2>1, <2>2 DEF AnsweredStored
<1>2. CASE UNCHANGED answered
  BY <1>0, <1>2 DEF AnsweredStored
<1> QED
  BY <1>1, <1>2
     DEF Next, Post, Receive, Serve, ResolveSender, Persist, PersistUnheard, Announce, ApplyStatus,
         Fails, Cut, SendText, AppendOutbound, AppendOutboundFails, Toggle, vars, history

---------------------------------------------------------------------------
(* Announcements.                                                          *)

Announced == Unannounced /\ AnnouncedOnce

\* Steps that announce nothing, store nothing and begin no announcement.
LEMMA AnnouncedAside ==
  ASSUME Announced, UNCHANGED <<published, stored>>, cut \subseteq cut',
         \A r \in Requests : \A m \in Messages : Announcing(r, m)' => Announcing(r, m),
         \A r \in Requests : \A m \in Messages : Announcing(r, m) => Announcing(r, m)' \/ m \in cut'
  PROVE  Announced'
<1>1. Unannounced'
  BY DEF Announced, Unannounced
<1>2. AnnouncedOnce'
  <2> SUFFICES ASSUME NEW m \in Messages
               PROVE  /\ published'[m] <= 1
                      /\ published'[m] = 1 => m \in stored'
                      /\ m \in stored' /\ published'[m] = 0 =>
                           m \in cut' \/ \E r \in Requests : Announcing(r, m)'
    BY DEF AnnouncedOnce, Announcing
  <2> QED
    BY DEF Announced, AnnouncedOnce, Announcing
<1> QED
  BY <1>1, <1>2 DEF Announced

\* A message is announced by the request that stored it, once, before it goes on.
LEMMA AnnouncedStep == Types /\ Announced /\ [Next]_vars => Announced'
<1> SUFFICES ASSUME Types, Announced, [Next]_vars PROVE Announced'
  OBVIOUS
<1>0. /\ RequestTypes /\ published \in [Messages -> Nat] /\ stored \subseteq Messages
      /\ step \in [Requests -> {"idle", "ingesting", "resolved", "announcing"}]
      /\ left \in [Requests -> Seq(Items)]
  BY DEF Types, TypeOK, RequestTypes
<1>1. ASSUME NEW r \in Requests, step[r] # "announcing", step'[r] # "announcing",
             \A q \in Requests \ {r} : step'[q] = step[q] /\ left'[q] = left[q],
             UNCHANGED <<published, stored>>, cut \subseteq cut'
      PROVE  Announced'
  <2>1. \A q \in Requests : \A m \in Messages : Announcing(q, m)' = Announcing(q, m)
    BY <1>1 DEF Announcing
  <2> QED
    BY <1>1, <2>1, AnnouncedAside
<1>2. ASSUME NEW d \in Deliveries, NEW r \in Requests, Receive(r, d) PROVE Announced'
  <2>1. /\ step[r] # "announcing" /\ step'[r] # "announcing"
        /\ \A q \in Requests \ {r} : step'[q] = step[q] /\ left'[q] = left[q]
        /\ UNCHANGED <<published, stored, cut>>
    BY <1>0, <1>2 DEF Receive, history
  <2> QED
    BY <1>1, <2>1
<1>3. ASSUME NEW r \in Requests, ResolveSender(r) PROVE Announced'
  <2>1. /\ step[r] # "announcing" /\ step'[r] # "announcing"
        /\ \A q \in Requests \ {r} : step'[q] = step[q] /\ left'[q] = left[q]
        /\ UNCHANGED <<published, stored, cut>>
    BY <1>0, <1>3 DEF ResolveSender, history
  <2> QED
    BY <1>1, <2>1
\* A message stored: one that is new was announced by nobody.
<1>4. ASSUME NEW r \in Requests, Persist(r) \/ PersistUnheard(r) PROVE Announced'
  <2>0. PICK n \in Messages : n = Head(left[r]) /\ step[r] = "resolved" /\ left[r] # <<>>
    BY <1>0, <1>4 DEF Persist, PersistUnheard, RequestTypes
  <2>1. stored' = stored \cup {n} /\ UNCHANGED published
    BY <1>4, <2>0 DEF Persist, PersistUnheard, Upsert, history
  <2>2. CASE n \in stored
    <3>1. Ingested(r) \/ Ended(r)
      BY <1>4, <2>0, <2>2 DEF Persist, PersistUnheard, Arrives
    <3>2. /\ step'[r] # "announcing" /\ stored' = stored /\ cut' = cut
          /\ \A q \in Requests \ {r} : step'[q] = step[q] /\ left'[q] = left[q]
      BY <1>0, <1>4, <2>0, <2>1, <2>2, <3>1, IngestedTypes, EndedTypes
         DEF Persist, PersistUnheard, Arrives, history
    <3> QED
      BY <1>1, <2>0, <2>1, <3>2
  <2>3. CASE n \notin stored
    <3>0. published[n] = 0 /\ \A q \in Requests : ~Announcing(q, n)
      BY <1>0, <2>0, <2>3 DEF Announced, AnnouncedOnce, Unannounced
    <3>1. \A q \in Requests \ {r} : step'[q] = step[q] /\ left'[q] = left[q]
      BY <1>0, <1>4, <2>0, <2>3, EndedTypes DEF Persist, PersistUnheard, Arrives
    <3>2. \A q \in Requests \ {r} : \A m \in Messages : Announcing(q, m)' = Announcing(q, m)
      BY <3>1 DEF Announcing
    <3>3. \A m \in Messages : Announcing(r, m)' => m = n
      BY <1>0, <1>4, <2>0, <2>3, EndedTypes DEF Announcing, Persist, PersistUnheard, Arrives
    <3>4. Announcing(r, n)' \/ n \in cut'
      BY <1>0, <1>4, <2>0, <2>3 DEF Announcing, Persist, PersistUnheard, Arrives
    <3>5. cut \subseteq cut' /\ \A m \in Messages : ~Announcing(r, m)
      BY <1>4, <2>0 DEF Persist, PersistUnheard, history, Announcing
    <3>6. Unannounced'
      BY <2>0, <2>1, <3>0, <3>2, <3>3 DEF Announced, Unannounced
    <3>7. AnnouncedOnce'
      <4> SUFFICES ASSUME NEW m \in Messages
                   PROVE  /\ published'[m] <= 1
                          /\ published'[m] = 1 => m \in stored'
                          /\ m \in stored' /\ published'[m] = 0 =>
                               m \in cut' \/ \E q \in Requests : Announcing(q, m)'
        BY DEF AnnouncedOnce, Announcing
      <4>1. CASE m = n
        BY <2>1, <3>0, <3>4, <4>1
      <4>2. CASE m # n
        <5>1. m \in stored /\ published[m] = 0 => m \in cut \/ \E q \in Requests : Announcing(q, m)
          BY DEF Announced, AnnouncedOnce, Announcing
        <5> QED
          BY <2>1, <3>2, <3>5, <4>2, <5>1 DEF Announced, AnnouncedOnce
      <4> QED
        BY <4>1, <4>2
    <3> QED
      BY <3>6, <3>7 DEF Announced
  <2> QED
    BY <2>2, <2>3
\* The announcement: this request's message, which nobody else is at.
<1>5. ASSUME NEW r \in Requests, Announce(r) PROVE Announced'
  <2>0. PICK n \in Messages : n = Head(left[r]) /\ step[r] = "announcing" /\ left[r] # <<>> /\ Ingested(r)
    BY <1>0, <1>5 DEF Announce, RequestTypes
  <2>1. /\ Announcing(r, n) /\ n \in stored /\ published[n] = 0
        /\ \A q \in Requests \ {r} : ~Announcing(q, n)
    BY <2>0 DEF Announcing, Announced, Unannounced
  <2>2. /\ published' = [published EXCEPT ![n] = 1] /\ UNCHANGED <<stored, cut>>
    BY <1>5, <2>0, <2>1 DEF Announce, history
  <2>3. /\ step'[r] = "ingesting"
        /\ \A q \in Requests \ {r} : step'[q] = step[q] /\ left'[q] = left[q]
    BY <1>0, <2>0, IngestedTypes
  <2>4. /\ \A m \in Messages : ~Announcing(r, m)'
        /\ \A q \in Requests \ {r} : \A m \in Messages : Announcing(q, m)' = Announcing(q, m)
    BY <2>3 DEF Announcing
  <2>5. Unannounced'
    BY <1>0, <2>0, <2>1, <2>2, <2>4 DEF Announced, Unannounced
  <2>6. AnnouncedOnce'
    <3> SUFFICES ASSUME NEW m \in Messages
                 PROVE  /\ published'[m] <= 1
                        /\ published'[m] = 1 => m \in stored'
                        /\ m \in stored' /\ published'[m] = 0 =>
                             m \in cut' \/ \E q \in Requests : Announcing(q, m)'
      BY DEF AnnouncedOnce, Announcing
    <3>1. CASE m = n
      BY <1>0, <2>0, <2>1, <2>2, <3>1
    <3>2. CASE m # n
      <4>1. m \in stored /\ published[m] = 0 =>
              m \in cut \/ \E q \in Requests \ {r} : Announcing(q, m)
        <5>1. Announcing(r, m) => m = n
          BY <2>0 DEF Announcing
        <5> QED
          BY <3>2, <5>1 DEF Announced, AnnouncedOnce, Announcing
      <4>2. published'[m] = published[m]
        BY <1>0, <2>2, <3>2
      <4> QED
        BY <2>2, <2>4, <4>1, <4>2 DEF Announced, AnnouncedOnce
    <3> QED
      BY <3>1, <3>2
  <2> QED
    BY <2>5, <2>6 DEF Announced
<1>6. ASSUME NEW r \in Requests, ApplyStatus(r) PROVE Announced'
  <2>1. /\ step[r] # "announcing" /\ step[r] # "idle" /\ left[r] # <<>> /\ Ingested(r)
        /\ UNCHANGED <<published, stored, cut>>
    BY <1>6 DEF ApplyStatus
  <2>2. /\ step'[r] # "announcing"
        /\ \A q \in Requests \ {r} : step'[q] = step[q] /\ left'[q] = left[q]
    BY <1>0, <2>1, IngestedTypes
  <2> QED
    BY <1>1, <2>1, <2>2
<1>7. ASSUME NEW r \in Requests, NEW heard \in BOOLEAN, Answer(r, heard) \/ Fails(r) PROVE Announced'
  <2>1. step[r] # "announcing" /\ Ended(r) /\ UNCHANGED <<published, stored, cut>>
    BY <1>7 DEF Answer, Fails, history
  <2>2. /\ step'[r] # "announcing"
        /\ \A q \in Requests \ {r} : step'[q] = step[q] /\ left'[q] = left[q]
    BY <1>0, <2>1, EndedTypes
  <2> QED
    BY <1>1, <2>1, <2>2
<1>8. ASSUME NEW r \in Requests, Cut(r) PROVE Announced'
  <2>1. Ended(r) /\ cut' = cut \cup {Head(left[r])} /\ UNCHANGED <<published, stored>>
    BY <1>8 DEF Cut
  <2>2. /\ step'[r] # "announcing"
        /\ \A q \in Requests \ {r} : step'[q] = step[q] /\ left'[q] = left[q]
    BY <1>0, <2>1, EndedTypes
  <2>3. \A q \in Requests : \A m \in Messages :
          /\ Announcing(q, m)' => Announcing(q, m)
          /\ Announcing(q, m) => Announcing(q, m)' \/ m \in cut'
    BY <2>1, <2>2 DEF Announcing
  <2> QED
    BY <2>1, <2>3, AnnouncedAside
<1>9. CASE UNCHANGED <<requestVars, published, stored, cut>>
  BY <1>9, AnnouncedAside DEF requestVars, Announcing
<1> QED
  BY <1>2, <1>3, <1>4, <1>5, <1>6, <1>7, <1>8, <1>9
     DEF Next, Post, Serve, SendText, AppendOutbound, AppendOutboundFails, Toggle, vars, history

---------------------------------------------------------------------------
(* Statuses and activity.                                                  *)

\* Every status that can be received has a rank, which is a number.
LEMMA Ranks ==
  \A s \in DOMAIN statusRanks : statusRanks[s] \in Nat /\ s # "none"
BY DEF statusRanks

\* A status is written only over one of a lower rank.
LEMMA StatusStep == Types /\ StatusFurthest /\ [Next]_vars => StatusFurthest'
<1> SUFFICES ASSUME Types, StatusFurthest, [Next]_vars PROVE StatusFurthest'
  OBVIOUS
<1>1. ASSUME NEW r \in Requests, ApplyStatus(r) PROVE StatusFurthest'
  <2> DEFINE u == Head(left[r])
  <2>0. /\ status \in [Outbound -> DOMAIN statusRanks \cup {"none"}]
        /\ applied \in [Outbound -> SUBSET DOMAIN statusRanks]
        /\ RequestTypes
    BY DEF Types, TypeOK, RequestTypes
  <2>1. u \in Items /\ u.kind = "status"
    BY <1>1, <2>0, CurrentItem DEF ApplyStatus
  <2>2. PICK o \in Outbound : o = u.wamid
    BY <2>1, ItemKinds
  <2> DEFINE s == u.status
  <2>3. CASE sending[o] = "stored" /\ s \in DOMAIN statusRanks
    <3>1. /\ applied' = [applied EXCEPT ![o] = @ \cup {s}]
          /\ status' = IF status[o] # "none" => statusRanks[s] > statusRanks[status[o]]
                         THEN [status EXCEPT ![o] = s] ELSE status
      BY <1>1, <2>2, <2>3 DEF ApplyStatus, Advances
    <3> HIDE DEF s, u
    <3>2. /\ status[o] = "none" <=> applied[o] = {}
          /\ status[o] # "none" =>
               status[o] \in applied[o] /\ \A t \in applied[o] : statusRanks[t] <= statusRanks[status[o]]
      BY DEF StatusFurthest
    <3>3. applied'[o] = applied[o] \cup {s}
      BY <2>0, <3>1
    <3>4. CASE status[o] = "none"
      <4>1. status'[o] = s /\ applied'[o] = {s}
        BY <2>0, <3>1, <3>2, <3>3, <3>4
      <4> QED
        BY <2>0, <2>3, <3>1, <4>1, Ranks DEF StatusFurthest
    <3>5. CASE status[o] # "none" /\ statusRanks[s] > statusRanks[status[o]]
      <4>1. status' = [status EXCEPT ![o] = s] /\ status[o] \in DOMAIN statusRanks
        BY <2>0, <3>1, <3>5
      <4>2. \A t \in applied[o] \cup {s} : statusRanks[t] <= statusRanks[s]
        BY <2>0, <2>3, <3>2, <3>5, <4>1, Ranks
      <4> QED
        BY <2>0, <2>3, <3>1, <3>3, <4>1, <4>2, Ranks DEF StatusFurthest
    <3>6. CASE status[o] # "none" /\ ~(statusRanks[s] > statusRanks[status[o]])
      <4>1. status' = status /\ status[o] \in DOMAIN statusRanks
        BY <2>0, <3>1, <3>6
      <4>2. \A t \in applied[o] \cup {s} : statusRanks[t] <= statusRanks[status[o]]
        BY <2>0, <2>3, <3>2, <3>6, <4>1, Ranks
      <4> QED
        BY <2>0, <3>1, <3>2, <3>3, <3>6, <4>1, <4>2 DEF StatusFurthest
    <3> QED
      BY <3>4, <3>5, <3>6
  <2>4. CASE ~(sending[o] = "stored" /\ s \in DOMAIN statusRanks)
    <3>1. UNCHANGED <<status, applied>>
      BY <1>1, <2>2, <2>4 DEF ApplyStatus, Advances
    <3> QED
      BY <3>1 DEF StatusFurthest
  <2> QED
    BY <2>3, <2>4
<1>2. CASE UNCHANGED <<status, applied>>
  BY <1>2 DEF StatusFurthest
<1> QED
  BY <1>1, <1>2
     DEF Next, Post, Receive, Serve, ResolveSender, Persist, PersistUnheard, Announce, Answer,
         Fails, Cut, SendText, AppendOutbound, AppendOutboundFails, Toggle, vars, history

\* The times of what is stored, and those redeliveries were given.
StoredTimes ==
  {receivedAt[m] : m \in stored} \cup again
    \cup {sentAt[o] : o \in {p \in Outbound : sentAt[p] # 0}}

LatestOf(times, latest) ==
  IF times = {} THEN latest = 0 ELSE latest \in times /\ \A t \in times : t <= latest

\* Raising the activity to one time more keeps it the latest of them.
LEMMA OneTimeMore ==
  ASSUME NEW S \in SUBSET Times, NEW t \in Times, LatestOf(S, activity)
  PROVE  LatestOf(S \cup {t}, Raised(t))
<1>1. t \in Nat /\ S \subseteq Nat /\ t # 0
  BY BoundsAssumption
<1>2. CASE S = {}
  BY <1>1, <1>2 DEF LatestOf, Raised
<1>3. CASE S # {}
  <2>1. activity \in S /\ \A u \in S : u <= activity
    BY <1>3 DEF LatestOf
  <2>2. Raised(t) \in S \cup {t} /\ \A u \in S \cup {t} : u <= Raised(t)
    BY <1>1, <2>1 DEF Raised
  <2> QED
    BY <2>2 DEF LatestOf
<1> QED
  BY <1>2, <1>3

\* Every message stored, in or out, raises its conversation's activity.
LEMMA ActivityStep ==
  Types /\ Timed /\ ActivityLatest /\ [Next]_vars => Timed' /\ ActivityLatest'
<1> SUFFICES ASSUME Types, Timed, ActivityLatest, [Next]_vars PROVE Timed' /\ ActivityLatest'
  OBVIOUS
<1>0. /\ sending \in [Outbound -> {"new", "sent", "stored", "lost"}]
      /\ sentAt \in [Outbound -> Times \cup {0}] /\ stored \subseteq Messages
      /\ receivedAt \in [Messages -> Times \cup {0}] /\ again \subseteq Times
      /\ \A m \in stored : receivedAt[m] \in Times
      /\ \A m \in Messages : SentAt(m) \subseteq Times
      /\ 0 \notin Times /\ RequestTypes
      /\ LatestOf(StoredTimes, activity)
  <2>1. \A m \in Messages : SentAt(m) \subseteq Times
    BY ItemKinds DEF Messages, SentAt
  <2> QED
    BY <2>1, BoundsAssumption
       DEF Types, TypeOK, RequestTypes, Timed, ActivityLatest, LatestOf, StoredTimes
<1>1. StoredTimes \in SUBSET Times
  BY <1>0 DEF StoredTimes
<1>2. ASSUME Timed', LatestOf(StoredTimes', activity') PROVE Timed' /\ ActivityLatest'
  BY <1>2 DEF ActivityLatest, LatestOf, StoredTimes
<1>3. ASSUME NEW r \in Requests, Persist(r) \/ PersistUnheard(r)
      PROVE  Timed' /\ ActivityLatest'
  <2>1. PICK m \in Messages : m = Head(left[r])
    BY <1>0, <1>3 DEF Persist, PersistUnheard, RequestTypes
  <2>2. PICK t \in SentAt(m) :
          /\ activity' = Raised(t) /\ stored' = stored \cup {m}
          /\ receivedAt' = IF m \in stored THEN receivedAt ELSE [receivedAt EXCEPT ![m] = t]
          /\ again' = IF m \in stored /\ m.sentAt = 0 THEN again \cup {t} ELSE again
    BY <1>3, <2>1 DEF Persist, PersistUnheard, Upsert
  <2>3. t \in Times /\ UNCHANGED <<sending, sentAt>>
    BY <1>0, <1>3, <2>1 DEF Persist, PersistUnheard, sendVars
  \* A message that is new brings its time with its row.
  <2>4. CASE m \notin stored
    <3>1. \A n \in stored : receivedAt'[n] = receivedAt[n]
      BY <1>0, <2>1, <2>2, <2>4
    <3>2. receivedAt'[m] = t /\ again' = again
      BY <1>0, <2>1, <2>2, <2>4
    <3>3. StoredTimes' = StoredTimes \cup {t}
      BY <2>2, <2>3, <3>1, <3>2 DEF StoredTimes
    <3>4. Timed'
      BY <2>2, <2>3, <3>1, <3>2 DEF Timed, SentAt
    <3> QED
      BY <1>0, <1>1, <1>2, <2>2, <2>3, <3>3, <3>4, OneTimeMore
  \* One that is stored brings the time of its row, or the clock's.
  <2>5. CASE m \in stored
    <3>1. UNCHANGED <<stored, receivedAt>>
      BY <2>2, <2>5
    <3>2. t \in StoredTimes \cup again'
      <4>1. CASE m.sentAt = 0
        BY <2>2, <2>5, <4>1
      <4>2. CASE m.sentAt # 0
        BY <2>2, <2>5, <4>2 DEF Timed, SentAt, StoredTimes
      <4> QED
        BY <4>1, <4>2
    <3>3. StoredTimes' = StoredTimes \cup {t}
      BY <2>2, <2>3, <3>1, <3>2 DEF StoredTimes
    <3>4. Timed'
      BY <2>3, <3>1 DEF Timed, SentAt
    <3> QED
      BY <1>0, <1>1, <1>2, <2>2, <2>3, <3>3, <3>4, OneTimeMore
  <2> QED
    BY <2>4, <2>5
<1>4. ASSUME NEW o \in Outbound, AppendOutbound(o) PROVE Timed' /\ ActivityLatest'
  <2>1. PICK t \in Times :
          /\ sentAt' = [sentAt EXCEPT ![o] = t] /\ activity' = Raised(t)
          /\ sending[o] = "sent" /\ sending' = [sending EXCEPT ![o] = "stored"]
          /\ UNCHANGED <<stored, receivedAt, again>>
    BY <1>4 DEF AppendOutbound, history
  <2>2. sentAt[o] = 0
    BY <2>1 DEF Timed
  <2>3. StoredTimes' = StoredTimes \cup {t}
    <3>1. {p \in Outbound : sentAt'[p] # 0} = {p \in Outbound : sentAt[p] # 0} \cup {o}
      BY <1>0, <2>1
    <3>2. {sentAt'[p] : p \in {q \in Outbound : sentAt'[q] # 0}}
            = {sentAt[p] : p \in {q \in Outbound : sentAt[q] # 0}} \cup {t}
      BY <1>0, <2>1, <2>2, <3>1
    <3> QED
      BY <2>1, <3>2 DEF StoredTimes
  <2>4. LatestOf(StoredTimes', activity')
    BY <1>0, <1>1, <2>1, <2>3, OneTimeMore
  <2>5. Timed'
    BY <1>0, <2>1 DEF Timed
  <2> QED
    BY <1>2, <2>4, <2>5
<1>5. CASE UNCHANGED <<stored, receivedAt, again, sentAt, activity>> /\ \A o \in Outbound :
             sending'[o] \in {"new", "sent"} => sending[o] \in {"new", "sent"}
  BY <1>0, <1>5 DEF Timed, ActivityLatest
<1>6. ASSUME NEW o \in Outbound, SendText(o) \/ AppendOutboundFails(o)
      PROVE  /\ UNCHANGED <<stored, receivedAt, again, sentAt, activity>>
             /\ \A p \in Outbound : sending'[p] \in {"new", "sent"} => sending[p] \in {"new", "sent"}
  BY <1>0, <1>6 DEF SendText, AppendOutboundFails, history
<1> QED
  BY <1>3, <1>4, <1>5, <1>6
     DEF Next, Post, Receive, Serve, ResolveSender, Announce, ApplyStatus, Answer, Fails, Cut, Toggle,
         vars, sendVars, history

---------------------------------------------------------------------------
\* Nothing is delivered, stored or sent yet.
LEMMA Start == Init => IInv
<1> SUFFICES ASSUME Init PROVE IInv
  OBVIOUS
<1> USE DEF Init
<1>1. TypeOK
  BY BoundsAssumption, Empty DEF TypeOK, NoDelivery
<1>2. Serving /\ Carried
  BY Empty DEF Serving, Carried, Elems
<1>3. AnsweredStored /\ Unannounced /\ AnnouncedOnce
  BY DEF AnsweredStored, Unannounced, Announcing, AnnouncedOnce
<1>4. StatusFurthest /\ Timed /\ ActivityLatest
  BY DEF StatusFurthest, Timed, ActivityLatest
<1> QED
  BY <1>1, <1>2, <1>3, <1>4 DEF IInv

\* Every step keeps the invariant.
LEMMA Preserved == IInv /\ [Next]_vars => IInv'
<1> SUFFICES ASSUME IInv, [Next]_vars PROVE IInv'
  OBVIOUS
<1>1. Types /\ Announced
  BY DEF IInv, Types, Announced
<1>2. Types' /\ Announced'
  BY <1>1, TypeStep, AnnouncedStep
<1>3. Carried' /\ AnsweredStored'
  BY <1>1, CarriedStep, AnsweredStep DEF IInv
<1>4. StatusFurthest' /\ Timed' /\ ActivityLatest'
  BY <1>1, StatusStep, ActivityStep DEF IInv
<1> QED
  BY <1>2, <1>3, <1>4 DEF IInv, Types, Announced

\* The invariant holds in every behaviour of ingestion and sending.
THEOREM Invariant == Spec => []IInv
<1> QED
  BY Start, Preserved, PTL DEF Spec

\* Requests, rows and history keep their types.
THEOREM TypeCorrect == Spec => []TypeOK
<1>1. IInv => TypeOK
  BY DEF IInv
<1> QED
  BY <1>1, Invariant, PTL

\* handleDelivery: a 200 promises that the messages its request set out to store
\* are stored, however the deliveries overlap and wherever others of them failed.
THEOREM AnsweredAreStored == Spec => []AnsweredStored
<1>1. IInv => AnsweredStored
  BY DEF IInv
<1> QED
  BY <1>1, Invariant, PTL

\* announce: a message is announced once at most, and always once it is stored
\* unless the request that stored it was cut short.
THEOREM OneAnnouncement == Spec => []AnnouncedOnce
<1>1. IInv => AnnouncedOnce
  BY DEF IInv
<1> QED
  BY <1>1, Invariant, PTL

\* advanceStatus: statuses in any order leave the furthest one.
THEOREM FurthestStatus == Spec => []StatusFurthest
<1>1. IInv => StatusFurthest
  BY DEF IInv
<1> QED
  BY <1>1, Invariant, PTL

\* The conversation's activity is the latest of the times its rows have and redeliveries of
\* messages without a time were given, in any order (upsertConversation, parseTimestamp).
THEOREM LatestActivity == Spec => []ActivityLatest
<1>1. IInv => ActivityLatest
  BY DEF IInv
<1> QED
  BY <1>1, Invariant, PTL

---------------------------------------------------------------------------
(* Media: the fetchers.                                                    *)

\* Ends of a row that no write takes back; what a write finds is the row, not what the sweep
\* saw of it.
LEMMA SettledRowsStay ==
  MediaTypeOK /\ [MediaNext]_mediaVars =>
    \A r \in Rows : mediaStatus[r] \in Settled => mediaStatus'[r] = mediaStatus[r]
<1> SUFFICES ASSUME MediaTypeOK, [MediaNext]_mediaVars,
                    NEW r \in Rows, mediaStatus[r] \in Settled
             PROVE  mediaStatus'[r] = mediaStatus[r]
  OBVIOUS
<1> USE DEF MediaTypeOK, Settled, media
<1>1. ASSUME NEW q \in Rows, Arrive(q) PROVE mediaStatus'[r] = mediaStatus[r]
  BY <1>1 DEF Arrive
<1>2. ASSUME NEW f \in Fetchers, NEW as \in {"stored", "failed"}, SettledAs(f, as)
      PROVE  mediaStatus'[r] = mediaStatus[r]
  BY <1>2 DEF SettledAs, StillPending
<1>3. ASSUME NEW f \in Fetchers, Settle(f) \/ Expire(f)
      PROVE  mediaStatus'[r] = mediaStatus[r]
  BY <1>2, <1>3 DEF Settle, Expire
<1>4. ASSUME UNCHANGED mediaStatus PROVE mediaStatus'[r] = mediaStatus[r]
  BY <1>4
<1>5. ASSUME NEW q \in Rows, ComesDue(q) \/ Ages(q) PROVE UNCHANGED mediaStatus
  BY <1>5 DEF ComesDue, Ages
<1>6. ASSUME NEW w \in Workspaces, ToggleRecording(w) PROVE UNCHANGED mediaStatus
  BY <1>6 DEF ToggleRecording
<1>7. ASSUME NEW f \in Fetchers,
             \/ ReadGates(f) \/ Claim(f) \/ EndSweep(f) \/ Fetch(f)
             \/ Reschedule(f) \/ SweepFails(f) \/ WriteLost(f)
             \/ Deadline(f) \/ Stop(f) \/ Restart(f)
      PROVE  UNCHANGED mediaStatus
  BY <1>7 DEF ReadGates, Claim, EndSweep, Fetch, Reschedule,
     SweepFails, WriteLost, Deadline, Stop, Restart,
     Over
<1>8. CASE UNCHANGED mediaVars
  BY <1>8 DEF mediaVars
<1> QED
  BY <1>1, <1>3, <1>4, <1>5, <1>6, <1>7, <1>8 DEF MediaNext, FetcherStep

\* An ordered claim holds rows it may take, no more than a sweep's.
LEMMA FirstOfThem ==
  ASSUME NEW C \in SUBSET Rows,
         NEW s \in Orders(C)
  PROVE  /\ First(s) \in Seq(Rows) /\ Len(First(s)) <= Batch
         /\ Elems(First(s)) \subseteq C
<1>1. IsFiniteSet(C) /\ Cardinality(C) \in Nat /\ Batch \in Nat
  BY RowsAssumption, BatchAssumption, FS_Subset, FS_CardinalityType
<1>2. s \in [1..Cardinality(C) -> C]
  BY DEF Orders
<1>3. s \in Seq(C) /\ Len(s) \in Nat /\ DOMAIN s = 1..Len(s) /\ \A i \in 1..Len(s) : s[i] \in C
  BY <1>1, <1>2, IsASeq, LenProperties, ElementOfSeq
<1> DEFINE n == IF Len(s) < Batch THEN Len(s) ELSE Batch
<1>4. n \in 0..Len(s) /\ n <= Batch
  BY <1>1, <1>3
<1>5. First(s) = SubSeq(s, 1, n)
  BY DEF First
<1> HIDE DEF n
<1>6. \A i \in 1..n : s[i] \in C /\ s[i] \in Rows
  BY <1>3, <1>4
<1>7. /\ SubSeq(s, 1, n) \in Seq(Rows) /\ SubSeq(s, 1, n) \in Seq(C)
      /\ Len(SubSeq(s, 1, n)) = IF 1 <= n THEN n - 1 + 1 ELSE 0
  BY <1>4, <1>6, SubSeqProperties
<1>8. Elems(SubSeq(s, 1, n)) \subseteq C
  BY <1>7, LenProperties, ElementOfSeq DEF Elems
<1> QED
  BY <1>4, <1>5, <1>7, <1>8

\* Where a fetcher is with its claim.
Sweeping ==
  \A f \in Fetchers :
    /\ pc[f] \in {"idle", "claim", "down"} => batch[f] = <<>>
    /\ pc[f] = "write" => batch[f] # <<>>

\* Of the rows pending when the gates were read, those in closed workspaces were not due yet or
\* their workspace is left out.
GatesRead ==
  \A f \in Fetchers :
    pc[f] = "claim" => \A r \in shut[f] \cap stamped[f] : WorkspaceOf[r] \in closed[f]

MediaInv == MediaTypeOK /\ Sweeping /\ GatesRead /\ ClosedUntouched

\* A step of the rows, the clock or the workspaces.
LEMMA AroundStep ==
  ASSUME MediaInv,
         \/ \E r \in Rows : Arrive(r) \/ ComesDue(r) \/ Ages(r)
         \/ \E w \in Workspaces : ToggleRecording(w)
         \/ UNCHANGED mediaVars
  PROVE  MediaInv'
<1> USE DEF MediaInv, sweep, mediaBounds, media
<1>1. UNCHANGED <<pc, stamped, closed, batch, verdict>>
  BY DEF Arrive, ComesDue, Ages, ToggleRecording, mediaVars
<1>2. \A f \in Fetchers : shut'[f] \subseteq shut[f]
  BY DEF Arrive, ComesDue, Ages, ToggleRecording, mediaVars,
     MediaTypeOK
<1>3. MediaTypeOK'
  <2>1. ASSUME NEW r \in Rows, Arrive(r) \/ ComesDue(r) \/ Ages(r)
        PROVE  MediaTypeOK'
    BY <2>1 DEF Arrive, ComesDue, Ages, MediaTypeOK
  <2>2. ASSUME NEW w \in Workspaces, ToggleRecording(w) PROVE MediaTypeOK'
    BY <2>2, MediaBoundsAssumption DEF ToggleRecording, MediaTypeOK
  <2>3. CASE UNCHANGED mediaVars
    BY <2>3 DEF mediaVars, MediaTypeOK
  <2> QED
    BY <2>1, <2>2, <2>3
<1>4. Sweeping' /\ GatesRead' /\ ClosedUntouched'
  BY <1>1, <1>2 DEF Sweeping, GatesRead, ClosedUntouched, Claimed
<1> QED
  BY <1>3, <1>4

\* A sweep that is over leaves nothing claimed and nothing stamped.
LEMMA OverStep ==
  ASSUME MediaInv, NEW f \in Fetchers, NEW next \in {"idle", "down"}, Over(f, next),
         mediaFaults' \in 0..MaxMediaFaults
  PROVE  MediaInv'
<1> USE DEF MediaInv, media
<1>1. /\ UNCHANGED <<mediaStatus, due, old, recordingNow, closings>>
      /\ pc' = [pc EXCEPT ![f] = next] /\ batch' = [batch EXCEPT ![f] = <<>>]
      /\ stamped' = [stamped EXCEPT ![f] = {}] /\ closed' = [closed EXCEPT ![f] = {}]
      /\ verdict' = [verdict EXCEPT ![f] = "pending"] /\ shut' = [shut EXCEPT ![f] = {}]
  BY DEF Over
<1>2. <<>> \in Seq(Rows) /\ Len(<<>>) = 0
  BY EmptySeq
<1>4. batch' \in [Fetchers -> Seq(Rows)]
  BY <1>1, <1>2 DEF MediaTypeOK
<1>5. \A g \in Fetchers : batch'[g] = IF g = f THEN <<>> ELSE batch[g]
  BY <1>1 DEF MediaTypeOK
<1>6. \A g \in Fetchers : Len(batch'[g]) <= Batch
  BY <1>2, <1>5, BatchAssumption DEF MediaTypeOK
<1>7. MediaTypeOK'
  BY <1>1, <1>4, <1>6 DEF MediaTypeOK
<1>8. /\ \A g \in Fetchers \ {f} : pc'[g] = pc[g] /\ stamped'[g] = stamped[g]
                                   /\ closed'[g] = closed[g] /\ shut'[g] = shut[g]
      /\ pc'[f] = next /\ shut'[f] = {}
  BY <1>1 DEF MediaTypeOK
<1>9. Sweeping' /\ GatesRead'
  BY <1>5, <1>8 DEF Sweeping, GatesRead
<1>10. ClosedUntouched'
  BY <1>5, <1>8 DEF ClosedUntouched, Claimed
<1> QED
  BY <1>7, <1>9, <1>10

\* The gates are read for the rows due now: a row pending in a workspace that does not record
\* is left out with its workspace, or is not stamped.
LEMMA GatesStep ==
  ASSUME MediaInv,
         NEW f \in Fetchers, ReadGates(f)
  PROVE  MediaInv'
<1> USE DEF MediaInv
<1>1. PICK inserted \in SUBSET {r \in Rows : mediaStatus[r] = "none"} :
        stamped' = [stamped EXCEPT ![f] = due \cup inserted]
  BY DEF ReadGates
<1>2. PICK failing \in SUBSET {WorkspaceOf[r] : r \in due} :
        /\ failing # {} => mediaFaults < MaxMediaFaults
        /\ mediaFaults' = IF failing = {} THEN mediaFaults ELSE mediaFaults + 1
        /\ closed' = [closed EXCEPT
             ![f] = ({WorkspaceOf[r] : r \in due} \ recordingNow) \cup failing]
  BY DEF ReadGates
<1>3. /\ pc[f] = "idle" /\ pc' = [pc EXCEPT ![f] = "claim"]
      /\ UNCHANGED <<mediaStatus, due, old, recordingNow, batch, verdict, closings>>
      /\ shut' = [shut EXCEPT ![f] = {r \in Pending : WorkspaceOf[r] \notin recordingNow}]
  BY DEF ReadGates, media
<1>4. \A r \in due : r \in Rows /\ WorkspaceOf[r] \in Workspaces
  BY WorkspaceOfAssumption DEF MediaTypeOK
<1>5. MediaTypeOK'
  <2>1. stamped' \in [Fetchers -> SUBSET Rows] /\ shut' \in [Fetchers -> SUBSET Rows]
    BY <1>1, <1>3 DEF MediaTypeOK, Pending
  <2>2. closed' \in [Fetchers -> SUBSET Workspaces]
    BY <1>2, <1>4 DEF MediaTypeOK
  <2>3. mediaFaults' \in 0..MaxMediaFaults
    BY <1>2, MediaBoundsAssumption DEF MediaTypeOK
  <2> QED
    BY <1>3, <2>1, <2>2, <2>3 DEF MediaTypeOK
<1>6. /\ \A g \in Fetchers \ {f} : pc'[g] = pc[g] /\ stamped'[g] = stamped[g]
                                   /\ closed'[g] = closed[g] /\ shut'[g] = shut[g]
      /\ pc'[f] = "claim" /\ stamped'[f] = due \cup inserted
      /\ closed'[f] = ({WorkspaceOf[r] : r \in due} \ recordingNow) \cup failing
      /\ shut'[f] = {r \in Pending : WorkspaceOf[r] \notin recordingNow}
  BY <1>1, <1>2, <1>3 DEF MediaTypeOK
<1>7. \A r \in shut'[f] \cap stamped'[f] : WorkspaceOf[r] \in closed'[f]
  BY <1>6 DEF Pending
<1>8. GatesRead' /\ Sweeping'
  BY <1>3, <1>6, <1>7 DEF GatesRead, Sweeping
<1>9. ClosedUntouched'
  <2>1. batch'[f] = <<>> /\ Elems(<<>>) = {} /\ <<>> \in Seq(Rows)
    BY <1>3, EmptySeq DEF Sweeping, Elems
  <2>2. Claimed(f)' = {}
    BY <2>1, EmptySeq DEF Claimed
  <2> QED
    <3> SUFFICES ASSUME NEW g \in Fetchers PROVE shut'[g] \cap Claimed(g)' = {}
      BY DEF ClosedUntouched
    <3>1. CASE g = f
      BY <2>2, <3>1
    <3>2. CASE g # f
      <4>1. Claimed(g)' = Claimed(g)
        BY <1>3 DEF Claimed
      <4> QED
        BY <1>6, <3>2, <4>1 DEF ClosedUntouched
    <3> QED
      BY <3>1, <3>2
<1> QED
  BY <1>5, <1>8, <1>9

\* The claim takes rows due when the gates were read, in workspaces it does not leave out.
LEMMA ClaimStep ==
  ASSUME MediaInv,
         NEW f \in Fetchers, Claim(f)
  PROVE  MediaInv'
<1> USE DEF MediaInv
<1>1. PICK s \in Orders(Claimable(f)) :
        batch' = [batch EXCEPT ![f] = First(s)]
  BY DEF Claim
<1>2. /\ pc[f] = "claim" /\ pc' = [pc EXCEPT ![f] = "row"]
      /\ closed' = [closed EXCEPT ![f] = {}] /\ stamped' = [stamped EXCEPT ![f] = {}]
      /\ UNCHANGED <<mediaStatus, due, old, recordingNow, verdict, mediaFaults, closings, shut>>
  BY DEF Claim, media, mediaBounds
<1>3. Claimable(f) \in SUBSET Rows
  BY DEF Claimable, MediaTypeOK
<1>4. /\ First(s) \in Seq(Rows) /\ Len(First(s)) <= Batch
      /\ Elems(First(s)) \subseteq Claimable(f)
  BY <1>3, FirstOfThem
<1>5. \A g \in Fetchers : batch'[g] = IF g = f THEN First(s) ELSE batch[g]
  BY <1>1 DEF MediaTypeOK
<1>6. MediaTypeOK'
  BY <1>1, <1>2, <1>4, <1>5 DEF MediaTypeOK
<1>7. \A g \in Fetchers \ {f} : pc'[g] = pc[g] /\ stamped'[g] = stamped[g] /\ closed'[g] = closed[g]
  BY <1>2 DEF MediaTypeOK
<1>8. pc'[f] = "row"
  BY <1>2 DEF MediaTypeOK
<1>9. Sweeping' /\ GatesRead'
  BY <1>2, <1>5, <1>7, <1>8 DEF Sweeping, GatesRead
<1>10. Claimed(f)' \subseteq Claimable(f)
  <2>1. \A i \in 1..Len(First(s)) : First(s)[i] \in Elems(First(s))
    BY <1>4, LenProperties DEF Elems
  <2> QED
    BY <1>4, <1>5, <2>1 DEF Claimed
<1>11. shut[f] \cap Claimable(f) = {}
  BY <1>2 DEF GatesRead, Claimable
<1> QED
  BY <1>2, <1>5, <1>6, <1>9, <1>10, <1>11 DEF ClosedUntouched, Claimed

\* A fetcher done with a row keeps the others.
LEMMA NextRowStep ==
  ASSUME MediaInv, NEW f \in Fetchers, NextRow(f), batch[f] # <<>>,
         mediaStatus' \in [Rows -> {"none", "pending"} \cup Settled],
         due' \subseteq Rows, old' \subseteq Rows, mediaFaults' \in 0..MaxMediaFaults
  PROVE  MediaInv'
<1> USE DEF MediaInv
<1>1. /\ batch' = [batch EXCEPT ![f] = Tail(batch[f])]
      /\ verdict' = [verdict EXCEPT ![f] = "pending"] /\ pc' = [pc EXCEPT ![f] = "row"]
      /\ UNCHANGED <<stamped, closed, shut, closings, recordingNow>>
  BY DEF NextRow
<1>2. batch[f] \in Seq(Rows) /\ Len(batch[f]) <= Batch
  BY DEF MediaTypeOK
<1>3. /\ Tail(batch[f]) \in Seq(Rows) /\ Len(Tail(batch[f])) = Len(batch[f]) - 1
      /\ Len(batch[f]) \in Nat /\ Len(batch[f]) # 0
      /\ \A i \in 1..Len(Tail(batch[f])) : Tail(batch[f])[i] = batch[f][i + 1]
  BY <1>2, HeadTailProperties, LenProperties, EmptySeq
<1>4. \A g \in Fetchers : batch'[g] = IF g = f THEN Tail(batch[f]) ELSE batch[g]
  BY <1>1 DEF MediaTypeOK
<1>5. Claimed(f)' \subseteq Claimed(f)
  <2>1. \A i \in 1..Len(Tail(batch[f])) : i + 1 \in 1..Len(batch[f])
    BY <1>3
  <2> QED
    BY <1>3, <1>4, <2>1 DEF Claimed
<1>6. batch' \in [Fetchers -> Seq(Rows)]
  BY <1>1, <1>3 DEF MediaTypeOK
<1>7. \A g \in Fetchers : Len(batch'[g]) <= Batch
  <2>1. Len(Tail(batch[f])) <= Batch
    BY <1>2, <1>3, BatchAssumption
  <2> QED
    BY <1>4, <2>1 DEF MediaTypeOK
<1>8. MediaTypeOK'
  BY <1>1, <1>6, <1>7 DEF MediaTypeOK
<1>9. pc'[f] = "row" /\ \A g \in Fetchers \ {f} : pc'[g] = pc[g]
  BY <1>1 DEF MediaTypeOK
<1>10. Sweeping' /\ GatesRead'
  BY <1>1, <1>4, <1>9 DEF Sweeping, GatesRead
<1>11. ClosedUntouched'
  BY <1>1, <1>4, <1>5 DEF ClosedUntouched, Claimed
<1> QED
  BY <1>8, <1>10, <1>11

\* No row, no claim.
LEMMA MediaStart == ASSUME MediaInit PROVE MediaInv
<1>1. <<>> \in Seq(Rows) /\ Len(<<>>) = 0
  BY EmptySeq
<1>2. MediaTypeOK
  BY <1>1, BatchAssumption, MediaBoundsAssumption DEF MediaInit, MediaTypeOK, Settled
<1>3. Sweeping /\ GatesRead
  BY DEF MediaInit, Sweeping, GatesRead
<1>4. ClosedUntouched
  BY DEF MediaInit, ClosedUntouched
<1> QED
  BY <1>2, <1>3, <1>4 DEF MediaInv

\* Every step of the rows, the workspaces and the fetchers keeps the invariant.
LEMMA MediaStep ==
  ASSUME MediaInv, [MediaNext]_mediaVars
  PROVE  MediaInv'
<1> USE MediaBoundsAssumption
<1>0. /\ mediaFaults \in 0..MaxMediaFaults
      /\ mediaStatus \in [Rows -> {"none", "pending"} \cup Settled]
      /\ due \subseteq Rows /\ old \subseteq Rows
  BY DEF MediaInv, MediaTypeOK
<1>1. ASSUME NEW f \in Fetchers,
             EndSweep(f) \/ SweepFails(f) \/ Deadline(f) \/ Stop(f)
      PROVE  MediaInv'
  <2>1. mediaFaults' \in 0..MaxMediaFaults
    BY <1>0, <1>1 DEF EndSweep, SweepFails, Deadline, Stop
  <2>2. Over(f, "idle") \/ Over(f, "down")
    BY <1>1 DEF EndSweep, SweepFails, Deadline, Stop
  <2> QED
    BY <2>1, <2>2, OverStep
<1>2. ASSUME NEW f \in Fetchers, Restart(f) PROVE MediaInv'
  <2>1. UNCHANGED <<mediaStatus, due, old, recordingNow, stamped, closed, batch, verdict,
                    mediaFaults, closings, shut>>
        /\ pc[f] = "down" /\ pc' = [pc EXCEPT ![f] = "idle"]
    BY <1>2 DEF Restart, media, sweep, mediaBounds
  <2>2. MediaTypeOK'
    BY <2>1 DEF MediaInv, MediaTypeOK
  <2>3. Sweeping' /\ GatesRead' /\ ClosedUntouched'
    BY <2>1 DEF MediaInv, MediaTypeOK, Sweeping, GatesRead, ClosedUntouched,
       Claimed
  <2> QED
    BY <2>2, <2>3 DEF MediaInv
<1>3. ASSUME NEW f \in Fetchers, Fetch(f) PROVE MediaInv'
  <2>1. UNCHANGED <<mediaStatus, due, old, recordingNow, stamped, closed, batch, mediaFaults,
                    closings, shut>>
        /\ batch[f] # <<>> /\ pc' = [pc EXCEPT ![f] = "write"]
    BY <1>3 DEF Fetch, media, mediaBounds
  <2>2. verdict' \in [Fetchers -> {"pending"} \cup Settled]
    BY <1>3 DEF MediaInv, MediaTypeOK, Fetch, Fetched, Settled
  <2>3. MediaTypeOK'
    BY <2>1, <2>2 DEF MediaInv, MediaTypeOK
  <2>4. Sweeping' /\ GatesRead' /\ ClosedUntouched'
    BY <2>1 DEF MediaInv, MediaTypeOK, Sweeping, GatesRead, ClosedUntouched,
       Claimed
  <2> QED
    BY <2>3, <2>4 DEF MediaInv
<1>4. ASSUME NEW f \in Fetchers, NEW as \in Settled, SettledAs(f, as),
             batch[f] # <<>>
      PROVE  MediaInv'
  <2>1. /\ mediaStatus' \in [Rows -> {"none", "pending"} \cup Settled]
        /\ due' \subseteq Rows /\ old' \subseteq Rows
        /\ NextRow(f) /\ mediaFaults' = mediaFaults
    BY <1>0, <1>4 DEF SettledAs
  <2> QED
    BY <1>0, <1>4, <2>1, NextRowStep
<1>5. ASSUME NEW f \in Fetchers, Settle(f) \/ Expire(f) PROVE MediaInv'
  <2>1. batch[f] # <<>>
    BY <1>5 DEF MediaInv, Sweeping, Settle, Expire
  <2>2. \E as \in Settled : SettledAs(f, as)
    BY <1>5 DEF MediaInv, MediaTypeOK, Settle, Expire, Settled
  <2> QED
    BY <1>4, <2>1, <2>2
<1>6. ASSUME NEW f \in Fetchers, Reschedule(f) \/ WriteLost(f) PROVE MediaInv'
  <2>1. batch[f] # <<>>
    BY <1>6 DEF MediaInv, Sweeping, Reschedule, WriteLost
  <2>2. /\ UNCHANGED <<mediaStatus, old>> /\ due' \subseteq due /\ mediaFaults' \in 0..MaxMediaFaults
        /\ NextRow(f)
    BY <1>0, <1>6 DEF Reschedule, WriteLost, media
  <2> QED
    BY <1>0, <2>1, <2>2, NextRowStep
<1>7. ASSUME NEW f \in Fetchers, ReadGates(f) \/ Claim(f) PROVE MediaInv'
  BY <1>7, GatesStep, ClaimStep
<1>8. ASSUME NEW f \in Fetchers, FetcherStep(f) PROVE MediaInv'
  BY <1>1, <1>3, <1>5, <1>6, <1>7, <1>8 DEF FetcherStep
<1>9. CASE \/ \E r \in Rows : Arrive(r) \/ ComesDue(r) \/ Ages(r)
           \/ \E w \in Workspaces : ToggleRecording(w)
           \/ UNCHANGED mediaVars
  BY <1>9, AroundStep
<1> QED
  BY <1>1, <1>2, <1>6, <1>8, <1>9 DEF MediaNext

\* The fetchers' state has its types: a claim holds rows and no more than a batch.
THEOREM MediaTypes == MediaSpec => []MediaTypeOK
<1>1. MediaInit => MediaInv
  BY MediaStart
<1>2. MediaInv /\ [MediaNext]_mediaVars => MediaInv'
  BY MediaStep
<1>3. MediaInv => MediaTypeOK
  BY DEF MediaInv
<1> QED
  BY <1>1, <1>2, <1>3, PTL DEF MediaSpec

\* A row settled once stays as it settled, however many fetchers hold it (markMediaStored,
\* markMediaFailed, rescheduleMedia).
THEOREM SettledMediaStays == MediaSpec => SettledStays
<1>1. MediaInit => MediaInv
  BY MediaStart
<1>2. MediaInv /\ [MediaNext]_mediaVars => MediaInv'
  BY MediaStep
<1>3. MediaInv /\ [MediaNext]_mediaVars =>
        [\A r \in Rows : mediaStatus[r] \in Settled => mediaStatus'[r] = mediaStatus[r]]_mediaVars
  BY SettledRowsStay DEF MediaInv
<1> QED
  BY <1>1, <1>2, <1>3, PTL DEF MediaSpec, SettledStays

\* A sweep works on no row that was pending when it read the gates in a workspace closed from
\* then on (closedTenants, claimDueMedia).
THEOREM ClosedMediaUntouched == MediaSpec => []ClosedUntouched
<1>1. MediaInit => MediaInv
  BY MediaStart
<1>2. MediaInv /\ [MediaNext]_mediaVars => MediaInv'
  BY MediaStep
<1>3. MediaInv => ClosedUntouched
  BY DEF MediaInv
<1> QED
  BY <1>1, <1>2, <1>3, PTL DEF MediaSpec
=============================================================================
