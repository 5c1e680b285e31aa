----------------------- MODULE WebhookDeliveryProofs -----------------------
(***************************************************************************)
(* Claims and settlements, for any number of workers, events and           *)
(* subscriptions and any lease, window and batch.                          *)
(*                                                                         *)
(* The settling statement overwrites whatever row has the id.  That a      *)
(* settled delivery stays settled rests on who may hold one: an unshared   *)
(* delivery is in one hand at most and pending while it is (Held), is      *)
(* queued once (Queued), and stays leased as long as its holder's claim    *)
(* runs (Leased).                                                          *)
(*                                                                         *)
(* What a status is worth rests on what workers are about to settle: each  *)
(* verdict is justified when it is reached (Justified), and an acceptance  *)
(* heard of is in the hand of the worker that settles it (Recorded).       *)
(***************************************************************************)
EXTENDS WebhookDelivery, FiniteSetTheorems, TLAPS

\* A delivery in two hands is shared, and one in a hand has a row, unsettled when unshared.
Held ==
  /\ \A d \in Deliveries, v, w \in Workers :
       v # w /\ d \in hand[v] /\ d \in hand[w] => d \in shared
  /\ \A d \in Deliveries, w \in Workers :
       d \in hand[w] => /\ status[d] # "absent"
                        /\ d \notin shared => status[d] \in {"pending", "gone"}

\* A delivery still to be queued has no row, and an event is queued once it is published.
Queued ==
  \A e \in Events, s \in Subs :
    /\ e \notin published \/ s \in matched[e] => status[<<e, s>>] = "absent"
    /\ s \in matched[e] => e \in published

\* An unshared delivery does not fall due before its holder's claim runs out.
Leased ==
  \A d \in Deliveries \ shared, w \in Workers : d \in hand[w] => lease[w][d] <= wait[d]

\* A verdict about to be settled is justified as one settled is.
Justified ==
  /\ VerdictsJustified
  /\ \A w \in Workers : step[w] = "attempted" =>
       /\ verdict[w] = "delivered" => accepted[current[w]] > 0
       /\ verdict[w] = "failed" => current[w] \in dropped \/ age[current[w]] >= Window

\* Worker w is about to settle d as delivered.
Delivering(w, d) == step[w] = "attempted" /\ current[w] = d /\ verdict[w] = "delivered"

\* A delivery accepted once, for sure and by one hand, is in the hand of the worker that will
\* settle it as delivered, or in no hand and not pending.
Recorded ==
  \A d \in Deliveries \ (unsure \cup shared) : accepted[d] # 0 =>
    /\ accepted[d] = 1 /\ status[d] # "absent"
    /\ \A w \in Workers : d \in hand[w] => Delivering(w, d)
    /\ status[d] = "pending" => \E w \in Workers : d \in hand[w]

\* The workers that found the account of subscription s enabled and have still to post.
Posting(s) == {w \in Workers : step[w] = "checked" /\ current[w][2] = s}

\* No late posts are counted for a subscription that wants them; to another one, those sent
\* and those still to be sent are one a worker.
Late ==
  \A s \in Subs :
    /\ s \notin disabled \cup revoked => lateposts[s] = 0
    /\ lateposts[s] + Cardinality(Posting(s)) <= Cardinality(Workers)

---------------------------------------------------------------------------
\* A backoff is a number of ticks.
LEMMA BackoffType == ASSUME NEW n PROVE Backoff(n) \in Nat
  BY TimesAssumption DEF Backoff

\* The smaller of two numbers is a number.
LEMMA LeastType == ASSUME NEW a \in Nat, NEW b \in Nat PROVE Least(a, b) \in Nat
  BY DEF Least

---------------------------------------------------------------------------
\* Every step keeps every variable in its type.
LEMMA TypeStep == TypeOK /\ [Next]_vars => TypeOK'
<1> SUFFICES ASSUME TypeOK, [Next]_vars PROVE TypeOK'
  OBVIOUS
<1> USE DEF TypeOK, subVars, rowVars, workerVars, bounds, history, Final
<1>a. \A d \in Deliveries : d[2] \in Subs
  BY DEF Deliveries
<1>b. \A d \in Deliveries : VerdictOnError(d) \in {"pending"} \cup Final
  BY DEF VerdictOnError
<1>c. \A e \in Events, s \in Subs : <<e, s>> \in Deliveries
  BY DEF Deliveries
<1>1. ASSUME NEW e \in Events, ListSubscriptions(e) PROVE TypeOK'
  BY <1>1 DEF ListSubscriptions
<1>2. ASSUME NEW e \in Events, NEW s \in Subs, Enqueue(e, s) PROVE TypeOK'
  BY <1>2, <1>c DEF Enqueue
<1>3. ASSUME NEW e \in Events, NEW s \in Subs, EnqueueFails(e, s) PROVE TypeOK'
  BY <1>3, TimesAssumption DEF EnqueueFails
<1>4. ASSUME NEW s \in Subs, Toggle(s) PROVE TypeOK'
  BY <1>4, TimesAssumption DEF Toggle
<1>5. ASSUME NEW s \in Subs, Revoke(s) PROVE TypeOK'
  BY <1>5 DEF Revoke
<1>6. ASSUME NEW w \in Workers, Start(w) PROVE TypeOK'
  BY <1>6 DEF Start
<1>7. ASSUME NEW w \in Workers, Sweep(w) PROVE TypeOK'
  <2>1. PICK B \in SUBSET Due :
          /\ attempts' = [d \in Deliveries |->
                            IF d \in B THEN Least(attempts[d] + 1, MaxBackoff) ELSE attempts[d]]
          /\ wait' = LeaseTaken(B)
          /\ hand' = [hand EXCEPT ![w] = B]
          /\ lease' = [lease EXCEPT ![w] = [d \in Deliveries |-> IF d \in B THEN Lease ELSE 0]]
          /\ tries' = [tries EXCEPT ![w] = [d \in Deliveries |->
                                              IF d \in B THEN attempts'[d] ELSE 0]]
          /\ shared' = shared \cup {d \in B : \E v \in Workers : d \in hand[v]}
    BY <1>7 DEF Sweep
  <2>2. B \subseteq Deliveries
    BY DEF Due
  <2>3. attempts' \in [Deliveries -> Nat]
    BY <2>1, LeastType, TimesAssumption
  <2>4. wait' \in [Deliveries -> Nat] /\ lease' \in [Workers -> [Deliveries -> Nat]]
    BY <2>1, TimesAssumption DEF LeaseTaken
  <2>5. tries' \in [Workers -> [Deliveries -> Nat]]
    BY <2>1, <2>3
  <2>6. hand' \in [Workers -> SUBSET Deliveries] /\ shared' \subseteq Deliveries
    BY <2>1, <2>2
  <2>7. \A v \in Workers : step'[v] \in {"checked", "attempted"} => current'[v] \in hand'[v]
    BY <1>7, <2>1 DEF Sweep
  <2> QED
    BY <1>7, <2>3, <2>4, <2>5, <2>6, <2>7 DEF Sweep
<1>8. ASSUME NEW w \in Workers, NEW d \in Deliveries, CheckOwner(w, d) PROVE TypeOK'
  BY <1>8 DEF CheckOwner
<1>9. ASSUME NEW w \in Workers, NEW d \in Deliveries, CheckOwnerFails(w, d) PROVE TypeOK'
  BY <1>9, <1>b, TimesAssumption DEF CheckOwnerFails
<1>10. ASSUME NEW w \in Workers, NEW taken \in BOOLEAN, NEW heard \in BOOLEAN,
              Post(w, taken, heard)
       PROVE  TypeOK'
  <2>1. current[w] \in Deliveries
    BY <1>10 DEF Post
  <2>2. verdict' \in [Workers -> {"pending"} \cup Final]
    BY <1>10, <1>b, <2>1 DEF Post
  <2>3. accepted' \in [Deliveries -> 0..2]
    BY <1>10, <2>1 DEF Post, Least
  <2>4. lateposts' \in [Subs -> Nat]
    BY <1>10, <1>a, <2>1 DEF Post
  <2> QED
    BY <1>10, <2>1, <2>2, <2>3, <2>4 DEF Post
<1>11. ASSUME NEW w \in Workers, Settle(w) PROVE TypeOK'
  <2>1. current[w] \in Deliveries /\ Backoff(tries[w][current[w]]) \in Nat
    BY <1>11, BackoffType DEF Settle
  <2>2. status' \in [Deliveries -> {"absent", "pending", "gone"} \cup Final]
    BY <1>11, <2>1 DEF Settle, SettledAs
  <2>3. wait' \in [Deliveries -> Nat]
    BY <1>11, <2>1 DEF Settle
  <2> QED
    BY <1>11, <2>1, <2>2, <2>3 DEF Settle, LetGo
<1>12. ASSUME NEW w \in Workers, SettleFails(w) PROVE TypeOK'
  BY <1>12, TimesAssumption DEF SettleFails, LetGo
<1>13. ASSUME NEW w \in Workers, Down(w) PROVE TypeOK'
  BY <1>13, TimesAssumption DEF Down
<1>14. CASE Tick
  <2>1. \A n \in Nat : Passed(n) \in Nat /\ Least(n + 1, Window) \in Nat
    BY TimesAssumption DEF Passed, Least
  <2> QED
    BY <1>14, <2>1 DEF Tick
<1>15. CASE UNCHANGED vars
  BY <1>15 DEF vars
<1> QED
  BY <1>1, <1>2, <1>3, <1>4, <1>5, <1>6, <1>7, <1>8, <1>9, <1>10, <1>11, <1>12, <1>13, <1>14, <1>15
  DEF Next, Publish, Work, Attempt

---------------------------------------------------------------------------
\* Hands exclude each other except over shared deliveries, and rows are queued once.
LEMMA HeldStep == TypeOK /\ Held /\ Queued /\ [Next]_vars => Held' /\ Queued'
<1> SUFFICES ASSUME TypeOK, Held, Queued, [Next]_vars PROVE Held' /\ Queued'
  OBVIOUS
<1> USE DEF TypeOK, Held, Queued, subVars, rowVars, workerVars, bounds, history, Final
<1>c. \A e \in Events, s \in Subs : <<e, s>> \in Deliveries
  BY DEF Deliveries
<1>1. ASSUME NEW e \in Events, ListSubscriptions(e) PROVE Held' /\ Queued'
  BY <1>1 DEF ListSubscriptions
<1>2. ASSUME NEW e \in Events, NEW s \in Subs, Enqueue(e, s) PROVE Held' /\ Queued'
  <2>1. status[<<e, s>>] = "absent"
    BY <1>2 DEF Enqueue
  <2>2. \A w \in Workers : <<e, s>> \notin hand[w]
    BY <2>1, <1>c
  <2>3. \A d \in Deliveries : d # <<e, s>> => status'[d] = status[d]
    BY <1>2 DEF Enqueue
  <2>4. \A f \in Events, r \in Subs : <<f, r>> = <<e, s>> => f = e /\ r = s
    OBVIOUS
  <2>5. /\ published' = published /\ e \in published /\ s \notin matched'[e]
        /\ \A f \in Events : matched'[f] \subseteq matched[f]
    BY <1>2 DEF Enqueue
  <2>6. ASSUME NEW f \in Events, NEW r \in Subs, f \notin published' \/ r \in matched'[f]
        PROVE  status'[<<f, r>>] = "absent"
    <3>1. <<f, r>> # <<e, s>>
      BY <2>4, <2>5, <2>6
    <3> QED
      BY <1>c, <2>3, <2>5, <2>6, <3>1
  <2>7. Queued'
    BY <2>5, <2>6
  <2> QED
    BY <1>2, <2>2, <2>3, <2>7 DEF Enqueue
<1>3. ASSUME NEW e \in Events, NEW s \in Subs, EnqueueFails(e, s) PROVE Held' /\ Queued'
  BY <1>3 DEF EnqueueFails
<1>4. ASSUME NEW s \in Subs, Toggle(s) PROVE Held' /\ Queued'
  BY <1>4 DEF Toggle
<1>5. ASSUME NEW s \in Subs, Revoke(s) PROVE Held' /\ Queued'
  BY <1>5, <1>c DEF Revoke
<1>6. ASSUME NEW w \in Workers, Start(w) PROVE Held' /\ Queued'
  BY <1>6 DEF Start
<1>7. ASSUME NEW w \in Workers, Sweep(w) PROVE Held' /\ Queued'
  <2>1. PICK B \in SUBSET Due :
          /\ hand' = [hand EXCEPT ![w] = B]
          /\ shared' = shared \cup {d \in B : \E v \in Workers : d \in hand[v]}
    BY <1>7 DEF Sweep
  <2>2. \A d \in B : status[d] = "pending"
    BY DEF Due
  <2> QED
    BY <1>7, <2>1, <2>2 DEF Sweep
<1>8. ASSUME NEW w \in Workers, NEW d \in Deliveries, CheckOwner(w, d) PROVE Held' /\ Queued'
  BY <1>8 DEF CheckOwner
<1>9. ASSUME NEW w \in Workers, NEW d \in Deliveries, CheckOwnerFails(w, d) PROVE Held' /\ Queued'
  BY <1>9 DEF CheckOwnerFails
<1>10. ASSUME NEW w \in Workers, NEW taken \in BOOLEAN, NEW heard \in BOOLEAN,
              Post(w, taken, heard)
       PROVE  Held' /\ Queued'
  BY <1>10 DEF Post
<1>11. ASSUME NEW w \in Workers, Settle(w) PROVE Held' /\ Queued'
  <2> DEFINE d == current[w]
  <2>1. d \in hand[w] /\ d \in Deliveries
    BY <1>11 DEF Settle
  <2>2. \A v \in Workers : hand'[v] = IF v = w THEN hand[v] \ {d} ELSE hand[v]
    BY <1>11 DEF Settle, LetGo
  <2>3. \A c \in Deliveries : /\ c # d => status'[c] = status[c]
                              /\ status[c] # "absent" => status'[c] # "absent"
    BY <1>11 DEF Settle, SettledAs
  <2> HIDE DEF d
  <2>4. ASSUME NEW c \in Deliveries \ shared, NEW v \in Workers, c \in hand'[v]
        PROVE  c # d
    <3>1. CASE v = w
      <4>1. hand'[v] = hand[v] \ {d}
        BY <2>2, <3>1
      <4> QED
        BY <2>4, <4>1
    <3>2. CASE v # w
      BY <2>1, <2>2, <2>4, <3>2
    <3> QED
      BY <3>1, <3>2
  <2>7. shared' = shared /\ \A v \in Workers : hand'[v] \subseteq hand[v]
    BY <1>11, <2>2 DEF Settle
  <2>8. Held'
    BY <2>3, <2>4, <2>7
  <2>5. status[d] # "absent"
    BY <2>1
  <2>6. PICK e \in Events, s \in Subs : d = <<e, s>>
    BY <2>1 DEF Deliveries
  <2> QED
    BY <1>11, <1>c, <2>1, <2>3, <2>5, <2>6, <2>8 DEF Settle
<1>12. ASSUME NEW w \in Workers, SettleFails(w) PROVE Held' /\ Queued'
  BY <1>12 DEF SettleFails, LetGo
<1>13. ASSUME NEW w \in Workers, Down(w) PROVE Held' /\ Queued'
  BY <1>13 DEF Down
<1>14. CASE Tick
  BY <1>14 DEF Tick
<1>15. CASE UNCHANGED vars
  BY <1>15 DEF vars
<1> QED
  BY <1>1, <1>2, <1>3, <1>4, <1>5, <1>6, <1>7, <1>8, <1>9, <1>10, <1>11, <1>12, <1>13, <1>14, <1>15
  DEF Next, Publish, Work, Attempt

---------------------------------------------------------------------------
\* The claim on an unshared delivery runs out before the row falls due.
LEMMA LeasedStep == TypeOK /\ Held /\ Leased /\ [Next]_vars => Leased'
<1> SUFFICES ASSUME TypeOK, Held, Leased, [Next]_vars PROVE Leased'
  OBVIOUS
<1> USE DEF TypeOK, Held, Leased, subVars, rowVars, workerVars, bounds, history
<1>1. ASSUME NEW e \in Events, ListSubscriptions(e) PROVE Leased'
  BY <1>1 DEF ListSubscriptions
<1>2. ASSUME NEW e \in Events, NEW s \in Subs, Enqueue(e, s) PROVE Leased'
  BY <1>2 DEF Enqueue
<1>3. ASSUME NEW e \in Events, NEW s \in Subs, EnqueueFails(e, s) PROVE Leased'
  BY <1>3 DEF EnqueueFails
<1>4. ASSUME NEW s \in Subs, Toggle(s) PROVE Leased'
  BY <1>4 DEF Toggle
<1>5. ASSUME NEW s \in Subs, Revoke(s) PROVE Leased'
  BY <1>5 DEF Revoke
<1>6. ASSUME NEW w \in Workers, Start(w) PROVE Leased'
  BY <1>6 DEF Start
<1>7. ASSUME NEW w \in Workers, Sweep(w) PROVE Leased'
  <2>1. PICK B \in SUBSET Due :
          /\ wait' = LeaseTaken(B)
          /\ hand' = [hand EXCEPT ![w] = B]
          /\ lease' = [lease EXCEPT ![w] = [d \in Deliveries |-> IF d \in B THEN Lease ELSE 0]]
          /\ shared' = shared \cup {d \in B : \E v \in Workers : d \in hand[v]}
    BY <1>7 DEF Sweep
  <2>2. ASSUME NEW d \in Deliveries \ shared', NEW v \in Workers, d \in hand'[v]
        PROVE  lease'[v][d] <= wait'[d]
    <3>1. CASE v = w
      BY <2>1, <2>2, <3>1, TimesAssumption DEF LeaseTaken
    <3>2. CASE v # w
      BY <2>1, <2>2, <3>2 DEF LeaseTaken
    <3> QED
      BY <3>1, <3>2
  <2> QED
    BY <2>2
<1>8. ASSUME NEW w \in Workers, NEW d \in Deliveries, CheckOwner(w, d) PROVE Leased'
  BY <1>8 DEF CheckOwner
<1>9. ASSUME NEW w \in Workers, NEW d \in Deliveries, CheckOwnerFails(w, d) PROVE Leased'
  BY <1>9 DEF CheckOwnerFails
<1>10. ASSUME NEW w \in Workers, NEW taken \in BOOLEAN, NEW heard \in BOOLEAN,
              Post(w, taken, heard)
       PROVE  Leased'
  BY <1>10 DEF Post
<1>11. ASSUME NEW w \in Workers, Settle(w) PROVE Leased'
  <2>1. current[w] \in hand[w] /\ current[w] \in Deliveries
    BY <1>11 DEF Settle
  <2>2. ASSUME NEW d \in Deliveries \ shared', NEW v \in Workers, d \in hand'[v]
        PROVE  lease'[v][d] <= wait'[d]
    <3>1. d \in hand[v] /\ d \notin shared /\ d # current[w]
      BY <1>11, <2>1, <2>2 DEF Settle, LetGo
    <3>2. lease'[v][d] = lease[v][d] /\ wait'[d] = wait[d]
      BY <1>11, <2>1, <3>1 DEF Settle, LetGo
    <3> QED
      BY <3>1, <3>2
  <2> QED
    BY <2>2
<1>12. ASSUME NEW w \in Workers, SettleFails(w) PROVE Leased'
  BY <1>12 DEF SettleFails, LetGo
<1>13. ASSUME NEW w \in Workers, Down(w) PROVE Leased'
  BY <1>13 DEF Down
<1>14. CASE Tick
  <2>1. \A m, n \in Nat : m <= n => Passed(m) <= Passed(n)
    BY DEF Passed
  <2> QED
    BY <1>14, <2>1 DEF Tick
<1>15. CASE UNCHANGED vars
  BY <1>15 DEF vars
<1> QED
  BY <1>1, <1>2, <1>3, <1>4, <1>5, <1>6, <1>7, <1>8, <1>9, <1>10, <1>11, <1>12, <1>13, <1>14, <1>15
  DEF Next, Publish, Work, Attempt

---------------------------------------------------------------------------
\* What justifies a verdict stays: acceptances and drops are kept and rows grow older.
LEMMA JustifiedStep == TypeOK /\ Justified /\ [Next]_vars => Justified'
<1> SUFFICES ASSUME TypeOK, Justified, [Next]_vars PROVE Justified'
  OBVIOUS
<1> USE DEF subVars, rowVars, workerVars, bounds, history
\* Steps that reach no verdict and settle nothing.
<1>a. ASSUME \A d \in Deliveries : /\ status'[d] \in Final => status'[d] = status[d]
                                   /\ accepted[d] > 0 => accepted'[d] > 0
                                   /\ age[d] >= Window => age'[d] >= Window,
             dropped \subseteq dropped',
             \A w \in Workers : step'[w] = "attempted" =>
               step[w] = "attempted" /\ current'[w] = current[w] /\ verdict'[w] = verdict[w]
      PROVE  Justified'
  <2>1. VerdictsJustified'
    BY <1>a DEF Justified, VerdictsJustified, Final
  <2>2. ASSUME NEW w \in Workers, step'[w] = "attempted"
        PROVE  /\ verdict'[w] = "delivered" => accepted'[current'[w]] > 0
               /\ verdict'[w] = "failed" => current'[w] \in dropped' \/ age'[current'[w]] >= Window
    <3>1. current[w] \in Deliveries /\ step[w] = "attempted"
      BY <1>a, <2>2 DEF TypeOK
    <3> QED
      BY <1>a, <2>2, <3>1 DEF Justified
  <2> QED
    BY <2>1, <2>2 DEF Justified
\* A worker reaches a verdict on d.
<1>b. ASSUME NEW w \in Workers, NEW d \in Deliveries, UNCHANGED <<status, age>>,
             \A c \in Deliveries : accepted[c] > 0 => accepted'[c] > 0,
             dropped \subseteq dropped', current'[w] = d,
             \A v \in Workers \ {w} :
               step'[v] = step[v] /\ current'[v] = current[v] /\ verdict'[v] = verdict[v],
             step'[w] = "attempted" =>
               /\ verdict'[w] = "delivered" => accepted'[d] > 0
               /\ verdict'[w] = "failed" => d \in dropped' \/ age[d] >= Window
      PROVE  Justified'
  <2>1. VerdictsJustified'
    BY <1>b DEF Justified, VerdictsJustified
  <2>2. ASSUME NEW v \in Workers \ {w}, step'[v] = "attempted"
        PROVE  /\ verdict'[v] = "delivered" => accepted'[current'[v]] > 0
               /\ verdict'[v] = "failed" => current'[v] \in dropped' \/ age'[current'[v]] >= Window
    <3>1. current[v] \in Deliveries /\ step[v] = "attempted"
      BY <1>b, <2>2 DEF TypeOK
    <3> QED
      BY <1>b, <2>2, <3>1 DEF Justified
  <2> QED
    BY <1>b, <2>1, <2>2 DEF Justified
<1>1. CASE Publish
  <2>1. UNCHANGED <<age, accepted, dropped, step, current, verdict>>
    BY <1>1 DEF Publish, ListSubscriptions, Enqueue, EnqueueFails
  <2>2. \A d \in Deliveries : status'[d] = status[d] \/ status'[d] = "pending"
    BY <1>1 DEF Publish, ListSubscriptions, Enqueue, EnqueueFails, TypeOK
  <2> QED
    BY <1>a, <2>1, <2>2 DEF Final
<1>2. ASSUME NEW s \in Subs, Toggle(s) \/ Revoke(s) PROVE Justified'
  BY <1>2, <1>a DEF Toggle, Revoke, Final
<1>3. ASSUME NEW w \in Workers, Start(w) \/ Sweep(w) PROVE Justified'
  BY <1>3, <1>a DEF Start, Sweep, TypeOK
<1>4. ASSUME NEW w \in Workers, NEW d \in Deliveries, CheckOwner(w, d) PROVE Justified'
  <2>1. /\ UNCHANGED <<status, age, accepted>> /\ dropped \subseteq dropped' /\ current'[w] = d
        /\ \A v \in Workers \ {w} :
             step'[v] = step[v] /\ current'[v] = current[v] /\ verdict'[v] = verdict[v]
    BY <1>4 DEF CheckOwner, TypeOK
  <2>2. step'[w] = "attempted" => verdict'[w] = "failed" /\ d \in dropped'
    BY <1>4 DEF CheckOwner, TypeOK
  <2> QED
    BY <1>b, <2>1, <2>2
<1>5. ASSUME NEW w \in Workers, NEW d \in Deliveries, CheckOwnerFails(w, d) PROVE Justified'
  <2>1. /\ UNCHANGED <<status, age, accepted, dropped>> /\ current'[w] = d
        /\ \A v \in Workers \ {w} :
             step'[v] = step[v] /\ current'[v] = current[v] /\ verdict'[v] = verdict[v]
    BY <1>5 DEF CheckOwnerFails, TypeOK
  <2>2. verdict'[w] # "delivered" /\ (verdict'[w] = "failed" => age[d] >= Window)
    BY <1>5 DEF CheckOwnerFails, TypeOK, VerdictOnError, Exhausted
  <2> QED
    BY <1>b, <2>1, <2>2
<1>6. ASSUME NEW w \in Workers, NEW taken \in BOOLEAN, NEW heard \in BOOLEAN,
             Post(w, taken, heard)
      PROVE  Justified'
  <2> DEFINE d == current[w]
  <2>1. d \in Deliveries
    BY <1>6 DEF Post, TypeOK
  <2>2. /\ UNCHANGED <<status, age, dropped, current>>
        /\ \A v \in Workers \ {w} : step'[v] = step[v] /\ verdict'[v] = verdict[v]
    BY <1>6 DEF Post, TypeOK
  <2>3. /\ \A c \in Deliveries : accepted[c] > 0 => accepted'[c] > 0
        /\ taken => accepted'[d] > 0
    <3>1. accepted[d] \in 0..2 /\ Least(accepted[d] + 1, 2) > 0
      BY <2>1 DEF TypeOK, Least
    <3>2. /\ \A c \in Deliveries \ {d} : accepted'[c] = accepted[c]
          /\ accepted'[d] = IF taken THEN Least(accepted[d] + 1, 2) ELSE accepted[d]
      BY <1>6, <2>1 DEF Post, TypeOK
    <3> HIDE DEF d
    <3> QED
      BY <3>1, <3>2
  <2>4. /\ verdict'[w] = "delivered" => taken
        /\ verdict'[w] = "failed" => age[d] >= Window
    BY <1>6, <2>1 DEF Post, TypeOK, VerdictOnError, Exhausted
  <2> QED
    BY <1>b, <2>1, <2>2, <2>3, <2>4
<1>7. ASSUME NEW w \in Workers, Settle(w) PROVE Justified'
  <2> DEFINE d == current[w]
  <2>1. d \in Deliveries /\ step[w] = "attempted"
    BY <1>7 DEF Settle, TypeOK
  <2>2. UNCHANGED <<age, accepted, dropped, verdict>>
    BY <1>7 DEF Settle, LetGo
  <2>3. /\ step'[w] = "idle"
        /\ \A v \in Workers \ {w} : step'[v] = step[v] /\ current'[v] = current[v]
    BY <1>7 DEF Settle, LetGo, TypeOK
  <2>4. status'[d] \in {status[d], verdict[w]} /\ \A c \in Deliveries \ {d} : status'[c] = status[c]
    BY <1>7, <2>1 DEF Settle, SettledAs, TypeOK
  <2>5. VerdictsJustified'
    BY <2>1, <2>2, <2>4 DEF Justified, VerdictsJustified
  <2> QED
    BY <2>2, <2>3, <2>5 DEF Justified
<1>8. ASSUME NEW w \in Workers, SettleFails(w) \/ Down(w) PROVE Justified'
  BY <1>8, <1>a DEF SettleFails, Down, LetGo, TypeOK
<1>9. CASE Tick
  <2>1. \A n \in Nat : n >= Window => Least(n + 1, Window) >= Window
    BY TimesAssumption DEF Least
  <2>2. \A d \in Deliveries : age[d] >= Window => age'[d] >= Window
    BY <1>9, <2>1 DEF Tick, TypeOK
  <2> QED
    BY <1>9, <1>a, <2>2 DEF Tick
<1>10. CASE UNCHANGED vars
  BY <1>10, <1>a DEF vars
<1> QED
  BY <1>1, <1>2, <1>3, <1>4, <1>5, <1>6, <1>7, <1>8, <1>9, <1>10 DEF Next, Work, Attempt

---------------------------------------------------------------------------
\* A delivery is taken up again only by a worker that finds it pending, and one accepted for
\* sure is pending only until the worker that heard of it has settled it.
LEMMA RecordedStep == TypeOK /\ Held /\ Queued /\ Recorded /\ [Next]_vars => Recorded'
<1> SUFFICES ASSUME TypeOK, Held, Queued, Recorded, [Next]_vars PROVE Recorded'
  OBVIOUS
<1> USE DEF subVars, rowVars, workerVars, bounds, history
\* Steps that accept nothing, queue nothing accepted and leave the hands alone.
<1>a. ASSUME UNCHANGED <<accepted, hand, unsure, shared>>,
             \A d \in Deliveries :
               accepted[d] # 0 /\ d \notin unsure \cup shared /\ status[d] # "absent" =>
                 status'[d] # "absent" /\ (status'[d] = "pending" => status[d] = "pending"),
             \A d \in Deliveries, w \in Workers : Delivering(w, d) => Delivering(w, d)'
      PROVE  Recorded'
  BY <1>a DEF Recorded
\* Steps of worker w, which has accepted deliveries in its hand only to settle them.
<1>b. ASSUME NEW w \in Workers, step[w] # "attempted"
      PROVE  \A d \in hand[w] \ (unsure \cup shared) : accepted[d] = 0
  BY <1>b DEF Recorded, Delivering, TypeOK
<1>1. ASSUME NEW e \in Events, NEW s \in Subs, Enqueue(e, s) PROVE Recorded'
  <2>1. \A d \in Deliveries : status[d] # "absent" => status'[d] = status[d]
    <3>1. status[<<e, s>>] = "absent"
      BY <1>1 DEF Enqueue, Queued
    <3> QED
      BY <1>1, <3>1 DEF Enqueue, TypeOK
  <2> QED
    BY <1>1, <1>a, <2>1 DEF Enqueue, Delivering
<1>2. ASSUME NEW e \in Events, ListSubscriptions(e) \/ \E s \in Subs : EnqueueFails(e, s)
      PROVE  Recorded'
  BY <1>2, <1>a DEF ListSubscriptions, EnqueueFails, Delivering
<1>3. ASSUME NEW s \in Subs, Toggle(s) \/ Revoke(s) PROVE Recorded'
  BY <1>3, <1>a DEF Toggle, Revoke, Delivering
<1>4. ASSUME NEW w \in Workers, Start(w) PROVE Recorded'
  BY <1>4, <1>a DEF Start, Delivering, TypeOK
<1>5. ASSUME NEW w \in Workers, Sweep(w) PROVE Recorded'
  <2>1. PICK B \in SUBSET Due :
          /\ hand' = [hand EXCEPT ![w] = B]
          /\ shared' = shared \cup {d \in B : \E v \in Workers : d \in hand[v]}
    BY <1>5 DEF Sweep
  <2>2. /\ UNCHANGED <<accepted, unsure, status, step, current, verdict>>
        /\ hand[w] = {} /\ hand'[w] = B /\ \A v \in Workers \ {w} : hand'[v] = hand[v]
    BY <1>5, <2>1 DEF Sweep, TypeOK
  <2>3. ASSUME NEW d \in Deliveries \ (unsure' \cup shared'), accepted'[d] # 0
        PROVE  /\ accepted'[d] = 1 /\ status'[d] # "absent"
               /\ \A v \in Workers : d \in hand'[v] => Delivering(v, d)'
               /\ status'[d] = "pending" => \E v \in Workers : d \in hand'[v]
    <3>1. d \notin unsure \cup shared /\ accepted[d] # 0
      BY <2>1, <2>2, <2>3
    <3>2. /\ accepted[d] = 1 /\ status[d] # "absent"
          /\ \A v \in Workers : d \in hand[v] => Delivering(v, d)
          /\ status[d] = "pending" => \E v \in Workers : d \in hand[v]
      BY <3>1 DEF Recorded
    <3>3. d \notin B
      <4>1. d \in B => status[d] = "pending"
        BY DEF Due
      <4> QED
        BY <2>1, <2>3, <3>2, <4>1
    <3>4. \A v \in Workers : d \in hand'[v] <=> d \in hand[v]
      BY <2>2, <3>3
    <3>5. \A v \in Workers : Delivering(v, d)' <=> Delivering(v, d)
      BY <2>2 DEF Delivering
    <3> QED
      BY <2>2, <3>2, <3>4, <3>5
  <2> QED
    BY <2>3 DEF Recorded
<1>6. ASSUME NEW w \in Workers, NEW d \in Deliveries, CheckOwner(w, d) \/ CheckOwnerFails(w, d)
      PROVE  Recorded'
  <2>1. /\ UNCHANGED <<accepted, hand, unsure, shared, status>> /\ step[w] = "idle"
        /\ \A v \in Workers \ {w} :
             step'[v] = step[v] /\ current'[v] = current[v] /\ verdict'[v] = verdict[v]
    BY <1>6 DEF CheckOwner, CheckOwnerFails, TypeOK
  <2>2. \A c \in Deliveries, v \in Workers : Delivering(v, c) => Delivering(v, c)'
    BY <2>1 DEF Delivering
  <2> QED
    BY <1>a, <2>1, <2>2
<1>7. ASSUME NEW w \in Workers, NEW taken \in BOOLEAN, NEW heard \in BOOLEAN,
             Post(w, taken, heard)
      PROVE  Recorded'
  <2>0. PICK d \in Deliveries : d = current[w] /\ d \in hand[w] /\ status[d] # "absent"
    BY <1>7 DEF Post, TypeOK, Held
  <2>1. /\ UNCHANGED <<hand, shared, status, current>>
        /\ unsure' = IF taken /\ ~heard THEN unsure \cup {d} ELSE unsure
        /\ accepted' = [accepted EXCEPT ![d] = IF taken THEN Least(@ + 1, 2) ELSE @]
        /\ step[w] = "checked" /\ step'[w] = "attempted" /\ (heard => verdict'[w] = "delivered")
        /\ \A v \in Workers \ {w} : step'[v] = step[v] /\ verdict'[v] = verdict[v]
    BY <1>7, <2>0 DEF Post, TypeOK
  <2>2. /\ \A c \in Deliveries \ {d} : accepted'[c] = accepted[c]
        /\ accepted[d] = 0 => accepted'[d] = IF taken THEN 1 ELSE 0
    BY <2>1 DEF TypeOK, Least
  <2>3. ASSUME NEW c \in Deliveries \ (unsure' \cup shared'), accepted'[c] # 0
        PROVE  /\ accepted'[c] = 1 /\ status'[c] # "absent"
               /\ \A v \in Workers : c \in hand'[v] => Delivering(v, c)'
               /\ status'[c] = "pending" => \E v \in Workers : c \in hand'[v]
    <3>1. c \notin unsure \cup shared
      BY <2>1, <2>3
    <3>2. CASE c = d
      <4>1. accepted'[d] = 1 /\ taken
        BY <1>b, <2>0, <2>1, <2>2, <2>3, <3>1, <3>2
      <4>2. heard
        BY <2>1, <2>3, <3>2, <4>1
      <4>3. Delivering(w, d)'
        BY <2>0, <2>1, <4>2 DEF Delivering
      <4>4. \A v \in Workers \ {w} : d \notin hand[v]
        BY <2>0, <3>1, <3>2 DEF Held
      <4> QED
        BY <2>0, <2>1, <3>2, <4>1, <4>3, <4>4
    <3>3. CASE c # d
      <4>1. accepted'[c] = accepted[c]
        BY <2>2, <3>3
      <4>2. \A v \in Workers : Delivering(v, c) => Delivering(v, c)'
        BY <2>1, <2>0, <3>3 DEF Delivering
      <4>3. /\ accepted[c] = 1 /\ status[c] # "absent"
            /\ \A v \in Workers : c \in hand[v] => Delivering(v, c)
            /\ status[c] = "pending" => \E v \in Workers : c \in hand[v]
        BY <2>3, <3>1, <4>1 DEF Recorded
      <4> QED
        BY <2>1, <4>1, <4>2, <4>3
    <3> QED
      BY <3>2, <3>3
  <2> QED
    BY <2>3 DEF Recorded
<1>8. ASSUME NEW w \in Workers, LetGo(w), step[w] = "attempted",
             NEW d \in Deliveries, d = current[w], UNCHANGED <<accepted, shared>>,
             \A c \in Deliveries \ {d} : status'[c] = status[c],
             unsure \subseteq unsure',
             accepted[d] # 0 /\ d \notin unsure' \cup shared =>
               status'[d] \notin {"pending", "absent"}
      PROVE  Recorded'
  <2>1. /\ hand'[w] = hand[w] \ {d}
        /\ \A v \in Workers \ {w} :
             /\ hand'[v] = hand[v] /\ step'[v] = step[v]
             /\ current'[v] = current[v] /\ verdict'[v] = verdict[v]
    BY <1>8 DEF LetGo, TypeOK
  <2>2. ASSUME NEW c \in Deliveries \ (unsure' \cup shared'), accepted'[c] # 0
        PROVE  /\ accepted'[c] = 1 /\ status'[c] # "absent"
               /\ \A v \in Workers : c \in hand'[v] => Delivering(v, c)'
               /\ status'[c] = "pending" => \E v \in Workers : c \in hand'[v]
    <3>1. c \notin unsure \cup shared /\ accepted[c] # 0
      BY <1>8, <2>2
    <3>2. /\ accepted[c] = 1 /\ status[c] # "absent"
          /\ \A v \in Workers : c \in hand[v] => Delivering(v, c)
          /\ status[c] = "pending" => \E v \in Workers : c \in hand[v]
      BY <3>1 DEF Recorded
    <3>3. c \notin hand'[w]
      BY <1>8, <2>1, <3>2 DEF Delivering
    <3>4. \A v \in Workers : c \in hand'[v] => Delivering(v, c)'
      BY <2>1, <3>2, <3>3 DEF Delivering
    <3>5. CASE c = d
      BY <1>8, <2>2, <3>1, <3>2, <3>4, <3>5
    <3>6. CASE c # d
      <4>1. c \notin hand[w]
        BY <2>1, <3>3, <3>6
      <4> QED
        BY <1>8, <2>1, <3>2, <3>4, <3>6, <4>1
    <3> QED
      BY <3>5, <3>6
  <2> QED
    BY <2>2 DEF Recorded
<1>9. ASSUME NEW w \in Workers, step[w] = "attempted", NEW d \in Deliveries, d = current[w],
             d \notin unsure \cup shared, accepted[d] # 0
      PROVE  verdict[w] = "delivered" /\ status[d] # "absent"
  <2>1. d \in hand[w]
    BY <1>9 DEF TypeOK
  <2> QED
    BY <1>9, <2>1 DEF Recorded, Delivering
<1>10. ASSUME NEW w \in Workers, Settle(w) PROVE Recorded'
  <2>1. PICK d \in Deliveries : d = current[w] /\ d \in hand[w]
    BY <1>10 DEF Settle, TypeOK
  <2>2. /\ UNCHANGED <<accepted, shared, unsure>> /\ LetGo(w) /\ step[w] = "attempted"
        /\ \A c \in Deliveries \ {d} : status'[c] = status[c]
        /\ status'[d] = IF status[d] = "gone" THEN "gone" ELSE verdict[w]
    BY <1>10, <2>1 DEF Settle, SettledAs, TypeOK
  <2>3. accepted[d] # 0 /\ d \notin unsure' \cup shared => status'[d] \in {"gone", "delivered"}
    BY <1>9, <2>1, <2>2
  <2> QED
    BY <1>8, <2>1, <2>2, <2>3
<1>11. ASSUME NEW w \in Workers, SettleFails(w) PROVE Recorded'
  <2>1. PICK d \in Deliveries : d = current[w] /\ d \in hand[w]
    BY <1>11 DEF SettleFails, TypeOK
  <2>2. /\ UNCHANGED <<accepted, shared, status>> /\ LetGo(w) /\ step[w] = "attempted"
        /\ unsure' = IF verdict[w] = "delivered" THEN unsure \cup {d} ELSE unsure
    BY <1>11, <2>1 DEF SettleFails
  <2>3. accepted[d] # 0 => d \in unsure' \cup shared
    BY <1>9, <2>1, <2>2
  <2> QED
    BY <1>8, <2>1, <2>2, <2>3
<1>12. ASSUME NEW w \in Workers, Down(w) PROVE Recorded'
  <2>1. /\ UNCHANGED <<accepted, shared, status, verdict>>
        /\ unsure' = IF step[w] = "attempted" /\ verdict[w] = "delivered"
                       THEN unsure \cup {current[w]} ELSE unsure
        /\ hand'[w] = {}
        /\ \A v \in Workers \ {w} :
             hand'[v] = hand[v] /\ step'[v] = step[v] /\ current'[v] = current[v]
    BY <1>12 DEF Down, TypeOK
  <2>2. ASSUME NEW c \in Deliveries \ (unsure' \cup shared'), accepted'[c] # 0
        PROVE  /\ accepted'[c] = 1 /\ status'[c] # "absent"
               /\ \A v \in Workers : c \in hand'[v] => Delivering(v, c)'
               /\ status'[c] = "pending" => \E v \in Workers : c \in hand'[v]
    <3>1. c \notin unsure \cup shared /\ accepted[c] # 0
      BY <2>1, <2>2
    <3>2. /\ accepted[c] = 1 /\ status[c] # "absent"
          /\ \A v \in Workers : c \in hand[v] => Delivering(v, c)
          /\ status[c] = "pending" => \E v \in Workers : c \in hand[v]
      BY <3>1 DEF Recorded
    <3>3. c \notin hand[w]
      BY <2>1, <2>2, <3>2 DEF Delivering
    <3>4. \A v \in Workers : c \in hand'[v] => Delivering(v, c)'
      BY <2>1, <3>2 DEF Delivering
    <3> QED
      BY <2>1, <3>2, <3>3, <3>4
  <2> QED
    BY <2>2 DEF Recorded
<1>13. CASE Tick
  BY <1>13, <1>a DEF Tick, Delivering
<1>14. CASE UNCHANGED vars
  BY <1>14, <1>a DEF vars, Delivering
<1>15. CASE Publish
  BY <1>1, <1>2, <1>15 DEF Publish
<1>16. ASSUME NEW w \in Workers, Work(w) PROVE Recorded'
  BY <1>4, <1>5, <1>6, <1>7, <1>10, <1>11, <1>16 DEF Work, Attempt
<1> QED
  BY <1>3, <1>12, <1>13, <1>14, <1>15, <1>16 DEF Next

---------------------------------------------------------------------------
\* The size of a set of workers, and as one leaves it.
LEMMA Sizes ==
  ASSUME NEW S \in SUBSET Workers
  PROVE  /\ Cardinality(S) \in Nat /\ Cardinality(Workers) \in Nat
         /\ Cardinality(S) <= Cardinality(Workers)
         /\ \A T \in SUBSET S : Cardinality(T) <= Cardinality(S)
         /\ \A w \in S : Cardinality(S \ {w}) = Cardinality(S) - 1
<1>1. IsFiniteSet(S) /\ Cardinality(S) <= Cardinality(Workers)
  BY WorkersAssumption, FS_Subset
<1>2. Cardinality(S) \in Nat /\ Cardinality(Workers) \in Nat
  BY <1>1, WorkersAssumption, FS_CardinalityType
<1>3. \A T \in SUBSET S : Cardinality(T) <= Cardinality(S)
  BY <1>1, FS_Subset
<1>4. \A w \in S : Cardinality(S \ {w}) = Cardinality(S) - 1
  BY <1>1, FS_RemoveElement
<1> QED
  BY <1>1, <1>2, <1>3, <1>4

\* No worker sets out to post to a subscription whose account it finds disabled or gone, and
\* each late post is of a worker that had set out.
LEMMA LateStep == TypeOK /\ Late /\ [Next]_vars => Late'
<1> SUFFICES ASSUME TypeOK, Late, [Next]_vars, NEW s \in Subs
             PROVE  /\ s \notin disabled' \cup revoked' => lateposts'[s] = 0
                    /\ lateposts'[s] + Cardinality(Posting(s)') <= Cardinality(Workers)
  BY DEF Late
<1> DEFINE LateOf == /\ s \notin disabled' \cup revoked' => lateposts'[s] = 0
                     /\ lateposts'[s] + Cardinality(Posting(s)') <= Cardinality(Workers)
<1> USE DEF subVars, rowVars, workerVars, bounds, history
<1>a. /\ lateposts[s] \in Nat /\ (s \notin disabled \cup revoked => lateposts[s] = 0)
      /\ lateposts[s] + Cardinality(Posting(s)) <= Cardinality(Workers)
  BY DEF Late, TypeOK
<1>b. Posting(s) \in SUBSET Workers /\ Posting(s)' \in SUBSET Workers
  BY DEF Posting
\* Steps that set out for nothing.
<1>c. ASSUME Posting(s)' \subseteq Posting(s), lateposts'[s] \in {0, lateposts[s]},
             s \notin disabled' \cup revoked' => s \notin disabled \cup revoked \/ lateposts'[s] = 0
      PROVE  LateOf
  <2>1. /\ Cardinality(Posting(s)) \in Nat /\ Cardinality(Posting(s)') \in Nat
        /\ Cardinality(Posting(s)') <= Cardinality(Posting(s)) /\ Cardinality(Workers) \in Nat
    BY <1>b, <1>c, Sizes
  <2> QED
    BY <1>a, <1>c, <2>1
<1>d. ASSUME \A w \in Workers : step'[w] = "checked" => step[w] = "checked" /\ current'[w] = current[w]
      PROVE  Posting(s)' \subseteq Posting(s)
  BY <1>d DEF Posting
<1>1. CASE Publish
  BY <1>1, <1>c, <1>d DEF Publish, ListSubscriptions, Enqueue, EnqueueFails
<1>2. ASSUME NEW r \in Subs, Toggle(r) PROVE LateOf
  <2>1. Posting(s)' \subseteq Posting(s) /\ revoked' = revoked
    BY <1>2, <1>d DEF Toggle
  <2>2. /\ s # r => lateposts'[s] = lateposts[s] /\ (s \in disabled' <=> s \in disabled)
        /\ s = r => lateposts'[s] = IF s \in revoked THEN lateposts[s] ELSE 0
    BY <1>2 DEF Toggle, TypeOK
  <2> QED
    BY <1>a, <1>c, <2>1, <2>2
<1>3. ASSUME NEW r \in Subs, Revoke(r) PROVE LateOf
  <2>1. Posting(s)' \subseteq Posting(s)
    BY <1>3, <1>d DEF Revoke
  <2>2. /\ disabled' = disabled /\ revoked \subseteq revoked'
        /\ lateposts'[s] \in {0, lateposts[s]}
    BY <1>3 DEF Revoke, TypeOK
  <2> QED
    BY <1>c, <2>1, <2>2
<1>4. ASSUME NEW w \in Workers, Start(w) \/ Sweep(w) PROVE LateOf
  BY <1>4, <1>c, <1>d DEF Start, Sweep, TypeOK
<1>5. ASSUME NEW w \in Workers, NEW d \in Deliveries, CheckOwner(w, d) PROVE LateOf
  <2>1. UNCHANGED <<lateposts, disabled, revoked>>
    BY <1>5 DEF CheckOwner
  <2>2. CASE s \in disabled \cup revoked
    <3>1. \A v \in Workers \ {w} : step'[v] = step[v] /\ current'[v] = current[v]
      BY <1>5 DEF CheckOwner, TypeOK
    <3>2. step'[w] = "checked" => current'[w][2] # s
      BY <1>5, <2>2 DEF CheckOwner, OwnerDisabled, TypeOK
    <3>3. Posting(s)' \subseteq Posting(s)
      BY <3>1, <3>2 DEF Posting
    <3> QED
      BY <1>c, <2>1, <3>3
  <2>3. CASE s \notin disabled \cup revoked
    <3>1. /\ Cardinality(Posting(s)') \in Nat /\ Cardinality(Workers) \in Nat
          /\ Cardinality(Posting(s)') <= Cardinality(Workers)
      BY <1>b, Sizes
    <3> QED
      BY <1>a, <2>1, <2>3, <3>1
  <2> QED
    BY <2>2, <2>3
<1>6. ASSUME NEW w \in Workers, NEW d \in Deliveries, CheckOwnerFails(w, d) PROVE LateOf
  BY <1>6, <1>c, <1>d DEF CheckOwnerFails, TypeOK
<1>7. ASSUME NEW w \in Workers, NEW taken \in BOOLEAN, NEW heard \in BOOLEAN,
             Post(w, taken, heard)
      PROVE  LateOf
  <2>1. PICK d \in Deliveries : d = current[w]
    BY <1>7 DEF Post, TypeOK
  <2>2. /\ UNCHANGED <<disabled, revoked, current>> /\ step[w] = "checked"
        /\ lateposts' = [lateposts EXCEPT ![d[2]] = IF d[2] \in disabled \cup revoked THEN @ + 1 ELSE @]
        /\ step'[w] = "attempted" /\ \A v \in Workers \ {w} : step'[v] = step[v]
    BY <1>7, <2>1 DEF Post, TypeOK
  <2>3. CASE d[2] = s /\ s \in disabled \cup revoked
    <3>1. lateposts'[s] = lateposts[s] + 1
      BY <2>2, <2>3 DEF TypeOK
    <3>2. w \in Posting(s) /\ Posting(s)' = Posting(s) \ {w}
      BY <2>1, <2>2, <2>3 DEF Posting
    <3>3. /\ Cardinality(Posting(s)') = Cardinality(Posting(s)) - 1
          /\ Cardinality(Posting(s)) \in Nat /\ Cardinality(Workers) \in Nat
      BY <1>b, <3>2, Sizes
    <3> QED
      BY <1>a, <2>2, <2>3, <3>1, <3>3
  <2>4. CASE d[2] # s \/ s \notin disabled \cup revoked
    <3>1. lateposts'[s] = lateposts[s]
      BY <2>2, <2>4 DEF TypeOK
    <3>2. Posting(s)' \subseteq Posting(s)
      BY <2>2 DEF Posting
    <3> QED
      BY <1>c, <2>2, <3>1, <3>2
  <2> QED
    BY <2>3, <2>4
<1>8. ASSUME NEW w \in Workers, Settle(w) \/ SettleFails(w) \/ Down(w) PROVE LateOf
  BY <1>8, <1>c, <1>d DEF Settle, SettleFails, Down, LetGo, TypeOK
<1>9. CASE Tick \/ UNCHANGED vars
  BY <1>9, <1>c, <1>d DEF Tick, vars
<1>10. ASSUME NEW w \in Workers, Work(w) PROVE LateOf
  BY <1>4, <1>5, <1>6, <1>7, <1>8, <1>10 DEF Work, Attempt
<1> QED
  BY <1>1, <1>2, <1>3, <1>8, <1>9, <1>10 DEF Next

---------------------------------------------------------------------------
IInv == TypeOK /\ Held /\ Queued /\ Leased /\ Justified /\ Recorded /\ Late

\* The first state satisfies the invariant: nothing is queued and every hand is empty.
LEMMA InitIInv == Init => IInv
<1> SUFFICES ASSUME Init PROVE IInv
  OBVIOUS
<1>1. TypeOK
  BY TimesAssumption DEF Init, TypeOK, Final
<1>2. Held /\ Leased
  BY DEF Init, Held, Leased
<1>3. Queued
  BY DEF Init, Queued, Deliveries
<1>4. Justified /\ Recorded
  BY <1>1 DEF Init, Justified, VerdictsJustified, Recorded
<1>5. Late
  <2>1. \A s \in Subs : Posting(s) = {} /\ lateposts[s] = 0
    BY DEF Init, Posting
  <2>2. Cardinality({}) = 0 /\ Cardinality(Workers) \in Nat
    BY WorkersAssumption, FS_EmptySet, FS_CardinalityType
  <2> QED
    BY <2>1, <2>2 DEF Late
<1> QED
  BY <1>1, <1>2, <1>3, <1>4, <1>5 DEF IInv

\* Every step keeps the invariant.
LEMMA IInvStep == IInv /\ [Next]_vars => IInv'
  BY TypeStep, HeldStep, LeasedStep, JustifiedStep, RecordedStep, LateStep DEF IInv

\* The queue, the workers and the history keep their types.
THEOREM TypeCorrect == Spec => []TypeOK
<1>1. IInv => TypeOK
  BY DEF IInv
<1> QED
  BY <1>1, InitIInv, IInvStep, PTL DEF Spec

\* No statement of any worker unsettles a settled delivery two workers never held at once: a
\* step that writes a status writes that of a pending delivery or one without a row.
LEMMA FinalStep ==
  IInv /\ [Next]_vars =>
    \A d \in Deliveries \ shared : status[d] \in Final => status'[d] \in {status[d], "gone"}
<1> SUFFICES ASSUME IInv, [Next]_vars,
                    NEW d \in Deliveries \ shared, status[d] \in Final
             PROVE  status'[d] \in {status[d], "gone"}
  OBVIOUS
<1> USE DEF IInv, TypeOK, subVars, rowVars, workerVars, bounds, history, Final
<1>1. ASSUME NEW e \in Events, NEW s \in Subs, Enqueue(e, s)
      PROVE  status'[d] = status[d]
  <2>1. status[<<e, s>>] = "absent"
    BY <1>1 DEF Enqueue, Queued
  <2> QED
    BY <1>1, <2>1 DEF Enqueue
<1>2. ASSUME NEW s \in Subs, Revoke(s) PROVE status'[d] \in {status[d], "gone"}
  BY <1>2 DEF Revoke
<1>3. ASSUME NEW w \in Workers, Settle(w) PROVE status'[d] = status[d]
  <2>1. current[w] \in hand[w] /\ current[w] # d
    BY <1>3 DEF Settle, Held
  <2> QED
    BY <1>3, <2>1 DEF Settle
<1>4. ASSUME NEW w \in Workers, Work(w), ~Settle(w) PROVE status'[d] = status[d]
  BY <1>4 DEF Work, Start, Sweep, Attempt, CheckOwner, CheckOwnerFails, Post, SettleFails
<1>5. ASSUME NEW w \in Workers, Down(w) PROVE status'[d] = status[d]
  BY <1>5 DEF Down
<1>6. ASSUME NEW e \in Events, ListSubscriptions(e) \/ \E s \in Subs : EnqueueFails(e, s)
      PROVE  status'[d] = status[d]
  BY <1>6 DEF ListSubscriptions, EnqueueFails
<1>7. ASSUME NEW s \in Subs, Toggle(s) PROVE status'[d] = status[d]
  BY <1>7 DEF Toggle
<1>8. CASE Tick \/ UNCHANGED vars
  BY <1>8 DEF Tick, vars
<1> QED
  BY <1>1, <1>2, <1>3, <1>4, <1>5, <1>6, <1>7, <1>8 DEF Next, Publish

\* A settled delivery stays settled until its subscription is revoked (SettleDelivery), unless
\* two workers held it at once.
THEOREM SettledStays == Spec => FinalStays
<1>1. IInv /\ [Next]_vars =>
        [\A d \in Deliveries \ shared :
           status[d] \in Final => status'[d] \in {status[d], "gone"}]_vars
  BY FinalStep
<1> QED
  BY <1>1, InitIInv, IInvStep, PTL DEF Spec, FinalStays

\* Only a sweep fills a hand, and it takes rows that are due, whose claims have run out.
LEMMA ClaimStep ==
  IInv /\ [Next]_vars =>
    \A d \in Deliveries, v, w \in Workers :
      (/\ v # w /\ d \notin shared
       /\ d \in hand[v] /\ d \notin hand[w] /\ d \in hand'[w]) => lease[v][d] = 0
<1> SUFFICES ASSUME IInv, [Next]_vars,
                    NEW d \in Deliveries, NEW v \in Workers, NEW w \in Workers,
                    v # w, d \notin shared, d \in hand[v], d \notin hand[w], d \in hand'[w]
             PROVE  lease[v][d] = 0
  OBVIOUS
<1> USE DEF IInv, TypeOK, subVars, rowVars, workerVars, bounds, history
<1>1. ASSUME NEW u \in Workers, Sweep(u) PROVE lease[v][d] = 0
  <2>1. PICK B \in SUBSET Due : hand' = [hand EXCEPT ![u] = B]
    BY <1>1 DEF Sweep
  <2>2. d \in Due
    BY <2>1
  <2> QED
    BY <2>2 DEF Due, Leased
<1>2. ASSUME NEW u \in Workers, Work(u), ~Sweep(u) PROVE hand'[w] \subseteq hand[w]
  BY <1>2 DEF Work, Start, Attempt, CheckOwner, CheckOwnerFails, Post, Settle, SettleFails, LetGo
<1>3. ASSUME NEW u \in Workers, Down(u) PROVE hand'[w] \subseteq hand[w]
  BY <1>3 DEF Down
<1>4. CASE Publish
  BY <1>4 DEF Publish, ListSubscriptions, Enqueue, EnqueueFails
<1>5. ASSUME NEW s \in Subs, Toggle(s) \/ Revoke(s) PROVE hand' = hand
  BY <1>5 DEF Toggle, Revoke
<1>6. CASE Tick \/ UNCHANGED vars
  BY <1>6 DEF Tick, vars
<1> QED
  BY <1>1, <1>2, <1>3, <1>4, <1>5, <1>6 DEF Next

\* A delivery comes into a second hand only after the first one's lease ran out
\* (ClaimDueDeliveries).
THEOREM ClaimsExclude == Spec => ClaimExclusive
<1>1. IInv /\ [Next]_vars =>
        [\A d \in Deliveries, v, w \in Workers :
           (/\ v # w /\ d \notin shared
            /\ d \in hand[v] /\ d \notin hand[w] /\ d \in hand'[w]) => lease[v][d] = 0]_vars
  BY ClaimStep
<1> QED
  BY <1>1, InitIInv, IInvStep, PTL DEF Spec, ClaimExclusive

\* A final status says what happened: an acceptance, a disabled owner or a window spent
\* (Dispatcher attempts and their settling).
THEOREM StatusesJustified == Spec => []VerdictsJustified
<1>1. IInv => VerdictsJustified
  BY DEF IInv, Justified
<1> QED
  BY <1>1, InitIInv, IInvStep, PTL DEF Spec

\* A subscriber accepts a delivery a second time only when the first acceptance was not
\* recorded or two workers held the row.
THEOREM SecondsUnsure == Spec => []SecondOnlyIfUnsure
<1>1. IInv => SecondOnlyIfUnsure
  BY DEF IInv, Recorded, SecondOnlyIfUnsure
<1> QED
  BY <1>1, InitIInv, IInvStep, PTL DEF Spec

\* After an account is disabled or a subscription revoked, each worker posts to it at most once
\* more: the request it had already checked the owner for.
THEOREM LatePostsBounded == Spec => []FewLatePosts
<1>1. IInv => FewLatePosts
  <2> SUFFICES ASSUME IInv, NEW s \in Subs PROVE lateposts[s] <= Cardinality(Workers)
    BY DEF FewLatePosts
  <2>1. Cardinality(Posting(s)) \in Nat /\ Cardinality(Workers) \in Nat
    <3>1. Posting(s) \in SUBSET Workers
      BY DEF Posting
    <3> QED
      BY <3>1, Sizes
  <2>2. lateposts[s] \in Nat /\ lateposts[s] + Cardinality(Posting(s)) <= Cardinality(Workers)
    BY DEF IInv, TypeOK, Late
  <2> QED
    BY <2>1, <2>2
<1> QED
  BY <1>1, InitIInv, IInvStep, PTL DEF Spec

=============================================================================
