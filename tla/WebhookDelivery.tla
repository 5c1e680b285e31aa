-------------------------- MODULE WebhookDelivery --------------------------
(***************************************************************************)
(* Webhooks: publishing an event queues one delivery row per subscription  *)
(* that wants it, and workers claim due rows under a lease, post them and  *)
(* settle them.  Nothing in the settling statement looks at the row it     *)
(* overwrites, so who may hold a row and when is all that keeps a settled  *)
(* delivery settled.                                                       *)
(*                                                                         *)
(* Time is counted in ticks and stored as what is left of it: a row's wait *)
(* until due, its age since it was queued, a claim's lease.  Each worker   *)
(* is a process; the stock install runs one.                               *)
(***************************************************************************)
EXTENDS Naturals, FiniteSets

CONSTANTS
  Workers,     \* processes sweeping the queue
  Events,      \* events, each published once
  Subs,        \* subscriptions that want them, one account each
  None,        \* no delivery in hand
  Batch,       \* sweepBatch
  Lease,       \* sweepLease, in ticks
  Window,      \* RetryWindow, in ticks
  MaxBackoff,  \* maxBackoff, in ticks of the base delay
  MaxFaults,   \* bound on failed database calls of publishers and workers
  MaxDowns,    \* bound on worker stops
  MaxToggles   \* bound on accounts disabled or enabled again

Deliveries == Events \X Subs

ASSUME NoneAssumption == None \notin Deliveries
ASSUME WorkersAssumption == IsFiniteSet(Workers)
ASSUME TimesAssumption ==
  /\ Batch \in Nat \ {0} /\ Lease \in Nat \ {0} /\ Window \in Nat /\ MaxBackoff \in Nat \ {0}
  /\ MaxFaults \in Nat /\ MaxDowns \in Nat /\ MaxToggles \in Nat

VARIABLES
  matched,                      \* per event, the subscriptions still to queue it for; {} at rest
  published,                    \* the events whose subscriptions were listed
  revoked, disabled,            \* subscriptions deleted, and those whose account is disabled
  status, attempts, wait, age,  \* the delivery rows
  step,                         \* per worker: "down", "idle", "checked" or "attempted"
  hand,                         \* per worker, the claimed deliveries not yet settled
  lease,                        \* per worker and delivery, what is left of the claim
  tries,                        \* per worker and delivery, the attempts the claim was answered
  current,                      \* per worker, the delivery being attempted
  verdict,                      \* per worker, the status the attempt came to
  faults, downs, toggles

\* History, read by no action's guard.
VARIABLES
  posted,     \* the delivery ids X-AlphOne-Delivery has carried
  accepted,   \* per delivery, the requests its subscriber accepted, up to 2
  unsure,     \* deliveries accepted by a request whose outcome was not recorded
  shared,     \* deliveries ever in two hands at once
  dropped,    \* deliveries an attempt found the owner disabled for
  lateposts   \* per subscription, posts since it was revoked or its account disabled

subVars    == <<revoked, disabled>>
rowVars    == <<status, attempts, wait, age>>
workerVars == <<step, hand, lease, tries, current, verdict>>
history    == <<posted, accepted, unsure, shared, dropped, lateposts>>
bounds     == <<faults, downs, toggles>>
vars == <<matched, published, subVars, rowVars, workerVars, bounds, history>>

Final == {"delivered", "failed"}

Least(a, b) == IF a < b THEN a ELSE b

\* The base delay doubles with each attempt up to maxBackoff, which attempt number MaxBackoff
\* has reached at the latest: later ones are not told apart.
Backoff(n) == IF 2 ^ (n - 1) \in 1..MaxBackoff THEN 2 ^ (n - 1) ELSE MaxBackoff

\* Slips the runs must notice: giving up on any failed attempt, and on none.
ExhaustedAlways(d) == TRUE
ExhaustedNever(d)  == FALSE

Exhausted(d) == age[d] >= Window

---------------------------------------------------------------------------
(* Publishing.                                                             *)

\* ListSubscriptionsForEvent: the subscriptions of enabled accounts.
ListSubscriptions(e) ==
  /\ e \notin published
  /\ published' = published \cup {e}
  /\ matched' = [matched EXCEPT ![e] = Subs \ (revoked \cup disabled)]
  /\ UNCHANGED <<subVars, rowVars, workerVars, bounds, history>>

\* EnqueueDelivery: a row due at once, or none when the subscription was revoked meanwhile.
Enqueue(e, s) ==
  /\ s \in matched[e]
  /\ matched' = [matched EXCEPT ![e] = @ \ {s}]
  /\ status' = [status EXCEPT ![<<e, s>>] = IF s \in revoked THEN @ ELSE "pending"]
  /\ UNCHANGED <<published, subVars, attempts, wait, age, workerVars, bounds, history>>

\* The insert fails, is logged, and the loop goes on.
EnqueueFails(e, s) ==
  /\ s \in matched[e]
  /\ faults < MaxFaults
  /\ faults' = faults + 1
  /\ matched' = [matched EXCEPT ![e] = @ \ {s}]
  /\ UNCHANGED <<published, subVars, rowVars, workerVars, downs, toggles, history>>

---------------------------------------------------------------------------
(* Accounts and subscriptions.                                             *)

Toggle(s) ==
  /\ toggles < MaxToggles
  /\ toggles' = toggles + 1
  /\ disabled' = IF s \in disabled THEN disabled \ {s} ELSE disabled \cup {s}
  /\ lateposts' = [lateposts EXCEPT ![s] = IF s \in revoked THEN @ ELSE 0]
  /\ UNCHANGED <<matched, published, revoked, rowVars, workerVars, faults, downs,
                 posted, accepted, unsure, shared, dropped>>

\* DeleteSubscription: its deliveries go with it.
Revoke(s) ==
  /\ s \notin revoked
  /\ revoked' = revoked \cup {s}
  /\ status' = [d \in Deliveries |-> IF d[2] = s /\ status[d] # "absent" THEN "gone" ELSE status[d]]
  /\ lateposts' = [lateposts EXCEPT ![s] = IF s \in disabled THEN @ ELSE 0]
  /\ UNCHANGED <<matched, published, disabled, attempts, wait, age, workerVars, bounds,
                 posted, accepted, unsure, shared, dropped>>

---------------------------------------------------------------------------
(* Workers.                                                                *)

Start(w) ==
  /\ step[w] = "down"
  /\ step' = [step EXCEPT ![w] = "idle"]
  /\ UNCHANGED <<matched, published, subVars, rowVars, hand, lease, tries, current, verdict,
                 bounds, history>>

\* A slip the runs must notice: a claim that does not look at the status.
DueWhateverStatus == {d \in Deliveries : status[d] \in {"pending"} \cup Final /\ wait[d] = 0}

Due == {d \in Deliveries : status[d] = "pending" /\ wait[d] = 0}

\* A slip the runs must notice: a claim that leaves the row due.
NoLeaseTaken(B) == [d \in Deliveries |-> wait[d]]

LeaseTaken(B) == [d \in Deliveries |-> IF d \in B THEN Lease ELSE wait[d]]

\* ClaimDueDeliveries, on a tick or a nudge; the order of due rows is left open.
Sweep(w) ==
  /\ step[w] = "idle"
  /\ hand[w] = {}
  /\ \E B \in SUBSET Due :
       /\ B # {}
       /\ Cardinality(B) <= Batch
       /\ Cardinality(B) < Batch => B = Due
       /\ attempts' = [d \in Deliveries |->
                         IF d \in B THEN Least(attempts[d] + 1, MaxBackoff) ELSE attempts[d]]
       /\ wait' = LeaseTaken(B)
       /\ hand' = [hand EXCEPT ![w] = B]
       /\ lease' = [lease EXCEPT ![w] = [d \in Deliveries |-> IF d \in B THEN Lease ELSE 0]]
       /\ tries' = [tries EXCEPT ![w] = [d \in Deliveries |-> IF d \in B THEN attempts'[d] ELSE 0]]
       /\ shared' = shared \cup {d \in B : \E v \in Workers : d \in hand[v]}
  /\ UNCHANGED <<matched, published, subVars, status, age, step, current, verdict, bounds,
                 posted, accepted, unsure, dropped, lateposts>>

\* A slip the runs must notice: trusting the listing, where the account was enabled.
OwnerAsListed(s) == FALSE

\* WebhookOwnerDisabled: the account disabled, or gone with the subscription.
OwnerDisabled(s) == s \in disabled \cup revoked

\* A slip the runs must notice: a status the table does not know.
RetryingOnError(d) == IF Exhausted(d) THEN "failed" ELSE "retrying"

\* What an attempt that failed comes to.
VerdictOnError(d) == IF Exhausted(d) THEN "failed" ELSE "pending"

\* The owner's state is read; a disabled owner ends the attempt.
CheckOwner(w, d) ==
  /\ step[w] = "idle"
  /\ d \in hand[w]
  /\ current' = [current EXCEPT ![w] = d]
  /\ IF OwnerDisabled(d[2])
       THEN /\ step' = [step EXCEPT ![w] = "attempted"]
            /\ verdict' = [verdict EXCEPT ![w] = "failed"]
            /\ dropped' = dropped \cup {d}
       ELSE /\ step' = [step EXCEPT ![w] = "checked"]
            /\ UNCHANGED <<verdict, dropped>>
  /\ UNCHANGED <<matched, published, subVars, rowVars, hand, lease, tries, bounds,
                 posted, accepted, unsure, shared, lateposts>>

\* The owner's state cannot be read: an attempt failed without a post.
CheckOwnerFails(w, d) ==
  /\ step[w] = "idle"
  /\ d \in hand[w]
  /\ faults < MaxFaults
  /\ faults' = faults + 1
  /\ current' = [current EXCEPT ![w] = d]
  /\ step' = [step EXCEPT ![w] = "attempted"]
  /\ verdict' = [verdict EXCEPT ![w] = VerdictOnError(d)]
  /\ UNCHANGED <<matched, published, subVars, rowVars, hand, lease, tries, downs, toggles,
                 history>>

\* The request goes out: taken says the subscriber accepted it, heard that the worker saw
\* the 2xx answer within its timeout.
Post(w, taken, heard) ==
  LET d == current[w] IN
  /\ step[w] = "checked"
  /\ heard => taken
  /\ step' = [step EXCEPT ![w] = "attempted"]
  /\ verdict' = [verdict EXCEPT ![w] = IF heard THEN "delivered" ELSE VerdictOnError(d)]
  /\ posted' = posted \cup {d}
  /\ accepted' = [accepted EXCEPT ![d] = IF taken THEN Least(@ + 1, 2) ELSE @]
  /\ unsure' = IF taken /\ ~heard THEN unsure \cup {d} ELSE unsure
  /\ lateposts' = [lateposts EXCEPT ![d[2]] = IF d[2] \in disabled \cup revoked THEN @ + 1 ELSE @]
  /\ UNCHANGED <<matched, published, subVars, rowVars, hand, lease, tries, current, bounds,
                 shared, dropped>>

\* The worker is through with its current delivery.
LetGo(w) ==
  /\ step' = [step EXCEPT ![w] = "idle"]
  /\ hand' = [hand EXCEPT ![w] = @ \ {current[w]}]
  /\ lease' = [lease EXCEPT ![w][current[w]] = 0]
  /\ tries' = [tries EXCEPT ![w][current[w]] = 0]
  /\ current' = [current EXCEPT ![w] = None]
  /\ UNCHANGED verdict

\* A slip the runs must notice: every outcome leaves the row to be retried.
PendingAlways(w) == "pending"

SettledAs(w) == verdict[w]

\* SettleDelivery, by id alone: whatever the row says by now, unless it is gone.  The backoff
\* is that of the attempts this worker's claim was answered.
Settle(w) ==
  LET d == current[w] IN
  /\ step[w] = "attempted"
  /\ IF status[d] = "gone"
       THEN UNCHANGED <<status, wait>>
       ELSE /\ status' = [status EXCEPT ![d] = SettledAs(w)]
            /\ wait' = [wait EXCEPT ![d] = IF verdict[w] = "pending" THEN Backoff(tries[w][d]) ELSE 0]
  /\ LetGo(w)
  /\ UNCHANGED <<matched, published, subVars, attempts, age, bounds, history>>

\* The statement fails and is logged: the row waits out its lease.
SettleFails(w) ==
  /\ step[w] = "attempted"
  /\ faults < MaxFaults
  /\ faults' = faults + 1
  /\ unsure' = IF verdict[w] = "delivered" THEN unsure \cup {current[w]} ELSE unsure
  /\ LetGo(w)
  /\ UNCHANGED <<matched, published, subVars, rowVars, downs, toggles,
                 posted, accepted, shared, dropped, lateposts>>

\* Stop or a crash: stopping cancels what the worker is at, its settling included.
Down(w) ==
  /\ step[w] # "down"
  /\ downs < MaxDowns
  /\ downs' = downs + 1
  /\ step' = [step EXCEPT ![w] = "down"]
  /\ hand' = [hand EXCEPT ![w] = {}]
  /\ lease' = [lease EXCEPT ![w] = [d \in Deliveries |-> 0]]
  /\ tries' = [tries EXCEPT ![w] = [d \in Deliveries |-> 0]]
  /\ current' = [current EXCEPT ![w] = None]
  /\ unsure' = IF step[w] = "attempted" /\ verdict[w] = "delivered"
                 THEN unsure \cup {current[w]} ELSE unsure
  /\ UNCHANGED <<matched, published, subVars, rowVars, verdict, faults, toggles,
                 posted, accepted, shared, dropped, lateposts>>

Passed(n) == IF n = 0 THEN 0 ELSE n - 1

Tick ==
  /\ wait' = [d \in Deliveries |-> Passed(wait[d])]
  /\ age' = [d \in Deliveries |-> IF status[d] # "absent" THEN Least(age[d] + 1, Window) ELSE age[d]]
  /\ lease' = [w \in Workers |-> [d \in Deliveries |-> Passed(lease[w][d])]]
  /\ UNCHANGED <<matched, published, subVars, status, attempts, step, hand, tries, current, verdict,
                 bounds, history>>

---------------------------------------------------------------------------
Init ==
  /\ matched = [e \in Events |-> {}]
  /\ published = {}
  /\ revoked = {} /\ disabled = {}
  /\ status = [d \in Deliveries |-> "absent"]
  /\ attempts = [d \in Deliveries |-> 0]
  /\ wait = [d \in Deliveries |-> 0]
  /\ age = [d \in Deliveries |-> 0]
  /\ step = [w \in Workers |-> "down"]
  /\ hand = [w \in Workers |-> {}]
  /\ lease = [w \in Workers |-> [d \in Deliveries |-> 0]]
  /\ tries = [w \in Workers |-> [d \in Deliveries |-> 0]]
  /\ current = [w \in Workers |-> None]
  /\ verdict = [w \in Workers |-> "pending"]
  /\ faults = 0 /\ downs = 0 /\ toggles = 0
  /\ posted = {}
  /\ accepted = [d \in Deliveries |-> 0]
  /\ unsure = {} /\ shared = {} /\ dropped = {}
  /\ lateposts = [s \in Subs |-> 0]

Publish ==
  \E e \in Events :
    \/ ListSubscriptions(e)
    \/ \E s \in Subs : Enqueue(e, s) \/ EnqueueFails(e, s)

Attempt(w) ==
  \/ \E d \in Deliveries : CheckOwner(w, d) \/ CheckOwnerFails(w, d)
  \/ \E taken, heard \in BOOLEAN : Post(w, taken, heard)
  \/ Settle(w) \/ SettleFails(w)

Work(w) == Start(w) \/ Sweep(w) \/ Attempt(w)

Next ==
  \/ Publish
  \/ \E s \in Subs : Toggle(s) \/ Revoke(s)
  \/ \E w \in Workers : Work(w) \/ Down(w)
  \/ Tick

\* A worker's loop runs on, its ticker fires, and time passes.
Fairness == WF_vars(Tick) /\ \A w \in Workers : WF_vars(Work(w))

Spec     == Init /\ [][Next]_vars
FairSpec == Spec /\ Fairness

---------------------------------------------------------------------------
(* Properties.                                                             *)

TypeOK ==
  /\ matched \in [Events -> SUBSET Subs] /\ published \subseteq Events
  /\ revoked \subseteq Subs /\ disabled \subseteq Subs
  /\ status \in [Deliveries -> {"absent", "pending", "gone"} \cup Final]
  /\ attempts \in [Deliveries -> Nat] /\ wait \in [Deliveries -> Nat] /\ age \in [Deliveries -> Nat]
  /\ step \in [Workers -> {"down", "idle", "checked", "attempted"}]
  /\ hand \in [Workers -> SUBSET Deliveries]
  /\ lease \in [Workers -> [Deliveries -> Nat]]
  /\ tries \in [Workers -> [Deliveries -> Nat]]
  /\ current \in [Workers -> Deliveries \cup {None}]
  /\ verdict \in [Workers -> {"pending"} \cup Final]
  /\ \A w \in Workers : step[w] \in {"checked", "attempted"} => current[w] \in hand[w]
  /\ faults \in 0..MaxFaults /\ downs \in 0..MaxDowns /\ toggles \in 0..MaxToggles
  /\ posted \subseteq Deliveries /\ accepted \in [Deliveries -> 0..2]
  /\ unsure \subseteq Deliveries /\ shared \subseteq Deliveries /\ dropped \subseteq Deliveries
  /\ lateposts \in [Subs -> Nat]

\* A settled delivery stays settled until its subscription is revoked, whatever stops, faults
\* and ticks come between, unless two workers held it at once.
FinalStays ==
  [][\A d \in Deliveries \ shared :
       status[d] \in Final => status'[d] \in {status[d], "gone"}]_vars

\* A delivery comes into a second hand only after the first one's lease ran out.
ClaimExclusive ==
  [][\A d \in Deliveries, v, w \in Workers :
       (/\ v # w /\ d \notin shared
        /\ d \in hand[v] /\ d \notin hand[w] /\ d \in hand'[w]) => lease[v][d] = 0]_vars

\* A subscriber accepts a delivery twice only when an acceptance went unrecorded: its answer
\* lost, its settling failed, the worker stopped, or the delivery in two hands.
SecondOnlyIfUnsure == \A d \in Deliveries : accepted[d] = 2 => d \in unsure \cup shared

\* Delivered means accepted; failed means the owner was found disabled or the whole window was
\* spent.
VerdictsJustified ==
  \A d \in Deliveries :
    /\ status[d] = "delivered" => accepted[d] > 0
    /\ status[d] = "failed" => d \in dropped \/ age[d] >= Window

\* Once an account is disabled or a subscription revoked, each worker sends it at most the one
\* post it had already checked.
FewLatePosts == \A s \in Subs : lateposts[s] <= Cardinality(Workers)

\* No queued delivery stays pending for ever.
EventuallySettled ==
  \A d \in Deliveries : status[d] = "pending" ~> status[d] \in Final \cup {"gone"}

\* What the headers table says of X-AlphOne-Delivery: an id unique to the attempt.
AttemptIdUnique ==
  [][\A w \in Workers :
       step[w] = "checked" /\ step'[w] = "attempted" => current[w] \notin posted]_vars

===========================================================================
