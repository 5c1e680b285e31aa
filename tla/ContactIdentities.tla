------------------------- MODULE ContactIdentities -------------------------
(***************************************************************************)
(* Who owns an address.  Inbound messages resolve an address to its        *)
(* contact, creating one for an unknown address; imports create contacts   *)
(* owning several addresses; people attach and remove addresses.  Calls    *)
(* run in transactions over READ COMMITTED statements: the inserting       *)
(* statement waits for a transaction that holds the address, and then      *)
(* answers from the snapshot it took before waiting.                       *)
(*                                                                         *)
(* A call stands for the contact it would create.  A call may end at any   *)
(* point: its process, connection or request context is gone.              *)
(***************************************************************************)
EXTENDS Naturals, Sequences

CONSTANTS
  Calls,       \* calls, and the contacts they would create
  Keys,        \* addresses: a channel and an identifier
  None,        \* no owner, no answer
  Requests,    \* what calls come with: a kind and the addresses, in the order inserted
  MaxRemovals, \* bound on addresses removed
  MaxAttached, \* bound on addresses attached by hand
  MaxDeaths    \* bound on calls cut short

ASSUME NoneAssumption == None \notin Calls
ASSUME RequestsAssumption ==
  \A r \in Requests :
    /\ r.kind \in {"resolve", "create"}
    /\ r.keys \in Seq(Keys)
    /\ r.kind = "resolve" => Len(r.keys) = 1
ASSUME BoundsAssumption == MaxRemovals \in Nat /\ MaxAttached \in Nat /\ MaxDeaths \in Nat

VARIABLES
  kind,      \* per call: "resolve" (Resolve) or "create" (CreateWithIdentities)
  asked,     \* per call, the addresses it asks for, in the order it inserts them
  owner,     \* per address, the contact owning it
  stored,    \* committed contacts
  pc,        \* per call: "start", "ready", "inserting", "claimed", "committed", "done"
  left,      \* per call, the addresses still to insert
  held,      \* per call, the addresses its open transaction inserted
  snapshot,  \* per call, the owners its running statement sees
  claimant,  \* per call, the owner its IdentityExistsError names
  answer,    \* per call, the contact or failure it returned
  announced, \* contacts whose contact.created was published
  owned,     \* history: per address, every contact that ever owned it
  removals, attached, deaths

callVars == <<pc, left, held, snapshot, claimant, answer, announced>>
bounds   == <<removals, attached, deaths>>
vars     == <<kind, asked, owner, stored, callVars, owned, bounds>>

\* ErrIdentityNotFound or ErrNotFound; pgx.ErrNoRows; a deadlock victim; a call cut short.
Failures == {"missing", "no rows", "deadlock", "died"}

ASSUME FailuresAssumption == Failures \cap (Calls \cup {None}) = {}

---------------------------------------------------------------------------
(* Locks.                                                                  *)

\* c waits for the transaction d, which inserted the address c is inserting.
WaitsFor(c, d) == c # d /\ pc[c] = "inserting" /\ Head(left[c]) \in held[d]

\* A slip the runs must notice: no unique index to wait on.
NeverBlocked(c) == FALSE

Blocked(c) == \E d \in Calls : WaitsFor(c, d)

\* A slip the runs must notice: nobody looks for cycles.
NeverDeadlocked(S) == FALSE

\* S is a set of transactions each waiting for another of them.
Deadlocked(S) == S # {} /\ \A c \in S : \E d \in S : WaitsFor(c, d)

---------------------------------------------------------------------------
(* The steps of a call.                                                    *)

NoOwners == [k \in Keys |-> None]

\* The call returns; nothing of its transaction is left.
Return(c, result) ==
  /\ pc' = [pc EXCEPT ![c] = "done"]
  /\ answer' = [answer EXCEPT ![c] = result]
  /\ left' = [left EXCEPT ![c] = <<>>]
  /\ snapshot' = [snapshot EXCEPT ![c] = NoOwners]
  /\ claimant' = [claimant EXCEPT ![c] = None]

\* The transaction is rolled back: its addresses are free again.
Rollback(c) == held' = [held EXCEPT ![c] = {}]

\* Resolve looks the address up first; its owner, when it has one, always exists.
Lookup(c) ==
  LET k == Head(asked[c]) IN
  /\ pc[c] = "start"
  /\ kind[c] = "resolve"
  /\ IF owner[k] # None
       THEN Return(c, owner[k])
       ELSE /\ pc' = [pc EXCEPT ![c] = "ready"]
            /\ UNCHANGED <<answer, left, snapshot, claimant>>
  /\ UNCHANGED <<kind, asked, owner, stored, held, announced, owned, bounds>>

\* Begin, and the contact's own row.
BeginCreate(c) ==
  /\ pc[c] = "start"
  /\ kind[c] = "create"
  /\ pc' = [pc EXCEPT ![c] = "ready"]
  /\ UNCHANGED <<kind, asked, owner, stored, left, held, snapshot, claimant, answer, announced,
                 owned, bounds>>

\* The next inserting statement starts and takes its snapshot.
StartInsert(c) ==
  /\ pc[c] = "ready"
  /\ left[c] # <<>>
  /\ pc' = [pc EXCEPT ![c] = "inserting"]
  /\ snapshot' = [snapshot EXCEPT ![c] = owner]
  /\ UNCHANGED <<kind, asked, owner, stored, left, held, claimant, answer, announced, owned, bounds>>

\* A free address is inserted.
Inserts(c) ==
  LET k == Head(left[c]) IN
  /\ pc[c] = "inserting"
  /\ ~Blocked(c)
  /\ owner[k] = None
  /\ k \notin held[c]
  /\ held' = [held EXCEPT ![c] = @ \cup {k}]
  /\ left' = [left EXCEPT ![c] = Tail(@)]
  /\ snapshot' = [snapshot EXCEPT ![c] = NoOwners]
  /\ pc' = [pc EXCEPT ![c] = "ready"]
  /\ UNCHANGED <<kind, asked, owner, stored, claimant, answer, announced, owned, bounds>>

\* What the statement's second half reads: this transaction's own row, or the snapshot's.
SeenOwner(c, k) == IF k \in held[c] THEN c ELSE snapshot[c][k]

\* A taken address: IdentityExistsError names the owner the statement saw.
FindsClaimed(c) ==
  LET k == Head(left[c]) IN
  /\ pc[c] = "inserting"
  /\ ~Blocked(c)
  /\ owner[k] # None \/ k \in held[c]
  /\ SeenOwner(c, k) # None
  /\ claimant' = [claimant EXCEPT ![c] = SeenOwner(c, k)]
  /\ pc' = [pc EXCEPT ![c] = "claimed"]
  /\ snapshot' = [snapshot EXCEPT ![c] = NoOwners]
  /\ left' = [left EXCEPT ![c] = <<>>]
  /\ Rollback(c)
  /\ UNCHANGED <<kind, asked, owner, stored, answer, announced, owned, bounds>>

\* A taken address its snapshot does not show: the statement answers no row.
FindsNoRow(c) ==
  LET k == Head(left[c]) IN
  /\ pc[c] = "inserting"
  /\ ~Blocked(c)
  /\ owner[k] # None
  /\ SeenOwner(c, k) = None
  /\ Return(c, "no rows")
  /\ Rollback(c)
  /\ UNCHANGED <<kind, asked, owner, stored, announced, owned, bounds>>

\* PostgreSQL ends one transaction of a cycle.
DeadlockAborts(c) ==
  /\ \E S \in SUBSET Calls : c \in S /\ Deadlocked(S)
  /\ Return(c, "deadlock")
  /\ Rollback(c)
  /\ UNCHANGED <<kind, asked, owner, stored, announced, owned, bounds>>

\* A slip the runs must notice: answering the owner an error named without reading it.
GetUnread(x) == x

\* Get: the contact, or ErrNotFound; a missing identity has no contact to get.
Get(x) == IF x \in stored THEN x ELSE "missing"

\* After the conflict, Resolve looks the address up again and CreateWithIdentities gets the
\* contact the error named, which may be its own, rolled back.
AnswerClaimant(c) ==
  LET x == IF kind[c] = "resolve" THEN owner[Head(asked[c])] ELSE claimant[c] IN
  /\ pc[c] = "claimed"
  /\ Return(c, Get(x))
  /\ UNCHANGED <<kind, asked, owner, stored, held, announced, owned, bounds>>

Commit(c) ==
  /\ pc[c] = "ready"
  /\ left[c] = <<>>
  /\ pc' = [pc EXCEPT ![c] = "committed"]
  /\ stored' = stored \cup {c}
  /\ owner' = [k \in Keys |-> IF k \in held[c] THEN c ELSE owner[k]]
  /\ owned' = [k \in Keys |-> IF k \in held[c] THEN owned[k] \cup {c} ELSE owned[k]]
  /\ held' = [held EXCEPT ![c] = {}]
  /\ UNCHANGED <<kind, asked, left, snapshot, claimant, answer, announced, bounds>>

\* A slip the runs must notice: a return before the event.
ReturnUnannounced(c) ==
  /\ pc[c] = "committed"
  /\ Return(c, c)
  /\ UNCHANGED <<kind, asked, owner, stored, held, announced, owned, bounds>>

Publish(c) ==
  /\ pc[c] = "committed"
  /\ announced' = announced \cup {c}
  /\ Return(c, c)
  /\ UNCHANGED <<kind, asked, owner, stored, held, owned, bounds>>

\* The call ends here: an open transaction is rolled back, a committed one stays.
Dies(c) ==
  /\ pc[c] # "done"
  /\ deaths < MaxDeaths
  /\ deaths' = deaths + 1
  /\ Return(c, "died")
  /\ Rollback(c)
  /\ UNCHANGED <<kind, asked, owner, stored, announced, owned,
                 removals, attached>>

---------------------------------------------------------------------------
(* People editing contacts.                                                *)

\* AddIdentity outside a transaction, on a free address.
AddIdentity(k, x) ==
  /\ attached < MaxAttached
  /\ attached' = attached + 1
  /\ x \in stored
  /\ owner[k] = None
  /\ \A c \in Calls : k \notin held[c]
  /\ owner' = [owner EXCEPT ![k] = x]
  /\ owned' = [owned EXCEPT ![k] = @ \cup {x}]
  /\ UNCHANGED <<kind, asked, stored, callVars, removals, deaths>>

DeleteIdentity(k) ==
  /\ removals < MaxRemovals
  /\ removals' = removals + 1
  /\ owner[k] # None
  /\ owner' = [owner EXCEPT ![k] = None]
  /\ UNCHANGED <<kind, asked, stored, callVars, owned, attached, deaths>>

---------------------------------------------------------------------------
Init ==
  /\ \E r \in [Calls -> Requests] :
       /\ kind = [c \in Calls |-> r[c].kind]
       /\ asked = [c \in Calls |-> r[c].keys]
  /\ owner = [k \in Keys |-> None]
  /\ stored = {}
  /\ pc = [c \in Calls |-> "start"]
  /\ left = asked
  /\ held = [c \in Calls |-> {}]
  /\ snapshot = [c \in Calls |-> NoOwners]
  /\ claimant = [c \in Calls |-> None]
  /\ answer = [c \in Calls |-> None]
  /\ announced = {}
  /\ owned = [k \in Keys |-> {}]
  /\ removals = 0 /\ attached = 0 /\ deaths = 0

Step(c) ==
  \/ Lookup(c) \/ BeginCreate(c)
  \/ StartInsert(c) \/ Inserts(c) \/ FindsClaimed(c) \/ FindsNoRow(c) \/ DeadlockAborts(c)
  \/ AnswerClaimant(c)
  \/ Commit(c) \/ Publish(c)

Next ==
  \/ \E c \in Calls : Step(c) \/ Dies(c)
  \/ \E k \in Keys : DeleteIdentity(k) \/ \E x \in Calls : AddIdentity(k, x)

\* Every call runs on.
Fairness == \A c \in Calls : WF_vars(Step(c))

Spec     == Init /\ [][Next]_vars
FairSpec == Spec /\ Fairness

---------------------------------------------------------------------------
(* Properties.                                                             *)

TypeOK ==
  /\ kind \in [Calls -> {"resolve", "create"}]
  /\ asked \in [Calls -> Seq(Keys)] /\ left \in [Calls -> Seq(Keys)]
  /\ owner \in [Keys -> Calls \cup {None}]
  /\ stored \subseteq Calls /\ announced \subseteq Calls
  /\ pc \in [Calls -> {"start", "ready", "inserting", "claimed", "committed", "done"}]
  /\ held \in [Calls -> SUBSET Keys]
  /\ \A c \in Calls : held[c] # {} => pc[c] \in {"ready", "inserting"}
  /\ snapshot \in [Calls -> [Keys -> Calls \cup {None}]]
  /\ claimant \in [Calls -> Calls \cup {None}]
  /\ answer \in [Calls -> Calls \cup {None} \cup Failures]
  /\ owned \in [Keys -> SUBSET Calls]
  /\ removals \in 0..MaxRemovals /\ attached \in 0..MaxAttached /\ deaths \in 0..MaxDeaths

Asks(c) == {asked[c][i] : i \in DOMAIN asked[c]}

\* While no address was removed, everyone resolving an address is answered the same contact,
\* and it owns the address.
ResolversAgree ==
  removals = 0 =>
    \A c \in Calls :
      kind[c] = "resolve" /\ answer[c] \in Calls => answer[c] = owner[Head(asked[c])]

\* A contact is stored with every address its call asked for or not at all: at its commit no
\* other transaction holds or owns any of them.
AllOrNothing ==
  [][\A c \in Calls :
       c \in stored' \ stored =>
         \A k \in Asks(c) :
           /\ owner[k] = None /\ owner'[k] = c
           /\ \A d \in Calls \ {c} : k \notin held[d]]_vars

\* A contact is announced only once it is stored, and a call that answers its own contact
\* announced it.
AnnouncedIfCreated ==
  /\ announced \subseteq stored
  /\ \A c \in Calls : answer[c] = c => c \in announced

\* Every call returns: no waits among transactions last.
EveryCallReturns == <>(\A c \in Calls : pc[c] = "done")

\* What CreateContactWithIdentities says of itself: it reports the owner when an address is
\* claimed.
ConflictNamesOwner == \A c \in Calls : answer[c] # "no rows"

\* The calls implement the registry: a commit is the moment its contact and addresses appear.
Registry == INSTANCE IdentityRegistry WITH
  asked  <- [c \in Calls |-> Asks(c)],
  answer <- [c \in Calls |-> IF c \in stored THEN c ELSE answer[c]]

ImplementsRegistry == Registry!Spec

===========================================================================
