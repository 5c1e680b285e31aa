-------------------------- MODULE IdentityRegistry --------------------------
(***************************************************************************)
(* What the identity store promises its callers: each call takes effect at *)
(* once or not at all.  It creates a contact owning every address it asked *)
(* for, answers a contact that owns or owned one of them, or fails.        *)
(***************************************************************************)
EXTENDS FiniteSets

CONSTANTS
  Calls,     \* calls, each standing for the contact it would create
  Keys,      \* addresses: a channel and an identifier
  None,      \* no owner
  Failures   \* answers that name no contact

VARIABLES
  asked,     \* per call, the addresses it asks for
  owner,     \* per address, the contact owning it
  owned,     \* per address, every contact that ever did
  stored,    \* contacts in the database
  answer     \* per call, its answer; None before it has one

vars == <<asked, owner, owned, stored, answer>>

Create(c) ==
  /\ answer[c] = None
  /\ \A k \in asked[c] : owner[k] = None
  /\ stored' = stored \cup {c}
  /\ owner' = [k \in Keys |-> IF k \in asked[c] THEN c ELSE owner[k]]
  /\ owned' = [k \in Keys |-> IF k \in asked[c] THEN owned[k] \cup {c} ELSE owned[k]]
  /\ answer' = [answer EXCEPT ![c] = c]
  /\ UNCHANGED asked

Find(c) ==
  /\ answer[c] = None
  /\ \E k \in asked[c], x \in Calls :
       /\ x \in owned[k]
       /\ answer' = [answer EXCEPT ![c] = x]
  /\ UNCHANGED <<asked, owner, owned, stored>>

Fail(c) ==
  /\ answer[c] = None
  /\ \E f \in Failures : answer' = [answer EXCEPT ![c] = f]
  /\ UNCHANGED <<asked, owner, owned, stored>>

Attach(k, x) ==
  /\ owner[k] = None
  /\ x \in stored
  /\ owner' = [owner EXCEPT ![k] = x]
  /\ owned' = [owned EXCEPT ![k] = @ \cup {x}]
  /\ UNCHANGED <<asked, stored, answer>>

Detach(k) ==
  /\ owner[k] # None
  /\ owner' = [owner EXCEPT ![k] = None]
  /\ UNCHANGED <<asked, owned, stored, answer>>

Init ==
  /\ asked \in [Calls -> SUBSET Keys]
  /\ owner = [k \in Keys |-> None]
  /\ owned = [k \in Keys |-> {}]
  /\ stored = {}
  /\ answer = [c \in Calls |-> None]

Next ==
  \/ \E c \in Calls : Create(c) \/ Find(c) \/ Fail(c)
  \/ \E k \in Keys : Detach(k) \/ \E x \in Calls : Attach(k, x)

Spec == Init /\ [][Next]_vars

===========================================================================
