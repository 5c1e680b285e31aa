---------------------- MODULE ContactIdentitiesProofs ----------------------
(***************************************************************************)
(* The calls of ContactIdentities implement the registry, for any calls,   *)
(* addresses, requests and bounds: each takes effect at once or not at     *)
(* all, whatever the transactions wait for and wherever one of them ends.  *)
(***************************************************************************)
EXTENDS ContactIdentities, SequenceTheorems, TLAPS

Elems(s) == {s[i] : i \in DOMAIN s}

\* A call that has neither committed nor returned.
AtWork(c) == pc[c] \in {"start", "ready", "inserting", "claimed"}

\* A call's place says what is stored of it and what it answered.
Placed ==
  \A c \in Calls :
    /\ AtWork(c) => c \notin stored /\ answer[c] = None
    /\ pc[c] = "committed" => c \in stored
    /\ pc[c] = "inserting" => left[c] # <<>>
    /\ kind[c] = "resolve" => Len(asked[c]) = 1

\* An open transaction holds what it asked for and has not still to insert.
Inserted ==
  \A c \in Calls :
    pc[c] \in {"start", "ready", "inserting"} => held[c] \cup Elems(left[c]) = Asks(c)

\* An address somebody holds is free, and held by nobody else.
Exclusive ==
  \A c \in Calls : \A k \in held[c] :
    owner[k] = None /\ \A d \in Calls \ {c} : k \notin held[d]

\* Owners, and those a statement saw, are contacts that owned the address.
Recorded ==
  /\ \A k \in Keys :
       /\ owner[k] # None => owner[k] \in owned[k]
       /\ owned[k] \subseteq stored
       /\ \A c \in Calls : snapshot[c][k] # None => snapshot[c][k] \in owned[k]
  /\ \A c \in Calls :
       pc[c] = "claimed" => claimant[c] = c \/ \E k \in Asks(c) : claimant[c] \in owned[k]

\* While nothing was removed, stored contacts own what they asked for.
Owning == removals = 0 => \A c \in Calls \cap stored : \A k \in Asks(c) : owner[k] = c

IInv ==
  /\ TypeOK /\ Placed /\ Inserted /\ Exclusive /\ Recorded
  /\ Owning /\ ResolversAgree /\ AnnouncedIfCreated

---------------------------------------------------------------------------
(* Sequences of addresses.                                                 *)

\* The addresses of a sequence are those of its head and of its tail.
LEMMA HeadThenTail ==
  ASSUME NEW s \in Seq(Keys), s # <<>>
  PROVE  /\ Head(s) \in Keys /\ Tail(s) \in Seq(Keys)
         /\ Elems(s) = {Head(s)} \cup Elems(Tail(s))
<1>1. /\ Head(s) \in Keys /\ Tail(s) \in Seq(Keys)
      /\ Len(Tail(s)) = Len(s) - 1
      /\ \A i \in 1..Len(Tail(s)) : Tail(s)[i] = s[i + 1]
  BY HeadTailProperties
<1>2. Len(s) \in Nat /\ DOMAIN s = 1..Len(s) /\ Head(s) = s[1] /\ Len(s) # 0
  BY EmptySeq, LenProperties
<1>3. DOMAIN Tail(s) = 1..(Len(s) - 1)
  BY <1>1, LenProperties
<1>4. \A i \in DOMAIN s : i = 1 \/ (i - 1 \in DOMAIN Tail(s) /\ Tail(s)[i - 1] = s[i])
  BY <1>1, <1>2, <1>3
<1>5. \A i \in DOMAIN Tail(s) : i + 1 \in DOMAIN s /\ Tail(s)[i] = s[i + 1]
  BY <1>1, <1>2, <1>3
<1>6. 1 \in DOMAIN s
  BY <1>2
<1>7. Elems(s) \subseteq {Head(s)} \cup Elems(Tail(s))
  BY <1>2, <1>4 DEF Elems
<1>8. {Head(s)} \cup Elems(Tail(s)) \subseteq Elems(s)
  BY <1>2, <1>5, <1>6 DEF Elems
<1> QED
  BY <1>1, <1>7, <1>8

\* Only the empty sequence has no length.
LEMMA EmptyOnly == \A s \in Seq(Keys) : s = <<>> <=> Len(s) = 0
<1> SUFFICES ASSUME NEW s \in Seq(Keys) PROVE s = <<>> <=> Len(s) = 0
  OBVIOUS
<1>1. s # <<>> => Len(s) \in Nat \ {0}
  BY EmptySeq
<1>2. Len(<<>>) = 0
  BY EmptySeq
<1> QED
  BY <1>1, <1>2

\* An empty sequence asks for no address.
LEMMA NoElems == Elems(<<>>) = {}
  BY DEF Elems

\* What a call asks for are addresses.
LEMMA AsksKeys ==
  ASSUME TypeOK, NEW c \in Calls
  PROVE  /\ Asks(c) = Elems(asked[c])
         /\ Asks(c) \subseteq Keys
<1>1. asked[c] \in Seq(Keys)
  BY DEF TypeOK
<1>2. \A i \in DOMAIN asked[c] : asked[c][i] \in Keys
  BY <1>1, LenProperties, ElementOfSeq
<1> QED
  BY <1>2 DEF Asks, Elems

\* A sequence of one address asks for that one.
LEMMA OneElem ==
  ASSUME NEW s \in Seq(Keys), Len(s) = 1
  PROVE  Head(s) \in Keys /\ Elems(s) = {Head(s)}
<1>1. s # <<>>
  <2> SUFFICES ASSUME s = <<>> PROVE FALSE
    OBVIOUS
  <2> QED
    BY EmptySeq
<1>2. Tail(s) \in Seq(Keys) /\ Len(Tail(s)) = 0
  BY <1>1, HeadTailProperties
<1>3. Tail(s) = <<>>
  BY <1>2, EmptyOnly
<1> QED
  BY <1>1, <1>3, HeadThenTail, NoElems

\* What a resolve asks for is one address.
LEMMA ResolvesOne ==
  ASSUME TypeOK, Placed, NEW c \in Calls, kind[c] = "resolve"
  PROVE  Head(asked[c]) \in Keys /\ Asks(c) = {Head(asked[c])}
<1>1. asked[c] \in Seq(Keys) /\ Len(asked[c]) = 1
  BY DEF TypeOK, Placed
<1> QED
  BY <1>1, OneElem, AsksKeys

---------------------------------------------------------------------------
(* Types.                                                                  *)

\* Every step keeps every variable in its type.
LEMMA TypeStep == TypeOK /\ Placed /\ [Next]_vars => TypeOK'
<1> SUFFICES ASSUME TypeOK, Placed, [Next]_vars PROVE TypeOK'
  OBVIOUS
<1> USE DEF TypeOK, callVars, bounds
<1>e. <<>> \in Seq(Keys) /\ NoOwners \in [Keys -> Calls \cup {None}]
  BY EmptySeq DEF NoOwners
<1>h. \A c \in Calls : pc[c] = "inserting" =>
        left[c] # <<>> /\ Head(left[c]) \in Keys /\ Tail(left[c]) \in Seq(Keys)
  BY HeadThenTail DEF Placed
<1>1. ASSUME NEW c \in Calls, Lookup(c) PROVE TypeOK'
  <2>1. Head(asked[c]) \in Keys
    BY <1>1, ResolvesOne DEF Lookup
  <2>2. CASE owner[Head(asked[c])] # None
    <3>1. Return(c, owner[Head(asked[c])]) /\ owner[Head(asked[c])] \in Calls
      BY <1>1, <2>1, <2>2 DEF Lookup
    <3>2. UNCHANGED <<kind, asked, owner, stored, held, announced, owned, bounds>> /\ pc[c] = "start"
      BY <1>1 DEF Lookup
    <3> QED
      BY <1>e, <3>1, <3>2 DEF Return
  <2>3. CASE owner[Head(asked[c])] = None
    BY <1>1, <2>3 DEF Lookup
  <2> QED
    BY <2>2, <2>3
<1>2. ASSUME NEW c \in Calls, BeginCreate(c) PROVE TypeOK'
  BY <1>2 DEF BeginCreate
<1>3. ASSUME NEW c \in Calls, StartInsert(c) PROVE TypeOK'
  BY <1>3 DEF StartInsert
<1>4. ASSUME NEW c \in Calls, Inserts(c) PROVE TypeOK'
  BY <1>4, <1>e, <1>h DEF Inserts
<1>5. ASSUME NEW c \in Calls, FindsClaimed(c) PROVE TypeOK'
  BY <1>5, <1>e, <1>h DEF FindsClaimed, Rollback, SeenOwner
<1>6. ASSUME NEW c \in Calls, FindsNoRow(c) PROVE TypeOK'
  BY <1>6, <1>e DEF FindsNoRow, Rollback, Return, Failures
<1>7. ASSUME NEW c \in Calls, DeadlockAborts(c) PROVE TypeOK'
  BY <1>7, <1>e DEF DeadlockAborts, Rollback, Return, Failures
<1>8. ASSUME NEW c \in Calls, AnswerClaimant(c) PROVE TypeOK'
  <2>1. \A x : Get(x) \in Calls \cup Failures
    BY DEF Get, Failures
  <2> QED
    BY <1>8, <1>e, <2>1 DEF AnswerClaimant, Return
<1>9. ASSUME NEW c \in Calls, Commit(c) PROVE TypeOK'
  BY <1>9 DEF Commit
<1>10. ASSUME NEW c \in Calls, Publish(c) PROVE TypeOK'
  BY <1>10, <1>e DEF Publish, Return
<1>11. ASSUME NEW c \in Calls, Dies(c) PROVE TypeOK'
  <2>1. deaths' \in 0..MaxDeaths
    BY <1>11, BoundsAssumption DEF Dies
  <2>2. "died" \in Failures
    BY DEF Failures
  <2> QED
    BY <1>11, <1>e, <2>1, <2>2 DEF Dies, Return, Rollback
<1>12. ASSUME NEW k \in Keys, DeleteIdentity(k) PROVE TypeOK'
  BY <1>12, BoundsAssumption DEF DeleteIdentity
<1>13. ASSUME NEW k \in Keys, NEW x \in Calls, AddIdentity(k, x) PROVE TypeOK'
  BY <1>13, BoundsAssumption DEF AddIdentity
<1>14. CASE UNCHANGED vars
  BY <1>14 DEF vars
<1> QED
  BY <1>1, <1>2, <1>3, <1>4, <1>5, <1>6, <1>7, <1>8, <1>9, <1>10, <1>11, <1>12, <1>13, <1>14
  DEF Next, Step

---------------------------------------------------------------------------
(* The parts of the invariant, one lemma each.                             *)

\* Every step leaves each call at a place that says what is stored of it and answered.
LEMMA PlacedStep == TypeOK /\ Placed /\ [Next]_vars => Placed'
<1> SUFFICES ASSUME TypeOK, Placed, [Next]_vars PROVE Placed'
  OBVIOUS
<1> USE DEF TypeOK, Placed, AtWork, callVars, bounds
<1>1. ASSUME NEW c \in Calls, Lookup(c) PROVE Placed'
  <2>1. CASE owner[Head(asked[c])] # None
    BY <1>1, <2>1 DEF Lookup, Return
  <2>2. CASE owner[Head(asked[c])] = None
    BY <1>1, <2>2 DEF Lookup
  <2> QED
    BY <2>1, <2>2
<1>2. ASSUME NEW c \in Calls, BeginCreate(c) PROVE Placed'
  BY <1>2 DEF BeginCreate
<1>3. ASSUME NEW c \in Calls, StartInsert(c) PROVE Placed'
  BY <1>3 DEF StartInsert
<1>4. ASSUME NEW c \in Calls, Inserts(c) PROVE Placed'
  BY <1>4 DEF Inserts
<1>5. ASSUME NEW c \in Calls, FindsClaimed(c) PROVE Placed'
  BY <1>5 DEF FindsClaimed
<1>6. ASSUME NEW c \in Calls, FindsNoRow(c) PROVE Placed'
  BY <1>6 DEF FindsNoRow, Return
<1>7. ASSUME NEW c \in Calls, DeadlockAborts(c) PROVE Placed'
  BY <1>7 DEF DeadlockAborts, Return
<1>8. ASSUME NEW c \in Calls, AnswerClaimant(c) PROVE Placed'
  BY <1>8 DEF AnswerClaimant, Return
<1>9. ASSUME NEW c \in Calls, Commit(c) PROVE Placed'
  BY <1>9 DEF Commit
<1>10. ASSUME NEW c \in Calls, Publish(c) PROVE Placed'
  BY <1>10 DEF Publish, Return
<1>11. ASSUME NEW c \in Calls, Dies(c) PROVE Placed'
  BY <1>11 DEF Dies, Return
<1>12. ASSUME NEW k \in Keys, DeleteIdentity(k) PROVE Placed'
  BY <1>12 DEF DeleteIdentity
<1>13. ASSUME NEW k \in Keys, NEW x \in Calls, AddIdentity(k, x) PROVE Placed'
  BY <1>13 DEF AddIdentity
<1>14. CASE UNCHANGED vars
  BY <1>14 DEF vars
<1> QED
  BY <1>1, <1>2, <1>3, <1>4, <1>5, <1>6, <1>7, <1>8, <1>9, <1>10, <1>11, <1>12, <1>13, <1>14
  DEF Next, Step

\* An inserting statement takes its address from what is left to what is held.
LEMMA InsertedStep == TypeOK /\ Placed /\ Inserted /\ [Next]_vars => Inserted'
<1> SUFFICES ASSUME TypeOK, Placed, Inserted, [Next]_vars PROVE Inserted'
  OBVIOUS
<1> USE DEF TypeOK, Inserted, callVars
\* A call whose place, inserts and remainder stay as they are.
<1>a. ASSUME UNCHANGED asked, NEW d \in Calls,
             pc'[d] = pc[d], held'[d] = held[d], left'[d] = left[d]
      PROVE  pc'[d] \in {"start", "ready", "inserting"} => held'[d] \cup Elems(left'[d]) = Asks(d)'
  BY <1>a DEF Asks
<1>b. ASSUME NEW c \in Calls, UNCHANGED asked,
             \A d \in Calls \ {c} : pc'[d] = pc[d] /\ held'[d] = held[d] /\ left'[d] = left[d],
             pc'[c] \notin {"start", "ready", "inserting"}
      PROVE  Inserted'
  BY <1>a, <1>b
<1>1. ASSUME NEW c \in Calls, Lookup(c) PROVE Inserted'
  <2>1. CASE owner[Head(asked[c])] # None
    <3>1. UNCHANGED asked /\ held' = held
      BY <1>1 DEF Lookup
    <3>2. /\ pc' = [pc EXCEPT ![c] = "done"]
          /\ left' = [left EXCEPT ![c] = <<>>]
      BY <1>1, <2>1 DEF Lookup, Return
    <3>3. pc'[c] = "done" /\ \A d \in Calls \ {c} : pc'[d] = pc[d] /\ left'[d] = left[d]
      BY <3>2
    <3> QED
      BY <1>b, <3>1, <3>3
  <2>2. CASE owner[Head(asked[c])] = None
    <3>1. \A d \in Calls : Asks(d)' = Asks(d)
      BY <1>1 DEF Lookup, Asks
    <3> QED
      BY <1>1, <2>2, <3>1 DEF Lookup
  <2> QED
    BY <2>1, <2>2
<1>2. ASSUME NEW c \in Calls, BeginCreate(c) PROVE Inserted'
  BY <1>2 DEF BeginCreate, Asks
<1>3. ASSUME NEW c \in Calls, StartInsert(c) PROVE Inserted'
  BY <1>3 DEF StartInsert, Asks
<1>4. ASSUME NEW c \in Calls, Inserts(c) PROVE Inserted'
  <2>1. left[c] \in Seq(Keys) /\ left[c] # <<>> /\ pc[c] = "inserting"
    BY <1>4 DEF Inserts, Placed
  <2>2. Elems(left[c]) = {Head(left[c])} \cup Elems(Tail(left[c]))
    BY <2>1, HeadThenTail
  <2>3. held'[c] \cup Elems(left'[c]) = held[c] \cup Elems(left[c])
    BY <1>4, <2>2 DEF Inserts
  <2>4. held'[c] \cup Elems(left'[c]) = Asks(c)'
    BY <1>4, <2>1, <2>3 DEF Inserts, Asks
  <2>5. \A d \in Calls \ {c} : pc'[d] = pc[d] /\ held'[d] = held[d] /\ left'[d] = left[d]
    BY <1>4 DEF Inserts
  <2>6. UNCHANGED asked
    BY <1>4 DEF Inserts
  <2> QED
    BY <1>a, <2>4, <2>5, <2>6
<1>5. ASSUME NEW c \in Calls, FindsClaimed(c) PROVE Inserted'
  BY <1>5, <1>b DEF FindsClaimed, Rollback
<1>6. ASSUME NEW c \in Calls, FindsNoRow(c) PROVE Inserted'
  BY <1>6, <1>b DEF FindsNoRow, Return, Rollback
<1>7. ASSUME NEW c \in Calls, DeadlockAborts(c) PROVE Inserted'
  BY <1>7, <1>b DEF DeadlockAborts, Return, Rollback
<1>8. ASSUME NEW c \in Calls, AnswerClaimant(c) PROVE Inserted'
  BY <1>8, <1>b DEF AnswerClaimant, Return
<1>9. ASSUME NEW c \in Calls, Commit(c) PROVE Inserted'
  BY <1>9, <1>b DEF Commit
<1>10. ASSUME NEW c \in Calls, Publish(c) PROVE Inserted'
  BY <1>10, <1>b DEF Publish, Return
<1>11. ASSUME NEW c \in Calls, Dies(c) PROVE Inserted'
  BY <1>11, <1>b DEF Dies, Return, Rollback
<1>12. ASSUME NEW k \in Keys, DeleteIdentity(k) \/ \E x \in Calls : AddIdentity(k, x)
       PROVE  Inserted'
  BY <1>12, <1>a DEF DeleteIdentity, AddIdentity
<1>13. CASE UNCHANGED vars
  BY <1>13, <1>a DEF vars
<1> QED
  BY <1>1, <1>2, <1>3, <1>4, <1>5, <1>6, <1>7, <1>8, <1>9, <1>10, <1>11, <1>12, <1>13
  DEF Next, Step

\* An address is inserted only when it is free and nobody holds it.
LEMMA ExclusiveStep == TypeOK /\ Exclusive /\ [Next]_vars => Exclusive'
<1> SUFFICES ASSUME TypeOK, Exclusive, [Next]_vars PROVE Exclusive'
  OBVIOUS
<1> USE DEF TypeOK, Exclusive, callVars
<1>1. ASSUME UNCHANGED owner, \A d \in Calls : held'[d] \subseteq held[d] PROVE Exclusive'
  BY <1>1
<1>2. ASSUME NEW c \in Calls, Inserts(c) PROVE Exclusive'
  <2>1. \A d \in Calls \ {c} : Head(left[c]) \notin held[d]
    BY <1>2 DEF Inserts, Blocked, WaitsFor
  <2>2. held' = [held EXCEPT ![c] = @ \cup {Head(left[c])}] /\ owner[Head(left[c])] = None
    BY <1>2 DEF Inserts
  <2>3. UNCHANGED owner
    BY <1>2 DEF Inserts
  <2> QED
    BY <2>1, <2>2, <2>3
<1>3. ASSUME NEW c \in Calls, Commit(c) PROVE Exclusive'
  <2>1. /\ held' = [held EXCEPT ![c] = {}]
        /\ owner' = [k \in Keys |-> IF k \in held[c] THEN c ELSE owner[k]]
    BY <1>3 DEF Commit
  <2>2. ASSUME NEW d \in Calls, NEW k \in held'[d]
        PROVE  owner'[k] = None /\ \A e \in Calls \ {d} : k \notin held'[e]
    <3>1. d # c /\ k \in held[d] /\ k \in Keys
      BY <2>1, <2>2
    <3>2. k \notin held[c]
      BY <3>1
    <3> QED
      BY <2>1, <3>1, <3>2
  <2> QED
    BY <2>2
<1>4. ASSUME NEW k \in Keys, DeleteIdentity(k) \/ \E x \in Calls : AddIdentity(k, x)
      PROVE  Exclusive'
  BY <1>4 DEF DeleteIdentity, AddIdentity
<1>5. ASSUME NEW c \in Calls, Step(c) \/ Dies(c), ~Inserts(c), ~Commit(c) PROVE Exclusive'
  <2>1. UNCHANGED owner
    BY <1>5 DEF Step, Dies, Lookup, BeginCreate, StartInsert, FindsClaimed, FindsNoRow,
       DeadlockAborts, AnswerClaimant, Publish
  <2>2. UNCHANGED held \/ Rollback(c)
    BY <1>5 DEF Step, Dies, Lookup, BeginCreate, StartInsert, FindsClaimed, FindsNoRow,
       DeadlockAborts, AnswerClaimant, Publish
  <2> QED
    BY <1>1, <2>1, <2>2 DEF Rollback
<1>6. CASE UNCHANGED vars
  BY <1>1, <1>6 DEF vars
<1> QED
  BY <1>2, <1>3, <1>4, <1>5, <1>6 DEF Next

\* What somebody owned or saw stays recorded, and a conflict's claimant is recorded when named.
LEMMA RecordedStep ==
  TypeOK /\ Placed /\ Inserted /\ Exclusive /\ Recorded /\ [Next]_vars => Recorded'
<1> SUFFICES ASSUME TypeOK, Placed, Inserted, Exclusive, Recorded, [Next]_vars
             PROVE  Recorded'
  OBVIOUS
<1> USE DEF TypeOK, Recorded, callVars
<1>n. NoOwners = [k \in Keys |-> None]
  BY DEF NoOwners
<1>a. UNCHANGED asked /\ \A c \in Calls : Asks(c)' = Asks(c) /\ Asks(c) \subseteq Keys
  <2>1. UNCHANGED asked
    BY DEF Next, Step, Lookup, BeginCreate, StartInsert, Inserts, FindsClaimed, FindsNoRow,
       DeadlockAborts, AnswerClaimant, Commit, Publish, Dies, DeleteIdentity, AddIdentity, vars
  <2> QED
    BY <2>1, AsksKeys DEF Asks
\* Nothing is recorded anew and no conflict is met.
<1>b. ASSUME UNCHANGED <<owner, owned, stored>>, NEW c \in Calls,
             snapshot' \in {snapshot, [snapshot EXCEPT ![c] = NoOwners],
                            [snapshot EXCEPT ![c] = owner]},
             \A d \in Calls : pc'[d] = "claimed" => pc[d] = "claimed" /\ claimant'[d] = claimant[d]
      PROVE  Recorded'
  <2>1. \A k \in Keys, d \in Calls : snapshot'[d][k] # None => snapshot'[d][k] \in owned[k]
    <3>1. CASE snapshot' = [snapshot EXCEPT ![c] = NoOwners]
      BY <1>n, <3>1
    <3>2. CASE snapshot' = [snapshot EXCEPT ![c] = owner]
      BY <3>2
    <3> QED
      BY <1>b, <3>1, <3>2
  <2>2. \A d \in Calls :
          pc'[d] = "claimed" => claimant'[d] = d \/ \E j \in Asks(d)' : claimant'[d] \in owned'[j]
    BY <1>a, <1>b
  <2> QED
    BY <1>b, <2>1, <2>2
<1>1. ASSUME NEW c \in Calls,
             \/ Lookup(c) \/ BeginCreate(c) \/ StartInsert(c) \/ Inserts(c) \/ FindsNoRow(c)
             \/ DeadlockAborts(c) \/ AnswerClaimant(c) \/ Publish(c) \/ Dies(c)
      PROVE  Recorded'
  <2>1. UNCHANGED <<owner, owned, stored>>
    BY <1>1 DEF Lookup, BeginCreate, StartInsert, Inserts, FindsNoRow, DeadlockAborts,
       AnswerClaimant, Publish, Dies
  <2>2. snapshot' \in {snapshot, [snapshot EXCEPT ![c] = NoOwners], [snapshot EXCEPT ![c] = owner]}
    BY <1>1 DEF Lookup, BeginCreate, StartInsert, Inserts, FindsNoRow, DeadlockAborts,
       AnswerClaimant, Publish, Dies, Return
  <2>3. /\ pc'[c] # "claimed"
        /\ \A d \in Calls \ {c} : pc'[d] = pc[d] /\ claimant'[d] = claimant[d]
    <3>1. CASE Return(c, answer'[c])
      BY <3>1 DEF Return
    <3>2. CASE BeginCreate(c) \/ StartInsert(c) \/ Inserts(c)
      BY <3>2 DEF BeginCreate, StartInsert, Inserts
    <3>3. CASE Lookup(c) /\ owner[Head(asked[c])] = None
      BY <3>3 DEF Lookup
    <3> QED
      BY <1>1, <3>1, <3>2, <3>3 DEF Lookup, FindsNoRow, DeadlockAborts, AnswerClaimant,
         Publish, Dies, Return
  <2> QED
    BY <1>b, <2>1, <2>2, <2>3
<1>2. ASSUME NEW c \in Calls, FindsClaimed(c) PROVE Recorded'
  <2> DEFINE k == Head(left[c])
  <2>1. left[c] \in Seq(Keys) /\ left[c] # <<>> /\ pc[c] = "inserting"
    BY <1>2 DEF FindsClaimed, Placed
  <2>2. k \in Asks(c) /\ k \in Keys
    BY <1>a, <2>1, HeadThenTail DEF Inserted
  <2>3. SeenOwner(c, k) = c \/ SeenOwner(c, k) \in owned[k]
    BY <1>2, <2>2 DEF FindsClaimed, SeenOwner
  <2>4. /\ claimant' = [claimant EXCEPT ![c] = SeenOwner(c, k)]
        /\ pc' = [pc EXCEPT ![c] = "claimed"]
        /\ snapshot' = [snapshot EXCEPT ![c] = NoOwners]
        /\ UNCHANGED <<owner, owned, stored>>
    BY <1>2 DEF FindsClaimed
  <2> HIDE DEF k
  <2>5. \A d \in Calls :
          pc'[d] = "claimed" => claimant'[d] = d \/ \E j \in Asks(d)' : claimant'[d] \in owned'[j]
    BY <1>a, <2>2, <2>3, <2>4
  <2> QED
    BY <1>n, <2>4, <2>5
<1>3. ASSUME NEW c \in Calls, Commit(c) PROVE Recorded'
  <2>1. /\ owner' = [k \in Keys |-> IF k \in held[c] THEN c ELSE owner[k]]
        /\ owned' = [k \in Keys |-> IF k \in held[c] THEN owned[k] \cup {c} ELSE owned[k]]
        /\ stored' = stored \cup {c}
        /\ UNCHANGED <<snapshot, claimant>>
        /\ pc' = [pc EXCEPT ![c] = "committed"]
    BY <1>3 DEF Commit
  <2>2. \A k \in Keys : owned[k] \subseteq owned'[k]
    BY <2>1
  <2>3. \A k \in Keys : owned'[k] \subseteq stored'
    BY <2>1
  <2>4. \A k \in Keys : owner'[k] # None => owner'[k] \in owned'[k]
    BY <2>1
  <2>5. \A d \in Calls :
          pc'[d] = "claimed" => claimant'[d] = d \/ \E j \in Asks(d)' : claimant'[d] \in owned'[j]
    BY <1>a, <2>1, <2>2
  <2> QED
    BY <2>1, <2>2, <2>3, <2>4, <2>5
<1>4. ASSUME NEW k \in Keys, DeleteIdentity(k) PROVE Recorded'
  BY <1>4, <1>a DEF DeleteIdentity
<1>5. ASSUME NEW k \in Keys, NEW x \in Calls, AddIdentity(k, x) PROVE Recorded'
  <2>1. /\ owner' = [owner EXCEPT ![k] = x] /\ owned' = [owned EXCEPT ![k] = @ \cup {x}]
        /\ x \in stored /\ UNCHANGED <<stored, snapshot, claimant, pc>>
    BY <1>5 DEF AddIdentity
  <2>2. \A j \in Keys : owned[j] \subseteq owned'[j]
    BY <2>1
  <2>3. \A d \in Calls :
          pc'[d] = "claimed" => claimant'[d] = d \/ \E j \in Asks(d)' : claimant'[d] \in owned'[j]
    BY <1>a, <2>1, <2>2
  <2> QED
    BY <2>1, <2>2, <2>3
<1>6. CASE UNCHANGED vars
  BY <1>6, <1>a DEF vars
<1> QED
  BY <1>1, <1>2, <1>3, <1>4, <1>5, <1>6 DEF Next, Step

\* While nothing is removed, an owner stays, and so does what a resolver was answered.
LEMMA OwningStep ==
  ASSUME TypeOK, Placed, Inserted, Exclusive, Recorded, Owning, ResolversAgree, [Next]_vars
  PROVE  Owning' /\ ResolversAgree'
<1>z. CASE removals' # 0
  BY <1>z DEF Owning, ResolversAgree
<1> SUFFICES ASSUME removals' = 0
             PROVE  /\ \A c \in Calls \cap stored' : \A k \in Asks(c)' : owner'[k] = c
                    /\ \A c \in Calls : kind'[c] = "resolve" /\ answer'[c] \in Calls =>
                         answer'[c] = owner'[Head(asked'[c])]
  BY <1>z DEF Owning, ResolversAgree
<1> USE DEF TypeOK
<1>a. /\ UNCHANGED <<kind, asked>>
      /\ \A c \in Calls : Asks(c)' = Asks(c) /\ Asks(c) \subseteq Keys
  <2>1. UNCHANGED <<kind, asked>>
    BY DEF Next, Step, Lookup, BeginCreate, StartInsert, Inserts, FindsClaimed, FindsNoRow,
       DeadlockAborts, AnswerClaimant, Commit, Publish, Dies, DeleteIdentity, AddIdentity, vars
  <2> QED
    BY <2>1, AsksKeys DEF Asks
<1>b. ASSUME NEW k \in Keys, DeleteIdentity(k) PROVE FALSE
  BY <1>b DEF DeleteIdentity
<1>c. removals = 0
  <2>1. CASE UNCHANGED removals
    BY <2>1
  <2> QED
    BY <1>b, <2>1 DEF Next, Step, Lookup, BeginCreate, StartInsert, Inserts, FindsClaimed,
       FindsNoRow, DeadlockAborts, AnswerClaimant, Commit, Publish, Dies, AddIdentity, vars,
       bounds
\* An answered resolve keeps its answer's owner as long as owners stay.
<1>d. /\ \A c \in Calls \cap stored : \A k \in Asks(c) : owner[k] = c
      /\ \A c \in Calls : kind[c] = "resolve" /\ answer[c] \in Calls =>
           answer[c] = owner[Head(asked[c])]
  BY <1>c DEF Owning, ResolversAgree
<1>e. \A c \in Calls : kind[c] = "resolve" =>
        Head(asked[c]) \in Keys /\ Asks(c) = {Head(asked[c])}
  BY ResolvesOne
<1>f. \A k \in Keys : owner[k] # None => owner'[k] = owner[k]
  <2>1. ASSUME NEW c \in Calls, Commit(c) PROVE \A k \in Keys : owner[k] # None => owner'[k] = owner[k]
    BY <2>1 DEF Commit, Exclusive
  <2>2. ASSUME NEW k \in Keys, NEW x \in Calls, AddIdentity(k, x)
        PROVE  \A j \in Keys : owner[j] # None => owner'[j] = owner[j]
    BY <2>2 DEF AddIdentity
  <2> QED
    BY <1>b, <2>1, <2>2 DEF Next, Step, Lookup, BeginCreate, StartInsert, Inserts, FindsClaimed,
       FindsNoRow, DeadlockAborts, AnswerClaimant, Publish, Dies, vars
<1>g. \A c \in Calls \cap stored : \A k \in Asks(c) : owner'[k] = c
  BY <1>a, <1>d, <1>f, NoneAssumption
\* New answers, one per returning step.
<1>1. ASSUME NEW c \in Calls, Return(c, answer'[c]), stored' = stored,
             answer'[c] \in Calls /\ kind[c] = "resolve" => owner'[Head(asked[c])] = answer'[c]
      PROVE  \A d \in Calls : kind'[d] = "resolve" /\ answer'[d] \in Calls =>
               answer'[d] = owner'[Head(asked'[d])]
  <2>1. \A d \in Calls \ {c} : answer'[d] = answer[d]
    BY <1>1 DEF Return
  <2>2. ASSUME NEW d \in Calls \ {c}, kind[d] = "resolve", answer[d] \in Calls
        PROVE  answer[d] = owner'[Head(asked[d])]
    BY <1>d, <1>e, <1>f, <2>2, NoneAssumption
  <2> QED
    BY <1>1, <1>a, <2>1, <2>2
<1>2. ASSUME NEW c \in Calls, Commit(c)
      PROVE  \A k \in Asks(c) : owner'[k] = c
  <2>1. left[c] = <<>> /\ pc[c] = "ready"
    BY <1>2 DEF Commit
  <2>2. held[c] = Asks(c)
    BY <2>1, NoElems DEF Inserted
  <2> QED
    BY <1>2, <1>a, <2>2 DEF Commit
<1>3. CASE UNCHANGED <<answer, stored>>
  BY <1>3, <1>a, <1>d, <1>e, <1>f, <1>g, NoneAssumption
<1>4. ASSUME NEW c \in Calls, Commit(c)
      PROVE  UNCHANGED answer /\ stored' = stored \cup {c}
  BY <1>4 DEF Commit
<1>5. ASSUME NEW c \in Calls, Step(c) \/ Dies(c), ~Commit(c)
      PROVE  /\ stored' = stored
             /\ \/ UNCHANGED answer
                \/ /\ Return(c, answer'[c])
                   /\ answer'[c] \in Calls /\ kind[c] = "resolve" =>
                        owner'[Head(asked[c])] = answer'[c]
  <2>f. \A f \in Failures : f \notin Calls
    BY FailuresAssumption
  <2>1. CASE Lookup(c)
    <3>1. CASE owner[Head(asked[c])] # None
      BY <2>1, <3>1 DEF Lookup, Return
    <3>2. CASE owner[Head(asked[c])] = None
      BY <2>1, <3>2 DEF Lookup
    <3> QED
      BY <3>1, <3>2
  <2>2. CASE BeginCreate(c) \/ StartInsert(c) \/ Inserts(c) \/ FindsClaimed(c)
    BY <2>2 DEF BeginCreate, StartInsert, Inserts, FindsClaimed
  <2>3. CASE FindsNoRow(c)
    BY <2>3, <2>f DEF FindsNoRow, Return, Failures
  <2>4. CASE DeadlockAborts(c)
    BY <2>4, <2>f DEF DeadlockAborts, Return, Failures
  <2>5. CASE Dies(c)
    BY <2>5, <2>f DEF Dies, Return, Failures
  <2>6. CASE AnswerClaimant(c)
    <3>1. \A x : Get(x) \in Calls => Get(x) = x
      BY <2>f DEF Get, Failures
    <3> QED
      BY <2>6, <3>1 DEF AnswerClaimant, Return
  <2>7. CASE Publish(c)
    <3>1. Return(c, c) /\ UNCHANGED <<stored, owner>> /\ c \in stored
      BY <2>7 DEF Publish, Placed
    <3>2. kind[c] = "resolve" => owner[Head(asked[c])] = c
      BY <1>d, <1>e, <3>1
    <3> QED
      BY <3>1, <3>2 DEF Return
  <2> QED
    BY <1>5, <2>1, <2>2, <2>3, <2>4, <2>5, <2>6, <2>7 DEF Step
<1>6. ASSUME NEW k \in Keys, NEW x \in Calls, AddIdentity(k, x)
      PROVE  UNCHANGED <<answer, stored>>
  BY <1>6 DEF AddIdentity, callVars
<1>7. CASE \E c \in Calls : Commit(c)
  <2>1. PICK c \in Calls : Commit(c)
    BY <1>7
  <2>2. UNCHANGED answer /\ stored' = stored \cup {c}
    BY <1>4, <2>1
  <2> QED
    BY <1>2, <1>a, <1>d, <1>e, <1>f, <1>g, <2>1, <2>2, NoneAssumption
<1>8. CASE \E c \in Calls : (Step(c) \/ Dies(c)) /\ ~Commit(c)
  BY <1>1, <1>3, <1>5, <1>8, <1>a, <1>g
<1>9. CASE UNCHANGED vars
  BY <1>3, <1>9 DEF vars, callVars
<1> QED
  BY <1>3, <1>6, <1>7, <1>8, <1>9, <1>b DEF Next

\* A contact is announced by its own call, once stored.
LEMMA AnnouncedStep ==
  ASSUME TypeOK, Placed, Recorded, AnnouncedIfCreated, [Next]_vars
  PROVE  AnnouncedIfCreated'
<1> USE DEF TypeOK, AnnouncedIfCreated
<1>f. \A f \in Failures : f \notin Calls
  BY FailuresAssumption
<1>1. ASSUME NEW c \in Calls, Return(c, answer'[c]), UNCHANGED <<stored, announced>>,
             answer'[c] # c
      PROVE  AnnouncedIfCreated'
  BY <1>1 DEF Return
<1>2. ASSUME UNCHANGED answer, stored \subseteq stored', UNCHANGED announced
      PROVE  AnnouncedIfCreated'
  BY <1>2
<1>3. ASSUME NEW c \in Calls, Lookup(c) PROVE AnnouncedIfCreated'
  <2> DEFINE k == Head(asked[c])
  <2>1. k \in Keys /\ c \notin stored
    BY <1>3, ResolvesOne DEF Lookup, Placed, AtWork
  <2>2. CASE owner[k] # None
    <3>1. owner[k] # c
      BY <2>1, <2>2 DEF Recorded
    <3> QED
      BY <1>1, <1>3, <2>2, <3>1 DEF Lookup, Return
  <2>3. CASE owner[k] = None
    BY <1>2, <1>3, <2>3 DEF Lookup
  <2> QED
    BY <2>2, <2>3
<1>4. ASSUME NEW c \in Calls, FindsNoRow(c) \/ DeadlockAborts(c) \/ Dies(c)
      PROVE  AnnouncedIfCreated'
  <2>1. \A f \in {"no rows", "deadlock", "died"} : f # c
    BY <1>f DEF Failures
  <2>2. Return(c, answer'[c]) /\ UNCHANGED <<stored, announced>>
    BY <1>4 DEF FindsNoRow, DeadlockAborts, Dies, Return
  <2>3. answer'[c] \in {"no rows", "deadlock", "died"}
    BY <1>4 DEF FindsNoRow, DeadlockAborts, Dies, Return
  <2> QED
    BY <1>1, <2>1, <2>2, <2>3
<1>5. ASSUME NEW c \in Calls, AnswerClaimant(c) PROVE AnnouncedIfCreated'
  <2>1. c \notin stored
    BY <1>5 DEF AnswerClaimant, Placed, AtWork
  <2>2. \A x : Get(x) # c
    BY <1>f, <2>1 DEF Get, Failures
  <2> QED
    BY <1>1, <1>5, <2>2 DEF AnswerClaimant, Return
<1>6. ASSUME NEW c \in Calls, Publish(c) PROVE AnnouncedIfCreated'
  BY <1>6 DEF Publish, Return, Placed
<1>7. ASSUME NEW c \in Calls,
             BeginCreate(c) \/ StartInsert(c) \/ Inserts(c) \/ FindsClaimed(c) \/ Commit(c)
      PROVE  AnnouncedIfCreated'
  BY <1>2, <1>7 DEF BeginCreate, StartInsert, Inserts, FindsClaimed, Commit
<1>8. ASSUME NEW k \in Keys, DeleteIdentity(k) \/ \E x \in Calls : AddIdentity(k, x)
      PROVE  AnnouncedIfCreated'
  BY <1>2, <1>8 DEF DeleteIdentity, AddIdentity, callVars
<1>9. CASE UNCHANGED vars
  BY <1>2, <1>9 DEF vars, callVars
<1> QED
  BY <1>3, <1>4, <1>5, <1>6, <1>7, <1>8, <1>9 DEF Next, Step

\* No call has begun: nothing is held, stored or answered.
LEMMA InitIInv == Init => IInv
<1> SUFFICES ASSUME Init PROVE IInv
  OBVIOUS
<1>1. PICK r \in [Calls -> Requests] :
        kind = [c \in Calls |-> r[c].kind] /\ asked = [c \in Calls |-> r[c].keys]
  BY DEF Init
<1>2. \A c \in Calls : /\ r[c].kind \in {"resolve", "create"}
                       /\ r[c].keys \in Seq(Keys)
                       /\ r[c].kind = "resolve" => Len(r[c].keys) = 1
  BY RequestsAssumption
<1>3. kind \in [Calls -> {"resolve", "create"}] /\ asked \in [Calls -> Seq(Keys)]
  BY <1>1, <1>2
<1>4. TypeOK
  BY <1>3, BoundsAssumption DEF Init, TypeOK, NoOwners
<1>5. Placed
  BY <1>1, <1>2 DEF Init, Placed, AtWork
<1>6. Inserted
  BY <1>4, AsksKeys DEF Init, Inserted
<1>7. Exclusive /\ Recorded /\ Owning
  BY DEF Init, Exclusive, Recorded, Owning, NoOwners
<1>8. ResolversAgree /\ AnnouncedIfCreated
  BY NoneAssumption DEF Init, ResolversAgree, AnnouncedIfCreated
<1> QED
  BY <1>4, <1>5, <1>6, <1>7, <1>8 DEF IInv

\* Every step keeps the invariant.
LEMMA IInvStep == IInv /\ [Next]_vars => IInv'
  BY TypeStep, PlacedStep, InsertedStep, ExclusiveStep, RecordedStep, OwningStep, AnnouncedStep
  DEF IInv

---------------------------------------------------------------------------
\* Calls, transactions, owners and answers keep their types.
THEOREM TypeCorrect == Spec => []TypeOK
<1>1. IInv => TypeOK
  BY DEF IInv
<1> QED
  BY <1>1, InitIInv, IInvStep, PTL DEF Spec

\* Whoever resolves an address is answered its one owner while nobody removes addresses, also
\* those whose insert lost to another call's (Resolve).
THEOREM ResolversAgreed == Spec => []ResolversAgree
<1>1. IInv => ResolversAgree
  BY DEF IInv
<1> QED
  BY <1>1, InitIInv, IInvStep, PTL DEF Spec

\* contact.created names stored contacts, and comes before the call that created one returns it.
THEOREM AnnouncedWhenCreated == Spec => []AnnouncedIfCreated
<1>1. IInv => AnnouncedIfCreated
  BY DEF IInv
<1> QED
  BY <1>1, InitIInv, IInvStep, PTL DEF Spec

\* Only a commit stores a contact, and it holds all the call asked for.
LEMMA CommitWhole ==
  ASSUME IInv, NEW c \in Calls, Commit(c)
  PROVE  held[c] = Asks(c)
<1>1. left[c] = <<>> /\ pc[c] = "ready"
  BY DEF Commit
<1> QED
  BY <1>1, NoElems DEF IInv, Inserted

\* A contact comes to be by its own call's commit alone.
LEMMA OnlyCommitStores ==
  ASSUME TypeOK, [Next]_vars, NEW c \in stored' \ stored
  PROVE  c \in Calls /\ Commit(c)
<1> USE DEF TypeOK
<1>1. ASSUME NEW d \in Calls, Commit(d) PROVE stored' = stored \cup {d}
  BY <1>1 DEF Commit
<1>2. ASSUME NEW d \in Calls, Step(d) \/ Dies(d), ~Commit(d) PROVE stored' = stored
  BY <1>2 DEF Step, Lookup, BeginCreate, StartInsert, Inserts, FindsClaimed, FindsNoRow,
     DeadlockAborts, AnswerClaimant, Publish, Dies
<1>3. ASSUME NEW k \in Keys, DeleteIdentity(k) \/ \E x \in Calls : AddIdentity(k, x)
      PROVE  stored' = stored
  BY <1>3 DEF DeleteIdentity, AddIdentity
<1>4. CASE UNCHANGED vars
  BY <1>4 DEF vars
<1> QED
  BY <1>1, <1>2, <1>3, <1>4 DEF Next

\* A contact appears with every address its call asked for, which no transaction but its own
\* held and nobody owned (CreateWithIdentities).
THEOREM WholeOrNothing == Spec => AllOrNothing
<1>1. ASSUME IInv, [Next]_vars
      PROVE  [\A c \in Calls :
                c \in stored' \ stored =>
                  \A k \in Asks(c) :
                    /\ owner[k] = None /\ owner'[k] = c
                    /\ \A d \in Calls \ {c} : k \notin held[d]]_vars
  <2> SUFFICES ASSUME NEW c \in Calls, c \in stored' \ stored, NEW k \in Asks(c)
               PROVE  /\ owner[k] = None /\ owner'[k] = c
                      /\ \A d \in Calls \ {c} : k \notin held[d]
    OBVIOUS
  <2>1. Commit(c) /\ TypeOK /\ Exclusive
    BY <1>1, OnlyCommitStores DEF IInv
  <2>2. k \in held[c] /\ k \in Keys
    BY <1>1, <2>1, AsksKeys, CommitWhole
  <2> QED
    BY <2>1, <2>2 DEF Exclusive, Commit
<1> QED
  BY <1>1, InitIInv, IInvStep, PTL DEF Spec, AllOrNothing

---------------------------------------------------------------------------
(* The refinement.                                                         *)

\* What the registry takes a call to have answered: its contact, from its commit on.
Answered(c) == IF c \in stored THEN c ELSE answer[c]

\* A step that changes neither contacts nor what a call has answered.
LEMMA Stutters ==
  ASSUME UNCHANGED <<asked, owner, owned, stored>>,
         \A c \in Calls : c \in stored \/ answer'[c] = answer[c]
  PROVE  UNCHANGED Registry!vars
<1>1. [c \in Calls |-> Asks(c)]' = [c \in Calls |-> Asks(c)]
  BY DEF Asks
<1>2. \A c \in Calls : Answered(c)' = Answered(c)
  BY DEF Answered
<1>3. [c \in Calls |-> Answered(c)]' = [c \in Calls |-> Answered(c)]
  BY <1>2
<1> QED
  BY <1>1, <1>3 DEF Registry!vars, Answered

\* A call that has stored nothing returns: it finds a contact that owned an address it asked
\* for, or it fails.
LEMMA Returns ==
  ASSUME TypeOK, Placed, NEW c \in Calls, AtWork(c),
         UNCHANGED <<asked, owner, owned, stored>>, Return(c, answer'[c]),
         \/ answer'[c] \in Failures
         \/ \E k \in Asks(c), x \in Calls : x \in owned[k] /\ answer'[c] = x
  PROVE  Registry!Next
<1> DEFINE before == [d \in Calls |-> Answered(d)]
           after  == [d \in Calls |-> Answered(d)']
<1>1. c \notin stored /\ answer[c] = None
  BY DEF Placed
<1>2. answer' = [answer EXCEPT ![c] = answer'[c]] /\ answer \in [Calls -> Calls \cup {None} \cup Failures]
  BY DEF Return, TypeOK
<1>3. before[c] = None /\ after = [before EXCEPT ![c] = answer'[c]]
  BY <1>1, <1>2 DEF Answered
<1>4. [d \in Calls |-> Asks(d)]' = [d \in Calls |-> Asks(d)]
  BY DEF Asks
<1>5. CASE answer'[c] \in Failures
  <2>1. Registry!Fail(c)
    BY <1>3, <1>4, <1>5 DEF Registry!Fail, Answered
  <2> QED
    BY <2>1 DEF Registry!Next
<1>6. CASE \E k \in Asks(c), x \in Calls : x \in owned[k] /\ answer'[c] = x
  <2>1. Registry!Find(c)
    BY <1>3, <1>4, <1>6 DEF Registry!Find, Answered
  <2> QED
    BY <2>1 DEF Registry!Next
<1> QED
  BY <1>5, <1>6

\* A commit is the registry's creation.
LEMMA CommitCreates ==
  ASSUME IInv, NEW c \in Calls, Commit(c)
  PROVE  Registry!Next
<1> DEFINE before == [d \in Calls |-> Answered(d)]
           after  == [d \in Calls |-> Answered(d)']
<1>1. c \notin stored /\ answer[c] = None /\ held[c] = Asks(c)
  BY CommitWhole DEF IInv, Placed, AtWork, Commit
<1>2. UNCHANGED <<answer, asked>> /\ stored' = stored \cup {c}
  BY DEF Commit
<1>3. before[c] = None /\ after = [before EXCEPT ![c] = c]
  BY <1>1, <1>2 DEF Answered
<1>4. [d \in Calls |-> Asks(d)]' = [d \in Calls |-> Asks(d)]
  BY <1>2 DEF Asks
<1>5. \A k \in Asks(c) : owner[k] = None
  BY <1>1 DEF IInv, Exclusive
<1>6. /\ owner' = [k \in Keys |-> IF k \in Asks(c) THEN c ELSE owner[k]]
      /\ owned' = [k \in Keys |-> IF k \in Asks(c) THEN owned[k] \cup {c} ELSE owned[k]]
  BY <1>1 DEF Commit
<1>7. Registry!Create(c)
  BY <1>2, <1>3, <1>4, <1>5, <1>6 DEF Registry!Create, Answered
<1> QED
  BY <1>7 DEF Registry!Next

\* Every step of a call is a step of the registry or leaves it alone.
LEMMA StepImplements == ASSUME IInv, [Next]_vars PROVE [Registry!Next]_(Registry!vars)
<1> USE DEF IInv
<1>1. ASSUME NEW c \in Calls, Lookup(c) PROVE [Registry!Next]_(Registry!vars)
  <2> DEFINE k == Head(asked[c])
  <2>1. AtWork(c) /\ k \in Asks(c) /\ k \in Keys
    BY <1>1, ResolvesOne DEF Lookup, AtWork
  <2>2. CASE owner[k] # None
    <3>1. owner[k] \in Calls /\ owner[k] \in owned[k]
      BY <2>1, <2>2 DEF Recorded, TypeOK
    <3>2. Return(c, owner[k]) /\ UNCHANGED <<asked, owner, owned, stored>>
      BY <1>1, <2>2 DEF Lookup
    <3>3. answer'[c] = owner[k]
      BY <3>2 DEF Return, TypeOK
    <3> QED
      BY <2>1, <3>1, <3>2, <3>3, Returns
  <2>3. CASE owner[k] = None
    BY <1>1, <2>3, Stutters DEF Lookup
  <2> QED
    BY <2>2, <2>3
<1>2. ASSUME NEW c \in Calls,
             BeginCreate(c) \/ StartInsert(c) \/ Inserts(c) \/ FindsClaimed(c)
      PROVE  [Registry!Next]_(Registry!vars)
  BY <1>2, Stutters DEF BeginCreate, StartInsert, Inserts, FindsClaimed
<1>3. ASSUME NEW c \in Calls, FindsNoRow(c) \/ DeadlockAborts(c)
      PROVE  [Registry!Next]_(Registry!vars)
  <2>1. AtWork(c)
    BY <1>3 DEF FindsNoRow, DeadlockAborts, Deadlocked, WaitsFor, AtWork
  <2>2. Return(c, answer'[c]) /\ answer'[c] \in Failures
    BY <1>3 DEF FindsNoRow, DeadlockAborts, Return, Failures, TypeOK
  <2> QED
    BY <1>3, <2>1, <2>2, Returns DEF FindsNoRow, DeadlockAborts
<1>4. ASSUME NEW c \in Calls, Dies(c) PROVE [Registry!Next]_(Registry!vars)
  <2>1. /\ Return(c, answer'[c]) /\ answer'[c] \in Failures
        /\ \A d \in Calls \ {c} : answer'[d] = answer[d]
    BY <1>4 DEF Dies, Return, Failures, TypeOK
  <2>2. CASE AtWork(c)
    BY <1>4, <2>1, <2>2, Returns DEF Dies
  <2>3. CASE ~AtWork(c)
    <3>1. c \in stored
      BY <1>4, <2>3 DEF Dies, AtWork, TypeOK, Placed
    <3> QED
      BY <1>4, <2>1, <3>1, Stutters DEF Dies
  <2> QED
    BY <2>2, <2>3
<1>5. ASSUME NEW c \in Calls, AnswerClaimant(c) PROVE [Registry!Next]_(Registry!vars)
  <2> DEFINE x == IF kind[c] = "resolve" THEN owner[Head(asked[c])] ELSE claimant[c]
  <2>1. /\ pc[c] = "claimed" /\ Return(c, Get(x))
        /\ UNCHANGED <<asked, owner, owned, stored>>
    BY <1>5 DEF AnswerClaimant
  <2>2. AtWork(c) /\ c \notin stored
    BY <2>1 DEF AtWork, Placed
  <2>3. answer'[c] = Get(x)
    BY <2>1 DEF Return, TypeOK
  <2>4. CASE x \in stored
    <3>1. x \in Calls /\ x # None /\ Get(x) = x
      BY <2>4, NoneAssumption DEF TypeOK, Get
    <3>2. \E k \in Asks(c) : x \in owned[k]
      <4>1. CASE kind[c] = "resolve"
        BY <3>1, <4>1, ResolvesOne DEF Recorded
      <4>2. CASE kind[c] # "resolve"
        BY <2>1, <2>2, <2>4, <4>2 DEF Recorded
      <4> QED
        BY <4>1, <4>2
    <3> QED
      BY <2>1, <2>2, <2>3, <3>1, <3>2, Returns
  <2>5. CASE x \notin stored
    <3>1. answer'[c] \in Failures
      BY <2>3, <2>5 DEF Get, Failures
    <3>2. Return(c, answer'[c])
      BY <2>1, <2>3
    <3> QED
      BY <2>1, <2>2, <3>1, <3>2, Returns
  <2> QED
    BY <2>4, <2>5
<1>6. ASSUME NEW c \in Calls, Commit(c) PROVE [Registry!Next]_(Registry!vars)
  BY <1>6, CommitCreates
<1>7. ASSUME NEW c \in Calls, Publish(c) PROVE [Registry!Next]_(Registry!vars)
  <2>1. c \in stored /\ \A d \in Calls \ {c} : answer'[d] = answer[d]
    BY <1>7 DEF Publish, Placed, Return
  <2> QED
    BY <1>7, <2>1, Stutters DEF Publish
<1>8. ASSUME UNCHANGED <<asked, answer, stored>>
      PROVE  /\ [c \in Calls |-> Asks(c)]' = [c \in Calls |-> Asks(c)]
             /\ [c \in Calls |-> Answered(c)]' = [c \in Calls |-> Answered(c)]
  BY <1>8 DEF Asks, Answered
<1>9. ASSUME NEW k \in Keys, DeleteIdentity(k) PROVE [Registry!Next]_(Registry!vars)
  <2>1. Registry!Detach(k)
    BY <1>8, <1>9 DEF DeleteIdentity, Registry!Detach, Answered, callVars
  <2> QED
    BY <2>1 DEF Registry!Next
<1>10. ASSUME NEW k \in Keys, NEW x \in Calls, AddIdentity(k, x)
       PROVE  [Registry!Next]_(Registry!vars)
  <2>1. Registry!Attach(k, x)
    BY <1>8, <1>10 DEF AddIdentity, Registry!Attach, Answered, callVars
  <2> QED
    BY <2>1 DEF Registry!Next
<1>11. CASE UNCHANGED vars
  BY <1>11, Stutters DEF vars, callVars
<1> QED
  BY <1>1, <1>2, <1>3, <1>4, <1>5, <1>6, <1>7, <1>9, <1>10, <1>11 DEF Next, Step

\* Nothing is asked of the registry but addresses, and nothing is stored at first.
LEMMA InitImplements == Init => Registry!Init
<1> SUFFICES ASSUME Init PROVE Registry!Init
  OBVIOUS
<1>1. TypeOK
  BY InitIInv DEF IInv
<1>2. [c \in Calls |-> Asks(c)] \in [Calls -> SUBSET Keys]
  BY <1>1, AsksKeys
<1> QED
  BY <1>2 DEF Init, Registry!Init

\* Each call takes effect at once or not at all: the transactions, their waits, conflicts and
\* deaths implement the registry (CreateWithIdentities, Resolve, AddIdentity, DeleteIdentity).
THEOREM RegistryImplemented == Spec => ImplementsRegistry
<1>1. IInv /\ [Next]_vars => [Registry!Next]_(Registry!vars)
  BY StepImplements
<1> QED
  BY <1>1, InitIInv, IInvStep, InitImplements, PTL DEF Spec, ImplementsRegistry, Registry!Spec
=============================================================================
