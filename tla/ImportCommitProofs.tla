------------------------- MODULE ImportCommitProofs -------------------------
(***************************************************************************)
(* The commits of ImportCommit, for any number of them, any rows, sheets,  *)
(* mappings and bounds: a row makes at most one contact, outcomes say what *)
(* happened, and a committed import is accounted for.                      *)
(*                                                                         *)
(* What carries the proof is that the mapping is locked by the first claim *)
(* and that addresses are never given back: the contact of a row owns the  *)
(* row's addresses for good, and whoever comes to the row later, a resumed *)
(* commit or a second one, meets them owned.                               *)
(***************************************************************************)
EXTENDS ImportCommit, FiniteSetTheorems, TLAPS

\* Before the first claim nothing happened to rows; later commits share the mapping.
Staged ==
  /\ state = "none" => asked = {} /\ \A c \in Commits : pc[c] = "idle"
  /\ state \in {"none", "ready"} =>
       /\ AtWork = {}
       /\ \A r \in Rows : outcome[r].is = "pending"
       /\ \A a \in Addresses : owner[a] \notin Commits \X Rows
  /\ \A c \in AtWork : assigned[c] = mapping

\* The contact of a row owns the row's addresses, and nothing else.
Created ==
  \A a \in Addresses : \A c \in Commits : \A r \in Rows :
    owner[a] = <<c, r>> =>
      /\ a \in Drafted(r, mapping)
      /\ \A b \in Drafted(r, mapping) : owner[b] = <<c, r>>

\* A commit has the pending rows before it, and nothing to do outside its rows.
Pursued ==
  \A c \in Commits :
    /\ pc[c] \in {"checked", "create", "write", "settle"} => todo[c] # {}
    /\ pc[c] \in {"row", "checked", "create", "write", "settle"} =>
         \A r \in Rows : outcome[r].is = "pending" => r \in todo[c]
    /\ pc[c] \in {"count", "announce"} =>
         \A r \in Rows : outcome[r].is # "pending"
    /\ pc[c] \notin {"row", "checked", "create", "write", "settle"} => todo[c] = {}

\* What a commit is about to record of row r is so.
ImportJustified(c, r) ==
  LET x == verdict[c].contact IN
  /\ x = <<c, r>>
  /\ \A a \in Drafted(r, mapping) : owner[a] = x
  /\ (pc[c] = "settle" /\ Text(r, mapping) # None) => x \in filled

SkipJustified(c, r) ==
  LET x == verdict[c].contact IN
  /\ \E a \in Drafted(r, mapping) : owner[a] = x
  /\ x \in Commits \X {r} => Disturbed

Judged ==
  \A c \in Commits :
    /\ pc[c] = "write" => verdict[c].is = "imported"
    /\ pc[c] = "settle" => verdict[c].is # "pending"
    /\ pc[c] \in {"write", "settle"} =>
         /\ verdict[c].is = "imported" => ImportJustified(c, Row(c))
         /\ verdict[c].is = "skipped" => SkipJustified(c, Row(c))

\* Commits that never overlapped: one is at work, on rows nobody else settles; and
\* with none cut short, a contact's row is settled or about to be.
Alone ==
  /\ ~overlap => \A c, d \in AtWork : c = d
  /\ ~overlap => \A c \in AtWork : \A r \in todo[c] : outcome[r].is = "pending"
  /\ ~Disturbed =>
       \A a \in Addresses : \A d \in Commits : \A r \in Rows :
         owner[a] = <<d, r>> =>
           \/ outcome[r].is # "pending"
           \/ pc[d] \in {"write", "settle"} /\ Row(d) = r

\* The counts a commit will store, those stored and the announcements.
Settled ==
  /\ \A c \in Commits : pc[c] = "count" =>
       /\ counted[c].imported + counted[c].skipped + counted[c].failed = Cardinality(Rows)
       /\ ~overlap => counted[c] = Tally
  /\ state # "committed" => announced = 0 /\ \A c \in Commits : pc[c] # "announce"
  /\ (state = "committed" /\ ~overlap) => \A c \in AtWork : pc[c] = "announce"
  /\ (state = "committed" /\ broken = {}) => announced >= 1 \/ \E c \in Commits : pc[c] = "announce"
  /\ ~overlap => announced <= 1 /\ \A c \in Commits : pc[c] = "announce" => announced = 0
  /\ state = "committed" =>
       /\ \A r \in Rows : outcome[r].is # "pending"
       /\ counts.imported + counts.skipped + counts.failed = Cardinality(Rows)
       /\ counts # Tally => overlap

IInv ==
  TypeOK /\ Staged /\ Created /\ Pursued /\ Judged /\ OutcomesJustified /\ Alone /\ Settled

---------------------------------------------------------------------------
(* The helpers of the model.                                               *)

\* A set of numbers that is not empty has its least element in it.
LEMMA LeastNumber ==
  ASSUME NEW S \in SUBSET Nat, S # {}
  PROVE  Min(S) \in S
<1> DEFINE T == {1..n : n \in S}
<1>1. \A n \in S : IsFiniteSet(1..n) /\ 1..n \subseteq Nat
  BY FS_Interval
<1>2. T \subseteq FiniteSubsetsOf(Nat) /\ T # {}
  BY <1>1 DEF FiniteSubsetsOf
<1>3. IsWellFoundedOn(StrictSubsetOrdering(Nat), FiniteSubsetsOf(Nat))
  BY FS_StrictSubsetOrderingWellFounded
<1> HIDE DEF T
<1>4. PICK X \in T : \A Y \in T : ~(<<Y, X>> \in StrictSubsetOrdering(Nat))
  BY <1>2, <1>3, WFMin
<1>5. PICK x \in S : X = 1..x
  BY <1>4 DEF T
<1>6. \A y \in S : x =< y
  <2> SUFFICES ASSUME NEW y \in S, y < x PROVE FALSE
    OBVIOUS
  <2>1. 1..y \in T /\ x \in 1..x /\ x \notin 1..y
    BY DEF T
  <2>2. 1..y \subseteq 1..x /\ 1..x \subseteq Nat
    OBVIOUS
  <2> QED
    BY <2>1, <2>2, <1>4, <1>5 DEF StrictSubsetOrdering
<1> QED
  BY <1>6 DEF Min

\* The row a commit is at is one of those it has left.
LEMMA RowLeft ==
  ASSUME TypeOK, NEW c \in Commits, todo[c] # {}
  PROVE  Row(c) \in todo[c] /\ Row(c) \in Rows
<1>1. todo[c] \in SUBSET Rows /\ todo[c] \in SUBSET Nat
  BY RowsAssumption DEF TypeOK
<1> QED
  BY <1>1, LeastNumber DEF Row

\* A row's settlement is one of four kinds, two of which name a contact.
LEMMA SettlementKinds ==
  /\ Pending \in Settlements /\ Pending.is = "pending"
  /\ Failed \in Settlements /\ Failed.is = "failed"
  /\ \A x \in Contacts :
       /\ Settlement("imported", x) \in Settlements /\ Settlement("skipped", x) \in Settlements
       /\ Settlement("imported", x).is = "imported" /\ Settlement("imported", x).contact = x
       /\ Settlement("skipped", x).is = "skipped" /\ Settlement("skipped", x).contact = x
  /\ \A s \in Settlements :
       /\ s.is \in {"pending", "failed", "imported", "skipped"}
       /\ s.is = "pending" => s = Pending
       /\ s.is \in {"imported", "skipped"} => s.contact \in Contacts
BY DEF Settlements, Pending, Failed, Settlement

\* No contact is the absence of one.
LEMMA NoContact == None \notin Contacts /\ Outside \notin Commits \X Rows
BY NoneAssumption, OutsideAssumption DEF Contacts

\* What a row drafts, of a sheet once there is one.
LEMMA Drafts ==
  ASSUME cells \in Sheets, NEW r \in Rows, NEW m
  PROVE  Drafted(r, m) \subseteq Addresses
<1>1. cells \in [Rows -> Cells]
  BY SheetsAssumption
<1>2. /\ cells[r].email \in Addresses \cup {None, Blank}
      /\ cells[r].phone \in Addresses \cup {None, Blank}
  BY <1>1 DEF Cells
<1>3. \A col \in AddressColumns : cells[r][col] \in Addresses \cup {None, Blank}
  BY <1>2 DEF AddressColumns
<1> QED
  BY <1>3 DEF Drafted

\* Every row is in one of the counts once none is pending.
LEMMA TallyAccounts ==
  ASSUME outcome \in [Rows -> Settlements]
  PROVE  /\ Tally \in Counts
         /\ (\A r \in Rows : outcome[r].is # "pending") =>
              Tally.imported + Tally.skipped + Tally.failed = Cardinality(Rows)
<1> DEFINE In(is) == {r \in Rows : outcome[r].is = is}
<1>1. \A is \in {"imported", "skipped", "failed"} :
        IsFiniteSet(In(is)) /\ Cardinality(In(is)) \in Nat
  BY RowsAssumption, FS_Subset, FS_CardinalityType
<1>2. Tally = [imported |-> Cardinality(In("imported")), skipped |-> Cardinality(In("skipped")),
               failed |-> Cardinality(In("failed"))]
  BY DEF Tally, Counted
<1>3. ASSUME \A r \in Rows : outcome[r].is # "pending"
      PROVE  Cardinality(In("imported")) + Cardinality(In("skipped")) + Cardinality(In("failed"))
               = Cardinality(Rows)
  <2> DEFINE I == In("imported")
             S == In("skipped")
             F == In("failed")
  <2>1. \A r \in Rows : outcome[r].is \in {"imported", "skipped", "failed"}
    BY <1>3, SettlementKinds
  <2>2. Rows = (I \cup S) \cup F /\ (I \cup S) \cap F = {} /\ I \cap S = {}
    BY <2>1
  <2>3. /\ IsFiniteSet(I) /\ IsFiniteSet(S) /\ IsFiniteSet(F)
        /\ Cardinality(I) \in Nat /\ Cardinality(S) \in Nat /\ Cardinality(F) \in Nat
    BY <1>1
  <2> HIDE DEF In, I, S, F
  <2>4. /\ IsFiniteSet(I \cup S)
        /\ Cardinality(I \cup S) = Cardinality(I) + Cardinality(S) - Cardinality(I \cap S)
    BY <2>3, FS_Union
  <2>5. Cardinality((I \cup S) \cup F)
          = Cardinality(I \cup S) + Cardinality(F) - Cardinality((I \cup S) \cap F)
    BY <2>3, <2>4, FS_Union
  <2>6. Cardinality({}) = 0
    BY FS_EmptySet
  <2>7. Cardinality(I \cap S) = 0 /\ Cardinality((I \cup S) \cap F) = 0
    BY <2>2, <2>6
  <2>8. Cardinality(I \cup S) = Cardinality(I) + Cardinality(S)
    BY <2>3, <2>4, <2>7
  <2>9. Cardinality((I \cup S) \cup F) = Cardinality(Rows)
    BY <2>2
  <2>10. Cardinality(I) + Cardinality(S) + Cardinality(F) = Cardinality(Rows)
    BY <2>3, <2>5, <2>7, <2>8, <2>9
  <2> QED
    BY <2>10 DEF I, S, F
<1> HIDE DEF In
<1> QED
  BY <1>1, <1>2, <1>3 DEF Counts

---------------------------------------------------------------------------
(* What no step undoes.                                                    *)

\* The steps of no commit.
Aside ==
  Upload \/ AskMapping \/ StoreMapping \/ ToggleField \/ \E a \in Addresses : ClaimElsewhere(a)

\* A commit's way to its claim.
Entering(c) == Load(c) \/ ReadRegistry(c) \/ ClaimRefused(c)

\* The sheet and the mapping stay once claimed, an owner keeps its address, a
\* written field and a settled row stay so, and so does a disturbance.
Onward ==
  /\ state \notin {"none", "ready"} =>
       state' \notin {"none", "ready"} /\ cells' = cells /\ mapping' = mapping
  /\ \A a \in Addresses : owner[a] # None => owner'[a] = owner[a]
  /\ filled \subseteq filled'
  /\ \A r \in Rows : outcome[r].is # "pending" => outcome'[r].is # "pending"
  /\ Disturbed => Disturbed'

\* A step of one commit leaves the others where they are.
Apart(c) ==
  \A d \in Commits \ {c} :
    /\ pc'[d] = pc[d] /\ todo'[d] = todo[d] /\ verdict'[d] = verdict[d]
    /\ counted'[d] = counted[d] /\ assigned'[d] = assigned[d]

\* What happens beside the commits claims addresses at most.
LEMMA AsideKeeps ==
  ASSUME TypeOK, Aside
  PROVE  /\ UNCHANGED <<outcome, counts, announced, filled, pc, locals, verdict, history>>
         /\ owner' \in [Addresses -> Contacts \cup {None}]
         /\ \A a \in Addresses : owner'[a] = owner[a] \/ (owner[a] = None /\ owner'[a] = Outside)
<1>0. owner \in [Addresses -> Contacts \cup {None}] /\ Outside \in Contacts
  BY DEF TypeOK, Contacts
<1>1. CASE Upload \/ AskMapping \/ StoreMapping \/ ToggleField
  BY <1>0, <1>1 DEF Upload, AskMapping, StoreMapping, ToggleField, import, elsewhere, contacts,
     mapper, locals, history
<1>2. CASE \E a \in Addresses : ClaimElsewhere(a)
  BY <1>0, <1>2 DEF ClaimElsewhere, import, mapper, locals, history
<1> QED
  BY <1>1, <1>2 DEF Aside

\* A commit's step changes its own place alone.
LEMMA StepsApart ==
  ASSUME TypeOK, NEW c \in Commits, CommitStep(c) \/ Break(c)
  PROVE  Apart(c)
<1>0. /\ pc \in [Commits -> {"idle", "loaded", "entered", "done"} \cup Stages]
      /\ assigned \in [Commits -> Mappings \cup {{}}] /\ todo \in [Commits -> SUBSET Rows]
      /\ counted \in [Commits -> Counts] /\ verdict \in [Commits -> Settlements]
  BY DEF TypeOK
<1>1. CASE Entering(c) \/ Claim(c) \/ ReadPending(c)
  BY <1>0, <1>1 DEF Entering, Load, ReadRegistry, ClaimRefused, Claim, ReadPending, Apart, locals
<1>2. CASE RefuseRow(c) \/ CheckRow(c) \/ FindClaimant(c)
  BY <1>0, <1>2 DEF RefuseRow, CheckRow, FindClaimant, Apart, locals
<1>3. CASE CreateContact(c) \/ LoseCreate(c) \/ WriteField(c) \/ SettleRow(c)
  BY <1>0, <1>3 DEF CreateContact, LoseCreate, WriteField, SettleRow, Apart, locals
<1>4. CASE CountRows(c) \/ FinishCommit(c) \/ Announce(c)
  BY <1>0, <1>4 DEF CountRows, FinishCommit, Announce, Apart, locals
<1>5. CASE End(c)
  BY <1>0, <1>5 DEF End, Apart
<1> QED
  BY <1>1, <1>2, <1>3, <1>4, <1>5 DEF CommitStep, Entering, WriteRefused, Break

\* Addresses already owned are in nobody's way but the creator's.
LEMMA CreatedFree ==
  ASSUME TypeOK, NEW c \in Commits, CreateContact(c)
  PROVE  \A a \in Addresses :
           IF a \in Drafted(Row(c), assigned[c])
           THEN owner[a] = None /\ owner'[a] = <<c, Row(c)>>
           ELSE owner'[a] = owner[a]
BY DEF TypeOK, CreateContact, Conflicts, Claimants

\* A step never unsettles a row, frees an address or, after the first claim, changes the sheet
\* or the mapping.
LEMMA StepsOnward ==
  TypeOK /\ Judged /\ Next => Onward
<1> SUFFICES ASSUME TypeOK, Judged, Next PROVE Onward
  OBVIOUS
<1>0. outcome \in [Rows -> Settlements]
  BY DEF TypeOK
<1>1. CASE Aside
  <2>1. state \notin {"none", "ready"} =>
          state' \notin {"none", "ready"} /\ cells' = cells /\ mapping' = mapping
    BY <1>1 DEF Aside, Upload, AskMapping, StoreMapping, StillReady, ToggleField, ClaimElsewhere,
       import
  <2>2. \A a \in Addresses : owner[a] # None => owner'[a] = owner[a]
    BY <1>1, AsideKeeps
  <2>3. UNCHANGED <<filled, outcome, broken, overlap>>
    BY <1>1, AsideKeeps DEF history
  <2> QED
    BY <2>1, <2>2, <2>3 DEF Onward, Disturbed
<1>2. ASSUME NEW c \in Commits, Entering(c) \/ ReadPending(c) \/ CheckRow(c)
                                 \/ FindClaimant(c) \/ LoseCreate(c) \/ CountRows(c)
      PROVE  Onward
  BY <1>2 DEF Entering, Load, ReadRegistry, ClaimRefused, ReadPending, CheckRow, FindClaimant,
     LoseCreate, CountRows, import, elsewhere, contacts, history, Onward, Disturbed
<1>3. ASSUME NEW c \in Commits, Claim(c) \/ FinishCommit(c) \/ Announce(c) \/ End(c) \/ WriteField(c)
      PROVE  Onward
  <2>1. CASE Claim(c)
    <3>1. broken' = broken /\ (overlap => overlap')
      BY <2>1 DEF Claim
    <3>2. UNCHANGED <<outcome, owner, filled, cells, mapping>> /\ state' = "committing"
      BY <2>1 DEF Claim, elsewhere, contacts
    <3> QED
      BY <3>1, <3>2 DEF Onward, Disturbed
  <2>2. CASE FinishCommit(c)
    BY <2>2 DEF FinishCommit, elsewhere, contacts, history, Onward, Disturbed
  <2>3. CASE Announce(c) \/ WriteField(c)
    BY <2>3 DEF Announce, WriteField, import, elsewhere, contacts, history, Onward, Disturbed
  <2>4. CASE End(c)
    BY <2>4 DEF End, import, elsewhere, contacts, Onward, Disturbed
  <2> QED
    BY <1>3, <2>1, <2>2, <2>3, <2>4
<1>4. ASSUME NEW c \in Commits, RefuseRow(c) \/ SettleRow(c) PROVE Onward
  <2>1. Failed.is # "pending"
    BY SettlementKinds
  <2>2. SettleRow(c) => verdict[c].is # "pending"
    BY DEF SettleRow, Judged
  <2>3. \A r \in Rows : outcome[r].is # "pending" => outcome'[r].is # "pending"
    BY <1>0, <1>4, <2>1, <2>2 DEF RefuseRow, SettleRow
  <2> QED
    BY <1>4, <2>3 DEF RefuseRow, SettleRow, import, elsewhere, contacts, history, Onward, Disturbed
<1>5. ASSUME NEW c \in Commits, CreateContact(c) PROVE Onward
  <2>1. \A a \in Addresses : owner[a] # None => owner'[a] = owner[a]
    BY <1>5, CreatedFree
  <2> QED
    BY <1>5, <2>1 DEF CreateContact, import, history, Onward, Disturbed
<1> QED
  BY <1>1, <1>2, <1>3, <1>4, <1>5 DEF Next, CommitStep, Aside, Entering, WriteRefused, Break

---------------------------------------------------------------------------
(* Types.                                                                  *)

\* A commit that looks for claimants meets contacts.
LEMMA ClaimantsAreContacts ==
  ASSUME TypeOK, NEW c \in Commits, cells \in Sheets, NEW r \in Rows
  PROVE  Claimants(c, r) \subseteq Contacts /\ Drafted(r, assigned[c]) \subseteq Addresses
<1>1. Drafted(r, assigned[c]) \subseteq Addresses
  BY Drafts
<1> QED
  BY <1>1 DEF TypeOK, Claimants

\* A commit at work on a row has that row still to do.
LEMMA AtARow ==
  ASSUME TypeOK, Staged, Pursued, NEW c \in Commits,
         pc[c] \in {"checked", "create", "write", "settle"} \/ todo[c] # {}
  PROVE  Row(c) \in todo[c] /\ Row(c) \in Rows /\ <<c, Row(c)>> \in Contacts
<1>1. todo[c] # {}
  BY DEF Pursued
<1> QED
  BY <1>1, RowLeft DEF Contacts

\* At work, the sheet and the mapping are there.
LEMMA WorkClaimed ==
  ASSUME TypeOK, Staged, NEW c \in Commits, pc[c] \in Stages
  PROVE  state \notin {"none", "ready"} /\ cells \in Sheets /\ assigned[c] = mapping /\ c \in AtWork
<1>1. c \in AtWork
  BY DEF AtWork
<1>2. state \notin {"none", "ready"} /\ assigned[c] = mapping
  BY <1>1 DEF Staged
<1> QED
  BY <1>1, <1>2 DEF TypeOK

\* Every step keeps every variable in its type.
LEMMA Typed ==
  TypeOK /\ Staged /\ Pursued /\ Judged /\ Next => TypeOK'
<1> SUFFICES ASSUME TypeOK, Staged, Pursued, Judged, Next PROVE TypeOK'
  OBVIOUS
<1>0. Pending \in Settlements /\ Failed \in Settlements
  BY SettlementKinds
<1>1. CASE Aside
  <2>0. UNCHANGED <<outcome, counts, announced, filled, pc, locals, verdict, history>>
        /\ owner' \in [Addresses -> Contacts \cup {None}]
    BY <1>1, AsideKeeps
  <2>1. /\ state' \in {"none", "ready", "committing", "committed"}
        /\ (state' = "none" /\ cells' = <<>>) \/ cells' \in Sheets
        /\ mapping' \in Mappings \cup {{}} /\ asked' \in Mappings \cup {{}}
        /\ live' \in BOOLEAN /\ mappings' \in 0..MaxMappings
    <3>1. CASE Upload
      BY <3>1 DEF Upload, TypeOK, elsewhere, mapper
    <3>2. CASE AskMapping
      BY <3>2, BoundsAssumption DEF AskMapping, TypeOK, import
    <3>3. CASE StoreMapping
      BY <3>3 DEF StoreMapping, TypeOK
    <3>4. CASE ToggleField
      BY <3>4 DEF ToggleField, TypeOK, import, mapper
    <3>5. CASE \E a \in Addresses : ClaimElsewhere(a)
      BY <3>5 DEF ClaimElsewhere, TypeOK, import, mapper
    <3> QED
      BY <1>1, <3>1, <3>2, <3>3, <3>4, <3>5 DEF Aside
  <2> QED
    BY <2>0, <2>1 DEF TypeOK, locals, history
<1>2. ASSUME NEW c \in Commits, Entering(c) PROVE TypeOK'
  <2>1. CASE Load(c)
    BY <2>1, MappingsAssumption DEF Load, TypeOK, import, elsewhere, contacts, mapper, history
  <2>2. CASE ReadRegistry(c)
    BY <2>2 DEF ReadRegistry, TypeOK, import, elsewhere, contacts, mapper, history
  <2>3. CASE ClaimRefused(c)
    BY <2>3 DEF ClaimRefused, TypeOK, import, elsewhere, contacts, mapper, locals, history
  <2> QED
    BY <1>2, <2>1, <2>2, <2>3 DEF Entering
<1>3. ASSUME NEW c \in Commits, Claim(c) PROVE TypeOK'
  <2>1. overlap' \in BOOLEAN
    BY <1>3 DEF Claim
  <2> QED
    BY <1>3, <2>1 DEF Claim, TypeOK, Stages, elsewhere, contacts, mapper
<1>4. ASSUME NEW c \in Commits, ReadPending(c) PROVE TypeOK'
  BY <1>4 DEF ReadPending, TypeOK, Stages, import, elsewhere, contacts, mapper, history
<1>5. ASSUME NEW c \in Commits, RefuseRow(c) PROVE TypeOK'
  BY <1>0, <1>5 DEF RefuseRow, TypeOK, import, elsewhere, contacts, mapper, history
<1>6. ASSUME NEW c \in Commits, CheckRow(c) PROVE TypeOK'
  <2>1. PICK v \in Settlements, p \in Stages :
          verdict' = [verdict EXCEPT ![c] = v] /\ pc' = [pc EXCEPT ![c] = p]
    BY <1>0, <1>6 DEF CheckRow, Stages
  <2> QED
    BY <1>6, <2>1 DEF CheckRow, TypeOK, import, elsewhere, contacts, mapper, locals, history
<1>7. ASSUME NEW c \in Commits, FindClaimant(c) PROVE TypeOK'
  <2>1. Claimants(c, Row(c)) \subseteq Contacts
    BY <1>7, AtARow, WorkClaimed, ClaimantsAreContacts DEF FindClaimant, Stages
  <2>2. PICK v \in Settlements, p \in Stages :
          verdict' = [verdict EXCEPT ![c] = v] /\ pc' = [pc EXCEPT ![c] = p]
    <3>1. PICK v : /\ v = Failed \/ v = Pending \/ \E x \in Claimants(c, Row(c)) : v = Settlement("skipped", x)
                   /\ verdict' = [verdict EXCEPT ![c] = v]
                   /\ pc' = [pc EXCEPT ![c] = IF v = Pending THEN "create" ELSE "settle"]
      BY <1>7 DEF FindClaimant
    <3>2. v \in Settlements
      BY <1>0, <2>1, <3>1, SettlementKinds
    <3> QED
      BY <3>1, <3>2 DEF Stages
  <2> QED
    BY <1>7, <2>2 DEF FindClaimant, TypeOK, import, elsewhere, contacts, mapper, locals, history
<1>8. ASSUME NEW c \in Commits, CreateContact(c) PROVE TypeOK'
  <2>1. <<c, Row(c)>> \in Contacts /\ Settlement("imported", <<c, Row(c)>>) \in Settlements
    BY <1>8, AtARow, SettlementKinds DEF CreateContact
  <2>2. owner' \in [Addresses -> Contacts \cup {None}]
    BY <1>8, <2>1 DEF CreateContact, TypeOK
  <2>3. PICK p \in Stages : pc' = [pc EXCEPT ![c] = p]
    BY <1>8 DEF CreateContact, Stages
  <2>4. verdict' = [verdict EXCEPT ![c] = Settlement("imported", <<c, Row(c)>>)]
    BY <1>8 DEF CreateContact
  <2>5. UNCHANGED <<import, outcome, filled, live, mapper, locals, history>>
    BY <1>8 DEF CreateContact
  <2> QED
    BY <2>1, <2>2, <2>3, <2>4, <2>5 DEF TypeOK, import, mapper, locals, history
<1>9. ASSUME NEW c \in Commits, LoseCreate(c) PROVE TypeOK'
  <2>1. Claimants(c, Row(c)) \subseteq Contacts
    BY <1>9, AtARow, WorkClaimed, ClaimantsAreContacts DEF LoseCreate, Stages
  <2>2. PICK v \in Settlements : verdict' = [verdict EXCEPT ![c] = v]
    BY <1>9, <2>1, SettlementKinds DEF LoseCreate, Conflicts
  <2> QED
    BY <1>9, <2>2 DEF LoseCreate, TypeOK, Stages, import, elsewhere, contacts, mapper, locals, history
<1>10. ASSUME NEW c \in Commits, WriteField(c) PROVE TypeOK'
  <2>1. verdict[c].contact \in Contacts
    BY <1>10, SettlementKinds DEF WriteField, Judged, TypeOK
  <2> QED
    BY <1>10, <2>1 DEF WriteField, TypeOK, Stages, import, mapper, locals, history
<1>11. ASSUME NEW c \in Commits, SettleRow(c) PROVE TypeOK'
  BY <1>0, <1>11 DEF SettleRow, TypeOK, Stages, import, elsewhere, contacts, mapper, history
<1>12. ASSUME NEW c \in Commits, CountRows(c) PROVE TypeOK'
  <2>1. Tally \in Counts
    BY TallyAccounts DEF TypeOK
  <2> QED
    BY <1>12, <2>1 DEF CountRows, TypeOK, Stages, import, elsewhere, contacts, mapper, history
<1>13. NoCounts \in Counts
  BY DEF NoCounts, Counts
<1>14. ASSUME NEW c \in Commits, FinishCommit(c) \/ Announce(c) PROVE TypeOK'
  <2>1. CASE FinishCommit(c)
    <3>1. counted' \in [Commits -> Counts] /\ counts' \in Counts
      BY <1>13, <2>1 DEF FinishCommit, TypeOK
    <3>2. state' = "committed" /\ cells' = cells
      BY <2>1 DEF FinishCommit
    <3>3. cells \in Sheets
      BY <2>1, WorkClaimed DEF FinishCommit, Stages
    <3>4. pc' \in [Commits -> {"idle", "loaded", "entered", "done"} \cup Stages]
      BY <2>1 DEF FinishCommit, TypeOK, Stages
    <3> QED
      BY <2>1, <3>1, <3>2, <3>3, <3>4 DEF FinishCommit, TypeOK, elsewhere, contacts, mapper, history
  <2>2. CASE Announce(c)
    BY <2>2 DEF Announce, TypeOK, elsewhere, contacts, mapper, history
  <2> QED
    BY <1>14, <2>1, <2>2
<1>15. ASSUME NEW c \in Commits, End(c) PROVE TypeOK'
  BY <1>0, <1>13, <1>15 DEF End, TypeOK, import, elsewhere, contacts, mapper
<1> QED
  BY <1>1, <1>2, <1>3, <1>4, <1>5, <1>6, <1>7, <1>8, <1>9, <1>10, <1>11, <1>12, <1>14, <1>15
     DEF Next, CommitStep, Aside, Entering, WriteRefused, Break

---------------------------------------------------------------------------
(* Before and after the first claim; what a row's contact owns.            *)

\* Nothing is settled before the first claim, which needs a sheet and a mapping.
LEMMA StagedKept ==
  TypeOK /\ Staged /\ Pursued /\ Next => Staged'
<1> SUFFICES ASSUME TypeOK, Staged, Pursued, Next PROVE Staged'
  OBVIOUS
<1>0. /\ pc \in [Commits -> {"idle", "loaded", "entered", "done"} \cup Stages]
      /\ assigned \in [Commits -> Mappings \cup {{}}] /\ "idle" \notin Stages
  BY DEF TypeOK, Stages
<1>1. CASE Aside
  <2>1. UNCHANGED <<outcome, pc, assigned>>
    BY <1>1, AsideKeeps DEF locals
  <2>2. AtWork' = AtWork
    BY <2>1 DEF AtWork
  <2>3. \A a \in Addresses : owner[a] \notin Commits \X Rows => owner'[a] \notin Commits \X Rows
    BY <1>1, AsideKeeps, NoContact
  <2>4. /\ state' \in {"none", "ready"} => state \in {"none", "ready"}
        /\ state' = "none" => asked = {} /\ asked' = {} /\ state = "none"
    <3>1. state = "none" => asked = {}
      BY DEF Staged
    <3> QED
      BY <1>1, <3>1 DEF Aside, Upload, AskMapping, StoreMapping, ToggleField, ClaimElsewhere, import,
         mapper
  <2>5. state' \in {"none", "ready"} \/ mapping' = mapping
    BY <1>1 DEF Aside, Upload, AskMapping, StoreMapping, StillReady, ToggleField, ClaimElsewhere, import
  <2>6. state' = "none" => asked' = {} /\ \A c \in Commits : pc'[c] = "idle"
    BY <2>1, <2>4 DEF Staged
  <2>7. state' \in {"none", "ready"} =>
          /\ AtWork' = {}
          /\ \A r \in Rows : outcome'[r].is = "pending"
          /\ \A a \in Addresses : owner'[a] \notin Commits \X Rows
    BY <2>1, <2>2, <2>3, <2>4 DEF Staged
  <2>8. \A c \in AtWork' : assigned'[c] = mapping'
    BY <2>1, <2>2, <2>5, <2>7 DEF Staged
  <2> QED
    BY <2>6, <2>7, <2>8 DEF Staged
<1>2. ASSUME NEW c \in Commits, Entering(c) PROVE Staged'
  <2>1. UNCHANGED <<state, mapping, outcome, owner, asked, assigned>>
    BY <1>2 DEF Entering, Load, ReadRegistry, ClaimRefused, import, elsewhere, contacts, mapper, locals
  <2>2. AtWork' = AtWork /\ state # "none"
    BY <1>0, <1>2 DEF Entering, Load, ReadRegistry, ClaimRefused, AtWork, Stages, Staged
  <2> QED
    BY <2>1, <2>2 DEF Staged
<1>3. ASSUME NEW c \in Commits, Claim(c) PROVE Staged'
  <2>1. state' = "committing" /\ mapping' = mapping
    BY <1>3 DEF Claim
  <2>2. \A d \in AtWork' : d \in Commits /\ (d # c => d \in AtWork /\ assigned'[d] = assigned[d])
    BY <1>0, <1>3 DEF Claim, AtWork
  <2>3. assigned'[c] = mapping
    BY <1>0, <1>3 DEF Claim
  <2> QED
    BY <2>1, <2>2, <2>3 DEF Staged
<1>4. ASSUME NEW c \in Commits, pc[c] \in Stages, CommitStep(c) \/ Break(c) PROVE Staged'
  <2>1. state \notin {"none", "ready"} /\ c \in AtWork
    BY <1>4, WorkClaimed
  <2>2. state' \notin {"none", "ready"} /\ mapping' = mapping
    <3>1. /\ mapping' = mapping
          /\ state' = state \/ state' \in {"committing", "committed"}
      BY <1>0, <1>4 DEF CommitStep, Load, ReadRegistry, ClaimRefused, Claim, ReadPending, RefuseRow, CheckRow,
         FindClaimant, CreateContact, LoseCreate, WriteField, WriteRefused, SettleRow, CountRows,
         FinishCommit, Announce, Break, End, import
    <3> QED
      BY <2>1, <3>1
  <2>3. pc'[c] \in Stages => assigned'[c] = assigned[c]
    <3>1. locals' = locals \/ assigned' = assigned \/ pc' = [pc EXCEPT ![c] = "done"]
      BY <1>4 DEF CommitStep, Load, ReadRegistry, ClaimRefused, Claim, ReadPending, RefuseRow, CheckRow,
         FindClaimant, CreateContact, LoseCreate, WriteField, WriteRefused, SettleRow, CountRows,
         FinishCommit, Announce, Break, End, Stages
    <3> QED
      BY <1>0, <3>1 DEF locals, Stages
  <2>4. \A d \in AtWork' : d \in AtWork /\ assigned'[d] = assigned[d]
    BY <1>4, <2>1, <2>3, StepsApart DEF Apart, AtWork
  <2> QED
    BY <2>2, <2>4 DEF Staged
<1> QED
  <2>1. ASSUME NEW c \in Commits, CommitStep(c) \/ Break(c)
        PROVE  Entering(c) \/ Claim(c) \/ pc[c] \in Stages
    BY <2>1 DEF CommitStep, Entering, ReadPending, RefuseRow, CheckRow, FindClaimant, CreateContact,
       LoseCreate, WriteField, WriteRefused, SettleRow, CountRows, FinishCommit, Announce, Break, AtWork,
       Stages
  <2> QED
    BY <1>1, <1>2, <1>3, <1>4, <2>1 DEF Next, Aside

\* The drafts of a row stay from the first claim on.
LEMMA DraftsStay ==
  ASSUME Onward, state \notin {"none", "ready"}
  PROVE  \A r \in Rows : /\ Drafted(r, mapping)' = Drafted(r, mapping)
                         /\ Text(r, mapping)' = Text(r, mapping)
BY DEF Onward, Drafted, Text

\* A contact comes to be with all of its row's addresses, which stay its own.
LEMMA CreatedKept ==
  TypeOK /\ Staged /\ Pursued /\ Created /\ Onward /\ Next => Created'
<1> SUFFICES ASSUME TypeOK, Staged, Pursued, Created, Onward, Next PROVE Created'
  OBVIOUS
<1>1. CASE state \in {"none", "ready"}
  <2>1. \A a \in Addresses : owner[a] \notin Commits \X Rows /\ AtWork = {}
    BY <1>1 DEF Staged
  <2>2. CASE Aside
    <3>1. \A a \in Addresses : \A c \in Commits : \A r \in Rows : owner'[a] # <<c, r>>
      <4>1. \A a \in Addresses : owner'[a] \notin Commits \X Rows
        BY <2>1, <2>2, AsideKeeps, NoContact
      <4> QED
        BY <4>1
    <3> QED
      BY <3>1 DEF Created
  <2>3. ASSUME NEW c \in Commits, CommitStep(c) \/ Break(c) PROVE owner' = owner
    <3>1. pc[c] \notin Stages
      BY <2>1, WorkClaimed, <1>1
    <3> QED
      BY <2>3, <3>1 DEF CommitStep, Load, ReadRegistry, ClaimRefused, Claim, ReadPending, RefuseRow,
         CheckRow, FindClaimant, CreateContact, LoseCreate, WriteField, WriteRefused, SettleRow, CountRows,
         FinishCommit, Announce, Break, End, Stages, elsewhere, contacts
  <2>4. ASSUME owner' = owner PROVE Created'
    <3>1. \A a \in Addresses : \A c \in Commits : \A r \in Rows : owner'[a] # <<c, r>>
      BY <2>1, <2>4
    <3> QED
      BY <3>1 DEF Created
  <2> QED
    BY <2>2, <2>3, <2>4 DEF Next, Aside
<1>2. CASE state \notin {"none", "ready"}
  <2>0. /\ cells \in Sheets
        /\ \A r \in Rows : Drafted(r, mapping)' = Drafted(r, mapping) /\ Drafted(r, mapping) \subseteq Addresses
    BY <1>2, DraftsStay, Drafts DEF TypeOK
  <2>1. ASSUME \A a \in Addresses : owner'[a] \in Commits \X Rows => owner'[a] = owner[a] PROVE Created'
    <3>1. ASSUME NEW a \in Addresses, NEW c \in Commits, NEW r \in Rows, owner'[a] = <<c, r>>
          PROVE  /\ a \in Drafted(r, mapping)'
                 /\ \A b \in Drafted(r, mapping)' : owner'[b] = <<c, r>>
      <4>1. owner[a] = <<c, r>>
        BY <2>1, <3>1
      <4>2. a \in Drafted(r, mapping) /\ \A b \in Drafted(r, mapping) : owner[b] = <<c, r>>
        BY <4>1 DEF Created
      <4>3. <<c, r>> # None
        BY OutsideAssumption
      <4> QED
        BY <2>0, <4>2, <4>3 DEF Onward
    <3> QED
      BY <3>1 DEF Created
  <2>2. CASE Aside
    BY <2>1, <2>2, AsideKeeps, NoContact
  <2>3. ASSUME NEW d \in Commits, CreateContact(d) PROVE Created'
    <3>1. Row(d) \in Rows /\ assigned[d] = mapping /\ <<d, Row(d)>> # None
      BY <2>3, AtARow, WorkClaimed, OutsideAssumption DEF CreateContact, Stages
    <3>2. PICK q \in Rows : q = Row(d)
      BY <3>1
    <3>3. \A a \in Addresses :
            IF a \in Drafted(q, mapping) THEN owner[a] = None /\ owner'[a] = <<d, q>>
                                         ELSE owner'[a] = owner[a]
      BY <2>3, <3>1, <3>2, CreatedFree
    <3>4. ASSUME NEW a \in Addresses, NEW c \in Commits, NEW r \in Rows, owner'[a] = <<c, r>>
          PROVE  /\ a \in Drafted(r, mapping)
                 /\ \A b \in Drafted(r, mapping) : owner'[b] = <<c, r>>
      <4>1. CASE a \in Drafted(q, mapping)
        BY <2>0, <3>3, <3>4, <4>1
      <4>2. CASE a \notin Drafted(q, mapping)
        <5>1. owner[a] = <<c, r>> /\ <<c, r>> # None
          BY <3>3, <3>4, <4>2, OutsideAssumption
        <5>2. a \in Drafted(r, mapping) /\ \A b \in Drafted(r, mapping) : owner[b] = <<c, r>>
          BY <5>1 DEF Created
        <5> QED
          BY <2>0, <5>1, <5>2 DEF Onward
      <4> QED
        BY <4>1, <4>2
    <3> QED
      BY <2>0, <3>4 DEF Created
  <2>4. ASSUME NEW c \in Commits, CommitStep(c) \/ Break(c) PROVE owner' = owner \/ CreateContact(c)
    BY <2>4 DEF CommitStep, Load, ReadRegistry, ClaimRefused, Claim, ReadPending, RefuseRow,
       CheckRow, FindClaimant, LoseCreate, WriteField, WriteRefused, SettleRow, CountRows,
       FinishCommit, Announce, Break, End, elsewhere, contacts
  <2> QED
    BY <2>1, <2>2, <2>3, <2>4 DEF Next, Aside
<1> QED
  BY <1>1, <1>2

---------------------------------------------------------------------------
(* What a commit has before it, and what it is about to record.            *)

Busy == {"row", "checked", "create", "write", "settle"}

\* A commit has every pending row still before it, and drops a row only once settled.
LEMMA PursuedKept ==
  TypeOK /\ Staged /\ Pursued /\ Judged /\ Onward /\ Next => Pursued'
<1> SUFFICES ASSUME TypeOK, Staged, Pursued, Judged, Onward, Next PROVE Pursued'
  OBVIOUS
<1> DEFINE Mine(d) ==
      /\ pc[d] \in {"checked", "create", "write", "settle"} => todo[d] # {}
      /\ pc[d] \in Busy => \A r \in Rows : outcome[r].is = "pending" => r \in todo[d]
      /\ pc[d] \in {"count", "announce"} => \A r \in Rows : outcome[r].is # "pending"
      /\ pc[d] \notin Busy => todo[d] = {}
<1>0. /\ pc \in [Commits -> {"idle", "loaded", "entered", "done"} \cup Stages]
      /\ todo \in [Commits -> SUBSET Rows] /\ outcome \in [Rows -> Settlements]
  BY DEF TypeOK
<1>1. \A d \in Commits : Mine(d)
  BY DEF Pursued, Busy
<1>2. \A r \in Rows : outcome'[r].is = "pending" => outcome[r].is = "pending"
  BY DEF Onward
<1>3. ASSUME NEW d \in Commits, pc'[d] = pc[d], todo'[d] = todo[d] PROVE Mine(d)'
  BY <1>1, <1>2, <1>3 DEF Onward
<1>4. ASSUME NEW c \in Commits, CommitStep(c) \/ Break(c) PROVE Mine(c)'
  <2>1. CASE Entering(c) \/ Claim(c)
    <3>1. pc[c] \notin Busy /\ pc'[c] \in {"loaded", "entered", "done", "claimed"} /\ todo' = todo
      BY <1>0, <2>1 DEF Entering, Load, ReadRegistry, ClaimRefused, Claim, Busy, locals
    <3> QED
      BY <1>1, <3>1 DEF Busy
  <2>2. CASE ReadPending(c)
    <3>1. pc'[c] = "row" /\ outcome' = outcome /\ todo'[c] = {r \in Rows : outcome[r] = Pending}
      BY <1>0, <2>2 DEF ReadPending
    <3>2. \A r \in Rows : outcome[r].is = "pending" => outcome[r] = Pending
      BY <1>0, SettlementKinds
    <3> QED
      BY <3>1, <3>2 DEF Busy
  <2>3. CASE RefuseRow(c) \/ SettleRow(c)
    <3>1. PICK s : /\ outcome' = [outcome EXCEPT ![Row(c)] = s] /\ s.is # "pending"
      BY <2>3, SettlementKinds DEF RefuseRow, SettleRow, Judged
    <3>2. pc[c] \in Busy /\ pc'[c] = "row" /\ todo'[c] = todo[c] \ {Row(c)}
      BY <1>0, <2>3 DEF RefuseRow, SettleRow, Busy
    <3>3. \A r \in Rows : outcome'[r].is = "pending" => r # Row(c)
      BY <1>0, <3>1
    <3> QED
      BY <1>1, <1>2, <3>2, <3>3 DEF Busy
  <2>4. CASE CheckRow(c)
    <3>1. /\ pc[c] = "row" /\ pc'[c] \in {"checked", "settle"} /\ todo[c] # {}
          /\ outcome' = outcome /\ todo' = todo
      BY <1>0, <2>4 DEF CheckRow, locals
    <3> QED
      BY <1>1, <3>1 DEF Busy
  <2>5. CASE FindClaimant(c) \/ CreateContact(c) \/ LoseCreate(c) \/ WriteField(c)
    <3>1. /\ pc[c] \in {"checked", "create", "write"} /\ pc'[c] \in {"create", "write", "settle"}
          /\ outcome' = outcome /\ todo' = todo
      BY <1>0, <2>5 DEF FindClaimant, CreateContact, LoseCreate, WriteField, locals
    <3> QED
      BY <1>1, <3>1 DEF Busy
  <2>6. CASE CountRows(c)
    <3>1. pc[c] = "row" /\ todo[c] = {} /\ pc'[c] = "count" /\ outcome' = outcome /\ todo' = todo
      BY <1>0, <2>6 DEF CountRows
    <3> QED
      BY <1>1, <3>1 DEF Busy
  <2>7. CASE FinishCommit(c) \/ Announce(c)
    <3>1. /\ pc[c] \in {"count", "announce"} /\ pc'[c] \in {"announce", "done"}
          /\ outcome' = outcome /\ todo' = todo
      BY <1>0, <2>7 DEF FinishCommit, Announce
    <3> QED
      BY <1>1, <3>1 DEF Busy
  <2>8. CASE End(c)
    <3>1. pc'[c] = "done" /\ todo'[c] = {}
      BY <1>0, <2>8 DEF End
    <3> QED
      BY <3>1 DEF Busy
  <2> QED
    BY <1>4, <2>1, <2>2, <2>3, <2>4, <2>5, <2>6, <2>7, <2>8 DEF CommitStep, Entering, WriteRefused, Break
<1>5. \A d \in Commits : Mine(d)'
  <2>1. CASE Aside
    BY <1>3, <2>1, AsideKeeps DEF locals
  <2>2. ASSUME NEW c \in Commits, CommitStep(c) \/ Break(c) PROVE \A d \in Commits : Mine(d)'
    <3>1. \A d \in Commits \ {c} : pc'[d] = pc[d] /\ todo'[d] = todo[d]
      BY <2>2, StepsApart DEF Apart
    <3> HIDE DEF Mine
    <3> QED
      BY <1>3, <1>4, <2>2, <3>1
  <2> QED
    BY <2>1, <2>2 DEF Next, Aside
<1> QED
  BY <1>5 DEF Pursued, Busy

\* What is so of a row of the one mapping stays so.
LEMMA JustifiedStays ==
  ASSUME TypeOK, Onward, state \notin {"none", "ready"}, NEW r \in Rows, NEW x \in Contacts
  PROVE  /\ (\A a \in Drafted(r, mapping) : owner[a] = x) =>
              \A a \in Drafted(r, mapping)' : owner'[a] = x
         /\ (\E a \in Drafted(r, mapping) : owner[a] = x) =>
              \E a \in Drafted(r, mapping)' : owner'[a] = x
         /\ x \in filled => x \in filled'
<1>1. Drafted(r, mapping) \subseteq Addresses /\ Drafted(r, mapping)' = Drafted(r, mapping)
  BY DraftsStay, Drafts DEF TypeOK
<1>2. x # None
  BY NoContact
<1> QED
  BY <1>1, <1>2 DEF Onward

\* What justified a verdict is not taken back while its commit is elsewhere.
LEMMA JudgedStays ==
  ASSUME TypeOK, Staged, Pursued, Judged, Onward, NEW d \in Commits,
         pc'[d] = pc[d], todo'[d] = todo[d], verdict'[d] = verdict[d]
  PROVE  /\ pc'[d] = "write" => verdict'[d].is = "imported"
         /\ pc'[d] = "settle" => verdict'[d].is # "pending"
         /\ pc'[d] \in {"write", "settle"} =>
              /\ verdict'[d].is = "imported" => ImportJustified(d, Row(d))'
              /\ verdict'[d].is = "skipped" => SkipJustified(d, Row(d))'
<1> SUFFICES ASSUME pc[d] \in {"write", "settle"}
             PROVE  /\ verdict'[d].is = "imported" => ImportJustified(d, Row(d))'
                    /\ verdict'[d].is = "skipped" => SkipJustified(d, Row(d))'
  BY DEF Judged
<1>1. PICK r \in Rows : r = Row(d) /\ r = Row(d)'
  BY AtARow DEF Row
<1>2. state \notin {"none", "ready"}
  BY WorkClaimed DEF Stages
<1>3. /\ verdict[d].is = "imported" => ImportJustified(d, r)
      /\ verdict[d].is = "skipped" => SkipJustified(d, r)
  BY <1>1 DEF Judged
<1>4. verdict[d].is \in {"imported", "skipped"} => verdict[d].contact \in Contacts
  BY SettlementKinds DEF TypeOK
<1>5. ASSUME verdict[d].is = "imported" PROVE ImportJustified(d, r)'
  <2>1. Text(r, mapping)' = Text(r, mapping)
    BY <1>2, DraftsStay
  <2>2. PICK x \in Contacts : x = verdict[d].contact
    BY <1>4, <1>5
  <2>3. x = <<d, r>> /\ \A a \in Drafted(r, mapping) : owner[a] = x
    BY <1>3, <1>5, <2>2 DEF ImportJustified
  <2>4. (pc[d] = "settle" /\ Text(r, mapping) # None) => x \in filled
    BY <1>3, <1>5, <2>2 DEF ImportJustified
  <2> QED
    BY <1>2, <2>1, <2>2, <2>3, <2>4, JustifiedStays DEF ImportJustified
<1>6. ASSUME verdict[d].is = "skipped" PROVE SkipJustified(d, r)'
  <2>1. PICK x \in Contacts : x = verdict[d].contact
    BY <1>4, <1>6
  <2>2. (\E a \in Drafted(r, mapping) : owner[a] = x) /\ (x \in Commits \X {r} => Disturbed)
    BY <1>3, <1>6, <2>1 DEF SkipJustified
  <2>3. Disturbed => Disturbed'
    BY DEF Onward
  <2> QED
    BY <1>2, <2>1, <2>2, <2>3, JustifiedStays DEF SkipJustified
<1>7. ImportJustified(d, Row(d))' <=> ImportJustified(d, r)'
  BY <1>1 DEF ImportJustified
<1>8. SkipJustified(d, Row(d))' <=> SkipJustified(d, r)'
  BY <1>1 DEF SkipJustified
<1> QED
  BY <1>5, <1>6, <1>7, <1>8

\* A claimant a commit meets was there: the row's own contact only after a disturbance.
LEMMA SkipFound ==
  ASSUME TypeOK, Staged, Pursued, Judged, Alone, NEW c \in Commits, pc[c] \in {"checked", "create"},
         NEW x \in Claimants(c, Row(c))
  PROVE  /\ x \in Contacts /\ \E a \in Drafted(Row(c), mapping) : owner[a] = x
         /\ x \in Commits \X {Row(c)} => Disturbed
<1>1. /\ Row(c) \in Rows /\ Row(c) \in todo[c] /\ c \in AtWork
      /\ cells \in Sheets /\ assigned[c] = mapping
  BY AtARow, WorkClaimed DEF Stages
<1>2. PICK r \in Rows : r = Row(c)
  BY <1>1
<1>3. x \in Contacts /\ Drafted(r, mapping) \subseteq Addresses
  BY <1>1, <1>2, ClaimantsAreContacts
<1>4. PICK a \in Drafted(r, mapping) : owner[a] = x
  BY <1>1, <1>2 DEF Claimants
<1>5. ASSUME x \in Commits \X {r}, ~Disturbed PROVE FALSE
  <2>1. PICK d \in Commits : owner[a] = <<d, r>>
    BY <1>4, <1>5
  <2>2. outcome[r].is = "pending" /\ \A e \in AtWork : e = c
    BY <1>1, <1>2, <1>5 DEF Alone, Disturbed
  <2>3. pc[d] \in {"write", "settle"}
    BY <1>3, <1>5, <2>1, <2>2 DEF Alone
  <2>4. d = c
    BY <2>2, <2>3 DEF AtWork, Stages
  <2> QED
    BY <2>3, <2>4
<1> QED
  BY <1>2, <1>3, <1>4, <1>5

\* A verdict is reached with its justification.
LEMMA JudgedKept ==
  TypeOK /\ Staged /\ Pursued /\ Judged /\ Alone /\ Onward /\ Next => Judged'
<1> SUFFICES ASSUME TypeOK, Staged, Pursued, Judged, Alone, Onward, Next PROVE Judged'
  OBVIOUS
<1> DEFINE Mine(d) ==
      /\ pc[d] = "write" => verdict[d].is = "imported"
      /\ pc[d] = "settle" => verdict[d].is # "pending"
      /\ pc[d] \in {"write", "settle"} =>
           /\ verdict[d].is = "imported" => ImportJustified(d, Row(d))
           /\ verdict[d].is = "skipped" => SkipJustified(d, Row(d))
<1>0. /\ pc \in [Commits -> {"idle", "loaded", "entered", "done"} \cup Stages]
      /\ verdict \in [Commits -> Settlements]
  BY DEF TypeOK
<1>1. ASSUME NEW d \in Commits, pc'[d] = pc[d], todo'[d] = todo[d], verdict'[d] = verdict[d]
      PROVE  Mine(d)'
  BY <1>1, JudgedStays
<1>2. ASSUME NEW c \in Commits, pc'[c] \notin {"write", "settle"} PROVE Mine(c)'
  BY <1>2
\* A verdict of a skip, which leaves addresses and mapping alone.
<1>3. ASSUME NEW c \in Commits, pc[c] \in {"checked", "create"}, NEW x \in Claimants(c, Row(c)),
             verdict'[c] = Settlement("skipped", x), pc'[c] = "settle",
             UNCHANGED <<import, outcome, elsewhere, locals, history>>
      PROVE  Mine(c)'
  <2>1. /\ x \in Contacts /\ \E a \in Drafted(Row(c), mapping) : owner[a] = x
        /\ x \in Commits \X {Row(c)} => Disturbed
    BY <1>3, SkipFound
  <2>2. verdict'[c].is = "skipped" /\ verdict'[c].contact = x
    BY <1>3, <2>1, SettlementKinds
  <2>3. /\ Row(c)' = Row(c) /\ Drafted(Row(c), mapping)' = Drafted(Row(c), mapping)
        /\ owner' = owner /\ Disturbed' = Disturbed
    BY <1>3 DEF Row, Drafted, Disturbed, import, elsewhere, contacts, locals, history
  <2>4. SkipJustified(c, Row(c))'
    BY <2>1, <2>2, <2>3 DEF SkipJustified
  <2> QED
    BY <1>3, <2>2, <2>4
\* A verdict of a failure, which says nothing of contacts.
<1>4. ASSUME NEW c \in Commits, verdict'[c] = Failed, pc'[c] = "settle" PROVE Mine(c)'
  BY <1>4, SettlementKinds
<1>5. ASSUME NEW c \in Commits, CheckRow(c) PROVE Mine(c)'
  <2>1. pc'[c] = "checked" \/ (verdict'[c] = Failed /\ pc'[c] = "settle")
    BY <1>0, <1>5 DEF CheckRow
  <2> HIDE DEF Mine
  <2> QED
    BY <1>2, <1>4, <2>1
<1>6. ASSUME NEW c \in Commits, FindClaimant(c) PROVE Mine(c)'
  <2>1. PICK v : /\ v = Failed \/ v = Pending \/ \E x \in Claimants(c, Row(c)) : v = Settlement("skipped", x)
                 /\ verdict' = [verdict EXCEPT ![c] = v]
                 /\ pc' = [pc EXCEPT ![c] = IF v = Pending THEN "create" ELSE "settle"]
    BY <1>6 DEF FindClaimant
  <2>2. verdict'[c] = v /\ pc'[c] = IF v = Pending THEN "create" ELSE "settle"
    BY <1>0, <2>1
  <2>3. pc[c] = "checked" /\ UNCHANGED <<import, outcome, elsewhere, locals, history>>
    BY <1>6 DEF FindClaimant
  <2> HIDE DEF Mine
  <2> QED
    BY <1>2, <1>3, <1>4, <2>1, <2>2, <2>3
<1>7. ASSUME NEW c \in Commits, LoseCreate(c) PROVE Mine(c)'
  <2>1. PICK x \in Claimants(c, Row(c)) : verdict'[c] = Settlement("skipped", x)
    BY <1>0, <1>7 DEF LoseCreate, Conflicts
  <2>2. /\ pc[c] = "create" /\ pc'[c] = "settle"
        /\ UNCHANGED <<import, outcome, elsewhere, locals, history>>
    BY <1>0, <1>7 DEF LoseCreate
  <2> HIDE DEF Mine
  <2> QED
    BY <1>3, <2>1, <2>2
<1>8. ASSUME NEW c \in Commits, CreateContact(c) PROVE Mine(c)'
  <2>1. /\ <<c, Row(c)>> \in Contacts /\ Row(c) \in Rows
        /\ cells \in Sheets /\ assigned[c] = mapping
    BY <1>8, AtARow, WorkClaimed DEF CreateContact, Stages
  <2>2. PICK r \in Rows : r = Row(c)
    BY <2>1
  <2>3. verdict'[c] = Settlement("imported", <<c, r>>) /\ pc'[c] = IF Text(r, mapping) = None THEN "settle" ELSE "write"
    BY <1>0, <1>8, <2>1, <2>2 DEF CreateContact
  <2>4. verdict'[c].is = "imported" /\ verdict'[c].contact = <<c, r>>
    BY <2>1, <2>2, <2>3, SettlementKinds
  <2>5. UNCHANGED <<cells, mapping, todo>>
    BY <1>8 DEF CreateContact, import, locals
  <2>6. r = Row(c)' /\ Drafted(r, mapping)' = Drafted(r, mapping) /\ Text(r, mapping)' = Text(r, mapping)
    BY <2>2, <2>5 DEF Row, Drafted, Text
  <2>7. \A a \in Drafted(r, mapping) : owner'[a] = <<c, r>>
    BY <1>8, <2>1, <2>2, CreatedFree, Drafts
  <2>8. ImportJustified(c, r)'
    BY <2>3, <2>4, <2>6, <2>7 DEF ImportJustified
  <2>9. ImportJustified(c, Row(c))' <=> ImportJustified(c, r)'
    BY <2>6 DEF ImportJustified
  <2> QED
    BY <2>4, <2>8, <2>9
<1>9. ASSUME NEW c \in Commits, WriteField(c) PROVE Mine(c)'
  <2>1. /\ pc[c] = "write" /\ pc'[c] = "settle" /\ verdict' = verdict /\ verdict[c].is = "imported"
        /\ filled' = filled \cup {verdict[c].contact} /\ UNCHANGED <<cells, mapping, owner, todo>>
    BY <1>0, <1>9 DEF WriteField, import, locals, Judged
  <2>2. ImportJustified(c, Row(c))
    BY <2>1 DEF Judged
  <2>3. Row(c)' = Row(c) /\ Drafted(Row(c), mapping)' = Drafted(Row(c), mapping)
    BY <2>1 DEF Row, Drafted
  <2>4. ImportJustified(c, Row(c))'
    BY <2>1, <2>2, <2>3 DEF ImportJustified
  <2> QED
    BY <2>1, <2>4
<1>10. ASSUME NEW c \in Commits, CommitStep(c) \/ Break(c) PROVE Mine(c)'
  <2>1. CASE Entering(c) \/ Claim(c) \/ ReadPending(c) \/ RefuseRow(c) \/ SettleRow(c) \/ CountRows(c)
             \/ FinishCommit(c) \/ Announce(c) \/ End(c)
    <3>1. pc'[c] \notin {"write", "settle"}
      BY <1>0, <2>1 DEF Entering, Load, ReadRegistry, ClaimRefused, Claim, ReadPending, RefuseRow,
         SettleRow, CountRows, FinishCommit, Announce, End
    <3> QED
      BY <1>2, <3>1
  <2> HIDE DEF Mine
  <2> QED
    BY <1>5, <1>6, <1>7, <1>8, <1>9, <1>10, <2>1 DEF CommitStep, Entering, WriteRefused, Break
<1>11. \A d \in Commits : Mine(d)'
  <2>1. CASE Aside
    <3>1. UNCHANGED <<pc, todo, verdict>>
      BY <2>1, AsideKeeps DEF locals
    <3> HIDE DEF Mine
    <3> QED
      BY <1>1, <3>1
  <2>2. ASSUME NEW c \in Commits, CommitStep(c) \/ Break(c) PROVE \A d \in Commits : Mine(d)'
    <3>1. \A d \in Commits \ {c} : pc'[d] = pc[d] /\ todo'[d] = todo[d] /\ verdict'[d] = verdict[d]
      BY <2>2, StepsApart DEF Apart
    <3> HIDE DEF Mine
    <3> QED
      BY <1>1, <1>10, <2>2, <3>1
  <2> QED
    BY <2>1, <2>2 DEF Next, Aside
<1> QED
  BY <1>11 DEF Judged

---------------------------------------------------------------------------
(* Outcomes, commits that never overlapped, and the end of an import.      *)

\* What a step records of a row is what its commit judged, or a failure.
LEMMA Recorded ==
  ASSUME TypeOK, Staged, Pursued, Next
  PROVE  \/ outcome' = outcome
         \/ \E c \in Commits : \E r \in Rows :
              /\ r = Row(c) /\ r \in todo[c] /\ pc[c] \in {"row", "settle"} /\ pc'[c] = "row"
              /\ todo'[c] = todo[c] \ {r}
              /\ \/ outcome' = [outcome EXCEPT ![r] = Failed] /\ pc[c] = "row"
                 \/ outcome' = [outcome EXCEPT ![r] = verdict[c]] /\ pc[c] = "settle"
              /\ UNCHANGED <<cells, mapping, owner, filled, state, counts, announced, counted, history>>
<1>1. CASE Aside
  BY <1>1, AsideKeeps
<1>2. ASSUME NEW c \in Commits, RefuseRow(c) \/ SettleRow(c)
      PROVE  \E r \in Rows :
               /\ r = Row(c) /\ r \in todo[c] /\ pc[c] \in {"row", "settle"} /\ pc'[c] = "row"
               /\ todo'[c] = todo[c] \ {r}
               /\ \/ outcome' = [outcome EXCEPT ![r] = Failed] /\ pc[c] = "row"
                  \/ outcome' = [outcome EXCEPT ![r] = verdict[c]] /\ pc[c] = "settle"
               /\ UNCHANGED <<cells, mapping, owner, filled, state, counts, announced, counted, history>>
  <2>0. /\ pc \in [Commits -> {"idle", "loaded", "entered", "done"} \cup Stages]
        /\ todo \in [Commits -> SUBSET Rows]
    BY DEF TypeOK
  <2>1. PICK r \in Rows : r = Row(c) /\ r \in todo[c]
    BY <1>2, AtARow DEF RefuseRow, SettleRow
  <2>2. CASE RefuseRow(c)
    BY <2>0, <2>1, <2>2 DEF RefuseRow, import, elsewhere, contacts, history
  <2>3. CASE SettleRow(c)
    BY <2>0, <2>1, <2>3 DEF SettleRow, import, elsewhere, contacts, history
  <2> QED
    BY <1>2, <2>2, <2>3
<1>3. ASSUME NEW c \in Commits, CommitStep(c) \/ Break(c)
      PROVE  outcome' = outcome \/ RefuseRow(c) \/ SettleRow(c)
  BY <1>3 DEF CommitStep, Load, ReadRegistry, ClaimRefused, Claim, ReadPending,
     CheckRow, FindClaimant, CreateContact, LoseCreate, WriteField, WriteRefused, CountRows,
     FinishCommit, Announce, Break, End
<1> QED
  BY <1>1, <1>2, <1>3 DEF Next, Aside

\* A row is settled by a justified verdict and what justified it stays.
LEMMA OutcomesKept ==
  TypeOK /\ Staged /\ Pursued /\ Judged /\ OutcomesJustified /\ Onward /\ Next => OutcomesJustified'
<1> SUFFICES ASSUME TypeOK, Staged, Pursued, Judged, OutcomesJustified, Onward, Next
             PROVE  OutcomesJustified'
  OBVIOUS
<1> DEFINE So(r) ==
      /\ outcome[r].is = "imported" =>
           /\ outcome[r].contact \in Commits \X {r}
           /\ \A a \in Drafted(r, mapping) : owner[a] = outcome[r].contact
           /\ Text(r, mapping) # None => outcome[r].contact \in filled
      /\ outcome[r].is = "skipped" =>
           /\ \E a \in Drafted(r, mapping) : owner[a] = outcome[r].contact
           /\ outcome[r].contact \in Commits \X {r} => Disturbed
<1>0. outcome \in [Rows -> Settlements] /\ verdict \in [Commits -> Settlements]
  BY DEF TypeOK
<1>1. \A r \in Rows : So(r)
  BY DEF OutcomesJustified
<1>2. ASSUME NEW r \in Rows, outcome'[r] = outcome[r] PROVE So(r)'
  <2>1. CASE outcome[r].is \notin {"imported", "skipped"}
    BY <1>2, <2>1
  <2>2. CASE outcome[r].is \in {"imported", "skipped"}
    <3>1. state \notin {"none", "ready"}
      BY <2>2 DEF Staged
    <3>2. PICK x \in Contacts : x = outcome[r].contact
      BY <1>0, <2>2, SettlementKinds
    <3>3. /\ outcome[r].is = "imported" =>
               /\ x \in Commits \X {r}
               /\ \A a \in Drafted(r, mapping) : owner[a] = x
               /\ Text(r, mapping) # None => x \in filled
          /\ outcome[r].is = "skipped" =>
               /\ \E a \in Drafted(r, mapping) : owner[a] = x
               /\ x \in Commits \X {r} => Disturbed
      BY <1>1, <3>2
    <3>4. Text(r, mapping)' = Text(r, mapping) /\ (Disturbed => Disturbed')
      BY <3>1, DraftsStay DEF Onward
    <3>5. x = outcome'[r].contact /\ outcome'[r].is = outcome[r].is
      BY <1>2, <3>2
    <3> QED
      BY <3>1, <3>3, <3>4, <3>5, JustifiedStays
  <2> QED
    BY <2>1, <2>2
<1>3. ASSUME NEW c \in Commits, NEW r \in Rows, r = Row(c), pc[c] = "settle",
             outcome'[r] = verdict[c], UNCHANGED <<cells, mapping, owner, filled, history>>
      PROVE  So(r)'
  <2>1. /\ verdict[c].is = "imported" => ImportJustified(c, r)
        /\ verdict[c].is = "skipped" => SkipJustified(c, r)
    BY <1>3 DEF Judged
  <2>2. /\ Drafted(r, mapping)' = Drafted(r, mapping) /\ Text(r, mapping)' = Text(r, mapping)
        /\ Disturbed' = Disturbed
    BY <1>3 DEF Drafted, Text, Disturbed, history
  <2>3. CASE verdict[c].is = "imported"
    BY <1>3, <2>1, <2>2, <2>3 DEF ImportJustified
  <2>4. CASE verdict[c].is = "skipped"
    BY <1>3, <2>1, <2>2, <2>4 DEF SkipJustified
  <2> QED
    BY <1>3, <2>3, <2>4
<1>4. ASSUME NEW r \in Rows, outcome'[r] = Failed PROVE So(r)'
  BY <1>4, SettlementKinds
<1>5. \A r \in Rows : So(r)'
  <2>1. CASE outcome' = outcome
    BY <1>2, <2>1
  <2>2. ASSUME NEW c \in Commits, NEW r \in Rows, r = Row(c),
               UNCHANGED <<cells, mapping, owner, filled, history>>,
               \/ outcome' = [outcome EXCEPT ![r] = Failed] /\ pc[c] = "row"
               \/ outcome' = [outcome EXCEPT ![r] = verdict[c]] /\ pc[c] = "settle"
        PROVE  \A q \in Rows : So(q)'
    <3>1. \A q \in Rows \ {r} : outcome'[q] = outcome[q]
      BY <1>0, <2>2
    <3>2. outcome'[r] = Failed \/ (outcome'[r] = verdict[c] /\ pc[c] = "settle")
      BY <1>0, <2>2
    <3> HIDE DEF So
    <3> QED
      BY <1>2, <1>3, <1>4, <2>2, <3>1, <3>2
  <2> HIDE DEF So
  <2> QED
    BY <2>1, <2>2, Recorded
<1> QED
  BY <1>5 DEF OutcomesJustified

\* Whose step it is, and what it does not touch.
LEMMA WhoseStep ==
  ASSUME TypeOK, Next
  PROVE  \/ Aside /\ UNCHANGED <<outcome, counts, announced, pc, todo, counted, verdict, broken, overlap>>
         \/ \E c \in Commits : (CommitStep(c) \/ Break(c)) /\ Apart(c)
<1>1. CASE Aside
  BY <1>1, AsideKeeps DEF locals, history
<1> QED
  BY <1>1, StepsApart DEF Next, Aside

\* A commit comes to work by its claim, which notices whoever is at work.
LEMMA ClaimsNoticed ==
  ASSUME TypeOK, NEW c \in Commits, CommitStep(c) \/ Break(c)
  PROVE  /\ overlap => overlap'
         /\ ~overlap' /\ c \in AtWork' => c \in AtWork \/ (AtWork = {} /\ Claim(c))
<1>0. pc \in [Commits -> {"idle", "loaded", "entered", "done"} \cup Stages] /\ overlap \in BOOLEAN
  BY DEF TypeOK
<1>1. CASE Entering(c)
  <2>1. overlap' = overlap /\ c \notin AtWork'
    BY <1>0, <1>1 DEF Entering, Load, ReadRegistry, ClaimRefused, AtWork, Stages, history
  <2> QED
    BY <2>1
<1>2. CASE Claim(c)
  BY <1>2 DEF Claim
<1>3. CASE ~Entering(c) /\ ~Claim(c)
  <2>1. pc[c] \in Stages /\ overlap' = overlap
    BY <1>3 DEF CommitStep, Entering, ReadPending, RefuseRow, CheckRow, FindClaimant, CreateContact,
       LoseCreate, WriteField, WriteRefused, SettleRow, CountRows, FinishCommit, Announce, Break, End,
       AtWork, Stages, history
  <2> QED
    BY <2>1 DEF AtWork
<1> QED
  BY <1>1, <1>2, <1>3

\* While no commits have overlapped, one is at work at most.
LEMMA OneAtWork ==
  TypeOK /\ Alone /\ Next => (~overlap' => \A c, d \in AtWork' : c = d)
<1> SUFFICES ASSUME TypeOK, Alone, Next, ~overlap' PROVE \A c, d \in AtWork' : c = d
  OBVIOUS
<1>1. CASE UNCHANGED <<pc, overlap>>
  BY <1>1 DEF Alone, AtWork
<1>2. ASSUME NEW c \in Commits, CommitStep(c) \/ Break(c), Apart(c) PROVE \A d, e \in AtWork' : d = e
  <2>1. \A d \in AtWork' : d = c \/ d \in AtWork
    BY <1>2 DEF Apart, AtWork
  <2>2. ~overlap /\ (c \in AtWork' => c \in AtWork \/ AtWork = {})
    BY <1>2, ClaimsNoticed
  <2> QED
    BY <2>1, <2>2 DEF Alone
<1> QED
  BY <1>1, <1>2, WhoseStep

\* The rows a commit has left are read once, and only become fewer.
LEMMA TodoShrinks ==
  ASSUME TypeOK, Pursued, NEW c \in Commits, CommitStep(c) \/ Break(c), c \in AtWork'
  PROVE  \/ todo'[c] = {}
         \/ todo'[c] = {r \in Rows : outcome[r] = Pending}
         \/ c \in AtWork /\ todo'[c] \subseteq todo[c]
<1>0. /\ pc \in [Commits -> {"idle", "loaded", "entered", "done"} \cup Stages]
      /\ todo \in [Commits -> SUBSET Rows]
  BY DEF TypeOK
<1>1. CASE Entering(c)
  BY <1>0, <1>1 DEF Entering, Load, ReadRegistry, ClaimRefused, AtWork, Stages
<1>2. CASE Claim(c)
  <2>1. pc[c] = "entered" /\ todo' = todo
    BY <1>2 DEF Claim
  <2> QED
    BY <2>1 DEF Pursued
<1>3. CASE ReadPending(c)
  BY <1>0, <1>3 DEF ReadPending
<1>4. CASE ~Entering(c) /\ ~Claim(c) /\ ~ReadPending(c)
  <2>1. pc[c] \in Stages
    BY <1>4 DEF CommitStep, Entering, RefuseRow, CheckRow, FindClaimant, CreateContact,
       LoseCreate, WriteField, WriteRefused, SettleRow, CountRows, FinishCommit, Announce, Break,
       AtWork, Stages
  <2>2. \/ todo' = todo
        \/ todo' = [todo EXCEPT ![c] = @ \ {Row(c)}]
        \/ todo' = [todo EXCEPT ![c] = {}]
    BY <1>4 DEF CommitStep, Entering, RefuseRow, CheckRow, FindClaimant, CreateContact,
       LoseCreate, WriteField, WriteRefused, SettleRow, CountRows, FinishCommit, Announce, Break,
       End, locals
  <2>3. todo'[c] \subseteq todo[c]
    BY <1>0, <2>2
  <2> QED
    BY <2>1, <2>3 DEF AtWork
<1> QED
  BY <1>1, <1>2, <1>3, <1>4

\* While no commits have overlapped, the rows still to do are pending.
LEMMA RowsOfTheOne ==
  TypeOK /\ Staged /\ Pursued /\ Judged /\ Alone /\ Next =>
    (~overlap' => \A c \in AtWork' : \A r \in todo'[c] : outcome'[r].is = "pending")
<1> SUFFICES ASSUME TypeOK, Staged, Pursued, Judged, Alone, Next, ~overlap', NEW c \in AtWork', NEW r \in todo'[c]
             PROVE  outcome'[r].is = "pending"
  OBVIOUS
<1>0. /\ outcome \in [Rows -> Settlements] /\ todo \in [Commits -> SUBSET Rows] /\ c \in Commits
      /\ pc \in [Commits -> {"idle", "loaded", "entered", "done"} \cup Stages]
  BY DEF TypeOK, AtWork
<1>1. ~overlap
  BY WhoseStep, ClaimsNoticed
<1>2. CASE outcome' = outcome
  <2>1. \/ c \in AtWork /\ todo'[c] \subseteq todo[c]
        \/ todo'[c] = {q \in Rows : outcome[q] = Pending}
    <3>1. CASE UNCHANGED <<pc, todo>>
      BY <3>1 DEF AtWork
    <3>2. ASSUME NEW e \in Commits, CommitStep(e) \/ Break(e), Apart(e), e # c
          PROVE  c \in AtWork /\ todo'[c] \subseteq todo[c]
      BY <1>0, <3>2 DEF Apart, AtWork
    <3>3. ASSUME CommitStep(c) \/ Break(c)
          PROVE  \/ c \in AtWork /\ todo'[c] \subseteq todo[c]
                 \/ todo'[c] = {q \in Rows : outcome[q] = Pending}
      BY <1>0, <3>3, TodoShrinks
    <3> QED
      BY <3>1, <3>2, <3>3, WhoseStep
  <2>2. CASE c \in AtWork /\ todo'[c] \subseteq todo[c]
    BY <1>1, <1>2, <2>2 DEF Alone
  <2>3. CASE todo'[c] = {q \in Rows : outcome[q] = Pending}
    BY <1>2, <2>3, SettlementKinds
  <2> QED
    BY <2>1, <2>2, <2>3
<1>3. ASSUME NEW d \in Commits, NEW q \in Rows, pc[d] \in {"row", "settle"}, pc'[d] = "row",
             todo'[d] = todo[d] \ {q},
             outcome' = [outcome EXCEPT ![q] = Failed] \/ outcome' = [outcome EXCEPT ![q] = verdict[d]]
      PROVE  outcome'[r].is = "pending"
  <2>1. d \in AtWork /\ d \in AtWork'
    BY <1>3 DEF AtWork, Stages
  <2>2. c = d
    BY <2>1, OneAtWork
  <2>3. r \in todo[c] /\ r # q /\ r \in Rows /\ outcome'[r] = outcome[r]
    BY <1>0, <1>3, <2>2
  <2> QED
    BY <1>1, <2>1, <2>2, <2>3 DEF Alone
<1> QED
  BY <1>2, <1>3, Recorded

\* Every step keeps what one commit alone may rely on.
LEMMA AloneKept ==
  TypeOK /\ Staged /\ Pursued /\ Judged /\ Alone /\ Onward /\ Next => Alone'
<1> SUFFICES ASSUME TypeOK, Staged, Pursued, Judged, Alone, Onward, Next PROVE Alone'
  OBVIOUS
<1>0. /\ outcome \in [Rows -> Settlements] /\ todo \in [Commits -> SUBSET Rows]
      /\ pc \in [Commits -> {"idle", "loaded", "entered", "done"} \cup Stages]
  BY DEF TypeOK
<1>1. ASSUME ~Disturbed', NEW a \in Addresses, NEW d \in Commits, NEW r \in Rows, owner'[a] = <<d, r>>
      PROVE  outcome'[r].is # "pending" \/ (pc'[d] \in {"write", "settle"} /\ Row(d)' = r)
  <2>0. ~Disturbed
    BY <1>1 DEF Onward
  <2>1. CASE owner[a] = <<d, r>>
    <3>1. CASE outcome[r].is # "pending"
      BY <3>1 DEF Onward
    <3>2. CASE pc[d] \in {"write", "settle"} /\ Row(d) = r
      <4>1. CASE pc'[d] = pc[d] /\ todo'[d] = todo[d]
        BY <3>2, <4>1 DEF Row
      <4>2. CASE CommitStep(d) \/ Break(d)
        <5>1. CASE WriteField(d)
          BY <1>0, <3>2, <5>1 DEF WriteField, Row, locals
        <5>2. CASE SettleRow(d)
          BY <1>0, <3>2, <5>2 DEF SettleRow, Judged
        <5>3. CASE End(d)
          BY <1>1, <5>3 DEF End, Disturbed
        <5> QED
          BY <3>2, <4>2, <5>1, <5>2, <5>3 DEF CommitStep, Load, ReadRegistry, ClaimRefused, Claim,
             ReadPending, RefuseRow, CheckRow, FindClaimant, CreateContact, LoseCreate, WriteRefused,
             CountRows, FinishCommit, Announce, Break
      <4> QED
        BY <4>1, <4>2, WhoseStep DEF Apart
    <3> QED
      BY <1>1, <2>0, <2>1, <3>1, <3>2 DEF Alone
  <2>2. CASE owner[a] # <<d, r>>
    <3>1. ASSUME NEW c \in Commits, CreateContact(c)
          PROVE  pc'[d] \in {"write", "settle"} /\ Row(d)' = r
      <4>1. <<d, r>> = <<c, Row(c)>>
        BY <1>1, <2>2, <3>1, CreatedFree
      <4>2. pc'[c] \in {"write", "settle"} /\ Row(c)' = Row(c)
        BY <1>0, <3>1 DEF CreateContact, Row, locals
      <4> QED
        BY <4>1, <4>2
    <3>2. CASE Aside
      <4>1. <<d, r>> # Outside
        BY NoContact
      <4> QED
        BY <1>1, <2>2, <3>2, <4>1, AsideKeeps
    <3>3. ASSUME NEW c \in Commits, CommitStep(c) \/ Break(c) PROVE owner' = owner \/ CreateContact(c)
      BY <3>3 DEF CommitStep, Load, ReadRegistry, ClaimRefused, Claim, ReadPending, RefuseRow,
         CheckRow, FindClaimant, LoseCreate, WriteField, WriteRefused, SettleRow, CountRows,
         FinishCommit, Announce, Break, End, elsewhere, contacts
    <3> QED
      BY <1>1, <2>2, <3>1, <3>2, <3>3, WhoseStep
  <2> QED
    BY <2>1, <2>2
<1> QED
  BY <1>1, OneAtWork, RowsOfTheOne DEF Alone

\* The tally rests while nobody records a row.
LEMMA TallyRests ==
  ASSUME TypeOK, Staged, Pursued, Next, \A d \in Commits : pc[d] \notin {"row", "settle"}
  PROVE  outcome' = outcome /\ Tally' = Tally
<1>1. outcome' = outcome
  BY Recorded
<1> QED
  BY <1>1 DEF Tally, Counted

Accounted(n) == n.imported + n.skipped + n.failed = Cardinality(Rows)

\* A count taken accounts for every row, exactly when nobody else was at work.
LEMMA CountedKept ==
  TypeOK /\ Staged /\ Pursued /\ Alone /\ Settled /\ Next =>
    \A c \in Commits : pc'[c] = "count" =>
      Accounted(counted'[c]) /\ (~overlap' => counted'[c] = Tally')
<1> SUFFICES ASSUME TypeOK, Staged, Pursued, Alone, Settled, Next, NEW c \in Commits, pc'[c] = "count"
             PROVE  Accounted(counted'[c]) /\ (~overlap' => counted'[c] = Tally')
  OBVIOUS
<1>0. /\ outcome \in [Rows -> Settlements] /\ counted \in [Commits -> Counts]
      /\ pc \in [Commits -> {"idle", "loaded", "entered", "done"} \cup Stages]
  BY DEF TypeOK
<1>1. ~overlap' => ~overlap
  BY WhoseStep, ClaimsNoticed
<1>2. CASE pc[c] = "count" /\ counted'[c] = counted[c]
  <2>1. Accounted(counted[c]) /\ (~overlap => counted[c] = Tally)
    BY <1>2 DEF Settled, Accounted
  <2>2. ASSUME ~overlap' PROVE Tally' = Tally
    <3>1. c \in AtWork /\ \A d \in Commits : pc[d] \in {"row", "settle"} => d \in AtWork
      BY <1>2 DEF AtWork, Stages
    <3>2. \A d \in Commits : pc[d] \notin {"row", "settle"}
      BY <1>1, <1>2, <2>2, <3>1 DEF Alone
    <3> QED
      BY <3>2, TallyRests
  <2> QED
    BY <1>1, <1>2, <2>1, <2>2
<1>3. CASE CountRows(c)
  <2>1. /\ pc[c] = "row" /\ todo[c] = {} /\ outcome' = outcome /\ counted'[c] = Tally
    BY <1>0, <1>3 DEF CountRows
  <2>2. \A r \in Rows : outcome[r].is # "pending"
    BY <2>1 DEF Pursued
  <2>3. Accounted(Tally)
    BY <1>0, <2>2, TallyAccounts DEF Accounted
  <2>4. Tally' = Tally
    BY <2>1 DEF Tally, Counted
  <2> QED
    BY <2>1, <2>3, <2>4
<1>4. CASE CommitStep(c) \/ Break(c)
  <2>1. CountRows(c)
    BY <1>0, <1>4 DEF CommitStep, Load, ReadRegistry, ClaimRefused, Claim,
       ReadPending, RefuseRow, CheckRow, FindClaimant, CreateContact, LoseCreate, WriteField, WriteRefused,
       SettleRow, FinishCommit, Announce, Break, End, AtWork
  <2> QED
    BY <1>3, <2>1
<1> QED
  BY <1>2, <1>4, WhoseStep DEF Apart

\* The steps of a commit that leave the import's end alone.
LEMMA StepsBetween ==
  ASSUME TypeOK, NEW c \in Commits, CommitStep(c) \/ Break(c),
         ~Claim(c), ~FinishCommit(c), ~Announce(c)
  PROVE  /\ UNCHANGED <<state, counts, announced>> /\ broken \subseteq broken'
         /\ pc'[c] # "announce"
         /\ pc[c] = "announce" => pc'[c] = "done" /\ broken' # {}
<1>0. pc \in [Commits -> {"idle", "loaded", "entered", "done"} \cup Stages]
  BY DEF TypeOK
<1>1. CASE End(c)
  BY <1>0, <1>1 DEF End, import
<1>2. CASE Entering(c) \/ ReadPending(c) \/ RefuseRow(c) \/ CheckRow(c)
  BY <1>0, <1>2 DEF Entering, Load, ReadRegistry, ClaimRefused, ReadPending, RefuseRow, CheckRow,
     import, history
<1>3. CASE FindClaimant(c)
  <2>1. pc[c] = "checked" /\ pc'[c] \in {"create", "settle"} /\ UNCHANGED <<import, history>>
    BY <1>0, <1>3 DEF FindClaimant
  <2> QED
    BY <2>1 DEF import, history
<1>4. CASE CreateContact(c) \/ LoseCreate(c) \/ WriteField(c) \/ SettleRow(c) \/ CountRows(c)
  BY <1>0, <1>4 DEF CreateContact, LoseCreate, WriteField, SettleRow, CountRows, import, history
<1> QED
  BY <1>1, <1>2, <1>3, <1>4 DEF CommitStep, Entering, WriteRefused, Break

\* An import is committed when its rows are settled and counted.
LEMMA SettledKept ==
  TypeOK /\ Staged /\ Pursued /\ Judged /\ Alone /\ Settled /\ Onward /\ Next => Settled'
<1> SUFFICES ASSUME TypeOK, Staged, Pursued, Judged, Alone, Settled, Onward, Next PROVE Settled'
  OBVIOUS
<1> DEFINE Ending ==
      /\ state # "committed" => announced = 0 /\ \A c \in Commits : pc[c] # "announce"
      /\ (state = "committed" /\ ~overlap) => \A c \in AtWork : pc[c] = "announce"
      /\ (state = "committed" /\ broken = {}) => announced >= 1 \/ \E c \in Commits : pc[c] = "announce"
      /\ ~overlap => announced <= 1 /\ \A c \in Commits : pc[c] = "announce" => announced = 0
      /\ state = "committed" =>
           /\ \A r \in Rows : outcome[r].is # "pending"
           /\ Accounted(counts)
           /\ counts # Tally => overlap
<1>0. /\ Ending /\ announced \in Nat
      /\ pc \in [Commits -> {"idle", "loaded", "entered", "done"} \cup Stages]
  BY DEF Settled, TypeOK, Accounted
<1>1. ~overlap' => ~overlap
  BY WhoseStep, ClaimsNoticed
\* The part of a committed import whose end no step is about.
<1>2. ASSUME state = "committed", UNCHANGED counts
      PROVE  /\ \A r \in Rows : outcome'[r].is # "pending"
             /\ Accounted(counts')
             /\ counts' # Tally' => overlap'
  <2>1. (\A r \in Rows : outcome'[r].is # "pending") /\ Accounted(counts')
    BY <1>0, <1>2 DEF Onward
  <2>2. ASSUME ~overlap' PROVE Tally' = Tally /\ counts = Tally
    <3>1. \A d \in Commits : pc[d] \notin {"row", "settle"}
      BY <1>0, <1>1, <1>2, <2>2 DEF AtWork, Stages
    <3> QED
      BY <1>0, <1>1, <1>2, <2>2, <3>1, TallyRests
  <2> QED
    BY <1>2, <2>1, <2>2
<1>3. ASSUME Aside, UNCHANGED <<counts, announced, pc, broken, overlap>> PROVE Ending'
  <2>1. state' = "committed" <=> state = "committed"
    BY <1>3 DEF Aside, Upload, AskMapping, StoreMapping, ToggleField, ClaimElsewhere, import
  <2>2. AtWork' = AtWork
    BY <1>3 DEF AtWork
  <2> QED
    BY <1>0, <1>2, <1>3, <2>1, <2>2
<1>4. ASSUME NEW c \in Commits, Claim(c), Apart(c) PROVE Ending'
  <2>1. /\ state # "committed" /\ state' = "committing" /\ announced' = announced
        /\ pc' = [pc EXCEPT ![c] = "claimed"]
    BY <1>4 DEF Claim
  <2>2. \A d \in Commits : pc'[d] # "announce"
    BY <1>0, <2>1
  <2> QED
    BY <1>0, <2>1, <2>2
<1>5. ASSUME NEW c \in Commits, FinishCommit(c), Apart(c) PROVE Ending'
  <2>1. /\ pc[c] = "count" /\ state' = "committed" /\ counts' = counted[c] /\ pc'[c] = "announce"
        /\ UNCHANGED <<announced, outcome, overlap, broken>>
    BY <1>0, <1>5 DEF FinishCommit, history
  <2>2. c \in AtWork /\ c \in AtWork'
    BY <2>1 DEF AtWork, Stages
  <2>3. ~overlap => announced = 0
    BY <1>0, <2>1, <2>2
  <2>4. ~overlap' => \A d \in AtWork' : pc'[d] = "announce"
    BY <2>1, <2>2, OneAtWork
  <2>5. (\A r \in Rows : outcome'[r].is # "pending") /\ Accounted(counts') /\ (~overlap => counts' = Tally)
    BY <2>1 DEF Pursued, Settled, Accounted
  <2>6. Tally' = Tally
    BY <2>1 DEF Tally, Counted
  <2>7. counts' # Tally' => overlap'
    BY <2>1, <2>5, <2>6
  <2> QED
    BY <2>1, <2>3, <2>4, <2>5, <2>7
<1>6. ASSUME NEW c \in Commits, Announce(c), Apart(c) PROVE Ending'
  <2>1. /\ pc[c] = "announce" /\ pc'[c] = "done" /\ announced' = announced + 1
        /\ UNCHANGED <<state, counts, overlap, broken>>
    BY <1>0, <1>6 DEF Announce, history
  <2>2. state = "committed" /\ c \in AtWork
    BY <1>0, <2>1 DEF AtWork, Stages
  <2>3. \A d \in AtWork' : d # c /\ d \in AtWork /\ pc'[d] = pc[d]
    BY <1>6, <2>1 DEF Apart, AtWork, Stages
  <2>4. ~overlap => announced = 0 /\ AtWork' = {}
    BY <1>0, <2>1, <2>2, <2>3 DEF Alone
  <2>5. \A d \in Commits : pc'[d] = "announce" => d \in AtWork'
    BY DEF AtWork, Stages
  <2>6. announced' >= 1 /\ (~overlap' => announced' = 1 /\ \A d \in Commits : pc'[d] # "announce")
    BY <1>0, <2>1, <2>4, <2>5
  <2> QED
    BY <1>2, <2>1, <2>2, <2>4, <2>6
<1>7. ASSUME NEW c \in Commits, CommitStep(c) \/ Break(c), Apart(c),
             ~Claim(c), ~FinishCommit(c), ~Announce(c)
      PROVE  Ending'
  <2>1. /\ UNCHANGED <<state, counts, announced>> /\ broken \subseteq broken'
        /\ pc'[c] # "announce" /\ (pc[c] = "announce" => pc'[c] = "done" /\ broken' # {})
    BY <1>7, StepsBetween
  <2>2. \A d \in Commits : pc'[d] = "announce" => pc[d] = "announce"
    BY <1>7, <2>1 DEF Apart
  <2>3. \A d \in Commits : pc[d] = "announce" => pc'[d] = "announce" \/ broken' # {}
    BY <1>7, <2>1 DEF Apart
  <2>4. ASSUME state = "committed", ~overlap', NEW d \in AtWork' PROVE pc'[d] = "announce"
    <3>1. d \in AtWork
      BY <1>7, <2>4, ClaimsNoticed DEF Apart, AtWork
    <3>2. pc[d] = "announce"
      BY <1>0, <1>1, <2>4, <3>1
    <3>3. CASE d = c
      BY <2>1, <2>4, <3>2, <3>3 DEF AtWork, Stages
    <3>4. CASE d # c
      BY <1>7, <3>1, <3>2, <3>4 DEF Apart, AtWork
    <3> QED
      BY <3>3, <3>4
  <2>5. (state' = "committed" /\ broken' = {}) => announced' >= 1 \/ \E d \in Commits : pc'[d] = "announce"
    BY <1>0, <2>1, <2>3
  <2>6. ~overlap' => announced' <= 1 /\ \A d \in Commits : pc'[d] = "announce" => announced' = 0
    BY <1>0, <1>1, <2>1, <2>2
  <2>7. state' # "committed" => announced' = 0 /\ \A d \in Commits : pc'[d] # "announce"
    BY <1>0, <2>1, <2>2
  <2> QED
    BY <1>2, <2>1, <2>4, <2>5, <2>6, <2>7
<1>8. Ending'
  <2> HIDE DEF Ending
  <2> QED
    BY <1>3, <1>4, <1>5, <1>6, <1>7, WhoseStep
<1> QED
  BY <1>8, CountedKept DEF Settled, Accounted

---------------------------------------------------------------------------
(* The theorems.                                                           *)

\* Nothing is uploaded, mapped or settled yet.
LEMMA Start == Init => IInv
<1> SUFFICES ASSUME Init PROVE IInv
  OBVIOUS
<1>1. Pending \in Settlements /\ Pending.is = "pending" /\ NoCounts \in Counts
  BY SettlementKinds DEF NoCounts, Counts
<1>2. TypeOK
  <2>1. /\ outcome \in [Rows -> Settlements] /\ verdict \in [Commits -> Settlements]
        /\ counts \in Counts /\ counted \in [Commits -> Counts]
    BY <1>1 DEF Init
  <2>2. /\ mapping \in Mappings \cup {{}} /\ asked \in Mappings \cup {{}}
        /\ assigned \in [Commits -> Mappings \cup {{}}] /\ entry \in [Commits -> SUBSET Columns]
        /\ todo \in [Commits -> SUBSET Rows] /\ known \in [Commits -> BOOLEAN]
    BY DEF Init
  <2>3. /\ owner \in [Addresses -> Contacts \cup {None}] /\ filled \subseteq Contacts
        /\ pc \in [Commits -> {"idle", "loaded", "entered", "done"} \cup Stages]
    BY DEF Init
  <2>4. mappings \in 0..MaxMappings /\ announced \in Nat
    BY BoundsAssumption DEF Init
  <2> QED
    BY <2>1, <2>2, <2>3, <2>4 DEF Init, TypeOK
<1>3. AtWork = {}
  BY DEF Init, AtWork, Stages
<1>4. \A a \in Addresses : owner[a] = None
  BY DEF Init
<1>5. \A a \in Addresses : \A c \in Commits : \A r \in Rows : owner[a] # <<c, r>>
  BY <1>4, OutsideAssumption
<1>6. Staged
  BY <1>1, <1>3, <1>4, OutsideAssumption DEF Init, Staged
<1>7. Created /\ Alone
  BY <1>3, <1>5 DEF Created, Alone
<1>8. Pursued /\ Judged /\ Settled
  BY DEF Init, Pursued, Judged, Settled
<1>9. OutcomesJustified
  BY <1>1 DEF Init, OutcomesJustified
<1> QED
  BY <1>2, <1>6, <1>7, <1>8, <1>9 DEF IInv

\* Every step keeps the invariant.
LEMMA Step == IInv /\ Next => IInv'
<1> SUFFICES ASSUME IInv, Next PROVE IInv'
  OBVIOUS
<1>1. /\ TypeOK /\ Staged /\ Created /\ Pursued /\ Judged /\ OutcomesJustified /\ Alone /\ Settled
  BY DEF IInv
<1>2. Onward
  BY <1>1, StepsOnward
<1> QED
  BY <1>1, <1>2, Typed, StagedKept, CreatedKept, PursuedKept, JudgedKept, OutcomesKept, AloneKept,
     SettledKept DEF IInv

\* A step that changes nothing keeps it.
LEMMA Stutter == IInv /\ UNCHANGED vars => IInv'
<1> SUFFICES ASSUME IInv, UNCHANGED vars PROVE IInv'
  OBVIOUS
<1>1. UNCHANGED <<state, cells, mapping, outcome, counts, announced, owner, filled, live, asked, mappings,
                  pc, entry, known, assigned, todo, counted, verdict, broken, overlap>>
  BY DEF vars, import, elsewhere, contacts, mapper, locals, history
<1>2. /\ AtWork' = AtWork /\ Tally' = Tally /\ Disturbed' = Disturbed
      /\ \A c \in Commits : Row(c)' = Row(c)
      /\ \A r \in Rows : Drafted(r, mapping)' = Drafted(r, mapping) /\ Text(r, mapping)' = Text(r, mapping)
  BY <1>1 DEF AtWork, Tally, Counted, Disturbed, Row, Drafted, Text
<1>3. TypeOK'
  BY <1>1 DEF IInv, TypeOK
<1>4. Staged' /\ Created' /\ Pursued' /\ Alone'
  BY <1>1, <1>2 DEF IInv, Staged, Created, Pursued, Alone
<1>5. Judged'
  <2> SUFFICES ASSUME NEW c \in Commits
               PROVE  /\ pc'[c] = "write" => verdict'[c].is = "imported"
                      /\ pc'[c] = "settle" => verdict'[c].is # "pending"
                      /\ pc'[c] \in {"write", "settle"} =>
                           /\ verdict'[c].is = "imported" => ImportJustified(c, Row(c))'
                           /\ verdict'[c].is = "skipped" => SkipJustified(c, Row(c))'
    BY DEF Judged
  <2>1. /\ Row(c)' = Row(c) /\ Drafted(Row(c), mapping)' = Drafted(Row(c), mapping)
        /\ Text(Row(c), mapping)' = Text(Row(c), mapping)
    BY <1>1 DEF Row, Drafted, Text
  <2>2. ImportJustified(c, Row(c))' <=> ImportJustified(c, Row(c))
    BY <1>1, <2>1 DEF ImportJustified
  <2>3. SkipJustified(c, Row(c))' <=> SkipJustified(c, Row(c))
    BY <1>1, <1>2, <2>1 DEF SkipJustified
  <2> QED
    BY <1>1, <2>2, <2>3 DEF IInv, Judged
<1>6. OutcomesJustified' /\ Settled'
  BY <1>1, <1>2 DEF IInv, OutcomesJustified, Settled
<1> QED
  BY <1>3, <1>4, <1>5, <1>6 DEF IInv

\* The invariant everything below rests on.
THEOREM Invariant == Spec => []IInv
<1>1. IInv /\ [Next]_vars => IInv'
  BY Step, Stutter
<1> QED
  BY Start, <1>1, PTL DEF Spec

\* Every variable of the importer keeps its type.
THEOREM TypeCorrect == Spec => []TypeOK
<1>1. IInv => TypeOK
  BY DEF IInv
<1> QED
  BY Invariant, <1>1, PTL

\* A row makes at most one contact, however many commits work through it and
\* wherever each of them ends.
THEOREM OneContact == Spec => []OneContactPerRow
<1>1. IInv => OneContactPerRow
  <2> SUFFICES ASSUME IInv, NEW x \in Commits \X Rows, NEW y \in Commits \X Rows, x[2] = y[2],
                      NEW a \in Addresses, owner[a] = x, NEW b \in Addresses, owner[b] = y
               PROVE  x = y
    BY DEF OneContactPerRow
  <2>1. PICK c \in Commits, d \in Commits, r \in Rows : x = <<c, r>> /\ y = <<d, r>>
    OBVIOUS
  <2>2. a \in Drafted(r, mapping)
    BY <2>1 DEF IInv, Created
  <2>3. owner[a] = y
    BY <2>1, <2>2 DEF IInv, Created
  <2> QED
    BY <2>3
<1> QED
  BY Invariant, <1>1, PTL

\* An imported row names a contact made for it that owns all its addresses and
\* carries its field; a skipped one names an owner of one of its addresses, its own
\* contact only after a disturbance.
THEOREM OutcomesTrue == Spec => []OutcomesJustified
<1>1. IInv => OutcomesJustified
  BY DEF IInv
<1> QED
  BY Invariant, <1>1, PTL

\* A committed import has no pending row, counts that account for every row and are
\* those of the rows unless commits overlapped, and an announcement.
THEOREM CommittedAccounted == Spec => []CommittedSettled
<1>1. IInv => CommittedSettled
  <2> SUFFICES ASSUME IInv PROVE CommittedSettled
    OBVIOUS
  <2>0. Settled /\ announced \in Nat /\ \A c \in Commits : pc[c] = "announce" => c \in AtWork
    BY DEF IInv, TypeOK, AtWork, Stages
  <2>1. announced > 1 => overlap
    BY <2>0 DEF Settled
  <2>2. state = "committed" => ((AtWork = {} /\ broken = {}) => announced >= 1)
    BY <2>0 DEF Settled
  <2> QED
    BY <2>0, <2>1, <2>2 DEF Settled, CommittedSettled
<1> QED
  BY Invariant, <1>1, PTL
=============================================================================
