---------------------------- MODULE ImportCommit ----------------------------
(***************************************************************************)
(* Importer: the rows of an uploaded sheet become contacts.  An import is  *)
(* ready until a commit claims it, committing until a commit has settled   *)
(* every row, and committed from then on.  A committing import may be      *)
(* claimed again, which is how a commit cut short is resumed; nothing      *)
(* keeps two commits of one import apart.                                  *)
(*                                                                         *)
(* A row's contact is created, its field written and its outcome recorded  *)
(* by separate statements, with no transaction around them.  Contacts are  *)
(* modelled by what ContactIdentities shows of them: an address has at     *)
(* most one owner, a create owns every address it names or none.           *)
(***************************************************************************)
EXTENDS Naturals, FiniteSets, FiniteSetsExt

CONSTANTS
  Commits,     \* calls of importCommit
  Rows,        \* staged rows: positions in the sheet
  Addresses,   \* emails and phone numbers
  Sheets,      \* sheets an upload can carry: functions from rows to cells
  Mappings,    \* column assignments an operator can ask for
  Outside,     \* the contact of an address claimed from elsewhere
  None,        \* no value
  MaxMappings, \* bound on mapping changes
  MaxBreaks    \* bound on commits cut short

\* A cell whose text nothing is left of in canonical form, such as a phone without digits: the
\* host refuses it, and nobody can own it.
Blank == "blank"

\* The cells of a row: whether the reader could read it and its name cell holds anything, whether
\* that is a name once trimmed, and what the other mappable columns hold.
AddressColumns == {"email", "phone"}
Texts == {"fits", "misfits", None}
Cells == [readable : BOOLEAN, named : BOOLEAN, email : Addresses \cup {None, Blank},
          phone : Addresses \cup {None, Blank}, field : Texts]
Columns == {"name", "field"} \cup AddressColumns

ASSUME RowsAssumption == Rows \subseteq Nat /\ IsFiniteSet(Rows)
ASSUME SheetsAssumption == Sheets \subseteq [Rows -> Cells]
ASSUME MappingsAssumption == \A m \in Mappings : m \subseteq Columns /\ "name" \in m
ASSUME NoneAssumption ==
  None \notin Addresses \cup {Outside, "fits", "misfits", Blank} /\ Blank \notin Addresses
ASSUME OutsideAssumption == Outside \notin Commits \X Rows /\ None \notin Commits \X Rows
ASSUME BoundsAssumption == MaxMappings \in Nat /\ MaxBreaks \in Nat

VARIABLES
  state,      \* of the import: "none" before the upload
  cells,      \* the staged rows
  mapping,    \* the stored column assignments, {} before the first
  outcome,    \* per row, its outcome and the contact it names
  counts,     \* the counts stored on the import
  announced,  \* import.completed events
  owner,      \* per address, the contact owning it, None while free
  filled,     \* contacts whose field is written
  live,       \* whether the definitions the fields plugin serves hold the custom field
  asked,      \* the mapping a change under way will store, {} for none
  mappings,   \* mapping changes asked for
  pc,         \* per commit, the step it is at
  entry,      \* per commit, the columns checkEntry looks at
  known,      \* per commit, whether its registry holds the field
  assigned,   \* per commit, the mapping it claimed
  todo,       \* per commit, the rows it has left
  counted,    \* per commit, the counts its last statement will store
  verdict     \* per commit, the settlement of its row

\* History, read by no action's guard.
VARIABLES
  broken,     \* commits that ended early after their claim
  overlap     \* two commits were between claim and end at once

import == <<state, cells, mapping, counts, announced>>
contacts == <<owner, filled>>
mapper == <<asked, mappings>>
locals == <<entry, known, assigned, todo, counted>>
elsewhere == <<contacts, live, mapper>>
history == <<broken, overlap>>
vars == <<import, outcome, elsewhere, pc, locals, verdict, history>>

Contacts == (Commits \X Rows) \cup {Outside}
Settlement(is, contact) == [is |-> is, contact |-> contact]
Pending == Settlement("pending", None)
Failed == Settlement("failed", None)
Settlements == [is : {"pending", "failed"}, contact : {None}]
                 \cup [is : {"imported", "skipped"}, contact : Contacts]

\* The commits between their claim and their end.
Stages == {"claimed", "row", "checked", "create", "write", "settle", "count", "announce"}
AtWork == {c \in Commits : pc[c] \in Stages}

\* draftOf: the addresses and the field text of a row under the assigned columns.
Drafted(r, columns) == {cells[r][col] : col \in columns \cap AddressColumns} \ {None, Blank}
HasBlank(r, columns) == \E col \in columns \cap AddressColumns : cells[r][col] = Blank
Text(r, columns) == IF "field" \in columns THEN cells[r].field ELSE None

Counted(is) == Cardinality({r \in Rows : outcome[r].is = is})
Counts == [imported : Nat, skipped : Nat, failed : Nat]
NoCounts == [imported |-> 0, skipped |-> 0, failed |-> 0]

\* A slip the runs must notice: every row that names a contact counted as imported.
TallyOfContacts ==
  [NoCounts EXCEPT !.imported = Counted("imported") + Counted("skipped"),
                   !.skipped = Counted("skipped"), !.failed = Counted("failed")]

\* The tally of finishCommit.
Tally == [imported |-> Counted("imported"), skipped |-> Counted("skipped"),
          failed |-> Counted("failed")]

Row(c) == Min(todo[c])

---------------------------------------------------------------------------
(* The sheet, its mapping and what happens elsewhere.                      *)

\* ImportUpload: the import and all its rows in one transaction.
Upload ==
  /\ state = "none"
  /\ cells' \in Sheets
  /\ state' = "ready"
  /\ UNCHANGED <<mapping, counts, announced, outcome, elsewhere, pc, locals, verdict, history>>

\* buildMapping: the registry of the moment holds every field the mapping names.
Buildable(m) == "field" \in m => live

\* ImportSetMapping as far as its write: the import is ready.
AskMapping ==
  /\ state = "ready"
  /\ asked = {}
  /\ mappings < MaxMappings
  /\ \E m \in Mappings : Buildable(m) /\ asked' = m
  /\ mappings' = mappings + 1
  /\ UNCHANGED <<import, outcome, contacts, live, pc, locals, verdict, history>>

\* A slip the runs must notice: a mapping stored whatever became of the import.
StillOpen == state \in {"ready", "committing"}

\* The condition of updateMapping.
StillReady == state = "ready"

\* updateMapping; mapping_locked otherwise.
StoreMapping ==
  /\ asked # {}
  /\ mapping' = IF StillReady THEN asked ELSE mapping
  /\ asked' = {}
  /\ UNCHANGED <<state, cells, counts, announced, outcome, contacts, live, mappings, pc,
                 locals, verdict, history>>

\* The field is archived, or defined again, and the definitions served before are forgotten:
\* they are kept between reads, and live is what a reader of them sees.
ToggleField ==
  /\ live' = ~live
  /\ UNCHANGED <<import, outcome, contacts, mapper, pc, locals, verdict, history>>

\* A contact claims a free address by another way than this import.
ClaimElsewhere(a) ==
  /\ owner[a] = None
  /\ owner' = [owner EXCEPT ![a] = Outside]
  /\ UNCHANGED <<import, outcome, filled, live, mapper, pc, locals, verdict, history>>

---------------------------------------------------------------------------
(* ImportCommit up to its rows.                                            *)

\* loadImportJob: only a ready import has its mapping checked.
Load(c) ==
  /\ pc[c] = "idle"
  /\ state # "none"
  /\ entry' = [entry EXCEPT ![c] = IF state = "ready" THEN mapping ELSE {}]
  /\ pc' = [pc EXCEPT ![c] = "loaded"]
  /\ UNCHANGED <<import, outcome, elsewhere, known, assigned, todo, counted, verdict, history>>

\* checkEntry: the mapping names a field that vanished.
Vanished(c) == "field" \in entry[c] /\ ~live

\* registry, and the check of the mapping loaded.
ReadRegistry(c) ==
  /\ pc[c] = "loaded"
  /\ known' = [known EXCEPT ![c] = live]
  /\ entry' = [entry EXCEPT ![c] = {}]
  /\ pc' = [pc EXCEPT ![c] = IF Vanished(c) THEN "done" ELSE "entered"]
  /\ UNCHANGED <<import, outcome, elsewhere, assigned, todo, counted, verdict, history>>

\* claimForCommit, refused: committed already, or no mapping yet.
ClaimRefused(c) ==
  /\ pc[c] = "entered"
  /\ state = "committed" \/ mapping = {}
  /\ pc' = [pc EXCEPT ![c] = "done"]
  /\ UNCHANGED <<import, outcome, elsewhere, locals, verdict, history>>

\* claimForCommit: a ready or a committing import with a mapping.
Claim(c) ==
  /\ pc[c] = "entered"
  /\ state \in {"ready", "committing"}
  /\ mapping # {}
  /\ state' = "committing"
  /\ assigned' = [assigned EXCEPT ![c] = mapping]
  /\ pc' = [pc EXCEPT ![c] = "claimed"]
  /\ overlap' = (overlap \/ AtWork # {})
  /\ UNCHANGED <<cells, mapping, counts, announced, outcome, elsewhere, entry, known, todo,
                 counted, verdict, broken>>

\* pendingRows, read once.
ReadPending(c) ==
  /\ pc[c] = "claimed"
  /\ todo' = [todo EXCEPT ![c] = {r \in Rows : outcome[r] = Pending}]
  /\ pc' = [pc EXCEPT ![c] = "row"]
  /\ UNCHANGED <<import, outcome, elsewhere, entry, known, assigned, counted, verdict, history>>

---------------------------------------------------------------------------
(* One row.                                                                *)

\* The row's text names a field this commit's registry does not serve: group fails.
Unserved(c, r) == Text(r, assigned[c]) # None /\ ~known[c]

\* unreadable, not usable or not grouped: the row is settled with nothing read.
Refused(c, r) ==
  \/ ~cells[r].readable
  \/ Drafted(r, assigned[c]) = {} /\ ~HasBlank(r, assigned[c])
  \/ Unserved(c, r)

\* A row refused on what the commit holds is settled as failed at once.
RefuseRow(c) ==
  /\ pc[c] = "row" /\ todo[c] # {}
  /\ Refused(c, Row(c))
  /\ outcome' = [outcome EXCEPT ![Row(c)] = Failed]
  /\ todo' = [todo EXCEPT ![c] = @ \ {Row(c)}]
  /\ UNCHANGED <<import, elsewhere, pc, entry, known, assigned, counted, verdict,
                 history>>

\* CheckContactFieldTexts against the definitions of the moment.
CheckRow(c) ==
  LET text == Text(Row(c), assigned[c])
      accepts == text = None \/ (live /\ text = "fits")
  IN
  /\ pc[c] = "row" /\ todo[c] # {}
  /\ ~Refused(c, Row(c))
  /\ verdict' = [verdict EXCEPT ![c] = IF accepts THEN Pending ELSE Failed]
  /\ pc' = [pc EXCEPT ![c] = IF accepts THEN "checked" ELSE "settle"]
  /\ UNCHANGED <<import, outcome, elsewhere, locals, history>>

\* The contacts owning an address of the row.
Claimants(c, r) == {owner[a] : a \in Drafted(r, assigned[c])} \ {None}

\* claimant: the addresses are looked up in the random order of a map until one is owned, a
\* skip, or a blank one ends the search, a failure.  A blank name is refused by the create alone.
FindClaimant(c) ==
  LET r == Row(c)
      found == {Settlement("skipped", x) : x \in Claimants(c, r)}
      unfound == IF HasBlank(r, assigned[c]) THEN {Failed}
                 ELSE IF found # {} THEN {}
                 ELSE IF cells[r].named THEN {Pending} ELSE {Failed}
      answers == found \cup unfound
  IN
  /\ pc[c] = "checked"
  /\ \E answer \in answers :
       /\ verdict' = [verdict EXCEPT ![c] = answer]
       /\ pc' = [pc EXCEPT ![c] = IF answer = Pending THEN "create" ELSE "settle"]
  /\ UNCHANGED <<import, outcome, elsewhere, locals, history>>

\* A slip the runs must notice: addresses owned since the lookup are not noticed.
NoClaimants(c, r) == {}

\* The owners CreateWithIdentities meets.
Conflicts(c, r) == Claimants(c, r)

\* CreateWithIdentities made the contact: it owns every address of the row.
CreateContact(c) ==
  LET r == Row(c) IN
  /\ pc[c] = "create"
  /\ Conflicts(c, r) = {}
  /\ owner' = [a \in Addresses |-> IF a \in Drafted(r, assigned[c]) THEN <<c, r>> ELSE owner[a]]
  /\ verdict' = [verdict EXCEPT ![c] = Settlement("imported", <<c, r>>)]
  /\ pc' = [pc EXCEPT ![c] = IF Text(r, assigned[c]) = None THEN "settle" ELSE "write"]
  /\ UNCHANGED <<import, outcome, filled, live, mapper, locals, history>>

\* CreateWithIdentities lost the race: the row is a skip.
LoseCreate(c) ==
  /\ pc[c] = "create"
  /\ \E x \in Conflicts(c, Row(c)) :
       verdict' = [verdict EXCEPT ![c] = Settlement("skipped", x)]
  /\ pc' = [pc EXCEPT ![c] = "settle"]
  /\ UNCHANGED <<import, outcome, elsewhere, locals, history>>

\* WriteContactFieldTexts stored the row's text.
WriteField(c) ==
  /\ pc[c] = "write"
  /\ live
  /\ filled' = filled \cup {verdict[c].contact}
  /\ pc' = [pc EXCEPT ![c] = "settle"]
  /\ UNCHANGED <<import, outcome, owner, live, mapper, locals, verdict, history>>

\* settleRow, whatever outcome the row has by now.
SettleRow(c) ==
  /\ pc[c] = "settle"
  /\ outcome' = [outcome EXCEPT ![Row(c)] = verdict[c]]
  /\ todo' = [todo EXCEPT ![c] = @ \ {Row(c)}]
  /\ verdict' = [verdict EXCEPT ![c] = Pending]
  /\ pc' = [pc EXCEPT ![c] = "row"]
  /\ UNCHANGED <<import, elsewhere, entry, known, assigned, counted, history>>

---------------------------------------------------------------------------
(* The end of a commit.                                                    *)

\* finishCommit takes its snapshot, and counts the rows as they stand.
CountRows(c) ==
  /\ pc[c] = "row" /\ todo[c] = {}
  /\ counted' = [counted EXCEPT ![c] = Tally]
  /\ pc' = [pc EXCEPT ![c] = "count"]
  /\ UNCHANGED <<import, outcome, elsewhere, entry, known, assigned, todo, verdict, history>>

\* finishCommit writes the import, after any writer of it before: the state is not
\* looked at, and the counts are those of the snapshot.
FinishCommit(c) ==
  /\ pc[c] = "count"
  /\ state' = "committed"
  /\ counts' = counted[c]
  /\ counted' = [counted EXCEPT ![c] = NoCounts]
  /\ pc' = [pc EXCEPT ![c] = "announce"]
  /\ UNCHANGED <<cells, mapping, announced, outcome, elsewhere, entry, known, assigned, todo,
                 verdict, history>>

\* announceCompletion
Announce(c) ==
  /\ pc[c] = "announce"
  /\ announced' = announced + 1
  /\ pc' = [pc EXCEPT ![c] = "done"]
  /\ assigned' = [assigned EXCEPT ![c] = {}]
  /\ UNCHANGED <<state, cells, mapping, counts, outcome, elsewhere, entry, known, todo,
                 counted, verdict, history>>

\* The commit ends where it stands.
End(c) ==
  /\ broken' = broken \cup {c}
  /\ pc' = [pc EXCEPT ![c] = "done"]
  /\ todo' = [todo EXCEPT ![c] = {}]
  /\ counted' = [counted EXCEPT ![c] = NoCounts]
  /\ verdict' = [verdict EXCEPT ![c] = Pending]
  /\ assigned' = [assigned EXCEPT ![c] = {}]
  /\ UNCHANGED <<import, outcome, elsewhere, entry, known, overlap>>

\* The field is archived by the time it is written: the error ends the commit.
WriteRefused(c) == pc[c] = "write" /\ ~live /\ End(c)

\* A statement fails, the request is cancelled or the process ends.
Break(c) == c \in AtWork /\ Cardinality(broken) < MaxBreaks /\ End(c)

---------------------------------------------------------------------------
Init ==
  /\ state = "none"
  /\ cells = <<>>
  /\ mapping = {}
  /\ outcome = [r \in Rows |-> Pending]
  /\ counts = NoCounts
  /\ announced = 0
  /\ owner = [a \in Addresses |-> None]
  /\ filled = {}
  /\ live = TRUE
  /\ asked = {}
  /\ mappings = 0
  /\ pc = [c \in Commits |-> "idle"]
  /\ entry = [c \in Commits |-> {}]
  /\ known = [c \in Commits |-> FALSE]
  /\ assigned = [c \in Commits |-> {}]
  /\ todo = [c \in Commits |-> {}]
  /\ counted = [c \in Commits |-> NoCounts]
  /\ verdict = [c \in Commits |-> Pending]
  /\ broken = {}
  /\ overlap = FALSE

CommitStep(c) ==
  \/ Load(c) \/ ReadRegistry(c) \/ ClaimRefused(c) \/ Claim(c) \/ ReadPending(c)
  \/ RefuseRow(c) \/ CheckRow(c) \/ FindClaimant(c) \/ CreateContact(c) \/ LoseCreate(c)
  \/ WriteField(c) \/ WriteRefused(c) \/ SettleRow(c) \/ CountRows(c) \/ FinishCommit(c) \/ Announce(c)

Next ==
  \/ Upload \/ AskMapping \/ StoreMapping \/ ToggleField
  \/ \E a \in Addresses : ClaimElsewhere(a)
  \/ \E c \in Commits : CommitStep(c) \/ Break(c)

Spec == Init /\ [][Next]_vars

---------------------------------------------------------------------------
(* Properties.                                                             *)

TypeOK ==
  /\ state \in {"none", "ready", "committing", "committed"}
  /\ (state = "none" /\ cells = <<>>) \/ cells \in Sheets
  /\ mapping \in Mappings \cup {{}}
  /\ outcome \in [Rows -> Settlements]
  /\ counts \in Counts
  /\ announced \in Nat
  /\ owner \in [Addresses -> Contacts \cup {None}]
  /\ filled \subseteq Contacts
  /\ live \in BOOLEAN
  /\ asked \in Mappings \cup {{}}
  /\ mappings \in 0..MaxMappings
  /\ pc \in [Commits -> {"idle", "loaded", "entered", "done"} \cup Stages]
  /\ entry \in [Commits -> SUBSET Columns]
  /\ known \in [Commits -> BOOLEAN]
  /\ assigned \in [Commits -> Mappings \cup {{}}]
  /\ todo \in [Commits -> SUBSET Rows]
  /\ counted \in [Commits -> Counts]
  /\ verdict \in [Commits -> Settlements]
  /\ broken \subseteq Commits
  /\ overlap \in BOOLEAN

\* A commit was not alone, or did not get to its end.
Disturbed == overlap \/ broken # {}

\* A row makes at most one contact, however many commits work through it and
\* wherever each of them ends: the mapping they share, locked since the first
\* claim, leaves the second no address to create with.
OneContactPerRow ==
  \A x, y \in Commits \X Rows :
    (x[2] = y[2] /\ {x, y} \subseteq {owner[a] : a \in Addresses}) => x = y

\* An imported row names a contact made for it, which owns all its addresses
\* and carries its field; a skipped one names a contact that owns one of its
\* addresses, and never the contact made for the row itself, unless a commit
\* was disturbed.
OutcomesJustified ==
  \A r \in Rows :
    LET x == outcome[r].contact
        drafted == Drafted(r, mapping)
    IN
    /\ outcome[r].is = "imported" =>
         /\ x \in Commits \X {r}
         /\ \A a \in drafted : owner[a] = x
         /\ Text(r, mapping) # None => x \in filled
    /\ outcome[r].is = "skipped" =>
         /\ \E a \in drafted : owner[a] = x
         /\ x \in Commits \X {r} => Disturbed

\* No row of a committed import is pending and its counts account for every row,
\* whichever commit wrote them; they are those of the rows unless two commits
\* overlapped, one of which may settle a row again behind the other's tally.  With
\* every commit at rest and none cut short it was announced, once if none overlapped.
CommittedSettled ==
  state = "committed" =>
    /\ \A r \in Rows : outcome[r].is # "pending"
    /\ counts.imported + counts.skipped + counts.failed = Cardinality(Rows)
    /\ counts # Tally => overlap
    /\ (AtWork = {} /\ broken = {}) => announced >= 1
    /\ announced > 1 => overlap
=============================================================================
