--------------------------- MODULE IdentityFeed ---------------------------
(***************************************************************************)
(* The identity feed: plugins follow the addresses contacts gain by a      *)
(* cursor over (transaction number, identity id).  A transaction number is *)
(* given when a transaction first writes, rows become visible when it      *)
(* commits, and commits come in any order: the feed therefore answers only *)
(* rows numbered below every transaction still open.                       *)
(*                                                                         *)
(* One workspace and one channel; transactions that add nothing to them    *)
(* are modelled too, because the feed waits for every writer on the        *)
(* server.  The database may be dumped and restored onto another server,   *)
(* whose numbers are unrelated; each start of the program restamps the     *)
(* rows other servers numbered.  The reader is the loop the plugin guide   *)
(* prescribes, with a restart between any two of its steps.                *)
(***************************************************************************)
EXTENDS Naturals, FiniteSets

CONSTANTS
  Txs,        \* transactions, each used once
  Ids,        \* identity ids, positive so that the nil id 0 precedes them
  Servers,    \* PostgreSQL servers, by system identifier
  NoServer,   \* the server of the zero cursor
  PageBound,  \* the most identities a page holds
  MaxMoves,   \* bound on restores onto another server
  MaxCrashes  \* bound on reader restarts

ASSUME IdsAssumption == Ids \subseteq Nat \ {0}
ASSUME ServersAssumption == NoServer \notin Servers
ASSUME BoundsAssumption ==
  PageBound \in Nat \ {0} /\ MaxMoves \in Nat /\ MaxCrashes \in Nat

VARIABLES
  server,       \* the server the database is on
  nextXid,      \* per server, the next transaction number
  completed,    \* per server, the highest number of a finished transaction
  phase, xid,   \* per transaction
  state, writer, addedXid, addedServer,  \* per identity row
  pc,           \* the reader: "new", "reading", "handling"
  cursor,       \* its cursor in memory
  saved,        \* its cursor in the database
  page, next,   \* the page in hand and the cursor after it
  handled,      \* history: the identities it handled
  exempt,       \* history: the identities its first Horizon call let it leave out
  moves, crashes

dbVars     == <<server, nextXid, completed, phase, xid>>
rowVars    == <<state, writer, addedXid, addedServer>>
readerVars == <<pc, cursor, saved, page, next, handled, exempt>>
vars       == <<dbVars, rowVars, readerVars, moves, crashes>>

Cursors    == [server : Servers \cup {NoServer}, tx : Nat, id : Ids \cup {0}]
ZeroCursor == [server |-> NoServer, tx |-> 0, id |-> 0]

---------------------------------------------------------------------------
(* Transaction numbers and the order of rows.                              *)

\* Numbers whose transaction has not finished, the one to be given next included.
Unfinished == {nextXid[server]} \cup {xid[t] : t \in {u \in Txs : phase[u] = "open"}}

\* A slip the runs must notice: answering every committed row, those numbered above an open
\* transaction included.
BelowNextXid(x) == x < nextXid[server]

\* added_xid < pg_snapshot_xmin(pg_current_snapshot())
BelowXmin(x) == \A n \in Unfinished : x < n

\* pg_snapshot_xmax: one past the highest finished transaction.
Xmax(s) == completed[s] + 1

\* Slips the runs must notice: comparing with >=, by identity alone, or by transaction alone.
PastOrAt(c, i)          == c.tx < addedXid[i] \/ (c.tx = addedXid[i] /\ c.id <= i)
PastByIdentity(c, i)    == c.id < i
PastByTransaction(c, i) == c.tx < addedXid[i]

\* (added_xid, id) > (the cursor's transaction, the cursor's identity)
Past(c, i) == c.tx < addedXid[i] \/ (c.tx = addedXid[i] /\ c.id < i)

Precedes(i, j) == addedXid[i] < addedXid[j] \/ (addedXid[i] = addedXid[j] /\ i < j)

\* A slip the runs must notice: the two halves of the cursor swapped.
PlaceSwapped(i) == [server |-> server, tx |-> i, id |-> addedXid[i]]

Place(i) == [server |-> server, tx |-> addedXid[i], id |-> i]

---------------------------------------------------------------------------
(* Writers.                                                                *)

\* A transaction takes its number with its first write.
FirstWrite(t) ==
  /\ phase[t] = "idle"
  /\ phase' = [phase EXCEPT ![t] = "open"]
  /\ xid' = [xid EXCEPT ![t] = nextXid[server]]
  /\ nextXid' = [nextXid EXCEPT ![server] = @ + 1]
  /\ UNCHANGED <<server, completed, rowVars, readerVars, moves, crashes>>

\* An identity is inserted, stamped with its transaction and server by the column defaults.
AddIdentity(t, i) ==
  /\ phase[t] = "open"
  /\ state[i] = "absent"
  /\ state' = [state EXCEPT ![i] = "pending"]
  /\ writer' = [writer EXCEPT ![i] = t]
  /\ addedXid' = [addedXid EXCEPT ![i] = xid[t]]
  /\ addedServer' = [addedServer EXCEPT ![i] = server]
  /\ UNCHANGED <<dbVars, readerVars, moves, crashes>>

\* The transaction finishes, its rows becoming live or, rolled back, gone.
Finish(t, outcome) ==
  /\ phase[t] = "open"
  /\ phase' = [phase EXCEPT ![t] = "finished"]
  /\ completed' = [completed EXCEPT ![server] = IF @ < xid[t] THEN xid[t] ELSE @]
  /\ state' = [i \in Ids |->
                 IF state[i] = "pending" /\ writer[i] = t THEN outcome ELSE state[i]]
  /\ UNCHANGED <<server, nextXid, xid, writer, addedXid, addedServer, readerVars, moves, crashes>>

DeleteIdentity(i) ==
  /\ state[i] = "live"
  /\ state' = [state EXCEPT ![i] = "gone"]
  /\ UNCHANGED <<dbVars, writer, addedXid, addedServer, readerVars, moves, crashes>>

---------------------------------------------------------------------------
(* The reader.                                                             *)

\* A reader that wants every address starts from the zero cursor.
StartFromZero ==
  /\ pc = "new"
  /\ pc' = "reading"
  /\ UNCHANGED <<dbVars, rowVars, cursor, saved, page, next, handled, exempt, moves, crashes>>

\* A reader that wants only what comes next starts from the horizon, xmin with the nil id.
StartFromHorizon ==
  /\ pc = "new"
  /\ \E xmin \in Unfinished :
       /\ \A n \in Unfinished : xmin <= n
       /\ cursor' = [server |-> server, tx |-> xmin, id |-> 0]
  /\ pc' = "reading"
  /\ saved' = cursor'
  /\ exempt' = {i \in Ids : state[i] = "live"}
  /\ UNCHANGED <<dbVars, rowVars, page, next, handled, moves, crashes>>

\* A slip the runs must notice: refusing a cursor at the highest number, a quiet server's horizon.
AtOrAhead(c) == c.tx >= Xmax(server)

\* @transaction > pg_snapshot_xmax(pg_current_snapshot())
Ahead(c) == c.tx > Xmax(server)

\* The cursor check of a call.
Stale(c) == (c # ZeroCursor /\ c.server # server) \/ Ahead(c)

Eligible(c) == {i \in Ids : state[i] = "live" /\ Past(c, i) /\ BelowXmin(addedXid[i])}

\* P is what ORDER BY added_xid, id LIMIT n answers for some n within the bound.
IsPage(P, c) ==
  /\ P \subseteq Eligible(c)
  /\ P # {}
  /\ Cardinality(P) <= PageBound
  /\ \A i \in P, j \in Eligible(c) \ P : Precedes(i, j)

IsLast(i, P) == i \in P /\ \A j \in P \ {i} : Precedes(j, i)

ReadPage ==
  /\ pc = "reading"
  /\ ~Stale(cursor)
  /\ \E P \in SUBSET Ids, last \in Ids :
       /\ IsPage(P, cursor)
       /\ IsLast(last, P)
       /\ page' = P
       /\ next' = Place(last)
  /\ pc' = "handling"
  /\ UNCHANGED <<dbVars, rowVars, cursor, saved, handled, exempt, moves, crashes>>

\* ErrCursorStale: the reader begins again from the zero cursor.
RestartFromZero ==
  /\ pc = "reading"
  /\ Stale(cursor)
  /\ cursor' = ZeroCursor
  /\ UNCHANGED <<dbVars, rowVars, pc, saved, page, next, handled, exempt, moves, crashes>>

Handle(i) ==
  /\ i \in page
  /\ \A j \in page \ {i} : Precedes(i, j)
  /\ handled' = handled \cup {i}
  /\ page' = page \ {i}
  /\ UNCHANGED <<dbVars, rowVars, pc, cursor, saved, next, exempt, moves, crashes>>

SaveCursor ==
  /\ pc = "handling"
  /\ page = {}
  /\ cursor' = next
  /\ saved' = next
  /\ pc' = "reading"
  /\ UNCHANGED <<dbVars, rowVars, page, next, handled, exempt, moves, crashes>>

\* The plugin comes back with its saved cursor.
Reload ==
  /\ pc' = IF pc = "new" THEN "new" ELSE "reading"
  /\ cursor' = saved
  /\ page' = {}
  /\ UNCHANGED <<saved, next, handled, exempt>>

ReaderRestarts ==
  /\ pc # "new"
  /\ crashes < MaxCrashes
  /\ crashes' = crashes + 1
  /\ Reload
  /\ UNCHANGED <<dbVars, rowVars, moves>>

---------------------------------------------------------------------------
(* Another server.                                                         *)

\* added_server <> system_identifier OR added_xid >= pg_snapshot_xmax(...)
Restamped(i, s) == state[i] = "live" /\ (addedServer[i] # s \/ addedXid[i] >= Xmax(s))

\* The database is dumped, restored onto s, and the program started there.  Open
\* transactions are lost with the old server, and the start restamps the rows.
MoveTo(s) ==
  LET stamped == {i \in Ids : Restamped(i, s)} IN
  /\ s # server
  /\ moves < MaxMoves
  /\ moves' = moves + 1
  /\ server' = s
  /\ phase' = [t \in Txs |-> IF phase[t] = "open" THEN "finished" ELSE phase[t]]
  /\ state' = [i \in Ids |-> IF state[i] = "pending" THEN "gone" ELSE state[i]]
  /\ addedXid' = [i \in Ids |-> IF i \in stamped THEN nextXid[s] ELSE addedXid[i]]
  /\ addedServer' = [i \in Ids |-> IF i \in stamped THEN s ELSE addedServer[i]]
  /\ nextXid' = [nextXid EXCEPT ![s] = IF stamped = {} THEN @ ELSE @ + 1]
  /\ completed' = [completed EXCEPT ![server] = nextXid[server] - 1,
                                    ![s] = IF stamped = {} THEN @ ELSE nextXid[s]]
  /\ Reload
  /\ UNCHANGED <<xid, writer, crashes>>

---------------------------------------------------------------------------
Init ==
  /\ server \in Servers
  /\ nextXid = [s \in Servers |-> 1]
  /\ completed = [s \in Servers |-> 0]
  /\ phase = [t \in Txs |-> "idle"]
  /\ xid = [t \in Txs |-> 0]
  /\ state = [i \in Ids |-> "absent"]
  /\ writer \in [Ids -> Txs]
  /\ \A i, j \in Ids : writer[i] = writer[j]
  /\ addedXid = [i \in Ids |-> 0]
  /\ addedServer = [i \in Ids |-> server]
  /\ pc = "new"
  /\ cursor = ZeroCursor
  /\ saved = ZeroCursor
  /\ page = {}
  /\ next = ZeroCursor
  /\ handled = {}
  /\ exempt = {}
  /\ moves = 0
  /\ crashes = 0

Write ==
  \E t \in Txs :
    \/ FirstWrite(t)
    \/ \E i \in Ids : AddIdentity(t, i)
    \/ Finish(t, "live")
    \/ Finish(t, "gone")

Read ==
  \/ StartFromZero
  \/ StartFromHorizon
  \/ ReadPage
  \/ RestartFromZero
  \/ \E i \in Ids : Handle(i)
  \/ SaveCursor

Next ==
  \/ Write
  \/ \E i \in Ids : DeleteIdentity(i)
  \/ Read
  \/ ReaderRestarts
  \/ \E s \in Servers : MoveTo(s)

\* The reader keeps reading, and no transaction stays open for ever.
Fairness ==
  /\ WF_vars(Read)
  /\ \A t \in Txs : WF_vars(Finish(t, "live") \/ Finish(t, "gone"))

Spec     == Init /\ [][Next]_vars
FairSpec == Spec /\ Fairness

---------------------------------------------------------------------------
(* Properties.                                                             *)

TypeOK ==
  /\ server \in Servers
  /\ nextXid \in [Servers -> Nat \ {0}]
  /\ completed \in [Servers -> Nat]
  /\ phase \in [Txs -> {"idle", "open", "finished"}]
  /\ xid \in [Txs -> Nat]
  /\ state \in [Ids -> {"absent", "pending", "live", "gone"}]
  /\ writer \in [Ids -> Txs]
  /\ addedXid \in [Ids -> Nat]
  /\ addedServer \in [Ids -> Servers]
  /\ pc \in {"new", "reading", "handling"}
  /\ cursor \in Cursors /\ saved \in Cursors /\ next \in Cursors
  /\ page \subseteq Ids /\ handled \subseteq Ids /\ exempt \subseteq Ids
  /\ moves \in 0..MaxMoves /\ crashes \in 0..MaxCrashes

\* Every identity of the saved cursor's server at or before that cursor was handled, unless a
\* horizon taken after its save let the reader leave it out: no late commit is ever skipped.
NoSkip ==
  \A i \in Ids :
    (/\ state[i] = "live" /\ i \notin exempt
     /\ addedServer[i] = saved.server /\ ~Past(saved, i)) => i \in handled

\* A server never refuses a cursor it answered itself: the reader starts over
\* only after the database moved.
OwnCursorAccepted == cursor.server = server => ~Stale(cursor)

\* Undisturbed by a restart or a move, the reader meets each identity at most once.
AtMostOnceUndisturbed == crashes = 0 /\ moves = 0 => page \cap handled = {}

\* While a server's cursor is followed it only moves forward, so no page is read for ever.
SavedCursorAdvances ==
  [][saved'.server = saved.server =>
       \/ saved'.tx > saved.tx
       \/ saved'.tx = saved.tx /\ saved'.id >= saved.id]_vars

\* Every identity the reader is owed is handled, unless removed first: a long transaction
\* makes the feed wait, and nothing makes it skip.
EventuallyHandled ==
  \A i \in Ids : state[i] = "live" ~> (i \in handled \cup exempt \/ state[i] = "gone")

===========================================================================
