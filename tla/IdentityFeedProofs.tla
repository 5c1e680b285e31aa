------------------------ MODULE IdentityFeedProofs ------------------------
(***************************************************************************)
(* The identity feed skips nothing, for any number of transactions, rows,  *)
(* servers, moves and restarts.                                            *)
(*                                                                         *)
(* NoSkip alone is not inductive: it says nothing of rows still pending.   *)
(* The strengthening adds that every cursor lies before every transaction  *)
(* number that can still bring a row in (Behind), that pending rows carry  *)
(* such numbers (Numbered), and that the page in hand completes what the   *)
(* next cursor promises (Covered).                                         *)
(***************************************************************************)
EXTENDS IdentityFeed, TLAPS

\* Open transactions and rows carry the numbers the current server gave.
Numbered ==
  /\ \A t \in Txs : phase[t] = "open" => xid[t] < nextXid[server]
  /\ \A i \in Ids : state[i] = "pending" =>
       /\ phase[writer[i]] = "open"
       /\ addedXid[i] = xid[writer[i]]
       /\ addedServer[i] = server
  /\ \A i \in Ids : state[i] = "live" => addedServer[i] = server

\* Cursor c lies before every row numbered n.
BeforeNumber(c, n) == c.tx < n \/ (c.tx = n /\ c.id = 0)

\* No row that is still to come lies at or before c on c's server.
Behind(c) ==
  /\ \A s \in Servers : c.server = s => BeforeNumber(c, nextXid[s])
  /\ c.server = server => \A t \in Txs : phase[t] = "open" => BeforeNumber(c, xid[t])

\* Every live row of c's server at or before c is in H, or need not be.
Covered(c, H) ==
  \A i \in Ids :
    (/\ state[i] = "live" /\ i \notin exempt
     /\ addedServer[i] = c.server /\ ~Past(c, i)) => i \in H

Coverage ==
  /\ Covered(saved, handled)
  /\ Covered(cursor, handled)
  /\ pc = "handling" => Covered(next, handled \cup page)

IInv == TypeOK /\ Numbered /\ Behind(cursor) /\ Behind(saved) /\ Behind(next) /\ Coverage

---------------------------------------------------------------------------
\* Every step keeps every variable in its type.
LEMMA TypeStep == TypeOK /\ [Next]_vars => TypeOK'
<1> SUFFICES ASSUME TypeOK, [Next]_vars PROVE TypeOK'
  OBVIOUS
<1> USE DEF TypeOK, dbVars, rowVars, readerVars
<1> ZeroCursor \in Cursors
  BY DEF ZeroCursor, Cursors
<1>1. ASSUME NEW t \in Txs, FirstWrite(t) PROVE TypeOK'
  BY <1>1 DEF FirstWrite
<1>2. ASSUME NEW t \in Txs, NEW i \in Ids, AddIdentity(t, i) PROVE TypeOK'
  BY <1>2 DEF AddIdentity
<1>3. ASSUME NEW t \in Txs, NEW outcome \in {"live", "gone"}, Finish(t, outcome) PROVE TypeOK'
  BY <1>3 DEF Finish
<1>4. ASSUME NEW i \in Ids, DeleteIdentity(i) PROVE TypeOK'
  BY <1>4 DEF DeleteIdentity
<1>5. CASE StartFromZero
  BY <1>5 DEF StartFromZero
<1>6. CASE StartFromHorizon
  <2>1. PICK xmin \in Unfinished : cursor' = [server |-> server, tx |-> xmin, id |-> 0]
    BY <1>6 DEF StartFromHorizon
  <2>2. xmin \in Nat
    BY DEF Unfinished
  <2>3. cursor' \in Cursors
    BY <2>1, <2>2 DEF Cursors
  <2> QED
    BY <1>6, <2>3 DEF StartFromHorizon
<1>7. CASE ReadPage
  <2>1. PICK P \in SUBSET Ids, last \in Ids :
          IsPage(P, cursor) /\ IsLast(last, P) /\ page' = P /\ next' = Place(last)
    BY <1>7 DEF ReadPage
  <2>2. next' \in Cursors
    BY <2>1 DEF Place, Cursors
  <2> QED
    BY <1>7, <2>1, <2>2 DEF ReadPage
<1>8. CASE RestartFromZero
  BY <1>8 DEF RestartFromZero
<1>9. ASSUME NEW i \in Ids, Handle(i) PROVE TypeOK'
  BY <1>9 DEF Handle
<1>10. CASE SaveCursor
  BY <1>10 DEF SaveCursor
<1>11. CASE ReaderRestarts
  BY <1>11, BoundsAssumption DEF ReaderRestarts, Reload
<1>12. ASSUME NEW s \in Servers, MoveTo(s) PROVE TypeOK'
  <2>1. nextXid[server] - 1 \in Nat
    OBVIOUS
  <2> QED
    BY <1>12, <2>1, BoundsAssumption DEF MoveTo, Reload
<1>13. CASE UNCHANGED vars
  BY <1>13 DEF vars
<1> QED
  BY <1>1, <1>2, <1>3, <1>4, <1>5, <1>6, <1>7, <1>8, <1>9, <1>10, <1>11, <1>12, <1>13
  DEF Next, Write, Read

\* Numbers only go up, so what carries one keeps a number already given.
LEMMA NumberedStep == TypeOK /\ Numbered /\ [Next]_vars => Numbered'
<1> SUFFICES ASSUME TypeOK, Numbered, [Next]_vars PROVE Numbered'
  OBVIOUS
<1> USE DEF TypeOK, Numbered, dbVars, rowVars, readerVars
<1>1. ASSUME NEW t \in Txs, FirstWrite(t) PROVE Numbered'
  BY <1>1 DEF FirstWrite
<1>2. ASSUME NEW t \in Txs, NEW i \in Ids, AddIdentity(t, i) PROVE Numbered'
  BY <1>2 DEF AddIdentity
<1>3. ASSUME NEW t \in Txs, NEW outcome \in {"live", "gone"}, Finish(t, outcome) PROVE Numbered'
  BY <1>3 DEF Finish
<1>4. ASSUME NEW i \in Ids, DeleteIdentity(i) PROVE Numbered'
  BY <1>4 DEF DeleteIdentity
<1>5. ASSUME NEW s \in Servers, MoveTo(s) PROVE Numbered'
  <2>1. \A t \in Txs : phase'[t] # "open"
    BY <1>5 DEF MoveTo
  <2>2. \A i \in Ids : state'[i] # "pending"
    BY <1>5 DEF MoveTo
  <2>3. \A i \in Ids : state'[i] = "live" => addedServer'[i] = s
    BY <1>5 DEF MoveTo, Restamped
  <2> QED
    BY <1>5, <2>1, <2>2, <2>3 DEF MoveTo
<1>6. ASSUME UNCHANGED <<dbVars, rowVars>> PROVE Numbered'
  BY <1>6
<1>7. CASE Read \/ ReaderRestarts \/ UNCHANGED vars
  BY <1>6, <1>7 DEF Read, StartFromZero, StartFromHorizon, ReadPage, RestartFromZero, Handle,
     SaveCursor, ReaderRestarts, vars
<1> QED
  BY <1>1, <1>2, <1>3, <1>4, <1>5, <1>7 DEF Next, Write

\* A cursor that does not change stays behind: new numbers are higher than those given before.
LEMMA BehindKept ==
  ASSUME TypeOK, Numbered, [Next]_vars, NEW c \in Cursors, Behind(c)
  PROVE  Behind(c)'
<1> USE DEF TypeOK, Numbered, Behind, BeforeNumber, Cursors, dbVars, rowVars, readerVars
<1>1. ASSUME NEW t \in Txs, FirstWrite(t) PROVE Behind(c)'
  BY <1>1 DEF FirstWrite
<1>2. ASSUME NEW t \in Txs, NEW outcome \in {"live", "gone"}, Finish(t, outcome) PROVE Behind(c)'
  BY <1>2 DEF Finish
<1>3. ASSUME NEW s \in Servers, MoveTo(s) PROVE Behind(c)'
  <2>1. \A t \in Txs : phase'[t] # "open"
    BY <1>3 DEF MoveTo
  <2>2. \A r \in Servers : nextXid'[r] >= nextXid[r]
    BY <1>3 DEF MoveTo
  <2>3. nextXid' \in [Servers -> Nat \ {0}]
    BY <1>3 DEF MoveTo
  <2> QED
    BY <2>1, <2>2, <2>3
<1>4. ASSUME UNCHANGED dbVars PROVE Behind(c)'
  BY <1>4
<1>5. CASE Read \/ ReaderRestarts \/ UNCHANGED vars \/ \E i \in Ids : DeleteIdentity(i)
  BY <1>4, <1>5 DEF Read, StartFromZero, StartFromHorizon, ReadPage, RestartFromZero, Handle,
     SaveCursor, ReaderRestarts, DeleteIdentity, vars
<1>6. ASSUME NEW t \in Txs, NEW i \in Ids, AddIdentity(t, i) PROVE Behind(c)'
  BY <1>4, <1>6 DEF AddIdentity
<1> QED
  BY <1>1, <1>2, <1>3, <1>5, <1>6 DEF Next, Write

\* Xmin is below every unfinished number, so a horizon and the end of a page are behind too.
LEMMA BehindStep ==
  ASSUME TypeOK, Numbered, Behind(cursor), Behind(saved), Behind(next), [Next]_vars
  PROVE  Behind(cursor)' /\ Behind(saved)' /\ Behind(next)'
<1>1. cursor \in Cursors /\ saved \in Cursors /\ next \in Cursors
  BY DEF TypeOK
<1>2. \A c \in Cursors : Behind(c) => Behind(c)'
  BY BehindKept
<1>3. ZeroCursor \in Cursors /\ Behind(ZeroCursor)
  BY ServersAssumption DEF ZeroCursor, Cursors, Behind, TypeOK
<1>4. ASSUME cursor' \in {cursor, saved, next, ZeroCursor} PROVE Behind(cursor)'
  BY <1>1, <1>2, <1>3, <1>4 DEF Behind
<1>5. ASSUME saved' \in {cursor, saved, next, ZeroCursor} PROVE Behind(saved)'
  BY <1>1, <1>2, <1>3, <1>5 DEF Behind
<1>6. ASSUME next' \in {cursor, saved, next, ZeroCursor} PROVE Behind(next)'
  BY <1>1, <1>2, <1>3, <1>6 DEF Behind
<1>7. CASE StartFromHorizon
  <2>1. PICK xmin \in Unfinished :
          /\ \A n \in Unfinished : xmin <= n
          /\ cursor' = [server |-> server, tx |-> xmin, id |-> 0]
    BY <1>7 DEF StartFromHorizon
  <2>2. UNCHANGED <<server, nextXid, phase, xid, next>> /\ saved' = cursor'
    BY <1>7 DEF StartFromHorizon, dbVars
  <2>3. Behind(cursor)'
    BY <2>1, <2>2 DEF Behind, BeforeNumber, Unfinished, TypeOK
  <2> QED
    BY <1>6, <2>2, <2>3 DEF Behind
<1>8. CASE ReadPage
  <2>1. PICK P \in SUBSET Ids, last \in Ids :
          IsPage(P, cursor) /\ IsLast(last, P) /\ next' = Place(last)
    BY <1>8 DEF ReadPage
  <2>2. UNCHANGED <<server, nextXid, phase, xid, cursor, saved>>
    BY <1>8 DEF ReadPage, dbVars
  <2>3. BelowXmin(addedXid[last])
    BY <2>1 DEF IsPage, IsLast, Eligible
  <2>4. Behind(next)'
    BY <2>1, <2>2, <2>3 DEF Behind, BeforeNumber, BelowXmin, Unfinished, Place, TypeOK
  <2> QED
    BY <1>4, <1>5, <2>2, <2>4
<1>9. CASE RestartFromZero \/ SaveCursor \/ ReaderRestarts \/ \E s \in Servers : MoveTo(s)
  BY <1>4, <1>5, <1>6, <1>9 DEF RestartFromZero, SaveCursor, ReaderRestarts, MoveTo, Reload
<1>10. ASSUME UNCHANGED <<cursor, saved, next>>
       PROVE  Behind(cursor)' /\ Behind(saved)' /\ Behind(next)'
  BY <1>4, <1>5, <1>6, <1>10
<1>11. CASE Write \/ (\E i \in Ids : DeleteIdentity(i)) \/ StartFromZero
            \/ (\E i \in Ids : Handle(i)) \/ UNCHANGED vars
  BY <1>10, <1>11 DEF Write, FirstWrite, AddIdentity, Finish, DeleteIdentity, StartFromZero, Handle,
     readerVars, vars
<1> QED
  BY <1>7, <1>8, <1>9, <1>11 DEF Next, Read

\* What was covered stays so: a row going live carries a number the cursor lies before.
LEMMA CoveredKept ==
  ASSUME TypeOK, Numbered, [Next]_vars, NEW c \in Cursors, Behind(c),
         NEW H, Covered(c, H), ~StartFromHorizon
  PROVE  Covered(c, H)'
<1> USE DEF TypeOK, Covered, Past, Cursors, dbVars, rowVars, readerVars
<1>1. ASSUME NEW t \in Txs, NEW i \in Ids, AddIdentity(t, i) PROVE Covered(c, H)'
  BY <1>1 DEF AddIdentity
<1>2. ASSUME NEW t \in Txs, NEW outcome \in {"live", "gone"}, Finish(t, outcome)
      PROVE  Covered(c, H)'
  <2> SUFFICES ASSUME NEW i \in Ids, state'[i] = "live", i \notin exempt, state[i] # "live",
                      addedServer[i] = c.server, ~Past(c, i)
               PROVE  FALSE
    BY <1>2 DEF Finish
  <2>1. state[i] = "pending" /\ writer[i] = t
    BY <1>2 DEF Finish
  <2>2. phase[t] = "open" /\ addedXid[i] = xid[t] /\ c.server = server
    BY <2>1 DEF Numbered
  <2>3. BeforeNumber(c, addedXid[i])
    BY <2>2 DEF Behind
  <2> QED
    BY <2>3, IdsAssumption DEF BeforeNumber
<1>3. ASSUME NEW s \in Servers, MoveTo(s) PROVE Covered(c, H)'
  <2> SUFFICES ASSUME NEW i \in Ids, state'[i] = "live", i \notin exempt,
                      addedServer'[i] = c.server, ~Past(c, i)'
               PROVE  FALSE
    BY <1>3 DEF MoveTo, Reload
  <2>1. Restamped(i, s)
    BY <1>3 DEF MoveTo, Restamped, Numbered
  <2>2. addedXid'[i] = nextXid[s] /\ c.server = s
    BY <1>3, <2>1 DEF MoveTo
  <2>3. BeforeNumber(c, addedXid'[i])
    BY <2>2 DEF Behind
  <2> QED
    BY <2>3, IdsAssumption DEF BeforeNumber
<1>4. ASSUME NEW i \in Ids, DeleteIdentity(i) PROVE Covered(c, H)'
  BY <1>4 DEF DeleteIdentity
<1>5. ASSUME UNCHANGED <<state, addedXid, addedServer, exempt>> PROVE Covered(c, H)'
  BY <1>5
<1>6. CASE (Read /\ ~StartFromHorizon) \/ ReaderRestarts \/ UNCHANGED vars
           \/ \E t \in Txs : FirstWrite(t)
  BY <1>5, <1>6 DEF Read, StartFromZero, ReadPage, RestartFromZero, Handle, SaveCursor,
     ReaderRestarts, Reload, FirstWrite, vars
<1> QED
  BY <1>1, <1>2, <1>3, <1>4, <1>6 DEF Next, Write

\* A page reaches as far as its last row: what lies at or before it was covered, or is in the page.
LEMMA PageCovers ==
  ASSUME TypeOK, Numbered, Coverage, ReadPage
  PROVE  Covered(next, handled \cup page)'
<1>1. PICK P \in SUBSET Ids, last \in Ids :
        IsPage(P, cursor) /\ IsLast(last, P) /\ page' = P /\ next' = Place(last)
  BY DEF ReadPage
<1>2. UNCHANGED <<state, addedXid, addedServer, handled, exempt>> /\ ~Stale(cursor)
  BY DEF ReadPage, rowVars
<1> SUFFICES ASSUME NEW i \in Ids, state[i] = "live", i \notin exempt,
                    addedServer[i] = server, ~Past(Place(last), i), i \notin handled
             PROVE  i \in P
  BY <1>1, <1>2 DEF Covered, Past, Place
<1>3. last \in P /\ last \in Eligible(cursor)
  BY <1>1 DEF IsPage, IsLast
<1>4. CASE ~Past(cursor, i)
  <2>1. cursor.server = server \/ cursor = ZeroCursor
    BY <1>2 DEF Stale
  <2>2. cursor # ZeroCursor
    BY <1>4, IdsAssumption DEF ZeroCursor, Past, TypeOK
  <2> QED
    BY <1>4, <2>1, <2>2 DEF Coverage, Covered
<1>5. CASE Past(cursor, i)
  <2>1. addedXid[i] <= addedXid[last]
    BY IdsAssumption DEF Past, Place, TypeOK
  <2>2. BelowXmin(addedXid[last])
    BY <1>3 DEF Eligible
  <2>3. \A n \in Unfinished : n \in Nat
    BY DEF Unfinished, TypeOK
  <2>4. BelowXmin(addedXid[i])
    BY <2>1, <2>2, <2>3 DEF BelowXmin, TypeOK
  <2>5. i \in Eligible(cursor)
    BY <1>5, <2>4 DEF Eligible
  <2>6. ~Precedes(last, i)
    BY IdsAssumption DEF Precedes, Past, Place, TypeOK
  <2> QED
    BY <1>1, <1>3, <2>5, <2>6 DEF IsPage
<1> QED
  BY <1>4, <1>5

\* The reader's cursors keep their promise through each of its steps and everyone else's.
LEMMA CoverageStep == IInv /\ [Next]_vars => Coverage'
<1> SUFFICES ASSUME IInv, [Next]_vars PROVE Coverage'
  OBVIOUS
<1> USE DEF IInv, readerVars
<1>1. cursor \in Cursors /\ saved \in Cursors /\ next \in Cursors
  BY DEF TypeOK
<1>2. ASSUME ~StartFromHorizon
      PROVE  \A c \in Cursors, H \in SUBSET Ids : Behind(c) /\ Covered(c, H) => Covered(c, H)'
  BY <1>2, CoveredKept
<1>3. ASSUME ~StartFromHorizon,
             cursor' = cursor, saved' = saved, next' = next,
             handled \subseteq handled', handled' \cup page' = handled \cup page,
             handled' \subseteq Ids, pc' = "handling" => pc = "handling"
      PROVE  Coverage'
  BY <1>1, <1>2, <1>3 DEF Coverage, Covered, TypeOK
<1>4. CASE StartFromHorizon
  BY <1>4 DEF StartFromHorizon, Coverage, Covered, rowVars
<1>5. CASE ReadPage
  <2>1. Covered(next, handled \cup page)'
    BY <1>5, PageCovers
  <2>2. UNCHANGED <<cursor, saved, handled, state, addedXid, addedServer, exempt>>
    BY <1>5 DEF ReadPage, rowVars
  <2> QED
    BY <2>1, <2>2 DEF Coverage, Covered, Past
<1>6. CASE RestartFromZero
  <2>1. UNCHANGED <<saved, next, page, handled, state, addedXid, addedServer, exempt, pc>>
    BY <1>6 DEF RestartFromZero, rowVars
  <2>2. cursor' = ZeroCursor
    BY <1>6 DEF RestartFromZero
  <2>3. Covered(cursor, handled)'
    BY <2>1, <2>2, ServersAssumption DEF Covered, ZeroCursor, TypeOK
  <2> QED
    BY <2>1, <2>3 DEF Coverage, Covered, Past
<1>7. CASE SaveCursor
  <2>1. Covered(next, handled)
    BY <1>7 DEF SaveCursor, Coverage
  <2>2. UNCHANGED <<next, handled, state, addedXid, addedServer, exempt>>
        /\ cursor' = next /\ saved' = next /\ pc' = "reading"
    BY <1>7 DEF SaveCursor, rowVars
  <2> QED
    BY <2>1, <2>2 DEF Coverage, Covered, Past
<1>8. ASSUME Reload, ~StartFromHorizon PROVE Coverage'
  <2>1. handled' = handled /\ saved' = saved /\ cursor' = saved /\ pc' # "handling"
    BY <1>8 DEF Reload
  <2>2. Covered(saved, handled)'
    BY <1>1, <1>2, <1>8, <2>1 DEF Coverage, Covered, TypeOK
  <2> QED
    BY <2>1, <2>2 DEF Coverage, Covered
<1>9. CASE ReaderRestarts \/ \E s \in Servers : MoveTo(s)
  <2>1. Reload /\ ~StartFromHorizon
    BY <1>9 DEF ReaderRestarts, MoveTo, StartFromHorizon, dbVars
  <2> QED
    BY <1>8, <2>1
<1>10. CASE ~StartFromHorizon /\ (StartFromZero \/ \E i \in Ids : Handle(i))
  <2>1. StartFromZero => UNCHANGED <<cursor, saved, next, page, handled>> /\ pc' = "reading"
    BY DEF StartFromZero
  <2>2. \A i \in Ids : Handle(i) =>
          /\ UNCHANGED <<cursor, saved, next, pc>>
          /\ handled' = handled \cup {i} /\ page' = page \ {i} /\ i \in page
    BY DEF Handle
  <2> QED
    BY <1>3, <1>10, <2>1, <2>2 DEF TypeOK
<1>11. CASE Write \/ (\E i \in Ids : DeleteIdentity(i)) \/ UNCHANGED vars
  <2>1. UNCHANGED readerVars
    BY <1>11 DEF Write, FirstWrite, AddIdentity, Finish, DeleteIdentity, vars
  <2>2. CASE ~StartFromHorizon
    BY <1>3, <2>1, <2>2 DEF TypeOK
  <2>3. CASE StartFromHorizon
    BY <1>4, <2>3
  <2> QED
    BY <2>2, <2>3
<1> QED
  BY <1>4, <1>5, <1>6, <1>7, <1>9, <1>10, <1>11 DEF Next, Read

\* Before the first transaction nothing is numbered, read or exempted.
LEMMA InitIInv == Init => IInv
<1> SUFFICES ASSUME Init PROVE IInv
  OBVIOUS
<1> USE DEF Init, ZeroCursor
<1>1. TypeOK
  BY BoundsAssumption DEF TypeOK, Cursors
<1>2. Numbered
  BY DEF Numbered
<1>3. Behind(cursor) /\ Behind(saved) /\ Behind(next)
  BY ServersAssumption DEF Behind
<1>4. Coverage
  BY DEF Coverage, Covered
<1> QED
  BY <1>1, <1>2, <1>3, <1>4 DEF IInv

\* Every step keeps the invariant NoSkip rests on.
LEMMA IInvStep == IInv /\ [Next]_vars => IInv'
  BY TypeStep, NumberedStep, BehindStep, CoverageStep DEF IInv

\* Every variable keeps its type.
THEOREM TypeCorrect == Spec => []TypeOK
<1>1. IInv => TypeOK
  BY DEF IInv
<1> QED
  BY <1>1, InitIInv, IInvStep, PTL DEF Spec

\* No late commit is ever skipped: a reader that saved a cursor has handled every identity
\* at or before it, whatever the order the transactions committed in, across restarts of the
\* reader and moves of the database.
THEOREM NothingSkipped == Spec => []NoSkip
<1>1. IInv => NoSkip
  BY DEF IInv, Coverage, Covered, NoSkip
<1> QED
  BY <1>1, InitIInv, IInvStep, PTL DEF Spec

---------------------------------------------------------------------------
(* A server accepts its own cursors, and the saved one only moves forward. *)

\* Every number given is finished, at most the highest finished one, or still open.
Counted ==
  /\ \A s \in Servers : completed[s] < nextXid[s]
  /\ \A s \in Servers \ {server} : completed[s] + 1 = nextXid[s]
  /\ \A n \in Nat : completed[server] < n /\ n < nextXid[server] =>
       \E t \in Txs : phase[t] = "open" /\ xid[t] = n

\* No cursor is past the count of the server it names.
Within(c) == \A s \in Servers : c.server = s => c.tx <= Xmax(s)

NotBefore(c, d) == c.tx < d.tx \/ (c.tx = d.tx /\ c.id <= d.id)

\* The cursor in memory departs from the saved one only once the database moved.
Followed ==
  /\ cursor = saved \/ saved.server # server
  /\ pc = "new" => saved = ZeroCursor
  /\ pc = "handling" => /\ next.server = server
                        /\ cursor.server = server => NotBefore(cursor, next)

CursorInv == IInv /\ Counted /\ Within(cursor) /\ Within(saved) /\ Within(next) /\ Followed

\* A number is given to a transaction that opens and counted as finished when it ends.
LEMMA CountedStep == TypeOK /\ Numbered /\ Counted /\ [Next]_vars => Counted'
<1> SUFFICES ASSUME TypeOK, Numbered, Counted, [Next]_vars PROVE Counted'
  OBVIOUS
<1> USE DEF TypeOK, Counted, dbVars
<1>1. ASSUME NEW t \in Txs, FirstWrite(t) PROVE Counted'
  <2>1. \A n \in Nat : completed'[server'] < n /\ n < nextXid'[server'] =>
          \E u \in Txs : phase'[u] = "open" /\ xid'[u] = n
    <3> SUFFICES ASSUME NEW n \in Nat, completed[server] < n, n < nextXid[server] + 1
                 PROVE  \E u \in Txs : phase'[u] = "open" /\ xid'[u] = n
      BY <1>1 DEF FirstWrite
    <3>1. CASE n = nextXid[server]
      BY <1>1, <3>1 DEF FirstWrite
    <3>2. CASE n < nextXid[server]
      <4>1. PICK u \in Txs : phase[u] = "open" /\ xid[u] = n
        BY <3>2
      <4>2. u # t
        BY <1>1, <4>1 DEF FirstWrite
      <4> QED
        BY <1>1, <4>1, <4>2 DEF FirstWrite
    <3> QED
      BY <3>1, <3>2
  <2> QED
    BY <1>1, <2>1 DEF FirstWrite
<1>2. ASSUME NEW t \in Txs, NEW outcome \in {"live", "gone"}, Finish(t, outcome) PROVE Counted'
  <2>1. \A n \in Nat : completed'[server'] < n /\ n < nextXid'[server'] =>
          \E u \in Txs : phase'[u] = "open" /\ xid'[u] = n
    <3> SUFFICES ASSUME NEW n \in Nat, completed[server] < n, xid[t] < n, n < nextXid[server]
                 PROVE  \E u \in Txs : phase'[u] = "open" /\ xid'[u] = n
      BY <1>2 DEF Finish
    <3>1. PICK u \in Txs : phase[u] = "open" /\ xid[u] = n
      OBVIOUS
    <3>2. u # t
      BY <3>1
    <3> QED
      BY <1>2, <3>1, <3>2 DEF Finish
  <2>2. completed'[server] < nextXid'[server]
    BY <1>2 DEF Finish, Numbered
  <2> QED
    BY <1>2, <2>1, <2>2 DEF Finish
<1>3. ASSUME NEW s \in Servers, MoveTo(s) PROVE Counted'
  <2>1. server' = s /\ s # server
    BY <1>3 DEF MoveTo
  <2>2. completed'[s] + 1 = nextXid'[s]
    BY <1>3, <2>1 DEF MoveTo
  <2>3. completed'[server] + 1 = nextXid'[server]
    BY <1>3, <2>1 DEF MoveTo
  <2>4. \A r \in Servers \ {s, server} : completed'[r] = completed[r] /\ nextXid'[r] = nextXid[r]
    BY <1>3 DEF MoveTo
  <2>5. nextXid' \in [Servers -> Nat] /\ completed' \in [Servers -> Nat]
    BY <1>3, TypeStep
  <2>6. \A r \in Servers : completed'[r] + 1 = nextXid'[r]
    BY <2>2, <2>3, <2>4
  <2> QED
    BY <2>1, <2>5, <2>6
<1>4. ASSUME UNCHANGED <<server, nextXid, completed, phase, xid>> PROVE Counted'
  BY <1>4
<1>5. CASE Read \/ ReaderRestarts \/ UNCHANGED vars \/ \E i \in Ids : DeleteIdentity(i)
  BY <1>4, <1>5 DEF Read, StartFromZero, StartFromHorizon, ReadPage, RestartFromZero, Handle,
     SaveCursor, ReaderRestarts, DeleteIdentity, vars
<1>6. ASSUME NEW t \in Txs, NEW i \in Ids, AddIdentity(t, i) PROVE Counted'
  BY <1>4, <1>6 DEF AddIdentity
<1> QED
  BY <1>1, <1>2, <1>3, <1>5, <1>6 DEF Next, Write

\* One past the highest finished number is unfinished, so nothing xmin allows is beyond it.
LEMMA XmaxUnfinished == TypeOK /\ Counted => Xmax(server) \in Unfinished
<1> SUFFICES ASSUME TypeOK, Counted PROVE Xmax(server) \in Unfinished
  OBVIOUS
<1> DEFINE n == completed[server] + 1
<1>1. n \in Nat /\ completed[server] < n /\ n <= nextXid[server]
  BY DEF TypeOK, Counted
<1>2. CASE n = nextXid[server]
  BY <1>2 DEF Xmax, Unfinished
<1>3. CASE n < nextXid[server]
  <2>1. PICK t \in Txs : phase[t] = "open" /\ xid[t] = n
    BY <1>1, <1>3 DEF Counted
  <2> QED
    BY <2>1 DEF Xmax, Unfinished
<1> QED
  BY <1>1, <1>2, <1>3 DEF TypeOK

\* A cursor once within the count stays so: the count never goes back.
LEMMA WithinKept ==
  ASSUME TypeOK, Numbered, Counted, [Next]_vars, NEW c \in Cursors, Within(c)
  PROVE  Within(c)'
<1>1. completed' \in [Servers -> Nat]
  BY TypeStep DEF TypeOK
<1>2. \A s \in Servers : completed'[s] >= completed[s]
  <2>1. ASSUME NEW t \in Txs, NEW outcome \in {"live", "gone"}, Finish(t, outcome)
        PROVE  \A s \in Servers : completed'[s] >= completed[s]
    BY <2>1 DEF Finish, TypeOK
  <2>2. ASSUME NEW r \in Servers, MoveTo(r)
        PROVE  \A s \in Servers : completed'[s] >= completed[s]
    BY <2>2 DEF MoveTo, Counted, TypeOK
  <2>3. CASE completed' = completed
    BY <2>3 DEF TypeOK
  <2>4. ASSUME NEW t \in Txs, FirstWrite(t) \/ \E i \in Ids : AddIdentity(t, i)
        PROVE  completed' = completed
    BY <2>4 DEF FirstWrite, AddIdentity, dbVars
  <2>5. CASE Read \/ ReaderRestarts \/ UNCHANGED vars \/ \E i \in Ids : DeleteIdentity(i)
    <3>1. completed' = completed
      BY <2>5 DEF Read, StartFromZero, StartFromHorizon, ReadPage, RestartFromZero, Handle,
         SaveCursor, ReaderRestarts, DeleteIdentity, vars, dbVars
    <3> QED
      BY <2>3, <3>1
  <2> QED
    BY <2>1, <2>2, <2>3, <2>4, <2>5 DEF Next, Write
<1> QED
  BY <1>1, <1>2 DEF Within, Xmax, TypeOK, Cursors

\* A cursor is read off the server it names, whose count only grows.
LEMMA WithinStep ==
  ASSUME TypeOK, Numbered, Counted, Within(cursor), Within(saved), Within(next), [Next]_vars
  PROVE  Within(cursor)' /\ Within(saved)' /\ Within(next)'
<1>1. cursor \in Cursors /\ saved \in Cursors /\ next \in Cursors
  BY DEF TypeOK
<1>2. \A c \in Cursors : Within(c) => Within(c)'
  BY WithinKept
<1>3. ZeroCursor \in Cursors /\ Within(ZeroCursor)
  BY ServersAssumption DEF ZeroCursor, Cursors, Within
<1>4. ASSUME cursor' \in {cursor, saved, next, ZeroCursor} PROVE Within(cursor)'
  BY <1>1, <1>2, <1>3, <1>4 DEF Within
<1>5. ASSUME saved' \in {cursor, saved, next, ZeroCursor} PROVE Within(saved)'
  BY <1>1, <1>2, <1>3, <1>5 DEF Within
<1>6. ASSUME next' \in {cursor, saved, next, ZeroCursor} PROVE Within(next)'
  BY <1>1, <1>2, <1>3, <1>6 DEF Within
<1>7. Xmax(server) \in Unfinished /\ Xmax(server) \in Nat
  BY XmaxUnfinished DEF Xmax, TypeOK
<1>8. CASE StartFromHorizon
  <2>1. PICK xmin \in Unfinished :
          /\ \A n \in Unfinished : xmin <= n
          /\ cursor' = [server |-> server, tx |-> xmin, id |-> 0]
    BY <1>8 DEF StartFromHorizon
  <2>2. UNCHANGED <<server, completed, next>> /\ saved' = cursor'
    BY <1>8 DEF StartFromHorizon, dbVars
  <2>3. Within(cursor)'
    BY <1>7, <2>1, <2>2 DEF Within, Xmax
  <2> QED
    BY <1>6, <2>2, <2>3 DEF Within
<1>9. CASE ReadPage
  <2>1. PICK P \in SUBSET Ids, last \in Ids :
          IsPage(P, cursor) /\ IsLast(last, P) /\ next' = Place(last)
    BY <1>9 DEF ReadPage
  <2>2. UNCHANGED <<server, completed, cursor, saved>>
    BY <1>9 DEF ReadPage, dbVars
  <2>3. BelowXmin(addedXid[last])
    BY <2>1 DEF IsPage, IsLast, Eligible
  <2>4. addedXid[last] < Xmax(server)
    BY <1>7, <2>3 DEF BelowXmin
  <2>5. Within(next)'
    BY <1>7, <2>1, <2>2, <2>4 DEF Within, Xmax, Place, TypeOK
  <2> QED
    BY <1>4, <1>5, <2>2, <2>5
<1>10. CASE RestartFromZero \/ SaveCursor \/ ReaderRestarts \/ \E s \in Servers : MoveTo(s)
  BY <1>4, <1>5, <1>6, <1>10 DEF RestartFromZero, SaveCursor, ReaderRestarts, MoveTo, Reload
<1>11. ASSUME UNCHANGED <<cursor, saved, next>>
       PROVE  Within(cursor)' /\ Within(saved)' /\ Within(next)'
  BY <1>4, <1>5, <1>6, <1>11
<1>12. CASE Write \/ (\E i \in Ids : DeleteIdentity(i)) \/ StartFromZero
            \/ (\E i \in Ids : Handle(i)) \/ UNCHANGED vars
  BY <1>11, <1>12 DEF Write, FirstWrite, AddIdentity, Finish, DeleteIdentity, StartFromZero, Handle,
     readerVars, vars
<1> QED
  BY <1>8, <1>9, <1>10, <1>12 DEF Next, Read

\* A cursor within its server's count is not refused there.
LEMMA Accepted == TypeOK /\ Within(cursor) => OwnCursorAccepted
  BY DEF TypeOK, Cursors, Within, OwnCursorAccepted, Stale, Ahead, Xmax

\* The numbers of a cursor, the nil id included, are ordered as numbers are.
LEMMA CursorNumbers == ASSUME NEW c \in Cursors PROVE c.tx \in Nat /\ c.id \in Nat
<1>1. c.tx \in Nat /\ c.id \in Ids \cup {0}
  BY DEF Cursors
<1>2. \A i \in Ids : i \in Nat
  BY IdsAssumption
<1> QED
  BY <1>1, <1>2

\* A page's cursor is saved and taken over together, and a restart reads the saved one.
LEMMA FollowedStep == CursorInv /\ [Next]_vars => Followed'
<1> SUFFICES ASSUME CursorInv, [Next]_vars PROVE Followed'
  OBVIOUS
<1> USE DEF CursorInv, IInv, Followed, readerVars
<1>1. CASE StartFromZero
  BY <1>1 DEF StartFromZero, dbVars
<1>2. CASE StartFromHorizon
  BY <1>2 DEF StartFromHorizon
<1>3. CASE ReadPage
  <2>1. PICK P \in SUBSET Ids, last \in Ids :
          IsPage(P, cursor) /\ IsLast(last, P) /\ next' = Place(last)
    BY <1>3 DEF ReadPage
  <2>2. /\ Past(cursor, last)
        /\ addedXid[last] \in Nat /\ last \in Nat
    BY <2>1, IdsAssumption DEF IsPage, IsLast, Eligible, TypeOK
  <2>3. cursor.tx \in Nat /\ cursor.id \in Nat
    BY CursorNumbers DEF TypeOK
  <2>4. next'.server = server /\ NotBefore(cursor, next')
    BY <2>1, <2>2, <2>3 DEF Past, Place, NotBefore
  <2> QED
    BY <1>3, <2>4 DEF ReadPage, dbVars, NotBefore
<1>4. CASE RestartFromZero
  <2>1. cursor.server # server
    BY <1>4, Accepted DEF RestartFromZero, OwnCursorAccepted
  <2> QED
    BY <1>4, <2>1 DEF RestartFromZero, dbVars
<1>5. CASE SaveCursor
  BY <1>5 DEF SaveCursor
<1>6. CASE ReaderRestarts \/ \E s \in Servers : MoveTo(s)
  <2>1. Reload
    BY <1>6 DEF ReaderRestarts, MoveTo
  <2>2. cursor' = saved' /\ saved' = saved /\ pc' # "handling" /\ (pc' = "new" => pc = "new")
    BY <2>1 DEF Reload
  <2> QED
    BY <2>2
<1>7. ASSUME UNCHANGED <<pc, cursor, saved, next, server>> PROVE Followed'
  BY <1>7 DEF NotBefore
<1>8. CASE Write \/ (\E i \in Ids : DeleteIdentity(i) \/ Handle(i)) \/ UNCHANGED vars
  BY <1>7, <1>8 DEF Write, FirstWrite, AddIdentity, Finish, DeleteIdentity, Handle, dbVars, vars
<1> QED
  BY <1>1, <1>2, <1>3, <1>4, <1>5, <1>6, <1>8 DEF Next, Read

\* Every cursor starts at the beginning of the first server.
LEMMA InitCursorInv == Init => CursorInv
<1> SUFFICES ASSUME Init PROVE CursorInv
  OBVIOUS
<1>1. IInv
  BY InitIInv
<1>2. Counted
  BY DEF Init, Counted
<1>3. Within(cursor) /\ Within(saved) /\ Within(next)
  BY ServersAssumption DEF Init, Within, ZeroCursor
<1>4. Followed
  BY DEF Init, Followed
<1> QED
  BY <1>1, <1>2, <1>3, <1>4 DEF CursorInv

\* Every step keeps the invariant of the cursors.
LEMMA CursorInvStep == CursorInv /\ [Next]_vars => CursorInv'
  BY IInvStep, CountedStep, WithinStep, FollowedStep DEF CursorInv, IInv

\* On one server, what replaces the saved cursor is not before it.
LEMMA AdvanceStep ==
  ASSUME CursorInv, [Next]_vars, saved'.server = saved.server
  PROVE  saved'.tx > saved.tx \/ (saved'.tx = saved.tx /\ saved'.id >= saved.id)
<1>1. saved.tx \in Nat /\ saved.id \in Nat
  BY CursorNumbers DEF CursorInv, IInv, TypeOK
<1>2. ASSUME saved' = saved
      PROVE  saved'.tx = saved.tx /\ saved'.id >= saved.id
  BY <1>1, <1>2
<1>3. CASE StartFromHorizon
  <2>1. saved = ZeroCursor /\ saved'.server = server /\ server \in Servers
    BY <1>3 DEF StartFromHorizon, CursorInv, IInv, TypeOK, Followed
  <2> QED
    BY <2>1, ServersAssumption DEF ZeroCursor
<1>4. CASE SaveCursor
  <2>1. saved' = next /\ NotBefore(saved, next)
    BY <1>4 DEF SaveCursor, CursorInv, Followed
  <2>2. next.tx \in Nat /\ next.id \in Nat
    BY CursorNumbers DEF CursorInv, IInv, TypeOK
  <2> QED
    BY <1>1, <2>1, <2>2 DEF NotBefore
<1>5. CASE Write \/ (\E i \in Ids : DeleteIdentity(i) \/ Handle(i)) \/ StartFromZero \/ ReadPage
           \/ RestartFromZero \/ ReaderRestarts \/ (\E s \in Servers : MoveTo(s)) \/ UNCHANGED vars
  <2>1. saved' = saved
    BY <1>5 DEF Write, FirstWrite, AddIdentity, Finish, DeleteIdentity, Handle, StartFromZero,
       ReadPage, RestartFromZero, ReaderRestarts, MoveTo, Reload, readerVars, vars
  <2> QED
    BY <1>2, <2>1
<1> QED
  BY <1>3, <1>4, <1>5 DEF Next, Read

\* No server refuses a cursor it answered, so the reader starts over only after a move.
THEOREM OwnCursorsAccepted == Spec => []OwnCursorAccepted
<1>1. CursorInv => OwnCursorAccepted
  BY Accepted DEF CursorInv, IInv
<1> QED
  BY <1>1, InitCursorInv, CursorInvStep, PTL DEF Spec

\* On one server the saved cursor never moves back.
THEOREM CursorsAdvance == Spec => SavedCursorAdvances
<1>1. CursorInv /\ [Next]_vars =>
        [saved'.server = saved.server =>
           \/ saved'.tx > saved.tx
           \/ saved'.tx = saved.tx /\ saved'.id >= saved.id]_vars
  BY AdvanceStep
<1> QED
  BY <1>1, InitCursorInv, CursorInvStep, PTL DEF Spec, SavedCursorAdvances

---------------------------------------------------------------------------
(* An undisturbed reader goes through the rows once.                       *)

\* How far the reader is with its page in hand.
Reached == IF pc = "handling" THEN next ELSE cursor

\* Until a restart or a move: what the reader met keeps its number and lies at or before where
\* the reader is, and what it has in hand it has not met.
Once ==
  crashes = 0 /\ moves = 0 =>
    /\ cursor = ZeroCursor \/ cursor.server = server
    /\ pc = "new" => handled = {}
    /\ pc # "handling" => page = {}
    /\ page \cap handled = {}
    /\ \A i \in handled \cup page : state[i] \in {"live", "gone"} /\ ~Past(Reached, i)

OnceInv == CursorInv /\ Once

\* A page holds rows past the cursor alone and its own cursor is past them all, so what was met
\* before lies before the page and after it.
LEMMA PageOnce == ASSUME OnceInv, ReadPage PROVE Once'
<1> SUFFICES ASSUME crashes = 0, moves = 0 PROVE Once'
  BY DEF ReadPage, Once
<1> USE DEF OnceInv, CursorInv, IInv, dbVars, rowVars
<1>1. PICK P \in SUBSET Ids, last \in Ids :
        IsPage(P, cursor) /\ IsLast(last, P) /\ page' = P /\ next' = Place(last)
  BY DEF ReadPage
<1>2. UNCHANGED <<server, state, addedXid, cursor, handled, crashes, moves>>
      /\ pc = "reading" /\ pc' = "handling"
  BY DEF ReadPage
<1>3. last \in Nat /\ addedXid[last] \in Nat /\ cursor.tx \in Nat /\ cursor.id \in Nat
  BY IdsAssumption, CursorNumbers DEF TypeOK
<1>4. \A i \in Ids : i \in Nat /\ addedXid[i] \in Nat
  BY IdsAssumption DEF TypeOK
<1>5. \A i \in P : state[i] = "live" /\ Past(cursor, i)
  BY <1>1 DEF IsPage, Eligible
<1>6. \A i \in handled : i \in Ids /\ state[i] \in {"live", "gone"} /\ ~Past(cursor, i)
  BY <1>2 DEF Once, Reached, TypeOK
<1>7. \A i \in handled : ~Past(Place(last), i)
  <2> SUFFICES ASSUME NEW i \in handled PROVE ~Past(Place(last), i)
    OBVIOUS
  <2>1. cursor.tx < addedXid[last] \/ (cursor.tx = addedXid[last] /\ cursor.id < last)
    BY <1>1, <1>5 DEF IsLast, Past
  <2>2. ~(cursor.tx < addedXid[i] \/ (cursor.tx = addedXid[i] /\ cursor.id < i))
    BY <1>6 DEF Past
  <2>3. i \in Nat /\ addedXid[i] \in Nat
    BY <1>4, <1>6
  <2>4. ~(addedXid[last] < addedXid[i] \/ (addedXid[last] = addedXid[i] /\ last < i))
    BY <1>3, <2>1, <2>2, <2>3
  <2> QED
    BY <2>4 DEF Past, Place
<1>8. \A i \in P : ~Past(Place(last), i)
  <2>1. \A i \in P : i = last \/ Precedes(i, last)
    BY <1>1 DEF IsLast
  <2> QED
    BY <1>1, <1>3, <1>4, <2>1 DEF Past, Place, Precedes
<1>9. \A i \in handled \cup P : state[i] \in {"live", "gone"} /\ ~Past(Place(last), i)
  BY <1>5, <1>6, <1>7, <1>8
<1>10. (\A i \in handled \cup page : state[i] \in {"live", "gone"} /\ ~Past(Reached, i))'
  BY <1>1, <1>2, <1>9 DEF Reached, Past
<1>11. page' \cap handled' = {}
  BY <1>1, <1>2, <1>5, <1>6
<1> QED
  BY <1>2, <1>10, <1>11 DEF Once

\* Every step keeps the reader from meeting a row again.
LEMMA OnceStep == OnceInv /\ [Next]_vars => OnceInv'
<1> SUFFICES ASSUME OnceInv, [Next]_vars PROVE Once'
  BY CursorInvStep DEF OnceInv
<1> USE DEF OnceInv, CursorInv, IInv, dbVars, rowVars, readerVars
\* Steps of others, which number no row the reader met.
<1>a. ASSUME UNCHANGED <<server, readerVars, crashes, moves>>,
             \A i \in Ids : state[i] \in {"live", "gone"} =>
               state'[i] \in {"live", "gone"} /\ addedXid'[i] = addedXid[i]
      PROVE  Once'
  BY <1>a DEF Once, Reached, Past, TypeOK
<1>1. ASSUME NEW t \in Txs, FirstWrite(t) PROVE Once'
  BY <1>1, <1>a DEF FirstWrite
<1>2. ASSUME NEW t \in Txs, NEW i \in Ids, AddIdentity(t, i) PROVE Once'
  BY <1>2, <1>a DEF AddIdentity, TypeOK
<1>3. ASSUME NEW t \in Txs, NEW outcome \in {"live", "gone"}, Finish(t, outcome) PROVE Once'
  BY <1>3, <1>a DEF Finish
<1>4. ASSUME NEW i \in Ids, DeleteIdentity(i) PROVE Once'
  BY <1>4, <1>a DEF DeleteIdentity, TypeOK
<1>5. CASE StartFromZero
  BY <1>5 DEF StartFromZero, Once, Reached, Past
<1>6. CASE StartFromHorizon
  <2>1. /\ pc = "new" /\ pc' = "reading" /\ UNCHANGED <<server, page, handled, crashes, moves>>
        /\ cursor'.server = server
    BY <1>6 DEF StartFromHorizon
  <2> QED
    BY <2>1 DEF Once
<1>7. CASE ReadPage
  BY <1>7, PageOnce
<1>8. CASE RestartFromZero
  <2>1. crashes = 0 /\ moves = 0 => cursor = ZeroCursor
    BY <1>8, Accepted DEF RestartFromZero, OwnCursorAccepted, Once
  <2>2. /\ pc' = pc /\ pc = "reading" /\ cursor' = ZeroCursor
        /\ UNCHANGED <<server, state, addedXid, page, handled, crashes, moves>>
    BY <1>8 DEF RestartFromZero
  <2> QED
    BY <2>1, <2>2 DEF Once, Reached, Past
<1>9. ASSUME NEW i \in Ids, Handle(i) PROVE Once'
  BY <1>9 DEF Handle, Once, Reached, Past
<1>10. CASE SaveCursor
  BY <1>10 DEF SaveCursor, Once, Reached, Past, Followed
<1>11. CASE ReaderRestarts
  <2>1. crashes' # 0
    BY <1>11 DEF ReaderRestarts, TypeOK
  <2> QED
    BY <2>1 DEF Once
<1>12. ASSUME NEW s \in Servers, MoveTo(s) PROVE Once'
  <2>1. moves' # 0
    BY <1>12 DEF MoveTo, TypeOK
  <2> QED
    BY <2>1 DEF Once
<1>13. CASE UNCHANGED vars
  BY <1>13, <1>a DEF vars
<1> QED
  BY <1>1, <1>2, <1>3, <1>4, <1>5, <1>6, <1>7, <1>8, <1>9, <1>10, <1>11, <1>12, <1>13
  DEF Next, Write, Read

\* Until a restart or a move, no page brings a row the reader has handled (IdentitiesAfter).
THEOREM MetOnce == Spec => []AtMostOnceUndisturbed
<1>1. Init => OnceInv
  <2>1. Init => Once
    BY DEF Init, Once
  <2> QED
    BY <2>1, InitCursorInv DEF OnceInv
<1>2. OnceInv => AtMostOnceUndisturbed
  BY DEF OnceInv, Once, AtMostOnceUndisturbed
<1> QED
  BY <1>1, <1>2, OnceStep, PTL DEF Spec

===========================================================================
