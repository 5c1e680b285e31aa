---------------------------- MODULE MediaFetcher ----------------------------
(***************************************************************************)
(* WhatsApp media: the files customers send are downloaded in the          *)
(* background.  A sweep asks which workspaces with due rows are closed,    *)
(* claims a few due rows of the others, taking turns between workspaces,   *)
(* and settles or reschedules them one after the other.  The rows it       *)
(* claimed are not locked, and one deadline covers the whole sweep, the    *)
(* writes included.                                                        *)
(*                                                                         *)
(* Rows are numbered in the order they were created.  The clock is two     *)
(* facts per row: its next attempt is due, its retry window is over.       *)
(***************************************************************************)
EXTENDS Naturals, FiniteSets, Sequences

CONSTANTS
  Fetchers,      \* server processes, each with its fetcher
  Rows,          \* media rows, numbered in order of creation
  Workspaces,    \* tenants
  WorkspaceOf,   \* the workspace of each row
  Batch,         \* mediaSweepBatch
  MaxMediaFaults, \* bound on failing statements and gate reads, and on processes stopped
  MaxClosings    \* bound on workspaces closing and opening

ASSUME RowsAssumption == Rows \subseteq Nat /\ IsFiniteSet(Rows)
ASSUME WorkspaceOfAssumption == WorkspaceOf \in [Rows -> Workspaces]
ASSUME BatchAssumption == Batch \in Nat \ {0}
ASSUME MediaBoundsAssumption == MaxMediaFaults \in Nat /\ MaxClosings \in Nat

VARIABLES
  mediaStatus,   \* per row: "none" before it arrives, "pending", "stored" or "failed"
  due,           \* pending rows whose next attempt is due
  old,           \* pending rows older than the retry window
  recordingNow,  \* workspaces that record traffic
  pc,            \* per fetcher: "idle", "claim", "row", "write", "down"
  stamped,       \* per fetcher, the rows due at its sweep's now
  closed,        \* per fetcher, the workspaces its sweep leaves out
  batch,         \* per fetcher, the claimed rows left, in order
  verdict,       \* per fetcher, what its row settles as; "pending" reschedules it
  mediaFaults,   \* statements and gate reads that failed, processes stopped
  closings       \* workspaces closed or opened

\* History, read by no action's guard.
VARIABLES
  shut           \* per fetcher, rows pending at its sweep's start in a workspace closed since

media == <<mediaStatus, due, old>>
sweep == <<stamped, closed, batch, verdict>>
mediaBounds == <<mediaFaults, closings>>
mediaVars == <<media, recordingNow, pc, sweep, mediaBounds, shut>>

Settled == {"stored", "failed"}
Pending == {r \in Rows : mediaStatus[r] = "pending"}
RowsOf(w) == {r \in Rows : WorkspaceOf[r] = w}
Current(f) == Head(batch[f])

---------------------------------------------------------------------------
(* Messages, the clock and the gate of a workspace.                        *)

\* insertMediaPending, due at once; a message let in may arrive as its workspace closes.
Arrive(r) ==
  /\ mediaStatus[r] = "none"
  /\ \A q \in Rows : q < r => mediaStatus[q] # "none"
  /\ mediaStatus' = [mediaStatus EXCEPT ![r] = "pending"]
  /\ due' = due \cup {r}
  /\ UNCHANGED <<old, recordingNow, pc, sweep, mediaBounds, shut>>

\* The time of the next attempt comes.
ComesDue(r) ==
  /\ r \in Pending \ due
  /\ due' = due \cup {r}
  /\ UNCHANGED <<mediaStatus, old, recordingNow, pc, sweep, mediaBounds, shut>>

\* The retry window ends, for older rows first.
Ages(r) ==
  /\ r \in Pending \ old
  /\ \A q \in Pending : q < r => q \in old
  /\ old' = old \cup {r}
  /\ UNCHANGED <<mediaStatus, due, recordingNow, pc, sweep, mediaBounds, shut>>

\* A workspace stops recording, or records again.
ToggleRecording(w) ==
  /\ closings < MaxClosings
  /\ closings' = closings + 1
  /\ recordingNow' = IF w \in recordingNow THEN recordingNow \ {w} ELSE recordingNow \cup {w}
  /\ shut' = [f \in Fetchers |-> IF w \in recordingNow THEN shut[f] ELSE shut[f] \ RowsOf(w)]
  /\ UNCHANGED <<media, pc, sweep, mediaFaults>>

---------------------------------------------------------------------------
(* A sweep.                                                                *)

\* now, and closedTenants: of the workspaces with due rows, those that do not
\* record and those whose gate fails.  A row being inserted may be stamped before now.
ReadGates(f) ==
  LET absent == {r \in Rows : mediaStatus[r] = "none"}
      asked == {WorkspaceOf[r] : r \in due}
  IN
  /\ pc[f] = "idle"
  /\ \E inserted \in SUBSET absent : stamped' = [stamped EXCEPT ![f] = due \cup inserted]
  /\ \E failing \in SUBSET asked :
       /\ failing # {} => mediaFaults < MaxMediaFaults
       /\ mediaFaults' = IF failing = {} THEN mediaFaults ELSE mediaFaults + 1
       /\ closed' = [closed EXCEPT ![f] = (asked \ recordingNow) \cup failing]
  /\ shut' = [shut EXCEPT ![f] = {r \in Pending : WorkspaceOf[r] \notin recordingNow}]
  /\ pc' = [pc EXCEPT ![f] = "claim"]
  /\ UNCHANGED <<media, recordingNow, batch, verdict, closings>>

\* A slip the runs must notice: the claim reads the clock again.
DueByNow(f) == {r \in due : WorkspaceOf[r] \notin closed[f]}

\* The rows claimDueMedia may take: those due at the sweep's now, outside the closed workspaces.
Claimable(f) == {r \in due \cap stamped[f] : WorkspaceOf[r] \notin closed[f]}

\* The place of a row among those of its workspace.
Turn(from, r) == Cardinality({q \in from : WorkspaceOf[q] = WorkspaceOf[r] /\ q <= r})

Before(from, q, r) ==
  \/ Turn(from, q) < Turn(from, r)
  \/ Turn(from, q) = Turn(from, r) /\ q < r

\* ORDER BY turn, created_at: there is one such order.
Orders(from) ==
  {s \in [1..Cardinality(from) -> from] :
     \A i, j \in 1..Cardinality(from) : i < j => Before(from, s[i], s[j])}

\* LIMIT
First(s) == SubSeq(s, 1, IF Len(s) < Batch THEN Len(s) ELSE Batch)

\* claimDueMedia takes no lock and leaves no mark.
Claim(f) ==
  /\ pc[f] = "claim"
  /\ \E s \in Orders(Claimable(f)) : batch' = [batch EXCEPT ![f] = First(s)]
  /\ pc' = [pc EXCEPT ![f] = "row"]
  /\ closed' = [closed EXCEPT ![f] = {}]
  /\ stamped' = [stamped EXCEPT ![f] = {}]
  /\ UNCHANGED <<media, recordingNow, verdict, mediaBounds, shut>>

\* The sweep is over, for f stopped or not.
Over(f, next) ==
  /\ pc' = [pc EXCEPT ![f] = next]
  /\ stamped' = [stamped EXCEPT ![f] = {}]
  /\ closed' = [closed EXCEPT ![f] = {}]
  /\ batch' = [batch EXCEPT ![f] = <<>>]
  /\ verdict' = [verdict EXCEPT ![f] = "pending"]
  /\ shut' = [shut EXCEPT ![f] = {}]
  /\ UNCHANGED <<media, recordingNow, closings>>

\* Reading the due rows fails: nothing is swept.
SweepFails(f) ==
  /\ pc[f] = "claim"
  /\ mediaFaults < MaxMediaFaults
  /\ mediaFaults' = mediaFaults + 1
  /\ Over(f, "idle")

\* Every claimed row had its turn.
EndSweep(f) ==
  /\ pc[f] = "row"
  /\ batch[f] = <<>>
  /\ Over(f, "idle")
  /\ UNCHANGED mediaFaults

\* The deadline passes during the requests for a row: its write and all that
\* the rows behind it would have done fail, and change nothing.
Deadline(f) ==
  /\ pc[f] = "write"
  /\ Over(f, "idle")
  /\ UNCHANGED mediaFaults

\* The process stops wherever its sweep stands.
Stop(f) ==
  /\ pc[f] # "down"
  /\ mediaFaults < MaxMediaFaults
  /\ mediaFaults' = mediaFaults + 1
  /\ Over(f, "down")

Restart(f) ==
  /\ pc[f] = "down"
  /\ pc' = [pc EXCEPT ![f] = "idle"]
  /\ UNCHANGED <<media, recordingNow, sweep, mediaBounds, shut>>

---------------------------------------------------------------------------
(* fetchOne.                                                               *)

\* A slip the runs must notice: rows are retried for ever.
NeverOver(r) == FALSE

\* The retry window of a row is over.
WindowOver(r) == r \in old

\* What the requests for a row may come to: the file, one over the cap, which
\* settles as failed, or any error, a mismatched hash among them.
Fetched == {"stored", "failed", "pending"}

\* The credentials, the metadata and the download.
Fetch(f) ==
  /\ pc[f] = "row" /\ batch[f] # <<>>
  /\ ~WindowOver(Current(f))
  /\ \E v \in Fetched : verdict' = [verdict EXCEPT ![f] = v]
  /\ pc' = [pc EXCEPT ![f] = "write"]
  /\ UNCHANGED <<media, recordingNow, stamped, closed, batch, mediaBounds, shut>>

\* The fetcher is done with its row.
NextRow(f) ==
  /\ batch' = [batch EXCEPT ![f] = Tail(@)]
  /\ verdict' = [verdict EXCEPT ![f] = "pending"]
  /\ pc' = [pc EXCEPT ![f] = "row"]
  /\ UNCHANGED <<stamped, closed, shut, closings, recordingNow>>

\* A slip the runs must notice: a settled row written again.
Always(r) == TRUE

\* The condition of markMediaStored, markMediaFailed and rescheduleMedia.
StillPending(r) == mediaStatus[r] = "pending"

\* rescheduleMedia: the next attempt is not due for a while.
Reschedule(f) ==
  /\ pc[f] = "write" /\ verdict[f] = "pending"
  /\ due' = due \ {Current(f)}
  /\ NextRow(f)
  /\ UNCHANGED <<mediaStatus, old, mediaFaults>>

\* markMediaStored and markMediaFailed; a broadcast to the inbox follows.
SettledAs(f, as) ==
  LET r == Current(f) IN
  /\ mediaStatus' = [mediaStatus EXCEPT ![r] = IF StillPending(r) THEN as ELSE @]
  /\ due' = due \ {r}
  /\ old' = old \ {r}
  /\ NextRow(f)
  /\ UNCHANGED mediaFaults

Settle(f) ==
  /\ pc[f] = "write" /\ verdict[f] # "pending"
  /\ SettledAs(f, verdict[f])

\* A row past its window is retired as expired, with no request made.
Expire(f) ==
  /\ pc[f] = "row" /\ batch[f] # <<>>
  /\ WindowOver(Current(f))
  /\ SettledAs(f, "failed")

\* The statement of either fails, and its error is dropped.
WriteLost(f) ==
  /\ pc[f] = "write" \/ (pc[f] = "row" /\ batch[f] # <<>> /\ WindowOver(Current(f)))
  /\ mediaFaults < MaxMediaFaults
  /\ mediaFaults' = mediaFaults + 1
  /\ NextRow(f)
  /\ UNCHANGED media

---------------------------------------------------------------------------
MediaInit ==
  /\ mediaStatus = [r \in Rows |-> "none"]
  /\ due = {}
  /\ old = {}
  /\ recordingNow = Workspaces
  /\ pc = [f \in Fetchers |-> "idle"]
  /\ stamped = [f \in Fetchers |-> {}]
  /\ closed = [f \in Fetchers |-> {}]
  /\ batch = [f \in Fetchers |-> <<>>]
  /\ verdict = [f \in Fetchers |-> "pending"]
  /\ mediaFaults = 0
  /\ closings = 0
  /\ shut = [f \in Fetchers |-> {}]

\* What a running fetcher does by itself.
FetcherStep(f) ==
  \/ ReadGates(f) \/ Claim(f) \/ EndSweep(f) \/ Expire(f) \/ Fetch(f) \/ Reschedule(f)
  \/ Settle(f)

MediaNext ==
  \/ \E r \in Rows : Arrive(r) \/ ComesDue(r) \/ Ages(r)
  \/ \E w \in Workspaces : ToggleRecording(w)
  \/ \E f \in Fetchers : FetcherStep(f) \/ SweepFails(f) \/ WriteLost(f) \/ Deadline(f)
                        \/ Stop(f) \/ Restart(f)

MediaSpec == MediaInit /\ [][MediaNext]_mediaVars

\* A running fetcher goes on, time passes and a stopped server is started again.
MediaFairness ==
  /\ \A f \in Fetchers : WF_mediaVars(FetcherStep(f) \/ Restart(f))
  /\ \A r \in Rows : WF_mediaVars(ComesDue(r))
  /\ WF_mediaVars(\E r \in Rows : Ages(r))

MediaFairSpec == MediaSpec /\ MediaFairness

---------------------------------------------------------------------------
(* Properties.                                                             *)

MediaTypeOK ==
  /\ mediaStatus \in [Rows -> {"none", "pending"} \cup Settled]
  /\ due \subseteq Rows /\ old \subseteq Rows
  /\ recordingNow \subseteq Workspaces
  /\ pc \in [Fetchers -> {"idle", "claim", "row", "write", "down"}]
  /\ stamped \in [Fetchers -> SUBSET Rows]
  /\ closed \in [Fetchers -> SUBSET Workspaces]
  /\ batch \in [Fetchers -> Seq(Rows)]
  /\ \A f \in Fetchers : Len(batch[f]) <= Batch
  /\ verdict \in [Fetchers -> {"pending"} \cup Settled]
  /\ mediaFaults \in 0..MaxMediaFaults /\ closings \in 0..MaxClosings
  /\ shut \in [Fetchers -> SUBSET Rows]

Claimed(f) == {batch[f][i] : i \in 1..Len(batch[f])}

\* A sweep never works on a row that was pending when it began in a workspace
\* closed from then on: the gates are read for the rows due at the time the
\* claim asks about, not for those due later.
ClosedUntouched == \A f \in Fetchers : shut[f] \cap Claimed(f) = {}

\* What a row settled as stays, though two fetchers may have claimed it and
\* come to different ends.
SettledStays ==
  [][\A r \in Rows : mediaStatus[r] \in Settled => mediaStatus'[r] = mediaStatus[r]]_mediaVars

\* A pending row settles in the end, at the latest as expired, unless its
\* workspace closes: a sweep that spends its time on slow rows ahead of it does
\* so only until those expire.
EveryRowEnds ==
  \A r \in Rows : mediaStatus[r] = "pending" ~>
    (mediaStatus[r] \in Settled \/ WorkspaceOf[r] \notin recordingNow)
=============================================================================
