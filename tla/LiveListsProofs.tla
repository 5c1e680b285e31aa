--------------------------- MODULE LiveListsProofs ---------------------------
(***************************************************************************)
(* Streams and lists of LiveLists, for any streams, buffers, pages and     *)
(* bounds: no frame meets a closed channel, no job of the loader is left   *)
(* behind, no page outlives its variables and no change is forgotten.      *)
(*                                                                         *)
(* What carries the last one is that a change announced after a read began *)
(* leaves a mark until the list is read again: a frame or a name on its    *)
(* way, and from the moment it arrives the loader's wantReread, which only *)
(* the reread it asks for takes away.                                      *)
(***************************************************************************)
EXTENDS LiveLists, FiniteSetTheorems, SequenceTheorems, TLAPS

\* How far the goroutines of a request are.
Watched ==
  \A s \in Streams :
    /\ pump[s] \in {"none", "start"} => watcher[s] = "none"
    /\ s \in subs => watcher[s] = "wait"
    /\ s \in shut => watcher[s] = "done"

Pages == [version : Nat, key : Nat]
Lists == [pages : Seq(Pages), fetching : BOOLEAN, running : BOOLEAN,
          wantMore : BOOLEAN, wantReread : BOOLEAN]
Jobs == [kind : {"none", "more", "reread"}, walk : Seq(Nat), got : SUBSET Nat]

\* The loader's pages and jobs, within their bounds.
Loading ==
  /\ list \in Lists /\ drains \in [0..MaxKeys -> Jobs]
  /\ \A g \in 0..MaxKeys :
       /\ drains[g].kind = "none" => drains[g] = NoJob
       /\ Len(drains[g].walk) <= MaxPages
  /\ drains[generation].kind = "more" => Len(list.pages) < MaxPages

\* A change the loader need not have heard of yet.
Coming(v) == v \in unannounced \cup missed \/ ~Listening \/ OnItsWay

\* What the run of these variables has read so far is as current as a page; and
\* no reread is behind, whatever became of the one before it.
ReadsCurrent ==
  \A p \in Range(drains[generation].walk) \cup drains[generation].got, v \in 1..stored :
    p < v => \/ Coming(v) \/ list.wantReread
             \/ drains[generation].kind = "more" /\ stuck

IInv ==
  /\ TypeOK /\ Watched /\ OpenWhileKnown
  /\ Loading /\ JobsServed /\ PagesOfTheseVariables
  /\ NothingForgotten /\ ReadsCurrent

---------------------------------------------------------------------------
(* Pages and jobs.                                                         *)

\* The elements of a sequence, by place.
LEMMA Elements ==
  ASSUME NEW S, NEW s \in Seq(S)
  PROVE  Len(s) \in Nat /\ DOMAIN s = 1..Len(s) /\ Range(s) \subseteq S
         /\ Range(s) = {s[i] : i \in 1..Len(s)}
<1>1. Len(s) \in Nat /\ DOMAIN s = 1..Len(s) /\ \A i \in 1..Len(s) : s[i] \in S
  BY LenProperties, ElementOfSeq
<1> QED
  BY <1>1 DEF Range

\* Appending adds one place and one element.
LEMMA OneMore ==
  ASSUME NEW S, NEW s \in Seq(S), NEW x \in S
  PROVE  /\ Append(s, x) \in Seq(S) /\ Len(Append(s, x)) = Len(s) + 1
         /\ Range(Append(s, x)) = Range(s) \cup {x}
<1>1. /\ Append(s, x) \in Seq(S) /\ Len(Append(s, x)) = Len(s) + 1
      /\ \A i \in 1..Len(s) : Append(s, x)[i] = s[i]
      /\ Append(s, x)[Len(s) + 1] = x
  BY AppendProperties
<1>2. Len(s) \in Nat /\ Range(s) = {s[i] : i \in 1..Len(s)}
      /\ Range(Append(s, x)) = {Append(s, x)[i] : i \in 1..Len(Append(s, x))}
  BY <1>1, Elements
<1>3. 1..(Len(s) + 1) = 1..Len(s) \cup {Len(s) + 1}
  BY <1>2
<1> QED
  BY <1>1, <1>2, <1>3

\* The empty list, and that nothing else is without length.
LEMMA NoPages ==
  /\ <<>> \in Seq(Pages) /\ <<>> \in Seq(Nat) /\ Len(<<>>) = 0 /\ Range(<<>>) = {}
  /\ \A s \in Seq(Pages) : Len(s) = 0 <=> s = <<>>
<1>1. <<>> \in Seq(Pages) /\ <<>> \in Seq(Nat) /\ Len(<<>>) = 0
  BY EmptySeq
<1>2. Range(<<>>) = {}
  BY DEF Range
<1>3. \A s \in Seq(Pages) : Len(s) = 0 <=> s = <<>>
  BY EmptySeq
<1> QED
  BY <1>1, <1>2, <1>3

\* A page kept is one the walk read, under the key it was read for.
LEMMA KeptPages ==
  ASSUME NEW walk \in Seq(Nat), Len(walk) # 0, NEW key \in Nat
  PROVE  /\ Kept(walk, key) \in Seq(Pages) /\ Len(Kept(walk, key)) = Len(walk) - 1
         /\ \A p \in Range(Kept(walk, key)) : p.key = key /\ p.version \in Range(walk)
<1>1. /\ Len(walk) \in Nat \ {0} /\ \A i \in 1..Len(walk) : walk[i] \in Nat /\ walk[i] \in Range(walk)
  BY Elements
<1> DEFINE n == Len(walk) - 1
           kept == [i \in 1..n |-> Page(walk[i + 1], key)]
<1>2. n \in Nat /\ \A i \in 1..n : i + 1 \in 1..Len(walk)
  BY <1>1
<1>3. \A i \in 1..n : /\ Page(walk[i + 1], key) \in Pages /\ Page(walk[i + 1], key).key = key
                      /\ Page(walk[i + 1], key).version \in Range(walk)
  BY <1>1, <1>2 DEF Page, Pages
<1>4. kept \in [1..n -> Pages]
  BY <1>3
<1> HIDE DEF n
<1>5. kept \in Seq(Pages) /\ Len(kept) = n
  BY <1>2, <1>4, SeqDef, LenProperties
<1>6. \A p \in Range(kept) : p.key = key /\ p.version \in Range(walk)
  BY <1>3 DEF Range
<1> QED
  BY <1>5, <1>6 DEF Kept, n

\* The loader's jobs, and an empty list.
LEMMA JobKinds ==
  /\ NoJob \in Jobs /\ NoJob.kind = "none" /\ NoJob.got = {} /\ NoJob.walk = <<>>
  /\ \A k \in {"more", "reread"} :
       Job(k) \in Jobs /\ Job(k).kind = k /\ Job(k).got = {} /\ Job(k).walk = <<>> /\ Job(k) # NoJob
  /\ Empty \in Lists /\ Empty.pages = <<>> /\ ~Empty.fetching /\ ~Empty.running
  /\ ~Empty.wantMore /\ ~Empty.wantReread
BY NoPages DEF NoJob, Job, Jobs, Empty, Lists

---------------------------------------------------------------------------
(* A run, from its begin or from the end of a job to the next one.         *)

\* The next job, if there is one, and what the loader shows of it.
LEMMA NextJob ==
  ASSUME generation \in 0..MaxKeys, drains \in [0..MaxKeys -> Jobs],
         NEW l \in Lists, ~l.fetching, Len(l.pages) <= MaxPages, NEW held \in BOOLEAN, Run(l, held)
  PROVE  /\ list' \in Lists /\ drains' \in [0..MaxKeys -> Jobs]
         /\ list'.pages = l.pages
         /\ \A g \in 0..MaxKeys : g # generation => drains'[g] = drains[g]
         /\ drains'[generation] \in {NoJob, Job("more"), Job("reread")}
         /\ list'.running <=> drains'[generation] # NoJob
         /\ list'.fetching <=> drains'[generation] = Job("more")
         /\ drains'[generation] = Job("more") => Len(list'.pages) < MaxPages
         /\ (list'.wantReread \/ list'.wantMore) => list'.running \/ (held /\ list'.wantReread)
         /\ l.wantReread => list'.wantReread \/ drains'[generation] = Job("reread") \/ l.pages = <<>>
<1> DEFINE m == [l EXCEPT !.running = TRUE]
           reread == [m EXCEPT !.wantReread = FALSE]
           more == [reread EXCEPT !.wantMore = FALSE]
           fetch == [more EXCEPT !.fetching = TRUE]
<1>1. /\ m \in Lists /\ reread \in Lists /\ more \in Lists /\ fetch \in Lists
      /\ Idle(m) \in Lists /\ Idle(more) \in Lists
  BY DEF Lists, Idle
<1>2. /\ Idle(m).pages = l.pages /\ ~Idle(m).running /\ ~Idle(m).fetching
      /\ Idle(m).wantReread = l.wantReread
      /\ reread.pages = l.pages /\ reread.running /\ ~reread.fetching /\ ~reread.wantReread
      /\ Idle(more).pages = l.pages /\ ~Idle(more).running /\ ~Idle(more).fetching
      /\ ~Idle(more).wantReread /\ ~Idle(more).wantMore
      /\ fetch.pages = l.pages /\ fetch.running /\ fetch.fetching
      /\ ~fetch.wantReread /\ ~fetch.wantMore
      /\ m.wantReread = l.wantReread /\ m.pages = l.pages
  BY DEF Lists, Idle
<1>3. PICK o \in Outcomes(m, held) : list' = o[1] /\ drains' = [drains EXCEPT ![generation] = o[2]]
  BY DEF Run
<1>4. \/ o = <<Idle(m), NoJob>> /\ m.wantReread /\ held
      \/ o = <<reread, Job("reread")>>
      \/ o = <<Idle(more), NoJob>> /\ ~(m.wantReread /\ m.pages # <<>>)
      \/ o = <<fetch, Job("more")>> /\ Len(m.pages) < MaxPages /\ ~(m.wantReread /\ m.pages # <<>>)
  <2> HIDE DEF m
  <2>1. CASE m.wantReread /\ held
    BY <2>1 DEF Outcomes
  <2>2. CASE ~(m.wantReread /\ held) /\ (m.wantReread /\ m.pages # <<>>)
    BY <2>2 DEF Outcomes
  <2>3. CASE ~(m.wantReread /\ held) /\ ~(m.wantReread /\ m.pages # <<>>)
    BY <2>3 DEF Outcomes
  <2> QED
    BY <2>1, <2>2, <2>3
<1> HIDE DEF m, reread, more, fetch
<1>5. NoJob # Job("more") /\ NoJob # Job("reread") /\ Job("more") # Job("reread")
      /\ NoJob \in Jobs /\ Job("more") \in Jobs /\ Job("reread") \in Jobs
  BY JobKinds
<1>6. o[2] \in Jobs /\ o[1] \in Lists
  BY <1>1, <1>4, <1>5
<1>7. drains' \in [0..MaxKeys -> Jobs] /\ drains'[generation] = o[2]
      /\ \A g \in 0..MaxKeys : g # generation => drains'[g] = drains[g]
  BY <1>3, <1>6
<1>8. CASE o = <<Idle(m), NoJob>> /\ m.wantReread /\ held
  BY <1>2, <1>3, <1>5, <1>6, <1>7, <1>8
<1>9. CASE o = <<reread, Job("reread")>>
  BY <1>2, <1>3, <1>5, <1>6, <1>7, <1>9
<1>10. CASE o = <<Idle(more), NoJob>> /\ ~(m.wantReread /\ m.pages # <<>>)
  BY <1>2, <1>3, <1>5, <1>6, <1>7, <1>10
<1>11. CASE o = <<fetch, Job("more")>> /\ Len(m.pages) < MaxPages /\ ~(m.wantReread /\ m.pages # <<>>)
  BY <1>2, <1>3, <1>5, <1>6, <1>7, <1>11
<1> QED
  BY <1>4, <1>8, <1>9, <1>10, <1>11

LoaderTypes ==
  /\ paused \in BOOLEAN /\ stuck \in BOOLEAN /\ generation \in 0..MaxKeys
  /\ Len(list.pages) <= MaxPages
  /\ \A g \in generation + 1..MaxKeys : drains[g] = NoJob

Loader == LoaderTypes /\ Loading /\ JobsServed /\ PagesOfTheseVariables

\* What the loader is at once a run began or went on with another job.
LEMMA Ran ==
  ASSUME Loader, generation' = generation, paused' \in BOOLEAN, stuck' \in BOOLEAN,
         NEW l \in Lists, ~l.fetching, Len(l.pages) <= MaxPages,
         \A p \in Range(l.pages) : p.key = generation, Run(l, paused')
  PROVE  /\ Loader' /\ list'.pages = l.pages
         /\ drains'[generation].walk = <<>> /\ drains'[generation].got = {}
         /\ l.wantReread => list'.wantReread \/ drains'[generation].kind = "reread" \/ l.pages = <<>>
<1>0. /\ generation \in 0..MaxKeys /\ drains \in [0..MaxKeys -> Jobs]
      /\ generation + 1..MaxKeys \subseteq 0..MaxKeys /\ generation \notin generation + 1..MaxKeys
      /\ MaxPages \in Nat
  BY BoundsAssumption DEF Loader, LoaderTypes, Loading
<1>1. /\ list' \in Lists /\ drains' \in [0..MaxKeys -> Jobs]
      /\ list'.pages = l.pages
      /\ \A g \in 0..MaxKeys : g # generation => drains'[g] = drains[g]
      /\ drains'[generation] \in {NoJob, Job("more"), Job("reread")}
      /\ list'.running <=> drains'[generation] # NoJob
      /\ list'.fetching <=> drains'[generation] = Job("more")
      /\ drains'[generation] = Job("more") => Len(list'.pages) < MaxPages
      /\ (list'.wantReread \/ list'.wantMore) => list'.running \/ (paused' /\ list'.wantReread)
      /\ l.wantReread => list'.wantReread \/ drains'[generation] = Job("reread") \/ l.pages = <<>>
  BY <1>0, NextJob
<1>2. /\ drains'[generation].walk = <<>> /\ drains'[generation].got = {}
      /\ drains'[generation].kind = "more" <=> drains'[generation] = Job("more")
      /\ drains'[generation].kind = "none" => drains'[generation] = NoJob
      /\ drains'[generation] = Job("reread") => drains'[generation].kind = "reread"
  BY <1>1, JobKinds
<1>3. LoaderTypes'
  BY <1>0, <1>1 DEF Loader, LoaderTypes
<1>4. Loading'
  <2>1. \A g \in 0..MaxKeys :
          /\ drains'[g].kind = "none" => drains'[g] = NoJob
          /\ Len(drains'[g].walk) <= MaxPages
    BY <1>0, <1>1, <1>2, NoPages DEF Loader, Loading
  <2> QED
    BY <1>1, <1>2, <2>1 DEF Loading
<1>5. JobsServed'
  <2>1. list'.running \in BOOLEAN /\ list'.fetching \in BOOLEAN
    BY <1>1 DEF Lists
  <2> QED
    BY <1>1, <1>2, <2>1 DEF JobsServed
<1>6. PagesOfTheseVariables'
  BY <1>1 DEF PagesOfTheseVariables
<1> QED
  BY <1>1, <1>2, <1>3, <1>4, <1>5, <1>6 DEF Loader

\* What the loader is at once something was asked of it.
LEMMA Drained ==
  ASSUME Loader, generation' = generation, paused' \in BOOLEAN, stuck' = stuck,
         NEW l \in Lists, l.pages = list.pages, l.running = list.running, l.fetching = list.fetching,
         Drain(l, paused')
  PROVE  /\ Loader' /\ list'.pages = list.pages
         /\ \/ list' = l /\ drains' = drains
            \/ /\ drains[generation] = NoJob
               /\ drains'[generation].walk = <<>> /\ drains'[generation].got = {}
         /\ l.wantReread => list'.wantReread \/ drains'[generation].kind = "reread" \/ list.pages = <<>>
<1>0. /\ list \in Lists /\ generation \in 0..MaxKeys /\ Len(list.pages) <= MaxPages
      /\ stuck \in BOOLEAN
  BY DEF Loader, LoaderTypes, Loading
<1>1. CASE l.running
  <2>1. list' = l /\ drains' = drains
    BY <1>1 DEF Drain
  <2>2. LoaderTypes' /\ Loading' /\ PagesOfTheseVariables'
    BY <1>0, <2>1 DEF Loader, LoaderTypes, Loading, PagesOfTheseVariables
  <2>3. JobsServed'
    BY <1>1, <2>1 DEF Loader, JobsServed
  <2> QED
    BY <2>1, <2>2, <2>3 DEF Loader
<1>2. CASE ~l.running
  <2>1. Run(l, paused') /\ drains[generation] = NoJob
    BY <1>2 DEF Drain, Loader, JobsServed
  <2>2. ~l.fetching /\ \A p \in Range(l.pages) : p.key = generation
    BY <2>1, JobKinds DEF Loader, JobsServed, PagesOfTheseVariables
  <2> QED
    BY <1>0, <2>1, <2>2, Ran
<1> QED
  BY <1>1, <1>2

\* The doorbell has the list read again, whatever it was at.
LEMMA Rung ==
  ASSUME Loader, Ring
  PROVE  /\ Loader'
         /\ list'.wantReread \/ drains'[generation].kind = "reread" \/ list'.pages = <<>>
         /\ generation' = generation /\ stuck' = stuck
         /\ \/ list'.wantReread /\ drains' = drains
            \/ drains'[generation].walk = <<>> /\ drains'[generation].got = {}
<1>0. /\ list \in Lists /\ paused \in BOOLEAN /\ paused' = paused /\ generation' = generation
      /\ stuck' = stuck
  BY DEF Loader, LoaderTypes, Loading, Ring
<1>1. /\ Remembered \in Lists /\ Remembered.wantReread /\ Remembered.pages = list.pages
      /\ Remembered.running = list.running /\ Remembered.fetching = list.fetching
  BY <1>0 DEF Lists, Remembered
<1>2. CASE paused
  <2>1. list' = Remembered /\ drains' = drains
    BY <1>2 DEF Ring
  <2>2. LoaderTypes' /\ Loading' /\ PagesOfTheseVariables'
    BY <1>0, <1>1, <2>1 DEF Loader, LoaderTypes, Loading, PagesOfTheseVariables
  <2>3. JobsServed'
    BY <1>0, <1>1, <1>2, <2>1 DEF Loader, JobsServed
  <2> QED
    BY <1>0, <1>1, <2>1, <2>2, <2>3 DEF Loader
<1>3. CASE ~paused
  <2>1. Drain(Remembered, FALSE) /\ paused' = FALSE
    BY <1>0, <1>3 DEF Ring
  <2>2. /\ Loader' /\ list'.pages = list.pages
        /\ \/ list' = Remembered /\ drains' = drains
           \/ drains'[generation].walk = <<>> /\ drains'[generation].got = {}
        /\ list'.wantReread \/ drains'[generation].kind = "reread" \/ list.pages = <<>>
    BY <1>0, <1>1, <2>1, Drained
  <2> QED
    BY <1>0, <1>1, <2>2
<1> QED
  BY <1>2, <1>3

---------------------------------------------------------------------------
(* Steps of the loader.                                                    *)

Signals == UNCHANGED <<svars, screen>>

\* What is stored and what is on its way to the screen stay with the streams.
LEMMA SignalsStay == Signals => stored' = stored /\ \A v : Coming(v)' <=> Coming(v)
BY DEF Signals, svars, hub, screen, Coming, Listening, OnItsWay

\* A run goes on with pages that nothing forgot.
LEMMA RunForgetsNothing ==
  ASSUME Loader, Signals, generation' = generation, paused' \in BOOLEAN, stuck' \in BOOLEAN,
         NEW l \in Lists, ~l.fetching, Len(l.pages) <= MaxPages,
         \A p \in Range(l.pages) : p.key = generation, Run(l, paused'),
         \A p \in Range(l.pages), v \in 1..stored :
           p.version < v => Coming(v) \/ l.wantReread \/ stuck'
  PROVE  Loader' /\ NothingForgotten' /\ ReadsCurrent'
<1>1. /\ Loader' /\ list'.pages = l.pages
      /\ drains'[generation].walk = <<>> /\ drains'[generation].got = {}
      /\ l.wantReread => list'.wantReread \/ drains'[generation].kind = "reread" \/ l.pages = <<>>
  BY Ran
<1>2. stored' = stored /\ \A v : Coming(v)' <=> Coming(v)
  BY SignalsStay
<1>3. ReadsCurrent'
  BY <1>1, NoPages DEF ReadsCurrent
<1>4. ASSUME NEW p \in Range(l.pages), NEW v \in 1..stored, p.version < v
      PROVE  Coming(v)' \/ list'.wantReread \/ drains'[generation].kind = "reread" \/ stuck'
  <2>1. l.pages # <<>>
    BY <1>4, NoPages
  <2> QED
    BY <1>1, <1>2, <1>4, <2>1
<1>5. NothingForgotten'
  BY <1>1, <1>2, <1>4 DEF NothingForgotten, Coming
<1> QED
  BY <1>1, <1>3, <1>5

\* The run of older variables ends and leaves the list alone.
LEMMA OlderRunEnds ==
  ASSUME Loader, NothingForgotten, ReadsCurrent, Signals, NEW g \in 0..MaxKeys, g # generation,
         UNCHANGED <<paused, generation, list, stuck>>, drains' = [drains EXCEPT ![g] = NoJob]
  PROVE  Loader' /\ NothingForgotten' /\ ReadsCurrent'
<1>0. /\ generation \in 0..MaxKeys /\ drains \in [0..MaxKeys -> Jobs]
      /\ generation + 1..MaxKeys \subseteq 0..MaxKeys
  BY DEF Loader, LoaderTypes, Loading
<1>1. /\ drains'[generation] = drains[generation] /\ drains' \in [0..MaxKeys -> Jobs]
      /\ \A h \in 0..MaxKeys : drains'[h] = drains[h] \/ drains'[h] = NoJob
  BY <1>0, JobKinds
<1>2. \A h \in generation + 1..MaxKeys : drains'[h] = NoJob
  BY <1>0, <1>1 DEF Loader, LoaderTypes
<1>3. \A h \in 0..MaxKeys : (drains'[h].kind = "none" => drains'[h] = NoJob) /\ Len(drains'[h].walk) <= MaxPages
  BY <1>1, JobKinds, NoPages, BoundsAssumption DEF Loader, Loading
<1>4. Loader'
  BY <1>1, <1>2, <1>3 DEF Loader, LoaderTypes, Loading, JobsServed, PagesOfTheseVariables
<1>5. stored' = stored /\ \A v : Coming(v)' <=> Coming(v)
  BY SignalsStay
<1>6. NothingForgotten' /\ ReadsCurrent'
  BY <1>1, <1>5 DEF NothingForgotten, ReadsCurrent, Coming
<1> QED
  BY <1>4, <1>6

\* A job goes on: its kind stays, and what it has read is no older.
LEMMA JobGoesOn ==
  ASSUME Loader, NothingForgotten, ReadsCurrent, Signals, stored \in Nat,
         NEW g \in 0..MaxKeys, drains[g] # NoJob,
         NEW job \in Jobs, job.kind = drains[g].kind, Len(job.walk) <= MaxPages,
         Range(job.walk) \cup job.got \subseteq Range(drains[g].walk) \cup drains[g].got \cup {stored},
         UNCHANGED <<paused, generation, list, stuck>>, drains' = [drains EXCEPT ![g] = job]
  PROVE  Loader' /\ NothingForgotten' /\ ReadsCurrent'
<1>0. /\ generation \in 0..MaxKeys /\ drains \in [0..MaxKeys -> Jobs]
      /\ generation + 1..MaxKeys \subseteq 0..MaxKeys /\ g \notin generation + 1..MaxKeys
  BY DEF Loader, LoaderTypes, Loading
<1>1. /\ drains' \in [0..MaxKeys -> Jobs] /\ drains'[g] = job
      /\ \A h \in 0..MaxKeys : drains'[h].kind = drains[h].kind /\ (h # g => drains'[h] = drains[h])
  BY <1>0
<1>2. drains[g].kind # "none"
  BY <1>0 DEF Loader, Loading
<1>3. \A h \in 0..MaxKeys : drains'[h] = NoJob <=> drains[h] = NoJob
  BY <1>1, <1>2, JobKinds
<1>4. \A h \in generation + 1..MaxKeys : drains'[h] = NoJob
  BY <1>0, <1>1 DEF Loader, LoaderTypes
<1>5. \A h \in 0..MaxKeys : (drains'[h].kind = "none" => drains'[h] = NoJob) /\ Len(drains'[h].walk) <= MaxPages
  BY <1>1, <1>2 DEF Loader, Loading
<1>6. Loader'
  <2>1. LoaderTypes' /\ PagesOfTheseVariables'
    BY <1>4 DEF Loader, LoaderTypes, PagesOfTheseVariables
  <2>2. Loading'
    BY <1>0, <1>1, <1>5 DEF Loader, Loading
  <2>3. JobsServed'
    BY <1>0, <1>1, <1>3 DEF Loader, JobsServed
  <2> QED
    BY <2>1, <2>2, <2>3 DEF Loader
<1>7. stored' = stored /\ \A v : Coming(v)' <=> Coming(v)
  BY SignalsStay
<1>8. NothingForgotten'
  BY <1>0, <1>1, <1>7 DEF NothingForgotten, Coming
<1>9. ReadsCurrent'
  <2>1. \A n \in Range(drains'[generation].walk) \cup drains'[generation].got :
          n \in Range(drains[generation].walk) \cup drains[generation].got \/ n = stored
    BY <1>0, <1>1
  <2>2. \A v \in 1..stored : ~(stored < v)
    OBVIOUS
  <2> QED
    BY <1>0, <1>1, <1>7, <2>1, <2>2 DEF ReadsCurrent
<1> QED
  BY <1>6, <1>8, <1>9

\* Whatever a read brings, a change it missed still rings, or is a job, or is read again.
LEMMA LoaderStepsForgetNothing ==
  ASSUME Loader, NothingForgotten, ReadsCurrent, stored \in Nat,
         NEW g \in 0..MaxKeys, LoaderStep(g)
  PROVE  Loader' /\ NothingForgotten' /\ ReadsCurrent'
<1>0. /\ generation \in 0..MaxKeys /\ drains \in [0..MaxKeys -> Jobs] /\ list \in Lists
      /\ Len(list.pages) <= MaxPages /\ paused \in BOOLEAN /\ stuck \in BOOLEAN /\ MaxPages \in Nat
      /\ \A p \in Range(list.pages) : p.key = generation
  BY BoundsAssumption DEF Loader, LoaderTypes, Loading, PagesOfTheseVariables
<1>1. /\ drains[g] \in Jobs /\ drains[g].walk \in Seq(Nat) /\ drains[g].got \subseteq Nat
      /\ Len(drains[g].walk) \in Nat /\ Len(drains[g].walk) <= MaxPages
      /\ drains[g].kind \in {"none", "more", "reread"}
      /\ drains[g].kind # "none" => drains[g] # NoJob
      /\ drains[g].got # {} => drains[g] # NoJob
      /\ list.pages \in Seq(Pages) /\ Len(list.pages) \in Nat
  BY <1>0, JobKinds, Elements DEF Loader, Loading, Jobs, Lists
<1>2. CASE Answer(g)
  <2> DEFINE job == [drains[g] EXCEPT !.got = {stored}]
  <2>1. /\ job \in Jobs /\ job.kind = drains[g].kind /\ job.walk = drains[g].walk /\ job.got = {stored}
    BY <1>1 DEF Jobs
  <2>2. /\ drains[g] # NoJob /\ drains' = [drains EXCEPT ![g] = job]
        /\ Signals /\ UNCHANGED <<paused, generation, list, stuck>>
    BY <1>0, <1>2 DEF Answer, Signals
  <2> HIDE DEF job
  <2> QED
    BY <1>1, <2>1, <2>2, JobGoesOn
<1>3. CASE WalkGoesOn(g)
  <2>1. PICK n \in drains[g].got : drains' = [drains EXCEPT ![g].walk = Append(@, n), ![g].got = {}]
    BY <1>3 DEF WalkGoesOn
  <2> DEFINE job == [drains[g] EXCEPT !.walk = Append(drains[g].walk, n), !.got = {}]
  <2>2. /\ Append(drains[g].walk, n) \in Seq(Nat) /\ Len(Append(drains[g].walk, n)) = Len(drains[g].walk) + 1
        /\ Range(Append(drains[g].walk, n)) = Range(drains[g].walk) \cup {n}
    BY <1>1, OneMore
  <2>3. /\ job \in Jobs /\ job.kind = drains[g].kind /\ job.walk = Append(drains[g].walk, n) /\ job.got = {}
    BY <1>1, <2>2 DEF Jobs
  <2>4. /\ drains' = [drains EXCEPT ![g] = job] /\ drains[g].kind = "reread"
        /\ Len(drains[g].walk) < MaxPages
        /\ Signals /\ UNCHANGED <<paused, generation, list, stuck>>
    BY <1>0, <1>3, <2>1 DEF WalkGoesOn, Signals
  <2> HIDE DEF job
  <2>5. Len(job.walk) <= MaxPages /\ drains[g] # NoJob
    BY <1>0, <1>1, <2>2, <2>3, <2>4
  <2>6. Range(job.walk) \cup job.got \subseteq Range(drains[g].walk) \cup drains[g].got \cup {stored}
    BY <2>1, <2>2, <2>3
  <2>7. job \in Jobs /\ job.kind = drains[g].kind
    BY <2>3
  <2> QED
    BY <2>4, <2>5, <2>6, <2>7, JobGoesOn
<1>4. CASE (MoreArrives(g) \/ WalkEnds(g) \/ ReadFails(g)) /\ g # generation
  <2>1. /\ drains' = [drains EXCEPT ![g] = NoJob] /\ UNCHANGED <<paused, generation, list, stuck>>
        /\ Signals
    BY <1>0, <1>4 DEF MoreArrives, WalkEnds, ReadFails, Finish, OfThisRun, Signals
  <2> QED
    BY <1>4, <2>1, OlderRunEnds
<1>5. CASE MoreArrives(g) /\ g = generation
  <2>1. PICK n \in drains[g].got :
          Run([list EXCEPT !.fetching = FALSE, !.pages = Append(@, Page(n, g))], paused)
    BY <1>5 DEF MoreArrives, Finish, OfThisRun
  <2> DEFINE l == [list EXCEPT !.fetching = FALSE, !.pages = Append(list.pages, Page(n, g))]
  <2>2. Page(n, g) \in Pages /\ Page(n, g).version = n /\ Page(n, g).key = g
    BY <1>0, <1>1 DEF Page, Pages
  <2>3. /\ Append(list.pages, Page(n, g)) \in Seq(Pages)
        /\ Len(Append(list.pages, Page(n, g))) = Len(list.pages) + 1
        /\ Range(Append(list.pages, Page(n, g))) = Range(list.pages) \cup {Page(n, g)}
    BY <1>1, <2>2, OneMore
  <2>4. /\ l \in Lists /\ ~l.fetching /\ l.wantReread = list.wantReread
        /\ l.pages = Append(list.pages, Page(n, g)) /\ Run(l, paused)
    BY <1>0, <2>1, <2>3 DEF Lists
  <2>5. /\ drains[generation].kind = "more" /\ Signals /\ UNCHANGED <<paused, generation, stuck>>
    BY <1>5 DEF MoreArrives, Signals
  <2> HIDE DEF l
  <2>6. Len(list.pages) < MaxPages
    BY <2>5 DEF Loader, Loading
  <2>7. Len(l.pages) <= MaxPages /\ \A p \in Range(l.pages) : p.key = generation
    BY <1>0, <1>1, <1>5, <2>2, <2>3, <2>4, <2>6
  <2>8. \A p \in Range(list.pages), v \in 1..stored :
          p.version < v => Coming(v) \/ list.wantReread \/ stuck
    BY <2>5 DEF NothingForgotten, Coming
  <2>9. \A v \in 1..stored : n < v => Coming(v) \/ list.wantReread \/ stuck
    BY <1>5, <2>1 DEF ReadsCurrent
  <2>10. \A p \in Range(l.pages), v \in 1..stored :
           p.version < v => Coming(v) \/ l.wantReread \/ stuck'
    BY <2>2, <2>3, <2>4, <2>5, <2>8, <2>9
  <2> QED
    BY <1>0, <2>4, <2>5, <2>7, <2>10, RunForgetsNothing
<1>6. CASE WalkEnds(g) /\ g = generation
  <2>1. PICK n \in drains[g].got :
          Run([list EXCEPT !.pages = Kept(Append(drains[g].walk, n), g)], paused)
    BY <1>6 DEF WalkEnds, Finish, OfThisRun
  <2> DEFINE walk == Append(drains[g].walk, n)
             l == [list EXCEPT !.pages = Kept(walk, g)]
  <2>2. /\ walk \in Seq(Nat) /\ Len(walk) = Len(drains[g].walk) + 1
        /\ Range(walk) = Range(drains[g].walk) \cup {n}
    BY <1>1, OneMore
  <2>3. Len(walk) # 0
    BY <1>1, <2>2
  <2>4. /\ Kept(walk, g) \in Seq(Pages) /\ Len(Kept(walk, g)) = Len(walk) - 1
        /\ \A p \in Range(Kept(walk, g)) : p.key = g /\ p.version \in Range(walk)
    <3>1. g \in Nat
      BY BoundsAssumption
    <3> HIDE DEF walk
    <3> QED
      BY <2>2, <2>3, <3>1, KeptPages
  <2>5. /\ l \in Lists /\ l.fetching = list.fetching /\ l.wantReread = list.wantReread
        /\ l.pages = Kept(walk, g) /\ Run(l, paused)
    BY <1>0, <2>1, <2>4 DEF Lists
  <2>6. /\ drains[generation].kind = "reread" /\ Signals /\ UNCHANGED <<paused, generation>> /\ stuck' = FALSE
    BY <1>6 DEF WalkEnds, Signals
  <2>7. ~l.fetching
    BY <2>5, <2>6 DEF Loader, JobsServed
  <2> HIDE DEF l, walk
  <2>8. Len(l.pages) <= MaxPages /\ \A p \in Range(l.pages) : p.key = generation
    BY <1>0, <1>1, <1>6, <2>2, <2>4, <2>5
  <2>9. \A k \in Range(walk), v \in 1..stored : k < v => Coming(v) \/ list.wantReread
    BY <1>6, <2>1, <2>2, <2>6 DEF ReadsCurrent
  <2>10. \A p \in Range(l.pages), v \in 1..stored :
           p.version < v => Coming(v) \/ l.wantReread \/ stuck'
    BY <2>4, <2>5, <2>9
  <2> QED
    BY <1>0, <2>5, <2>6, <2>7, <2>8, <2>10, RunForgetsNothing
<1>7. CASE ReadFails(g) /\ g = generation
  <2> DEFINE l == [list EXCEPT !.fetching = FALSE]
  <2>1. /\ Run(l, paused) /\ Signals /\ UNCHANGED <<paused, generation>> /\ drains[g].got # {}
        /\ stuck' = (stuck \/ drains[g].kind = "reread")
    BY <1>7 DEF ReadFails, Finish, OfThisRun, Signals
  <2>2. stuck' \in BOOLEAN /\ (stuck => stuck') /\ (drains[g].kind = "reread" => stuck')
    BY <2>1
  <2>3. l \in Lists /\ ~l.fetching /\ l.pages = list.pages /\ l.wantReread = list.wantReread
    BY <1>0 DEF Lists
  <2> HIDE DEF l
  <2>4. \A p \in Range(l.pages), v \in 1..stored :
          p.version < v => Coming(v) \/ l.wantReread \/ stuck'
    BY <1>7, <2>2, <2>3 DEF NothingForgotten, Coming
  <2>5. paused' = paused /\ generation' = generation
    BY <2>1
  <2> QED
    BY <1>0, <2>1, <2>2, <2>3, <2>4, <2>5, RunForgetsNothing
<1> QED
  BY <1>2, <1>3, <1>4, <1>5, <1>6, <1>7 DEF LoaderStep

\* Requests of the screen add jobs; new variables empty the list.
LEMMA RequestsForgetNothing ==
  ASSUME Loader, NothingForgotten, ReadsCurrent, FetchNextPage \/ Pause \/ Resume \/ Reset
  PROVE  Loader' /\ NothingForgotten' /\ ReadsCurrent' /\ Signals
<1>0. /\ generation \in 0..MaxKeys /\ list \in Lists /\ paused \in BOOLEAN /\ stuck \in BOOLEAN
  BY DEF Loader, LoaderTypes, Loading
<1>1. Signals
  BY DEF FetchNextPage, Pause, Resume, Reset, Signals
<1>2. stored' = stored /\ \A v : Coming(v)' <=> Coming(v)
  BY <1>1, SignalsStay
\* Something is asked of the loader that leaves its pages and its reread as they are.
<1>3. ASSUME generation' = generation, paused' \in BOOLEAN, stuck' = stuck, NEW l \in Lists,
             l.pages = list.pages, l.running = list.running, l.fetching = list.fetching,
             l.wantReread = list.wantReread, Drain(l, paused')
      PROVE  Loader' /\ NothingForgotten' /\ ReadsCurrent'
  <2>1. /\ Loader' /\ list'.pages = list.pages
        /\ \/ list' = l /\ drains' = drains
           \/ /\ drains[generation] = NoJob
              /\ drains'[generation].walk = <<>> /\ drains'[generation].got = {}
        /\ l.wantReread => list'.wantReread \/ drains'[generation].kind = "reread" \/ list.pages = <<>>
    BY <1>3, Drained
  <2>2. CASE list' = l /\ drains' = drains
    BY <1>2, <1>3, <2>1, <2>2 DEF NothingForgotten, ReadsCurrent, Coming
  <2>3. CASE /\ drains[generation] = NoJob
             /\ drains'[generation].walk = <<>> /\ drains'[generation].got = {}
    <3>1. ReadsCurrent'
      BY <1>3, <2>3, NoPages DEF ReadsCurrent
    <3>2. ASSUME NEW p \in Range(list.pages), NEW v \in 1..stored, p.version < v
          PROVE  Coming(v)' \/ list'.wantReread \/ drains'[generation].kind = "reread" \/ stuck'
      <4>1. Coming(v) \/ list.wantReread \/ stuck
        BY <2>3, <3>2, JobKinds DEF NothingForgotten, Coming
      <4>2. list.pages # <<>>
        BY <3>2, NoPages
      <4> QED
        BY <1>2, <1>3, <2>1, <4>1, <4>2
    <3>3. NothingForgotten'
      BY <1>2, <1>3, <2>1, <3>2 DEF NothingForgotten, Coming
    <3> QED
      BY <2>1, <3>1, <3>3
  <2> QED
    BY <2>1, <2>2, <2>3
<1>4. CASE FetchNextPage
  <2> DEFINE l == [list EXCEPT !.wantMore = TRUE]
  <2>1. /\ l \in Lists /\ l.pages = list.pages /\ l.running = list.running
        /\ l.fetching = list.fetching /\ l.wantReread = list.wantReread
    BY <1>0 DEF Lists
  <2>2. Drain(l, paused) /\ paused' = paused /\ generation' = generation /\ stuck' = stuck
    BY <1>4 DEF FetchNextPage
  <2> HIDE DEF l
  <2> QED
    BY <1>0, <1>1, <1>3, <2>1, <2>2
<1>5. CASE UNCHANGED <<generation, list, drains, stuck>> /\ paused' \in BOOLEAN
           /\ ((list.wantReread \/ list.wantMore) => list.running \/ (paused' /\ list.wantReread))
  <2>1. Loader'
    BY <1>0, <1>5 DEF Loader, LoaderTypes, Loading, JobsServed, PagesOfTheseVariables
  <2>2. NothingForgotten' /\ ReadsCurrent'
    BY <1>2, <1>5 DEF NothingForgotten, ReadsCurrent, Coming
  <2> QED
    BY <1>1, <2>1, <2>2
<1>6. CASE Pause
  BY <1>5, <1>6 DEF Pause, Loader, JobsServed
<1>7. CASE Resume
  <2>1. CASE list.wantReread
    <3>1. /\ Drain(list, FALSE) /\ paused' = FALSE /\ generation' = generation /\ stuck' = stuck
      BY <1>7, <2>1 DEF Resume, RereadWaits
    <3> QED
      BY <1>0, <1>1, <1>3, <3>1
  <2>2. CASE ~list.wantReread
    BY <1>5, <1>7, <2>2 DEF Resume, RereadWaits, Loader, JobsServed
  <2> QED
    BY <2>1, <2>2
<1>8. CASE Reset
  <2>1. /\ generation' = generation + 1 /\ generation' \in 0..MaxKeys /\ list' = Empty /\ stuck' = FALSE
        /\ UNCHANGED <<paused, drains>>
    BY <1>0, <1>8, BoundsAssumption DEF Reset
  <2>2. generation' \in generation + 1..MaxKeys /\ generation' + 1..MaxKeys \subseteq generation + 1..MaxKeys
    BY <1>0, <2>1
  <2>3. drains'[generation'] = NoJob
    BY <2>1, <2>2 DEF Loader, LoaderTypes
  <2>4. LoaderTypes'
    <3>1. \A g \in generation' + 1..MaxKeys : drains'[g] = NoJob
      BY <2>1, <2>2 DEF Loader, LoaderTypes
    <3>2. list'.pages = <<>> /\ Len(<<>>) = 0 /\ 0 <= MaxPages
      BY <2>1, JobKinds, NoPages, BoundsAssumption
    <3>3. Len(list'.pages) <= MaxPages
      BY <3>2
    <3> QED
      BY <1>0, <2>1, <3>1, <3>3 DEF LoaderTypes
  <2>5. Loading'
    <3>1. drains'[generation'].kind # "more" /\ list' \in Lists
      BY <2>1, <2>3, JobKinds
    <3> QED
      BY <2>1, <3>1 DEF Loader, Loading
  <2>6. JobsServed' /\ PagesOfTheseVariables'
    <3>1. /\ ~list'.fetching /\ ~list'.running /\ ~list'.wantMore /\ ~list'.wantReread
          /\ drains'[generation'].kind # "more" /\ Range(list'.pages) = {}
          /\ list'.fetching \in BOOLEAN /\ list'.running \in BOOLEAN
      BY <2>1, <2>3, JobKinds, NoPages DEF Lists
    <3> QED
      BY <2>3, <3>1 DEF JobsServed, PagesOfTheseVariables
  <2>7. NothingForgotten' /\ ReadsCurrent'
    BY <2>1, <2>3, JobKinds, NoPages DEF NothingForgotten, ReadsCurrent
  <2> QED
    BY <1>1, <2>4, <2>5, <2>6, <2>7 DEF Loader
<1> QED
  BY <1>4, <1>6, <1>7, <1>8

\* Once the doorbell rang there is a mark on the list.
LEMMA RingForgetsNothing ==
  ASSUME Loader, Ring
  PROVE  Loader' /\ NothingForgotten' /\ ReadsCurrent'
<1>1. /\ Loader'
      /\ list'.wantReread \/ drains'[generation].kind = "reread" \/ list'.pages = <<>>
      /\ generation' = generation /\ stuck' = stuck
      /\ \/ list'.wantReread /\ drains' = drains
         \/ drains'[generation].walk = <<>> /\ drains'[generation].got = {}
  BY Rung
<1>2. NothingForgotten'
  BY <1>1, NoPages DEF NothingForgotten
<1>3. ReadsCurrent'
  BY <1>1, NoPages DEF ReadsCurrent
<1> QED
  BY <1>1, <1>2, <1>3

---------------------------------------------------------------------------
(* Steps of the streams.                                                   *)

StreamTypes ==
  /\ stored \in 0..MaxChanges
  /\ unannounced \subseteq 1..stored /\ missed \subseteq 1..stored
  /\ serving \subseteq Streams /\ Cardinality(serving) <= Slots
  /\ over \subseteq Streams /\ subs \subseteq Streams /\ shut \subseteq Streams
  /\ pump \in [Streams -> {"none", "start", "range", "hand", "done"}]
  /\ watcher \in [Streams -> {"none", "wait", "delisted", "done"}]
  /\ frames \in [Streams -> 0..HubBuffer] /\ names \in [Streams -> 0..NameBuffer]
  /\ link \in serving \cup {0} /\ (heard => link # 0)

\* The types of the streams and of the loader are those of the system.
LEMMA Types == TypeOK <=> StreamTypes /\ LoaderTypes
BY DEF TypeOK, StreamTypes, LoaderTypes

\* The steps of the streams and of those who store changes.
StreamStep ==
  \/ StoreChange /\ Elsewhere
  \/ \E v \in unannounced : Announce(v)
  \/ \E s \in Streams :
       \/ (Resolve(s) \/ Goroutines(s) \/ EndRequest(s)) /\ Elsewhere
       \/ Connect(s) \/ StreamEnds(s)
  \/ Disconnect

\* Streams reach the loader by ringing alone.
LEMMA StreamsLeaveLoader == StreamStep => UNCHANGED loader
BY DEF StreamStep, Elsewhere, Announce, Connect, StreamEnds, Disconnect

\* A stream served takes one slot, one gone frees it.
LEMMA SlotsHold ==
  ASSUME StreamTypes, NEW s \in Streams
  PROVE  /\ Cardinality(serving) < Slots /\ s \notin serving => Cardinality(serving \cup {s}) <= Slots
         /\ Cardinality(serving \ {s}) <= Slots
<1>1. IsFiniteSet(serving) /\ Cardinality(serving) \in Nat /\ Slots \in Nat
  BY StreamsAssumption, LimitsAssumption, FS_Subset, FS_CardinalityType DEF StreamTypes
<1>2. s \notin serving => Cardinality(serving \cup {s}) = Cardinality(serving) + 1
  BY <1>1, FS_AddElement
<1>3. Cardinality(serving \ {s}) <= Cardinality(serving) /\ Cardinality(serving \ {s}) \in Nat
  <2>1. serving \ {s} \subseteq serving
    OBVIOUS
  <2> QED
    BY <1>1, <2>1, FS_Subset, FS_CardinalityType
<1> QED
  BY <1>1, <1>2, <1>3 DEF StreamTypes

\* What the steps of a request do to it alone.
LEMMA RequestTyped ==
  ASSUME StreamTypes, Watched, NEW s \in Streams,
         Resolve(s) \/ Goroutines(s) \/ EndRequest(s), UNCHANGED screen
  PROVE  StreamTypes' /\ Watched'
<1>0. HubBuffer \in Nat \ {0} /\ NameBuffer \in Nat \ {0}
  BY LimitsAssumption
<1>1. CASE Resolve(s)
  BY <1>1 DEF Resolve, StreamTypes, Watched, hub, screen
<1>2. CASE Subscribe(s)
  BY <1>2 DEF Subscribe, StreamTypes, Watched, hub, screen
<1>3. CASE TakeFrame(s)
  <2>1. frames[s] \in 1..HubBuffer /\ frames[s] - 1 \in 0..HubBuffer
    BY <1>0, <1>3 DEF TakeFrame, StreamTypes
  <2> QED
    BY <1>3, <2>1 DEF TakeFrame, StreamTypes, Watched, hub, screen
<1>4. CASE RangeEnds(s) \/ GiveUp(s)
  BY <1>4 DEF RangeEnds, GiveUp, StreamTypes, Watched, hub, screen
<1>5. CASE Forward(s)
  <2>1. names[s] + 1 \in 0..NameBuffer
    BY <1>0, <1>5 DEF Forward, StreamTypes
  <2> QED
    BY <1>5, <2>1 DEF Forward, StreamTypes, Watched, hub, screen
<1>6. CASE StartUnsubscribe(s)
  BY <1>6 DEF StartUnsubscribe, Delist, StreamTypes, Watched, hub, screen
<1>7. CASE EndUnsubscribe(s)
  BY <1>7 DEF EndUnsubscribe, StreamTypes, Watched, hub, screen
<1>8. CASE EndRequest(s)
  BY <1>8 DEF EndRequest, StreamTypes, Watched, hub, screen
<1> QED
  BY <1>1, <1>2, <1>3, <1>4, <1>5, <1>6, <1>7, <1>8 DEF Goroutines

\* Every step of the streams keeps their types and the hub's channels.
LEMMA StreamsTyped ==
  StreamTypes /\ Watched /\ StreamStep => StreamTypes' /\ Watched'
<1> SUFFICES ASSUME StreamTypes, Watched, StreamStep PROVE StreamTypes' /\ Watched'
  OBVIOUS
<1>0. /\ HubBuffer \in Nat \ {0} /\ NameBuffer \in Nat \ {0} /\ MaxChanges \in Nat
      /\ 0 \notin Streams
  BY LimitsAssumption, RequestsAssumption
<1>1. CASE StoreChange /\ Elsewhere
  <2>1. /\ stored \in Nat /\ stored' \in 0..MaxChanges /\ 1..stored \subseteq 1..stored'
        /\ stored + 1 \in 1..stored'
    BY <1>0, <1>1 DEF StoreChange, StreamTypes
  <2> QED
    BY <1>1, <2>1 DEF StoreChange, Elsewhere, screen, StreamTypes, Watched
<1>2. ASSUME NEW v \in unannounced, Announce(v) PROVE StreamTypes' /\ Watched'
  <2>1. frames' \in [Streams -> 0..HubBuffer]
    <3>1. \A s \in Streams : frames[s] \in 0..HubBuffer /\ (frames[s] < HubBuffer => frames[s] + 1 \in 0..HubBuffer)
      BY <1>0 DEF StreamTypes
    <3> QED
      BY <1>2, <3>1 DEF Announce, Broadcast
  <2>2. unannounced' \subseteq 1..stored /\ missed' \subseteq 1..stored
    BY <1>2 DEF Announce, Broadcast, StreamTypes
  <2>3. UNCHANGED <<stored, serving, over, pump, watcher, subs, shut, names, link, heard>>
    BY <1>2 DEF Announce, Broadcast
  <2> QED
    BY <2>1, <2>2, <2>3 DEF StreamTypes, Watched
<1>3. ASSUME NEW s \in Streams, Resolve(s) \/ Goroutines(s) \/ EndRequest(s), Elsewhere
      PROVE  StreamTypes' /\ Watched'
  BY <1>3, RequestTyped DEF Elsewhere
<1>4. ASSUME NEW s \in Streams, Connect(s) PROVE StreamTypes' /\ Watched'
  <2>1. /\ s \notin serving /\ Cardinality(serving) < Slots /\ serving' = serving \cup {s}
        /\ s \notin subs
    BY <1>4 DEF Connect, Admit, Cleared
  <2>2. Cardinality(serving') <= Slots
    BY <2>1, SlotsHold
  <2> QED
    BY <1>0, <1>4, <2>1, <2>2 DEF Connect, Admit, StreamTypes, Watched, hub
<1>5. ASSUME NEW s \in Streams, StreamEnds(s) PROVE StreamTypes' /\ Watched'
  <2>1. /\ serving' = serving \ {s}
        /\ UNCHANGED <<stored, unannounced, over, pump, watcher, subs, shut, frames, names>>
    BY <1>5 DEF StreamEnds, Leave, hub
  <2>2. Cardinality(serving') <= Slots
    BY <2>1, SlotsHold
  <2>3. /\ missed' \subseteq 1..stored /\ link' \in serving' \cup {0} /\ (heard' => link' # 0)
    <3>1. CASE link = s
      BY <1>5, <3>1 DEF StreamEnds, LinkLost
    <3>2. CASE link # s
      BY <1>5, <2>1, <3>2 DEF StreamEnds, screen, StreamTypes
    <3> QED
      BY <3>1, <3>2
  <2> QED
    BY <2>1, <2>2, <2>3 DEF StreamTypes, Watched
<1>6. CASE Disconnect
  <2>1. link \in Streams
    BY <1>6 DEF Disconnect, StreamTypes
  <2> QED
    BY <1>6, <2>1 DEF Disconnect, LinkLost, StreamTypes, Watched, hub
<1> QED
  BY <1>1, <1>2, <1>3, <1>4, <1>5, <1>6 DEF StreamStep

\* A frame goes from channel to channel and is in none only in a goroutine's hand.
LEMMA FramesPass ==
  ASSUME StreamTypes, NEW s \in Streams, link \in Streams,
         Resolve(s) \/ Goroutines(s) \/ EndRequest(s), UNCHANGED screen, link \notin over', OnItsWay
  PROVE  OnItsWay'
<1>0. /\ frames[link] \in Nat /\ names[link] \in Nat /\ link' = link
      /\ frames \in [Streams -> 0..HubBuffer] /\ names \in [Streams -> 0..NameBuffer]
      /\ pump \in [Streams -> {"none", "start", "range", "hand", "done"}]
  BY DEF StreamTypes, screen
<1>1. CASE s # link
  <2>1. frames'[link] = frames[link] /\ names'[link] = names[link] /\ pump'[link] = pump[link]
    BY <1>0, <1>1 DEF Resolve, Goroutines, EndRequest, Subscribe, TakeFrame, RangeEnds, Forward, GiveUp,
       StartUnsubscribe, EndUnsubscribe
  <2> QED
    BY <1>0, <2>1 DEF OnItsWay
<1>2. CASE s = link /\ TakeFrame(s)
  <2>1. pump'[link] = "hand"
    BY <1>0, <1>2 DEF TakeFrame
  <2> QED
    BY <1>0, <2>1 DEF OnItsWay
<1>3. CASE s = link /\ Forward(s)
  <2>1. names'[link] = names[link] + 1 /\ frames'[link] = frames[link]
    BY <1>0, <1>3 DEF Forward
  <2> QED
    BY <1>0, <2>1 DEF OnItsWay
<1>4. CASE s = link /\ ~TakeFrame(s) /\ ~Forward(s)
  <2>1. /\ frames' = frames /\ names' = names
        /\ pump[link] = "hand" => pump'[link] = "hand"
    BY <1>0, <1>4 DEF Resolve, Goroutines, EndRequest, Subscribe, RangeEnds, GiveUp, StartUnsubscribe,
       EndUnsubscribe
  <2> QED
    BY <1>0, <2>1 DEF OnItsWay
<1> QED
  BY <1>1, <1>2, <1>3, <1>4

\* A change to come stays so, whatever the streams do, until its name arrives.
LEMMA ComingStays ==
  ASSUME StreamTypes, StreamStep, NEW v \in 1..stored', v \in 1..stored => Coming(v)
  PROVE  Coming(v)'
<1> SUFFICES ASSUME Listening' PROVE v \in unannounced' \cup missed' \/ OnItsWay'
  BY DEF Coming
<1>0. heard' /\ link' \notin over'
  BY DEF Listening
<1>1. CASE StoreChange /\ Elsewhere
  <2>1. /\ stored \in Nat /\ stored' = stored + 1 /\ unannounced' = unannounced \cup {stored + 1}
        /\ UNCHANGED <<missed, heard, link, over, frames, names, pump>>
    BY <1>1 DEF StoreChange, Elsewhere, screen, StreamTypes
  <2>2. v = stored + 1 \/ v \in 1..stored
    BY <2>1
  <2> QED
    BY <1>0, <2>1, <2>2 DEF Coming, Listening, OnItsWay
<1>2. ASSUME NEW u \in unannounced, Announce(u) PROVE v \in unannounced' \cup missed' \/ OnItsWay'
  <2>1. /\ UNCHANGED <<stored, over, subs, pump, names, link, heard>>
        /\ unannounced' = unannounced \ {u}
        /\ frames' = [s \in Streams |-> IF s \in subs /\ frames[s] < HubBuffer THEN frames[s] + 1 ELSE frames[s]]
        /\ missed' = IF heard /\ link \notin subs THEN missed \cup {u} ELSE missed
    BY <1>2 DEF Announce, Broadcast
  <2>2. link \in Streams /\ HubBuffer \in Nat \ {0}
    BY <1>0, <2>1, LimitsAssumption DEF StreamTypes
  <2>3. /\ frames[link] \in 0..HubBuffer /\ names[link] \in Nat
        /\ frames'[link] = IF link \in subs /\ frames[link] < HubBuffer THEN frames[link] + 1 ELSE frames[link]
    BY <2>1, <2>2 DEF StreamTypes
  <2>4. CASE link \in subs
    <3>1. frames'[link] > 0 /\ frames'[link] \in Nat
      BY <2>2, <2>3, <2>4
    <3> QED
      BY <2>1, <2>3, <3>1 DEF OnItsWay
  <2>5. CASE link \notin subs
    <3>1. v \in unannounced \cup missed => v \in unannounced' \cup missed'
      BY <1>0, <2>1, <2>5
    <3>2. OnItsWay => OnItsWay'
      BY <2>1, <2>3, <2>5 DEF OnItsWay
    <3> QED
      BY <1>0, <2>1, <3>1, <3>2 DEF Coming, Listening
  <2> QED
    BY <2>4, <2>5
<1>3. ASSUME NEW s \in Streams, Resolve(s) \/ Goroutines(s) \/ EndRequest(s), Elsewhere
      PROVE  v \in unannounced' \cup missed' \/ OnItsWay'
  <2>1. UNCHANGED <<stored, unannounced, missed, link, heard>> /\ over \subseteq over' /\ UNCHANGED screen
    BY <1>3 DEF Resolve, Goroutines, EndRequest, Subscribe, TakeFrame, RangeEnds, Forward, GiveUp,
       StartUnsubscribe, EndUnsubscribe, Elsewhere, screen, hub
  <2>2. link \in Streams /\ link \notin over' /\ Listening
    BY <1>0, <2>1 DEF StreamTypes, Listening
  <2>3. OnItsWay => OnItsWay'
    BY <1>3, <2>1, <2>2, FramesPass
  <2> QED
    BY <2>1, <2>2, <2>3 DEF Coming
<1>4. ASSUME NEW s \in Streams, Connect(s) PROVE FALSE
  BY <1>0, <1>4 DEF Connect, StreamTypes
<1>5. ASSUME NEW s \in Streams, StreamEnds(s) PROVE v \in unannounced' \cup missed' \/ OnItsWay'
  <2>1. UNCHANGED <<stored, unannounced, missed, link, heard, over, frames, names, pump>>
    BY <1>0, <1>5 DEF StreamEnds, Leave, LinkLost, screen, hub
  <2> QED
    BY <1>0, <2>1 DEF Coming, Listening, OnItsWay
<1>6. CASE Disconnect
  BY <1>0, <1>6 DEF Disconnect, LinkLost
<1> QED
  BY <1>1, <1>2, <1>3, <1>4, <1>5, <1>6 DEF StreamStep

---------------------------------------------------------------------------
(* The theorems.                                                           *)

\* No stream, an empty list and nothing stored.
LEMMA Start == Init => IInv
<1> SUFFICES ASSUME Init PROVE IInv
  OBVIOUS
<1>1. /\ list = Empty /\ generation = 0 /\ 0 \in 0..MaxKeys /\ MaxPages \in Nat
      /\ \A g \in 0..MaxKeys : drains[g] = NoJob
      /\ drains \in [0..MaxKeys -> Jobs] /\ paused = FALSE /\ stuck = FALSE
  BY BoundsAssumption, JobKinds DEF Init
<1>2. /\ Len(list.pages) = 0 /\ Range(list.pages) = {}
      /\ Range(drains[generation].walk) \cup drains[generation].got = {}
      /\ \A g \in 0..MaxKeys : Len(drains[g].walk) = 0
      /\ drains[generation].kind = "none"
  BY <1>1, JobKinds, NoPages
<1>3. StreamTypes
  <2>1. Cardinality({}) = 0
    BY FS_EmptySet
  <2> QED
    BY <2>1, LimitsAssumption DEF Init, StreamsInit, StreamTypes
<1>4. LoaderTypes
  <2>1. Len(list.pages) <= MaxPages /\ generation + 1..MaxKeys \subseteq 0..MaxKeys
    BY <1>1, <1>2, BoundsAssumption
  <2> QED
    BY <1>1, <2>1 DEF LoaderTypes
<1>5. Loading
  BY <1>1, <1>2, JobKinds DEF Loading
<1>6. JobsServed
  <2>1. /\ ~list.fetching /\ ~list.running /\ ~list.wantMore /\ ~list.wantReread
        /\ list.fetching \in BOOLEAN /\ list.running \in BOOLEAN
    BY <1>1, JobKinds DEF Lists
  <2> QED
    BY <1>1, <1>2, <2>1 DEF JobsServed
<1>7. PagesOfTheseVariables /\ NothingForgotten /\ ReadsCurrent
  BY <1>2 DEF PagesOfTheseVariables, NothingForgotten, ReadsCurrent
<1>8. Watched /\ OpenWhileKnown
  BY DEF Init, StreamsInit, Watched, OpenWhileKnown
<1> QED
  BY <1>3, <1>4, <1>5, <1>6, <1>7, <1>8, Types DEF IInv

\* Every step keeps the invariant.
LEMMA Step == IInv /\ Next => IInv'
<1> SUFFICES ASSUME IInv, Next PROVE IInv'
  OBVIOUS
<1>0. /\ StreamTypes /\ Watched /\ Loader /\ NothingForgotten /\ ReadsCurrent
  BY Types DEF IInv, Loader
<1>1. ASSUME StreamTypes', Watched', Loader', NothingForgotten', ReadsCurrent' PROVE IInv'
  <2>1. TypeOK'
    BY <1>1 DEF TypeOK, StreamTypes, LoaderTypes, Loader
  <2>2. OpenWhileKnown'
    BY <1>1 DEF StreamTypes, Watched, OpenWhileKnown
  <2> QED
    BY <1>1, <2>1, <2>2 DEF IInv, Loader
<1>2. ASSUME Signals PROVE StreamTypes' /\ Watched'
  BY <1>0, <1>2 DEF Signals, svars, hub, screen, StreamTypes, Watched
<1>3. CASE StreamStep
  <2>1. UNCHANGED <<paused, generation, list, drains, stuck>>
    BY <1>3, StreamsLeaveLoader DEF loader
  <2>2. Loader'
    BY <1>0, <2>1 DEF Loader, LoaderTypes, Loading, JobsServed, PagesOfTheseVariables
  <2>3. NothingForgotten'
    <3> SUFFICES ASSUME NEW p \in Range(list.pages), NEW v \in 1..stored', p.version < v
                 PROVE  \/ Coming(v)' \/ list.wantReread \/ drains[generation].kind = "reread" \/ stuck
      BY <2>1 DEF NothingForgotten, Coming
    <3>1. (v \in 1..stored => Coming(v)) => Coming(v)'
      BY <1>0, <1>3, ComingStays
    <3> QED
      BY <1>0, <3>1 DEF NothingForgotten, Coming
  <2>4. ReadsCurrent'
    <3> SUFFICES ASSUME NEW n \in Range(drains[generation].walk) \cup drains[generation].got,
                        NEW v \in 1..stored', n < v
                 PROVE  \/ Coming(v)' \/ list.wantReread
                        \/ drains[generation].kind = "more" /\ stuck
      BY <2>1 DEF ReadsCurrent
    <3>1. (v \in 1..stored => Coming(v)) => Coming(v)'
      BY <1>0, <1>3, ComingStays
    <3> QED
      BY <1>0, <3>1 DEF ReadsCurrent
  <2> QED
    BY <1>0, <1>1, <1>3, <2>2, <2>3, <2>4, StreamsTyped
<1>4. CASE Connected \/ Deliver
  <2>1. Ring
    BY <1>4 DEF Connected, Deliver
  <2>2. StreamTypes' /\ Watched'
    <3>1. CASE Connected
      BY <1>0, <3>1 DEF Connected, svars, hub, StreamTypes, Watched
    <3>2. CASE Deliver
      <4>1. /\ link \in Streams /\ names[link] \in 1..NameBuffer /\ names[link] - 1 \in 0..NameBuffer
            /\ names' = [names EXCEPT ![link] = @ - 1]
            /\ UNCHANGED <<hub, serving, over, pump, watcher, subs, shut, frames, screen>>
        BY <1>0, <3>2, LimitsAssumption DEF Deliver, Write, StreamTypes
      <4> QED
        BY <1>0, <4>1 DEF hub, screen, StreamTypes, Watched
    <3> QED
      BY <1>4, <3>1, <3>2
  <2> QED
    BY <1>0, <1>1, <2>1, <2>2, RingForgetsNothing
<1>5. CASE FetchNextPage \/ Pause \/ Resume \/ Reset
  BY <1>0, <1>1, <1>2, <1>5, RequestsForgetNothing
<1>6. ASSUME NEW g \in 0..MaxKeys, LoaderStep(g) PROVE IInv'
  <2>1. Signals
    BY <1>6 DEF LoaderStep, Answer, MoreArrives, WalkGoesOn, WalkEnds, ReadFails, Signals
  <2>2. stored \in Nat
    BY <1>0 DEF StreamTypes
  <2> QED
    BY <1>0, <1>1, <1>2, <1>6, <2>1, <2>2, LoaderStepsForgetNothing
<1> QED
  BY <1>3, <1>4, <1>5, <1>6 DEF Next, StreamStep

\* A step that changes nothing keeps it.
LEMMA Stutter == IInv /\ UNCHANGED vars => IInv'
<1> SUFFICES ASSUME IInv, UNCHANGED vars PROVE IInv'
  OBVIOUS
<1>1. UNCHANGED <<stored, unannounced, serving, over, pump, watcher, subs, shut, frames, names, link, heard,
                  missed, paused, generation, list, drains, stuck>>
  BY DEF vars, svars, hub, screen, loader
<1>2. TypeOK' /\ Watched' /\ OpenWhileKnown'
  BY <1>1 DEF IInv, TypeOK, Watched, OpenWhileKnown
<1>3. Loading' /\ JobsServed' /\ PagesOfTheseVariables'
  BY <1>1 DEF IInv, Loading, JobsServed, PagesOfTheseVariables
<1>4. NothingForgotten' /\ ReadsCurrent'
  BY <1>1 DEF IInv, NothingForgotten, ReadsCurrent, Coming, Listening, OnItsWay
<1> QED
  BY <1>2, <1>3, <1>4 DEF IInv

\* The invariant everything below rests on.
THEOREM Invariant == Spec => []IInv
<1>1. IInv /\ [Next]_vars => IInv'
  BY Step, Stutter
<1> QED
  BY Start, <1>1, PTL DEF Spec

\* Every variable of streams, screen and loader keeps its type.
THEOREM TypeCorrect == Spec => []TypeOK
<1>1. IInv => TypeOK
  BY DEF IInv
<1> QED
  BY Invariant, <1>1, PTL

\* Broadcast never finds the closed channel of a stream.
THEOREM ChannelsOpen == Spec => []OpenWhileKnown
<1>1. IInv => OpenWhileKnown
  BY DEF IInv
<1> QED
  BY Invariant, <1>1, PTL

\* No flag of the loader is left behind without a run, or a resume, that serves it.
THEOREM JobsAreServed == Spec => []JobsServed
<1>1. IInv => JobsServed
  BY DEF IInv
<1> QED
  BY Invariant, <1>1, PTL

\* The pages shown were read with the variables the list is asked for now.
THEOREM OwnPages == Spec => []PagesOfTheseVariables
<1>1. IInv => PagesOfTheseVariables
  BY DEF IInv
<1> QED
  BY Invariant, <1>1, PTL

\* A page older than a change is read again, whatever the buffers dropped, the burst
\* swallowed, the pause put off or the reset threw away.
THEOREM NoneForgotten == Spec => []NothingForgotten
<1>1. IInv => NothingForgotten
  BY DEF IInv
<1> QED
  BY Invariant, <1>1, PTL
=============================================================================
