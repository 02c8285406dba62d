---------------------------- MODULE VideoReactions ----------------------------
(***************************************************************************)
(* The user's like and repost of one video: the events on the relay, the   *)
(* cached answer the feed's card and the fullscreen card share, which is   *)
(* changed before the relay has confirmed, and the batched answer of the   *)
(* video page, whose buttons publish first and invalidate the feed's       *)
(* answer afterwards. The counts beside the buttons are left out: they are *)
(* the video's own numbers and a difference the reload sets to zero.       *)
(***************************************************************************)
EXTENDS Integers, Sequences, FiniteSets

CONSTANTS
  Kind,      \* like, repost
  MaxClick   \* bound: clicks on the buttons

VARIABLES
  made,    \* the user's reactions on the relay, the n-th has the id n
  gone,    \* the ids the relay has a deletion of
  page,    \* the page shown: feed, video or another
  loaded,  \* its query is enabled
  cache,   \* the data of each page's query
  stale,   \* each page's data is to be read again when the page opens
  read,    \* each query's read: its step and the events found
  tasks,   \* publications under way
  clicks,
  calm     \* history: each click was made on the truth and met no other read or click

vars == <<made, gone, page, loaded, cache, stale, read, tasks, clicks, calm>>

Query == {"feed", "video"}
Unset == {}                                   \* a query without data
None == 0
Pending == -1
Id == 1..MaxClick
Mark == [on : BOOLEAN, id : {None, Pending} \cup Id]
Off == [on |-> FALSE, id |-> None]
Blank == [k \in Kind |-> Off]
Known == {{i} : i \in [Kind -> Mark]} \cup {Unset}  \* the data, in a set of at most one
Idle == [at |-> "idle", events |-> {}]
Task == [n : Id, kind : Kind, undo : BOOLEAN, id : {Pending} \cup Id, page : Query,
         before : Known, at : {"sent", "kept"}]

TypeOK ==
  /\ made \in Seq(Kind) /\ gone \subseteq DOMAIN made
  /\ page \in Query \cup {"other"} /\ loaded \in BOOLEAN
  /\ cache \in [Query -> Known] /\ stale \in [Query -> BOOLEAN]
  /\ read \in [Query -> [at : {"idle", "events", "deletions"}, events : SUBSET Id]]
  /\ tasks \subseteq Task /\ clicks \in 0..MaxClick /\ calm \in BOOLEAN

Init ==
  /\ made = <<>> /\ gone = {} /\ page = "other" /\ loaded = FALSE
  /\ cache = [q \in Query |-> Unset] /\ stale = [q \in Query |-> FALSE]
  /\ read = [q \in Query |-> Idle] /\ tasks = {} /\ clicks = 0 /\ calm = TRUE

relay == <<made, gone>>
screen == <<page, loaded>>

\* What the buttons show.
Shown(q, k) == IF cache[q] = Unset THEN Off ELSE (CHOOSE i \in cache[q] : TRUE)[k]
Live(k) == {n \in DOMAIN made \ gone : made[n] = k}
True(q) == \A k \in Kind :
  IF Shown(q, k).on THEN Shown(q, k).id \in Live(k) ELSE Live(k) = {}

\* setQueryData with an updater: the fields it names, over what is there.
Set(q, k, mark) ==
  [cache EXCEPT ![q] = {[j \in Kind |-> IF j = k THEN mark ELSE Shown(q, j)]}]

-----------------------------------------------------------------------------
(* The queries. *)

\* Another page: the query of the old one is cancelled.
Open(p) ==
  /\ page # p /\ page' = p /\ loaded' = FALSE
  /\ read' = [q \in Query |-> Idle]
  /\ UNCHANGED <<relay, cache, stale, tasks, clicks, calm>>

\* The delay is over (feed), the videos are there (video page): a first or a stale answer
\* is read.
Load ==
  /\ page \in Query /\ ~loaded /\ loaded' = TRUE
  /\ IF cache[page] = Unset \/ stale[page]
     THEN /\ read' = [read EXCEPT ![page].at = "events"]
          /\ calm' = (calm /\ tasks = {})
     ELSE UNCHANGED <<read, calm>>
  /\ UNCHANGED <<relay, page, cache, stale, tasks, clicks>>

\* staleTime goes by.
Age(q) ==
  /\ cache[q] # Unset /\ ~stale[q] /\ stale' = [stale EXCEPT ![q] = TRUE]
  /\ UNCHANGED <<relay, screen, cache, read, tasks, clicks, calm>>

FindEvents(q) ==
  /\ read[q].at = "events"
  /\ read' = [read EXCEPT ![q] = [at |-> "deletions", events |-> DOMAIN made]]
  /\ UNCHANGED <<relay, screen, cache, stale, tasks, clicks, calm>>

Answered(q, marks) ==
  /\ cache' = [cache EXCEPT ![q] = {marks}]
  /\ stale' = [stale EXCEPT ![q] = FALSE]
  /\ read' = [read EXCEPT ![q] = Idle]

\* Mutant: the deletions are not asked for.
Left_All(found) == found

\* The events found that have no deletion.
Left(found) == found \ gone

\* The relay says which are deleted; the last one the loop meets gives the id.
FindDeletions(q) ==
  /\ read[q].at = "deletions"
  /\ \E marks \in [Kind -> Mark] :
       /\ \A k \in Kind :
            LET mine == {n \in Left(read[q].events) : made[n] = k}
            IN IF mine = {} THEN marks[k] = Off ELSE marks[k].on /\ marks[k].id \in mine
       /\ Answered(q, marks)
  /\ UNCHANGED <<relay, screen, tasks, clicks, calm>>

\* A failure or a timeout is an answer of its own: neither liked nor reposted.
ReadFails(q) ==
  /\ read[q].at # "idle" /\ Answered(q, Blank) /\ calm' = FALSE
  /\ UNCHANGED <<relay, screen, tasks, clicks>>

-----------------------------------------------------------------------------
(* The buttons. *)

Informed(q) == tasks = {} /\ read[q].at = "idle" /\ cache[q] # Unset /\ True(q)

Begin(k, q) ==
  tasks' = tasks \cup
    {[n |-> clicks + 1, kind |-> k, undo |-> Shown(q, k).on, page |-> q, at |-> "sent",
      id |-> IF Shown(q, k).on THEN Shown(q, k).id ELSE Pending, before |-> cache[q]]}

Clicked(q) ==
  /\ page = q /\ clicks < MaxClick /\ clicks' = clicks + 1
  /\ calm' = (calm /\ Informed(q))
  /\ UNCHANGED <<relay, screen, read, stale>>

\* A button of the feed's card, or of the fullscreen one.
ClickedInFeed == Clicked("feed")

\* toggleLike, toggleRepost: the answer is changed at once.
Toggle(k) ==
  LET m == Shown("feed", k) IN
  /\ ClickedInFeed
  /\ cache' = Set("feed", k, IF m.on THEN Off ELSE [on |-> TRUE, id |-> Pending])
  /\ IF m.on /\ m.id = None THEN tasks' = tasks ELSE Begin(k, "feed")

\* handleVideoLike, handleVideoRepost of the video page.
Press(k) ==
  /\ loaded /\ Clicked("video")
  /\ Shown("video", k).on => Shown("video", k).id # None
  /\ (k = "repost" /\ ~Shown("video", k).on)
       => ~\E t \in tasks : t.page = "video" /\ t.kind = k /\ ~t.undo  \* isReposting
  /\ Begin(k, "video") /\ UNCHANGED cache

\* The relay keeps the event.
Kept(t) ==
  /\ t \in tasks /\ t.at = "sent"
  /\ IF t.undo THEN gone' = gone \cup ({t.id} \cap DOMAIN made) /\ UNCHANGED made
     ELSE made' = Append(made, t.kind) /\ UNCHANGED gone
  /\ tasks' = (tasks \ {t}) \cup
       {[t EXCEPT !.at = "kept", !.id = IF t.undo THEN t.id ELSE Len(made) + 1]}
  /\ UNCHANGED <<screen, cache, stale, read, clicks, calm>>

\* Mutant: the reaction's id is never filled in.
Confirmed_Not(t) == cache

\* The event's id replaces the pending one.
Confirmed(t) == IF t.undo THEN cache
                ELSE Set("feed", t.kind, [Shown("feed", t.kind) EXCEPT !.id = t.id])

\* The publication is confirmed. The video page invalidates the feed's answer, which is
\* read again now if the feed is shown.
Confirm(t) ==
  /\ t \in tasks /\ t.at = "kept" /\ tasks' = tasks \ {t}
  /\ IF t.page = "feed" THEN cache' = Confirmed(t) /\ UNCHANGED <<stale, read>>
     ELSE /\ UNCHANGED cache
          /\ stale' = [stale EXCEPT !["feed"] = TRUE]
          /\ read' = IF page = "feed" /\ loaded
                     THEN [read EXCEPT !["feed"] = [at |-> "events", events |-> {}]] ELSE read
  /\ UNCHANGED <<relay, screen, clicks, calm>>

\* Mutant: a failure is only reported.
Rollback_Not(t) == cache

\* What was there before, if something was.
Rollback(t) ==
  IF t.page = "feed" /\ t.before # Unset THEN [cache EXCEPT !["feed"] = t.before] ELSE cache

\* The signer refuses, the relay refuses or its answer does not come in time.
PublishFails(t) ==
  /\ t \in tasks /\ tasks' = tasks \ {t} /\ cache' = Rollback(t)
  /\ calm' = (calm /\ t.at = "sent")
  /\ UNCHANGED <<relay, screen, stale, read, clicks>>

-----------------------------------------------------------------------------
Next ==
  \/ \E p \in Query \cup {"other"} : Open(p)
  \/ Load
  \/ \E q \in Query : Age(q) \/ FindEvents(q) \/ FindDeletions(q) \/ ReadFails(q)
  \/ \E k \in Kind : Toggle(k) \/ Press(k)
  \/ \E t \in tasks : Kept(t) \/ Confirm(t) \/ PublishFails(t)

Spec == Init /\ [][Next]_vars

-----------------------------------------------------------------------------
(* When the user has clicked one thing at a time, on buttons that told the *)
(* truth, and nothing is under way, the feed's buttons tell the truth: a   *)
(* reaction is shown exactly if the relay has one that is not deleted, and *)
(* the id kept is of such a one, so that the next click deletes it.        *)
(* useOptimisticLike's and useOptimisticRepost's rollback and replacement  *)
(* of the pending id, the deletions of useVideoUserInteractions and the    *)
(* invalidations of the video page.                                        *)
CalmShowsTruth ==
  (calm /\ page = "feed" /\ loaded /\ tasks = {} /\ read["feed"].at = "idle") => True("feed")

-----------------------------------------------------------------------------
(* The inductive invariant of CalmShowsTruth. *)

Answer == [Kind -> [on : BOOLEAN, id : Int]]
Sending == [on |-> TRUE, id |-> Pending]
Told(i, k) == IF i[k].on THEN i[k].id \in Live(k) ELSE Live(k) = {}
With(i, k, mark) == [j \in Kind |-> IF j = k THEN mark ELSE i[j]]

\* The feed tells the truth, or has its answer still to read.
Truthful ==
  \/ True("feed")
  \/ (cache["feed"] = Unset \/ stale["feed"]) /\ ~(page = "feed" /\ loaded /\ read["feed"].at = "idle")

\* What a publication that met no other leads from and to.
FeedSent(t) ==
  \E i \in Answer :
    /\ t.before = {i} /\ \A k \in Kind : Told(i, k)
    /\ cache["feed"] = {With(i, t.kind, IF t.undo THEN Off ELSE Sending)}
    /\ IF t.undo THEN t.id \in Live(t.kind) ELSE Live(t.kind) = {}

FeedKept(t) ==
  \E i \in Answer :
    /\ cache["feed"] = {With(i, t.kind, IF t.undo THEN Off ELSE Sending)}
    /\ \A k \in Kind \ {t.kind} : Told(i, k)
    /\ Live(t.kind) = IF t.undo THEN {} ELSE {t.id}

VideoSent(t) == IF t.undo THEN t.id \in Live(t.kind) ELSE Live(t.kind) = {}

CalmTruth ==
  /\ \A t, u \in tasks : t = u
  /\ tasks # {} => \A q \in Query : read[q].at = "idle"
  /\ \A q \in Query : read[q].at = "deletions" => read[q].events = DOMAIN made
  /\ \A k \in Kind : \A m, n \in Live(k) : m = n
  /\ tasks = {} => Truthful
  /\ \A t \in tasks :
       /\ t.page = "feed" /\ t.at = "sent" => FeedSent(t)
       /\ t.page = "feed" /\ t.at = "kept" => FeedKept(t)
       /\ t.page = "video" /\ t.at = "sent" => Truthful /\ VideoSent(t)

TruthTyped ==
  /\ made \in Seq(Kind) /\ gone \subseteq DOMAIN made
  /\ cache \in [Query -> {Unset} \cup {{i} : i \in Answer}] /\ stale \in [Query -> BOOLEAN]
  /\ DOMAIN read = Query
  /\ \A q \in Query : read[q] = [at |-> read[q].at, events |-> read[q].events]
  /\ \A q \in Query : read[q].at # "idle" => page = q /\ loaded
  /\ \A t \in tasks :
       /\ t = [n |-> t.n, kind |-> t.kind, undo |-> t.undo, page |-> t.page, at |-> t.at,
               id |-> t.id, before |-> t.before]
       /\ t.kind \in Kind /\ t.page \in Query /\ t.at \in {"sent", "kept"} /\ t.id \in Int
       /\ t.before \in {Unset} \cup {{i} : i \in Answer}

TruthInv == TruthTyped /\ (calm => CalmTruth)
==============================================================================
