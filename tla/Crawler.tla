------------------------------- MODULE Crawler -------------------------------
(***************************************************************************)
(* The two video crawlers (frontend-mobile/crawler). crawler.js notes each *)
(* event of the relays in a database, queues the videos it has not         *)
(* submitted yet, and posts them in batches to an API: when a batch is     *)
(* full, every 30 seconds, and when it is told to end. simple-crawler.js   *)
(* keeps one row for each video and writes a file of the newest ones.      *)
(*                                                                         *)
(* Events are handled each on its own, as they come: every call of the     *)
(* database or the API lets the others go on. The database outlives the    *)
(* process, the queue does not. Event e is newer than the events below.    *)
(***************************************************************************)
EXTENDS Integers, Sequences, FiniteSets, Functions

CONSTANTS
  MaxEvent,   \* bound: events of the relays
  BATCH_SIZE,
  Limit,      \* how many rows the file has at most
  MaxPost,    \* bound: batches posted
  MaxStart    \* bound: how often a crawler is started

VARIABLES
  crawler,   \* which of the two
  content,   \* what the events say
  starts,    \* how often it was started; running or not
  running,
  tasks,     \* how far the handling of an event is, "new" if it has not come in this run
  seen,      \* the table seen_events; the rows of the simple crawler, by their event
  submitted, \* the table seen_videos
  queue,     \* videoQueue
  sending,   \* the batches on their way
  ending,    \* SIGINT has come
  file,      \* found-videos.csv, by event
  posts,
  accepted,  \* history: the videos the API took
  lost       \* history: the events that were noted and whose video died with the process, or
             \* whose handling failed after that

vars == <<crawler, content, starts, running, tasks, seen, submitted, queue, sending, ending,
          file, posts, accepted, lost>>

-----------------------------------------------------------------------------
(* Events. *)

Event == 1..MaxEvent
Video == {"a", "b"}
NoVideo == "none"

\* What a tag or the text of an event may hold: a video's address, or another one. Its time
\* may be no date, being too far in the future.
Content == {[tags |-> <<"a">>, text |-> NoVideo, dated |-> TRUE],
            [tags |-> <<"b">>, text |-> NoVideo, dated |-> TRUE],
            [tags |-> <<"a", "page">>, text |-> "a", dated |-> TRUE],
            [tags |-> <<>>, text |-> "a", dated |-> TRUE],
            [tags |-> <<"b">>, text |-> NoVideo, dated |-> FALSE]}

\* toISOString throws for a time that is no date.
toISOString(e) == content[e].dated

\* The last address the tags have, or else the one in the text, if it is a video's.
extractVideoData(e) ==
  LET c == content[e]
      url == IF c.tags # <<>> THEN c.tags[Len(c.tags)] ELSE c.text
  IN  IF url \in Video THEN url ELSE NoVideo

Fresh == [e \in Event |-> "new"]

Init ==
  /\ crawler \in {"crawler", "simple"} /\ content \in [Event -> Content]
  /\ starts = 1 /\ running = TRUE /\ ending = FALSE
  /\ tasks = Fresh /\ seen = {} /\ submitted = {} /\ queue = <<>> /\ sending = {}
  /\ file = {} /\ posts = 0 /\ accepted = {} /\ lost = {}

-----------------------------------------------------------------------------
(* The life of a crawler. *)

Held == Range(queue) \cup UNION {Range(s.batch) : s \in sending}

\* The memory goes, in the middle of whatever was being done.
Stop ==
  /\ running' = FALSE /\ ending' = FALSE
  /\ tasks' = Fresh /\ queue' = <<>> /\ sending' = {}
  /\ lost' = IF crawler = "simple" THEN {}
             ELSE lost \cup {e \in seen : extractVideoData(e) \notin accepted \cup {NoVideo}}
  /\ UNCHANGED <<crawler, content, starts, seen, submitted, file, posts, accepted>>

Crash == running /\ Stop

\* A new one asks the relays for the last day or week again.
Start ==
  /\ ~running /\ starts < MaxStart /\ starts' = starts + 1 /\ running' = TRUE
  /\ UNCHANGED <<crawler, content, tasks, seen, submitted, queue, sending, ending, file, posts,
                 accepted, lost>>

\* The pool gives an event once, whichever relays have it.
Arrive(e) ==
  /\ running /\ tasks[e] = "new"
  /\ tasks' = [tasks EXCEPT ![e] = IF crawler = "crawler" THEN "event" ELSE "video"]
  /\ UNCHANGED <<crawler, content, starts, running, seen, submitted, queue, sending, ending, file,
                 posts, accepted, lost>>

-----------------------------------------------------------------------------
(* Submission. *)

Unsubmitted == /\ running /\ crawler = "crawler" /\ posts < MaxPost

\* The first ones of the queue q go out. A full queue is posted by who filled it.
submitVideoBatch(q, final) ==
  LET n == IF Len(q) < BATCH_SIZE THEN Len(q) ELSE BATCH_SIZE
      batch == SubSeq(q, 1, n)
  IN  /\ queue' = SubSeq(q, n + 1, Len(q)) /\ posts' = posts + 1
      /\ sending' = sending \cup {[id |-> posts, batch |-> batch, left |-> <<>>, final |-> final]}

PutBack_Not(s) == UNCHANGED queue

\* Whatever goes wrong, the whole batch comes first again.
PutBack(s) == queue' = s.batch \o queue

GiveUp(s) ==
  /\ PutBack(s) /\ sending' = sending \ {s}
  /\ UNCHANGED <<crawler, content, starts, running, tasks, seen, submitted, ending, file, posts,
                 lost>>

\* An error of the API, or of the network before or after the API had the batch.
Fails(s) ==
  /\ s.left = <<>> /\ GiveUp(s)
  /\ accepted' \in {accepted, accepted \cup {extractVideoData(e) : e \in Range(s.batch)}}

Taken_Any(s) == UNCHANGED accepted

\* Only what the API took is marked.
Taken(s) == accepted' = accepted \cup {extractVideoData(e) : e \in Range(s.batch)}

Succeeds(s) ==
  /\ s.left = <<>>
  /\ Taken(s)
  /\ sending' = (sending \ {s}) \cup {[s EXCEPT !.left = s.batch]}
  /\ UNCHANGED <<crawler, content, starts, running, tasks, seen, submitted, queue, ending, file,
                 posts, lost>>

\* One after the other is marked; a video that has a row already is an error.
Mark(s) ==
  /\ s.left # <<>>
  /\ LET v == extractVideoData(Head(s.left))
     IN  /\ v \notin submitted /\ submitted' = submitted \cup {v}
         /\ sending' = (sending \ {s}) \cup
              (IF Len(s.left) = 1 THEN {} ELSE {[s EXCEPT !.left = Tail(@)]})
  /\ UNCHANGED <<crawler, content, starts, running, tasks, seen, queue, ending, file, posts,
                 accepted, lost>>

\* As is any error of the database.
NotMarked(s) == s.left # <<>> /\ GiveUp(s) /\ UNCHANGED accepted

\* Every 30 seconds.
Interval ==
  /\ Unsubmitted /\ queue # <<>> /\ submitVideoBatch(queue, FALSE)
  /\ UNCHANGED <<crawler, content, starts, running, tasks, seen, submitted, ending, file, accepted,
                 lost>>

\* SIGINT: one more batch, and the end when it is over.
Interrupt ==
  /\ Unsubmitted /\ ~ending /\ queue # <<>>
  /\ ending' = TRUE /\ submitVideoBatch(queue, TRUE)
  /\ UNCHANGED <<crawler, content, starts, running, tasks, seen, submitted, file, accepted, lost>>

End ==
  /\ running /\ (ending \/ (queue = <<>> /\ crawler = "crawler"))
  /\ ~\E s \in sending : s.final
  /\ Stop

-----------------------------------------------------------------------------
(* processVideoEvent of crawler.js: four steps, with the database between. *)

SetTask(e, t) == tasks' = [tasks EXCEPT ![e] = t]

LookUpEvent(e) ==
  /\ tasks[e] = "event" /\ SetTask(e, IF e \in seen THEN "done" ELSE "note")
  /\ UNCHANGED <<crawler, content, starts, running, seen, submitted, queue, sending, ending, file,
                 posts, accepted, lost>>

\* The event's video is looked for once the event is noted, and that may throw.
NoteEvent(e) ==
  /\ tasks[e] = "note"
  /\ seen' = seen \cup {e}
  /\ SetTask(e, IF ~toISOString(e) \/ extractVideoData(e) = NoVideo THEN "done" ELSE "video")
  /\ lost' = IF toISOString(e) THEN lost ELSE lost \cup {e}
  /\ UNCHANGED <<crawler, content, starts, running, submitted, queue, sending, ending, file, posts,
                 accepted>>

LookUpVideo(e) ==
  /\ crawler = "crawler" /\ tasks[e] = "video" /\ SetTask(e, "done")
  /\ LET q == Append(queue, e)
     IN  IF extractVideoData(e) \in submitted THEN UNCHANGED <<queue, sending, posts>>
         ELSE IF Len(q) >= BATCH_SIZE THEN Unsubmitted /\ submitVideoBatch(q, FALSE)
         ELSE queue' = q /\ UNCHANGED <<sending, posts>>
  /\ UNCHANGED <<crawler, content, starts, running, seen, submitted, ending, file, accepted, lost>>

\* A call of the database fails, in either crawler: the error is logged, and the event is not
\* handled again in this run, or ever if it has been noted.
LogError(e) ==
  /\ tasks[e] \in {"event", "note", "video", "row"} /\ SetTask(e, "done")
  /\ lost' = IF crawler = "crawler" /\ tasks[e] = "video" THEN lost \cup {e} ELSE lost
  /\ UNCHANGED <<crawler, content, starts, running, seen, submitted, queue, sending, ending, file,
                 posts, accepted>>

-----------------------------------------------------------------------------
(* simple-crawler.js. *)

\* Its extractVideoData finds the same address, and less beside it.
simpleVideoData(e) == extractVideoData(e)

HasRow(e) == \E r \in seen : simpleVideoData(r) = simpleVideoData(e)

SimpleLookUp(e) ==
  /\ crawler = "simple" /\ tasks[e] = "video"
  /\ SetTask(e, IF simpleVideoData(e) = NoVideo \/ HasRow(e) THEN "done" ELSE "row")
  /\ UNCHANGED <<crawler, content, starts, running, seen, submitted, queue, sending, ending, file,
                 posts, accepted, lost>>

WithRow_Any(e) == seen \cup {e}

\* The video is the key of the table: a second row of it is an error.
WithRow(e) == IF HasRow(e) THEN seen ELSE seen \cup {e}

SimpleInsert(e) ==
  /\ tasks[e] = "row" /\ seen' = WithRow(e) /\ SetTask(e, "done")
  /\ UNCHANGED <<crawler, content, starts, running, submitted, queue, sending, ending, file, posts,
                 accepted, lost>>

\* Two seconds after the relays have given what they had: the newest rows, and the end. A
\* row without a date would come first, and ends the process before the file is written.
Export ==
  /\ running /\ crawler = "simple"
  /\ file' = IF \E r \in seen : ~toISOString(r) THEN file
             ELSE {r \in seen : Cardinality({n \in seen : n > r}) < Limit}
  /\ running' = FALSE /\ tasks' = Fresh
  /\ UNCHANGED <<crawler, content, starts, seen, submitted, queue, sending, ending, posts, accepted,
                 lost>>

Next ==
  \/ Crash \/ Start \/ Interval \/ Interrupt \/ End \/ Export
  \/ \E e \in Event : \/ Arrive(e) \/ LookUpEvent(e) \/ NoteEvent(e) \/ LookUpVideo(e) \/ LogError(e)
                      \/ SimpleLookUp(e) \/ SimpleInsert(e)
  \/ \E s \in sending : Fails(s) \/ Succeeds(s) \/ Mark(s) \/ NotMarked(s)

Spec == Init /\ [][Next]_vars

-----------------------------------------------------------------------------
(* Properties. *)

Step == {"new", "event", "note", "video", "row", "done"}

TypeOK ==
  /\ content \in [Event -> Content] /\ starts \in 1..MaxStart /\ posts \in 0..MaxPost
  /\ tasks \in [Event -> Step]
  /\ seen \cup file \cup lost \cup Range(queue) \subseteq Event
  /\ submitted \cup accepted \subseteq Video
  /\ \A s \in sending : Len(s.batch) \in 1..BATCH_SIZE

\* A video of an event that was noted, and so will never be looked at again, is not forgotten
\* once its handling has come through: it is being looked up, it is in the queue or on its
\* way, or the API has it, whatever posts and marks fail. What a process had when it died is
\* lost; and so is, in a process that lives, a video whose look-up failed after its event
\* was noted.
NotForgotten ==
  crawler = "crawler" =>
    \A e \in seen \ lost :
      \/ extractVideoData(e) \in accepted \cup {NoVideo}
      \/ tasks[e] = "video"
      \/ extractVideoData(e) \in {extractVideoData(h) : h \in Held}

\* What the database says was submitted, the API took.
SubmittedIsAccepted == submitted \subseteq accepted

\* The file has a video once, though two of its events may be looked up before either has
\* its row, and it leaves out none that is newer than one in it.
ListedOnce ==
  crawler = "simple" =>
    /\ \A r, n \in file : extractVideoData(r) = extractVideoData(n) => r = n
    /\ Cardinality(file) <= Limit

\* "SQLite database for deduplication" (crawler.js:19): of each video, one event at most is
\* waiting or on its way. It is not so: two events may be looked up before either's video
\* is submitted. The second one's row is then refused and its whole batch comes first again,
\* every time, and what is behind it in the queue is never posted.
IsDeduplicated ==
  \A e, f \in Held : extractVideoData(e) = extractVideoData(f) => e = f

-----------------------------------------------------------------------------
(* The inductive invariant of NotForgotten and SubmittedIsAccepted. *)

Batch == [id : Int, batch : Seq(Event), left : Seq(Event), final : BOOLEAN]

Typed ==
  /\ tasks \in [Event -> Step] /\ queue \in Seq(Event) /\ sending \subseteq Batch
  /\ posts \in Int
  /\ crawler = "crawler" => \A e \in Event : tasks[e] # "row"

\* A batch whose videos are being marked was taken as a whole.
BatchInv ==
  \A s \in sending : s.left # <<>> =>
    /\ Range(s.left) \subseteq Range(s.batch)
    /\ \A e \in Range(s.batch) : extractVideoData(e) \in accepted

CrawlInv == Typed /\ BatchInv /\ SubmittedIsAccepted /\ NotForgotten
=============================================================================
