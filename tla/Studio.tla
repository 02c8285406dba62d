-------------------------------- MODULE Studio --------------------------------
(***************************************************************************)
(* Recording a video in the browser and publishing it: the upload page,    *)
(* the camera with its press-to-record button, one MediaRecorder for each  *)
(* press whose clip arrives some time after the release, and the form that *)
(* uploads the first clip and then publishes an event that names it.       *)
(*                                                                         *)
(* The user is logged in. Time passes in ticks of the progress timer; what *)
(* a recorder that was told to stop has to say arrives before the next     *)
(* one. The contents of a clip are their length.                           *)
(***************************************************************************)
EXTENDS Integers, Sequences, FiniteSets, TLAPS

CONSTANTS
  MAX_DURATION,
  MaxPress,  \* bound: presses of the record button
  MaxAsk,    \* bound: requests for the camera
  Job        \* publications of the form, by number

VARIABLES
  step,      \* of the upload page, or "left"
  asking,    \* requests for the camera: whether each is of a recorder that is still there
  tracks,    \* of streamRef: "none", "live" or "ended"
  shown,     \* isInitialized, cameraError: "wait", "camera" or "error"
  holding,   \* the record button is held
  takes,     \* the MediaRecorders that have not delivered
  taken,     \* the number of mediaRecorderRef's
  chunks,    \* chunksRef: the length of its contents
  elapsed,   \* since segmentStartTimeRef
  interval,  \* progressIntervalRef
  total,     \* totalDurationRef
  recording, duration, segments,  \* the state of the same names
  clips,     \* recordedSegments of the page
  jobs,      \* what each publication does
  pending,   \* isUploading and isPublishing: the publications they are about, or 0
  stored,    \* the clips the media server has
  events,    \* the videos published
  asks       \* requests for the camera so far

vars == <<step, asking, tracks, shown, holding, takes, taken, chunks, elapsed, interval, total,
          recording, duration, segments, clips, jobs, pending, stored, events, asks>>
camera == <<asking, tracks, shown, asks>>
clock == <<elapsed, interval, total, duration>>
page == <<step, clips, jobs, pending, stored, events>>

Long == 0..(MAX_DURATION * 4)
Take == [n : 1..MaxPress, len : Long, on : BOOLEAN]

TypeOK ==
  /\ step \in {"choose", "record", "metadata", "left"} /\ asks \in 0..MaxAsk
  /\ \A a \in DOMAIN asking : asking[a] \in BOOLEAN
  /\ tracks \in {"none", "live", "ended"} /\ shown \in {"wait", "camera", "error"}
  /\ {holding, interval, recording} \subseteq BOOLEAN
  /\ takes \subseteq Take /\ taken \in 0..MaxPress
  /\ {chunks, elapsed, total, duration} \subseteq Long
  /\ segments \in Seq(Long) /\ clips \in Seq(Long)
  /\ jobs \in [Job -> [st : {"none", "combine", "upload", "publish", "over"}, clip : Long,
                       mine : BOOLEAN]]
  /\ pending \in [upload : Job \cup {0}, publish : Job \cup {0}]
  /\ stored \cup events \subseteq Long

Init ==
  /\ step = "choose" /\ asking = <<>> /\ tracks = "none" /\ shown = "wait" /\ holding = FALSE
  /\ takes = {} /\ taken = 0 /\ chunks = 0 /\ elapsed = 0 /\ interval = FALSE /\ total = 0
  /\ recording = FALSE /\ duration = 0 /\ segments = <<>> /\ clips = <<>>
  /\ jobs = [j \in Job |-> [st |-> "none", clip |-> 0, mine |-> FALSE]] /\ pending = [upload |-> 0, publish |-> 0]
  /\ stored = {} /\ events = {} /\ asks = 0

-----------------------------------------------------------------------------
(* The camera. *)

\* A recorder whose tracks end stops, and so does one that is told to.
Stopped(ts) == {[t EXCEPT !.on = FALSE] : t \in ts}

\* Mutant: the cleanup leaves the tracks alone.
CleanUp_Timer(ts) == interval' = FALSE /\ tracks' = tracks /\ takes' = ts

\* The cleanup of the effect that depends on the segments: it runs when they change, and
\* when the recorder goes.
CleanUp(ts) ==
  /\ interval' = FALSE /\ tracks' = IF tracks = "live" THEN "ended" ELSE tracks
  /\ takes' = Stopped(ts)

Ask == asks < MaxAsk /\ asks' = asks + 1 /\ asking' = Append(asking, TRUE)

\* "Record with Camera": a new recorder.
Record ==
  /\ step = "choose" /\ step' = "record" /\ Ask
  /\ UNCHANGED <<tracks, shown, holding, takes, taken, chunks, clock, recording, segments,
                 clips, jobs, pending, stored, events>>

\* getUserMedia; a stream that comes when the recorder has gone is nobody's.
Granted ==
  /\ asking # <<>> /\ asking' = Tail(asking)
  /\ IF Head(asking) THEN tracks' = "live" /\ shown' = "camera" ELSE UNCHANGED <<tracks, shown>>
  /\ UNCHANGED <<page, holding, takes, taken, chunks, clock, recording, segments, asks>>

\* The first request's failure is shown; that of a switch is not caught.
Denied ==
  /\ asking # <<>> /\ asking' = Tail(asking)
  /\ shown' = IF Head(asking) /\ shown = "wait" THEN "error" ELSE shown
  /\ UNCHANGED <<page, tracks, holding, takes, taken, chunks, clock, recording, segments, asks>>

SwitchCamera ==
  /\ step = "record" /\ shown = "camera" /\ ~recording /\ tracks # "none" /\ Ask
  /\ tracks' = "ended" /\ takes' = Stopped(takes)
  /\ UNCHANGED <<page, shown, holding, taken, chunks, clock, recording, segments>>

-----------------------------------------------------------------------------
(* The record button. *)

CanRecord == duration < MAX_DURATION

\* Mutant: the chunks of the last segment are kept.
NewChunks_Kept == chunks

NewChunks == 0

\* handleRecordStart and startSegment; a stream that has ended cannot be recorded.
Press ==
  /\ step = "record" /\ shown = "camera" /\ ~holding /\ CanRecord /\ taken < MaxPress
  /\ holding' = TRUE /\ chunks' = NewChunks /\ taken' = taken + 1 /\ elapsed' = 0
  /\ IF tracks = "live"
     THEN /\ takes' = takes \cup {[n |-> taken + 1, len |-> 0, on |-> TRUE]}
          /\ recording' = TRUE /\ interval' = TRUE
     ELSE UNCHANGED <<takes, recording, interval>>
  /\ UNCHANGED <<page, camera, total, duration, segments>>

\* stopSegment.
StopSegment(ts) ==
  /\ takes' = {IF t.n = taken THEN [t EXCEPT !.on = FALSE] ELSE t : t \in ts}
  /\ interval' = FALSE /\ recording' = FALSE

Release ==
  /\ step = "record" /\ holding /\ holding' = FALSE /\ StopSegment(takes)
  /\ UNCHANGED <<page, camera, taken, chunks, elapsed, total, duration, segments>>

\* The progress timer, which ends the segment when the six seconds are full.
Tick ==
  /\ \E t \in takes : t.on
  /\ \A t \in takes : t.on
  /\ elapsed' = elapsed + 1
  /\ LET ts == {[t EXCEPT !.len = @ + 1] : t \in takes}
     IN  IF interval /\ total + elapsed' >= MAX_DURATION THEN StopSegment(ts)
         ELSE takes' = ts /\ UNCHANGED <<interval, recording>>
  /\ duration' = IF interval THEN total + elapsed' ELSE duration
  /\ UNCHANGED <<page, camera, holding, taken, chunks, total, segments>>

\* ondataavailable and onstop, which fill the chunks and time the start of the newest.
Delivered(t) ==
  /\ t \in takes /\ ~t.on /\ \A u \in takes : u.n >= t.n
  /\ chunks' = chunks + t.len
  /\ total' = total + elapsed /\ duration' = total + elapsed /\ recording' = FALSE
  /\ segments' = Append(segments, chunks + t.len) /\ CleanUp(takes \ {t})
  /\ UNCHANGED <<page, asking, shown, asks, holding, taken, elapsed>>

\* "Start Over".
CanStartOver == step = "record" /\ segments # <<>> /\ ~recording

Reset ==
  /\ CanStartOver /\ segments' = <<>>
  /\ total' = 0 /\ duration' = 0 /\ CleanUp(takes)
  /\ UNCHANGED <<page, asking, shown, asks, holding, taken, chunks, elapsed, recording>>

-----------------------------------------------------------------------------
(* The page. *)

\* The recorder goes with all it has: its camera is released, and no request for one is
\* taken back.
Unmount ==
  /\ asking' = [a \in DOMAIN asking |-> FALSE] /\ tracks' = "none" /\ shown' = "wait"
  /\ holding' = FALSE /\ takes' = {} /\ taken' = 0 /\ chunks' = 0 /\ elapsed' = 0
  /\ interval' = FALSE /\ total' = 0 /\ recording' = FALSE /\ duration' = 0
  /\ segments' = <<>> /\ UNCHANGED asks

\* handleRecordingComplete.
Completed == step' = "metadata" /\ clips' = segments

Finish ==
  /\ step = "record" /\ segments # <<>> /\ Completed /\ Unmount
  /\ UNCHANGED <<jobs, pending, stored, events>>

\* The close button, "Go Back", or the browser's.
Cancel ==
  /\ step = "record" /\ step' \in {"choose", "left"} /\ clips' = <<>> /\ Unmount
  /\ UNCHANGED <<jobs, pending, stored, events>>

-----------------------------------------------------------------------------
(* The form. *)

recorder == <<camera, holding, takes, taken, chunks, clock, recording, segments>>

\* isProcessing; while the clip's duration is being read it is false.
IsProcessing == pending.upload # 0 \/ pending.publish # 0

At(j, st) == [jobs EXCEPT ![j].st = st]
Begun(what, j) == IF jobs[j].mine THEN [pending EXCEPT ![what] = j] ELSE pending
Ended(what, j) == IF pending[what] = j THEN [pending EXCEPT ![what] = 0] ELSE pending

\* handlePublish, of a form with a title: of several clips the first one is taken.
Publish(j) ==
  /\ step = "metadata" /\ ~IsProcessing /\ jobs[j].st = "none"
  /\ \A i \in Job : i < j => jobs[i].st # "none"
  /\ jobs' = [jobs EXCEPT ![j] = [st |-> "combine", clip |-> clips[1], mine |-> TRUE]]
  /\ UNCHANGED <<recorder, step, clips, pending, stored, events>>

CancelForm ==
  /\ step = "metadata" /\ ~IsProcessing /\ step' = "choose" /\ clips' = <<>>
  /\ jobs' = [j \in Job |-> [jobs[j] EXCEPT !.mine = FALSE]]
  /\ UNCHANGED <<recorder, pending, stored, events>>

\* combineSegments reads the duration of the clip, or fails.
Combined(j) ==
  /\ jobs[j].st = "combine"
  /\ \/ jobs' = At(j, "upload") /\ pending' = Begun("upload", j)
     \/ jobs' = At(j, "over") /\ UNCHANGED pending
  /\ UNCHANGED <<recorder, step, clips, stored, events>>

\* The media server keeps the clip.
Stores(j) == stored' = stored \cup {jobs[j].clip}

\* uploadVideo goes on to publishVideo with the URL it was given, or fails.
Uploaded(j) ==
  /\ jobs[j].st = "upload"
  /\ \/ /\ Stores(j) /\ jobs' = At(j, "publish")
        /\ pending' = [Ended("upload", j) EXCEPT !.publish = Begun("publish", j).publish]
     \/ jobs' = At(j, "over") /\ pending' = Ended("upload", j) /\ UNCHANGED stored
  /\ UNCHANGED <<recorder, step, clips, events>>

\* handlePublished: the page goes home, whatever it does by then.
HandlePublished ==
  /\ step' = "left" /\ clips' = <<>>
  /\ IF step = "record" THEN Unmount ELSE UNCHANGED recorder

\* The event is refused, or it is published.
Published(j) ==
  /\ jobs[j].st = "publish" /\ jobs' = At(j, "over") /\ pending' = Ended("publish", j)
  /\ \/ UNCHANGED <<recorder, step, clips, events>>
     \/ events' = events \cup {jobs[j].clip} /\ HandlePublished
  /\ UNCHANGED stored

Next ==
  \/ Record \/ Granted \/ Denied \/ SwitchCamera \/ Press \/ Release \/ Tick \/ Reset
  \/ Finish \/ Cancel \/ CancelForm
  \/ \E t \in takes : Delivered(t)
  \/ \E j \in Job : Publish(j) \/ Combined(j) \/ Uploaded(j) \/ Published(j)

Spec == Init /\ [][Next]_vars

-----------------------------------------------------------------------------
(* Properties. *)

\* A recorder that goes on recording is watched: the timer that ends it after six
\* seconds runs, and it is the one the timer would stop. Releases, presses, switches
\* and clips that arrive late never leave one behind.
RecordingIsWatched ==
  \A t \in takes : t.on => interval /\ t.n = taken

\* "6 second maximum reached": no video is published that is longer, whichever
\* segments it was recorded in and however often the recording was started over.
PublishedFits == \A e \in events : e <= MAX_DURATION

\* "Cleanup on unmount": as long as the recorder is there, its camera only ends for
\* another one that is asked for.
CleanupIsOnUnmount == [][tracks = "live" /\ tracks' = "ended" => asks' > asks]_vars

-----------------------------------------------------------------------------
(* Proofs. *)

Fits == 0..MAX_DURATION
TakeRec == [n : Nat, len : Nat, on : BOOLEAN]

\* Of the recorders that have not delivered no two are of one press, and what all of
\* them have recorded fits, with what has been delivered: at most one has anything.
Apart(ts, tk, ch) ==
  /\ ts \subseteq TakeRec
  /\ \A t \in ts : t.n <= tk /\ ch + t.len <= MAX_DURATION
  /\ \A t, u \in ts : t.n = u.n => t = u
  /\ \A t, u \in ts : t = u \/ t.len = 0 \/ u.len = 0

TakesInv ==
  /\ taken \in Nat /\ chunks \in Fits /\ elapsed \in Nat /\ total \in Nat /\ duration \in Nat
  /\ total <= duration /\ Apart(takes, taken, chunks)

\* The recorder that goes on is that of the held button, and began with nothing.
WatchInv ==
  \A t \in takes : t.on => /\ holding /\ interval /\ t.n = taken /\ chunks = 0
                           /\ t.len = elapsed /\ total + elapsed < MAX_DURATION

\* What fits goes from the segments to the page, to a publication, and into an event.
ClipsInv ==
  /\ segments \in Seq(Fits) /\ clips \in Seq(Fits) /\ (step = "metadata" => clips # <<>>)
  /\ jobs \in [Job -> [st : {"none", "combine", "upload", "publish", "over"}, clip : Fits,
                       mine : BOOLEAN]]
  /\ events \subseteq Fits

\* Recorders that are stopped stay apart.
LEMMA Quiet ==
  ASSUME NEW ts, NEW us, NEW tk, NEW ch, Apart(ts, tk, ch), us \subseteq TakeRec,
         \A v \in us : ~v.on /\ \E u \in ts : v.n = u.n /\ v.len = u.len
  PROVE  Apart(us, tk, ch)
<1>1. \A v, w \in us : v.n = w.n => v = w
  <2> SUFFICES ASSUME NEW v \in us, NEW w \in us, v.n = w.n PROVE v = w
    OBVIOUS
  <2>1. v.len = w.len
    BY DEF Apart
  <2>2. v = [n |-> v.n, len |-> v.len, on |-> v.on] /\ w = [n |-> w.n, len |-> w.len, on |-> w.on]
    BY DEF TakeRec
  <2>3. v.on = FALSE /\ w.on = FALSE
    BY DEF TakeRec
  <2> QED BY <2>1, <2>2, <2>3
<1>2. \A v, w \in us : v = w \/ v.len = 0 \/ w.len = 0
  BY <1>1 DEF Apart
<1>3. \A v \in us : v.n <= tk /\ ch + v.len <= MAX_DURATION
  BY DEF Apart
<1> QED BY <1>1, <1>2, <1>3 DEF Apart

LEMMA StoppedQuiet ==
  ASSUME NEW ts, NEW tk, NEW ch, Apart(ts, tk, ch)
  PROVE  Apart(Stopped(ts), tk, ch) /\ \A v \in Stopped(ts) : ~v.on
<1>1. \A u \in ts : /\ [u EXCEPT !.on = FALSE] \in TakeRec /\ ~[u EXCEPT !.on = FALSE].on
                    /\ [u EXCEPT !.on = FALSE].n = u.n /\ [u EXCEPT !.on = FALSE].len = u.len
  BY DEF Apart, TakeRec
<1>2. Stopped(ts) \subseteq TakeRec
  BY <1>1 DEF Stopped
<1>3. \A v \in Stopped(ts) : ~v.on /\ \E u \in ts : v.n = u.n /\ v.len = u.len
  BY <1>1 DEF Stopped
<1> QED BY <1>2, <1>3, Quiet

LEMMA StudioInit == MAX_DURATION \in Nat /\ Init => TakesInv /\ WatchInv /\ ClipsInv
BY DEF Init, TakesInv, WatchInv, ClipsInv, Fits, Apart

\* Recorders that were apart are still apart when some are gone.
LEMMA FewerApart ==
  ASSUME NEW ts, NEW us, NEW tk, NEW ch, Apart(ts, tk, ch), us \subseteq ts
  PROVE  Apart(us, tk, ch)
BY DEF Apart

\* A held button has at most one recorder, which the timer or the release stops.
LEMMA TakesStep ==
  ASSUME MAX_DURATION \in Nat, TakesInv, WatchInv, [Next]_vars
  PROVE  TakesInv' /\ WatchInv'
<1>1. CASE UNCHANGED <<holding, takes, taken, chunks, elapsed, interval, total, duration>>
  BY <1>1 DEF TakesInv, WatchInv
<1>2. CASE Unmount
  BY <1>2 DEF Unmount, TakesInv, WatchInv, Apart, Fits
<1>3. CASE SwitchCamera
  <2>1. takes' = Stopped(takes)
        /\ UNCHANGED <<holding, taken, chunks, elapsed, interval, total, duration>>
    BY <1>3 DEF SwitchCamera, clock
  <2>2. Apart(takes, taken, chunks)
    BY DEF TakesInv
  <2>3. Apart(takes', taken, chunks) /\ \A v \in takes' : ~v.on
    BY <2>1, <2>2, StoppedQuiet
  <2> QED BY <2>1, <2>3 DEF TakesInv, WatchInv
<1>4. CASE Press
  <2>1. /\ ~holding /\ holding' /\ duration < MAX_DURATION /\ chunks' = 0 /\ taken' = taken + 1
        /\ elapsed' = 0 /\ UNCHANGED <<total, duration>>
    BY <1>4 DEF Press, NewChunks, CanRecord
  <2>2. \A t \in takes : ~t.on
    BY <2>1 DEF WatchInv
  <2>3. \A t \in takes : t \in TakeRec /\ t.n <= taken /\ t.len <= MAX_DURATION
    BY DEF TakesInv, Apart, Fits, TakeRec
  <2> DEFINE new == [n |-> taken + 1, len |-> 0, on |-> TRUE]
  <2>4. new \in TakeRec /\ new.n = taken + 1 /\ new.len = 0 /\ new.on
    BY DEF TakesInv, TakeRec
  <2> HIDE DEF new
  <2>5. Apart(takes \cup {new}, taken + 1, 0)
    BY <2>3, <2>4 DEF TakesInv, Apart, TakeRec
  <2>6. CASE tracks = "live"
    <3>1. takes' = takes \cup {new} /\ interval'
      BY <1>4, <2>6 DEF Press, new
    <3> QED BY <2>1, <2>2, <2>4, <2>5, <3>1 DEF TakesInv, WatchInv, Fits
  <2>7. CASE tracks # "live"
    <3>1. takes' = takes
      BY <1>4, <2>7 DEF Press
    <3>2. Apart(takes, taken + 1, 0)
      BY <2>5, FewerApart
    <3> QED BY <2>1, <2>2, <3>1, <3>2 DEF TakesInv, WatchInv, Fits
  <2> QED BY <2>6, <2>7
<1>5. CASE Release
  <2>1. /\ takes' = {IF t.n = taken THEN [t EXCEPT !.on = FALSE] ELSE t : t \in takes}
        /\ UNCHANGED <<taken, chunks, elapsed, total, duration>>
    BY <1>5 DEF Release, StopSegment
  <2>2. \A u \in takes : /\ [u EXCEPT !.on = FALSE] \in TakeRec /\ ~[u EXCEPT !.on = FALSE].on
                         /\ [u EXCEPT !.on = FALSE].n = u.n /\ [u EXCEPT !.on = FALSE].len = u.len
                         /\ u \in TakeRec
    BY DEF TakesInv, Apart, TakeRec
  <2>3. takes' \subseteq TakeRec
    BY <2>1, <2>2
  <2>4. \A v \in takes' : ~v.on /\ \E u \in takes : v.n = u.n /\ v.len = u.len
    BY <2>1, <2>2 DEF WatchInv
  <2>5. Apart(takes, taken, chunks)
    BY DEF TakesInv
  <2>6. Apart(takes', taken, chunks)
    BY <2>3, <2>4, <2>5, Quiet
  <2> QED BY <2>1, <2>4, <2>6 DEF TakesInv, WatchInv
<1>6. CASE Tick
  <2> DEFINE ts == {[t EXCEPT !.len = @ + 1] : t \in takes}
             full == interval /\ total + elapsed + 1 >= MAX_DURATION
  <2>1. /\ elapsed' = elapsed + 1 /\ UNCHANGED <<holding, taken, chunks, total>>
        /\ duration' = IF interval THEN total + elapsed' ELSE duration
        /\ (\E t \in takes : t.on) /\ \A t \in takes : t.on
    BY <1>6 DEF Tick
  <2>2. interval /\ holding /\ chunks = 0 /\ total + elapsed < MAX_DURATION
        /\ \A t \in takes : t.n = taken /\ t.len = elapsed
    BY <2>1 DEF WatchInv
  <2>3. \A u \in takes : [u EXCEPT !.len = @ + 1] = [n |-> taken, len |-> elapsed + 1, on |-> TRUE]
    <3> SUFFICES ASSUME NEW u \in takes
                 PROVE [u EXCEPT !.len = @ + 1] = [n |-> taken, len |-> elapsed + 1, on |-> TRUE]
      OBVIOUS
    <3>1. u \in TakeRec /\ u.n = taken /\ u.len = elapsed /\ u.on = TRUE
      BY <2>1, <2>2 DEF TakesInv, Apart, TakeRec
    <3>2. u = [n |-> u.n, len |-> u.len, on |-> u.on]
      BY <3>1 DEF TakeRec
    <3>3. [u EXCEPT !.len = @ + 1] = [n |-> u.n, len |-> u.len + 1, on |-> u.on]
      BY <3>2
    <3> QED BY <3>1, <3>3
  <2>4. \A v \in ts : v = [n |-> taken, len |-> elapsed + 1, on |-> TRUE]
    BY <2>3
  <2>5. /\ full => takes' = {IF t.n = taken THEN [t EXCEPT !.on = FALSE] ELSE t : t \in ts}
        /\ ~full => takes' = ts /\ interval' = interval
    BY <1>6, <2>1 DEF Tick, StopSegment, TakesInv
  <2> HIDE DEF ts
  <2>6. full => \A v \in takes' : v = [n |-> taken, len |-> elapsed + 1, on |-> FALSE]
    BY <2>4, <2>5
  <2>7. ~full => \A v \in takes' : v = [n |-> taken, len |-> elapsed + 1, on |-> TRUE]
    BY <2>4, <2>5
  <2>8. \A v \in takes' : v \in TakeRec /\ v.n = taken /\ v.len = elapsed + 1 /\ (v.on => ~full)
    <3> HIDE DEF full
    <3>1. taken \in Nat /\ elapsed + 1 \in Nat
      BY DEF TakesInv
    <3>2. SUFFICES ASSUME NEW v \in takes'
                   PROVE v \in TakeRec /\ v.n = taken /\ v.len = elapsed + 1 /\ (v.on => ~full)
      OBVIOUS
    <3>3. CASE full
      <4>1. v = [n |-> taken, len |-> elapsed + 1, on |-> FALSE]
        BY <2>6, <3>3
      <4> QED BY <4>1, <3>1 DEF TakeRec
    <3>4. CASE ~full
      <4>1. v = [n |-> taken, len |-> elapsed + 1, on |-> TRUE]
        BY <2>7, <3>4
      <4> QED BY <4>1, <3>1, <3>4 DEF TakeRec
    <3> QED BY <3>3, <3>4
  <2>9. \A v, w \in takes' : v = w
    BY <2>6, <2>7
  <2>10. elapsed + 1 <= MAX_DURATION /\ total <= duration'
    BY <2>1, <2>2 DEF TakesInv
  <2>11. Apart(takes', taken, 0)
    BY <2>8, <2>9, <2>10 DEF Apart, TakesInv
  <2>12. TakesInv'
    BY <2>1, <2>2, <2>10, <2>11 DEF TakesInv
  <2>13. ~full => total + (elapsed + 1) < MAX_DURATION
    BY <2>2 DEF TakesInv
  <2> HIDE DEF full
  <2>14. WatchInv'
    BY <2>1, <2>2, <2>5, <2>8, <2>13 DEF WatchInv
  <2> QED BY <2>12, <2>14
<1>7. ASSUME NEW t \in takes, Delivered(t) PROVE TakesInv' /\ WatchInv'
  <2>1. /\ chunks' = chunks + t.len /\ total' = total + elapsed /\ duration' = total + elapsed
        /\ takes' = Stopped(takes \ {t}) /\ UNCHANGED <<taken, elapsed>>
    BY <1>7 DEF Delivered, CleanUp
  <2>2. Apart(takes \ {t}, taken, chunks + t.len)
    BY DEF TakesInv, Apart, TakeRec, Fits
  <2>3. Apart(takes', taken, chunks') /\ \A v \in takes' : ~v.on
    BY <2>1, <2>2, StoppedQuiet
  <2>4. chunks' \in Fits
    BY <2>1 DEF TakesInv, Apart, TakeRec, Fits
  <2> QED BY <2>1, <2>3, <2>4 DEF TakesInv, WatchInv
<1>8. CASE Reset
  <2>1. takes' = Stopped(takes) /\ total' = 0 /\ duration' = 0 /\ UNCHANGED <<taken, chunks, elapsed>>
    BY <1>8 DEF Reset, CleanUp
  <2>2. Apart(takes, taken, chunks)
    BY DEF TakesInv
  <2>3. Apart(takes', taken, chunks) /\ \A v \in takes' : ~v.on
    BY <2>1, <2>2, StoppedQuiet
  <2> QED BY <2>1, <2>3 DEF TakesInv, WatchInv
<1>9. ASSUME NEW j \in Job, Published(j) PROVE TakesInv' /\ WatchInv'
  BY <1>1, <1>2, <1>9 DEF Published, HandlePublished, recorder, clock
<1>10. CASE Record \/ Granted \/ Denied \/ CancelForm
  BY <1>1, <1>10 DEF Record, Granted, Denied, CancelForm, recorder, clock
<1>11. CASE Finish \/ Cancel
  BY <1>2, <1>11 DEF Finish, Cancel
<1>12. ASSUME NEW j \in Job, Publish(j) \/ Combined(j) \/ Uploaded(j) PROVE TakesInv' /\ WatchInv'
  BY <1>1, <1>12 DEF Publish, Combined, Uploaded, recorder, clock
<1>13. CASE UNCHANGED vars
  BY <1>1, <1>13 DEF vars
<1> QED BY <1>3, <1>4, <1>5, <1>6, <1>7, <1>8, <1>9, <1>10, <1>11, <1>12, <1>13 DEF Next

\* Only a delivered segment is appended, and it is what the chunks hold by then.
LEMMA ClipsStep ==
  ASSUME MAX_DURATION \in Nat, TakesInv, ClipsInv, [Next]_vars
  PROVE  ClipsInv'
<1>1. CASE UNCHANGED <<segments, clips, step, jobs, events>>
  BY <1>1 DEF ClipsInv
<1>2. <<>> \in Seq(Fits)
  OBVIOUS
<1>3. CASE Record \/ Granted \/ Denied \/ SwitchCamera \/ Press \/ Release \/ Tick
  <2>1. UNCHANGED <<segments, clips, jobs, events>> /\ (step' = step \/ step' = "record")
    BY <1>3 DEF Record, Granted, Denied, SwitchCamera, Press, Release, Tick, page
  <2> QED BY <2>1 DEF ClipsInv
<1>4. CASE Reset
  <2>1. segments' = <<>> /\ UNCHANGED <<clips, step, jobs, events>>
    BY <1>4 DEF Reset, page
  <2> QED BY <1>2, <2>1 DEF ClipsInv
<1>5. CASE Finish
  <2>1. segments # <<>> /\ clips' = segments /\ segments' = <<>> /\ UNCHANGED <<jobs, events>>
    BY <1>5 DEF Finish, Completed, Unmount
  <2> QED BY <1>2, <2>1 DEF ClipsInv
<1>6. CASE Cancel
  <2>1. /\ clips' = <<>> /\ segments' = <<>> /\ UNCHANGED <<jobs, events>>
        /\ step' \in {"choose", "left"}
    BY <1>6 DEF Cancel, Unmount
  <2> QED BY <1>2, <2>1 DEF ClipsInv
<1>7. CASE CancelForm
  <2>1. /\ clips' = <<>> /\ step' = "choose" /\ UNCHANGED <<segments, events>>
        /\ jobs' = [j \in Job |-> [jobs[j] EXCEPT !.mine = FALSE]]
    BY <1>7 DEF CancelForm, recorder
  <2> QED BY <1>2, <2>1 DEF ClipsInv
<1>8. ASSUME NEW t \in takes, Delivered(t) PROVE ClipsInv'
  <2>1. /\ segments' = Append(segments, chunks + t.len) /\ UNCHANGED <<clips, step, jobs, events>>
    BY <1>8 DEF Delivered, page
  <2>2. chunks + t.len \in Fits
    BY DEF TakesInv, Apart, TakeRec, Fits
  <2> QED BY <2>1, <2>2 DEF ClipsInv
<1>9. ASSUME NEW j \in Job, Publish(j) PROVE ClipsInv'
  <2>1. /\ step = "metadata" /\ UNCHANGED <<segments, clips, step, events>>
        /\ jobs' = [jobs EXCEPT ![j] = [st |-> "combine", clip |-> clips[1], mine |-> TRUE]]
    BY <1>9 DEF Publish, recorder
  <2>2. clips[1] \in Fits
    BY <2>1 DEF ClipsInv
  <2> QED BY <2>1, <2>2 DEF ClipsInv
<1>10. ASSUME NEW j \in Job, Combined(j) \/ Uploaded(j) PROVE ClipsInv'
  <2>1. /\ UNCHANGED <<segments, clips, step, events>>
        /\ \E st \in {"upload", "publish", "over"} : jobs' = At(j, st)
    BY <1>10 DEF Combined, Uploaded, recorder
  <2> QED BY <2>1 DEF ClipsInv, At
<1>11. ASSUME NEW j \in Job, Published(j) PROVE ClipsInv'
  <2>1. /\ jobs' = At(j, "over") /\ (segments' = segments \/ segments' = <<>>)
        /\ \/ UNCHANGED <<clips, step, events>>
           \/ clips' = <<>> /\ step' = "left" /\ events' = events \cup {jobs[j].clip}
    BY <1>11 DEF Published, HandlePublished, Unmount, recorder
  <2> QED BY <1>2, <2>1 DEF ClipsInv, At
<1>12. CASE UNCHANGED vars
  BY <1>1, <1>12 DEF vars
<1> QED BY <1>3, <1>4, <1>5, <1>6, <1>7, <1>8, <1>9, <1>10, <1>11, <1>12 DEF Next

\* For any limit, presses, camera requests and publications: what is recorded is watched
\* by the timer that ends it (handleRecordStart, stopSegment and the cleanup), and no
\* published video is longer than the limit.
THEOREM RecordingFitsHolds ==
  MAX_DURATION \in Nat => (Spec => [](RecordingIsWatched /\ PublishedFits))
<1> SUFFICES ASSUME MAX_DURATION \in Nat PROVE Spec => [](RecordingIsWatched /\ PublishedFits)
  OBVIOUS
<1> DEFINE Inv == TakesInv /\ WatchInv /\ ClipsInv
<1>1. Init => Inv
  BY StudioInit
<1>2. Inv /\ [Next]_vars => Inv'
  BY TakesStep, ClipsStep
<1>3. Inv => RecordingIsWatched /\ PublishedFits
  BY DEF WatchInv, ClipsInv, RecordingIsWatched, PublishedFits, Fits
<1> QED BY <1>1, <1>2, <1>3, PTL DEF Spec
=============================================================================
