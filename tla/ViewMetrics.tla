----------------------------- MODULE ViewMetrics ------------------------------
(***************************************************************************)
(* How long a player's video is watched: an accumulator that a timer fills *)
(* while the video plays, and that is flushed and published when the video *)
(* loops, when the player is given another video, and when it goes.        *)
(*                                                                         *)
(* Time is counted in seconds from the mount of the player; a timer may be *)
(* late, as in a tab in the background. Views that cannot be published are *)
(* lost: nothing waits for the relay's answer.                             *)
(***************************************************************************)
EXTENDS Integers

CONSTANTS
  Gap,      \* a gap of so many seconds is not counted
  MaxTime   \* bound: seconds

VARIABLES
  here,     \* the player is mounted
  user,     \* isAuthenticated
  playing,  \* isPlaying
  now,
  acc,      \* watchTimeAccumulatorRef
  last,     \* lastUpdateTimeRef
  tracked,  \* hasTrackedView
  position, \* lastPosition: "zero", "start" (in the first second), "middle" or "end"
  views     \* the seconds of all views published

vars == <<here, user, playing, now, acc, last, tracked, position, views>>

Position == {"zero", "start", "middle", "end"}

TypeOK ==
  /\ {here, user, playing, tracked} \subseteq BOOLEAN /\ position \in Position
  /\ {now, acc, last} \subseteq 0..MaxTime /\ views \in 0..(2 * MaxTime)

Init ==
  /\ here = TRUE /\ user \in BOOLEAN /\ playing = FALSE /\ now = 0 /\ acc = 0 /\ last = 0
  /\ tracked = FALSE /\ position = "zero" /\ views = 0

Tick ==
  /\ here /\ now < MaxTime /\ now' = now + 1
  /\ UNCHANGED <<here, user, playing, acc, last, tracked, position, views>>

Counted == LET elapsed == now - last IN IF elapsed < Gap THEN acc + elapsed ELSE acc

\* Mutant: a flush does not note the time.
Flush_Untimed == acc' = Counted /\ UNCHANGED last

\* The timer, and flushWatchTime.
Flush == acc' = Counted /\ last' = now

Timer ==
  /\ here /\ playing /\ Flush
  /\ UNCHANGED <<here, user, playing, now, tracked, position, views>>

\* The video starts to play: what has passed since the last update is not counted.
Play ==
  /\ here /\ ~playing /\ playing' = TRUE /\ tracked' = TRUE /\ last' = now
  /\ UNCHANGED <<here, user, now, acc, position, views>>

Pause ==
  /\ here /\ playing /\ playing' = FALSE
  /\ UNCHANGED <<here, user, now, acc, last, tracked, position, views>>

\* publishViewEvent of so many seconds.
Published(watched) == views' = views + watched

\* flushWatchTime and publishAndReset; without a user the time is kept.
FlushAndPublish ==
  LET watched == Counted
  IN  IF user /\ watched >= 1 THEN Published(watched) /\ acc' = 0 /\ last' = now
      ELSE Flush /\ UNCHANGED views

\* The position changes, by playing or by a seek, perhaps of a paused video.
Move(to) ==
  /\ here /\ to # position /\ to # "zero"
  /\ IF position = "end" /\ to = "start" THEN FlushAndPublish ELSE UNCHANGED <<acc, last, views>>
  /\ position' = to /\ UNCHANGED <<here, user, playing, now, tracked>>

\* Another video: what is left is published, under the name of the new one, and dropped.
Change ==
  /\ here /\ IF user /\ Counted >= 1 THEN Published(Counted) ELSE UNCHANGED views
  /\ acc' = 0 /\ last' = now /\ position' = "zero" /\ tracked' = playing
  /\ UNCHANGED <<here, user, playing, now>>

\* What the accumulator holds is published, without a flush.
Unmount ==
  /\ here /\ here' = FALSE /\ playing' = FALSE
  /\ IF user /\ acc >= 1 THEN Published(acc) /\ acc' = 0 ELSE UNCHANGED <<views, acc>>
  /\ UNCHANGED <<user, now, last, tracked, position>>

SignInOut ==
  here /\ user' = ~user
  /\ UNCHANGED <<here, playing, now, acc, last, tracked, position, views>>

Next ==
  \/ Tick \/ Timer \/ Play \/ Pause \/ Change \/ Unmount \/ SignInOut
  \/ \E to \in Position : Move(to)

Spec == Init /\ [][Next]_vars

\* "Reset accumulator before the async call to prevent double-counting": no second is
\* in two views, or in a view and still in the accumulator, whatever the order of the
\* timer, loops, seeks, pauses, changes of the video and of the user.
NoSecondTwice == views + acc <= now

\* What the watched seconds are counted up to: the last update, which is not in the
\* future; a flush moves it with the accumulator, and a view empties the accumulator.
CountedOnce ==
  /\ {now, acc, last, views} \subseteq Nat
  /\ last <= now /\ views + acc <= last
=============================================================================
