------------------------------ MODULE WatchPage ------------------------------
(***************************************************************************)
(* The page /v/<id> of the static site: it dials its relays, waits for all *)
(* of them, asks those that are open for the video and then for its        *)
(* author's profile, and shows each copy that arrives. The id is that of   *)
(* an event, or of a Vine, which videos of several authors may carry.      *)
(*                                                                         *)
(* Texts, the avatar, the share button and the analytics call are left     *)
(* out.                                                                    *)
(***************************************************************************)
EXTENDS Integers, FiniteSets

CONSTANTS
  Relay,
  MaxCopy,  \* bound: events that relays deliver
  MaxClick  \* bound: clicks on the like button

VARIABLES
  target,   \* what the id stands for
  urls,     \* the videos whose event has a url
  conn,     \* connections: dialing, open, refused, lost
  subs,     \* what each relay was asked for: the video, an author's profile
  phase,    \* connecting, fetching, over
  timer,    \* the time allowed for the video: off, running, cleared, fired
  polling,  \* the interval that looks whether the video is there
  video,    \* the event last found, by its author; or nobody
  profile,  \* whose profile the page shows
  screen,   \* which of the three parts of the page are displayed
  broken,   \* the video element has failed
  buttons,  \* listeners of the like button
  liked,
  fair,     \* history: no video came after an error, nor the timeout in the half second
            \* before the interval would have seen the video
  copies, clicks

vars == <<target, urls, conn, subs, phase, timer, polling, video, profile, screen, broken, buttons,
          liked, fair, copies, clicks>>

Author == {"ann", "bob"}
Nobody == "nobody"

TypeOK ==
  /\ target \subseteq Author /\ urls \subseteq Author
  /\ conn \in [Relay -> {"dialing", "open", "refused", "lost"}]
  /\ subs \in [Relay -> [video : BOOLEAN, author : Author \cup {Nobody}]]
  /\ phase \in {"connecting", "fetching", "over"} /\ timer \in {"off", "running", "cleared", "fired"}
  /\ {video, profile} \subseteq Author \cup {Nobody}
  /\ screen \in [loading : BOOLEAN, viewer : BOOLEAN, error : BOOLEAN]
  /\ {polling, broken, liked, fair} \subseteq BOOLEAN
  /\ buttons \in 0..MaxCopy /\ copies \in 0..MaxCopy /\ clicks \in 0..MaxClick

Init ==
  /\ target \in {{"ann"}, Author} /\ urls \in SUBSET Author
  /\ conn = [r \in Relay |-> "dialing"]
  /\ subs = [r \in Relay |-> [video |-> FALSE, author |-> Nobody]]
  /\ phase = "connecting" /\ timer = "off" /\ polling = FALSE /\ video = Nobody /\ profile = Nobody
  /\ screen = [loading |-> TRUE, viewer |-> FALSE, error |-> FALSE]
  /\ broken = FALSE /\ buttons = 0 /\ liked = FALSE /\ fair = TRUE /\ copies = 0 /\ clicks = 0

Shown == <<video, profile, broken, buttons, liked, fair, copies, clicks>>
Given == <<target, urls>>

\* Mutant: the page still says that it loads.
Error_Loads == [loading |-> screen.loading, viewer |-> FALSE, error |-> TRUE]

Error == [loading |-> FALSE, viewer |-> FALSE, error |-> TRUE]

-----------------------------------------------------------------------------
(* Relays. *)

Connected(r) ==
  /\ conn[r] = "dialing" /\ conn' = [conn EXCEPT ![r] = "open"]
  /\ UNCHANGED <<Given, subs, phase, timer, polling, screen, Shown>>

\* An error, or ten seconds without an answer.
Refused(r) ==
  /\ conn[r] = "dialing" /\ conn' = [conn EXCEPT ![r] = "refused"]
  /\ UNCHANGED <<Given, subs, phase, timer, polling, screen, Shown>>

\* Nothing dials it again.
Lost(r) ==
  /\ conn[r] = "open" /\ conn' = [conn EXCEPT ![r] = "lost"]
  /\ UNCHANGED <<Given, subs, phase, timer, polling, screen, Shown>>

\* subscribeToEvents sends nothing to a relay that is not open.
Asked == [r \in Relay |-> [subs[r] EXCEPT !.video = conn[r] = "open"]]

\* Every promise has settled; those that are open by now are asked.
ConnectToRelays ==
  /\ phase = "connecting" /\ \A r \in Relay : conn[r] # "dialing"
  /\ \/ /\ \A r \in Relay : conn[r] = "refused"
        /\ phase' = "over" /\ screen' = Error /\ UNCHANGED <<subs, timer, polling>>
     \/ /\ \E r \in Relay : conn[r] # "refused"
        /\ phase' = "fetching" /\ timer' = "running" /\ polling' = TRUE
        /\ subs' = Asked
        /\ UNCHANGED screen
  /\ UNCHANGED <<Given, conn, Shown>>

-----------------------------------------------------------------------------
(* The video and its author. *)

\* Mutant: the part that says what went wrong is all there is to see.
Displayed_Over(a) ==
  IF a \in urls THEN [screen EXCEPT !.loading = FALSE] ELSE Error

\* displayVideoEvent: the error, if there is one, stays where it is.
Displayed(a) ==
  IF a \in urls THEN [screen EXCEPT !.loading = FALSE, !.viewer = TRUE] ELSE Error

\* A copy of the video from a relay that was asked: it is shown anew, and the author's
\* profile is asked for from all that are open.
VideoEvent(r) ==
  /\ conn[r] = "open" /\ subs[r].video /\ copies < MaxCopy /\ copies' = copies + 1
  /\ \E a \in target :
       /\ video' = a /\ screen' = Displayed(a)
       /\ buttons' = buttons + (IF a \in urls THEN 1 ELSE 0)
       /\ subs' = [q \in Relay |-> IF conn[q] = "open" THEN [subs[q] EXCEPT !.author = a] ELSE subs[q]]
  /\ broken' = FALSE /\ fair' = (fair /\ ~screen.error)
  /\ UNCHANGED <<Given, conn, phase, timer, polling, profile, liked, clicks>>

\* Mutant: any profile that arrives is the author's.
IsAuthors_Any(a) == video # Nobody

\* A profile that is asked for may come after another video has been found.
IsAuthors(a) == video = a

ProfileEvent(r) ==
  /\ conn[r] = "open" /\ subs[r].author # Nobody /\ copies < MaxCopy /\ copies' = copies + 1
  /\ \E a \in target : profile' = IF IsAuthors(a) THEN a ELSE profile
  /\ UNCHANGED <<Given, conn, subs, phase, timer, polling, video, screen, broken, buttons, liked,
                 fair, clicks>>

\* The interval, every half second; after a timeout it goes on.
CheckComplete ==
  /\ polling /\ video # Nobody /\ polling' = FALSE /\ timer' = IF timer = "running" THEN "cleared" ELSE timer
  /\ phase' = "over"
  /\ UNCHANGED <<Given, conn, subs, screen, Shown>>

TimedOut ==
  /\ timer = "running" /\ timer' = "fired" /\ phase' = "over"
  /\ screen' = IF phase = "over" THEN screen ELSE Error
  /\ fair' = (fair /\ (video = Nobody \/ ~polling))
  /\ UNCHANGED <<Given, conn, subs, polling, video, profile, broken, buttons, liked, copies, clicks>>

VideoBroken ==
  /\ video \in urls /\ screen.viewer /\ ~broken /\ broken' = TRUE /\ screen' = Error
  /\ UNCHANGED <<Given, conn, subs, phase, timer, polling, video, profile, buttons, liked, fair,
                 copies, clicks>>

\* Each listener toggles the heart.
Like ==
  /\ screen.viewer /\ clicks < MaxClick /\ clicks' = clicks + 1
  /\ liked' = (liked # (buttons % 2 = 1))
  /\ UNCHANGED <<Given, conn, subs, phase, timer, polling, video, profile, screen, broken, buttons,
                 fair, copies>>

Next ==
  \/ ConnectToRelays \/ CheckComplete \/ TimedOut \/ VideoBroken \/ Like
  \/ \E r \in Relay : Connected(r) \/ Refused(r) \/ Lost(r) \/ VideoEvent(r) \/ ProfileEvent(r)

Spec == Init /\ [][Next]_vars

-----------------------------------------------------------------------------
(* Properties. *)

\* When a video that can be played has been found, the page shows it, and nothing else,
\* whichever relays fail and however many copies come, if it is in time;
\* and it does not go on saying that it loads when there is nothing left to wait for.
FoundIsShown ==
  /\ fair /\ video \in urls /\ ~broken => screen = [loading |-> FALSE, viewer |-> TRUE, error |-> FALSE]
  /\ phase = "over" => ~screen.loading

\* A profile is put on the page only next to a video of the same author.
ProfileStep == profile' # profile => profile' = video'


-----------------------------------------------------------------------------
(* The inductive invariant of FoundIsShown. *)

\* Nothing is found before the relays were asked; while the page waits the interval runs;
\* and what has been found is on the screen, or the error is.
FoundInv ==
  /\ screen \in [loading : BOOLEAN, viewer : BOOLEAN, error : BOOLEAN]
  /\ target \subseteq Author /\ urls \subseteq Author
  /\ phase \in {"connecting", "fetching", "over"}
  /\ phase = "connecting" => /\ video = Nobody /\ timer = "off" /\ ~polling
                             /\ \A r \in Relay : ~subs[r].video
  /\ phase = "fetching" => polling
  /\ video # Nobody => ~screen.loading
  /\ FoundIsShown
==============================================================================
