----------------------------- MODULE ActivePlayer -----------------------------
(***************************************************************************)
(* Which video plays: the context that picks the most visible one, the     *)
(* players of the feed, those of the fullscreen feed that covers it, and   *)
(* the media elements of the browser, whose play events are handled later. *)
(* Effects run after the render that makes them due. A player that fails   *)
(* is taken down by its parent, so a failure is an unmount. The observer   *)
(* reports a visibility of 0..2, which a cover does not change. isPlaying, *)
(* which lags the element and of which a tap makes a play or a pause, and  *)
(* gestures other than a tap are left out.                                 *)
(***************************************************************************)
EXTENDS Integers, Sequences, FiniteSets, SequencesExt, TLAPS

CONSTANTS
  Document,        \* the players of the feed in the order of the document
  Full,            \* the players of the fullscreen feed, which come after them
  VideoOf,         \* the video a player shows
  None,
  MAX_VIDEO_REFS,
  MaxAct           \* bound: acts of the user and reports of the observer

Feed == ToSet(Document)
Player == Feed \cup Full
Video == {VideoOf[p] : p \in Player}

VARIABLES
  active,   \* activeVideoId
  ratio,    \* videoVisibility; 0 stands for no entry
  order,    \* registrationOrder
  timer,    \* whether the debounce timer runs
  silent,   \* globalMuted
  before,   \* previousMutedState of the fullscreen feed
  current,  \* the fullscreen feed's current player, None when it is closed
  claim,    \* whether the effect of the current FullscreenVideoItem is due
  pl,       \* the players and their elements
  acts

vars == <<active, ratio, order, timer, silent, before, current, claim, pl, acts>>
context == <<active, ratio, order, timer>>
screen == <<silent, before, current, claim>>

\* due: the effects to run; entry: the observer's last report; started: a play event
\* is to come; resume: an animation frame of the mute effect is to come (those asked
\* for before it are one); stopped (history): a tap or the browser stopped it.
Gone == [up |-> FALSE, due |-> {}, entry |-> 0, loaded |-> FALSE, playing |-> FALSE,
         started |-> FALSE, resume |-> FALSE, stopped |-> FALSE]
Mounted == [Gone EXCEPT !.up = TRUE, !.due = {"play", "mute"}]

TypeOK ==
  /\ active \in Video \cup {None} /\ ratio \in [Video -> 0..2]
  /\ order \in Seq(Video) /\ IsInjective(order) /\ Len(order) <= MAX_VIDEO_REFS
  /\ {timer, silent, before, claim} \subseteq BOOLEAN
  /\ current \in Full \cup {None} /\ acts \in 0..MaxAct
  /\ \A p \in Player :
       /\ DOMAIN pl[p] = DOMAIN Gone /\ pl[p].entry \in 0..2
       /\ pl[p].due \subseteq {"context", "play", "mute"}

\* The first card of the feed is mounted.
Init ==
  /\ active = None /\ ratio = [v \in Video |-> 0] /\ timer = TRUE
  /\ silent = TRUE /\ before = TRUE /\ current = None /\ claim = FALSE
  /\ acts = 0
  /\ \E p0 \in Feed :
       /\ pl = [p \in Player |-> IF p = p0 THEN Mounted ELSE Gone]
       /\ order = <<VideoOf[p0]>>

Up == {p \in Player : pl[p].up}
IsActive(p) == VideoOf[p] = active
IsReady(p) == IsActive(p) /\ pl[p].loaded

\* React runs the effects that are due before it renders anew.
Rested == ~claim /\ \A p \in Up : pl[p].due = {}
Act == Rested /\ acts < MaxAct /\ acts' = acts + 1

\* Player q after play(), whose event is still to come, and after pause().
Play(q) == IF q.playing THEN q
           ELSE [q EXCEPT !.playing = TRUE, !.started = TRUE, !.stopped = FALSE]
Pause(q) == [q EXCEPT !.playing = FALSE]

\* play() outside of a click, which the browser may refuse when there is sound.
TryPlay(q, refused) == IF refused /\ ~q.playing THEN [q EXCEPT !.stopped = TRUE] ELSE Play(q)

-----------------------------------------------------------------------------
(* VideoPlaybackContext. *)

\* The players in f once the context is rendered with active video a: its functions
\* are new, and so are the dependencies of every player's cleanup.
Rendered(f, a) ==
  [p \in Player |->
     IF ~f[p].up THEN f[p]
     ELSE [f[p] EXCEPT !.due = @ \cup {"context"} \cup
             (IF (VideoOf[p] = a) # IsActive(p) THEN {"play", "mute"} ELSE {})]]

\* registerVideo: the oldest above the limit go, with their visibility but for the
\* active one's.
Register(S) ==
  LET seq == SelectSeq(order, LAMBDA v : v \notin S) \o SetToSeq(S)
      cut == IF Len(seq) > MAX_VIDEO_REFS THEN Len(seq) - MAX_VIDEO_REFS ELSE 0
      pruned == ToSet(SubSeq(seq, 1, cut)) \ {active}
  IN  /\ order' = SubSeq(seq, cut + 1, Len(seq))
      /\ ratio' = [v \in Video |-> IF v \in S \cup pruned THEN 0 ELSE ratio[v]]
      /\ timer' = TRUE

\* Mutant: a player that goes is unregistered and no more.
Unregister_Silently(S) ==
  /\ order' = SelectSeq(order, LAMBDA v : v \notin S)
  /\ ratio' = [v \in Video |-> IF v \in S THEN 0 ELSE ratio[v]]
  /\ UNCHANGED timer

\* unregisterVideo, and the visibility of zero a player reports when it goes.
Unregister(S) ==
  /\ order' = SelectSeq(order, LAMBDA v : v \notin S)
  /\ ratio' = [v \in Video |-> IF v \in S THEN 0 ELSE ratio[v]]
  /\ timer' = TRUE

\* The most visible of the videos; of two alike the one that was reported first.
MostVisible ==
  LET seen == {v \in Video : ratio[v] > 0}
  IN  IF seen = {} THEN {None} ELSE {v \in seen : \A w \in seen : ratio[v] >= ratio[w]}

\* updateVideoVisibility, 100 ms after the last report.
Debounced ==
  /\ Rested /\ timer /\ timer' = FALSE
  /\ \E v \in MostVisible :
       /\ active' = v
       /\ pl' = (IF v = active THEN pl ELSE Rendered(pl, v))
       /\ claim' = (claim \/ (v # active /\ current # None))
  /\ UNCHANGED <<ratio, order, silent, before, current, acts>>

-----------------------------------------------------------------------------
(* The effects of the players. *)

\* The cleanup meant for the unmount, which runs when the context's functions change.
CleanUp(q) == IF "context" \in q.due THEN Pause(q) ELSE q

\* The effect on the active status: it plays when ready, and is stopped when another
\* video is active.
Control(p, q, refused) ==
  IF "play" \notin q.due \/ (IsActive(p) /\ ~q.loaded) THEN q
  ELSE IF IsActive(p) THEN TryPlay(q, refused) ELSE Pause(q)

\* Mutant: nothing looks at the element again after the mute state has changed.
SyncMuted_Once(p, q, hushed) == IF "mute" \in q.due /\ hushed THEN Pause(q) ELSE q

\* The effect on the mute state; the browser may hush what is given a sound.
SyncMuted(p, q, hushed) ==
  IF "mute" \notin q.due THEN q
  ELSE [(IF hushed THEN Pause(q) ELSE q) EXCEPT !.resume = @ \/ IsReady(p)]

AfterEffects(p, refused, hushed) ==
  [SyncMuted(p, Control(p, CleanUp(pl[p]), refused), hushed) EXCEPT !.due = {}]

\* The visibility effects report every video again; a fullscreen player comes last.
LastShowing(v) ==
  LET S == {p \in Up : VideoOf[p] = v}
  IN  IF S \cap Full # {} THEN S \cap Full ELSE S
Reported(v) == IF LastShowing(v) = {} THEN 0 ELSE pl[CHOOSE p \in LastShowing(v) : TRUE].entry

\* The players with an effect of kind e due that the browser may refuse or hush.
Sounding(e) == IF silent THEN {} ELSE {p \in Up : e \in pl[p].due /\ IsReady(p)}

\* All effects that are due run; at the end that of the current FullscreenVideoItem
\* makes its video the active one.
Effects ==
  LET a == IF claim /\ current # None THEN VideoOf[current] ELSE active
  IN  /\ ~Rested
      /\ \E R \in SUBSET Sounding("play"), H \in SUBSET Sounding("mute") :
           LET f == [p \in Player |-> AfterEffects(p, p \in R, p \in H)]
           IN  pl' = IF a = active THEN f ELSE Rendered(f, a)
      /\ active' = a /\ claim' = (a # active)
      /\ IF \E p \in Up : "context" \in pl[p].due
         THEN /\ order' = SelectSeq(order, LAMBDA v : \A p \in Up : VideoOf[p] # v)
              /\ ratio' = [v \in Video |-> Reported(v)] /\ timer' = TRUE
         ELSE UNCHANGED <<ratio, order, timer>>
      /\ UNCHANGED <<silent, before, current, acts>>

\* The second animation frame after a mute effect: what was paused goes on.
Resume(p) ==
  /\ pl[p].resume
  /\ \E refused \in IF silent THEN {FALSE} ELSE BOOLEAN :
       pl' = [pl EXCEPT ![p] = [TryPlay(@, refused) EXCEPT !.resume = FALSE]]
  /\ UNCHANGED <<context, screen, acts>>

-----------------------------------------------------------------------------
(* Media elements. *)

\* The first data has arrived: isLoading is reset.
LoadedData(p) ==
  /\ Rested /\ pl[p].up /\ ~pl[p].loaded
  /\ pl' = [pl EXCEPT ![p].loaded = TRUE, ![p].due = @ \cup {"play", "mute"}]
  /\ UNCHANGED <<context, screen, acts>>

\* Mutant: handlePlay lets an inactive video play.
OnPlay_Unchecked(p, q) == q

\* handlePlay.
OnPlay(p, q) == IF IsActive(p) THEN q ELSE Pause(q)

PlayEvent(p) ==
  /\ pl[p].started
  /\ pl' = [pl EXCEPT ![p] = OnPlay(p, [@ EXCEPT !.started = FALSE])]
  /\ UNCHANGED <<context, screen, acts>>

-----------------------------------------------------------------------------
(* The user and the observer. *)

\* The observer reports a change of a mounted player's visibility.
Observe(p, r) ==
  /\ Act /\ pl[p].up /\ r # pl[p].entry /\ (p \in Full => r = IF p = current THEN 2 ELSE 0)
  /\ pl' = [pl EXCEPT ![p].entry = r]
  /\ ratio' = [ratio EXCEPT ![VideoOf[p]] = r] /\ timer' = TRUE
  /\ UNCHANGED <<active, order, screen>>

\* A card of the feed shows its player, or no longer does.
MountCard(p) ==
  /\ Act /\ p \in Feed /\ ~pl[p].up /\ current = None
  /\ pl' = [pl EXCEPT ![p] = Mounted] /\ Register({VideoOf[p]})
  /\ UNCHANGED <<active, screen>>

\* The browser pauses an element that is taken out of the document; a frame that
\* is to come may play it again.
Removed(q) == [Gone EXCEPT !.resume = q.resume]

UnmountCard(p) ==
  /\ Act /\ p \in Feed /\ pl[p].up
  /\ pl' = [pl EXCEPT ![p] = Removed(@)] /\ Unregister({VideoOf[p]})
  /\ UNCHANGED <<active, screen>>

\* setGlobalMuted, seen by the players in f.
WithMuted(f, m) ==
  IF m = silent THEN f
  ELSE [p \in Player |->
          IF f[p].up THEN [f[p] EXCEPT !.due = @ \cup {"context", "mute"}] ELSE f[p]]

\* togglePlay, on a card.
Toggled(q) == {Play(q), [Pause(q) EXCEPT !.stopped = TRUE]}

Tap(p) ==
  /\ Act /\ p \in Feed /\ pl[p].up /\ current = None
  /\ \E q \in Toggled(pl[p]) : pl' = [pl EXCEPT ![p] = q]
  /\ UNCHANGED <<context, screen>>

\* handleOverlayClick takes the first element of the document.
TapOverlay ==
  /\ Act /\ current # None
  /\ LET fs == SelectSeq(Document, LAMBDA p : pl[p].up)
         first == IF fs = <<>> THEN current ELSE fs[1]
     IN  pl' = [pl EXCEPT ![first] =
                  IF @.playing THEN [Pause(@) EXCEPT !.stopped = TRUE] ELSE Play(@)]
  /\ UNCHANGED <<context, screen>>

MuteButton ==
  /\ Act /\ silent' = ~silent /\ pl' = WithMuted(pl, ~silent)
  /\ claim' = (current # None) /\ UNCHANGED <<context, before, current>>

\* The fullscreen feed opens on the video of a card, over the feed and with sound.
EnterFullscreen(p) ==
  /\ Act /\ current = None /\ p \in Full /\ \E c \in Feed \cap Up : VideoOf[c] = VideoOf[p]
  /\ current' = p /\ claim' = TRUE
  /\ before' = silent /\ silent' = FALSE
  /\ pl' = WithMuted([q \in Player |-> IF q \in Full THEN [Mounted EXCEPT !.resume = pl[q].resume]
                                       ELSE pl[q]], FALSE)
  /\ Register({VideoOf[q] : q \in Full}) /\ UNCHANGED active

\* handleScroll.
ScrollTo(p) ==
  /\ Act /\ current \notin {None, p} /\ p \in Full
  /\ current' = p /\ claim' = TRUE
  /\ UNCHANGED <<context, silent, before, pl>>

ExitFullscreen ==
  /\ Act /\ current # None
  /\ current' = None /\ claim' = FALSE /\ silent' = before
  /\ pl' = WithMuted([q \in Player |-> IF q \in Full THEN Removed(pl[q]) ELSE pl[q]], before)
  /\ Unregister({VideoOf[q] : q \in Full}) /\ UNCHANGED <<active, before>>

Next ==
  \/ Debounced \/ Effects \/ TapOverlay \/ MuteButton \/ ExitFullscreen
  \/ \E p \in Player :
       \/ Resume(p) \/ LoadedData(p) \/ PlayEvent(p)
       \/ \E r \in 0..2 : Observe(p, r)
       \/ MountCard(p) \/ UnmountCard(p) \/ Tap(p) \/ EnterFullscreen(p) \/ ScrollTo(p)

Spec == Init /\ [][Next]_vars

-----------------------------------------------------------------------------
(* Properties. *)

AtRest ==
  /\ Rested /\ ~timer
  /\ \A p \in Player : ~pl[p].started /\ ~pl[p].resume

\* Once timers, effects and events have run, no mounted player plays a video other
\* than the active one, whatever was tapped, refused or resumed meanwhile.
OnlyTheActivePlays ==
  AtRest => \A p \in Up : pl[p].playing => IsActive(p)

\* The player of the active video plays when it has its data, unless a tap or the
\* browser stopped it: a cleanup that pauses it is always made good.
TheActivePlays ==
  AtRest => \A p \in Up : IsReady(p) /\ ~pl[p].stopped => pl[p].playing

\* Outside of fullscreen no video that is more visible waits for the active one.
ActiveIsMostVisible ==
  AtRest /\ current = None => active \in MostVisible

-----------------------------------------------------------------------------
(* Proofs. *)

Effect == {"context", "play", "mute"}
State == [up : BOOLEAN, due : SUBSET Effect, entry : 0..2, loaded : BOOLEAN,
          playing : BOOLEAN, started : BOOLEAN, resume : BOOLEAN, stopped : BOOLEAN]

\* Player p in state q, when the active video is a: one that plays what is not active
\* will be stopped by an effect or by the handler of its play event, one that is ready
\* and was not stopped will be played by an effect or by an animation frame, and the
\* cleanup never runs on a ready one without another effect.
Due(p, q, a) ==
  LET ready == VideoOf[p] = a /\ q.loaded IN
  q.up =>
    /\ q.playing => VideoOf[p] = a \/ q.started \/ "play" \in q.due
    /\ ready /\ ~q.stopped /\ ~q.playing => q.resume \/ "play" \in q.due \/ "mute" \in q.due
    /\ ready /\ "context" \in q.due => "play" \in q.due \/ "mute" \in q.due

PlayersDue == pl \in [Player -> State] /\ \A p \in Player : Due(p, pl[p], active)

\* What play() and pause() change of a player.
LEMMA PlayPause ==
  ASSUME NEW q \in State
  PROVE  /\ Play(q) \in State /\ Pause(q) \in State
         /\ \A r \in {Play(q), Pause(q)} :
              r.up = q.up /\ r.due = q.due /\ r.loaded = q.loaded /\ r.resume = q.resume
         /\ Play(q).playing /\ ~Pause(q).playing
         /\ Play(q).started = (q.started \/ ~q.playing) /\ Pause(q).started = q.started
         /\ Pause(q).stopped = q.stopped
  BY DEF Play, Pause, State

LEMMA TryPlayIs ==
  ASSUME NEW q \in State, NEW refused \in BOOLEAN
  PROVE  LET r == TryPlay(q, refused) IN
         /\ r \in State
         /\ r.up = q.up /\ r.due = q.due /\ r.loaded = q.loaded /\ r.resume = q.resume
         /\ r.playing \/ r.stopped
         /\ r.playing => q.playing \/ r.started
         /\ q.started => r.started
  BY DEF TryPlay, Play, State

\* A player whose effects have run is as its active status asks for.
LEMMA AfterEffectsDue ==
  ASSUME NEW p \in Player, NEW refused \in BOOLEAN, NEW hushed \in BOOLEAN,
         pl[p] \in State, Due(p, pl[p], active)
  PROVE  LET f == AfterEffects(p, refused, hushed) IN
         f \in State /\ Due(p, f, active) /\ f.up = pl[p].up /\ f.due = {}
<1> DEFINE c == CleanUp(pl[p])
           d == Control(p, c, refused)
           e == IF hushed THEN Pause(d) ELSE d
           f == AfterEffects(p, refused, hushed)
<1>1. /\ c \in State /\ c.up = pl[p].up /\ c.due = pl[p].due /\ c.loaded = pl[p].loaded
      /\ c.resume = pl[p].resume /\ c.started = pl[p].started /\ c.stopped = pl[p].stopped
      /\ c.playing = (pl[p].playing /\ "context" \notin pl[p].due)
  BY PlayPause DEF CleanUp, State
<1> HIDE DEF c
<1>2. /\ d \in State /\ d.up = c.up /\ d.due = c.due /\ d.loaded = c.loaded
      /\ d.resume = c.resume
      /\ "play" \in c.due /\ ~IsActive(p) => ~d.playing
      /\ "play" \in c.due /\ IsReady(p) => d.playing \/ d.stopped
      /\ "play" \notin c.due => d = c
      /\ d.playing => IsActive(p) \/ c.playing
  BY <1>1, PlayPause, TryPlayIs DEF Control, IsReady
<1>3. "play" \in c.due /\ ~IsReady(p) /\ IsActive(p) => d = c
  BY <1>1 DEF Control, IsReady
<1> HIDE DEF d
<1>4. e \in State /\ e.up = d.up /\ e.due = d.due /\ e.loaded = d.loaded
      /\ e.resume = d.resume /\ e.started = d.started /\ e.stopped = d.stopped
      /\ e.playing = (d.playing /\ ~hushed)
  BY <1>2, PlayPause DEF State
<1>5. f = [SyncMuted(p, d, hushed) EXCEPT !.due = {}]
  BY DEF AfterEffects, c, d
<1>6. CASE "mute" \notin pl[p].due
  <2>1. f = [d EXCEPT !.due = {}]
    BY <1>1, <1>2, <1>5, <1>6 DEF SyncMuted
  <2>2. /\ f \in State /\ f.up = d.up /\ f.due = {} /\ f.loaded = d.loaded
        /\ f.playing = d.playing /\ f.started = d.started /\ f.resume = d.resume
        /\ f.stopped = d.stopped
    BY <1>2, <2>1 DEF State
  <2> QED BY <1>1, <1>2, <1>3, <1>6, <2>2 DEF Due, IsReady, IsActive
<1>7. CASE "mute" \in pl[p].due
  <2>1. f = [[e EXCEPT !.resume = @ \/ IsReady(p)] EXCEPT !.due = {}]
    BY <1>1, <1>2, <1>5, <1>7 DEF SyncMuted
  <2>2. IsReady(p) \in BOOLEAN
    BY DEF IsReady, IsActive
  <2>3. /\ f \in State /\ f.up = e.up /\ f.due = {} /\ f.loaded = e.loaded
        /\ f.playing = e.playing /\ f.started = e.started
        /\ f.resume = (e.resume \/ IsReady(p)) /\ f.stopped = e.stopped
    BY <1>4, <2>1, <2>2 DEF State
  <2> QED BY <1>1, <1>2, <1>3, <1>4, <1>7, <2>3 DEF Due, IsReady, IsActive
<1> QED BY <1>6, <1>7

\* The effects that a change of the active video, or of the mute state, makes due are
\* those that put every player right.
LEMMA RenderedDue ==
  ASSUME NEW f \in [Player -> State], \A p \in Player : Due(p, f[p], active),
         NEW a, a # active
  PROVE  /\ Rendered(f, a) \in [Player -> State]
         /\ \A p \in Player : Due(p, Rendered(f, a)[p], a)
<1> SUFFICES ASSUME NEW p \in Player
             PROVE  Rendered(f, a)[p] \in State /\ Due(p, Rendered(f, a)[p], a)
  BY DEF Rendered
<1> DEFINE new == {"context"} \cup
                    (IF (VideoOf[p] = a) # IsActive(p) THEN {"play", "mute"} ELSE {})
           g == Rendered(f, a)[p]
<1>1. f[p] \in State /\ new \subseteq Effect
  BY DEF Effect
<1>2. g = IF ~f[p].up THEN f[p] ELSE [f[p] EXCEPT !.due = @ \cup new]
  BY DEF Rendered
<1>3. (VideoOf[p] = a) # IsActive(p) => "play" \in new
  OBVIOUS
<1> HIDE DEF new, g
<1>4. /\ g \in State /\ g.up = f[p].up /\ g.loaded = f[p].loaded /\ g.playing = f[p].playing
      /\ g.started = f[p].started /\ g.resume = f[p].resume /\ g.stopped = f[p].stopped
      /\ f[p].up => g.due = f[p].due \cup new
  BY <1>1, <1>2 DEF State
<1> QED BY <1>3, <1>4 DEF Due, IsActive, g

LEMMA WithMutedDue ==
  ASSUME NEW f \in [Player -> State], \A p \in Player : Due(p, f[p], active), NEW m
  PROVE  /\ WithMuted(f, m) \in [Player -> State]
         /\ \A p \in Player : Due(p, WithMuted(f, m)[p], active)
<1>1. CASE m = silent
  BY <1>1 DEF WithMuted
<1>2. ASSUME m # silent, NEW p \in Player
      PROVE  WithMuted(f, m)[p] \in State /\ Due(p, WithMuted(f, m)[p], active)
  <2> DEFINE g == WithMuted(f, m)[p]
  <2>1. f[p] \in State /\ {"context", "mute"} \subseteq Effect
    BY DEF Effect
  <2>2. g = IF f[p].up THEN [f[p] EXCEPT !.due = @ \cup {"context", "mute"}] ELSE f[p]
    BY <1>2 DEF WithMuted
  <2> HIDE DEF g
  <2>3. /\ g \in State /\ g.up = f[p].up /\ g.loaded = f[p].loaded
        /\ g.playing = f[p].playing /\ g.started = f[p].started /\ g.resume = f[p].resume
        /\ g.stopped = f[p].stopped /\ (f[p].up => g.due = f[p].due \cup {"context", "mute"})
    BY <2>1, <2>2 DEF State
  <2> QED BY <2>3 DEF Due, g
<1>3. m # silent => DOMAIN WithMuted(f, m) = Player /\ WithMuted(f, m) = [p \in Player |-> WithMuted(f, m)[p]]
  BY DEF WithMuted
<1> QED BY <1>1, <1>2, <1>3

\* A player that has just been mounted, with a frame that may be to come; one taken down.
LEMMA MountedDue ==
  ASSUME NEW p \in Player, NEW resume \in BOOLEAN, NEW a
  PROVE  /\ [Mounted EXCEPT !.resume = resume] \in State
         /\ Due(p, [Mounted EXCEPT !.resume = resume], a)
         /\ Mounted \in State /\ Due(p, Mounted, a)
         /\ [Gone EXCEPT !.resume = resume] \in State
         /\ Due(p, [Gone EXCEPT !.resume = resume], a) /\ Gone \in State /\ Due(p, Gone, a)
<1>0. Gone \in State /\ ~Gone.up /\ Gone.playing = FALSE /\ Gone.loaded = FALSE
  BY DEF Gone, State
<1>1. Mounted \in State /\ Mounted.playing = FALSE /\ Mounted.loaded = FALSE
  BY <1>0 DEF Mounted, State, Effect
<1>2. ASSUME NEW q \in State
      PROVE  LET r == [q EXCEPT !.resume = resume] IN
             r \in State /\ r.up = q.up /\ r.playing = q.playing /\ r.loaded = q.loaded
  BY DEF State
<1> QED BY <1>0, <1>1, <1>2 DEF Due

\* What changes one player and leaves the others and the active video alone keeps the
\* invariant if it keeps it of that player.
LEMMA OnePlayer ==
  ASSUME PlayersDue, NEW p \in Player, NEW q \in State, Due(p, q, active),
         pl' = [pl EXCEPT ![p] = q], active' = active
  PROVE  PlayersDue'
  BY DEF PlayersDue, Due

LEMMA PlayersDueStep == PlayersDue /\ [Next]_vars => PlayersDue'
<1> SUFFICES ASSUME PlayersDue, [Next]_vars PROVE PlayersDue'
  OBVIOUS
<1>0. \A p \in Player : pl[p] \in State /\ Due(p, pl[p], active)
  BY DEF PlayersDue
<1>1. CASE Debounced
  <2> PICK v \in MostVisible : active' = v /\ pl' = (IF v = active THEN pl ELSE Rendered(pl, v))
    BY <1>1 DEF Debounced
  <2> QED BY RenderedDue DEF PlayersDue
<1>2. CASE Effects
  <2> DEFINE a == IF claim /\ current # None THEN VideoOf[current] ELSE active
  <2> PICK R, H :
        LET f == [p \in Player |-> AfterEffects(p, p \in R, p \in H)] IN
        pl' = (IF a = active THEN f ELSE Rendered(f, a)) /\ active' = a
    BY <1>2 DEF Effects
  <2> DEFINE f == [p \in Player |-> AfterEffects(p, p \in R, p \in H)]
  <2>1. ASSUME NEW p \in Player PROVE f[p] \in State /\ Due(p, f[p], active)
    <3>1. (p \in R) \in BOOLEAN /\ (p \in H) \in BOOLEAN
      OBVIOUS
    <3>2. f[p] = AfterEffects(p, p \in R, p \in H)
      OBVIOUS
    <3> HIDE DEF f
    <3> QED BY <1>0, <3>1, <3>2, AfterEffectsDue
  <2>2. pl' = (IF a = active THEN f ELSE Rendered(f, a)) /\ active' = a
    OBVIOUS
  <2>3. f \in [Player -> State]
    BY <2>1
  <2> HIDE DEF a, f
  <2> QED BY <2>1, <2>2, <2>3, RenderedDue DEF PlayersDue
<1>3. ASSUME NEW p \in Player, Resume(p) PROVE PlayersDue'
  <2> PICK refused \in BOOLEAN : pl' = [pl EXCEPT ![p] = [TryPlay(@, refused) EXCEPT !.resume = FALSE]]
    BY <1>3 DEF Resume
  <2> DEFINE r == TryPlay(pl[p], refused)
             q == [r EXCEPT !.resume = FALSE]
  <2>1. /\ r \in State /\ r.up = pl[p].up /\ r.due = pl[p].due /\ r.loaded = pl[p].loaded
        /\ r.playing \/ r.stopped
        /\ r.playing => pl[p].playing \/ r.started
        /\ pl[p].started => r.started
    BY <1>0, TryPlayIs
  <2>2. pl' = [pl EXCEPT ![p] = q] /\ active' = active
    BY <1>3 DEF Resume, context
  <2> HIDE DEF r
  <2>3. q \in State /\ Due(p, q, active)
    BY <1>0, <2>1 DEF Due, State
  <2> QED BY <2>2, <2>3, OnePlayer
<1>4. ASSUME NEW p \in Player, LoadedData(p) PROVE PlayersDue'
  <2> DEFINE q == [pl[p] EXCEPT !.loaded = TRUE, !.due = @ \cup {"play", "mute"}]
  <2>1. pl' = [pl EXCEPT ![p] = q] /\ active' = active
    BY <1>0, <1>4 DEF LoadedData, context, PlayersDue, State
  <2>2. q \in State /\ Due(p, q, active)
    BY <1>0 DEF Due, State, Effect
  <2> QED BY <2>1, <2>2, OnePlayer
<1>5. ASSUME NEW p \in Player, PlayEvent(p) PROVE PlayersDue'
  <2> DEFINE r == [pl[p] EXCEPT !.started = FALSE]
             q == OnPlay(p, r)
  <2>1. pl' = [pl EXCEPT ![p] = q] /\ active' = active
    BY <1>5 DEF PlayEvent, context
  <2>2. q \in State /\ Due(p, q, active)
    BY <1>0 DEF Due, State, OnPlay, Pause, IsActive
  <2> QED BY <2>1, <2>2, OnePlayer
<1>6. ASSUME NEW p \in Player, NEW r \in 0..2, Observe(p, r) PROVE PlayersDue'
  <2> DEFINE q == [pl[p] EXCEPT !.entry = r]
  <2>1. pl' = [pl EXCEPT ![p] = q] /\ active' = active
    BY <1>0, <1>6 DEF Observe, PlayersDue, State
  <2>2. q \in State /\ Due(p, q, active)
    BY <1>0 DEF Due, State
  <2> QED BY <2>1, <2>2, OnePlayer
<1>7. ASSUME NEW p \in Player, MountCard(p) PROVE PlayersDue'
  BY <1>7, MountedDue, OnePlayer DEF MountCard
<1>8. ASSUME NEW p \in Player, UnmountCard(p) PROVE PlayersDue'
  <2>1. pl' = [pl EXCEPT ![p] = [Gone EXCEPT !.resume = pl[p].resume]] /\ active' = active
    BY <1>8 DEF UnmountCard, Removed
  <2>2. pl[p].resume \in BOOLEAN
    BY <1>0 DEF State
  <2> QED BY <2>1, <2>2, MountedDue, OnePlayer
<1>9. ASSUME NEW p \in Player, NEW q \in Toggled(pl[p]), pl' = [pl EXCEPT ![p] = q],
             active' = active
      PROVE  PlayersDue'
  <2>1. q \in State /\ Due(p, q, active)
    BY <1>0, <1>9 DEF Due, State, Toggled, Play, Pause
  <2> QED BY <1>9, <2>1, OnePlayer
<1>10. ASSUME NEW p \in Player, Tap(p) PROVE PlayersDue'
  BY <1>9, <1>10 DEF Tap, context
<1>11. CASE TapOverlay
  <2> DEFINE fs == SelectSeq(Document, LAMBDA p : pl[p].up)
             first == IF fs = <<>> THEN current ELSE fs[1]
  <2>1. /\ pl' = [pl EXCEPT ![first] = IF @.playing THEN [Pause(@) EXCEPT !.stopped = TRUE]
                                       ELSE Play(@)]
        /\ active' = active
    BY <1>11 DEF TapOverlay, context
  <2> HIDE DEF first
  <2>2. CASE first \in Player
    <3>1. \E q \in Toggled(pl[first]) : pl' = [pl EXCEPT ![first] = q]
      BY <1>0, <2>1, <2>2 DEF Toggled, PlayersDue
    <3> QED BY <1>9, <2>1, <2>2, <3>1
  <2>3. CASE first \notin Player
    BY <2>1, <2>3 DEF PlayersDue, Due
  <2> QED BY <2>2, <2>3
<1>12. CASE MuteButton
  BY <1>12, WithMutedDue DEF MuteButton, context, PlayersDue
<1>13. ASSUME NEW p \in Player, EnterFullscreen(p) PROVE PlayersDue'
  <2> DEFINE f == [q \in Player |-> IF q \in Full THEN [Mounted EXCEPT !.resume = pl[q].resume]
                                    ELSE pl[q]]
  <2>1. \A q \in Player : pl[q].resume \in BOOLEAN
    BY <1>0 DEF State
  <2>2. f \in [Player -> State] /\ \A q \in Player : Due(q, f[q], active)
    BY <1>0, <2>1, MountedDue
  <2>3. pl' = WithMuted(f, FALSE) /\ active' = active
    BY <1>13 DEF EnterFullscreen
  <2> HIDE DEF f
  <2> QED BY <2>2, <2>3, WithMutedDue DEF PlayersDue
<1>14. CASE ExitFullscreen
  <2> DEFINE f == [q \in Player |-> IF q \in Full THEN Removed(pl[q]) ELSE pl[q]]
  <2>1. \A q \in Player : pl[q].resume \in BOOLEAN
    BY <1>0 DEF State
  <2>2. f \in [Player -> State] /\ \A q \in Player : Due(q, f[q], active)
    BY <1>0, <2>1, MountedDue DEF Removed
  <2>3. pl' = WithMuted(f, before) /\ active' = active
    BY <1>14 DEF ExitFullscreen
  <2> HIDE DEF f
  <2> QED BY <2>2, <2>3, WithMutedDue DEF PlayersDue
<1>15. ASSUME NEW p \in Player, ScrollTo(p) PROVE PlayersDue'
  BY <1>15 DEF ScrollTo, context, PlayersDue, Due
<1>16. CASE UNCHANGED vars
  BY <1>16 DEF vars, PlayersDue, Due
<1> QED
  BY <1>1, <1>2, <1>3, <1>4, <1>5, <1>6, <1>7, <1>8, <1>10, <1>11, <1>12, <1>13, <1>14,
     <1>15, <1>16 DEF Next

\* Nothing is played beside the active video, and the active video is played, for any
\* number of players, taps, reports of the observer and changes of the mute state.
LEMMA PlayersDueInit == Init => PlayersDue
  BY MountedDue DEF Init, PlayersDue

LEMMA PlayersDueRests == PlayersDue => OnlyTheActivePlays /\ TheActivePlays
<1> SUFFICES ASSUME PlayersDue, AtRest, NEW p \in Up
             PROVE  /\ pl[p].playing => IsActive(p)
                    /\ IsReady(p) /\ ~pl[p].stopped => pl[p].playing
  BY DEF OnlyTheActivePlays, TheActivePlays
<1>1. p \in Player /\ pl[p].up /\ pl[p].due = {} /\ ~pl[p].started /\ ~pl[p].resume
  BY DEF AtRest, Rested, Up
<1>2. Due(p, pl[p], active)
  BY <1>1 DEF PlayersDue
<1> QED BY <1>1, <1>2 DEF Due, IsActive, IsReady

\* Whatever changes the visibility of a video starts the timer that looks for the most
\* visible one; the fullscreen feed, which makes its own choice, is left with it.
MostVisibleDue == current = None /\ ~timer => active \in MostVisible

LEMMA MostVisibleDueStep ==
  None \notin Full => (MostVisibleDue /\ [Next]_vars => MostVisibleDue')
<1> SUFFICES ASSUME None \notin Full, MostVisibleDue, [Next]_vars PROVE MostVisibleDue'
  OBVIOUS
<1> USE DEF MostVisibleDue
<1>0. ASSUME ratio' = ratio PROVE MostVisible' = MostVisible
  BY <1>0 DEF MostVisible
<1>1. CASE Debounced
  BY <1>0, <1>1 DEF Debounced
<1>2. CASE Effects
  BY <1>0, <1>2 DEF Effects
<1>3. ASSUME NEW p \in Player, Resume(p) \/ LoadedData(p) \/ PlayEvent(p) \/ Tap(p)
      PROVE  MostVisibleDue'
  <2>1. active' = active /\ ratio' = ratio /\ timer' = timer /\ current' = current
    BY <1>3 DEF Resume, LoadedData, PlayEvent, Tap, context, screen
  <2> QED BY <1>0, <2>1
<1>4. CASE TapOverlay \/ UNCHANGED vars
  <2>1. active' = active /\ ratio' = ratio /\ timer' = timer /\ current' = current
    BY <1>4 DEF TapOverlay, context, screen, vars
  <2> QED BY <1>0, <2>1
<1>5. CASE MuteButton
  BY <1>0, <1>5 DEF MuteButton, context
<1>6. ASSUME NEW p \in Player, NEW r \in 0..2, Observe(p, r) PROVE MostVisibleDue'
  BY <1>6 DEF Observe
<1>7. ASSUME NEW p \in Player, MountCard(p) \/ UnmountCard(p) \/ EnterFullscreen(p)
      PROVE  MostVisibleDue'
  BY <1>7 DEF MountCard, UnmountCard, EnterFullscreen, Register, Unregister
<1>8. ASSUME NEW p \in Player, ScrollTo(p) PROVE MostVisibleDue'
  BY <1>8 DEF ScrollTo
<1>9. CASE ExitFullscreen
  BY <1>9 DEF ExitFullscreen, Unregister
<1> QED BY <1>1, <1>2, <1>3, <1>4, <1>5, <1>6, <1>7, <1>8, <1>9 DEF Next

\* Nothing is played beside the active video, the active video is played, and outside of
\* fullscreen it is the most visible one: for any number of players and videos, however
\* taps, reports of the observer, events, frames and changes of the mute state meet.
THEOREM ActivePlayerHolds ==
  None \notin Full =>
    (Spec => [](OnlyTheActivePlays /\ TheActivePlays /\ ActiveIsMostVisible))
<1> SUFFICES ASSUME None \notin Full
             PROVE  Spec => [](OnlyTheActivePlays /\ TheActivePlays /\ ActiveIsMostVisible)
  OBVIOUS
<1>1. Init => MostVisibleDue
  BY DEF Init, MostVisibleDue
<1>2. MostVisibleDue => ActiveIsMostVisible
  BY DEF MostVisibleDue, ActiveIsMostVisible, AtRest
<1>3. MostVisibleDue /\ [Next]_vars => MostVisibleDue'
  BY MostVisibleDueStep
<1> QED BY <1>1, <1>2, <1>3, PlayersDueInit, PlayersDueStep, PlayersDueRests, PTL DEF Spec
=============================================================================
