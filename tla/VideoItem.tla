------------------------------ MODULE VideoItem -------------------------------
(***************************************************************************)
(* A video on two screens, the card of a feed and the item of the          *)
(* fullscreen feed over it: the sound they share, the subtitles and the    *)
(* user's choice about them on each, the shape of the card, and the dialogs*)
(* of its menu, through which it is reported and deleted.                  *)
(*                                                                         *)
(* Playback, reactions, comments and lists are other modules. The accounts *)
(* are the video's author and another one. The player of a card of the     *)
(* search page is a thumbnail only; that of a feed plays from the start.   *)
(* Ratios are tenths: 6 for portrait, 10 for square, 18 for landscape, and *)
(* 11, the largest that is not landscape.                                  *)
(***************************************************************************)
EXTENDS Integers, FiniteSets

CONSTANT MaxAct   \* bound: what the user does but for opening and closing

VARIABLES
  user,       \* the account, "nobody" for none
  kind,       \* the video: its declared ratio, 0 for none, and whether it is a classic Vine
  mode,       \* the card's
  listed,     \* the feed has the card
  full,       \* the fullscreen feed is open
  kept,       \* it has the video
  muted,      \* globalMuted
  before,     \* previousMutedState
  tier,       \* useSubtitles' query: what it asks next, or "done"
  cues,       \* it has found some
  item,       \* on each screen: ccOverride, videoError, the open dialog, its mutation
  lost,       \* deletions under way whose screen has gone
  deletions,  \* relay: who asked to delete the video
  reports,    \* reports on their way: by whom, of what
  thumbnail,  \* ThumbnailPlayer's stage
  ratio, thumbRatio,
  choice,     \* history: the user's last choice about subtitles, since the sound changed
              \* or the screen was opened
  sound,      \* history: the sound as chosen in the feed
  acts

vars == <<user, kind, mode, listed, full, kept, muted, before, tier, cues, item, lost,
          deletions, reports, thumbnail, ratio, thumbRatio, choice, sound, acts>>

Screen == {"card", "full"}
Account == {"author", "other"}
Unset == "unset"
Choice == {Unset, "on", "off"}
Dialog == {"delete", "report", "report user", "source", "likes", "lists"}
Idle == [by |-> "nobody", st |-> "none"]
Fresh == [cc |-> Unset, error |-> FALSE, dialog |-> "none", deletion |-> Idle]
Kinds == [ratio : {0, 6, 10, 18}, classic : BOOLEAN]
Ratios == {6, 10, 18}
AnyDeletion == [by : Account \cup {"nobody"}, st : {"none", "sent", "published"}]
AnyItem == [cc : Choice, error : BOOLEAN, dialog : Dialog \cup {"none"}, deletion : AnyDeletion]

TypeOK ==
  /\ user \in Account \cup {"nobody"} /\ kind \in Kinds /\ mode \in {"auto-play", "thumbnail"}
  /\ {listed, full, kept, muted, before, cues, sound} \subseteq BOOLEAN
  /\ tier \in {"embedded", "relay", "cdn", "done"}
  /\ item \in [Screen -> AnyItem]
  /\ lost \subseteq [by : Account, st : {"sent", "published"}]
  /\ deletions \subseteq Account /\ reports \subseteq Account \X {"report", "report user"}
  /\ thumbnail \in {"image", "video", "checked", "auth", "failed"}
  /\ ratio \in Ratios /\ thumbRatio \in Ratios \cup {0}
  /\ choice \in [Screen -> Choice] /\ acts \in 0..MaxAct

Init ==
  /\ user \in {"author", "nobody"} /\ kind \in Kinds /\ mode \in {"auto-play", "thumbnail"}
  /\ listed = TRUE /\ full = FALSE /\ kept = FALSE /\ muted = TRUE /\ before = TRUE
  /\ tier = "embedded" /\ cues = FALSE /\ item = [s \in Screen |-> Fresh] /\ lost = {}
  /\ deletions = {} /\ reports = {} /\ thumbnail = "image"
  /\ ratio = IF kind.classic THEN 10 ELSE IF kind.ratio # 0 THEN kind.ratio ELSE 6
  /\ thumbRatio = 0 /\ choice = [s \in Screen |-> Unset] /\ sound = TRUE /\ acts = 0

Mounted(s) == IF s = "full" THEN kept ELSE listed

Act == acts < MaxAct /\ acts' = acts + 1

\* What is under a dialog, or under the fullscreen feed, cannot be clicked.
Reached(s) == Mounted(s) /\ item[s].dialog = "none" /\ (s = "card" => ~full)

\* The card of a feed has a player.
Playing == mode = "auto-play"

Video == <<kind, mode, tier, cues>>
Picture == <<thumbnail, ratio, thumbRatio>>
Open == <<listed, full, kept>>
Requests == <<lost, deletions, reports>>

-----------------------------------------------------------------------------
(* Sound and subtitles. *)

\* subtitlesVisible.
Visible(s) == IF item[s].cc # Unset THEN item[s].cc = "on" ELSE muted /\ cues

\* The history of a screen that is opened or closed.
Reopened == [choice EXCEPT !["full"] = Unset]

\* Mutant: the choice outlives the sound it was made with.
SoundIs_Keeps(m, it, made) ==
  /\ muted' = m /\ item' = it
  /\ choice' = IF m # muted THEN [s \in Screen |-> Unset] ELSE made

\* Every mounted item's effect on globalMuted.
SoundIs(m, it, made) ==
  /\ muted' = m
  /\ item' = IF m # muted THEN [s \in Screen |-> [it[s] EXCEPT !.cc = Unset]] ELSE it
  /\ choice' = IF m # muted THEN [s \in Screen |-> Unset] ELSE made

ClickSound(s) ==
  /\ Act /\ Reached(s) /\ (s = "card" => Playing /\ ~item[s].error)
  /\ SoundIs(~muted, item, choice) /\ sound' = IF s = "card" THEN ~muted ELSE sound
  /\ UNCHANGED <<user, Video, Open, before, Requests, Picture>>

ClickSubtitles(s) ==
  /\ Act /\ Reached(s) /\ cues /\ (s = "card" => Playing /\ ~item[s].error)
  /\ LET next == CASE item[s].cc = Unset -> IF Visible(s) THEN "off" ELSE "on"
                   [] item[s].cc = "on" -> "off"
                   [] OTHER -> "on"
     IN  item' = [item EXCEPT ![s].cc = next]
  /\ choice' = [choice EXCEPT ![s] = IF Visible(s) THEN "off" ELSE "on"]
  /\ UNCHANGED <<user, Video, Open, muted, before, Requests, Picture, sound>>

\* The query's tiers, each the fallback of the one before; what is in the video itself is
\* taken as it is.
Subtitles ==
  /\ tier # "done" /\ (listed \/ full)
  /\ \/ tier' = "done" /\ cues' \in BOOLEAN
     \/ tier = "embedded" /\ tier' \in {"relay", "cdn"} /\ UNCHANGED cues
     \/ tier = "relay" /\ tier' = "cdn" /\ UNCHANGED cues
  /\ UNCHANGED <<user, kind, mode, Open, muted, before, item, Requests, Picture, choice,
                 sound, acts>>

\* By the card's button or the bottom navigation.
EnterFull ==
  /\ Act /\ Reached("card") /\ ~full
  /\ full' = TRUE /\ kept' = TRUE /\ before' = muted
  /\ SoundIs(FALSE, [item EXCEPT !["full"] = Fresh], Reopened)
  /\ UNCHANGED <<user, Video, listed, Requests, Picture, sound>>

\* A deletion goes on when its screen has gone.
Left(s) == IF item[s].deletion.st = "none" THEN lost ELSE lost \cup {item[s].deletion}

\* Mutant: the sound stays as it was in the fullscreen feed.
Restored_Not == muted

\* The sound the fullscreen feed gives back.
Restored == before

Exit ==
  /\ full' = FALSE /\ kept' = FALSE
  /\ SoundIs(Restored, [item EXCEPT !["full"] = Fresh], Reopened)

\* The back button, a swipe, or Escape, which a dialog does not keep to itself.
ExitFull ==
  /\ full /\ Exit /\ lost' = Left("full")
  /\ UNCHANGED <<user, Video, listed, before, deletions, reports, Picture, sound, acts>>

PlayerFails(s) ==
  /\ Act /\ Mounted(s) /\ (s = "card" => Playing) /\ ~item[s].error
  /\ item' = [item EXCEPT ![s].error = TRUE]
  /\ UNCHANGED <<user, Video, Open, muted, before, Requests, Picture, choice, sound>>

-----------------------------------------------------------------------------
(* The shape of the card. *)

\* Mutant: what the stream says is always taken.
Dimensions_Taken(r) == ratio' = r

\* handleVideoDimensions: a classic Vine is square, a thumbnail is trusted over a stream
\* that differs by more than a tenth, and a stream makes no landscape of a declared portrait.
Dimensions(r) ==
  LET far == thumbRatio # 0 /\ r # thumbRatio
      flips == kind.ratio # 0 /\ kind.ratio <= 11 /\ r > 11
  IN  ratio' = IF kind.classic \/ far \/ flips THEN ratio ELSE r

VideoLoads(r) ==
  /\ listed /\ Playing /\ ~item["card"].error /\ Dimensions(r) /\ ratio' # ratio
  /\ UNCHANGED <<user, Video, Open, muted, before, item, Requests, thumbnail, thumbRatio,
                 choice, sound, acts>>

\* handleThumbnailDimensions.
ThumbnailLoads(r) ==
  /\ listed /\ ~Playing /\ thumbnail \in {"image", "video"} /\ ~kind.classic
  /\ ratio' = r /\ thumbRatio' = r /\ ratio # r
  /\ UNCHANGED <<user, Video, Open, muted, before, item, Requests, thumbnail, choice,
                 sound, acts>>

\* handleThumbnailError: the video instead of the image, then whether it is forbidden.
ThumbnailFails ==
  /\ listed /\ ~Playing /\ thumbnail \in {"image", "video"}
  /\ IF thumbnail = "image" THEN thumbnail' = "video" /\ UNCHANGED item
     ELSE \/ thumbnail' = "checked" /\ UNCHANGED item
          \/ thumbnail' = "failed" /\ item' = [item EXCEPT !["card"].error = TRUE]
  /\ UNCHANGED <<user, Video, Open, muted, before, Requests, ratio, thumbRatio, choice,
                 sound, acts>>

ThumbnailChecked ==
  /\ listed /\ thumbnail = "checked"
  /\ \/ thumbnail' = "auth" /\ UNCHANGED item
     \/ thumbnail' = "failed" /\ item' = [item EXCEPT !["card"].error = TRUE]
  /\ UNCHANGED <<user, Video, Open, muted, before, Requests, ratio, thumbRatio, choice,
                 sound, acts>>

\* handleAgeVerified.
AgeVerified ==
  /\ Act /\ Reached("card") /\ thumbnail = "auth" /\ thumbnail' = "image"
  /\ UNCHANGED <<user, Video, Open, muted, before, item, Requests, ratio, thumbRatio,
                 choice, sound>>

-----------------------------------------------------------------------------
(* The menu and its dialogs. *)

\* The account changes under the screens, also from another tab.
SwitchUser ==
  /\ Act /\ user' \in (Account \cup {"nobody"}) \ {user}
  /\ UNCHANGED <<Video, Open, muted, before, item, Requests, Picture, choice, sound>>

\* Only the author's menu offers to delete.
OpenDialog(s, d) ==
  /\ Reached(s) /\ (d = "delete" => user = "author")
  /\ item' = [item EXCEPT ![s].dialog = d]
  /\ UNCHANGED <<user, Video, Open, muted, before, Requests, Picture, choice, sound, acts>>

\* handleClose: not while the deletion is under way.
CloseDialog(s) ==
  /\ Mounted(s) /\ item[s].dialog # "none"
  /\ item[s].dialog = "delete" => item[s].deletion.st = "none"
  /\ item' = [item EXCEPT ![s].dialog = "none"]
  /\ UNCHANGED <<user, Video, Open, muted, before, Requests, Picture, choice, sound, acts>>

\* Mutant: only the menu looks at who is signed in.
MayDelete_Anyone == user # "nobody"

\* useDeleteVideo's mutationFn.
MayDelete == user = "author"

\* handleConfirm; one who may not gets an error, and the dialog stays.
Confirm(s) ==
  /\ Act /\ Mounted(s) /\ item[s].dialog = "delete" /\ item[s].deletion.st = "none" /\ MayDelete
  /\ item' = [item EXCEPT ![s].deletion = [by |-> user, st |-> "sent"]]
  /\ UNCHANGED <<user, Video, Open, muted, before, Requests, Picture, choice, sound>>

\* The relay stores it; the answer may still be lost.
Store(by) == deletions' = deletions \cup {by}

Published(s) ==
  /\ item[s].deletion.st = "sent" /\ Store(item[s].deletion.by)
  /\ item' = [item EXCEPT ![s].deletion.st = "published"]
  /\ UNCHANGED <<user, Video, Open, muted, before, lost, reports, Picture, choice, sound, acts>>

\* onSuccess: the dialog closes, and the fullscreen feed with it.
Deleted(s) ==
  /\ item[s].deletion.st = "published"
  /\ IF s = "full" THEN Exit
     ELSE /\ item' = [item EXCEPT ![s].dialog = "none", ![s].deletion = Idle]
          /\ UNCHANGED <<full, kept, muted, choice>>
  /\ UNCHANGED <<user, Video, listed, before, Requests, Picture, sound, acts>>

\* onError: the dialog stays and can be confirmed again.
DeleteFails(s) ==
  /\ item[s].deletion.st # "none" /\ item' = [item EXCEPT ![s].deletion = Idle]
  /\ UNCHANGED <<user, Video, Open, muted, before, Requests, Picture, choice, sound, acts>>

\* Those nobody waits for any more.
LostDeletion(d) ==
  /\ lost' = lost \ {d} /\ (Store(d.by) \/ UNCHANGED deletions)
  /\ UNCHANGED <<user, Video, Open, muted, before, item, reports, Picture, choice, sound, acts>>

\* The feed, read again, may have lost the video, and an open fullscreen feed with it,
\* unless it was the only one.
FeedAnswers ==
  /\ listed /\ deletions # {} /\ listed' = FALSE /\ kept' \in {kept, FALSE}
  /\ lost' = Left("card") \cup (IF kept /\ ~kept' THEN Left("full") ELSE {})
  /\ item' = [s \in Screen |-> IF s = "full" /\ kept' THEN item[s] ELSE Fresh]
  /\ UNCHANGED <<user, Video, full, muted, before, deletions, reports, Picture, choice, sound, acts>>

\* handleSubmit: useReportContent does not wait for the event, so that the dialog closes
\* with "Report submitted" when the report has been handed over.
Report(s) ==
  /\ Act /\ Mounted(s) /\ item[s].dialog \in {"report", "report user"} /\ user # "nobody"
  /\ reports' = reports \cup {<<user, item[s].dialog>>}
  /\ item' = [item EXCEPT ![s].dialog = "none"]
  /\ UNCHANGED <<user, Video, Open, muted, before, lost, deletions, Picture, choice, sound>>

ReportOver(r) ==
  /\ reports' = reports \ {r}
  /\ UNCHANGED <<user, Video, Open, muted, before, item, lost, deletions, Picture, choice,
                 sound, acts>>

Next ==
  \/ Subtitles \/ EnterFull \/ ExitFull \/ ThumbnailFails \/ ThumbnailChecked \/ AgeVerified
  \/ SwitchUser \/ FeedAnswers
  \/ \E r \in Ratios : VideoLoads(r) \/ ThumbnailLoads(r)
  \/ \E s \in Screen :
       \/ ClickSound(s) \/ ClickSubtitles(s) \/ PlayerFails(s) \/ CloseDialog(s) \/ Confirm(s)
       \/ Published(s) \/ Deleted(s) \/ DeleteFails(s) \/ Report(s)
       \/ \E d \in Dialog : OpenDialog(s, d)
  \/ \E d \in lost : LostDeletion(d)
  \/ \E r \in reports : ReportOver(r)

Spec == Init /\ [][Next]_vars

-----------------------------------------------------------------------------
(* Properties. *)

\* Subtitles are what the user last chose on that screen, until the sound changes on
\* either, or the screen is opened anew; then they go by the sound, whenever they are found
\* ("Reset ccOverride when mute state changes so auto-behavior resumes").
SubtitlesAsChosen ==
  \A s \in Screen : Mounted(s) /\ cues =>
    Visible(s) = (IF choice[s] = Unset THEN muted ELSE choice[s] = "on")

\* However the fullscreen feed was left, by Escape out of a dialog or by a deletion that
\* succeeds, the feed sounds as it was last set there ("restore on exit").
SoundComesBack == ~full => muted = sound

\* No account but the author's asks the relays to delete the video, though the account may
\* change while the dialog is open and a deletion may outlive its screen (useDeleteVideo).
DeletionsAreOwn == deletions \subseteq {"author"}

\* A classic Vine is square, and a card declared upright never turns wide while it plays.
ShapeIsTrusted ==
  /\ kind.classic => ratio = 10
  /\ Playing /\ kind.ratio \in {6, 10} => ratio <= 11

-----------------------------------------------------------------------------
(* The inductive invariant of all four. *)

\* What is set on a screen is what was chosen on it.
ChosenInv ==
  /\ item \in [Screen -> AnyItem] /\ choice \in [Screen -> Choice]
  /\ \A s \in Screen : Mounted(s) => item[s].cc = choice[s]

\* The sound that is put aside is the feed's.
SoundInv ==
  /\ muted \in BOOLEAN /\ before \in BOOLEAN
  /\ kept => full
  /\ full => before = sound
  /\ ~full => muted = sound

\* Whoever is signed in, what is under way is asked for by the author.
DeletionInv ==
  /\ ~kept => item["full"].deletion.st = "none"
  /\ \A s \in Screen : item[s].deletion.st # "none" => item[s].deletion.by = "author"
  /\ \A d \in lost : d.by = "author"
  /\ DeletionsAreOwn

ItemInv == ChosenInv /\ SoundInv /\ DeletionInv /\ ShapeIsTrusted
=============================================================================
