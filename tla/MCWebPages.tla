----------------------------- MODULE MCWebPages -----------------------------
(***************************************************************************)
(* The screens of the web client. A screen is mounted with state of its    *)
(* own, and what one publishes another one reads from the relay: no two of *)
(* these parts share a variable. One run checks them all: a behaviour is   *)
(* one of the part that Init chooses, on common variables.                 *)
(***************************************************************************)
EXTENDS Integers, Sequences, FiniteSets, TLC, SequenceTheorems, FiniteSetTheorems, TLAPS

CONSTANTS Contact, Site, AtFirst, TheirLists, DivineRelay, FollowLists, Reloads, OwnList,
          Clip, ListOps, Seconds, Refs, Taps, Sources, Editions, Loads, Longest, Presses,
          Requests, Jobs, WatchGap, WatchTime, Persons, Attempts, SearchVideos,
          SearchPage, SearchActs, SearchReads, FollowerPage, Followers, ProfileActs,
          FeedLimit, FeedEvents, FeedActs, FirstCards, MoreCards, CardsAround,
          VideoHistory, TabActs, BoardActs, MuteChanges, Clicks, OwnComments, NotePage,
          Notes, NoteMarks, NoteReads, WatchRelay, Copies, WatchClicks

VARIABLES
  part,  \* what runs
  s1, s2, s3, s4, s5, s6, s7, s8, s9, s10, s11, s12, s13, s14, s15, s16, s17, s18, s19,
  s20

vars == <<part, s1, s2, s3, s4, s5, s6, s7, s8, s9, s10, s11, s12, s13, s14, s15, s16, s17,
          s18, s19, s20>>

\* Nobody's profile page is the home page, and a recording has a limit.
ASSUME HomeIsNobody == "home" \notin Contact
ASSUME LongestIsNat == Longest \in Nat

\* There are so many videos to search and pages are not empty; a feed has a limit; and of
\* a list of cards at least the one around the video is rendered with it.
ASSUME SearchBounds == SearchVideos \in Nat /\ SearchPage \in Nat \ {0}
ASSUME FeedLimitIsNat == FeedLimit \in Nat
ASSUME ClicksIsNat == Clicks \in Nat
ASSUME CardsAreNat == FirstCards \in Nat /\ MoreCards \in Nat /\ CardsAround \in Nat \ {0}

\* The two players of the feed and the two of the fullscreen feed.
InFeed == <<"f1", "f2">>
InFull == {"g1", "g2"}
Shows == "f1" :> "va" @@ "f2" :> "vb" @@ "g1" :> "va" @@ "g2" :> "vb"

Contacts == INSTANCE ContactList
  WITH Person <- Contact, Relay <- Site, Start <- AtFirst, Theirs <- TheirLists,
       Divine <- DivineRelay, MaxVersion <- FollowLists, MaxReload <- Reloads, fol <- s1,
       relay <- s2, mem <- s3, idb <- s4, refresh <- s5, ls <- s6, load <- s7,
       list <- s8, listPc <- s9, rel <- s10, relPc <- s11, stale <- s12, safe <- s13,
       page <- s14, dialog <- s15, mut <- s16, settled <- s17, reloads <- s18
Lists == INSTANCE VideoLists
  WITH List <- OwnList, Video <- Clip, MaxOp <- ListOps, MaxTime <- Seconds, store <- s1,
       gone <- s2, now <- s3, view <- s4, viewPc <- s5, snap <- s6, page <- s7,
       detail <- s8, ops <- s9, made <- s10, dropped <- s11
Mutes == INSTANCE MuteLists
  WITH Thing <- Clip, MaxChange <- MuteChanges, MaxSecond <- Seconds, stored <- s1,
       second <- s2, muted <- s3, query <- s4, heard <- s5, changes <- s6, count <- s7,
       wanted <- s8, calm <- s9
Players == INSTANCE ActivePlayer
  WITH Document <- InFeed, Full <- InFull, VideoOf <- Shows, None <- "none",
       MAX_VIDEO_REFS <- Refs, MaxAct <- Taps, active <- s1, ratio <- s2, order <- s3,
       timer <- s4, silent <- s5, before <- s6, current <- s7, claim <- s8, pl <- s9,
       acts <- s10
Source == INSTANCE VideoSource
  WITH Urls <- Sources, MaxEdition <- Editions, MaxLoad <- Loads, world <- s1,
       stored <- s2, verified <- s3, known <- s4, index <- s5, tried <- s6,
       loading <- s7, failed <- s8, auth <- s9, due <- s10, loads <- s11, asked <- s12,
       hls <- s13, ref <- s14, fetched <- s15, src <- s16, late <- s17
Pages == INSTANCE FeedPages
  WITH PageSize <- 2, First <- 4, MaxVideo <- 5, MaxRead <- 6, kind <- s1, rank <- s2,
       twin <- s3, bad <- s4, start <- s5, pages <- s6, anew <- s7, base <- s8,
       again <- s9, reads <- s10
Camera == INSTANCE Studio
  WITH MAX_DURATION <- Longest, MaxPress <- Presses, MaxAsk <- Requests, Job <- Jobs,
       step <- s1, asking <- s2, tracks <- s3, shown <- s4, holding <- s5, takes <- s6,
       taken <- s7, chunks <- s8, elapsed <- s9, interval <- s10, total <- s11,
       recording <- s12, duration <- s13, segments <- s14, clips <- s15, jobs <- s16,
       pending <- s17, stored <- s18, events <- s19, asks <- s20
Views == INSTANCE ViewMetrics
  WITH Gap <- WatchGap, MaxTime <- WatchTime, here <- s1, user <- s2, playing <- s3,
       now <- s4, acc <- s5, last <- s6, tracked <- s7, position <- s8, views <- s9
Reactions == INSTANCE VideoReactions
  WITH Kind <- {"like", "repost"}, MaxClick <- Clicks, made <- s1, gone <- s2,
       page <- s3, loaded <- s4, cache <- s5, stale <- s6, read <- s7, tasks <- s8,
       clicks <- s9, calm <- s10
Searches == INSTANCE WebSearch
  WITH MaxVideo <- SearchVideos, PageSize <- SearchPage, MaxAct <- SearchActs,
       MaxRead <- SearchReads, matching <- s1, broken <- s2, nip50 <- s3, twin <- s4,
       query <- s5, sort <- s6, tab <- s7, url <- s8, timer <- s9, others <- s10,
       videos <- s11, stage <- s12, acts <- s13, reads <- s14
Accounts == INSTANCE WebAccounts
  WITH User <- Persons, MaxAttempt <- Attempts, logins <- s1, global <- s2, local <- s3,
       signup <- s4, loading <- s5, fileLoading <- s6, attempts <- s7, made <- s8,
       asked <- s9, authors <- s10, caches <- s11
Comments == INSTANCE VideoComments
  WITH MaxPost <- OwnComments, loaded <- s1, all <- s2, top <- s3, error <- s4,
       read <- s5, found <- s6, posts <- s7, timers <- s8, stored <- s9, indexed <- s10,
       patient <- s11
Notices == INSTANCE Notifications
  WITH PageSize <- NotePage, MaxNote <- Notes, MaxMark <- NoteMarks,
       MaxRead <- NoteReads, inbox <- s1, open <- s2, marked <- s3, list <- s4,
       read <- s5, count <- s6, poll <- s7, marks <- s8, reads <- s9, made <- s10,
       behind <- s11
Profiles == INSTANCE ProfilePages
  WITH PageSize <- FollowerPage, MaxFollower <- Followers, MaxAct <- ProfileActs,
       at <- s1, claims <- s2, named <- s3, earned <- s4, checks <- s5, crowd <- s6,
       list <- s7, acts <- s8
Watch == INSTANCE WatchPage
  WITH Relay <- WatchRelay, MaxCopy <- Copies, MaxClick <- WatchClicks, target <- s1,
       urls <- s2, conn <- s3, subs <- s4, phase <- s5, timer <- s6, polling <- s7,
       video <- s8, profile <- s9, screen <- s10, broken <- s11, buttons <- s12,
       liked <- s13, fair <- s14, copies <- s15, clicks <- s16
Query == INSTANCE VideoQuery
  WITH Limit <- FeedLimit, MaxTime <- FeedEvents, MaxAct <- FeedActs, relay <- s1,
       clock <- s2, feed <- s3, follows <- s4, cache <- s5, q <- s6, acts <- s7
Video == INSTANCE VideoPage
  WITH Initial <- FirstCards, More <- MoreCards, Buffer <- CardsAround,
       MaxNav <- VideoHistory, url <- s1, past <- s2, api <- s3, ws <- s4,
       rendered <- s5
Tabs == INSTANCE DiscoveryTabs
  WITH MaxAct <- TabActs, route <- s1, past <- s2, active <- s3, signed <- s4,
       acts <- s5
Tags == INSTANCE HashtagExplorer
  WITH Initial <- 2, More <- 2, Total <- 7, Screen <- 3, MaxAct <- 3, tags <- s1,
       search <- s2, visible <- s3, scrolled <- s4, seen <- s5, acts <- s6
Boards == INSTANCE Leaderboard
  WITH MaxAct <- BoardActs, tab <- s1, period <- s2, boards <- s3, query <- s4,
       acts <- s5

\* The variables a part has no use for.
Idle20 == s20 = {}
Idle19 == s19 = {} /\ Idle20
Idle18 == s18 = {} /\ Idle19
Idle17 == s17 = {} /\ Idle18
Idle16 == s16 = {} /\ Idle17
Idle15 == s15 = {} /\ Idle16
Idle14 == s14 = {} /\ Idle15
Idle13 == s13 = {} /\ Idle14
Idle12 == s12 = {} /\ Idle13
Idle11 == s11 = {} /\ Idle12
Idle10 == s10 = {} /\ Idle11
Idle9 == s9 = {} /\ Idle10
Idle8 == s8 = {} /\ Idle9
Idle7 == s7 = {} /\ Idle8
Idle6 == s6 = {} /\ Idle7

Init ==
  \/ part = "Contacts" /\ Contacts!Init /\ Idle19
  \/ part = "Lists" /\ Lists!Init /\ Idle12
  \/ part = "Mutes" /\ Mutes!Init /\ Idle10
  \/ part = "Players" /\ Players!Init /\ Idle11
  \/ part = "Source" /\ Source!Init /\ Idle18
  \/ part = "Pages" /\ Pages!Init /\ Idle11
  \/ part = "Camera" /\ Camera!Init
  \/ part = "Views" /\ Views!Init /\ Idle10
  \/ part = "Reactions" /\ Reactions!Init /\ Idle11
  \/ part = "Searches" /\ Searches!Init /\ Idle15
  \/ part = "Accounts" /\ Accounts!Init /\ Idle12
  \/ part = "Comments" /\ Comments!Init /\ Idle12
  \/ part = "Notices" /\ Notices!Init /\ Idle12
  \/ part = "Profiles" /\ Profiles!Init /\ Idle9
  \/ part = "Watch" /\ Watch!Init /\ Idle17
  \/ part = "Query" /\ Query!Init /\ Idle8
  \/ part = "Video" /\ Video!Init /\ Idle6
  \/ part = "Tabs" /\ Tabs!Init /\ Idle6
  \/ part = "Tags" /\ Tags!Init /\ Idle7
  \/ part = "Boards" /\ Boards!Init /\ Idle6

Next ==
  \/ part = "Contacts" /\ Contacts!Next /\ UNCHANGED <<part, s19, s20>>
  \/ part = "Lists" /\ Lists!Next /\ UNCHANGED <<part, s12, s13, s14, s15, s16, s17, s18, s19, s20>>
  \/ part = "Mutes" /\ Mutes!Next /\ UNCHANGED <<part, s10, s11, s12, s13, s14, s15, s16, s17, s18, s19, s20>>
  \/ part = "Players" /\ Players!Next /\ UNCHANGED <<part, s11, s12, s13, s14, s15, s16, s17, s18, s19, s20>>
  \/ part = "Source" /\ Source!Next /\ UNCHANGED <<part, s18, s19, s20>>
  \/ part = "Pages" /\ Pages!Next /\ UNCHANGED <<part, s11, s12, s13, s14, s15, s16, s17, s18, s19, s20>>
  \/ part = "Camera" /\ Camera!Next /\ UNCHANGED <<part>>
  \/ part = "Views" /\ Views!Next /\ UNCHANGED <<part, s10, s11, s12, s13, s14, s15, s16, s17, s18, s19, s20>>
  \/ part = "Reactions" /\ Reactions!Next /\ UNCHANGED <<part, s11, s12, s13, s14, s15, s16, s17, s18, s19, s20>>
  \/ part = "Searches" /\ Searches!Next /\ UNCHANGED <<part, s15, s16, s17, s18, s19, s20>>
  \/ part = "Accounts" /\ Accounts!Next /\ UNCHANGED <<part, s12, s13, s14, s15, s16, s17, s18, s19, s20>>
  \/ part = "Comments" /\ Comments!Next /\ UNCHANGED <<part, s12, s13, s14, s15, s16, s17, s18, s19, s20>>
  \/ part = "Notices" /\ Notices!Next /\ UNCHANGED <<part, s12, s13, s14, s15, s16, s17, s18, s19, s20>>
  \/ part = "Profiles" /\ Profiles!Next /\ UNCHANGED <<part, s9, s10, s11, s12, s13, s14, s15, s16, s17, s18, s19, s20>>
  \/ part = "Watch" /\ Watch!Next /\ UNCHANGED <<part, s17, s18, s19, s20>>
  \/ part = "Query" /\ Query!Next /\ UNCHANGED <<part, s8, s9, s10, s11, s12, s13, s14, s15, s16, s17, s18, s19, s20>>
  \/ part = "Video" /\ Video!Next /\ UNCHANGED <<part, s6, s7, s8, s9, s10, s11, s12, s13, s14, s15, s16, s17, s18, s19, s20>>
  \/ part = "Tabs" /\ Tabs!Next /\ UNCHANGED <<part, s6, s7, s8, s9, s10, s11, s12, s13, s14, s15, s16, s17, s18, s19, s20>>
  \/ part = "Tags" /\ Tags!Next /\ UNCHANGED <<part, s7, s8, s9, s10, s11, s12, s13, s14, s15, s16, s17, s18, s19, s20>>
  \/ part = "Boards" /\ Boards!Next /\ UNCHANGED <<part, s6, s7, s8, s9, s10, s11, s12, s13, s14, s15, s16, s17, s18, s19, s20>>

Spec == Init /\ [][Next]_vars

-----------------------------------------------------------------------------
(* Properties. *)

\* Every part is in a state of its types.
TypeOK ==
  /\ part = "Contacts" => Contacts!TypeOK
  /\ part = "Lists" => Lists!TypeOK
  /\ part = "Mutes" => Mutes!TypeOK
  /\ part = "Players" => Players!TypeOK
  /\ part = "Source" => Source!TypeOK
  /\ part = "Pages" => Pages!TypeOK
  /\ part = "Camera" => Camera!TypeOK
  /\ part = "Views" => Views!TypeOK
  /\ part = "Reactions" => Reactions!TypeOK
  /\ part = "Searches" => Searches!TypeOK
  /\ part = "Accounts" => Accounts!TypeOK
  /\ part = "Comments" => Comments!TypeOK
  /\ part = "Notices" => Notices!TypeOK
  /\ part = "Profiles" => Profiles!TypeOK
  /\ part = "Watch" => Watch!TypeOK
  /\ part = "Query" => Query!TypeOK
  /\ part = "Video" => Video!TypeOK
  /\ part = "Tabs" => Tabs!TypeOK
  /\ part = "Tags" => Tags!TypeOK
  /\ part = "Boards" => Boards!TypeOK

\* What a step of a part may do to what its screen has.
CurrentStep ==
  /\ part = "Contacts" => Contacts!FeedStep
  /\ part = "Lists" => Lists!ViewStep
  /\ part = "Source" => Source!BlobStep
  /\ part = "Watch" => Watch!ProfileStep
  /\ part = "Video" => Video!KeyStep

\* What a screen has is not replaced by what was asked for earlier: the contact list of
\* the home page never gives way to an older version while the page lives, with caches
\* filled by three writers and relays that answer in part (useFollowList); a list the user
\* sees does not vanish from the cached lists unless it has been deleted, although
\* fetches begun before its creation answer after it (useCreateVideoList's onSuccess);
\* a blob the video element is given is that of the URL it has come to, although
\* the fetch for a URL it has left may still answer (VideoPlayer's load); a profile that
\* is put on the watch page is that of the author of the video there (displayProfile);
\* and a key on the page of a video goes to a neighbour of it in the list on the screen,
\* whichever of its two sources the list comes from (useVideoNavigation).
ShownStaysCurrent ==
  [][CurrentStep]_vars

\* When the publication for a person has succeeded, the profile page of that person at
\* rest shows it or a newer version: queries that were under way when it was published
\* have not answered after it (onSuccess of useFollowUser).
SettledShown == part = "Contacts" => Contacts!SettledShown

\* Once useDeleteVideoList has succeeded, no answer on its way to the cached lists
\* holds a version the deletion covers: a query asked before is not delivered.
DeletedStaysOut == part = "Lists" => Lists!DeletedStaysOut

\* When what was clicked and read is over, the relay has what the user asked for and
\* the screen shows what the relay has: the mute list, if its changes did not meet; the
\* buttons of a video, with the id the next click deletes; the comments, each once and
\* at its level; the badge of the notifications, lowered before the server knew; and the
\* video of the watch page, whichever relays fail.
CalmScreenIsTrue ==
  /\ part = "Mutes" => Mutes!CalmListIsWanted
  /\ part = "Reactions" => Reactions!CalmShowsTruth
  /\ part = "Comments" => Comments!CommentsSettle
  /\ part = "Notices" => Notices!BadgeIsServers
  /\ part = "Watch" => Watch!FoundIsShown

\* Once timers, effects and events have run, the active video plays when it has its
\* data, unless a tap or the browser stopped it; no other mounted player plays; and
\* outside of fullscreen no video that is more visible waits for the active one
\* (VideoPlaybackContext and the effects of VideoPlayer).
OneVideoPlays == part = "Players" => Players!OnlyTheActivePlays /\ Players!TheActivePlays /\ Players!ActiveIsMostVisible

\* A list read page by page while videos are published has no hole before a video it
\* shows, and when it says that there is no more it has shown every video there was
\* (the offsets and cursors of the infinite queries of feeds, searches, notifications
\* and followers). A list made of several queries has a video once, at the time of what
\* happened to it last (useVideoEvents), and a list of hashtags that grows with the
\* scrolling never says that there is less than there is (HashtagExplorer).
PagesAreWhole ==
  /\ part = "Pages" => Pages!NothingSkipped /\ Pages!AllReached
  /\ part = "Searches" => Searches!EndIsTheEnd
  /\ part = "Notices" => Notices!ListIsWhole
  /\ part = "Profiles" => Profiles!FollowersWhole
  /\ part = "Query" => Query!OncePerVideo /\ Query!LatestFirst
  /\ part = "Tags" => Tags!WindowFits

\* When the search page has come to rest, the address says what is searched for, and
\* the page says that there are no results only when the relay has none (SearchPage's
\* debounced text and the states of its four queries). What is on a screen is what its
\* address, tabs and lists ask for, whatever answers to earlier questions come in: the
\* mark of a verified name, the people of the home feed, the tab of the discovery page,
\* the board of a tab and period, and the video of the address among those rendered.
ShowsWhatIsAsked ==
  /\ part = "Searches" => Searches!UrlFollows /\ Searches!NoneIsNone
  /\ part = "Profiles" => Profiles!BadgeIsEarned
  /\ part = "Query" => Query!HomeIsFollowed
  /\ part = "Tabs" => Tabs!TabIsOfTheAddress
  /\ part = "Boards" => Boards!BoardIsTheChosen
  /\ part = "Video" => Video!CurrentIsRendered

\* "6 second maximum reached": a recorder that goes on recording is watched by the
\* timer that ends it, and no video is published that is longer, whichever segments it
\* was recorded in and however often the recording was started over.
RecordingFits == part = "Camera" => Camera!RecordingIsWatched /\ Camera!PublishedFits

\* "Reset accumulator before the async call to prevent double-counting": no second is in
\* two views, or in a view and still in the accumulator, whatever the order of the timer,
\* loops, seeks, pauses, changes of the video and of the user.
NoSecondTwice == part = "Views" => Views!NoSecondTwice

\* The buttons of an open login dialog are not disabled for ever: the marks of an
\* attempt, also of one the user closed the dialog on, go with the attempt. The account
\* switcher offers every other login and never the current one, whatever order the reads
\* of the accounts are answered in.
DialogIsUsable == part = "Accounts" => Accounts!DialogIsUsable /\ Accounts!OthersAreOthers

-----------------------------------------------------------------------------
(* Proofs. A part's steps leave it the part it is, and its variables in the *)
(* states of its own specification: its invariants are invariants here.     *)

\* RecordingFits for any limit, presses, camera requests and publications (useMediaRecorder
\* and CameraRecorder's six seconds): Studio's invariants, under their guard.
THEOREM RecordingFitsHolds == Spec => []RecordingFits
<1> DEFINE Inv == part = "Camera" => Camera!TakesInv /\ Camera!WatchInv /\ Camera!ClipsInv
<1>1. Init => Inv
  <2> SUFFICES ASSUME Init, part = "Camera"
               PROVE  Camera!TakesInv /\ Camera!WatchInv /\ Camera!ClipsInv
    OBVIOUS
  <2>1. Camera!Init
    BY DEF Init
  <2> QED BY <2>1, LongestIsNat, Camera!StudioInit
<1>2. Inv /\ [Next]_vars => Inv'
  <2> SUFFICES ASSUME Inv, [Next]_vars, part' = "Camera"
               PROVE  (Camera!TakesInv /\ Camera!WatchInv /\ Camera!ClipsInv)'
    OBVIOUS
  <2>1. part = "Camera" /\ [Camera!Next]_(Camera!vars)
    BY DEF Next, vars, Camera!vars
  <2> QED BY <2>1, LongestIsNat, Camera!TakesStep, Camera!ClipsStep
<1>3. Inv => RecordingFits
  BY DEF RecordingFits, Camera!WatchInv, Camera!ClipsInv, Camera!RecordingIsWatched,
         Camera!PublishedFits, Camera!Fits
<1> QED BY <1>1, <1>2, <1>3, PTL DEF Spec

\* Every step of the player's timer, events and effects keeps the count.
LEMMA CountedOnceStep == Views!CountedOnce /\ [Views!Next]_(Views!vars) => Views!CountedOnce'
<1> SUFFICES ASSUME Views!CountedOnce, [Views!Next]_(Views!vars) PROVE Views!CountedOnce'
  OBVIOUS
<1> USE DEF Views!CountedOnce
<1>1. Views!Counted \in Nat /\ Views!Counted <= s5 + (s4 - s6)
  BY DEF Views!Counted
<1>2. CASE Views!Timer
  BY <1>1, <1>2 DEF Views!Timer, Views!Flush
<1>3. ASSUME NEW to \in Views!Position, Views!Move(to) PROVE Views!CountedOnce'
  BY <1>1, <1>3 DEF Views!Move, Views!FlushAndPublish, Views!Published, Views!Flush
<1>4. CASE Views!Change
  BY <1>1, <1>4 DEF Views!Change, Views!Published
<1>5. CASE Views!Unmount
  BY <1>5 DEF Views!Unmount, Views!Published
<1>6. CASE Views!Tick \/ Views!Play \/ Views!Pause \/ Views!SignInOut \/ UNCHANGED Views!vars
  BY <1>6 DEF Views!Tick, Views!Play, Views!Pause, Views!SignInOut, Views!vars
<1> QED BY <1>2, <1>3, <1>4, <1>5, <1>6 DEF Views!Next

\* NoSecondTwice for any gap and any time (useVideoMetricsTracker): the second flush of an
\* update finds nothing left to count.
THEOREM NoSecondTwiceHolds == Spec => []NoSecondTwice
<1> DEFINE Inv == part = "Views" => Views!CountedOnce
<1>1. Init => Inv
  <2> SUFFICES ASSUME Init, part = "Views" PROVE Views!CountedOnce
    OBVIOUS
  <2>1. Views!Init
    BY DEF Init
  <2> QED BY <2>1 DEF Views!Init, Views!CountedOnce
<1>2. Inv /\ [Next]_vars => Inv'
  <2> SUFFICES ASSUME Inv, [Next]_vars, part' = "Views" PROVE Views!CountedOnce'
    OBVIOUS
  <2>1. part = "Views" /\ [Views!Next]_(Views!vars)
    BY DEF Next, vars, Views!vars
  <2> QED BY <2>1, CountedOnceStep
<1>3. Inv => NoSecondTwice
  BY DEF Views!CountedOnce, NoSecondTwice, Views!NoSecondTwice
<1> QED BY <1>1, <1>2, <1>3, PTL DEF Spec

\* OneVideoPlays for the players of two feeds (VideoPlaybackContext and VideoPlayer):
\* ActivePlayer's two invariants, what the effects owe each player and the context the
\* most visible one.
THEOREM OneVideoPlaysHolds == Spec => []OneVideoPlays
<1> DEFINE Inv == part = "Players" => Players!PlayersDue /\ Players!MostVisibleDue
<1>1. Init => Inv
  <2> SUFFICES ASSUME Init, part = "Players" PROVE Players!PlayersDue /\ Players!MostVisibleDue
    OBVIOUS
  <2>1. Players!Init
    BY DEF Init
  <2>2. Players!MostVisibleDue
    BY <2>1 DEF Players!Init, Players!MostVisibleDue
  <2> QED BY <2>1, <2>2, Players!PlayersDueInit
<1>2. Inv /\ [Next]_vars => Inv'
  <2> SUFFICES ASSUME Inv, [Next]_vars, part' = "Players"
               PROVE  Players!PlayersDue' /\ Players!MostVisibleDue'
    OBVIOUS
  <2>1. part = "Players" /\ [Players!Next]_(Players!vars)
    BY DEF Next, vars, Players!vars
  <2>2. "none" \notin InFull
    BY DEF InFull
  <2> QED BY <2>1, <2>2, Players!PlayersDueStep, Players!MostVisibleDueStep
<1>3. Inv => OneVideoPlays
  <2> SUFFICES ASSUME Inv, part = "Players"
               PROVE  Players!OnlyTheActivePlays /\ Players!TheActivePlays
                      /\ Players!ActiveIsMostVisible
    BY DEF OneVideoPlays
  <2>1. Players!ActiveIsMostVisible
    BY DEF Players!MostVisibleDue, Players!ActiveIsMostVisible, Players!AtRest
  <2> QED BY <2>1, Players!PlayersDueRests
<1> QED BY <1>1, <1>2, <1>3, PTL DEF Spec

\* Whatever contact lists are read, merged, cached and published, with any relays and
\* starts: ContactList's invariants, under their guard.
LEMMA ContactsHold ==
  /\ Init /\ part = "Contacts" => Contacts!Typed /\ Contacts!SettledInv /\ Contacts!FeedInv
  /\ Contacts!Typed /\ Contacts!SettledInv /\ Contacts!FeedInv /\ [Contacts!Next]_(Contacts!vars)
       => (Contacts!Typed /\ Contacts!SettledInv /\ Contacts!FeedInv)' /\ Contacts!FeedStep
<1>1. Init /\ part = "Contacts" => Contacts!Init
  BY DEF Init
<1> QED BY <1>1, HomeIsNobody, Contacts!ContactsInit, Contacts!TypedStep, Contacts!SettledStep,
           Contacts!FeedInvStep

\* SettledShown for any people, relays, versions and reloads (useFollowUser's onSuccess).
THEOREM SettledShownHolds == Spec => []SettledShown
<1> DEFINE Inv == part = "Contacts" =>
                    Contacts!Typed /\ Contacts!SettledInv /\ Contacts!FeedInv
<1>1. Init => Inv
  BY ContactsHold
<1>2. Inv /\ [Next]_vars => Inv'
  <2> SUFFICES ASSUME Inv, [Next]_vars, part' = "Contacts"
               PROVE  (Contacts!Typed /\ Contacts!SettledInv /\ Contacts!FeedInv)'
    OBVIOUS
  <2>1. part = "Contacts" /\ [Contacts!Next]_(Contacts!vars)
    BY DEF Next, vars, Contacts!vars
  <2> QED BY <2>1, ContactsHold
<1>3. Inv => SettledShown
  BY DEF SettledShown, Contacts!SettledInv, Contacts!SettledShown
<1> QED BY <1>1, <1>2, <1>3, PTL DEF Spec

\* DeletedStaysOut for any lists, videos, operations and times (useDeleteVideoList):
\* VideoLists' invariant about versions and their deletions, under its guard.
THEOREM DeletedStaysOutHolds == Spec => []DeletedStaysOut
<1> DEFINE Inv == part = "Lists" => Lists!Typed /\ Lists!DeletedInv
<1>1. Init => Inv
  <2> SUFFICES ASSUME Init, part = "Lists" PROVE Lists!Typed /\ Lists!DeletedInv
    OBVIOUS
  <2>1. Lists!Init
    BY DEF Init
  <2> QED BY <2>1, Lists!ListsInit
<1>2. Inv /\ [Next]_vars => Inv'
  <2> SUFFICES ASSUME Inv, [Next]_vars, part' = "Lists" PROVE (Lists!Typed /\ Lists!DeletedInv)'
    OBVIOUS
  <2>1. part = "Lists" /\ [Lists!Next]_(Lists!vars)
    BY DEF Next, vars, Lists!vars
  <2> QED BY <2>1, Lists!TypedStep, Lists!DeletedStep
<1>3. Inv => DeletedStaysOut
  BY DEF DeletedStaysOut, Lists!DeletedInv, Lists!DeletedStaysOut
<1> QED BY <1>1, <1>2, <1>3, PTL DEF Spec

\* What BlobInv says of fetches and preflights goes on, and no other step gives a blob.
LEMMA BlobHolds ==
  /\ Init /\ part = "Source" => Source!BlobInv
  /\ Source!BlobInv /\ [Source!Next]_(Source!vars) => Source!BlobInv' /\ [Source!BlobStep]_(Source!vars)
<1>1. ASSUME Init, part = "Source" PROVE Source!BlobInv
  <2>1. Source!Init
    BY <1>1 DEF Init
  <2> QED BY <2>1 DEF Source!Init, Source!BlobInv
<1>2. ASSUME Source!BlobInv, [Source!Next]_(Source!vars) PROVE Source!BlobInv' /\ [Source!BlobStep]_(Source!vars)
  <2> USE <1>2 DEF Source!BlobInv, Source!BlobStep, Source!position, Source!network, Source!status
  <2>1. CASE Source!RunLoad
    <3> DEFINE l == [n |-> s11 + 1, ed |-> s4, url |-> IF s4 > 0 THEN s5 ELSE 0, ver |-> s3]
               S == {h \in s13 : h.n # s14}
    <3>1. /\ s10 /\ UNCHANGED <<s4, s5>>
          /\ \/ s15' = {} /\ s12' = s12
             \/ ~s3 /\ s12' = s12 \cup {l} /\ s15' = {}
             \/ s12' = s12 /\ Source!Play(l, S, {})
      BY <2>1 DEF Source!RunLoad, Source!Aborted
    <3>2. ASSUME Source!Play(l, S, {}) PROVE s15' = {} \/ (s15' = {l} /\ l.url > 0)
      BY <3>2 DEF Source!Play
    <3>3. l.ed = s4 /\ l.ver = s3 /\ (l.url > 0 => l.url = s5)
      OBVIOUS
    <3> HIDE DEF l, S
    <3> QED BY <3>1, <3>2, <3>3
  <2>2. ASSUME NEW l \in Source!Load, Source!Preflight(l) PROVE Source!BlobInv' /\ Source!BlobStep
    <3>1. /\ ~l.ver /\ s12' = s12 \ {l} /\ UNCHANGED <<s4, s5>>
          /\ \/ Source!Play(l, s13, s15) /\ s10' = s10
             \/ UNCHANGED <<s15, s16>> /\ (s10 => s10')
      BY <2>2 DEF Source!Preflight, Source!NeedAuth
    <3>2. ASSUME Source!Play(l, s13, s15) PROVE s15' = s15 /\ (s16' = s16 \/ s16'.kind # "blob")
      BY <3>1, <3>2 DEF Source!Play, Source!Given
    <3> QED BY <3>1, <3>2
  <2>3. ASSUME NEW l \in Source!Load, Source!Fetched(l) PROVE Source!BlobInv' /\ Source!BlobStep
    <3>1. /\ l \in s15 /\ s15' = s15 \ {l} /\ UNCHANGED <<s4, s5, s10, s12>>
          /\ s16' = s16 \/ s16' = [kind |-> "blob", ed |-> l.ed, url |-> l.url, state |-> "open"]
      BY <2>3 DEF Source!Fetched, Source!Given
    <3> QED BY <3>1
  <2>4. ASSUME NEW l \in Source!Load, Source!Manifest(l) \/ Source!HlsDenied(l) \/ Source!HlsFatal(l)
        PROVE  Source!BlobInv' /\ Source!BlobStep
    <3>1. CASE Source!Manifest(l)
      BY <3>1 DEF Source!Manifest
    <3>2. CASE Source!HlsDenied(l)
      <4>1. UNCHANGED <<s4, s5, s12, s15, s16>> /\ (s10 => s10')
        BY <3>2 DEF Source!HlsDenied, Source!NeedAuth
      <4> QED BY <4>1
    <3>3. CASE Source!HlsFatal(l)
      <4>1. UNCHANGED <<s4, s5, s10, s12, s15>> /\ (s16' = s16 \/ s16'.kind # "blob")
        BY <3>3 DEF Source!HlsFatal, Source!Given
      <4> QED BY <4>1
    <3> QED BY <2>4, <3>1, <3>2, <3>3
  <2>5. CASE Source!Start \/ Source!NewUrls
    BY <2>5 DEF Source!Start, Source!NewUrls
  <2>6. CASE Source!Loaded
    <3>1. UNCHANGED <<s4, s5, s10, s12, s15>> /\ s16' = [s16 EXCEPT !.state = "loaded"]
      BY <2>6 DEF Source!Loaded
    <3> QED BY <3>1
  <2>7. CASE Source!Broken
    <3>1. /\ UNCHANGED <<s4, s12, s15>> /\ s16' = [s16 EXCEPT !.state = "broken"]
          /\ s10' \/ (s5' = s5 /\ s10' = s10)
      BY <2>7 DEF Source!Broken
    <3> QED BY <3>1
  <2>8. CASE Source!Confirm \/ Source!CallBack \/ Source!AlreadyVerified
    BY <2>8 DEF Source!Confirm, Source!CallBack, Source!AlreadyVerified, Source!AgeVerified
  <2>9. CASE UNCHANGED Source!vars
    BY <2>9 DEF Source!vars
  <2> QED BY <2>1, <2>2, <2>3, <2>4, <2>5, <2>6, <2>7, <2>8, <2>9 DEF Source!Next
<1> QED BY <1>1, <1>2

\* A profile is put on the watch page next to a video of its author.
LEMMA ProfileHolds == [Watch!Next]_(Watch!vars) => [Watch!ProfileStep]_(Watch!vars)
<1> SUFFICES ASSUME [Watch!Next]_(Watch!vars), s9' # s9 PROVE s9' = s8'
  BY DEF Watch!ProfileStep
<1>1. ASSUME NEW r \in WatchRelay, Watch!ProfileEvent(r) PROVE s9' = s8'
  BY <1>1 DEF Watch!ProfileEvent, Watch!IsAuthors
<1>2. ASSUME NEW r \in WatchRelay,
             Watch!Connected(r) \/ Watch!Refused(r) \/ Watch!Lost(r) \/ Watch!VideoEvent(r)
      PROVE  s9' = s9
  BY <1>2 DEF Watch!Connected, Watch!Refused, Watch!Lost, Watch!VideoEvent, Watch!Shown
<1>3. ASSUME Watch!ConnectToRelays \/ Watch!CheckComplete \/ Watch!TimedOut \/ Watch!VideoBroken
             \/ Watch!Like \/ UNCHANGED Watch!vars
      PROVE  s9' = s9
  BY <1>3 DEF Watch!ConnectToRelays, Watch!CheckComplete, Watch!TimedOut, Watch!VideoBroken,
              Watch!Like, Watch!vars, Watch!Shown
<1> QED BY <1>1, <1>2, <1>3 DEF Watch!Next

\* What the page of a video has of its two sources, after a step to an address.
LEMMA KeysTyped ==
  \A u \in Video!Pages : Video!ApiKey(u) \in Video!Key /\ Video!WsKey(u) \in Video!Key
BY DEF Video!ApiKey, Video!WsKey, Video!Key, Video!Pages, Video!Mode

LEMMA QueriesTyped ==
  \A s \in [Video!Key -> Video!Query], k \in Video!Key, b \in BOOLEAN :
    /\ Video!Cancelled(s, k) \in [Video!Key -> Video!Query]
    /\ Video!Asked(s, k, b) \in [Video!Key -> Video!Query]
<1>1. \A s \in [Video!Key -> Video!Query], k \in Video!Key :
        Video!Cancelled(s, k) \in [Video!Key -> Video!Query]
  BY DEF Video!Cancelled, Video!Query, Video!Idle
<1>2. \A s \in [Video!Key -> Video!Query], k \in Video!Key, b \in BOOLEAN :
        Video!Asked(s, k, b) \in [Video!Key -> Video!Query]
  BY DEF Video!Asked, Video!Query
<1> QED BY <1>1, <1>2

LEMMA GoToTyped ==
  ASSUME Video!PageInv, NEW u \in Video!Pages \cup {Video!Away}, Video!GoTo(u)
  PROVE  /\ s1' = u /\ s3' \in [Video!Key -> Video!Query] /\ s4' \in [Video!Key -> Video!Query]
<1> USE DEF Video!PageInv
<1>0. \A k \in Video!Key : /\ Video!Cancelled(s3, k) \in [Video!Key -> Video!Query]
                           /\ Video!Cancelled(s4, k) \in [Video!Key -> Video!Query]
  BY QueriesTyped
<1>1. CASE u = Video!Away
  <2>1. /\ s1' = u
        /\ s3' = IF s1 = Video!Away THEN s3 ELSE Video!Cancelled(s3, Video!ApiKey(s1))
        /\ s4' = IF s1 = Video!Away THEN s4 ELSE Video!Cancelled(s4, Video!WsKey(s1))
    BY <1>1 DEF Video!GoTo
  <2>2. s1 # Video!Away => Video!ApiKey(s1) \in Video!Key /\ Video!WsKey(s1) \in Video!Key
    BY KeysTyped
  <2> QED BY <1>0, <2>1, <2>2
<1>2. CASE u # Video!Away
  <2> DEFINE a == IF s1 = Video!Away \/ Video!ApiKey(s1) = Video!ApiKey(u) THEN s3
                  ELSE Video!Cancelled(s3, Video!ApiKey(s1))
             w == IF s1 = Video!Away \/ Video!WsKey(s1) = Video!WsKey(u) THEN s4
                  ELSE Video!Cancelled(s4, Video!WsKey(s1))
  <2>1. a \in [Video!Key -> Video!Query] /\ w \in [Video!Key -> Video!Query]
    BY KeysTyped, QueriesTyped
  <2>2. /\ s1' = u
        /\ s3' = Video!Asked(a, Video!ApiKey(u), s1 = Video!Away \/ Video!ApiKey(s1) # Video!ApiKey(u))
        /\ s4' = Video!Asked(w, Video!WsKey(u), s1 = Video!Away \/ Video!WsKey(s1) # Video!WsKey(u))
    BY <1>2 DEF Video!GoTo
  <2> HIDE DEF a, w
  <2> QED BY <1>2, <2>1, <2>2, KeysTyped, QueriesTyped
<1> QED BY <1>1, <1>2

\* The place of a video is one where the list on the screen has it.
LEMMA PlaceIsThere ==
  ASSUME Video!PageInv, s1 \in Video!Pages, Video!Place(s3, s4, s1) > 0
  PROVE  LET s == Video!Videos(s3, s4, s1)  p == Video!Place(s3, s4, s1)
         IN  s \in Seq(Video!Id) /\ p \in DOMAIN s /\ s[p] = s1.id
<1> DEFINE s == Video!Videos(s3, s4, s1)
<1>1. \A q \in Video!Query : q.list \in Seq(Video!Id)
  BY DEF Video!Query
<1>2. s3[Video!ApiKey(s1)] \in Video!Query /\ s4[Video!WsKey(s1)] \in Video!Query
  BY KeysTyped DEF Video!PageInv
<1>3. s \in Seq(Video!Id)
  BY <1>1, <1>2 DEF Video!Videos, Video!ApiVideos
<1>4. s1.id \in Video!Range(s) /\ Video!Place(s3, s4, s1) = CHOOSE i \in DOMAIN s : s[i] = s1.id
  BY DEF Video!Place, Video!FirstIn
<1>5. \E i \in DOMAIN s : s[i] = s1.id
  BY <1>4 DEF Video!Range
<1> QED BY <1>3, <1>4, <1>5

\* What the two sources answer.
LEMMA ListsTyped ==
  /\ Video!Lists \subseteq Seq(Video!Id)
  /\ \A u \in Video!Pages : <<u.id>> \in Seq(Video!Id) /\ <<>> \in Seq(Video!Id)
<1>1. /\ "v1" \in Video!Id /\ "v2" \in Video!Id /\ "v3" \in Video!Id
      /\ \A u \in Video!Pages : u.id \in Video!Id
  BY DEF Video!Id, Video!Pages
<1>2. \A x, y, z \in Video!Id : /\ <<x, y, z>> \in Seq(Video!Id) /\ <<x, y>> \in Seq(Video!Id)
                                /\ <<x>> \in Seq(Video!Id)
  OBVIOUS
<1> QED BY <1>1, <1>2 DEF Video!Lists

\* The address, the history and the two sources keep their types, and a key goes to a
\* neighbour.
LEMMA KeyHolds ==
  /\ Init /\ part = "Video" => Video!PageInv
  /\ Video!PageInv /\ [Video!Next]_(Video!vars) => Video!PageInv' /\ [Video!KeyStep]_(Video!vars)
<1> DEFINE Urls == Video!Pages \cup {Video!Away}
           Queries == [Video!Key -> Video!Query]
<1>1. ASSUME Init, part = "Video" PROVE Video!PageInv
  <2>1. Video!Init
    BY <1>1 DEF Init
  <2>2. s3 \in Queries /\ s4 \in Queries
    <3>1. \A is \in {"asked", "none"} : [Video!Idle EXCEPT !.is = is] \in Video!Query
      <4>1. <<>> \in Seq(Video!Id)
        OBVIOUS
      <4>2. \A is \in {"asked", "none"} :
              [Video!Idle EXCEPT !.is = is] = [is |-> is, list |-> <<>>]
        BY DEF Video!Idle
      <4> QED BY <4>1, <4>2 DEF Video!Query
    <3> QED BY <2>1, <3>1 DEF Video!Init
  <2>3. s1 \in Urls /\ s2 \in Seq(Urls)
    BY <2>1 DEF Video!Init
  <2> QED BY <2>2, <2>3 DEF Video!PageInv
<1>2. ASSUME Video!PageInv, [Video!Next]_(Video!vars)
      PROVE  Video!PageInv' /\ [Video!KeyStep]_(Video!vars)
  <2>0. s1 \in Urls /\ s2 \in Seq(Urls) /\ s3 \in Queries /\ s4 \in Queries
    BY <1>2 DEF Video!PageInv
  <2>1. ASSUME NEW u \in Urls, Video!Push(u) PROVE Video!PageInv'
    <3>1. s1' = u /\ s3' \in Queries /\ s4' \in Queries /\ s2' = Append(s2, s1)
      BY <1>2, <2>1, GoToTyped DEF Video!Push
    <3>2. s2' \in Seq(Urls)
      BY <2>0, <3>1
    <3> QED BY <3>1, <3>2 DEF Video!PageInv
  <2>2. ASSUME s2 # <<>>, s2' = SubSeq(s2, 1, Len(s2) - 1), Video!GoTo(s2[Len(s2)])
        PROVE  Video!PageInv' /\ Len(s2') < Len(s2)
    <3>1. s2[Len(s2)] \in Urls /\ s2' \in Seq(Urls) /\ Len(s2') < Len(s2)
      BY <2>0, <2>2
    <3>2. s1' = s2[Len(s2)] /\ s3' \in Queries /\ s4' \in Queries
      BY <1>2, <2>2, <3>1, GoToTyped
    <3> QED BY <3>1, <3>2 DEF Video!PageInv
  <2>3. CASE Video!Move
    <3> DEFINE p == Video!Place(s3, s4, s1)  s == Video!Videos(s3, s4, s1)
    <3>1. s1 \in Video!Pages
      BY <2>0, <2>3 DEF Video!Move
    <3>2. PICK n \in {p - 1, p + 1} \cap DOMAIN s :
            p > 0 /\ Video!Push([s1 EXCEPT !.id = s[n], !.vine = FALSE])
      BY <2>3 DEF Video!Move
    <3>3. s \in Seq(Video!Id) /\ p \in DOMAIN s /\ s[p] = s1.id
      <4>1. Video!Place(s3, s4, s1) > 0
        BY <3>2
      <4> HIDE DEF p, s
      <4>2. s = Video!Videos(s3, s4, s1) /\ p = Video!Place(s3, s4, s1)
        BY DEF p, s
      <4> QED BY <1>2, <3>1, <4>1, <4>2, PlaceIsThere
    <3> DEFINE u == [s1 EXCEPT !.id = s[n], !.vine = FALSE]
    <3>4. u \in Video!Pages /\ u.id = s[n]
      <4>1. s[n] \in Video!Id
        BY <3>2, <3>3
      <4>2. \A x \in Video!Id : /\ [s1 EXCEPT !.id = x, !.vine = FALSE] \in Video!Pages
                                /\ [s1 EXCEPT !.id = x, !.vine = FALSE].id = x
        BY <3>1 DEF Video!Pages
      <4> QED BY <4>1, <4>2
    <3>5. s1' = u
      BY <3>2 DEF Video!Push, Video!GoTo
    <3> HIDE DEF u, p, s
    <3>6. Video!KeyStep
      BY <3>2, <3>3, <3>4, <3>5 DEF Video!KeyStep, p, s
    <3>7. Video!Push(u)
      BY <3>2 DEF u
    <3> QED BY <2>1, <3>4, <3>6, <3>7
  <2>4. CASE Video!GoBack \/ Video!BrowserBack
    <3>1. CASE Video!Push(Video!Away)
      <4>1. s1' = Video!Away
        BY <3>1 DEF Video!Push, Video!GoTo
      <4> QED BY <2>1, <3>1, <4>1 DEF Video!KeyStep
    <3>2. CASE s2 # <<>> /\ s2' = SubSeq(s2, 1, Len(s2) - 1) /\ Video!GoTo(s2[Len(s2)])
      <4>1. ~(Len(s2') > Len(s2))
        BY <2>0, <2>2, <3>2 DEF Video!PageInv
      <4> QED BY <2>2, <3>2, <4>1 DEF Video!KeyStep
    <3> QED BY <2>4, <3>1, <3>2 DEF Video!GoBack, Video!BrowserBack
  <2>5. CASE Video!ApiAnswers
    <3>1. s1 \in Video!Pages /\ UNCHANGED <<s1, s2, s4>>
      BY <2>0, <2>5 DEF Video!ApiAnswers
    <3>2. PICK l \in Seq(Video!Id), is \in {"here", "failed"} :
            s3' = [s3 EXCEPT ![Video!ApiKey(s1)] = [is |-> is, list |-> l]]
      BY <2>5, <3>1, ListsTyped DEF Video!ApiAnswers
    <3>3. s3' \in Queries
      BY <2>0, <3>2 DEF Video!Query
    <3> QED BY <2>0, <3>1, <3>3 DEF Video!PageInv, Video!KeyStep
  <2>6. CASE Video!WsAnswers
    <3>1. s1 \in Video!Pages /\ UNCHANGED <<s1, s2, s3>>
      BY <2>0, <2>6 DEF Video!WsAnswers
    <3>2. PICK l \in Seq(Video!Id), is \in {"here", "failed"} :
            s4' = [s4 EXCEPT ![Video!WsKey(s1)] = [is |-> is, list |-> l]]
      BY <2>6, <3>1, ListsTyped DEF Video!WsAnswers
    <3>3. s4' \in Queries
      BY <2>0, <3>2 DEF Video!Query
    <3> QED BY <2>0, <3>1, <3>3 DEF Video!PageInv, Video!KeyStep
  <2>7. CASE Video!ShowMore \/ UNCHANGED Video!vars
    <3>1. UNCHANGED <<s1, s2, s3, s4>>
      BY <2>7 DEF Video!ShowMore, Video!vars
    <3> QED BY <2>0, <3>1 DEF Video!PageInv, Video!KeyStep
  <2> QED BY <1>2, <2>3, <2>4, <2>5, <2>6, <2>7 DEF Video!Next
<1> QED BY <1>1, <1>2

\* ShownStaysCurrent for any people, relays, lists, URLs and bounds of those parts: each
\* part's step property from its own invariant (useFollowList, useCreateVideoList,
\* VideoPlayer's load, displayProfile and useVideoNavigation).
THEOREM ShownStaysCurrentHolds == Spec => ShownStaysCurrent
<1> DEFINE ContactsInv == Contacts!Typed /\ Contacts!SettledInv /\ Contacts!FeedInv
           ListsInv == Lists!Typed /\ Lists!ShownInv
           Inv == /\ part = "Contacts" => ContactsInv
                  /\ part = "Lists" => ListsInv
                  /\ part = "Source" => Source!BlobInv
                  /\ part = "Video" => Video!PageInv
<1>1. Init => Inv
  <2> SUFFICES ASSUME Init PROVE Inv
    OBVIOUS
  <2>1. part = "Lists" => ListsInv
    <3>1. part = "Lists" => Lists!Init
      BY DEF Init
    <3> QED BY <3>1, Lists!ListsInit
  <2> QED BY <2>1, ContactsHold, BlobHolds, KeyHolds
<1>2. Inv /\ [Next]_vars => Inv' /\ [CurrentStep]_vars
  <2> SUFFICES ASSUME Inv, [Next]_vars PROVE Inv' /\ [CurrentStep]_vars
    OBVIOUS
  <2>1. part' = part
    BY DEF Next, vars
  <2>2. part = "Contacts" => ContactsInv' /\ (UNCHANGED vars \/ Contacts!FeedStep)
    <3>1. part = "Contacts" => [Contacts!Next]_(Contacts!vars)
      BY DEF Next, vars, Contacts!vars
    <3> QED BY <3>1, ContactsHold
  <2>3. part = "Lists" => ListsInv' /\ (UNCHANGED vars \/ Lists!ViewStep)
    <3>1. part = "Lists" => [Lists!Next]_(Lists!vars)
      BY DEF Next, vars, Lists!vars
    <3> QED BY <3>1, Lists!TypedStep, Lists!ShownStep
  <2>4. part = "Source" => Source!BlobInv' /\ (UNCHANGED vars \/ Source!BlobStep)
    <3>1. part = "Source" => [Source!Next]_(Source!vars)
      BY DEF Next, vars, Source!vars
    <3>2. UNCHANGED Source!vars => Source!BlobStep
      BY DEF Source!vars, Source!BlobStep
    <3> QED BY <3>1, <3>2, BlobHolds
  <2>5. part = "Watch" => Watch!ProfileStep
    <3>1. part = "Watch" => [Watch!Next]_(Watch!vars)
      BY DEF Next, vars, Watch!vars
    <3>2. UNCHANGED Watch!vars => Watch!ProfileStep
      BY DEF Watch!vars, Watch!ProfileStep
    <3> QED BY <3>1, <3>2, ProfileHolds
  <2>6. part = "Video" => Video!PageInv' /\ Video!KeyStep
    <3>1. part = "Video" => [Video!Next]_(Video!vars)
      BY DEF Next, vars, Video!vars
    <3>2. Video!PageInv /\ UNCHANGED Video!vars => Video!KeyStep
      BY DEF Video!PageInv, Video!vars, Video!KeyStep
    <3> QED BY <3>1, <3>2, KeyHolds
  <2>7. Inv'
    BY <2>1, <2>2, <2>3, <2>4, <2>6
  <2>8. [CurrentStep]_vars
    BY <2>2, <2>3, <2>4, <2>5, <2>6 DEF CurrentStep
  <2> QED BY <2>7, <2>8
<1> QED BY <1>1, <1>2, PTL DEF Spec, ShownStaysCurrent

-----------------------------------------------------------------------------
\* What is left of a list without one of its users.
LEMMA WithoutOne ==
  ASSUME NEW l \in Seq(Persons), \A i, j \in 1..Len(l) : l[i] = l[j] => i = j, NEW u \in Persons
  PROVE  LET q == <<u>> \o Accounts!Without(l, u)
         IN  q \in Seq(Persons) /\ \A i, j \in 1..Len(q) : q[i] = q[j] => i = j
<1> DEFINE w == Accounts!Without(l, u)
           q == <<u>> \o w
<1>1. /\ w \in Seq(Persons) /\ (\A i, j \in 1..Len(w) : w[i] = w[j] => i = j)
      /\ \A i \in 1..Len(w) : w[i] # u
  <2>1. CASE u \notin Accounts!Range(l)
    BY <2>1 DEF Accounts!Without, Accounts!Range
  <2>2. CASE u \in Accounts!Range(l)
    <3> DEFINE k == CHOOSE i \in DOMAIN l : l[i] = u
               a == SubSeq(l, 1, k - 1)
               b == SubSeq(l, k + 1, Len(l))
    <3>1. w = a \o b
      BY <2>2 DEF Accounts!Without
    <3>2. k \in DOMAIN l /\ l[k] = u
      BY <2>2 DEF Accounts!Range
    <3>3. k \in 1..Len(l) /\ Len(l) \in Nat
      BY <3>2
    <3> HIDE DEF k
    <3>4. /\ a \in Seq(Persons) /\ Len(a) = k - 1 /\ \A i \in 1..(k - 1) : a[i] = l[i]
      BY <3>3, SubSeqProperties
    <3>5. /\ b \in Seq(Persons) /\ Len(b) = Len(l) - k /\ \A i \in 1..(Len(l) - k) : b[i] = l[i + k]
      BY <3>3, SubSeqProperties
    <3> HIDE DEF a, b
    <3>6. /\ a \o b \in Seq(Persons) /\ Len(a \o b) = Len(l) - 1
          /\ \A i \in 1..(Len(l) - 1) : (a \o b)[i] = IF i <= k - 1 THEN a[i] ELSE b[i - (k - 1)]
      BY <3>3, <3>4, <3>5
    <3> DEFINE at(i) == IF i < k THEN i ELSE i + 1
    <3> HIDE DEF w
    <3>7. ASSUME NEW i \in 1..Len(w) PROVE w[i] = l[at(i)] /\ at(i) \in 1..Len(l) /\ at(i) # k
      <4>1. i \in 1..(Len(l) - 1)
        BY <3>1, <3>6
      <4>2. CASE i < k
        BY <3>1, <3>3, <3>4, <3>6, <4>1, <4>2
      <4>3. CASE ~(i < k)
        <5>1. i - (k - 1) \in 1..(Len(l) - k)
          BY <3>3, <4>1, <4>3
        <5>2. (i - (k - 1)) + k = i + 1
          BY <3>3, <4>1
        <5> QED BY <3>1, <3>3, <3>5, <3>6, <4>1, <4>3, <5>1, <5>2
      <4> QED BY <4>2, <4>3
    <3>8. Len(w) = Len(l) - 1
      BY <3>1, <3>6
    <3>9. \A i, j \in 1..Len(w) : at(i) = at(j) => i = j
      BY <3>3, <3>8
    <3> HIDE DEF at
    <3>10. ASSUME NEW i \in 1..Len(w), NEW j \in 1..Len(w), w[i] = w[j] PROVE i = j
      <4>1. l[at(i)] = l[at(j)] /\ at(i) \in 1..Len(l) /\ at(j) \in 1..Len(l)
        BY <3>7, <3>10
      <4>2. at(i) = at(j)
        BY <4>1
      <4> QED BY <3>9, <4>2
    <3>11. ASSUME NEW i \in 1..Len(w) PROVE w[i] # u
      <4>1. at(i) \in 1..Len(l) /\ at(i) # k /\ w[i] = l[at(i)]
        BY <3>7
      <4> QED BY <3>2, <3>3, <4>1
    <3> QED BY <3>1, <3>6, <3>10, <3>11
  <2> QED BY <2>1, <2>2
<1> HIDE DEF w
<1>2. /\ q \in Seq(Persons) /\ Len(q) = Len(w) + 1 /\ q[1] = u
      /\ \A i \in 1..Len(w) : q[i + 1] = w[i]
  BY <1>1
<1> HIDE DEF q
<1>3. ASSUME NEW i \in 1..Len(q), NEW j \in 1..Len(q), q[i] = q[j] PROVE i = j
  <2>1. Len(w) \in Nat
    BY <1>1
  <2>2. \A n \in 1..Len(q) : n = 1 \/ (n - 1 \in 1..Len(w) /\ q[n] = w[n - 1])
    <3> SUFFICES ASSUME NEW n \in 1..Len(q), n # 1 PROVE n - 1 \in 1..Len(w) /\ q[n] = w[n - 1]
      OBVIOUS
    <3>1. n - 1 \in 1..Len(w)
      BY <1>2, <2>1
    <3>2. (n - 1) + 1 = n
      BY <1>2, <2>1
    <3> QED BY <1>2, <3>1, <3>2
  <2>3. CASE i = 1
    <3>1. ~(j - 1 \in 1..Len(w) /\ q[j] = w[j - 1])
      BY <1>1, <1>2, <1>3, <2>3
    <3> QED BY <2>2, <2>3, <3>1
  <2>4. CASE j = 1
    <3>1. ~(i - 1 \in 1..Len(w) /\ q[i] = w[i - 1])
      BY <1>1, <1>2, <1>3, <2>4
    <3> QED BY <2>2, <2>4, <3>1
  <2>5. CASE i # 1 /\ j # 1
    <3>1. i - 1 \in 1..Len(w) /\ j - 1 \in 1..Len(w) /\ w[i - 1] = w[j - 1]
      BY <1>3, <2>2, <2>5
    <3>2. i - 1 = j - 1
      BY <1>1, <3>1
    <3> QED BY <1>2, <2>1, <3>2
  <2> QED BY <2>3, <2>4, <2>5
<1> QED BY <1>2, <1>3 DEF q, w

\* The marks of an open dialog go with their attempts.
LEMMA MarksStep ==
  /\ Accounts!Init => Accounts!Typed /\ Accounts!MarksInv
  /\ Accounts!Typed /\ Accounts!MarksInv /\ [Accounts!Next]_(Accounts!vars) => Accounts!Typed' /\ Accounts!MarksInv'
<1>1. Accounts!Init => Accounts!Typed /\ Accounts!MarksInv
  <2> SUFFICES ASSUME Accounts!Init PROVE Accounts!Typed /\ Accounts!MarksInv
    OBVIOUS
  <2>1. s7 = {} /\ s8 = 0 /\ s5 = FALSE /\ s6 = FALSE
    BY DEF Accounts!Init
  <2>2. s7 \subseteq [n: Int, kind: Accounts!Kind, user: Persons] /\ s8 \in Int
    BY <2>1
  <2>3. ~s5 /\ ~s6 /\ s5 \in BOOLEAN /\ s6 \in BOOLEAN
    BY <2>1, Zenon
  <2> QED BY <2>2, <2>3 DEF Accounts!Typed, Accounts!MarksInv
<1>2. Accounts!Typed /\ Accounts!MarksInv /\ [Accounts!Next]_(Accounts!vars) => Accounts!Typed' /\ Accounts!MarksInv'
  <2> SUFFICES ASSUME Accounts!Typed, Accounts!MarksInv, [Accounts!Next]_(Accounts!vars)
               PROVE  Accounts!Typed' /\ Accounts!MarksInv'
    OBVIOUS
  <2> DEFINE AnyAttempt == [n: Int, kind: Accounts!Kind, user: Persons]
  <2>1. /\ s7 \subseteq AnyAttempt /\ s8 \in Int /\ s5 \in BOOLEAN /\ s6 \in BOOLEAN
        /\ (s2 \/ s3) /\ s5 => \E a \in s7 : a.kind # "file"
        /\ (s2 \/ s3) /\ s6 => \E a \in s7 : a.kind = "file"
    BY DEF Accounts!Typed, Accounts!MarksInv, Accounts!IsOpen
  <2>2. ASSUME s7' \subseteq AnyAttempt, s8' \in Int, s5' \in BOOLEAN, s6' \in BOOLEAN,
               s2' \/ s3' => /\ s5' => \E a \in s7' : a.kind # "file"
                             /\ s6' => \E a \in s7' : a.kind = "file"
        PROVE  Accounts!Typed' /\ Accounts!MarksInv'
    BY <2>2 DEF Accounts!Typed, Accounts!MarksInv, Accounts!IsOpen
  <2>3. ASSUME NEW a \in s7 PROVE a.kind \in Accounts!Kind /\ a.user \in Persons
    BY <2>1
  <2>4. CASE UNCHANGED <<s7, s8, s5, s6, s2, s3>>
    BY <2>1, <2>2, <2>4
  <2>5. CASE UNCHANGED <<s7, s8>> /\ s5' = FALSE /\ s6' = FALSE
    BY <2>1, <2>2, <2>5
  <2>6. CASE UNCHANGED <<s7, s8, s5, s6>> /\ Accounts!Closed
    BY <2>1, <2>2, <2>6 DEF Accounts!Closed
  <2>7. ASSUME NEW u \in Persons, NEW kind \in Accounts!Kind \ {"file"}, Accounts!Start(kind, u) PROVE Accounts!Typed' /\ Accounts!MarksInv'
    <3> DEFINE a == [n |-> s8 + 1, kind |-> kind, user |-> u]
    <3>1. /\ s7' = s7 \cup {a} /\ s8' = s8 + 1 /\ s5' = TRUE
          /\ UNCHANGED <<s6, s2, s3>>
      BY <2>7 DEF Accounts!Start, Accounts!Attempt, Accounts!Dialogs
    <3>2. a \in AnyAttempt /\ a.kind # "file"
      BY <2>1
    <3> HIDE DEF a, AnyAttempt
    <3> QED BY <2>1, <2>2, <3>1, <3>2
  <2>8. ASSUME NEW u \in Persons, Accounts!StartFile(u) PROVE Accounts!Typed' /\ Accounts!MarksInv'
    <3> DEFINE a == [n |-> s8 + 1, kind |-> "file", user |-> u]
    <3>1. /\ s7' = s7 \cup {a} /\ s8' = s8 + 1 /\ s6' = TRUE
          /\ UNCHANGED <<s5, s2, s3>>
      BY <2>8 DEF Accounts!StartFile, Accounts!Attempt, Accounts!Dialogs
    <3>2. a \in AnyAttempt /\ a.kind = "file"
      BY <2>1 DEF Accounts!Kind
    <3> HIDE DEF a, AnyAttempt
    <3> QED BY <2>1, <2>2, <3>1, <3>2
  <2>9. ASSUME NEW a \in s7, Accounts!FileRead(a) PROVE Accounts!Typed' /\ Accounts!MarksInv'
    <3> DEFINE b == [a EXCEPT !.kind = "key"]
    <3>1. /\ s7' = (s7 \ {a}) \cup {b} /\ s5' = TRUE /\ s6' = FALSE
          /\ UNCHANGED <<s8, s2, s3>>
      BY <2>9 DEF Accounts!FileRead, Accounts!Dialogs
    <3>2. b \in AnyAttempt /\ b.kind = "key"
      BY <2>1 DEF Accounts!Kind
    <3> HIDE DEF b, AnyAttempt
    <3> QED BY <2>1, <2>2, <3>1, <3>2
  <2>10. ASSUME NEW a \in s7, Accounts!FileRefused(a) PROVE Accounts!Typed' /\ Accounts!MarksInv'
    <3>1. /\ s7' = s7 \ {a} /\ s6' = FALSE /\ a.kind = "file"
          /\ UNCHANGED <<s8, s5, s2, s3>>
      BY <2>10 DEF Accounts!FileRefused, Accounts!Dialogs
    <3> HIDE DEF AnyAttempt
    <3> QED BY <2>1, <2>2, <3>1
  <2>11. ASSUME NEW a \in s7, Accounts!LoggedIn(a) PROVE Accounts!Typed' /\ Accounts!MarksInv'
    <3>1. /\ s7' = s7 \ {a} /\ s5' = Accounts!Stops(a.kind) /\ s2' = FALSE /\ s3' = FALSE
          /\ UNCHANGED <<s8, s6>>
      BY <2>11 DEF Accounts!LoggedIn, Accounts!Closed
    <3>2. s5' \in BOOLEAN
      BY <2>1, <3>1 DEF Accounts!Stops
    <3> HIDE DEF AnyAttempt
    <3> QED BY <2>1, <2>2, <3>1, <3>2
  <2>12. ASSUME NEW a \in s7, Accounts!LoginFails(a) PROVE Accounts!Typed' /\ Accounts!MarksInv'
    <3>1. /\ s7' = s7 \ {a} /\ s5' = FALSE /\ a.kind # "file"
          /\ UNCHANGED <<s8, s6, s2, s3>>
      BY <2>12 DEF Accounts!LoginFails, Accounts!Dialogs
    <3> HIDE DEF AnyAttempt
    <3> QED BY <2>1, <2>2, <3>1
  <2>13. CASE Accounts!OpenGlobal \/ Accounts!OpenLocal \/ Accounts!HaveAccount
    BY <2>5, <2>13 DEF Accounts!OpenGlobal, Accounts!OpenLocal, Accounts!HaveAccount,
                       Accounts!Reset
  <2>14. CASE Accounts!Close \/ Accounts!SignUp
    BY <2>6, <2>14 DEF Accounts!Close, Accounts!SignUp
  <2>15. CASE Accounts!CloseSignUp \/ Accounts!AskAuthors \/ Accounts!LogOut \/ Accounts!Browse \/ UNCHANGED Accounts!vars
    BY <2>4, <2>15 DEF Accounts!CloseSignUp, Accounts!AskAuthors, Accounts!LogOut,
                       Accounts!Browse, Accounts!Dialogs, Accounts!vars
  <2>16. ASSUME NEW l \in s9, Accounts!AuthorsArrive(l) \/ Accounts!AuthorsFail(l) PROVE Accounts!Typed' /\ Accounts!MarksInv'
    BY <2>4, <2>16 DEF Accounts!AuthorsArrive, Accounts!AuthorsFail, Accounts!Dialogs
  <2>17. ASSUME NEW u \in Persons, Accounts!Switch(u) PROVE Accounts!Typed' /\ Accounts!MarksInv'
    BY <2>4, <2>17 DEF Accounts!Switch, Accounts!Dialogs
  <2>18. {"extension", "bunker", "key"} = Accounts!Kind \ {"file"}
    BY DEF Accounts!Kind
  <2> HIDE DEF AnyAttempt
  <2> QED BY <2>7, <2>8, <2>9, <2>10, <2>11, <2>12, <2>13, <2>14, <2>15, <2>16, <2>17, <2>18
  DEF Accounts!Next
<1> QED BY <1>1, <1>2

\* Nobody is logged in twice, and what was read about some logins is about those.
LEMMA LoginsStep ==
  /\ Accounts!Init => Accounts!LoginsInv
  /\ Accounts!Typed /\ Accounts!LoginsInv /\ [Accounts!Next]_(Accounts!vars) => Accounts!LoginsInv'
<1>1. Accounts!Init => Accounts!LoginsInv
  BY DEF Accounts!Init, Accounts!LoginsInv
<1>2. Accounts!Typed /\ Accounts!LoginsInv /\ [Accounts!Next]_(Accounts!vars) => Accounts!LoginsInv'
  <2> SUFFICES ASSUME Accounts!Typed, Accounts!LoginsInv, [Accounts!Next]_(Accounts!vars)
               PROVE  Accounts!LoginsInv'
    OBVIOUS
  <2>1. /\ s1 \in Seq(Persons) /\ (\A i, j \in 1..Len(s1) : s1[i] = s1[j] => i = j)
        /\ \A l \in DOMAIN s10 : s10[l] = l
    BY DEF Accounts!LoginsInv
  <2>2. CASE UNCHANGED <<s1, s10>>
    BY <2>1, <2>2 DEF Accounts!LoginsInv
  <2>3. ASSUME NEW u \in Persons, s1' = Accounts!Added(u), UNCHANGED s10 PROVE Accounts!LoginsInv'
    <3>1. s1' \in Seq(Persons) /\ \A i, j \in 1..Len(s1') : s1'[i] = s1'[j] => i = j
      BY <2>1, <2>3, WithoutOne DEF Accounts!Added
    <3> QED BY <2>1, <2>3, <3>1 DEF Accounts!LoginsInv
  <2>4. ASSUME NEW a \in s7, Accounts!LoggedIn(a) PROVE Accounts!LoginsInv'
    <3>1. a.user \in Persons
      BY DEF Accounts!Typed
    <3> QED BY <2>3, <2>4, <3>1 DEF Accounts!LoggedIn, Accounts!LogIn, Accounts!Accounts
  <2>5. ASSUME NEW u \in Persons, Accounts!Switch(u) PROVE Accounts!LoginsInv'
    <3>1. (s1' = Accounts!Added(u) \/ s1' = s1) /\ UNCHANGED s10
      BY <2>5 DEF Accounts!Switch, Accounts!Accounts
    <3> QED BY <2>2, <2>3, <3>1
  <2>6. CASE Accounts!LogOut
    <3>1. s1 # <<>> /\ s1' = Tail(s1) /\ UNCHANGED s10
      BY <2>6 DEF Accounts!LogOut, Accounts!Accounts
    <3>2. /\ s1' \in Seq(Persons) /\ Len(s1') = Len(s1) - 1 /\ Len(s1) \in Nat
          /\ \A i \in 1..Len(s1') : s1'[i] = s1[i + 1]
      BY <2>1, <3>1
    <3>3. \A i \in 1..Len(s1') : i + 1 \in 1..Len(s1)
      BY <3>2
    <3>4. ASSUME NEW i \in 1..Len(s1'), NEW j \in 1..Len(s1'), s1'[i] = s1'[j] PROVE i = j
      <4>1. i + 1 = j + 1
        BY <2>1, <3>2, <3>3, <3>4
      <4> QED BY <3>2, <4>1
    <3> QED BY <2>1, <3>1, <3>2, <3>4 DEF Accounts!LoginsInv
  <2>7. ASSUME NEW l \in s9, Accounts!AuthorsArrive(l) PROVE Accounts!LoginsInv'
    <3>1. /\ s10' = [k \in DOMAIN s10 \cup {l} |-> IF k = l THEN l ELSE s10[k]]
          /\ UNCHANGED s1
      BY <2>7 DEF Accounts!AuthorsArrive, Accounts!Key
    <3> QED BY <2>1, <3>1 DEF Accounts!LoginsInv
  <2>8. ASSUME NEW l \in s9, Accounts!AuthorsFail(l) PROVE Accounts!LoginsInv'
    BY <2>2, <2>8 DEF Accounts!AuthorsFail
  <2>9. CASE Accounts!OpenGlobal \/ Accounts!OpenLocal \/ Accounts!Close \/ Accounts!SignUp \/ Accounts!HaveAccount \/ Accounts!CloseSignUp \/ Accounts!AskAuthors \/ Accounts!Browse
    BY <2>2, <2>9 DEF Accounts!OpenGlobal, Accounts!OpenLocal, Accounts!Close, Accounts!SignUp,
                      Accounts!HaveAccount, Accounts!CloseSignUp, Accounts!AskAuthors,
                      Accounts!Browse, Accounts!Accounts
  <2>10. ASSUME NEW u \in Persons, NEW kind, Accounts!Start(kind, u) \/ Accounts!StartFile(u) PROVE Accounts!LoginsInv'
    BY <2>2, <2>10 DEF Accounts!Start, Accounts!StartFile, Accounts!Accounts
  <2>11. ASSUME NEW a \in s7, Accounts!FileRead(a) \/ Accounts!FileRefused(a) \/ Accounts!LoginFails(a) PROVE Accounts!LoginsInv'
    BY <2>2, <2>11 DEF Accounts!FileRead, Accounts!FileRefused, Accounts!LoginFails,
                       Accounts!Accounts
  <2>12. CASE UNCHANGED Accounts!vars
    BY <2>2, <2>12 DEF Accounts!vars, Accounts!Accounts
  <2> QED BY <2>4, <2>5, <2>6, <2>7, <2>8, <2>9, <2>10, <2>11, <2>12 DEF Accounts!Next
<1> QED BY <1>1, <1>2

\* With nobody in the list twice, its tail has the others.
LEMMA AccountsShow == Accounts!MarksInv /\ Accounts!LoginsInv => Accounts!DialogIsUsable /\ Accounts!OthersAreOthers
<1> SUFFICES ASSUME Accounts!MarksInv, Accounts!LoginsInv
             PROVE  Accounts!DialogIsUsable /\ Accounts!OthersAreOthers
  OBVIOUS
<1>1. Accounts!DialogIsUsable
  BY DEF Accounts!MarksInv, Accounts!DialogIsUsable
<1>2. Accounts!OthersAreOthers
  <2> SUFFICES ASSUME s1 \in DOMAIN s10, s1 # <<>>
               PROVE  Accounts!Range(Accounts!OtherUsers) = Accounts!Range(s1) \ {Head(s1)}
    BY DEF Accounts!OthersAreOthers, Accounts!Key
  <2>1. Accounts!OtherUsers = Tail(s1)
    BY DEF Accounts!OtherUsers, Accounts!Key, Accounts!LoginsInv
  <2>2. /\ s1 \in Seq(Persons) /\ Len(s1) \in Nat /\ Len(s1) >= 1
        /\ \A i, j \in 1..Len(s1) : s1[i] = s1[j] => i = j
    BY DEF Accounts!LoginsInv
  <2> DEFINE t == Tail(s1)
  <2>3. /\ t \in Seq(Persons) /\ Len(t) = Len(s1) - 1 /\ Head(s1) = s1[1]
        /\ DOMAIN t = 1..(Len(s1) - 1) /\ DOMAIN s1 = 1..Len(s1)
        /\ \A i \in 1..(Len(s1) - 1) : t[i] = s1[i + 1]
    BY <2>2
  <2> HIDE DEF t
  <2>4. ASSUME NEW x \in Accounts!Range(t) PROVE x \in Accounts!Range(s1) \ {Head(s1)}
    <3>1. PICK i \in 1..(Len(s1) - 1) : x = t[i]
      BY <2>3, <2>4 DEF Accounts!Range
    <3>2. i + 1 \in 1..Len(s1) /\ i + 1 # 1 /\ x = s1[i + 1] /\ 1 \in 1..Len(s1)
      BY <2>2, <2>3, <3>1
    <3> QED BY <2>2, <2>3, <3>2 DEF Accounts!Range
  <2>5. ASSUME NEW x \in Accounts!Range(s1) \ {Head(s1)} PROVE x \in Accounts!Range(t)
    <3>1. PICK i \in 1..Len(s1) : x = s1[i]
      BY <2>3, <2>5 DEF Accounts!Range
    <3>2. i # 1
      BY <2>3, <2>5, <3>1
    <3>3. i - 1 \in 1..(Len(s1) - 1) /\ (i - 1) + 1 = i
      BY <2>2, <3>1, <3>2
    <3>4. x = t[i - 1]
      BY <2>3, <3>1, <3>3
    <3> QED BY <2>3, <3>3, <3>4 DEF Accounts!Range
  <2> QED BY <2>1, <2>4, <2>5 DEF t
<1> QED BY <1>1, <1>2

\* DialogIsUsable for any users and number of attempts: by MarksInv a mark of an open dialog
\* is that of an attempt under way, which takes it away when it ends (LoginDialog); by
\* LoginsInv nobody is in the list of logins twice (AccountSwitcher, useLoggedInAccounts).
THEOREM DialogIsUsableHolds == Spec => []DialogIsUsable
<1> DEFINE Inv == part = "Accounts" => Accounts!Typed /\ Accounts!MarksInv /\ Accounts!LoginsInv
<1>1. Init => Inv
  <2> SUFFICES ASSUME Init, part = "Accounts"
               PROVE  Accounts!Typed /\ Accounts!MarksInv /\ Accounts!LoginsInv
    OBVIOUS
  <2>1. Accounts!Init
    BY DEF Init
  <2> QED BY <2>1, MarksStep, LoginsStep
<1>2. Inv /\ [Next]_vars => Inv'
  <2> SUFFICES ASSUME Inv, [Next]_vars, part' = "Accounts"
               PROVE  (Accounts!Typed /\ Accounts!MarksInv /\ Accounts!LoginsInv)'
    OBVIOUS
  <2>1. part = "Accounts" /\ [Accounts!Next]_(Accounts!vars)
    BY DEF Next, vars, Accounts!vars
  <2> QED BY <2>1, MarksStep, LoginsStep
<1>3. Inv => DialogIsUsable
  BY AccountsShow DEF DialogIsUsable
<1> QED BY <1>1, <1>2, <1>3, PTL DEF Spec

-----------------------------------------------------------------------------
\* The parts' sets are counted as this module's are.
LEMMA CountsMatch ==
  /\ \A S : Searches!Cardinality(S) = Cardinality(S) /\ Query!Cardinality(S) = Cardinality(S)
  /\ \A S : Query!IsFiniteSet(S) <=> IsFiniteSet(S)
BY DEF Searches!Cardinality, Query!Cardinality, Cardinality, Query!IsFiniteSet, IsFiniteSet

\* The address follows what is typed and chosen while the timer runs.
LEMMA UrlStep ==
  /\ Searches!Init => Searches!UrlFollows
  /\ Searches!UrlFollows /\ [Searches!Next]_(Searches!vars) => Searches!UrlFollows'
<1>1. Searches!Init => Searches!UrlFollows
  BY DEF Searches!Init, Searches!UrlFollows
<1>2. Searches!UrlFollows /\ [Searches!Next]_(Searches!vars) => Searches!UrlFollows'
  <2> SUFFICES ASSUME Searches!UrlFollows, [Searches!Next]_(Searches!vars), ~s9'
               PROVE  s8' = <<s5', s6', s7'>>
    BY DEF Searches!UrlFollows
  <2>1. ASSUME ~s9, UNCHANGED <<s8, s5, s6, s7>> PROVE s8' = <<s5', s6', s7'>>
    BY <2>1 DEF Searches!UrlFollows
  <2>2. CASE Searches!TimerFires
    BY <2>2 DEF Searches!TimerFires
  <2>3. CASE Searches!Header
    <3>1. ~s9 /\ UNCHANGED <<s8, s5, s6, s7>>
      BY <2>3, Zenon DEF Searches!Header, Searches!Restarted
    <3> QED BY <2>1, <3>1
  <2>4. CASE Searches!Ask \/ Searches!FetchNextPage \/ Searches!VideosFail
    BY <2>1, <2>4 DEF Searches!Ask, Searches!FetchNextPage, Searches!VideosFail
  <2>5. CASE Searches!VideosArrive
    <3>1. ~s9 /\ UNCHANGED <<s8, s5, s6, s7>>
      BY <2>5, Zenon DEF Searches!VideosArrive
    <3> QED BY <2>1, <3>1
  <2>6. CASE Searches!OthersArrive
    <3>1. ~s9 /\ UNCHANGED <<s8, s5, s6, s7>>
      BY <2>6, Zenon DEF Searches!OthersArrive
    <3> QED BY <2>1, <3>1
  <2>7. CASE \/ \E q \in Searches!Words \cup {""} : Searches!HandleSearchChange(q)
             \/ \E s \in Searches!Sort : Searches!SetSortMode(s)
             \/ \E t \in Searches!Tab : Searches!HandleFilterChange(t)
    BY <2>7 DEF Searches!HandleSearchChange, Searches!SetSortMode, Searches!HandleFilterChange
  <2>8. CASE UNCHANGED Searches!vars
    BY <2>1, <2>8 DEF Searches!vars
  <2> QED BY <2>2, <2>3, <2>4, <2>5, <2>6, <2>7, <2>8 DEF Searches!Next
<1> QED BY <1>1, <1>2

\* A page is a list of videos, and empty only when there is nothing to put on it.
LEMMA PagesFull ==
  ASSUME s1 \subseteq Searches!Video, NEW k \in Searches!Key, NEW events \in Searches!Pages(k)
  PROVE  /\ events \in Seq(Searches!Video)
         /\ s11[k].cursor = 0 /\ events = <<>> => s1 = {}
<1>1. ASSUME NEW vs \in SUBSET Searches!Video, events \in Searches!Ranked(vs)
      PROVE  events \in Seq(Searches!Video) /\ (events = <<>> => vs = {})
  <2>1. IsFiniteSet(Searches!Video)
    BY SearchBounds, FS_Interval DEF Searches!Video
  <2>2. IsFiniteSet(vs) /\ Cardinality(vs) \in Nat
    BY <2>1, FS_Subset, FS_CardinalityType
  <2>3. Searches!Full(vs) \in Nat /\ (Searches!Full(vs) = 0 => Cardinality(vs) = 0)
    BY <2>2, SearchBounds, CountsMatch DEF Searches!Full
  <2>4. events \in [1..Searches!Full(vs) -> vs]
    BY <1>1 DEF Searches!Ranked
  <2>5. events \in Seq(vs) /\ Len(events) = Searches!Full(vs)
    BY <2>3, <2>4
  <2>6. events = <<>> => vs = {}
    BY <2>2, <2>3, <2>5, FS_EmptySet
  <2> QED BY <2>5, <2>6
<1>2. ASSUME NEW vs, events \in Searches!Newest(vs) PROVE events \in Searches!Ranked(vs)
  BY <1>2 DEF Searches!Newest
<1>3. \A vs \in SUBSET Searches!Video : Searches!Before(k, vs) \in SUBSET Searches!Video /\ (s11[k].cursor = 0 => Searches!Before(k, vs) = vs)
  BY DEF Searches!Before
<1>4. CASE Searches!Fallback(k)
  <2>1. events \in Searches!Newest(Searches!Before(k, Searches!Video))
    BY <1>4 DEF Searches!Pages
  <2>2. events \in Seq(Searches!Video) /\ (events = <<>> => Searches!Before(k, Searches!Video) = {})
    BY <1>1, <1>2, <1>3, <2>1
  <2> QED BY <1>3, <2>2
<1>5. CASE ~Searches!Fallback(k)
  <2>1. events \in Searches!Newest(Searches!Before(k, s1)) \/ events \in Searches!Ranked(Searches!Before(k, s1))
    BY <1>5, Zenon DEF Searches!Pages
  <2>2. events \in Seq(Searches!Video) /\ (events = <<>> => Searches!Before(k, s1) = {})
    BY <1>1, <1>2, <1>3, <2>1
  <2> QED BY <1>3, <2>2
<1> QED BY <1>4, <1>5

\* What is among a list is a list, and empty only if none of it is in the set.
LEMMA AmongList ==
  ASSUME NEW T, NEW s \in Seq(T), NEW S, NEW t \in Searches!Among(s, S)
  PROVE  t \in Seq(T) /\ (t = <<>> => \A i \in DOMAIN s : s[i] \notin S)
<1> DEFINE I == {i \in DOMAIN s : s[i] \in S}
<1>1. PICK o \in [1..Cardinality(I) -> I] : t = [n \in DOMAIN o |-> s[o[n]]]
  BY CountsMatch DEF Searches!Among
<1>2. IsFiniteSet(I) /\ Cardinality(I) \in Nat
  <2>1. DOMAIN s = 1..Len(s) /\ Len(s) \in Nat
    OBVIOUS
  <2>2. IsFiniteSet(1..Len(s))
    BY <2>1, FS_Interval
  <2>3. I \subseteq 1..Len(s)
    BY <2>1
  <2> QED BY <2>2, <2>3, FS_Subset, FS_CardinalityType
<1>3. \A i \in I : s[i] \in T
  OBVIOUS
<1>4. t \in [1..Cardinality(I) -> T]
  BY <1>1, <1>3
<1>5. t \in Seq(T) /\ Len(t) = Cardinality(I)
  <2> HIDE DEF I
  <2> QED BY <1>2, <1>4
<1>6. t = <<>> => I = {}
  <2> HIDE DEF I
  <2> QED BY <1>2, <1>5, FS_EmptySet
<1> QED BY <1>5, <1>6

\* What is asked for, and what was read and is empty.
LEMMA SearchStep ==
  /\ Searches!Init => Searches!SearchInv
  /\ Searches!SearchInv /\ [Searches!Next]_(Searches!vars) => Searches!SearchInv'
<1>1. Searches!Init => Searches!SearchInv
  <2> SUFFICES ASSUME Searches!Init PROVE Searches!SearchInv
    OBVIOUS
  <2>1. /\ s1 \subseteq Searches!Video /\ s5 = "" /\ s6 = "relevance" /\ s12 = "idle"
        /\ s11 = [k \in Searches!Key |-> Searches!Unread]
    BY DEF Searches!Init
  <2>2. \A k \in Searches!Key : s11[k] = Searches!Unread
    BY <2>1
  <2>3. Searches!Unread.list \in Seq(Searches!Video) /\ Searches!Unread.read = FALSE
    BY DEF Searches!Unread
  <2>4. s11 = [k \in Searches!Key |-> s11[k]]
    BY <2>1
  <2> QED BY <2>1, <2>2, <2>3, <2>4 DEF Searches!SearchInv, Searches!Sort
<1>2. Searches!SearchInv /\ [Searches!Next]_(Searches!vars) => Searches!SearchInv'
  <2> SUFFICES ASSUME Searches!SearchInv, [Searches!Next]_(Searches!vars)
               PROVE  Searches!SearchInv'
    OBVIOUS
  <2> DEFINE Videos(w) == /\ w = [k \in Searches!Key |-> w[k]]
                          /\ \A k \in Searches!Key :
                               /\ w[k].list \in Seq(Searches!Video)
                               /\ ~w[k].read => w[k] = Searches!Unread
                               /\ w[k].read /\ w[k].list = <<>> /\ w[k].whole => s1 \ s2 = {}
  <2>1. /\ s1 \subseteq Searches!Video /\ s5 \in Searches!Words \cup {""} /\ s6 \in Searches!Sort
        /\ s12 \in {"idle", "waiting", "asked", "error"} /\ (s12 # "idle" => s5 # "")
        /\ s5 # "" /\ ~s11[Searches!Current].read => s12 # "idle"
        /\ Videos(s11)
    BY DEF Searches!SearchInv
  <2>2. ASSUME UNCHANGED <<s1, s2>>, s5' \in Searches!Words \cup {""}, s6' \in Searches!Sort,
               s12' \in {"idle", "waiting", "asked", "error"}, s12' # "idle" => s5' # "",
               s5' # "" /\ ~s11'[<<s5', s6'>>].read => s12' # "idle", Videos(s11')
        PROVE  Searches!SearchInv'
    BY <2>1, <2>2 DEF Searches!SearchInv, Searches!Current
  <2> HIDE DEF Videos
  <2>3. CASE UNCHANGED <<s1, s2, s5, s6, s12, s11>>
    BY <2>1, <2>2, <2>3 DEF Searches!Current
  <2>4. ASSUME NEW q \in Searches!Words \cup {""}, Searches!HandleSearchChange(q) PROVE Searches!SearchInv'
    <3>1. /\ UNCHANGED <<s1, s2, s6, s11>> /\ s5' = q
          /\ s12' = IF q = "" \/ s11[<<q, s6>>].read THEN "idle" ELSE "waiting"
      BY <2>4 DEF Searches!HandleSearchChange, Searches!Observe, Searches!relay
    <3> QED BY <2>1, <2>2, <3>1
  <2>5. ASSUME NEW s \in Searches!Sort, Searches!SetSortMode(s) PROVE Searches!SearchInv'
    <3>1. /\ UNCHANGED <<s1, s2, s5, s11>> /\ s6' = s /\ s5 # ""
          /\ s12' = IF s5 = "" \/ s11[<<s5, s>>].read THEN "idle" ELSE "waiting"
      BY <2>5 DEF Searches!SetSortMode, Searches!Observe, Searches!relay
    <3> QED BY <2>1, <2>2, <3>1
  <2>6. CASE Searches!Ask
    <3>1. UNCHANGED <<s1, s2, s5, s6, s11>> /\ s12 = "waiting" /\ s12' = "asked"
      BY <2>6 DEF Searches!Ask, Searches!relay
    <3> QED BY <2>1, <2>2, <3>1
  <2>7. CASE Searches!FetchNextPage
    <3>1. UNCHANGED <<s1, s2, s5, s6, s11>> /\ s5 # "" /\ s12' = "waiting"
      BY <2>7 DEF Searches!FetchNextPage, Searches!relay
    <3> QED BY <2>1, <2>2, <3>1
  <2>8. CASE Searches!VideosFail
    <3>1. UNCHANGED <<s1, s2, s5, s6, s11>> /\ s12 = "asked" /\ s12' = "error"
      BY <2>8 DEF Searches!VideosFail, Searches!relay
    <3> QED BY <2>1, <2>2, <3>1
  <2>9. CASE Searches!VideosArrive
    <3>1. /\ UNCHANGED <<s1, s2, s5, s6>> /\ s12 = "asked" /\ s12' = "idle"
      BY <2>9 DEF Searches!VideosArrive, Searches!relay
    <3>2. PICK events, vs, list :
            /\ events \in Searches!Pages(Searches!Current) /\ vs \in Searches!Kept(Searches!Current, events)
            /\ list \in Searches!Unique(s11[Searches!Current].list, vs)
            /\ s11' = [s11 EXCEPT ![Searches!Current] =
                 [read |-> TRUE, list |-> list, cursor |-> Searches!NextCursor(vs),
                  more |-> vs # <<>>, whole |-> s11[Searches!Current].whole /\ (events # <<>> => vs # <<>>),
                  cuts |-> s11[Searches!Current].cuts \cup Searches!Ends(vs)]]
      BY <2>9 DEF Searches!VideosArrive
    <3>3. Searches!Current \in Searches!Key
      BY <2>1, <3>1 DEF Searches!Current, Searches!Key
    <3> DEFINE c == Searches!Current  was == s11[Searches!Current]
               new == [read |-> TRUE, list |-> list, cursor |-> Searches!NextCursor(vs), more |-> vs # <<>>,
                       whole |-> was.whole /\ (events # <<>> => vs # <<>>),
                       cuts |-> was.cuts \cup Searches!Ends(vs)]
    <3>4. events \in Seq(Searches!Video) /\ (was.cursor = 0 /\ events = <<>> => s1 = {})
      BY <2>1, <3>2, <3>3, PagesFull
    <3>5. vs \in Seq(Searches!Video)
      BY <3>2, <3>4, AmongList DEF Searches!Kept
    <3>6. was.list \in Seq(Searches!Video) /\ (~was.read => was = Searches!Unread)
          /\ (was.read /\ was.list = <<>> /\ was.whole => s1 \ s2 = {})
      BY <2>1, <3>3 DEF Videos
    <3>7. PICK more \in Searches!Among(vs, Searches!Video \ Searches!Range(was.list)) : list = was.list \o more
      BY <3>2 DEF Searches!Unique
    <3>8. more \in Seq(Searches!Video) /\ (more = <<>> => \A i \in DOMAIN vs : vs[i] \notin Searches!Video \ Searches!Range(was.list))
      BY <3>5, <3>7, AmongList
    <3>9. list \in Seq(Searches!Video)
      BY <3>6, <3>7, <3>8
    <3>10. list = <<>> => was.list = <<>> /\ vs = <<>>
      <4> SUFFICES ASSUME list = <<>> PROVE was.list = <<>> /\ vs = <<>>
        OBVIOUS
      <4>1. was.list = <<>> /\ more = <<>>
        <5> DEFINE old == was.list
        <5>1. old \in Seq(Searches!Video) /\ more \in Seq(Searches!Video) /\ old \o more = <<>>
          BY <3>6, <3>7, <3>8
        <5> HIDE DEF old
        <5>2. Len(old \o more) = Len(old) + Len(more) /\ Len(old) \in Nat /\ Len(more) \in Nat
          BY <5>1
        <5>3. Len(old) = 0 /\ Len(more) = 0
          BY <5>1, <5>2
        <5>4. old = <<>> /\ more = <<>>
          BY <5>1, <5>3
        <5> QED BY <5>4 DEF old
      <4>2. Searches!Range(was.list) = {}
        BY <4>1 DEF Searches!Range
      <4>3. \A i \in DOMAIN vs : vs[i] \in Searches!Video
        BY <3>5
      <4>4. DOMAIN vs = {}
        BY <3>8, <4>1, <4>2, <4>3
      <4> QED BY <3>5, <4>1, <4>4
    <3>11. ASSUME list = <<>>, new.whole PROVE s1 \ s2 = {}
      <4>1. was.whole /\ events = <<>> /\ was.list = <<>>
        BY <3>10, <3>11
      <4>2. CASE was.read
        BY <3>6, <4>1, <4>2
      <4>3. CASE ~was.read
        <5>1. was.cursor = 0
          BY <3>6, <4>3 DEF Searches!Unread
        <5> QED BY <3>4, <4>1, <5>1
      <4> QED BY <4>2, <4>3
    <3>12. new.read = TRUE /\ new.list = list
      OBVIOUS
    <3>13. s11' = [s11 EXCEPT ![c] = new]
      BY <3>2
    <3>14. c \in Searches!Key /\ c = <<s5, s6>>
      BY <3>3 DEF Searches!Current
    <3> HIDE DEF new, c, was
    <3>15. Videos(s11')
      BY <2>1, <3>9, <3>11, <3>12, <3>13, <3>14 DEF Videos
    <3>16. s11'[<<s5', s6'>>].read = TRUE
      BY <2>1, <3>1, <3>12, <3>13, <3>14 DEF Videos
    <3> QED BY <2>1, <2>2, <3>1, <3>15, <3>16
  <2>10. CASE Searches!Header \/ Searches!TimerFires \/ Searches!OthersArrive \/ (\E t \in Searches!Tab : Searches!HandleFilterChange(t)) \/ UNCHANGED Searches!vars
    BY <2>3, <2>10 DEF Searches!Header, Searches!TimerFires, Searches!OthersArrive,
                       Searches!HandleFilterChange, Searches!vars, Searches!relay
  <2> QED BY <2>4, <2>5, <2>6, <2>7, <2>8, <2>9, <2>10 DEF Searches!Next
<1> QED BY <1>1, <1>2

\* A page that says so has read a list that is empty.
LEMMA SearchShows == Searches!SearchInv => Searches!NoneIsNone
<1> SUFFICES ASSUME Searches!SearchInv, Searches!Says = "no results", s11[Searches!Current].whole
             PROVE  s1 \ s2 = {}
  BY DEF Searches!NoneIsNone
<1>1. /\ s5 # "" /\ ~Searches!Waiting /\ s12 # "error" /\ s11[Searches!Current].list = <<>>
  BY DEF Searches!Says
<1>2. ~Searches!Asking \/ s11[Searches!Current].read
  BY <1>1, Zenon DEF Searches!Waiting, Searches!Loading
<1>3. Searches!Current \in Searches!Key
  BY <1>1 DEF Searches!SearchInv, Searches!Current, Searches!Key
<1>4. s11[Searches!Current].read
  BY <1>1, <1>2 DEF Searches!SearchInv, Searches!Asking
<1> QED BY <1>1, <1>3, <1>4 DEF Searches!SearchInv

\* A name is found to be right only for whom the domain names.
LEMMA BadgeStep ==
  /\ Profiles!Init => Profiles!BadgeInv
  /\ Profiles!BadgeInv /\ [Profiles!Next]_(Profiles!vars) => Profiles!BadgeInv'
  /\ Profiles!BadgeInv => Profiles!BadgeIsEarned
<1>1. Profiles!Init => Profiles!BadgeInv
  BY DEF Profiles!Init, Profiles!BadgeInv
<1>2. Profiles!BadgeInv /\ [Profiles!Next]_(Profiles!vars) => Profiles!BadgeInv'
  <2> SUFFICES ASSUME Profiles!BadgeInv, [Profiles!Next]_(Profiles!vars)
               PROVE  Profiles!BadgeInv'
    OBVIOUS
  <2>1. /\ s2 \subseteq Profiles!Person /\ s5 \in [Profiles!Person -> {"idle", "asked", "valid", "invalid"}]
        /\ s3 \in Profiles!Person => s3 \in s4
        /\ \A p \in Profiles!Person : s5[p] = "valid" => p \in s4
    BY DEF Profiles!BadgeInv
  <2>2. CASE UNCHANGED Profiles!Names
    BY <2>2 DEF Profiles!Names, Profiles!BadgeInv
  <2>3. ASSUME NEW p, Profiles!GoTo(p) PROVE Profiles!BadgeInv'
    <3>1. UNCHANGED <<s2, s3, s4>>
      BY <2>3 DEF Profiles!GoTo
    <3>2. s5' = s5 \/ (p \in s2 /\ s5' = [s5 EXCEPT ![p] = "asked"])
      BY <2>3, Zenon DEF Profiles!GoTo, Profiles!Key
    <3> QED BY <2>1, <3>1, <3>2 DEF Profiles!BadgeInv
  <2>4. CASE Profiles!Visit
    BY <2>3, <2>4 DEF Profiles!Visit
  <2>5. CASE Profiles!Lookup
    BY <2>3, <2>5 DEF Profiles!Lookup
  <2>6. CASE Profiles!Renamed
    BY <2>1, <2>6 DEF Profiles!Renamed, Profiles!BadgeInv
  <2>7. ASSUME NEW p \in Profiles!Person, Profiles!Checked(p) PROVE Profiles!BadgeInv'
    <3>1. /\ UNCHANGED <<s2, s3, s4>>
          /\ \/ s5' = [s5 EXCEPT ![p] = "invalid"]
             \/ s3 = p /\ s5' = [s5 EXCEPT ![p] = "valid"]
      BY <2>7 DEF Profiles!Checked, Profiles!Key
    <3> QED BY <2>1, <3>1 DEF Profiles!BadgeInv
  <2>8. CASE Profiles!Follow \/ Profiles!Unfollow \/ Profiles!OpenList \/ Profiles!CloseList \/ Profiles!PageServed \/ Profiles!PageAnswer \/ Profiles!MorePages \/ Profiles!PageFails
    BY <2>2, <2>8, Zenon DEF Profiles!Follow, Profiles!Unfollow, Profiles!OpenList,
                             Profiles!CloseList, Profiles!PageServed, Profiles!PageAnswer,
                             Profiles!MorePages, Profiles!PageFails
  <2>9. CASE UNCHANGED Profiles!vars
    BY <2>2, <2>9 DEF Profiles!vars, Profiles!Names
  <2> QED BY <2>4, <2>5, <2>6, <2>7, <2>8, <2>9 DEF Profiles!Next
<1>3. Profiles!BadgeInv => Profiles!BadgeIsEarned
  BY DEF Profiles!BadgeInv, Profiles!BadgeIsEarned, Profiles!Key
<1> QED BY <1>1, <1>2, <1>3

\* The home feed's query brings videos of the people it is made for only.
LEMMA HomeAnswers ==
  ASSUME IsFiniteSet(s1), s3 = "home", NEW key, NEW s \in Query!Answers(key),
         NEW parsed \in Query!Parsed(s), NEW map \in Query!Sorted(parsed)
  PROVE  \A i \in DOMAIN map : map[i].video.by \in key
<1> DEFINE W == {e \in Query!Videos : e.by \in key}
<1>1. PICK t \in Query!Orders(W) : s = Query!Head_(t, FeedLimit)
  BY DEF Query!Answers, Query!ByPopularity, Query!Wanted
<1>2. Cardinality(W) \in Nat
  <2>1. W \subseteq s1
    BY DEF Query!Videos
  <2> HIDE DEF W
  <2> QED BY <2>1, FS_Subset, FS_CardinalityType
<1>3. t \in [1..Cardinality(W) -> W]
  BY CountsMatch DEF Query!Orders
<1>4. \A e \in W : e.by \in key
  OBVIOUS
<1> HIDE DEF W
<1>5. t \in Seq(W) /\ Len(t) = Cardinality(W)
  BY <1>2, <1>3
<1>6. \A i \in DOMAIN s : s[i] \in W
  <2> DEFINE m == IF FeedLimit < Len(t) THEN FeedLimit ELSE Len(t)
  <2>1. m \in Nat /\ m <= Len(t)
    BY <1>2, <1>5, FeedLimitIsNat
  <2>2. s = SubSeq(t, 1, m)
    BY <1>1 DEF Query!Head_
  <2> HIDE DEF m
  <2>3. s \in Seq(W)
    BY <1>5, <2>1, <2>2
  <2> QED BY <2>3
<1>7. \A i \in DOMAIN parsed : parsed[i].video.by \in key
  <2> DEFINE first == {i \in DOMAIN s : \A j \in 1..i - 1 : s[j].by # s[i].by}
  <2>1. PICK o \in [1..Cardinality(first) -> first] :
          parsed = [n \in DOMAIN o |-> [video |-> s[o[n]], reposts |-> <<>>]]
    BY CountsMatch DEF Query!Parsed
  <2>2. \A n \in DOMAIN o : o[n] \in DOMAIN s
    BY <2>1
  <2> QED BY <1>4, <1>6, <2>1, <2>2
<1>8. \A i \in DOMAIN map : \E j \in DOMAIN parsed : map[i] = parsed[j]
  <2>1. s3 # "recent"
    OBVIOUS
  <2>2. PICK o \in [DOMAIN parsed -> DOMAIN parsed] : map = [i \in DOMAIN parsed |-> parsed[o[i]]]
    BY <2>1 DEF Query!Sorted, Query!By
  <2> QED BY <2>2
<1> QED BY <1>7, <1>8

LEMMA HomeStep ==
  /\ Query!Init => Query!HomeInv
  /\ Query!HomeInv /\ [Query!Next]_(Query!vars) => Query!HomeInv'
<1>1. Query!Init => Query!HomeInv
  <2> SUFFICES ASSUME Query!Init PROVE Query!HomeInv
    OBVIOUS
  <2>1. s1 = {} /\ s6.step = "idle" /\ DOMAIN s5 = {}
    BY DEF Query!Init, Query!Idle
  <2>2. IsFiniteSet(s1)
    BY <2>1, FS_EmptySet
  <2> QED BY <2>1, <2>2, CountsMatch DEF Query!HomeInv
<1>2. Query!HomeInv /\ [Query!Next]_(Query!vars) => Query!HomeInv'
  <2> SUFFICES ASSUME Query!HomeInv, [Query!Next]_(Query!vars) PROVE Query!HomeInv'
    OBVIOUS
  <2>1. IsFiniteSet(s1)
    BY CountsMatch DEF Query!HomeInv
  <2>2. CASE Query!Publish
    <3>1. PICK a \in Query!Author, n \in 0..1, keep \in BOOLEAN :
            s1' = {e \in s1 : keep \/ e \notin Query!Videos \/ e.by # a}
                    \cup {[by |-> a, at |-> s2', loops |-> n]}
      BY <2>2, Zenon DEF Query!Publish
    <3> DEFINE R == {e \in s1 : keep \/ e \notin Query!Videos \/ e.by # a}
               v == [by |-> a, at |-> s2', loops |-> n]
    <3>2. R \in SUBSET s1 /\ s1' = R \cup {v}
      BY <3>1
    <3> HIDE DEF R, v
    <3>3. IsFiniteSet(s1')
      BY <2>1, <3>2, FS_Subset, FS_AddElement
    <3>4. UNCHANGED <<s3, s4, s5, s6>>
      BY <2>2 DEF Query!Publish
    <3> QED BY <3>3, <3>4, CountsMatch DEF Query!HomeInv
  <2>3. CASE Query!PublishRepost
    <3>1. PICK e : s1' = s1 \cup {e}
      BY <2>3 DEF Query!PublishRepost
    <3>2. IsFiniteSet(s1')
      BY <2>1, <3>1, FS_AddElement
    <3>3. UNCHANGED <<s3, s4, s5, s6>>
      BY <2>3 DEF Query!PublishRepost
    <3> QED BY <3>2, <3>3, CountsMatch DEF Query!HomeInv
  <2>4. ASSUME UNCHANGED s1,
               s3' = "home" => /\ s3 = "home" /\ s6'.step \in {"idle", "videos"}
                               /\ s6'.step = "videos" => s6'.key = s4'
                               /\ \A k \in DOMAIN s5' : \A i \in DOMAIN s5'[k] :
                                    s5'[k][i].video.by \in k
        PROVE  Query!HomeInv'
    BY <2>1, <2>4 DEF Query!HomeInv
  <2>5. Query!Idle.step = "idle" /\ Query!Begun.step = "videos" /\ Query!Begun.key = s4
    BY DEF Query!Idle, Query!Begun, Query!Key
  <2>6. s3 = "home" => /\ s6.step \in {"idle", "videos"} /\ (s6.step = "videos" => s6.key = s4)
                       /\ \A k \in DOMAIN s5 : \A i \in DOMAIN s5[k] : s5[k][i].video.by \in k
    BY DEF Query!HomeInv
  <2>7. CASE Query!Start \/ Query!Refresh
    <3>1. UNCHANGED <<s1, s3, s4, s5>> /\ s6' = Query!Begun
      BY <2>7 DEF Query!Start, Query!Refresh
    <3> QED BY <2>4, <2>5, <2>6, <3>1
  <2>8. CASE Query!SetFollows \/ Query!Fail
    <3>1. UNCHANGED <<s1, s3, s5>> /\ s6' = Query!Idle
      BY <2>8 DEF Query!SetFollows, Query!Fail
    <3> QED BY <2>4, <2>5, <2>6, <3>1
  <2>9. ASSUME UNCHANGED <<s1, s3>>, NEW list, Query!Finish(list),
               s3 = "home" => \A i \in DOMAIN list : list[i].video.by \in s6.key
        PROVE  Query!HomeInv'
    <3>1. /\ s5' = [k \in DOMAIN s5 \cup {s6.key} |-> IF k = s6.key THEN list ELSE s5[k]]
          /\ s6' = Query!Idle
      BY <2>9 DEF Query!Finish
    <3>2. ASSUME s3 = "home", NEW k \in DOMAIN s5' PROVE \A i \in DOMAIN s5'[k] : s5'[k][i].video.by \in k
      <4>1. CASE k = s6.key
        BY <2>9, <3>1, <3>2, <4>1
      <4>2. CASE k # s6.key
        BY <2>6, <3>1, <3>2, <4>2
      <4> QED BY <4>1, <4>2
    <3> QED BY <2>4, <2>5, <2>9, <3>1, <3>2
  <2>10. CASE Query!NoFollows
    <3>1. UNCHANGED <<s1, s3>> /\ Query!Finish(<<>>)
      BY <2>10 DEF Query!NoFollows
    <3>2. DOMAIN <<>> = {}
      OBVIOUS
    <3> QED BY <2>9, <3>1, <3>2
  <2>11. CASE Query!VideosAnswer
    <3>1. UNCHANGED <<s1, s3, s4>> /\ s6.step = "videos"
      BY <2>11 DEF Query!VideosAnswer
    <3>2. CASE s3 # "home"
      BY <2>4, <3>1, <3>2
    <3>3. CASE s3 = "home"
      <4>1. PICK s, parsed, map :
              /\ s \in Query!Answers(s4) /\ parsed \in Query!Parsed(s) /\ map \in Query!Sorted(parsed)
              /\ Query!Finish(map)
        BY <2>11, <3>3 DEF Query!VideosAnswer, Query!ByPopularity
      <4>2. \A i \in DOMAIN map : map[i].video.by \in s4
        BY <2>1, <3>3, <4>1, HomeAnswers
      <4> QED BY <2>6, <2>9, <3>1, <3>3, <4>1, <4>2
    <3> QED BY <3>2, <3>3
  <2>12. CASE Query!RepostsAnswer \/ Query!TakeRepost \/ Query!Parse \/ Query!Reactions
    <3>1. s3 # "home" /\ UNCHANGED <<s1, s3>>
      BY <2>6, <2>12 DEF Query!RepostsAnswer, Query!TakeRepost, Query!Parse, Query!Reactions
    <3> QED BY <2>4, <3>1
  <2>13. CASE UNCHANGED Query!vars
    BY <2>13 DEF Query!vars, Query!HomeInv
  <2> QED BY <2>2, <2>3, <2>7, <2>8, <2>10, <2>11, <2>12, <2>13 DEF Query!Next
<1> QED BY <1>1, <1>2

LEMMA HomeShows == Query!HomeInv => Query!HomeIsFollowed
BY DEF Query!HomeInv, Query!HomeIsFollowed, Query!HasData, Query!Shown, Query!Key, Query!Range

\* Once the effects have run the open tab is the address's, whatever was open.
LEMMA SettledTab ==
  ASSUME NEW r \in Tabs!Route, NEW a \in Tabs!All, NEW s \in BOOLEAN
  PROVE  LET t == Tabs!Settled(r, a, s)
         IN  /\ t.route \in Tabs!Route /\ t.active \in Tabs!All /\ t.route # "" /\ t.route # "top"
             /\ t.active \in IF s THEN Tabs!All ELSE {"classics", "hot"}
             /\ (t.route \in Tabs!All /\ (s \/ t.route # "foryou")) => t.active = t.route
<1>1. CASE s = TRUE
  BY <1>1 DEF Tabs!Settled, Tabs!Normal, Tabs!Allowed, Tabs!Default, Tabs!Route, Tabs!All
<1>2. CASE s = FALSE
  BY <1>2 DEF Tabs!Settled, Tabs!Normal, Tabs!Allowed, Tabs!Default, Tabs!Route, Tabs!All
<1> QED BY <1>1, <1>2

LEMMA TabsStep ==
  /\ Tabs!Init => Tabs!TabsInv
  /\ Tabs!TabsInv /\ [Tabs!Next]_(Tabs!vars) => Tabs!TabsInv'
<1>1. Tabs!Init => Tabs!TabsInv
  <2> SUFFICES ASSUME Tabs!Init PROVE Tabs!TabsInv
    OBVIOUS
  <2>1. s4 \in BOOLEAN /\ s2 \in Seq(Tabs!Route)
    BY DEF Tabs!Init
  <2>2. PICK r \in Tabs!Route : /\ s1 = Tabs!Settled(r, Tabs!First(r, s4), s4).route
                                /\ s3 = Tabs!Settled(r, Tabs!First(r, s4), s4).active
    BY DEF Tabs!Init
  <2>3. Tabs!First(r, s4) \in Tabs!All
    BY DEF Tabs!First, Tabs!Normal, Tabs!Allowed, Tabs!Default, Tabs!Route, Tabs!All
  <2>4. /\ s1 \in Tabs!Route /\ s3 \in Tabs!All /\ s1 # "" /\ s1 # "top"
        /\ s3 \in IF s4 THEN Tabs!All ELSE {"classics", "hot"}
        /\ (s1 \in Tabs!All /\ (s4 \/ s1 # "foryou")) => s3 = s1
    BY <2>1, <2>2, <2>3, SettledTab
  <2> QED BY <2>1, <2>4 DEF Tabs!TabsInv, Tabs!TabIsOfTheAddress
<1>2. Tabs!TabsInv /\ [Tabs!Next]_(Tabs!vars) => Tabs!TabsInv'
  <2> SUFFICES ASSUME Tabs!TabsInv, [Tabs!Next]_(Tabs!vars) PROVE Tabs!TabsInv'
    OBVIOUS
  <2>1. s1 \in Tabs!Route /\ s2 \in Seq(Tabs!Route) /\ s3 \in Tabs!All /\ s4 \in BOOLEAN
    BY DEF Tabs!TabsInv
  <2>2. ASSUME NEW r \in Tabs!Route, NEW a \in Tabs!All, NEW s \in BOOLEAN, Tabs!Becomes(r, a, s), s2' \in Seq(Tabs!Route)
        PROVE  Tabs!TabsInv'
    <3>1. s1' = Tabs!Settled(r, a, s).route /\ s3' = Tabs!Settled(r, a, s).active /\ s4' = s
      BY <2>2 DEF Tabs!Becomes
    <3>2. /\ s1' \in Tabs!Route /\ s3' \in Tabs!All /\ s1' # "" /\ s1' # "top"
          /\ s3' \in IF s THEN Tabs!All ELSE {"classics", "hot"}
          /\ (s1' \in Tabs!All /\ (s \/ s1' # "foryou")) => s3' = s1'
      BY <3>1, SettledTab
    <3> QED BY <2>2, <3>1, <3>2 DEF Tabs!TabsInv, Tabs!TabIsOfTheAddress
  <2>3. CASE Tabs!Click
    <3>1. PICK t \in Tabs!Allowed(s4) : Tabs!Becomes(t, t, s4) /\ s2' = Append(s2, s1)
      BY <2>3 DEF Tabs!Click
    <3>2. t \in Tabs!All /\ t \in Tabs!Route
      BY DEF Tabs!Allowed, Tabs!All, Tabs!Route
    <3> QED BY <2>1, <2>2, <3>1, <3>2
  <2>4. CASE Tabs!Link
    BY <2>1, <2>2, <2>4 DEF Tabs!Link
  <2>5. CASE Tabs!Back
    <3>1. s2 # <<>> /\ Tabs!Becomes(s2[Len(s2)], s3, s4)
          /\ s2' = SubSeq(s2, 1, Len(s2) - 1)
      BY <2>5 DEF Tabs!Back
    <3>2. s2[Len(s2)] \in Tabs!Route /\ SubSeq(s2, 1, Len(s2) - 1) \in Seq(Tabs!Route)
      BY <2>1, <3>1
    <3> QED BY <2>1, <2>2, <3>1, <3>2
  <2>6. CASE Tabs!SignInOrOut
    <3>1. Tabs!Becomes(s1, s3, ~s4) /\ UNCHANGED s2
      BY <2>6, Zenon DEF Tabs!SignInOrOut
    <3>2. (~s4) \in BOOLEAN
      OBVIOUS
    <3>3. s2' \in Seq(Tabs!Route)
      BY <2>1, <3>1
    <3> QED BY <2>1, <2>2, <3>1, <3>2, <3>3
  <2>7. CASE UNCHANGED Tabs!vars
    BY <2>7 DEF Tabs!TabsInv, Tabs!TabIsOfTheAddress, Tabs!vars
  <2> QED BY <2>3, <2>4, <2>5, <2>6, <2>7 DEF Tabs!Next
<1> QED BY <1>1, <1>2

\* What a read ends with is of the key it was made for, and in order.
LEMMA BoardStep ==
  /\ Boards!Init => Boards!BoardInv
  /\ Boards!BoardInv /\ [Boards!Next]_(Boards!vars) => Boards!BoardInv'
  /\ Boards!BoardInv => Boards!BoardIsTheChosen
<1> DEFINE Of(q) == /\ q.key \in Boards!Keys
                    /\ q = [phase |-> q.phase, key |-> q.key, failures |-> q.failures, list |-> q.list]
                    /\ q.phase = "names" => \A i \in DOMAIN q.list :
                         LET e == q.list[i]
                         IN  e = [id |-> e.id, loops |-> e.loops, of |-> q.key, name |-> e.name]
           Fine(k, list) == \A i, j \in DOMAIN list : list[i].of = k /\ (i < j => list[i].loops >= list[j].loops)
<1>1. Boards!BoardInv <=> /\ s1 \in Boards!Tab /\ s2 \in Boards!Period /\ Of(s4)
                          /\ \A k \in DOMAIN s3 : Fine(k, s3[k].list)
  BY DEF Boards!BoardInv
<1>2. Boards!BoardInv' <=> /\ s1' \in Boards!Tab /\ s2' \in Boards!Period /\ Of(s4')
                           /\ \A k \in DOMAIN s3' : Fine(k, s3'[k].list)
  BY DEF Boards!BoardInv
<1>3. Of(Boards!Idle) /\ \A t \in Boards!Tab, p \in Boards!Period : Of(Boards!Begun(t, p))
  <2>1. /\ Boards!Idle.key \in Boards!Keys /\ Boards!Idle.phase # "names"
        /\ Boards!Idle = [phase |-> Boards!Idle.phase, key |-> Boards!Idle.key, failures |-> Boards!Idle.failures, list |-> Boards!Idle.list]
    BY DEF Boards!Idle, Boards!Keys, Boards!Tab, Boards!Period
  <2>2. ASSUME NEW t \in Boards!Tab, NEW p \in Boards!Period PROVE Of(Boards!Begun(t, p))
    <3> DEFINE b == Boards!Begun(t, p)
    <3>1. b = [phase |-> "board", key |-> <<t, p>>, failures |-> 0, list |-> <<>>]
      <4> DEFINE c == [Boards!Idle EXCEPT !.phase = "board"]
      <4>1. c = [phase |-> "board", key |-> <<"videos", "alltime">>, failures |-> 0, list |-> <<>>]
        BY DEF Boards!Idle
      <4> HIDE DEF c
      <4>2. [c EXCEPT !.key = <<t, p>>] = [phase |-> "board", key |-> <<t, p>>, failures |-> 0, list |-> <<>>]
        BY <4>1
      <4>3. b = [c EXCEPT !.key = <<t, p>>]
        BY DEF Boards!Begun, c
      <4> QED BY <4>2, <4>3
    <3>2. <<t, p>> \in Boards!Keys
      BY DEF Boards!Keys
    <3> HIDE DEF b
    <3>3. /\ b.key \in Boards!Keys /\ b.phase # "names"
          /\ b = [phase |-> b.phase, key |-> b.key, failures |-> b.failures, list |-> b.list]
      BY <3>1, <3>2
    <3>4. Of(b)
      BY <3>3
    <3> QED BY <3>4 DEF b
  <2>3. Of(Boards!Idle)
    BY <2>1
  <2> QED BY <2>2, <2>3
<1>4. Boards!Init => Boards!BoardInv
  <2> SUFFICES ASSUME Boards!Init PROVE Boards!BoardInv
    OBVIOUS
  <2>1. s1 \in Boards!Tab /\ s2 \in Boards!Period /\ DOMAIN s3 = {}
    BY DEF Boards!Init, Boards!Tab, Boards!Period
  <2>2. Of(s4)
    BY <1>3 DEF Boards!Init, Boards!Tab, Boards!Period
  <2> QED BY <1>1, <2>1, <2>2
<1>5. Boards!BoardInv /\ [Boards!Next]_(Boards!vars) => Boards!BoardInv'
  <2> SUFFICES ASSUME Boards!BoardInv, [Boards!Next]_(Boards!vars) PROVE Boards!BoardInv'
    OBVIOUS
  <2>1. /\ s1 \in Boards!Tab /\ s2 \in Boards!Period /\ Of(s4)
        /\ \A k \in DOMAIN s3 : Fine(k, s3[k].list)
    BY <1>1
  <2>2. ASSUME UNCHANGED <<s1, s2>>, NEW ok, NEW list, \A i \in DOMAIN list : list[i].of = s4.key,
               Boards!Finish(ok, list)
        PROVE  Boards!BoardInv'
    <3>1. Boards!Key(s4.key[1], s4.key[2]) = s4.key
      BY <2>1 DEF Boards!Key, Boards!Keys
    <3>2. PICK r \in Boards!Ranked(list) :
            s3' = [j \in DOMAIN s3 \cup {s4.key} |->
                     IF j = s4.key THEN [ok |-> ok, list |-> r] ELSE s3[j]]
      BY <2>2, <3>1 DEF Boards!Finish
    <3>3. PICK o \in Boards!Orders(DOMAIN list) : r = [i \in DOMAIN list |-> list[o[i]]]
      BY DEF Boards!Ranked
    <3>4. \A i \in DOMAIN r : r[i].of = s4.key
      BY <2>2, <3>3 DEF Boards!Orders
    <3>5. \A i, j \in DOMAIN r : i < j => r[i].loops >= r[j].loops
      BY DEF Boards!Ranked
    <3>6. Fine(s4.key, r)
      BY <3>4, <3>5
    <3>7. Of(s4')
      BY <1>3, <2>2 DEF Boards!Finish
    <3> HIDE DEF Of, Fine
    <3>8. ASSUME NEW k \in DOMAIN s3' PROVE Fine(k, s3'[k].list)
      <4>1. CASE k = s4.key
        BY <3>2, <3>6, <4>1
      <4>2. CASE k # s4.key
        BY <2>1, <3>2, <4>2
      <4> QED BY <4>1, <4>2
    <3> QED BY <1>2, <2>1, <2>2, <3>7, <3>8
  <2>3. CASE Boards!Choose
    <3>1. PICK t \in Boards!Tab, p \in Boards!Period :
            s1' = t /\ s2' = p /\ s4' \in {Boards!Idle, Boards!Begun(t, p)} /\ UNCHANGED s3
      BY <2>3 DEF Boards!Choose
    <3>2. Of(s4')
      BY <1>3, <3>1
    <3> HIDE DEF Of, Fine
    <3> QED BY <1>2, <2>1, <3>1, <3>2
  <2>4. CASE Boards!Entries
    <3>1. PICK l \in [Boards!Video -> Boards!Loops], named \in {Boards!Video, {"v1"}}, order \in [1..2 -> Boards!Video] :
            LET list == [i \in 1..2 |-> [id |-> order[i], loops |-> l[order[i]], of |-> s4.key,
                                         name |-> IF order[i] \in named THEN "given" ELSE "none"]]
            IN  IF s4.key[1] = "videos" /\ named # Boards!Video
                THEN s4' = [s4 EXCEPT !.phase = "names", !.list = list] /\ UNCHANGED s3
                ELSE Boards!Finish(TRUE, list)
      BY <2>4, Zenon DEF Boards!Entries
    <3> DEFINE list == [i \in 1..2 |-> [id |-> order[i], loops |-> l[order[i]], of |-> s4.key,
                                         name |-> IF order[i] \in named THEN "given" ELSE "none"]]
    <3>2. UNCHANGED <<s1, s2>>
      BY <2>4 DEF Boards!Entries
    <3>3. \A i \in DOMAIN list : LET e == list[i]
                                 IN  e = [id |-> e.id, loops |-> e.loops, of |-> s4.key, name |-> e.name]
      OBVIOUS
    <3>4. \/ s4' = [s4 EXCEPT !.phase = "names", !.list = list] /\ UNCHANGED s3
          \/ Boards!Finish(TRUE, list)
      BY <3>1, Zenon
    <3> HIDE DEF list
    <3>5. CASE s4' = [s4 EXCEPT !.phase = "names", !.list = list] /\ UNCHANGED s3
      <4>1. /\ s4'.phase = "names" /\ s4'.list = list /\ s4'.key = s4.key
            /\ s4' = [phase |-> s4'.phase, key |-> s4'.key, failures |-> s4'.failures,
                      list |-> s4'.list]
        BY <2>1, <3>5
      <4>2. Of(s4')
        BY <2>1, <3>3, <4>1
      <4> HIDE DEF Of, Fine
      <4> QED BY <1>2, <2>1, <3>2, <3>5, <4>2
    <3>6. CASE Boards!Finish(TRUE, list)
      <4>1. \A i \in DOMAIN list : list[i].of = s4.key
        BY <3>3
      <4> HIDE DEF Of, Fine
      <4> QED BY <2>2, <3>2, <3>6, <4>1
    <3> QED BY <3>4, <3>5, <3>6
  <2>5. CASE Boards!EntriesFail
    <3>1. /\ UNCHANGED <<s1, s2>> /\ s4.phase = "board"
          /\ \/ s4' = [s4 EXCEPT !.failures = 1] /\ UNCHANGED s3
             \/ Boards!Finish(FALSE, <<>>)
      BY <2>5 DEF Boards!EntriesFail
    <3>2. CASE s4' = [s4 EXCEPT !.failures = 1] /\ UNCHANGED s3
      <4>1. /\ s4'.phase = s4.phase /\ s4'.list = s4.list /\ s4'.key = s4.key
            /\ s4' = [phase |-> s4'.phase, key |-> s4'.key, failures |-> s4'.failures,
                      list |-> s4'.list]
        BY <2>1, <3>2
      <4>2. Of(s4')
        BY <2>1, <3>1, <4>1
      <4> HIDE DEF Of, Fine
      <4> QED BY <1>2, <2>1, <3>1, <3>2, <4>2
    <3>3. CASE Boards!Finish(FALSE, <<>>)
      <4>1. \A i \in DOMAIN <<>> : <<>>[i].of = s4.key
        OBVIOUS
      <4> HIDE DEF Of, Fine
      <4> QED BY <2>2, <3>1, <3>3, <4>1
    <3> QED BY <3>1, <3>2, <3>3
  <2>6. CASE Boards!Names
    <3>1. PICK known \in {{}, Boards!Video} : Boards!Finish(TRUE, [i \in DOMAIN s4.list |-> Boards!Named(s4.list[i], known)])
      BY <2>6 DEF Boards!Names
    <3>2. ASSUME NEW i \in DOMAIN s4.list PROVE Boards!Named(s4.list[i], known).of = s4.key
      <4> DEFINE e == s4.list[i]
      <4>1. e = [id |-> e.id, loops |-> e.loops, of |-> s4.key, name |-> e.name]
        BY <2>1, <2>6, <3>2 DEF Boards!Names
      <4> HIDE DEF e
      <4>2. e.of = s4.key /\ [e EXCEPT !.name = "profile"].of = s4.key
        BY <4>1
      <4> QED BY <4>2 DEF Boards!Named, e
    <3> DEFINE list == [i \in DOMAIN s4.list |-> Boards!Named(s4.list[i], known)]
    <3>3. \A i \in DOMAIN list : list[i].of = s4.key
      BY <3>2
    <3>4. Boards!Finish(TRUE, list) /\ UNCHANGED <<s1, s2>>
      BY <2>6, <3>1 DEF Boards!Names
    <3> HIDE DEF list
    <3> QED BY <2>2, <3>3, <3>4
  <2>7. CASE UNCHANGED Boards!vars
    BY <2>7 DEF Boards!vars, Boards!BoardInv
  <2> QED BY <2>3, <2>4, <2>5, <2>6, <2>7 DEF Boards!Next
<1>6. Boards!BoardInv => Boards!BoardIsTheChosen
  BY DEF Boards!BoardInv, Boards!BoardIsTheChosen, Boards!Key
<1> QED BY <1>4, <1>5, <1>6

\* The window reaches the place of the video after a render.
LEMMA WindowReaches ==
  ASSUME s5 \in Nat, s1 # Video!Away => Video!Place(s3, s4, s1) <= s5,
         NEW a, NEW w, NEW u, Video!Place(a, w, u) \in Nat, NEW fresh \in BOOLEAN,
         fresh \/ s1 # Video!Away, Video!Rendered(a, w, u, fresh)
  PROVE  s5' \in Nat /\ Video!Place(a, w, u) <= s5'
<1> DEFINE p == Video!Place(a, w, u)
           before == IF s1 = Video!Away \/ fresh THEN 0 ELSE Video!Place(s3, s4, s1)
           n == IF fresh THEN FirstCards ELSE s5
<1>1. s5' = IF p # before
            THEN IF p > 0 /\ (p - 1) + CardsAround > n THEN (p - 1) + CardsAround ELSE n
            ELSE n
  BY DEF Video!Rendered, Video!Window
<1>2. n \in Nat /\ (before = 0 \/ before <= n)
  BY CardsAreNat
<1> HIDE DEF p, before, n
<1>3. p \in Nat
  BY DEF p
<1>4. CardsAround \in Nat /\ CardsAround >= 1
  BY CardsAreNat
<1>5. s5' \in Nat /\ p <= s5'
  <2>1. CASE p > 0 /\ (p - 1) + CardsAround > n /\ p # before
    <3>1. s5' = (p - 1) + CardsAround
      BY <1>1, <2>1
    <3> QED BY <1>3, <1>4, <3>1
  <2>2. CASE p = before
    <3>1. s5' = n
      BY <1>1, <2>2
    <3> QED BY <1>2, <1>3, <2>2, <3>1
  <2>3. CASE p # before /\ ~(p > 0 /\ (p - 1) + CardsAround > n)
    <3>1. s5' = n
      BY <1>1, <2>3
    <3> QED BY <1>2, <1>3, <1>4, <2>3, <3>1
  <2> QED BY <2>1, <2>2, <2>3
<1> QED BY <1>5 DEF p

\* The place is a number, whatever the sources have.
LEMMA PlaceIsNat ==
  ASSUME NEW a \in [Video!Key -> Video!Query], NEW w \in [Video!Key -> Video!Query], NEW u \in Video!Pages
  PROVE  Video!Place(a, w, u) \in Nat
<1> DEFINE s == Video!Videos(a, w, u)
<1>1. a[Video!ApiKey(u)] \in Video!Query /\ w[Video!WsKey(u)] \in Video!Query
  BY KeysTyped
<1>2. \A q \in Video!Query : q.list \in Seq(Video!Id)
  BY DEF Video!Query
<1>3. s \in Seq(Video!Id)
  BY <1>1, <1>2 DEF Video!Videos, Video!ApiVideos
<1> HIDE DEF s
<1>4. DOMAIN s = 1..Len(s) /\ Len(s) \in Nat
  BY <1>3
<1>5. CASE u.id \in Video!Range(s)
  <2>1. \E i \in DOMAIN s : s[i] = u.id
    BY <1>5 DEF Video!Range
  <2>2. (CHOOSE i \in DOMAIN s : s[i] = u.id) \in DOMAIN s
    BY <2>1
  <2>3. Video!Place(a, w, u) = CHOOSE i \in DOMAIN s : s[i] = u.id
    BY <1>5 DEF Video!Place, Video!FirstIn, s
  <2> QED BY <1>4, <2>2, <2>3
<1>6. CASE u.id \notin Video!Range(s)
  <2>1. Video!Place(a, w, u) = 0
    BY <1>6 DEF Video!Place, Video!FirstIn, s
  <2> QED BY <2>1
<1> QED BY <1>5, <1>6

\* A list a source has answered with has no video twice, nor has one that is dropped.
LEMMA ListsOnce ==
  /\ \A l \in Video!Lists : Video!Once(l)
  /\ Video!Once(<<>>) /\ \A x : Video!Once(<<x>>)
  /\ \A s \in [Video!Key -> Video!Query], k \in Video!Key, b \in BOOLEAN :
       (\A j \in Video!Key : Video!Once(s[j].list)) =>
         /\ \A j \in Video!Key : Video!Once(Video!Cancelled(s, k)[j].list)
         /\ \A j \in Video!Key : Video!Once(Video!Asked(s, k, b)[j].list)
<1>1. Video!Once(<<>>) /\ \A x : Video!Once(<<x>>)
  BY DEF Video!Once
<1>2. Video!Once(<<"v1", "v2", "v3">>) /\ Video!Once(<<"v3", "v1">>)
  BY DEF Video!Once
<1>3. ASSUME NEW s \in [Video!Key -> Video!Query], NEW k \in Video!Key, NEW b \in BOOLEAN, \A j \in Video!Key : Video!Once(s[j].list)
      PROVE  /\ \A j \in Video!Key : Video!Once(Video!Cancelled(s, k)[j].list)
             /\ \A j \in Video!Key : Video!Once(Video!Asked(s, k, b)[j].list)
  <2>1. ASSUME NEW j \in Video!Key PROVE Video!Once(Video!Cancelled(s, k)[j].list)
    <3>1. Video!Cancelled(s, k)[j] = s[j] \/ Video!Cancelled(s, k)[j] = Video!Idle
      BY DEF Video!Cancelled
    <3>2. Video!Idle.list = <<>>
      BY DEF Video!Idle
    <3> QED BY <1>1, <1>3, <3>1, <3>2
  <2>2. ASSUME NEW j \in Video!Key PROVE Video!Once(Video!Asked(s, k, b)[j].list)
    <3>1. s[j] \in Video!Query /\ s[k] \in Video!Query
      OBVIOUS
    <3>2. Video!Asked(s, k, b)[j].list = s[j].list
      BY <3>1 DEF Video!Asked, Video!Query
    <3> QED BY <1>3, <3>2
  <2> QED BY <2>1, <2>2
<1> QED BY <1>1, <1>2, <1>3 DEF Video!Lists

LEMMA RenderStep ==
  /\ Video!Init /\ Video!PageInv => Video!RenderInv
  /\ Video!RenderInv /\ [Video!Next]_(Video!vars) => Video!RenderInv'
<1>1. ASSUME Video!Init, Video!PageInv PROVE Video!RenderInv
  <2>1. s5 \in Nat /\ s1 \in Video!Pages
    BY <1>1, CardsAreNat DEF Video!Init
  <2>2. \A k \in Video!Key : s3[k].list = <<>> /\ s4[k].list = <<>>
    <3>1. \A is : [Video!Idle EXCEPT !.is = is].list = <<>>
      BY DEF Video!Idle
    <3> QED BY <1>1, <3>1 DEF Video!Init
  <2>3. Video!ApiKey(s1) \in Video!Key /\ Video!WsKey(s1) \in Video!Key
    BY <2>1, KeysTyped
  <2>4. Video!Videos(s3, s4, s1) = <<>>
    BY <2>2, <2>3 DEF Video!Videos, Video!ApiVideos
  <2>5. Video!Place(s3, s4, s1) = 0
    BY <2>4 DEF Video!Place, Video!FirstIn, Video!Range
  <2> QED BY <1>1, <2>1, <2>2, <2>5, ListsOnce DEF Video!RenderInv
<1>2. ASSUME Video!RenderInv, [Video!Next]_(Video!vars) PROVE Video!RenderInv'
  <2>1. /\ Video!PageInv /\ Video!PageInv' /\ s5 \in Nat
        /\ \A k \in Video!Key : Video!Once(s3[k].list) /\ Video!Once(s4[k].list)
        /\ s1 # Video!Away => Video!Place(s3, s4, s1) <= s5
    BY <1>2, KeyHolds DEF Video!RenderInv
  <2>2. /\ s1 \in Video!Pages \cup {Video!Away} /\ s3 \in [Video!Key -> Video!Query] /\ s4 \in [Video!Key -> Video!Query]
        /\ s1' \in Video!Pages \cup {Video!Away} /\ s3' \in [Video!Key -> Video!Query] /\ s4' \in [Video!Key -> Video!Query]
    BY <2>1 DEF Video!PageInv
  <2>3. ASSUME s1' \in Video!Pages, \A k \in Video!Key : Video!Once(s3'[k].list) /\ Video!Once(s4'[k].list),
               NEW fresh \in BOOLEAN, fresh \/ s1 # Video!Away, Video!Rendered(s3', s4', s1', fresh)
        PROVE  Video!RenderInv'
    <3>1. Video!Place(s3', s4', s1') \in Nat
      BY <2>2, <2>3, PlaceIsNat
    <3>2. s5' \in Nat /\ Video!Place(s3', s4', s1') <= s5'
      BY <2>1, <2>3, <3>1, WindowReaches
    <3> QED BY <2>1, <2>3, <3>2 DEF Video!RenderInv
  <2>4. ASSUME NEW u \in Video!Pages \cup {Video!Away}, Video!GoTo(u) PROVE Video!RenderInv'
    <3>1. s1 # Video!Away => Video!ApiKey(s1) \in Video!Key /\ Video!WsKey(s1) \in Video!Key
      BY <2>2, KeysTyped
    <3>2. CASE u = Video!Away
      <4>1. /\ s1' = Video!Away /\ s5' = FirstCards
            /\ s3' = IF s1 = Video!Away THEN s3 ELSE Video!Cancelled(s3, Video!ApiKey(s1))
            /\ s4' = IF s1 = Video!Away THEN s4 ELSE Video!Cancelled(s4, Video!WsKey(s1))
        BY <2>4, <3>2 DEF Video!GoTo
      <4>2. \A k \in Video!Key : Video!Once(s3'[k].list) /\ Video!Once(s4'[k].list)
        BY <2>1, <2>2, <3>1, <4>1, ListsOnce
      <4> QED BY <2>1, <4>1, <4>2, CardsAreNat DEF Video!RenderInv
    <3>3. CASE u # Video!Away
      <4> DEFINE a == IF s1 = Video!Away \/ Video!ApiKey(s1) = Video!ApiKey(u) THEN s3 ELSE Video!Cancelled(s3, Video!ApiKey(s1))
                 w == IF s1 = Video!Away \/ Video!WsKey(s1) = Video!WsKey(u) THEN s4 ELSE Video!Cancelled(s4, Video!WsKey(s1))
                 fresh == s1 = Video!Away
      <4>1. /\ s1' = u /\ Video!Rendered(s3', s4', u, fresh)
            /\ s3' = Video!Asked(a, Video!ApiKey(u), fresh \/ Video!ApiKey(s1) # Video!ApiKey(u))
            /\ s4' = Video!Asked(w, Video!WsKey(u), fresh \/ Video!WsKey(s1) # Video!WsKey(u))
        BY <2>4, <3>3 DEF Video!GoTo
      <4>2. a \in [Video!Key -> Video!Query] /\ w \in [Video!Key -> Video!Query]
        BY <2>2, <3>1, QueriesTyped
      <4>3. \A k \in Video!Key : Video!Once(a[k].list) /\ Video!Once(w[k].list)
        BY <2>1, <2>2, <3>1, ListsOnce
      <4> HIDE DEF a, w
      <4>4. Video!ApiKey(u) \in Video!Key /\ Video!WsKey(u) \in Video!Key /\ u \in Video!Pages
        BY <3>3, KeysTyped
      <4>5. \A k \in Video!Key : Video!Once(s3'[k].list) /\ Video!Once(s4'[k].list)
        BY <4>1, <4>2, <4>3, <4>4, ListsOnce
      <4>6. fresh \in BOOLEAN /\ (fresh \/ s1 # Video!Away)
        OBVIOUS
      <4> HIDE DEF fresh
      <4> QED BY <2>3, <4>1, <4>4, <4>5, <4>6
    <3> QED BY <3>2, <3>3
  <2>5. CASE Video!Move
    <3> DEFINE p == Video!Place(s3, s4, s1)  s == Video!Videos(s3, s4, s1)
    <3>1. s1 \in Video!Pages
      BY <2>2, <2>5 DEF Video!Move
    <3>2. PICK n \in {p - 1, p + 1} \cap DOMAIN s :
            p > 0 /\ Video!Push([s1 EXCEPT !.id = s[n], !.vine = FALSE])
      BY <2>5 DEF Video!Move
    <3> DEFINE u == [s1 EXCEPT !.id = s[n], !.vine = FALSE]
    <3>3. Video!GoTo(u)
      BY <3>2 DEF Video!Push
    <3> HIDE DEF u, p, s
    <3>4. s1' = u
      BY <3>3 DEF Video!GoTo
    <3>5. u \in Video!Pages \cup {Video!Away}
      BY <2>2, <3>4
    <3> QED BY <2>4, <3>3, <3>5
  <2>6. CASE Video!GoBack \/ Video!BrowserBack
    <3>1. Video!GoTo(Video!Away) \/ Video!GoTo(s2[Len(s2)])
      BY <2>6 DEF Video!GoBack, Video!BrowserBack, Video!Push
    <3>2. \A v : Video!GoTo(v) => v = s1'
      BY DEF Video!GoTo
    <3> QED BY <2>2, <2>4, <3>1, <3>2
  <2>7. CASE Video!ApiAnswers
    <3>1. /\ s1 \in Video!Pages /\ s1' = s1 /\ s4' = s4 /\ Video!Rendered(s3', s4', s1', FALSE) /\ s1 # Video!Away
      BY <2>2, <2>7 DEF Video!ApiAnswers
    <3>2. PICK l, is : /\ s3' = [s3 EXCEPT ![Video!ApiKey(s1)] = [is |-> is, list |-> l]]
                       /\ l \in Video!Lists \/ l = <<s1.id>> \/ l = <<>>
      BY <2>7 DEF Video!ApiAnswers
    <3>3. Video!Once(l)
      BY <3>2, ListsOnce
    <3>4. \A k \in Video!Key : Video!Once(s3'[k].list) /\ Video!Once(s4'[k].list)
      BY <2>1, <2>2, <3>1, <3>2, <3>3
    <3> QED BY <2>3, <3>1, <3>4
  <2>8. CASE Video!WsAnswers
    <3>1. /\ s1 \in Video!Pages /\ s1' = s1 /\ s3' = s3 /\ Video!Rendered(s3', s4', s1', FALSE) /\ s1 # Video!Away
      BY <2>2, <2>8 DEF Video!WsAnswers
    <3>2. PICK l, is : /\ s4' = [s4 EXCEPT ![Video!WsKey(s1)] = [is |-> is, list |-> l]]
                       /\ l \in Video!Lists \/ l = <<s1.id>> \/ l = <<>>
      BY <2>8 DEF Video!WsAnswers
    <3>3. Video!Once(l)
      BY <3>2, ListsOnce
    <3>4. \A k \in Video!Key : Video!Once(s3'[k].list) /\ Video!Once(s4'[k].list)
      BY <2>1, <2>2, <3>1, <3>2, <3>3
    <3> QED BY <2>3, <3>1, <3>4
  <2>9. CASE Video!ShowMore
    <3>1. s1 \in Video!Pages /\ UNCHANGED <<s1, s2, s3, s4>>
      BY <2>2, <2>9 DEF Video!ShowMore, Video!Screen
    <3> DEFINE n == Len(Video!Videos(s3, s4, s1))
    <3>2. /\ s5 < n /\ (s5' = s5 + MoreCards \/ s5' = n)
      BY <2>9 DEF Video!ShowMore
    <3>3. n \in Nat
      <4>1. s3[Video!ApiKey(s1)] \in Video!Query /\ s4[Video!WsKey(s1)] \in Video!Query
        BY <2>2, <3>1, KeysTyped
      <4>2. \A q \in Video!Query : q.list \in Seq(Video!Id)
        BY DEF Video!Query
      <4>3. Video!Videos(s3, s4, s1) \in Seq(Video!Id)
        BY <4>1, <4>2 DEF Video!Videos, Video!ApiVideos
      <4> QED BY <4>3
    <3> HIDE DEF n
    <3>4. s5' \in Nat /\ s5 <= s5'
      BY <2>1, <3>2, <3>3, CardsAreNat
    <3>5. Video!Place(s3, s4, s1) \in Nat
      BY <2>2, <3>1, PlaceIsNat
    <3>6. s1' # Video!Away => Video!Place(s3, s4, s1) <= s5'
      BY <2>1, <3>1, <3>4, <3>5
    <3> QED BY <2>1, <3>1, <3>4, <3>6 DEF Video!RenderInv
  <2>10. CASE UNCHANGED Video!vars
    BY <1>2, <2>1, <2>10 DEF Video!vars, Video!RenderInv
  <2> QED BY <1>2, <2>5, <2>6, <2>7, <2>8, <2>9, <2>10 DEF Video!Next
<1> QED BY <1>1, <1>2

\* A video has one place in a list without repetitions.
LEMMA RenderShows == Video!RenderInv => Video!CurrentIsRendered
<1> SUFFICES ASSUME Video!RenderInv, Video!Screen(s3, s4, s1) = "feed", NEW i \in DOMAIN Video!Videos(s3, s4, s1),
                    Video!Videos(s3, s4, s1)[i] = s1.id
             PROVE  i <= s5
  BY DEF Video!CurrentIsRendered
<1>1. s1 \in Video!Pages /\ s1 # Video!Away /\ Video!Place(s3, s4, s1) <= s5
  BY DEF Video!RenderInv, Video!PageInv, Video!Screen
<1> DEFINE s == Video!Videos(s3, s4, s1)
<1>2. Video!Once(s)
  BY <1>1, KeysTyped, ListsOnce DEF Video!RenderInv, Video!Videos, Video!ApiVideos
<1>3. s1.id \in Video!Range(s)
  BY DEF Video!Range
<1>4. Video!Place(s3, s4, s1) = CHOOSE j \in DOMAIN s : s[j] = s1.id
  BY <1>3 DEF Video!Place, Video!FirstIn
<1> HIDE DEF s
<1>5. (CHOOSE j \in DOMAIN s : s[j] = s1.id) = i
  <2>1. i \in DOMAIN s /\ s[i] = s1.id
    BY DEF s
  <2> QED BY <1>2, <2>1 DEF Video!Once
<1> QED BY <1>1, <1>4, <1>5

\* ShowsWhatIsAsked for any numbers of videos, people, acts and cards: by SearchInv what was
\* read and is empty was empty from its first page on (useInfiniteSearchVideos), by HomeInv a
\* feed is kept under the follow list it was read for (useVideoEvents), by BoardInv what comes
\* to a board is of its key, and by RenderInv the window has grown to the place of the video
\* in the list the page has now (VideoPage).
THEOREM ShowsWhatIsAskedHolds == Spec => []ShowsWhatIsAsked
<1> DEFINE SearchInv == part = "Searches" => Searches!UrlFollows /\ Searches!SearchInv
           BadgeInv == part = "Profiles" => Profiles!BadgeInv
           HomeInv == part = "Query" => Query!HomeInv
           TabsInv == part = "Tabs" => Tabs!TabsInv
           BoardInv == part = "Boards" => Boards!BoardInv
           RenderInv == part = "Video" => Video!RenderInv
<1>1. Init => SearchInv
  <2> SUFFICES ASSUME Init, part = "Searches" PROVE Searches!UrlFollows /\ Searches!SearchInv
    OBVIOUS
  <2>1. Searches!Init
    BY DEF Init
  <2> QED BY <2>1, UrlStep, SearchStep
<1>2. Init => BadgeInv
  <2> SUFFICES ASSUME Init, part = "Profiles" PROVE Profiles!BadgeInv
    OBVIOUS
  <2>1. Profiles!Init
    BY DEF Init
  <2> QED BY <2>1, BadgeStep
<1>3. Init => HomeInv
  <2> SUFFICES ASSUME Init, part = "Query" PROVE Query!HomeInv
    OBVIOUS
  <2>1. Query!Init
    BY DEF Init
  <2> QED BY <2>1, HomeStep
<1>4. Init => TabsInv
  <2> SUFFICES ASSUME Init, part = "Tabs" PROVE Tabs!TabsInv
    OBVIOUS
  <2>1. Tabs!Init
    BY DEF Init
  <2> QED BY <2>1, TabsStep
<1>5. Init => BoardInv
  <2> SUFFICES ASSUME Init, part = "Boards" PROVE Boards!BoardInv
    OBVIOUS
  <2>1. Boards!Init
    BY DEF Init
  <2> QED BY <2>1, BoardStep
<1>6. Init => RenderInv
  <2> SUFFICES ASSUME Init, part = "Video" PROVE Video!RenderInv
    OBVIOUS
  <2>1. Video!Init
    BY DEF Init
  <2> QED BY <2>1, KeyHolds, RenderStep DEF Init
<1>7. SearchInv /\ [Next]_vars => SearchInv'
  <2> SUFFICES ASSUME SearchInv, [Next]_vars, part' = "Searches"
               PROVE  (Searches!UrlFollows /\ Searches!SearchInv)'
    OBVIOUS
  <2>1. part = "Searches" /\ [Searches!Next]_(Searches!vars)
    BY DEF Next, vars, Searches!vars
  <2> QED BY <2>1, UrlStep, SearchStep
<1>8. BadgeInv /\ [Next]_vars => BadgeInv'
  <2> SUFFICES ASSUME BadgeInv, [Next]_vars, part' = "Profiles"
               PROVE  (Profiles!BadgeInv)'
    OBVIOUS
  <2>1. part = "Profiles" /\ [Profiles!Next]_(Profiles!vars)
    BY DEF Next, vars, Profiles!vars
  <2> QED BY <2>1, BadgeStep
<1>9. HomeInv /\ [Next]_vars => HomeInv'
  <2> SUFFICES ASSUME HomeInv, [Next]_vars, part' = "Query"
               PROVE  (Query!HomeInv)'
    OBVIOUS
  <2>1. part = "Query" /\ [Query!Next]_(Query!vars)
    BY DEF Next, vars, Query!vars
  <2> QED BY <2>1, HomeStep
<1>10. TabsInv /\ [Next]_vars => TabsInv'
  <2> SUFFICES ASSUME TabsInv, [Next]_vars, part' = "Tabs"
               PROVE  (Tabs!TabsInv)'
    OBVIOUS
  <2>1. part = "Tabs" /\ [Tabs!Next]_(Tabs!vars)
    BY DEF Next, vars, Tabs!vars
  <2> QED BY <2>1, TabsStep
<1>11. BoardInv /\ [Next]_vars => BoardInv'
  <2> SUFFICES ASSUME BoardInv, [Next]_vars, part' = "Boards"
               PROVE  (Boards!BoardInv)'
    OBVIOUS
  <2>1. part = "Boards" /\ [Boards!Next]_(Boards!vars)
    BY DEF Next, vars, Boards!vars
  <2> QED BY <2>1, BoardStep
<1>12. RenderInv /\ [Next]_vars => RenderInv'
  <2> SUFFICES ASSUME RenderInv, [Next]_vars, part' = "Video"
               PROVE  (Video!RenderInv)'
    OBVIOUS
  <2>1. part = "Video" /\ [Video!Next]_(Video!vars)
    BY DEF Next, vars, Video!vars
  <2> QED BY <2>1, RenderStep
<1>13. SearchInv => (part = "Searches" => Searches!UrlFollows /\ Searches!NoneIsNone)
  BY SearchShows
<1>14. BadgeInv => (part = "Profiles" => Profiles!BadgeIsEarned)
  BY BadgeStep
<1>15. HomeInv => (part = "Query" => Query!HomeIsFollowed)
  BY HomeShows
<1>16. TabsInv => (part = "Tabs" => Tabs!TabIsOfTheAddress)
  BY DEF Tabs!TabsInv
<1>17. BoardInv => (part = "Boards" => Boards!BoardIsTheChosen)
  BY BoardStep
<1>18. RenderInv => (part = "Video" => Video!CurrentIsRendered)
  BY RenderShows
<1>19. SearchInv /\ BadgeInv /\ HomeInv /\ TabsInv /\ BoardInv /\ RenderInv => ShowsWhatIsAsked
  BY <1>13, <1>14, <1>15, <1>16, <1>17, <1>18 DEF ShowsWhatIsAsked
<1> QED BY <1>1, <1>2, <1>3, <1>4, <1>5, <1>6, <1>7, <1>8, <1>9, <1>10, <1>11, <1>12, <1>19, PTL DEF Spec

-----------------------------------------------------------------------------
\* Each change starts from the relay's list: without a clash its outcome is what was asked.
LEMMA WantedStep ==
  /\ Mutes!Init => Mutes!CalmInv
  /\ Mutes!CalmInv /\ [Mutes!Next]_(Mutes!vars) => Mutes!CalmInv'
  /\ Mutes!CalmInv => Mutes!CalmListIsWanted
<1>1. Mutes!Init => Mutes!CalmInv
  <2> SUFFICES ASSUME Mutes!Init PROVE Mutes!CalmInv
    OBVIOUS
  <2>1. /\ s2 = 1 /\ s6 = {} /\ s8 = s1.items
        /\ s1.at \in {0, 1} /\ (s1.at = 0 => s1.items = {})
    BY DEF Mutes!Init
  <2> QED BY <2>1 DEF Mutes!CalmInv
<1>2. Mutes!CalmInv /\ [Mutes!Next]_(Mutes!vars) => Mutes!CalmInv'
  <2> SUFFICES ASSUME Mutes!CalmInv, [Mutes!Next]_(Mutes!vars) PROVE Mutes!CalmInv'
    OBVIOUS
  <2> DEFINE Sound(c) ==
        /\ c = [n |-> c.n, on |-> c.on, x |-> c.x, v |-> c.v, pc |-> c.pc]
        /\ c.v.at \in Nat /\ c.v.at <= s2 /\ (c.v.at = 0 => c.v.items = {})
        /\ s9 /\ c.pc = "read" => s8 = IF c.on THEN Mutes!Base \cup {c.x} ELSE Mutes!Base \ {c.x}
        /\ s9 /\ c.pc = "sent" => c.v.items = s8 /\ c.v.at >= s1.at
  <2>1. /\ s2 \in Nat /\ s2 > 0 /\ s1.at \in Nat /\ s1.at <= s2
        /\ s1.at = 0 => s1.items = {}
        /\ s9 => \A c, d \in s6 : c = d
        /\ s9 /\ s6 = {} => s1.items = s8
        /\ \A c \in s6 : Sound(c)
    BY DEF Mutes!CalmInv
  <2>2. ASSUME s2' \in Nat, s2' > 0, s1'.at \in Nat, s1'.at <= s2',
               s1'.at = 0 => s1'.items = {},
               s9' => \A c, d \in s6' : c = d,
               s9' /\ s6' = {} => s1'.items = s8',
               \A c \in s6' : Sound(c)'
        PROVE  Mutes!CalmInv'
    BY <2>2 DEF Mutes!CalmInv
  <2>3. CASE UNCHANGED <<s1, s2, s6, s8, s9>>
    BY <2>1, <2>3 DEF Mutes!CalmInv, Mutes!Base
  <2>4. ASSUME NEW on \in BOOLEAN, NEW x, Mutes!Start(on, x) PROVE Mutes!CalmInv'
    <3>0. PICK c0 : c0 = [n |-> s7 + 1, on |-> on, x |-> x, v |-> [at |-> 0, items |-> {}], pc |-> "read"]
      OBVIOUS
    <3>1. /\ s6' = s6 \cup {c0} /\ UNCHANGED <<s1, s2>>
          /\ s8' = IF on THEN s8 \cup {x} ELSE s8 \ {x}
          /\ s9' = (s9 /\ s6 = {})
      BY <2>4, <3>0 DEF Mutes!Start
    <3>2. /\ c0 = [n |-> c0.n, on |-> c0.on, x |-> c0.x, v |-> c0.v, pc |-> c0.pc]
          /\ c0.v.at = 0 /\ c0.v.items = {} /\ c0.pc = "read" /\ c0.on = on /\ c0.x = x
      BY <3>0
    <3>3. s9' => s8' = IF c0.on THEN Mutes!Base' \cup {c0.x} ELSE Mutes!Base' \ {c0.x}
      BY <2>1, <3>1, <3>2 DEF Mutes!Base
    <3>4. Sound(c0)'
      BY <2>1, <3>1, <3>2, <3>3
    <3>5. ASSUME NEW c \in s6 PROVE Sound(c)'
      BY <2>1, <3>1 DEF Mutes!Base
    <3>6. s9' => s6' = {c0} /\ \A c, d \in s6' : c = d
      BY <3>1
    <3> HIDE DEF Sound
    <3> QED BY <2>1, <2>2, <3>1, <3>4, <3>5, <3>6
  <2>5. ASSUME NEW c \in s6, Mutes!ReadAndSend(c) PROVE Mutes!CalmInv'
    <3>0. PICK c1 : c1 = [n |-> c.n, on |-> c.on, x |-> c.x, v |-> Mutes!Changed(c), pc |-> "sent"]
      OBVIOUS
    <3>1. /\ c.pc = "read" /\ UNCHANGED <<s1, s2, s8, s9>>
          /\ s6' = (s6 \ {c}) \cup (IF Mutes!NeedsPublish(c) THEN {c1} ELSE {})
      <4>1. [c EXCEPT !.v = Mutes!Changed(c), !.pc = "sent"] = c1
        <5>1. c = [n |-> c.n, on |-> c.on, x |-> c.x, v |-> c.v, pc |-> c.pc]
          BY <2>1
        <5>2. PICK n, o, x, v, p, w : /\ n = c.n /\ o = c.on /\ x = c.x /\ v = c.v /\ p = c.pc /\ w = Mutes!Changed(c)
          OBVIOUS
        <5>3. [[n |-> n, on |-> o, x |-> x, v |-> v, pc |-> p] EXCEPT !.v = w]
              = [n |-> n, on |-> o, x |-> x, v |-> w, pc |-> p]
          OBVIOUS
        <5>4. [[n |-> n, on |-> o, x |-> x, v |-> w, pc |-> p] EXCEPT !.pc = "sent"]
              = [n |-> n, on |-> o, x |-> x, v |-> w, pc |-> "sent"]
          OBVIOUS
        <5>5. [c EXCEPT !.v = w, !.pc = "sent"] = [[c EXCEPT !.v = w] EXCEPT !.pc = "sent"]
          BY <5>1, Zenon
        <5> QED BY <3>0, <5>1, <5>2, <5>3, <5>4, <5>5, Zenon
      <4> QED BY <2>5, <4>1 DEF Mutes!ReadAndSend, Mutes!history
    <3>2. /\ c1 = [n |-> c1.n, on |-> c1.on, x |-> c1.x, v |-> c1.v, pc |-> c1.pc]
          /\ c1.v.at = s2 /\ c1.v.items = (IF c.on THEN Mutes!Base \cup {c.x} ELSE Mutes!Base \ {c.x}) /\ c1.pc = "sent"
      BY <3>0 DEF Mutes!Changed
    <3>3. Mutes!Base' = Mutes!Base /\ (c.on \/ ~c.on)
      BY <3>1 DEF Mutes!Base
    <3>4. Sound(c1)'
      BY <2>1, <3>1, <3>2, <3>3
    <3>5. ASSUME NEW d \in s6 PROVE Sound(d)'
      BY <2>1, <3>1, <3>3
    <3>6. s9' => s6 = {c}
      BY <2>1, <3>1
    <3>7. s9' => \A d, e \in s6' : d = e
      BY <3>1, <3>6
    <3>8. s9' /\ s6' = {} => s1'.items = s8'
      <4>1. ASSUME s9', s6' = {} PROVE s1.items = s8
        <5>1. ~Mutes!NeedsPublish(c) /\ s8 = IF c.on THEN Mutes!Base \cup {c.x} ELSE Mutes!Base \ {c.x}
          BY <2>1, <3>1, <4>1
        <5>2. CASE c.on
          BY <5>1, <5>2 DEF Mutes!NeedsPublish, Mutes!Base
        <5>3. CASE ~c.on
          BY <2>1, <5>1, <5>3 DEF Mutes!NeedsPublish, Mutes!Base
        <5> QED BY <5>2, <5>3
      <4> QED BY <3>1, <4>1
    <3> HIDE DEF Sound
    <3> QED BY <2>1, <2>2, <3>1, <3>4, <3>5, <3>7, <3>8
  <2>6. ASSUME NEW c \in s6, Mutes!GiveUp(c) PROVE Mutes!CalmInv'
    <3>1. s6' = s6 \ {c} /\ s9' = FALSE /\ UNCHANGED <<s1, s2, s8>>
      BY <2>6 DEF Mutes!GiveUp
    <3> QED BY <2>1, <2>2, <3>1
  <2>7. ASSUME NEW c \in s6, Mutes!Store(c) PROVE Mutes!CalmInv'
    <3>0. Sound(c)
      BY <2>1
    <3>1. /\ c.pc = "sent" /\ s6' = s6 \ {c} /\ UNCHANGED <<s2, s8>>
          /\ (s1' = c.v /\ c.v.at >= s1.at) \/ (s1' = s1 /\ c.v.at <= s1.at)
          /\ s9' = (s9 /\ c.v.at # s1.at)
      <4>1. /\ c.pc = "sent" /\ s6' = s6 \ {c} /\ UNCHANGED <<s2, s8>>
            /\ s9' = (s9 /\ c.v.at # s1.at)
        BY <2>7, Zenon DEF Mutes!Store
      <4>2. s1' \in (IF c.v.at >= s1.at THEN {c.v} ELSE {}) \cup
                   (IF c.v.at <= s1.at THEN {s1} ELSE {})
        BY <2>7, Zenon DEF Mutes!Store
      <4>3. (s1' = c.v /\ c.v.at >= s1.at) \/ (s1' = s1 /\ c.v.at <= s1.at)
        <5>1. CASE s1' = c.v /\ c.v.at >= s1.at
          BY <5>1, Zenon
        <5>2. CASE ~(c.v.at >= s1.at)
          <6>1. s1' \in IF c.v.at <= s1.at THEN {s1} ELSE {}
            BY <4>2, <5>2, Zenon
          <6> QED BY <6>1, Zenon
        <5>3. CASE c.v.at >= s1.at /\ s1' # c.v
          <6>1. s1' \in IF c.v.at <= s1.at THEN {s1} ELSE {}
            BY <4>2, <5>3, Zenon
          <6> QED BY <6>1, Zenon
        <5> QED BY <5>1, <5>2, <5>3, Zenon
      <4> QED BY <4>1, <4>3, Zenon
    <3>3. s9' => s6' = {} /\ s1' = c.v /\ c.v.items = s8
      <4>1. ASSUME s9' PROVE s9 /\ c.v.at # s1.at
        BY <3>1, <4>1
      <4>2. ASSUME s9' PROVE c.v.items = s8 /\ c.v.at >= s1.at /\ s6 = {c}
        BY <2>1, <3>1, <3>0, <4>1, <4>2
      <4>3. ASSUME s9' PROVE s1' = c.v
        BY <2>1, <3>1, <3>0, <4>1, <4>2, <4>3
      <4> QED BY <3>1, <4>2, <4>3
    <3>4. \A d \in s6' : Sound(d)'
      BY <2>1, <3>1, <3>3
    <3> QED BY <2>1, <2>2, <3>1, <3>0, <3>3, <3>4
  <2>8. CASE Mutes!Clock
    <3>1. s2' = s2 + 1 /\ UNCHANGED <<s1, s6, s8, s9>>
      BY <2>8 DEF Mutes!Clock, Mutes!history
    <3>2. Mutes!Base' = Mutes!Base
      BY <3>1 DEF Mutes!Base
    <3>3. \A c \in s6' : Sound(c)'
      BY <2>1, <3>1, <3>2
    <3> QED BY <2>1, <2>2, <3>1, <3>3
  <2>9. CASE Mutes!MuteRead \/ Mutes!MuteAnswer \/ Mutes!MuteTimeout \/ Mutes!Mount \/ UNCHANGED Mutes!vars
    <3>1. UNCHANGED <<s1, s2, s6, s8, s9>>
      BY <2>9, Zenon DEF Mutes!MuteRead, Mutes!MuteAnswer, Mutes!MuteTimeout, Mutes!Mount,
                         Mutes!history, Mutes!vars
    <3> QED BY <2>3, <3>1
  <2>10. ASSUME NEW x \in Clip, Mutes!Mute(x) \/ Mutes!Unmute(x) PROVE Mutes!CalmInv'
    BY <2>4, <2>10 DEF Mutes!Mute, Mutes!Unmute
  <2> QED BY <2>5, <2>6, <2>7, <2>8, <2>9, <2>10 DEF Mutes!Next
<1>3. Mutes!CalmInv => Mutes!CalmListIsWanted
  BY DEF Mutes!CalmInv, Mutes!CalmListIsWanted
<1> QED BY <1>1, <1>2, <1>3

\* What the buttons show of an answer.
LEMMA ShownIs ==
  ASSUME NEW q, NEW i, s5[q] = {i} PROVE \A k : Reactions!Shown(q, k) = i[k]
<1>1. (CHOOSE j \in s5[q] : TRUE) = i
  OBVIOUS
<1>2. s5[q] # Reactions!Unset
  BY DEF Reactions!Unset
<1> QED BY <1>1, <1>2, Zenon DEF Reactions!Shown

LEMMA TrueIs ==
  ASSUME NEW q, NEW i, s5[q] = {i} PROVE Reactions!True(q) <=> \A k \in {"like", "repost"} : Reactions!Told(i, k)
<1>1. \A k : Reactions!Shown(q, k) = i[k]
  BY ShownIs
<1>2. ASSUME NEW k \in {"like", "repost"}
      PROVE  (IF Reactions!Shown(q, k).on THEN Reactions!Shown(q, k).id \in Reactions!Live(k) ELSE Reactions!Live(k) = {}) <=> Reactions!Told(i, k)
  <2>1. Reactions!Shown(q, k) = i[k]
    BY <1>1
  <2> QED BY <2>1, Zenon DEF Reactions!Told
<1> QED BY <1>2, Zenon DEF Reactions!True

LEMMA SetIs ==
  ASSUME NEW q, NEW i, s5[q] = {i}, NEW k, NEW mark
  PROVE  Reactions!Set(q, k, mark) = [s5 EXCEPT ![q] = {Reactions!With(i, k, mark)}]
<1>1. \A j : Reactions!Shown(q, j) = i[j]
  BY ShownIs
<1>2. [j \in {"like", "repost"} |-> IF j = k THEN mark ELSE Reactions!Shown(q, j)] = Reactions!With(i, k, mark)
  <2>1. \A j \in {"like", "repost"} : (IF j = k THEN mark ELSE Reactions!Shown(q, j)) = (IF j = k THEN mark ELSE i[j])
    BY <1>1, Zenon
  <2> QED BY <2>1, Zenon DEF Reactions!With
<1> QED BY <1>2, Zenon DEF Reactions!Set

LEMMA SetThen ==
  ASSUME NEW q \in Reactions!Query, NEW i, s5[q] = {i}, NEW k, NEW mark, DOMAIN s5 = Reactions!Query, s5' = Reactions!Set(q, k, mark)
  PROVE  s5'[q] = {Reactions!With(i, k, mark)}
<1>1. PICK w : w = Reactions!With(i, k, mark)
  OBVIOUS
<1>2. Reactions!Set(q, k, mark) = [s5 EXCEPT ![q] = {Reactions!With(i, k, mark)}]
  BY SetIs
<1>3. s5' = [s5 EXCEPT ![q] = {w}]
  BY <1>1, <1>2, Zenon
<1>4. s5'[q] = {w}
  BY <1>3
<1> QED BY <1>1, <1>4, Zenon

\* A part of an answer that is replaced, and the others.
LEMMA WithIs ==
  ASSUME NEW i \in Reactions!Answer, NEW k \in {"like", "repost"}, NEW mark \in [on : BOOLEAN, id : Int]
  PROVE  /\ Reactions!With(i, k, mark) \in Reactions!Answer /\ Reactions!With(i, k, mark)[k] = mark
         /\ \A j \in {"like", "repost"} \ {k} : Reactions!With(i, k, mark)[j] = i[j]
BY DEF Reactions!With, Reactions!Answer

LEMMA MarksAre ==
  /\ Reactions!Off \in [on : BOOLEAN, id : Int] /\ Reactions!Sending \in [on : BOOLEAN, id : Int]
  /\ Reactions!Off.on = FALSE /\ Reactions!Sending.on = TRUE
BY DEF Reactions!Off, Reactions!Sending, Reactions!None, Reactions!Pending

\* A true answer of which one reaction is replaced by the truth is true.
LEMMA ToldWith ==
  ASSUME NEW i \in Reactions!Answer, NEW k \in {"like", "repost"}, NEW mark \in [on : BOOLEAN, id : Int],
         \A j \in {"like", "repost"} \ {k} : Reactions!Told(i, j), IF mark.on THEN mark.id \in Reactions!Live(k) ELSE Reactions!Live(k) = {}
  PROVE  \A j \in {"like", "repost"} : Reactions!Told(Reactions!With(i, k, mark), j)
<1> TAKE j \in {"like", "repost"}
<1>1. CASE j = k
  <2>1. PICK w : w = Reactions!With(i, k, mark)
    OBVIOUS
  <2>2. w[k] = mark
    BY <2>1, WithIs
  <2>3. Reactions!Told(w, k)
    BY <2>2, Zenon DEF Reactions!Told
  <2> QED BY <1>1, <2>1, <2>3, Zenon
<1>2. CASE j # k
  <2>1. Reactions!With(i, k, mark)[j] = i[j]
    BY <1>2, WithIs
  <2>2. Reactions!Told(i, j)
    BY <1>2
  <2> QED BY <2>1, <2>2, Zenon DEF Reactions!Told
<1> QED BY <1>1, <1>2

\* A further reaction on the relay, and a deletion of one.
LEMMA LiveAppends ==
  ASSUME s1 \in Seq({"like", "repost"}), s2 \subseteq DOMAIN s1, NEW k \in {"like", "repost"},
         s1' = Append(s1, k), s2' = s2
  PROVE  /\ Reactions!Live(k)' = Reactions!Live(k) \cup {Len(s1) + 1}
         /\ \A j \in {"like", "repost"} \ {k} : Reactions!Live(j)' = Reactions!Live(j)
         /\ s1' \in Seq({"like", "repost"}) /\ s2' \subseteq DOMAIN s1'
<1>1. /\ Len(s1) \in Nat /\ DOMAIN s1 = 1..Len(s1) /\ DOMAIN s1' = 1..(Len(s1) + 1)
      /\ s1'[Len(s1) + 1] = k /\ \A n \in DOMAIN s1 : s1'[n] = s1[n]
  OBVIOUS
<1>2. DOMAIN s1' = DOMAIN s1 \cup {Len(s1) + 1} /\ Len(s1) + 1 \notin DOMAIN s1
  BY <1>1
<1> QED BY <1>1, <1>2 DEF Reactions!Live

LEMMA LiveDeletes ==
  ASSUME s1' = s1, NEW n, s2' = s2 \cup ({n} \cap DOMAIN s1)
  PROVE  \A k : Reactions!Live(k)' = Reactions!Live(k) \ {n}
BY DEF Reactions!Live

\* Of the truth the feed tells, what a step leaves alone stays.
LEMMA TruthKept ==
  ASSUME UNCHANGED <<s1, s2>>, s5'["feed"] = s5["feed"], Reactions!True("feed")
  PROVE  Reactions!True("feed")'
<1>1. \A k : Reactions!Live(k)' = Reactions!Live(k) /\ Reactions!Shown("feed", k)' = Reactions!Shown("feed", k)
  BY DEF Reactions!Live, Reactions!Shown
<1>2. \A k : k \in {"like", "repost"} => (IF Reactions!Shown("feed", k).on THEN Reactions!Shown("feed", k).id \in Reactions!Live(k) ELSE Reactions!Live(k) = {})
  BY DEF Reactions!True
<1> QED BY <1>1, <1>2 DEF Reactions!True

LEMMA ShownTyped ==
  ASSUME Reactions!TruthTyped, NEW q \in Reactions!Query, NEW k \in {"like", "repost"}
  PROVE  Reactions!Shown(q, k) \in [on : BOOLEAN, id : Int]
<1>1. s5[q] \in {Reactions!Unset} \cup {{i} : i \in Reactions!Answer}
  BY DEF Reactions!TruthTyped
<1>2. CASE s5[q] = Reactions!Unset
  BY <1>2, MarksAre, Zenon DEF Reactions!Shown
<1>3. ASSUME NEW i \in Reactions!Answer, s5[q] = {i} PROVE Reactions!Shown(q, k) \in [on : BOOLEAN, id : Int]
  <2>1. Reactions!Shown(q, k) = i[k]
    BY <1>3, ShownIs
  <2>2. i[k] \in [on : BOOLEAN, id : Int]
    BY DEF Reactions!Answer
  <2> QED BY <2>1, <2>2, Zenon
<1> QED BY <1>1, <1>2, <1>3

LEMMA SetTyped ==
  ASSUME Reactions!TruthTyped, NEW q \in Reactions!Query, NEW k \in {"like", "repost"}, NEW mark \in [on : BOOLEAN, id : Int]
  PROVE  Reactions!Set(q, k, mark) \in [Reactions!Query -> {Reactions!Unset} \cup {{i} : i \in Reactions!Answer}]
<1>1. \A j \in {"like", "repost"} : (IF j = k THEN mark ELSE Reactions!Shown(q, j)) \in [on : BOOLEAN, id : Int]
  BY ShownTyped
<1>2. PICK i \in Reactions!Answer : i = [j \in {"like", "repost"} |-> IF j = k THEN mark ELSE Reactions!Shown(q, j)]
  BY <1>1 DEF Reactions!Answer
<1>3. Reactions!Set(q, k, mark) = [s5 EXCEPT ![q] = {i}]
  BY <1>2, Zenon DEF Reactions!Set
<1> QED BY <1>3 DEF Reactions!TruthTyped

\* The shape of the state.
LEMMA TypedStep == Reactions!TruthTyped /\ [Reactions!Next]_(Reactions!vars) => Reactions!TruthTyped'
<1> SUFFICES ASSUME Reactions!TruthTyped, [Reactions!Next]_(Reactions!vars)
             PROVE  Reactions!TruthTyped'
  OBVIOUS
<1> DEFINE Caches == [Reactions!Query -> {Reactions!Unset} \cup {{i} : i \in Reactions!Answer}]
           Whole(r) == r = [at |-> r.at, events |-> r.events]
           Sound(t) ==
             /\ t = [n |-> t.n, kind |-> t.kind, undo |-> t.undo, page |-> t.page, at |-> t.at,
                     id |-> t.id, before |-> t.before]
             /\ t.kind \in {"like", "repost"} /\ t.page \in Reactions!Query /\ t.at \in {"sent", "kept"} /\ t.id \in Int
             /\ t.before \in {Reactions!Unset} \cup {{i} : i \in Reactions!Answer}
<1>1. /\ s1 \in Seq({"like", "repost"}) /\ s2 \subseteq DOMAIN s1
      /\ s5 \in Caches /\ s6 \in [Reactions!Query -> BOOLEAN] /\ DOMAIN s7 = Reactions!Query
      /\ \A q \in Reactions!Query : Whole(s7[q]) /\ (s7[q].at # "idle" => s3 = q /\ s4)
      /\ \A t \in s8 : Sound(t)
  BY DEF Reactions!TruthTyped
<1>2. ASSUME s1' \in Seq({"like", "repost"}), s2' \subseteq DOMAIN s1',
             s5' \in Caches, s6' \in [Reactions!Query -> BOOLEAN], DOMAIN s7' = Reactions!Query,
             \A q \in Reactions!Query : Whole(s7'[q]) /\ (s7'[q].at # "idle" => s3' = q /\ s4'),
             \A t \in s8' : Sound(t)
      PROVE  Reactions!TruthTyped'
  BY <1>2 DEF Reactions!TruthTyped, Reactions!Answer, Reactions!Unset
<1>3. Whole(Reactions!Idle) /\ Reactions!Idle.at = "idle"
  BY DEF Reactions!Idle
<1> HIDE DEF Sound, Whole, Caches
<1>4. ASSUME NEW q \in Reactions!Query, NEW i \in Reactions!Answer PROVE [s5 EXCEPT ![q] = {i}] \in Caches
  BY <1>1 DEF Caches
<1>5. ASSUME NEW q \in Reactions!Query, NEW r, Whole(r), r.at # "idle" => s3' = q /\ s4',
             s3' = s3, s4' = s4, s7' = [s7 EXCEPT ![q] = r]
      PROVE  /\ DOMAIN s7' = Reactions!Query
             /\ \A p \in Reactions!Query : Whole(s7'[p]) /\ (s7'[p].at # "idle" => s3' = p /\ s4')
  <2>1. \A p \in Reactions!Query : s7'[p] = IF p = q THEN r ELSE s7[p]
    BY <1>1, <1>5
  <2> QED BY <1>1, <1>5, <2>1
<1>6. CASE UNCHANGED Reactions!vars
  BY <1>1, <1>2, <1>6 DEF Reactions!vars
<1>7. ASSUME NEW p, Reactions!Open(p) PROVE Reactions!TruthTyped'
  <2>1. /\ s7' = [q \in Reactions!Query |-> Reactions!Idle] /\ UNCHANGED <<s1, s2, s5, s6, s8>>
    BY <1>7 DEF Reactions!Open, Reactions!relay
  <2> QED BY <1>1, <1>2, <1>3, <2>1
<1>8. CASE Reactions!Load
  <2>1. /\ s3 \in Reactions!Query /\ s4' = TRUE /\ UNCHANGED <<s1, s2, s3, s5, s6, s8>>
        /\ s7' = [s7 EXCEPT ![s3].at = "events"] \/ s7' = s7
    BY <1>8 DEF Reactions!Load, Reactions!relay
  <2>2. CASE s7' = s7
    BY <1>1, <1>2, <2>1, <2>2
  <2>3. CASE s7' = [s7 EXCEPT ![s3].at = "events"]
    <3>1. PICK e : e = s7[s3].events
      OBVIOUS
    <3>2. [s7[s3] EXCEPT !.at = "events"] = [at |-> "events", events |-> e]
      BY <1>1, <2>1, <3>1 DEF Whole
    <3>3. s7' = [s7 EXCEPT ![s3] = [s7[s3] EXCEPT !.at = "events"]]
      BY <1>1, <2>1, <2>3
    <3>4. PICK r : r = [at |-> "events", events |-> e]
      OBVIOUS
    <3>5. s7' = [s7 EXCEPT ![s3] = r] /\ Whole(r)
      BY <3>2, <3>3, <3>4 DEF Whole
    <3>6. \A p \in Reactions!Query : s7'[p] = IF p = s3 THEN r ELSE s7[p]
      BY <1>1, <3>5
    <3>7. DOMAIN s7' = Reactions!Query
      BY <1>1, <3>5
    <3>8. \A p \in Reactions!Query : Whole(s7'[p]) /\ (s7'[p].at # "idle" => s3' = p /\ s4')
      BY <1>1, <2>1, <3>5, <3>6
    <3> QED BY <1>1, <1>2, <2>1, <3>7, <3>8
  <2> QED BY <2>1, <2>2, <2>3
<1>9. ASSUME NEW q \in Reactions!Query, Reactions!Age(q) PROVE Reactions!TruthTyped'
  <2>1. s6' = [s6 EXCEPT ![q] = TRUE] /\ UNCHANGED <<s1, s2, s3, s4, s5, s7, s8>>
    BY <1>9 DEF Reactions!Age, Reactions!relay, Reactions!screen
  <2>2. s6' \in [Reactions!Query -> BOOLEAN]
    BY <1>1, <2>1
  <2> QED BY <1>1, <1>2, <2>1, <2>2
<1>10. ASSUME NEW q \in Reactions!Query, Reactions!FindEvents(q) PROVE Reactions!TruthTyped'
  <2>1. PICK r : r = [at |-> "deletions", events |-> DOMAIN s1]
    OBVIOUS
  <2>2. /\ s7[q].at = "events" /\ s7' = [s7 EXCEPT ![q] = r]
        /\ UNCHANGED <<s1, s2, s3, s4, s5, s6, s8>>
    BY <1>10, <2>1 DEF Reactions!FindEvents, Reactions!relay, Reactions!screen
  <2>3. Whole(r)
    BY <2>1 DEF Whole
  <2> QED BY <1>1, <1>2, <1>5, <2>2, <2>3
<1>11. ASSUME NEW q \in Reactions!Query, NEW i \in Reactions!Answer, Reactions!Answered(q, i), UNCHANGED <<Reactions!relay, Reactions!screen, s8>> PROVE Reactions!TruthTyped'
  <2>1. /\ s5' = [s5 EXCEPT ![q] = {i}] /\ s6' = [s6 EXCEPT ![q] = FALSE]
        /\ s7' = [s7 EXCEPT ![q] = Reactions!Idle] /\ UNCHANGED <<s1, s2, s3, s4, s8>>
    BY <1>11 DEF Reactions!Answered, Reactions!relay, Reactions!screen
  <2>2. s6' \in [Reactions!Query -> BOOLEAN] /\ s5' \in Caches
    BY <1>1, <1>4, <2>1
  <2> QED BY <1>1, <1>2, <1>3, <1>5, <2>1, <2>2
<1>12. ASSUME NEW q \in Reactions!Query, Reactions!FindDeletions(q) \/ Reactions!ReadFails(q) PROVE Reactions!TruthTyped'
  <2>1. CASE Reactions!FindDeletions(q)
    <3>1. PICK i \in [{"like", "repost"} -> Reactions!Mark] : Reactions!Answered(q, i) /\ UNCHANGED <<Reactions!relay, Reactions!screen, s8>>
      BY <2>1, Zenon DEF Reactions!FindDeletions
    <3>2. Reactions!Mark \subseteq [on : BOOLEAN, id : Int]
      BY ClicksIsNat DEF Reactions!Mark, Reactions!Id, Reactions!None, Reactions!Pending
    <3>3. i \in Reactions!Answer
      BY <3>2 DEF Reactions!Answer
    <3> QED BY <1>11, <3>1, <3>3
  <2>2. CASE Reactions!ReadFails(q)
    <3>1. Reactions!Blank \in Reactions!Answer
      BY MarksAre DEF Reactions!Blank, Reactions!Answer
    <3> QED BY <1>11, <2>2, <3>1 DEF Reactions!ReadFails
  <2> QED BY <1>12, <2>1, <2>2
<1>13. ASSUME NEW q \in Reactions!Query, NEW k \in {"like", "repost"}, Reactions!Begin(k, q), UNCHANGED <<Reactions!relay, Reactions!screen, s6, s7>>, s5' \in Caches
       PROVE  Reactions!TruthTyped'
  <2>1. PICK u, d, b, n : u = Reactions!Shown(q, k).on /\ d = (IF Reactions!Shown(q, k).on THEN Reactions!Shown(q, k).id ELSE Reactions!Pending) /\ b = s5[q] /\ n = s9 + 1
    OBVIOUS
  <2>2. s8' = s8 \cup {[n |-> n, kind |-> k, undo |-> u, page |-> q, at |-> "sent", id |-> d, before |-> b]}
    BY <1>13, <2>1 DEF Reactions!Begin
  <2>3. d \in Int
    BY <2>1, ShownTyped DEF Reactions!Pending
  <2>4. b \in {Reactions!Unset} \cup {{i} : i \in Reactions!Answer}
    BY <1>1, <2>1 DEF Caches
  <2>5. Sound([n |-> n, kind |-> k, undo |-> u, page |-> q, at |-> "sent", id |-> d, before |-> b])
    BY <2>3, <2>4 DEF Sound
  <2> QED BY <1>1, <1>2, <1>13, <2>2, <2>5 DEF Reactions!relay, Reactions!screen
<1>14. ASSUME NEW k \in {"like", "repost"}, Reactions!Toggle(k) PROVE Reactions!TruthTyped'
  <2>1. \E m \in {Reactions!Off, Reactions!Sending} : s5' = Reactions!Set("feed", k, m)
    BY <1>14, Zenon DEF Reactions!Toggle, Reactions!Sending
  <2>2. s5' \in Caches
    BY <2>1, SetTyped, MarksAre DEF Caches, Reactions!Query
  <2>3. UNCHANGED <<Reactions!relay, Reactions!screen, s6, s7>> /\ (s8' = s8 \/ Reactions!Begin(k, "feed"))
    BY <1>14, Zenon DEF Reactions!Toggle, Reactions!ClickedInFeed, Reactions!Clicked
  <2>4. CASE s8' = s8
    BY <1>1, <1>2, <2>2, <2>3, <2>4 DEF Reactions!relay, Reactions!screen
  <2>5. CASE Reactions!Begin(k, "feed")
    BY <1>13, <2>2, <2>3, <2>5 DEF Reactions!Query
  <2> QED BY <2>3, <2>4, <2>5
<1>15. ASSUME NEW k \in {"like", "repost"}, Reactions!Press(k) PROVE Reactions!TruthTyped'
  <2>1. UNCHANGED <<Reactions!relay, Reactions!screen, s6, s7, s5>> /\ Reactions!Begin(k, "video")
    BY <1>15, Zenon DEF Reactions!Press, Reactions!Clicked
  <2> QED BY <1>1, <1>13, <2>1 DEF Reactions!Query
<1>16. ASSUME NEW t \in s8, Reactions!Kept(t) PROVE Reactions!TruthTyped'
  <2>1. UNCHANGED <<s3, s4, s5, s6, s7>>
    BY <1>16 DEF Reactions!Kept, Reactions!screen
  <2>2. PICK d : d = IF t.undo THEN t.id ELSE Len(s1) + 1
    OBVIOUS
  <2>3. PICK u : u = [t EXCEPT !.at = "kept", !.id = d]
    OBVIOUS
  <2>4. s8' = (s8 \ {t}) \cup {u}
    BY <1>16, <2>2, <2>3, Zenon DEF Reactions!Kept
  <2>5. d \in Int
    <3>1. t.id \in Int /\ Len(s1) \in Nat
      BY <1>1 DEF Sound
    <3> QED BY <2>2, <3>1
  <2>6. Sound(u)
    <3>1. t = [n |-> t.n, kind |-> t.kind, undo |-> t.undo, page |-> t.page, at |-> t.at, id |-> t.id, before |-> t.before]
      BY <1>1 DEF Sound
    <3>2. PICK n, k, w, p, a, e, b : n = t.n /\ k = t.kind /\ w = t.undo /\ p = t.page /\ a = t.at /\ e = t.id /\ b = t.before
      OBVIOUS
    <3>3. [[n |-> n, kind |-> k, undo |-> w, page |-> p, at |-> a, id |-> e, before |-> b] EXCEPT !.at = "kept"]
          = [n |-> n, kind |-> k, undo |-> w, page |-> p, at |-> "kept", id |-> e, before |-> b]
      OBVIOUS
    <3>4. [[n |-> n, kind |-> k, undo |-> w, page |-> p, at |-> "kept", id |-> e, before |-> b] EXCEPT !.id = d]
          = [n |-> n, kind |-> k, undo |-> w, page |-> p, at |-> "kept", id |-> d, before |-> b]
      OBVIOUS
    <3>5. [t EXCEPT !.at = "kept", !.id = d] = [[t EXCEPT !.at = "kept"] EXCEPT !.id = d]
      BY <3>1
    <3>6. u = [n |-> n, kind |-> k, undo |-> w, page |-> p, at |-> "kept", id |-> d, before |-> b]
      BY <2>3, <3>1, <3>2, <3>3, <3>4, <3>5, Zenon
    <3>7. k \in {"like", "repost"} /\ p \in Reactions!Query /\ b \in {Reactions!Unset} \cup {{i} : i \in Reactions!Answer}
      BY <1>1, <3>2 DEF Sound
    <3> QED BY <2>5, <3>6, <3>7 DEF Sound
  <2>7. s1' \in Seq({"like", "repost"}) /\ s2' \subseteq DOMAIN s1'
    <3>1. CASE t.undo
      BY <1>1, <1>16, <3>1 DEF Reactions!Kept
    <3>2. CASE ~t.undo
      <4>1. s1' = Append(s1, t.kind) /\ s2' = s2 /\ t.kind \in {"like", "repost"}
        BY <1>1, <1>16, <3>2 DEF Reactions!Kept, Sound
      <4> QED BY <1>1, <4>1, LiveAppends
    <3> QED BY <3>1, <3>2
  <2> QED BY <1>1, <1>2, <2>1, <2>4, <2>6, <2>7
<1>17. ASSUME NEW t \in s8, Reactions!Confirm(t) PROVE Reactions!TruthTyped'
  <2>1. UNCHANGED <<s1, s2, s3, s4>> /\ s8' = s8 \ {t}
    BY <1>17 DEF Reactions!Confirm, Reactions!relay, Reactions!screen
  <2>2. CASE t.page = "feed"
    <3>1. s5' = Reactions!Confirmed(t) /\ UNCHANGED <<s6, s7>>
      BY <1>17, <2>2 DEF Reactions!Confirm
    <3>2. s5' \in Caches
      <4>1. PICK m : m = [Reactions!Shown("feed", t.kind) EXCEPT !.id = t.id]
        OBVIOUS
      <4>2. t.kind \in {"like", "repost"} /\ t.id \in Int
        BY <1>1 DEF Sound
      <4>3. Reactions!Shown("feed", t.kind) \in [on : BOOLEAN, id : Int]
        BY <4>2, ShownTyped DEF Reactions!Query
      <4>4. m \in [on : BOOLEAN, id : Int]
        BY <4>1, <4>2, <4>3
      <4>5. s5' = s5 \/ s5' = Reactions!Set("feed", t.kind, m)
        BY <3>1, <4>1, Zenon DEF Reactions!Confirmed
      <4>6. Reactions!Set("feed", t.kind, m) \in Caches
        BY <4>2, <4>4, SetTyped DEF Caches, Reactions!Query
      <4> QED BY <1>1, <4>5, <4>6, Zenon
    <3> QED BY <1>1, <1>2, <2>1, <3>1, <3>2
  <2>3. CASE t.page # "feed"
    <3>1. PICK r : r = [at |-> "events", events |-> {}]
      OBVIOUS
    <3>2. /\ s5' = s5 /\ s6' = [s6 EXCEPT !["feed"] = TRUE]
          /\ s7' = IF s3 = "feed" /\ s4 THEN [s7 EXCEPT !["feed"] = r] ELSE s7
      BY <1>17, <2>3, <3>1, Zenon DEF Reactions!Confirm
    <3>3. s6' \in [Reactions!Query -> BOOLEAN] /\ Whole(r)
      BY <1>1, <3>1, <3>2 DEF Whole
    <3>4. "feed" \in Reactions!Query
      BY DEF Reactions!Query
    <3>5. CASE s3 = "feed" /\ s4
      <4>1. /\ DOMAIN s7' = Reactions!Query
            /\ \A p \in Reactions!Query : Whole(s7'[p]) /\ (s7'[p].at # "idle" => s3' = p /\ s4')
        BY <1>5, <2>1, <3>2, <3>3, <3>4, <3>5
      <4> QED BY <1>1, <1>2, <2>1, <3>2, <3>3, <4>1
    <3>6. CASE ~(s3 = "feed" /\ s4)
      BY <1>1, <1>2, <2>1, <3>2, <3>3, <3>6
    <3> QED BY <3>5, <3>6
  <2> QED BY <2>2, <2>3
<1>18. ASSUME NEW t \in s8, Reactions!PublishFails(t) PROVE Reactions!TruthTyped'
  <2>1. UNCHANGED <<s1, s2, s3, s4, s6, s7>> /\ s8' = s8 \ {t} /\ s5' = Reactions!Rollback(t)
    BY <1>18 DEF Reactions!PublishFails, Reactions!relay, Reactions!screen
  <2>2. Reactions!Rollback(t) \in Caches
    <3>1. t.before \in {Reactions!Unset} \cup {{i} : i \in Reactions!Answer}
      BY <1>1 DEF Sound
    <3> QED BY <1>1, <3>1 DEF Reactions!Rollback, Caches
  <2> QED BY <1>1, <1>2, <2>1, <2>2
<1> QED BY <1>6, <1>7, <1>8, <1>9, <1>10, <1>12, <1>14, <1>15, <1>16, <1>17, <1>18
DEF Reactions!Next

LEMMA TrueNext ==
  ASSUME NEW i, s5'["feed"] = {i}, \A k \in {"like", "repost"} : Reactions!Told(i, k)' PROVE Reactions!True("feed")'
<1>1. \A k : Reactions!Shown("feed", k)' = i[k]
  <2>1. (CHOOSE j \in s5'["feed"] : TRUE) = i
    OBVIOUS
  <2>2. s5'["feed"] # Reactions!Unset
    BY DEF Reactions!Unset
  <2> QED BY <2>1, <2>2, Zenon DEF Reactions!Shown, Reactions!Unset
<1>2. ASSUME NEW k \in {"like", "repost"}
      PROVE  (IF Reactions!Shown("feed", k).on THEN Reactions!Shown("feed", k).id \in Reactions!Live(k) ELSE Reactions!Live(k) = {})'
  <2>1. Reactions!Shown("feed", k)' = i[k] /\ Reactions!Told(i, k)'
    BY <1>1
  <2> QED BY <2>1, Zenon DEF Reactions!Told
<1> QED BY <1>2, Zenon DEF Reactions!True

LEMMA ToldSame ==
  ASSUME UNCHANGED <<s1, s2>>
  PROVE  /\ \A k : Reactions!Live(k)' = Reactions!Live(k)
         /\ \A i, k : Reactions!Told(i, k)' <=> Reactions!Told(i, k)
BY DEF Reactions!Live, Reactions!Told

\* What the feed tells is carried over a step that changes neither its answer nor the relay.
LEMMA TruthCarried ==
  ASSUME Reactions!Truthful, UNCHANGED <<s1, s2>>, s5'["feed"] = s5["feed"],
         s6["feed"] => s6'["feed"],
         ~(s3 = "feed" /\ s4 /\ s7["feed"].at = "idle")
           => ((s6'["feed"] \/ s5["feed"] = Reactions!Unset)
                => ~(s3' = "feed" /\ s4' /\ s7'["feed"].at = "idle"))
  PROVE  Reactions!Truthful'
<1>1. CASE Reactions!True("feed")
  BY <1>1, TruthKept DEF Reactions!Truthful
<1>2. CASE ~Reactions!True("feed")
  <2>1. /\ s5["feed"] = Reactions!Unset \/ s6["feed"]
        /\ ~(s3 = "feed" /\ s4 /\ s7["feed"].at = "idle")
    BY <1>2 DEF Reactions!Truthful
  <2> QED BY <2>1 DEF Reactions!Truthful, Reactions!Unset
<1> QED BY <1>1, <1>2

LEMMA CalmCarried ==
  ASSUME Reactions!CalmTruth, UNCHANGED <<s1, s2, s8>>, s5'["feed"] = s5["feed"],
         Reactions!Truthful => Reactions!Truthful',
         s8 # {} => \A q \in Reactions!Query : s7'[q].at = "idle",
         \A q \in Reactions!Query : s7'[q].at = "deletions" => s7'[q].events = DOMAIN s1
  PROVE  Reactions!CalmTruth'
<1>1. (\A k : Reactions!Live(k)' = Reactions!Live(k)) /\ (\A i, k : Reactions!Told(i, k)' <=> Reactions!Told(i, k))
  BY ToldSame
<1>2. /\ \A t \in s8 : Reactions!FeedSent(t) => Reactions!FeedSent(t)'
      /\ \A t \in s8 : Reactions!FeedKept(t) => Reactions!FeedKept(t)'
      /\ \A t \in s8 : Reactions!VideoSent(t) => Reactions!VideoSent(t)'
  <2> SUFFICES ASSUME NEW t \in s8
               PROVE  (Reactions!FeedSent(t) => Reactions!FeedSent(t)') /\ (Reactions!FeedKept(t) => Reactions!FeedKept(t)') /\ (Reactions!VideoSent(t) => Reactions!VideoSent(t)')
    OBVIOUS
  <2>1. Reactions!Live(t.kind)' = Reactions!Live(t.kind) /\ (\A k \in {"like", "repost"} : Reactions!Live(k)' = Reactions!Live(k)) /\ (\A i, k : Reactions!Told(i, k)' <=> Reactions!Told(i, k))
    BY <1>1
  <2>2. Reactions!FeedSent(t) => Reactions!FeedSent(t)'
    <3>1. ASSUME NEW i \in Reactions!Answer, t.before = {i}, \A k \in {"like", "repost"} : Reactions!Told(i, k),
                 s5["feed"] = {Reactions!With(i, t.kind, IF t.undo THEN Reactions!Off ELSE Reactions!Sending)},
                 IF t.undo THEN t.id \in Reactions!Live(t.kind) ELSE Reactions!Live(t.kind) = {}
          PROVE  Reactions!FeedSent(t)'
      <4>1. /\ t.before = {i} /\ \A k \in {"like", "repost"} : Reactions!Told(i, k)'
            /\ s5'["feed"] = {Reactions!With(i, t.kind, IF t.undo THEN Reactions!Off ELSE Reactions!Sending)}
        BY <2>1, <3>1
      <4>2. IF t.undo THEN t.id \in Reactions!Live(t.kind)' ELSE Reactions!Live(t.kind)' = {}
        BY <2>1, <3>1
      <4> QED BY <4>1, <4>2, Zenon DEF Reactions!FeedSent
    <3> QED BY <3>1, Zenon DEF Reactions!FeedSent
  <2>3. Reactions!FeedKept(t) => Reactions!FeedKept(t)'
    <3>1. ASSUME NEW i \in Reactions!Answer, \A k \in {"like", "repost"} \ {t.kind} : Reactions!Told(i, k),
                 s5["feed"] = {Reactions!With(i, t.kind, IF t.undo THEN Reactions!Off ELSE Reactions!Sending)},
                 Reactions!Live(t.kind) = IF t.undo THEN {} ELSE {t.id}
          PROVE  Reactions!FeedKept(t)'
      <4>1. /\ \A k \in {"like", "repost"} \ {t.kind} : Reactions!Told(i, k)'
            /\ s5'["feed"] = {Reactions!With(i, t.kind, IF t.undo THEN Reactions!Off ELSE Reactions!Sending)}
        BY <2>1, <3>1
      <4>2. Reactions!Live(t.kind)' = IF t.undo THEN {} ELSE {t.id}
        BY <2>1, <3>1
      <4> QED BY <4>1, <4>2, Zenon DEF Reactions!FeedKept
    <3> QED BY <3>1, Zenon DEF Reactions!FeedKept
  <2>4. Reactions!VideoSent(t) => Reactions!VideoSent(t)'
    BY <2>1, Zenon DEF Reactions!VideoSent
  <2> QED BY <2>2, <2>3, <2>4
<1>3. /\ s8' = s8 /\ \A t, u \in s8 : t = u
      /\ s8 # {} => \A q \in Reactions!Query : s7[q].at = "idle"
      /\ \A k \in {"like", "repost"} : \A m, n \in Reactions!Live(k) : m = n
      /\ s8 = {} => Reactions!Truthful
      /\ \A t \in s8 :
           /\ t.page = "feed" /\ t.at = "sent" => Reactions!FeedSent(t)
           /\ t.page = "feed" /\ t.at = "kept" => Reactions!FeedKept(t)
           /\ t.page = "video" /\ t.at = "sent" => Reactions!Truthful /\ Reactions!VideoSent(t)
  BY DEF Reactions!CalmTruth
<1>4. \A k \in {"like", "repost"} : \A m, n \in Reactions!Live(k)' : m = n
  BY <1>1, <1>3
<1>5. \A t \in s8' :
        /\ t.page = "feed" /\ t.at = "sent" => Reactions!FeedSent(t)'
        /\ t.page = "feed" /\ t.at = "kept" => Reactions!FeedKept(t)'
        /\ t.page = "video" /\ t.at = "sent" => Reactions!Truthful' /\ Reactions!VideoSent(t)'
  BY <1>2, <1>3
<1>6. s8' = {} => Reactions!Truthful'
  BY <1>3
<1>7. /\ \A t, u \in s8' : t = u
      /\ s8' # {} => \A q \in Reactions!Query : s7'[q].at = "idle"
      /\ \A q \in Reactions!Query : s7'[q].at = "deletions" => s7'[q].events = DOMAIN s1'
  BY <1>3
<1> QED BY <1>4, <1>5, <1>6, <1>7 DEF Reactions!CalmTruth

\* With nothing under way, only the feed's answer has to be true.
LEMMA CalmAtRest ==
  ASSUME s8' = {}, Reactions!Truthful', \A k \in {"like", "repost"} : \A m, n \in Reactions!Live(k)' : m = n,
         \A q \in Reactions!Query : s7'[q].at = "deletions" => s7'[q].events = DOMAIN s1'
  PROVE  Reactions!CalmTruth'
BY DEF Reactions!CalmTruth

\* With one publication under way, and no read.
LEMMA CalmAtWork ==
  ASSUME NEW u, s8' = {u}, \A q \in Reactions!Query : s7'[q].at = "idle",
         \A k \in {"like", "repost"} : \A m, n \in Reactions!Live(k)' : m = n,
         u.page = "feed" /\ u.at = "sent" => Reactions!FeedSent(u)',
         u.page = "feed" /\ u.at = "kept" => Reactions!FeedKept(u)',
         u.page = "video" /\ u.at = "sent" => Reactions!Truthful' /\ Reactions!VideoSent(u)'
  PROVE  Reactions!CalmTruth'
BY DEF Reactions!CalmTruth

\* Clicks made on the truth, one at a time, lead to the truth.
LEMMA CalmStep ==
  ASSUME Reactions!TruthTyped, Reactions!TruthTyped', Reactions!CalmTruth, [Reactions!Next]_(Reactions!vars), s10, s10'
  PROVE  Reactions!CalmTruth'
<1>1. /\ "feed" \in Reactions!Query /\ "video" \in Reactions!Query
      /\ s1 \in Seq({"like", "repost"}) /\ s2 \subseteq DOMAIN s1
      /\ \A q \in Reactions!Query : s5[q] = Reactions!Unset \/ \E i \in Reactions!Answer : s5[q] = {i}
      /\ s5 \in [Reactions!Query -> {Reactions!Unset} \cup {{i} : i \in Reactions!Answer}] /\ s6 \in [Reactions!Query -> BOOLEAN]
      /\ DOMAIN s7 = Reactions!Query
      /\ \A q \in Reactions!Query : s7[q].at # "idle" => s3 = q /\ s4
  BY DEF Reactions!TruthTyped, Reactions!Query
<1>2. /\ \A t, u \in s8 : t = u
      /\ s8 # {} => \A q \in Reactions!Query : s7[q].at = "idle"
      /\ \A q \in Reactions!Query : s7[q].at = "deletions" => s7[q].events = DOMAIN s1
      /\ \A k \in {"like", "repost"} : \A m, n \in Reactions!Live(k) : m = n
      /\ s8 = {} => Reactions!Truthful
      /\ \A t \in s8 :
           /\ t.page = "feed" /\ t.at = "sent" => Reactions!FeedSent(t)
           /\ t.page = "feed" /\ t.at = "kept" => Reactions!FeedKept(t)
           /\ t.page = "video" /\ t.at = "sent" => Reactions!Truthful /\ Reactions!VideoSent(t)
  BY DEF Reactions!CalmTruth
<1>3. Reactions!Idle.at = "idle"
  BY DEF Reactions!Idle
<1>4. CASE UNCHANGED Reactions!vars
  <2>1. UNCHANGED <<s1, s2, s3, s4, s5, s6, s7, s8>>
    BY <1>4 DEF Reactions!vars
  <2>2. Reactions!Truthful => Reactions!Truthful'
    BY <2>1, TruthCarried
  <2> QED BY <1>2, <2>1, <2>2, CalmCarried
<1>5. ASSUME NEW p, Reactions!Open(p) PROVE Reactions!CalmTruth'
  <2>1. /\ s4' = FALSE /\ s7' = [q \in Reactions!Query |-> Reactions!Idle]
        /\ UNCHANGED <<s1, s2, s5, s6, s8>>
    BY <1>5 DEF Reactions!Open, Reactions!relay
  <2>2. Reactions!Truthful => Reactions!Truthful'
    BY <2>1, TruthCarried
  <2>3. \A q \in Reactions!Query : s7'[q].at = "idle"
    BY <1>3, <2>1
  <2> QED BY <2>1, <2>2, <2>3, CalmCarried
<1>6. CASE Reactions!Load
  <2>1. /\ s3 \in Reactions!Query /\ s4' = TRUE /\ UNCHANGED <<s1, s2, s3, s5, s6, s8>>
    BY <1>6 DEF Reactions!Load, Reactions!relay
  <2>2. CASE s5[s3] = Reactions!Unset \/ s6[s3]
    <3>1. s7' = [s7 EXCEPT ![s3].at = "events"] /\ s8 = {}
      BY <1>6, <2>2 DEF Reactions!Load
    <3>2. \A q \in Reactions!Query : s7'[q].at = IF q = s3 THEN "events" ELSE s7[q].at
      <4> TAKE q \in Reactions!Query
      <4>1. CASE q # s3
        BY <1>1, <2>1, <3>1, <4>1
      <4>2. CASE q = s3
        <5>1. s7[s3] = [at |-> s7[s3].at, events |-> s7[s3].events]
          BY <2>1 DEF Reactions!TruthTyped
        <5>2. s7'[s3] = [s7[s3] EXCEPT !.at = "events"]
          BY <1>1, <2>1, <3>1
        <5> QED BY <4>2, <5>1, <5>2
      <4> QED BY <4>1, <4>2
    <3>3. \A q \in Reactions!Query : q # s3 => s7'[q] = s7[q]
      BY <1>1, <2>1, <3>1
    <3>4. ~(s3 = "feed" /\ s4' /\ s7'["feed"].at = "idle") \/ s3 = "video"
      BY <1>1, <2>1, <3>2
    <3>5. Reactions!Truthful => Reactions!Truthful'
      <4>1. ~(s3' = "feed" /\ s4' /\ s7'["feed"].at = "idle")
        BY <1>1, <2>1, <3>4
      <4> QED BY <2>1, <4>1, TruthCarried
    <3>6. \A q \in Reactions!Query : s7'[q].at = "deletions" => s7'[q].events = DOMAIN s1
      BY <1>2, <3>2, <3>3
    <3> QED BY <2>1, <3>1, <3>5, <3>6, CalmCarried
  <2>3. CASE ~(s5[s3] = Reactions!Unset \/ s6[s3])
    <3>1. s7' = s7
      BY <1>6, <2>3 DEF Reactions!Load
    <3>2. Reactions!Truthful => Reactions!Truthful'
      <4>1. (s6'["feed"] \/ s5["feed"] = Reactions!Unset) => ~(s3' = "feed" /\ s4' /\ s7'["feed"].at = "idle")
        BY <2>1, <2>3
      <4> QED BY <2>1, <4>1, TruthCarried
    <3> QED BY <1>2, <2>1, <3>1, <3>2, CalmCarried
  <2> QED BY <2>2, <2>3
<1>7. ASSUME NEW q \in Reactions!Query, Reactions!Age(q) PROVE Reactions!CalmTruth'
  <2>1. s6' = [s6 EXCEPT ![q] = TRUE] /\ UNCHANGED <<s1, s2, s3, s4, s5, s7, s8>>
    BY <1>7 DEF Reactions!Age, Reactions!relay, Reactions!screen
  <2>2. s5[q] # Reactions!Unset /\ ~s6[q]
    BY <1>7 DEF Reactions!Age
  <2>3. s6["feed"] => s6'["feed"]
    BY <1>1, <2>1, <2>2
  <2>4. ~(s3 = "feed" /\ s4 /\ s7["feed"].at = "idle") => ~(s3' = "feed" /\ s4' /\ s7'["feed"].at = "idle")
    BY <2>1
  <2>5. Reactions!Truthful => Reactions!Truthful'
    BY <2>1, <2>3, <2>4, TruthCarried
  <2> QED BY <1>2, <2>1, <2>5, CalmCarried
<1>8. ASSUME NEW q \in Reactions!Query, Reactions!FindEvents(q) PROVE Reactions!CalmTruth'
  <2>1. PICK r : r = [at |-> "deletions", events |-> DOMAIN s1]
    OBVIOUS
  <2>2. /\ s7[q].at = "events" /\ s7' = [s7 EXCEPT ![q] = r]
        /\ UNCHANGED <<s1, s2, s3, s4, s5, s6, s8>>
    BY <1>8, <2>1 DEF Reactions!FindEvents, Reactions!relay, Reactions!screen
  <2>3. s8 = {} /\ r.at = "deletions" /\ r.events = DOMAIN s1
    BY <1>2, <2>1, <2>2
  <2>4. \A p \in Reactions!Query : s7'[p] = IF p = q THEN r ELSE s7[p]
    BY <1>1, <2>2
  <2>5. ~(s3 = "feed" /\ s4 /\ s7["feed"].at = "idle") => ~(s3' = "feed" /\ s4' /\ s7'["feed"].at = "idle")
    BY <1>1, <2>2, <2>3, <2>4
  <2>6. Reactions!Truthful => Reactions!Truthful'
    BY <2>2, <2>5, TruthCarried
  <2>7. \A p \in Reactions!Query : s7'[p].at = "deletions" => s7'[p].events = DOMAIN s1
    BY <1>2, <2>3, <2>4
  <2> QED BY <2>2, <2>3, <2>6, <2>7, CalmCarried
<1>9. ASSUME NEW q \in Reactions!Query, Reactions!FindDeletions(q) PROVE Reactions!CalmTruth'
  <2>1. PICK i \in [{"like", "repost"} -> Reactions!Mark] :
          /\ \A k \in {"like", "repost"} :
               IF {n \in Reactions!Left(s7[q].events) : s1[n] = k} = {} THEN i[k] = Reactions!Off
               ELSE i[k].on /\ i[k].id \in {n \in Reactions!Left(s7[q].events) : s1[n] = k}
          /\ Reactions!Answered(q, i)
    BY <1>9, Zenon DEF Reactions!FindDeletions
  <2>2. /\ s7[q].at = "deletions" /\ UNCHANGED <<s1, s2, s3, s4, s8>>
    BY <1>9 DEF Reactions!FindDeletions, Reactions!relay, Reactions!screen
  <2>3. /\ s5' = [s5 EXCEPT ![q] = {i}] /\ s6' = [s6 EXCEPT ![q] = FALSE]
        /\ s7' = [s7 EXCEPT ![q] = Reactions!Idle]
    BY <2>1 DEF Reactions!Answered
  <2>4. s8 = {} /\ s8' = {} /\ s7[q].events = DOMAIN s1
    BY <1>2, <2>2
  <2>5. \A p \in Reactions!Query : s7'[p] = IF p = q THEN Reactions!Idle ELSE s7[p]
    BY <1>1, <2>3
  <2>6. \A k \in {"like", "repost"} : {n \in Reactions!Left(s7[q].events) : s1[n] = k} = Reactions!Live(k)
    BY <2>4 DEF Reactions!Left, Reactions!Live
  <2>7. Reactions!Truthful'
    <3>1. CASE q = "feed"
      <4>1. s5'["feed"] = {i}
        BY <1>1, <2>3, <3>1
      <4>2. ASSUME NEW k \in {"like", "repost"} PROVE Reactions!Told(i, k)'
        <5>1. IF Reactions!Live(k) = {} THEN i[k] = Reactions!Off ELSE i[k].on /\ i[k].id \in Reactions!Live(k)
          BY <2>1, <2>6, Zenon
        <5>2. Reactions!Live(k)' = Reactions!Live(k)
          BY <2>2, ToldSame
        <5>3. Reactions!Live(k) = {} => ~i[k].on
          BY <5>1, MarksAre
        <5> QED BY <5>1, <5>2, <5>3 DEF Reactions!Told
      <4> QED BY <4>1, <4>2, TrueNext DEF Reactions!Truthful
    <3>2. CASE q # "feed"
      <4>1. s5'["feed"] = s5["feed"] /\ s6'["feed"] = s6["feed"] /\ s7'["feed"] = s7["feed"]
        BY <1>1, <2>3, <3>2
      <4> QED BY <1>2, <2>2, <2>4, <4>1, TruthCarried
    <3> QED BY <3>1, <3>2
  <2>8. \A k \in {"like", "repost"} : \A m, n \in Reactions!Live(k)' : m = n
    BY <1>2, <2>2, ToldSame
  <2>9. \A p \in Reactions!Query : s7'[p].at = "deletions" => s7'[p].events = DOMAIN s1'
    BY <1>2, <1>3, <2>2, <2>5
  <2> QED BY <2>4, <2>7, <2>8, <2>9, CalmAtRest
<1>10. ASSUME NEW q \in Reactions!Query, Reactions!ReadFails(q) PROVE Reactions!CalmTruth'
  BY <1>10 DEF Reactions!ReadFails
<1>11. ASSUME NEW k \in {"like", "repost"}, Reactions!Toggle(k) PROVE Reactions!CalmTruth'
  <2>1. /\ s3 = "feed" /\ UNCHANGED <<s1, s2, s7>> /\ Reactions!Informed("feed")
    BY <1>11, Zenon DEF Reactions!Toggle, Reactions!ClickedInFeed, Reactions!Clicked,
                        Reactions!relay
  <2>2. s8 = {} /\ s7["feed"].at = "idle" /\ s5["feed"] # Reactions!Unset /\ Reactions!True("feed")
    BY <2>1 DEF Reactions!Informed
  <2>3. PICK i \in Reactions!Answer : s5["feed"] = {i}
    BY <1>1, <2>2
  <2>4. \A j \in {"like", "repost"} : Reactions!Told(i, j)
    BY <2>2, <2>3, TrueIs
  <2>5. Reactions!Shown("feed", k) = i[k]
    BY <2>3, ShownIs
  <2>6. i[k].on => i[k].id \in Reactions!Live(k)
    BY <2>4 DEF Reactions!Told
  <2>7. ~i[k].on => Reactions!Live(k) = {}
    BY <2>4 DEF Reactions!Told
  <2>8. i[k].on => i[k].id # Reactions!None
    BY <1>1, <2>6 DEF Reactions!Live, Reactions!None
  <2>9. Reactions!Begin(k, "feed")
    BY <1>11, <2>5, <2>8, Zenon DEF Reactions!Toggle
  <2>10. PICK w, d, b, n : /\ w = i[k].on /\ d = (IF i[k].on THEN i[k].id ELSE Reactions!Pending)
                           /\ b = s5["feed"] /\ n = s9 + 1
    OBVIOUS
  <2>11. PICK u : u = [n |-> n, kind |-> k, undo |-> w, page |-> "feed", at |-> "sent", id |-> d, before |-> b]
    OBVIOUS
  <2>12. s8' = s8 \cup {u}
    BY <2>5, <2>9, <2>10, <2>11 DEF Reactions!Begin
  <2>13. u.kind = k /\ u.undo = w /\ u.page = "feed" /\ u.at = "sent" /\ u.id = d /\ u.before = b
    BY <2>11
  <2>14. s5' = [s5 EXCEPT !["feed"] = {Reactions!With(i, k, IF u.undo THEN Reactions!Off ELSE Reactions!Sending)}]
    <3>1. s5' = Reactions!Set("feed", k, IF i[k].on THEN Reactions!Off ELSE Reactions!Sending)
      BY <1>11, <2>5, Zenon DEF Reactions!Toggle, Reactions!Sending
    <3>2. u.undo <=> i[k].on
      BY <2>10, <2>13, Zenon
    <3>3. PICK m : m = IF i[k].on THEN Reactions!Off ELSE Reactions!Sending
      OBVIOUS
    <3>4. m = IF u.undo THEN Reactions!Off ELSE Reactions!Sending
      BY <3>2, <3>3, Zenon
    <3>5. Reactions!Set("feed", k, m) = [s5 EXCEPT !["feed"] = {Reactions!With(i, k, m)}]
      BY <2>3, SetIs
    <3> QED BY <3>1, <3>3, <3>4, <3>5, Zenon
  <2>15. Reactions!FeedSent(u)'
    <3>1. s5'["feed"] = {Reactions!With(i, u.kind, IF u.undo THEN Reactions!Off ELSE Reactions!Sending)}
      BY <1>1, <2>13, <2>14
    <3>2. \A j \in {"like", "repost"} : Reactions!Told(i, j)'
      BY <2>1, <2>4, ToldSame
    <3>3. IF u.undo THEN u.id \in Reactions!Live(u.kind)' ELSE Reactions!Live(u.kind)' = {}
      <4>1. Reactions!Live(k)' = Reactions!Live(k)
        BY <2>1, ToldSame
      <4>2. CASE i[k].on
        BY <2>6, <2>10, <2>13, <4>1, <4>2, Zenon
      <4>3. CASE ~i[k].on
        BY <2>7, <2>10, <2>13, <4>1, <4>3, Zenon
      <4> QED BY <4>2, <4>3
    <3>4. u.before = {i}
      BY <2>3, <2>10, <2>13
    <3> QED BY <3>1, <3>2, <3>3, <3>4, Zenon DEF Reactions!FeedSent
  <2>16. \A q \in Reactions!Query : s7'[q].at = "idle"
    BY <1>1, <2>1, <2>2
  <2>17. \A j \in {"like", "repost"} : \A m, o \in Reactions!Live(j)' : m = o
    BY <1>2, <2>1, ToldSame
  <2>18. s8' = {u}
    BY <2>2, <2>12
  <2> QED BY <2>13, <2>15, <2>16, <2>17, <2>18, CalmAtWork
<1>12. ASSUME NEW k \in {"like", "repost"}, Reactions!Press(k) PROVE Reactions!CalmTruth'
  <2>1. /\ s3 = "video" /\ UNCHANGED <<s1, s2, s3, s4, s5, s6, s7>> /\ Reactions!Informed("video")
    BY <1>12, Zenon DEF Reactions!Press, Reactions!Clicked, Reactions!relay, Reactions!screen
  <2>2. s8 = {} /\ s7["video"].at = "idle" /\ s5["video"] # Reactions!Unset /\ Reactions!True("video")
    BY <2>1 DEF Reactions!Informed
  <2>3. PICK i \in Reactions!Answer : s5["video"] = {i}
    BY <1>1, <2>2
  <2>4. \A j \in {"like", "repost"} : Reactions!Told(i, j)
    BY <2>2, <2>3, TrueIs
  <2>5. Reactions!Shown("video", k) = i[k]
    BY <2>3, ShownIs
  <2>6. i[k].on => i[k].id \in Reactions!Live(k)
    BY <2>4 DEF Reactions!Told
  <2>7. ~i[k].on => Reactions!Live(k) = {}
    BY <2>4 DEF Reactions!Told
  <2>8. Reactions!Begin(k, "video")
    BY <1>12 DEF Reactions!Press
  <2>9. PICK w, d, b, n : /\ w = i[k].on /\ d = (IF i[k].on THEN i[k].id ELSE Reactions!Pending)
                          /\ b = s5["video"] /\ n = s9 + 1
    OBVIOUS
  <2>10. PICK u : u = [n |-> n, kind |-> k, undo |-> w, page |-> "video", at |-> "sent", id |-> d, before |-> b]
    OBVIOUS
  <2>11. s8' = s8 \cup {u}
    BY <2>5, <2>8, <2>9, <2>10 DEF Reactions!Begin
  <2>12. u.kind = k /\ u.undo = w /\ u.page = "video" /\ u.at = "sent" /\ u.id = d
    BY <2>10
  <2>13. Reactions!VideoSent(u)'
    <3>1. IF u.undo THEN u.id \in Reactions!Live(u.kind)' ELSE Reactions!Live(u.kind)' = {}
      <4>1. Reactions!Live(k)' = Reactions!Live(k)
        BY <2>1, ToldSame
      <4>2. CASE i[k].on
        BY <2>6, <2>9, <2>12, <4>1, <4>2, Zenon
      <4>3. CASE ~i[k].on
        BY <2>7, <2>9, <2>12, <4>1, <4>3, Zenon
      <4> QED BY <4>2, <4>3
    <3> QED BY <3>1, Zenon DEF Reactions!VideoSent
  <2>14. Reactions!Truthful'
    BY <1>2, <2>1, <2>2, TruthCarried
  <2>15. \A q \in Reactions!Query : s7'[q].at = "idle"
    BY <1>1, <2>1, <2>2 DEF Reactions!Query
  <2>16. \A j \in {"like", "repost"} : \A m, o \in Reactions!Live(j)' : m = o
    BY <1>2, <2>1, ToldSame
  <2>17. s8' = {u}
    BY <2>2, <2>11
  <2> QED BY <2>12, <2>13, <2>14, <2>15, <2>16, <2>17, CalmAtWork
<1>13. ASSUME NEW t \in s8, Reactions!Kept(t) PROVE Reactions!CalmTruth'
  <2>1. t.at = "sent" /\ UNCHANGED <<s3, s4, s5, s6, s7>> /\ s8 = {t}
    BY <1>2, <1>13 DEF Reactions!Kept, Reactions!screen
  <2>2. /\ t = [n |-> t.n, kind |-> t.kind, undo |-> t.undo, page |-> t.page, at |-> t.at, id |-> t.id, before |-> t.before]
        /\ t.kind \in {"like", "repost"} /\ t.page \in Reactions!Query
    BY DEF Reactions!TruthTyped
  <2>3. PICK d : d = IF t.undo THEN t.id ELSE Len(s1) + 1
    OBVIOUS
  <2>4. PICK u : u = [t EXCEPT !.at = "kept", !.id = d]
    OBVIOUS
  <2>5. s8' = (s8 \ {t}) \cup {u}
    BY <1>13, <2>3, <2>4, Zenon DEF Reactions!Kept
  <2>6. u.kind = t.kind /\ u.undo = t.undo /\ u.page = t.page /\ u.at = "kept" /\ u.id = d
    <3>1. PICK n, k, w, p, a, e, b : n = t.n /\ k = t.kind /\ w = t.undo /\ p = t.page /\ a = t.at /\ e = t.id /\ b = t.before
      OBVIOUS
    <3>2. [[n |-> n, kind |-> k, undo |-> w, page |-> p, at |-> a, id |-> e, before |-> b] EXCEPT !.at = "kept"]
          = [n |-> n, kind |-> k, undo |-> w, page |-> p, at |-> "kept", id |-> e, before |-> b]
      OBVIOUS
    <3>3. [[n |-> n, kind |-> k, undo |-> w, page |-> p, at |-> "kept", id |-> e, before |-> b] EXCEPT !.id = d]
          = [n |-> n, kind |-> k, undo |-> w, page |-> p, at |-> "kept", id |-> d, before |-> b]
      OBVIOUS
    <3>4. [t EXCEPT !.at = "kept", !.id = d] = [[t EXCEPT !.at = "kept"] EXCEPT !.id = d]
      BY <2>2
    <3>5. u = [n |-> n, kind |-> k, undo |-> w, page |-> p, at |-> "kept", id |-> d, before |-> b]
      BY <2>2, <2>4, <3>1, <3>2, <3>3, <3>4, Zenon
    <3>6. u.kind = k /\ u.undo = w /\ u.page = p /\ u.at = "kept" /\ u.id = d
      BY <3>5
    <3> QED BY <3>1, <3>6, Zenon
  <2>7. /\ \A k \in {"like", "repost"} \ {t.kind} : Reactions!Live(k)' = Reactions!Live(k)
        /\ IF t.undo THEN Reactions!Live(t.kind)' = Reactions!Live(t.kind) \ {d} ELSE Reactions!Live(t.kind)' = Reactions!Live(t.kind) \cup {d}
        /\ t.undo => d \in Reactions!Live(t.kind)
        /\ ~t.undo => Reactions!Live(t.kind) = {}
    <3>1. IF t.undo THEN t.id \in Reactions!Live(t.kind) ELSE Reactions!Live(t.kind) = {}
      BY <1>2, <2>1, <2>2, Zenon DEF Reactions!FeedSent, Reactions!VideoSent, Reactions!Query
    <3>2. CASE t.undo
      <4>1. s1' = s1 /\ s2' = s2 \cup ({t.id} \cap DOMAIN s1) /\ d = t.id
        BY <1>13, <2>3, <3>2 DEF Reactions!Kept
      <4>2. \A k : Reactions!Live(k)' = Reactions!Live(k) \ {d}
        BY <4>1, LiveDeletes
      <4>3. d \in Reactions!Live(t.kind)
        BY <3>1, <3>2, <4>1
      <4>4. \A k \in {"like", "repost"} \ {t.kind} : d \notin Reactions!Live(k)
        BY <4>3 DEF Reactions!Live
      <4> QED BY <3>2, <4>2, <4>3, <4>4
    <3>3. CASE ~t.undo
      <4>1. s1' = Append(s1, t.kind) /\ s2' = s2 /\ d = Len(s1) + 1
        BY <1>13, <2>3, <3>3 DEF Reactions!Kept
      <4>2. /\ Reactions!Live(t.kind)' = Reactions!Live(t.kind) \cup {d}
            /\ \A k \in {"like", "repost"} \ {t.kind} : Reactions!Live(k)' = Reactions!Live(k)
        BY <1>1, <2>2, <4>1, LiveAppends
      <4> QED BY <3>1, <3>3, <4>2
    <3> QED BY <3>2, <3>3
  <2>8. Reactions!Live(t.kind)' = IF t.undo THEN {} ELSE {d}
    BY <1>2, <2>2, <2>7
  <2>9. \A k \in {"like", "repost"} : \A m, n \in Reactions!Live(k)' : m = n
    <3> TAKE k \in {"like", "repost"}
    <3>1. CASE k = t.kind
      BY <2>8, <3>1
    <3>2. CASE k # t.kind
      BY <1>2, <2>7, <3>2
    <3> QED BY <3>1, <3>2
  <2>10. \A q \in Reactions!Query : s7'[q].at = "idle"
    BY <1>2, <2>1
  <2>11. u.page = "feed" => Reactions!FeedKept(u)'
    <3>1. SUFFICES ASSUME u.page = "feed" PROVE Reactions!FeedKept(u)'
      OBVIOUS
    <3>2. Reactions!FeedSent(t)
      BY <1>2, <2>1, <2>6, <3>1
    <3>3. PICK i \in Reactions!Answer :
            /\ \A k \in {"like", "repost"} : Reactions!Told(i, k)
            /\ s5["feed"] = {Reactions!With(i, t.kind, IF t.undo THEN Reactions!Off ELSE Reactions!Sending)}
      BY <3>2, Zenon DEF Reactions!FeedSent
    <3>4. s5'["feed"] = {Reactions!With(i, u.kind, IF u.undo THEN Reactions!Off ELSE Reactions!Sending)}
      BY <2>1, <2>6, <3>3
    <3>5. \A k \in {"like", "repost"} \ {u.kind} : Reactions!Told(i, k)'
      BY <2>6, <2>7, <3>3, Zenon DEF Reactions!Told
    <3>6. Reactions!Live(u.kind)' = IF u.undo THEN {} ELSE {u.id}
      BY <2>6, <2>8, Zenon
    <3> QED BY <3>4, <3>5, <3>6, Zenon DEF Reactions!FeedKept
  <2>12. s8' = {u}
    BY <2>1, <2>5
  <2> QED BY <2>6, <2>9, <2>10, <2>11, <2>12, CalmAtWork
<1>14. ASSUME NEW t \in s8, Reactions!Confirm(t) PROVE Reactions!CalmTruth'
  <2>1. t.at = "kept" /\ UNCHANGED <<s1, s2, s3, s4>> /\ s8' = {}
    BY <1>2, <1>14 DEF Reactions!Confirm, Reactions!relay, Reactions!screen
  <2>2. \A q \in Reactions!Query : s7[q].at = "idle"
    BY <1>2
  <2>3. t.kind \in {"like", "repost"} /\ t.page \in Reactions!Query /\ t.id \in Int
    BY DEF Reactions!TruthTyped
  <2>4. (\A k : Reactions!Live(k)' = Reactions!Live(k)) /\ (\A i, k : Reactions!Told(i, k)' <=> Reactions!Told(i, k))
    BY <2>1, ToldSame
  <2>5. \A k \in {"like", "repost"} : \A m, n \in Reactions!Live(k)' : m = n
    BY <1>2, <2>4
  <2>6. CASE t.page = "feed"
    <3>1. s5' = Reactions!Confirmed(t) /\ UNCHANGED <<s6, s7>>
      BY <1>14, <2>6 DEF Reactions!Confirm
    <3>2. PICK i \in Reactions!Answer :
            /\ s5["feed"] = {Reactions!With(i, t.kind, IF t.undo THEN Reactions!Off ELSE Reactions!Sending)}
            /\ \A k \in {"like", "repost"} \ {t.kind} : Reactions!Told(i, k)
            /\ Reactions!Live(t.kind) = IF t.undo THEN {} ELSE {t.id}
      BY <1>2, <2>1, <2>6, Zenon DEF Reactions!FeedKept
    <3>3. Reactions!True("feed")'
      <4>1. CASE t.undo
        <5>1. s5'["feed"] = {Reactions!With(i, t.kind, Reactions!Off)} /\ Reactions!Live(t.kind) = {}
          BY <3>1, <3>2, <4>1, Zenon DEF Reactions!Confirmed
        <5>2. \A k \in {"like", "repost"} : Reactions!Told(Reactions!With(i, t.kind, Reactions!Off), k)
          BY <2>3, <3>2, <5>1, MarksAre, ToldWith
        <5> QED BY <2>4, <5>1, <5>2, TrueNext
      <4>2. CASE ~t.undo
        <5>1. PICK j : j = Reactions!With(i, t.kind, Reactions!Sending)
          OBVIOUS
        <5>2. s5["feed"] = {j} /\ Reactions!Live(t.kind) = {t.id}
          BY <3>2, <4>2, <5>1, Zenon
        <5>3. j \in Reactions!Answer /\ j[t.kind] = Reactions!Sending /\ \A k \in {"like", "repost"} \ {t.kind} : j[k] = i[k]
          <6>1. PICK e : e = Reactions!Sending /\ e \in [on : BOOLEAN, id : Int]
            BY MarksAre
          <6>2. PICK k : k = t.kind /\ k \in {"like", "repost"}
            BY <2>3
          <6>3. Reactions!With(i, k, e) \in Reactions!Answer /\ Reactions!With(i, k, e)[k] = e /\ \A o \in {"like", "repost"} \ {k} : Reactions!With(i, k, e)[o] = i[o]
            BY <6>1, <6>2, WithIs
          <6>4. j = Reactions!With(i, k, e)
            BY <5>1, <6>1, <6>2, Zenon
          <6>5. j \in Reactions!Answer /\ j[k] = e /\ \A o \in {"like", "repost"} \ {k} : j[o] = i[o]
            BY <6>3, <6>4, Zenon
          <6> QED BY <6>1, <6>2, <6>5, Zenon
        <5>4. PICK m : m = [Reactions!Sending EXCEPT !.id = t.id]
          OBVIOUS
        <5>5. m \in [on : BOOLEAN, id : Int] /\ m.on /\ m.id = t.id
          <6>1. PICK e, f : e = TRUE /\ f = Reactions!Pending
            OBVIOUS
          <6>2. Reactions!Sending = [on |-> e, id |-> f]
            BY <6>1, Zenon DEF Reactions!Sending
          <6>3. [[on |-> e, id |-> f] EXCEPT !.id = t.id] = [on |-> e, id |-> t.id]
            OBVIOUS
          <6>4. m = [on |-> e, id |-> t.id]
            BY <5>4, <6>2, <6>3, Zenon
          <6>5. e \in BOOLEAN /\ t.id \in Int
            BY <2>3, <6>1
          <6>6. m \in [on : BOOLEAN, id : Int] /\ m.on = e /\ m.id = t.id
            BY <6>4, <6>5
          <6> QED BY <6>1, <6>6, Zenon
        <5>6. Reactions!Shown("feed", t.kind) = Reactions!Sending
          <6>1. s5["feed"] = {j}
            BY <5>2
          <6>2. \A k : Reactions!Shown("feed", k) = j[k]
            BY <6>1, ShownIs
          <6> QED BY <5>3, <6>2, Zenon
        <5>7. s5' = Reactions!Set("feed", t.kind, m)
          BY <3>1, <4>2, <5>4, <5>6, Zenon DEF Reactions!Confirmed
        <5>8. s5'["feed"] = {Reactions!With(j, t.kind, m)}
          <6>1. PICK q, k : q = "feed" /\ k = t.kind
            OBVIOUS
          <6>2. q \in Reactions!Query /\ DOMAIN s5 = Reactions!Query
            BY <1>1, <6>1 DEF Reactions!Query
          <6>3. s5[q] = {j} /\ s5' = Reactions!Set(q, k, m)
            BY <5>2, <5>7, <6>1, Zenon
          <6>4. s5'[q] = {Reactions!With(j, k, m)}
            BY <6>2, <6>3, SetThen
          <6> QED BY <6>1, <6>4, Zenon
        <5>9. \A k \in {"like", "repost"} \ {t.kind} : Reactions!Told(j, k)
          BY <3>2, <5>3, Zenon DEF Reactions!Told
        <5>10. \A k \in {"like", "repost"} : Reactions!Told(Reactions!With(j, t.kind, m), k)
          BY <2>3, <5>2, <5>3, <5>5, <5>9, ToldWith
        <5> QED BY <2>4, <5>8, <5>10, TrueNext
      <4> QED BY <4>1, <4>2
    <3> QED BY <2>1, <2>2, <2>5, <3>1, <3>3, CalmAtRest DEF Reactions!Truthful
  <2>7. CASE t.page # "feed"
    <3>1. PICK r : r = [at |-> "events", events |-> {}]
      OBVIOUS
    <3>2. /\ s5' = s5 /\ s6' = [s6 EXCEPT !["feed"] = TRUE]
          /\ s7' = IF s3 = "feed" /\ s4 THEN [s7 EXCEPT !["feed"] = r] ELSE s7
      BY <1>14, <2>7, <3>1, Zenon DEF Reactions!Confirm
    <3>3. r.at = "events" /\ s6'["feed"]
      BY <1>1, <3>1, <3>2
    <3>4. ~(s3' = "feed" /\ s4' /\ s7'["feed"].at = "idle")
      BY <1>1, <2>1, <3>2, <3>3
    <3>5. Reactions!Truthful'
      BY <3>3, <3>4 DEF Reactions!Truthful
    <3>6. \A q \in Reactions!Query : s7'[q].at # "deletions"
      BY <1>1, <2>2, <3>2, <3>3
    <3> QED BY <2>1, <2>5, <3>5, <3>6, CalmAtRest
  <2> QED BY <2>6, <2>7
<1>15. ASSUME NEW t \in s8, Reactions!PublishFails(t) PROVE Reactions!CalmTruth'
  <2>1. t.at = "sent" /\ UNCHANGED <<s1, s2, s3, s4, s6, s7>> /\ s8' = {} /\ s5' = Reactions!Rollback(t)
    BY <1>2, <1>15 DEF Reactions!PublishFails, Reactions!relay, Reactions!screen
  <2>2. \A q \in Reactions!Query : s7[q].at = "idle"
    BY <1>2
  <2>3. t.page \in Reactions!Query
    BY DEF Reactions!TruthTyped
  <2>4. (\A k : Reactions!Live(k)' = Reactions!Live(k)) /\ (\A i, k : Reactions!Told(i, k)' <=> Reactions!Told(i, k))
    BY <2>1, ToldSame
  <2>5. \A k \in {"like", "repost"} : \A m, n \in Reactions!Live(k)' : m = n
    BY <1>2, <2>4
  <2>6. CASE t.page = "feed"
    <3>1. PICK i \in Reactions!Answer : t.before = {i} /\ \A k \in {"like", "repost"} : Reactions!Told(i, k)
      BY <1>2, <2>1, <2>6, Zenon DEF Reactions!FeedSent
    <3>2. t.before # Reactions!Unset
      BY <3>1 DEF Reactions!Unset
    <3>3. s5' = [s5 EXCEPT !["feed"] = {i}]
      BY <2>1, <2>6, <3>1, <3>2, Zenon DEF Reactions!Rollback
    <3>4. s5'["feed"] = {i}
      BY <1>1, <3>3
    <3>5. Reactions!True("feed")'
      BY <2>4, <3>1, <3>4, TrueNext
    <3> QED BY <2>1, <2>2, <2>5, <3>5, CalmAtRest DEF Reactions!Truthful
  <2>7. CASE t.page = "video"
    <3>1. s5' = s5 /\ Reactions!Truthful
      BY <1>2, <2>1, <2>7 DEF Reactions!Rollback
    <3>2. Reactions!Truthful'
      BY <2>1, <3>1, TruthCarried
    <3> QED BY <2>1, <2>2, <2>5, <3>2, CalmAtRest
  <2> QED BY <2>3, <2>6, <2>7 DEF Reactions!Query
<1> QED BY <1>4, <1>5, <1>6, <1>7, <1>8, <1>9, <1>10, <1>11, <1>12, <1>13, <1>14, <1>15
DEF Reactions!Next

\* The feed's buttons tell the truth.
LEMMA TruthStep ==
  /\ Reactions!Init => Reactions!TruthInv
  /\ Reactions!TruthInv /\ [Reactions!Next]_(Reactions!vars) => Reactions!TruthInv'
  /\ Reactions!TruthInv => Reactions!CalmShowsTruth
<1>1. Reactions!Init => Reactions!TruthInv
  <2> SUFFICES ASSUME Reactions!Init PROVE Reactions!TruthInv
    OBVIOUS
  <2>1. /\ s1 = <<>> /\ s2 = {} /\ s3 = "other" /\ s4 = FALSE /\ s8 = {}
        /\ s5 = [q \in Reactions!Query |-> Reactions!Unset] /\ s6 = [q \in Reactions!Query |-> FALSE]
        /\ s7 = [q \in Reactions!Query |-> Reactions!Idle]
    BY DEF Reactions!Init
  <2>2. Reactions!Idle.at = "idle" /\ Reactions!Idle = [at |-> Reactions!Idle.at, events |-> Reactions!Idle.events]
    BY DEF Reactions!Idle
  <2>3. Reactions!TruthTyped
    BY <2>1, <2>2 DEF Reactions!TruthTyped
  <2>4. \A k \in {"like", "repost"} : Reactions!Live(k) = {}
    BY <2>1 DEF Reactions!Live
  <2>5. Reactions!Truthful
    BY <2>1 DEF Reactions!Truthful, Reactions!Query
  <2>6. Reactions!CalmTruth
    BY <2>1, <2>2, <2>4, <2>5 DEF Reactions!CalmTruth
  <2> QED BY <2>3, <2>6 DEF Reactions!TruthInv
<1>2. Reactions!TruthInv /\ [Reactions!Next]_(Reactions!vars) => Reactions!TruthInv'
  <2> SUFFICES ASSUME Reactions!TruthInv, [Reactions!Next]_(Reactions!vars)
               PROVE  Reactions!TruthInv'
    OBVIOUS
  <2>1. Reactions!TruthTyped'
    BY TypedStep DEF Reactions!TruthInv
  <2>2. s10' => s10
    <3>1. CASE UNCHANGED Reactions!vars
      BY <3>1 DEF Reactions!vars
    <3>2. CASE \E p \in Reactions!Query \cup {"other"} : Reactions!Open(p)
      <4>1. ASSUME NEW p, Reactions!Open(p) PROVE s10' = s10
        BY <4>1 DEF Reactions!Open
      <4> QED BY <3>2, <4>1
    <3>3. CASE Reactions!Load
      BY <3>3, Zenon DEF Reactions!Load
    <3>4. CASE \E q \in Reactions!Query : Reactions!Age(q) \/ Reactions!FindEvents(q) \/ Reactions!FindDeletions(q) \/ Reactions!ReadFails(q)
      <4>1. ASSUME NEW q \in Reactions!Query, Reactions!Age(q) \/ Reactions!FindEvents(q) PROVE s10' = s10
        BY <4>1, Zenon DEF Reactions!Age, Reactions!FindEvents
      <4>2. ASSUME NEW q \in Reactions!Query, Reactions!FindDeletions(q) PROVE s10' = s10
        BY <4>2, Zenon DEF Reactions!FindDeletions
      <4>3. ASSUME NEW q \in Reactions!Query, Reactions!ReadFails(q) PROVE s10' = FALSE
        BY <4>3, Zenon DEF Reactions!ReadFails
      <4> QED BY <3>4, <4>1, <4>2, <4>3
    <3>5. CASE \E k \in {"like", "repost"} : Reactions!Toggle(k) \/ Reactions!Press(k)
      BY <3>5, Zenon DEF Reactions!Toggle, Reactions!Press, Reactions!ClickedInFeed,
                         Reactions!Clicked
    <3>6. CASE \E t \in s8 : Reactions!Kept(t) \/ Reactions!Confirm(t) \/ Reactions!PublishFails(t)
      BY <3>6, Zenon DEF Reactions!Kept, Reactions!Confirm, Reactions!PublishFails
    <3> QED BY <3>1, <3>2, <3>3, <3>4, <3>5, <3>6 DEF Reactions!Next
  <2>3. s10' => Reactions!CalmTruth'
    BY <2>1, <2>2, CalmStep DEF Reactions!TruthInv
  <2> QED BY <2>1, <2>3 DEF Reactions!TruthInv
<1>3. Reactions!TruthInv => Reactions!CalmShowsTruth
  BY DEF Reactions!TruthInv, Reactions!CalmTruth, Reactions!Truthful, Reactions!CalmShowsTruth
<1> QED BY <1>1, <1>2, <1>3

LEMMA SeqIs ==
  ASSUME NEW S, NEW s \in Seq(S) PROVE s \in [1..Len(s) -> S] /\ Len(s) \in Nat /\ DOMAIN s = 1..Len(s)
OBVIOUS

LEMMA FunctionIsSeq ==
  ASSUME NEW k \in Nat, NEW s, s = [m \in 1..k |-> s[m]] PROVE s \in Seq(Comments!Range(s))
<1>1. PICK R : R = Comments!Range(s)
  OBVIOUS
<1>2. \A m \in 1..k : s[m] \in R
  BY <1>1 DEF Comments!Range
<1>3. s \in [1..k -> R]
  BY <1>2
<1> QED BY <1>1, <1>3

\* The posts when one is added, and when one changes.
LEMMA PostAdded ==
  ASSUME s7 \in Seq(Comments!Range(s7)), NEW e, s7' = Append(s7, e)
  PROVE  /\ s7' \in Seq(Comments!Range(s7')) /\ Len(s7) + 1 \notin DOMAIN s7
         /\ DOMAIN s7' = DOMAIN s7 \union {Len(s7) + 1}
         /\ s7'[Len(s7) + 1] = e /\ \A m \in DOMAIN s7 : s7'[m] = s7[m]
<1>1. /\ Len(s7) \in Nat /\ DOMAIN s7 = 1..Len(s7) /\ DOMAIN s7' = 1..(Len(s7) + 1)
      /\ s7'[Len(s7) + 1] = e /\ \A m \in DOMAIN s7 : s7'[m] = s7[m]
  BY SMT
<1>2. DOMAIN s7' = DOMAIN s7 \union {Len(s7) + 1} /\ Len(s7) + 1 \notin DOMAIN s7
  BY <1>1
<1>3. s7' \in Seq(Comments!Range(s7) \union {e})
  OBVIOUS
<1>4. PICK p : p = s7'
  OBVIOUS
<1>5. p = [m \in 1..(Len(s7) + 1) |-> p[m]]
  <2>1. p \in [1..Len(p) -> Comments!Range(s7) \union {e}] /\ DOMAIN p = 1..Len(p)
    BY <1>3, <1>4, SeqIs
  <2> QED BY <1>1, <1>4, <2>1
<1>6. p \in Seq(Comments!Range(p))
  BY <1>1, <1>5, FunctionIsSeq
<1> QED BY <1>1, <1>2, <1>4, <1>6

LEMMA PostChanged ==
  ASSUME s7 \in Seq(Comments!Range(s7)), NEW n \in DOMAIN s7, NEW e, s7' = [s7 EXCEPT ![n] = e]
  PROVE  /\ s7' \in Seq(Comments!Range(s7')) /\ DOMAIN s7' = DOMAIN s7
         /\ s7'[n] = e /\ \A m \in DOMAIN s7 : m # n => s7'[m] = s7[m]
<1>1. /\ Len(s7) \in Nat /\ DOMAIN s7 = 1..Len(s7)
      /\ s7 = [m \in 1..Len(s7) |-> s7[m]]
  OBVIOUS
<1>2. s7' = [m \in 1..Len(s7) |-> IF m = n THEN e ELSE s7[m]]
  BY <1>1
<1>3. PICK p : p = s7'
  OBVIOUS
<1>4. p = [m \in 1..Len(s7) |-> p[m]]
  BY <1>2, <1>3
<1>5. p \in Seq(Comments!Range(p))
  BY <1>1, <1>4, FunctionIsSeq
<1> QED BY <1>1, <1>2, <1>3, <1>5

\* The list of what was found has each comment once.
LEMMA NewestOnce ==
  ASSUME NEW S \in SUBSET Int, NEW s \in Comments!NewestFirst(S) PROVE Comments!Range(s) = S /\ Comments!Once(s)
<1>1. PICK c : /\ s \in [1..c -> S] /\ Comments!Range(s) = S
               /\ \A i, j \in DOMAIN s : i < j => s[i] > s[j]
  BY Zenon DEF Comments!NewestFirst
<1>2. ASSUME NEW i \in DOMAIN s, NEW j \in DOMAIN s, s[i] = s[j] PROVE i = j
  <2>1. i \in Int /\ j \in Int /\ s[i] \in Int /\ s[j] \in Int
    <3>1. i \in 1..c /\ j \in 1..c /\ s[i] \in S /\ s[j] \in S
      BY <1>1
    <3>2. i \in Int /\ j \in Int
      BY <3>1
    <3> QED BY <3>1, <3>2
  <2>2. ~(s[i] > s[j]) /\ ~(s[j] > s[i])
    BY <1>2, <2>1
  <2>3. ~(i < j) /\ ~(j < i)
    BY <1>1, <2>2
  <2> QED BY <2>1, <2>3
<1> QED BY <1>1, <1>2 DEF Comments!Once

\* The mutations and what the relay has of them.
LEMMA PostTypedStep == Comments!PostTyped /\ [Comments!Next]_(Comments!vars) => Comments!PostTyped'
<1> SUFFICES ASSUME Comments!PostTyped, [Comments!Next]_(Comments!vars)
             PROVE  Comments!PostTyped'
  OBVIOUS
<1> DEFINE States == {"cancelling", "sent", "stored", "posted", "failed"}
           Whole(p) == /\ p = [form |-> p.form, st |-> p.st, had |-> p.had, all |-> p.all, top |-> p.top]
                       /\ p.st \in States
<1>1. /\ s7 \in Seq(Comments!Range(s7)) /\ \A n \in DOMAIN s7 : Whole(s7[n])
      /\ s10 \subseteq s9 /\ s9 \subseteq DOMAIN s7 /\ s8 \subseteq DOMAIN s7
      /\ s6 \subseteq DOMAIN s7
  BY DEF Comments!PostTyped
<1>2. ASSUME s7' \in Seq(Comments!Range(s7')), \A n \in DOMAIN s7' : Whole(s7'[n]),
             s10' \subseteq s9', s9' \subseteq DOMAIN s7', s8' \subseteq DOMAIN s7',
             s6' \subseteq DOMAIN s7'
      PROVE  Comments!PostTyped'
  BY <1>2 DEF Comments!PostTyped
<1> HIDE DEF Whole
<1>3. ASSUME NEW n \in DOMAIN s7, NEW e, Whole(e), s7' = [s7 EXCEPT ![n] = e],
             s10' \subseteq s9', s9' \subseteq s9 \union {n}, s8' \subseteq s8 \union {n}, s6' = s6
      PROVE  Comments!PostTyped'
  <2>1. /\ s7' \in Seq(Comments!Range(s7')) /\ DOMAIN s7' = DOMAIN s7
        /\ s7'[n] = e /\ \A m \in DOMAIN s7 : m # n => s7'[m] = s7[m]
    BY <1>1, <1>3, PostChanged
  <2>2. \A m \in DOMAIN s7' : Whole(s7'[m])
    BY <1>1, <1>3, <2>1
  <2> QED BY <1>1, <1>2, <1>3, <2>1, <2>2
<1>4. ASSUME UNCHANGED s7, s10' \subseteq s9', s9' \subseteq s9, s8' \subseteq s8, s6' \subseteq DOMAIN s7
      PROVE  Comments!PostTyped'
  BY <1>1, <1>2, <1>4
<1>6. CASE Comments!Mount \/ Comments!Arrive \/ Comments!ReadFails \/ UNCHANGED Comments!vars
  <2>1. UNCHANGED <<s7, s9, s10, s8>> /\ (s6' = s6 \/ s6' = {})
    BY <1>6 DEF Comments!Mount, Comments!Arrive, Comments!ReadFails, Comments!vars,
                Comments!Relay
  <2> QED BY <1>1, <1>4, <2>1
<1>7. CASE Comments!See
  <2>1. UNCHANGED <<s7, s9, s10, s8>> /\ s6' = s10 \intersect s9
    BY <1>7 DEF Comments!See, Comments!Relay
  <2> QED BY <1>1, <1>4, <2>1
<1>8. CASE Comments!Index
  <2>1. UNCHANGED <<s7, s9, s8, s6>> /\ s10' = s9
    BY <1>8 DEF Comments!Index, Comments!Reading
  <2> QED BY <1>1, <1>4, <2>1
<1>9. ASSUME NEW f, Comments!Submit(f) PROVE Comments!PostTyped'
  <2>1. PICK e : e = [form |-> f, st |-> "cancelling", had |-> FALSE, all |-> <<>>, top |-> <<>>]
    OBVIOUS
  <2>2. s7' = Append(s7, e) /\ s6' = {} /\ UNCHANGED <<s8, s9, s10>>
    BY <1>9, <2>1 DEF Comments!Submit, Comments!Relay
  <2>3. Whole(e)
    BY <2>1 DEF Whole
  <2>4. /\ s7' \in Seq(Comments!Range(s7')) /\ DOMAIN s7' = DOMAIN s7 \union {Len(s7) + 1}
        /\ s7'[Len(s7) + 1] = e /\ \A m \in DOMAIN s7 : s7'[m] = s7[m]
    BY <1>1, <2>2, PostAdded
  <2>5. \A m \in DOMAIN s7' : Whole(s7'[m])
    BY <1>1, <2>3, <2>4
  <2> QED BY <1>1, <1>2, <2>2, <2>4, <2>5
<1>10. ASSUME NEW n \in DOMAIN s7, Comments!Mutate(n) PROVE Comments!PostTyped'
  <2>1. PICK e : e = [form |-> s7[n].form, st |-> "sent", had |-> s1, all |-> s2, top |-> s3]
    OBVIOUS
  <2>2. s7' = [s7 EXCEPT ![n] = e] /\ UNCHANGED <<s6, s8, s9, s10>>
    BY <1>10, <2>1 DEF Comments!Mutate, Comments!Relay, Comments!Reading
  <2>3. Whole(e)
    BY <2>1 DEF Whole
  <2> QED BY <1>1, <1>3, <2>2, <2>3
<1>11. ASSUME NEW n \in DOMAIN s7, Comments!Store(n) PROVE Comments!PostTyped'
  <2>1. PICK e : e = [s7[n] EXCEPT !.st = "stored"]
    OBVIOUS
  <2>2. s7' = [s7 EXCEPT ![n] = e] /\ s9' = s9 \union {n} /\ UNCHANGED <<s6, s8, s10>>
    BY <1>11, <2>1 DEF Comments!Store, Comments!Reading
  <2>3. Whole(e)
    <3>1. PICK f, s, h, a, t : f = s7[n].form /\ s = s7[n].st /\ h = s7[n].had /\ a = s7[n].all /\ t = s7[n].top
      OBVIOUS
    <3>2. s7[n] = [form |-> f, st |-> s, had |-> h, all |-> a, top |-> t]
      BY <1>1, <3>1, Zenon DEF Whole
    <3>3. [[form |-> f, st |-> s, had |-> h, all |-> a, top |-> t] EXCEPT !.st = "stored"]
          = [form |-> f, st |-> "stored", had |-> h, all |-> a, top |-> t]
      OBVIOUS
    <3>4. e = [form |-> f, st |-> "stored", had |-> h, all |-> a, top |-> t]
      BY <2>1, <3>2, <3>3, Zenon
    <3> QED BY <3>4 DEF Whole
  <2> QED BY <1>1, <1>3, <2>2, <2>3
<1>12. ASSUME NEW n \in DOMAIN s7, Comments!Posted(n) PROVE Comments!PostTyped'
  <2>1. PICK e : e = [form |-> s7[n].form, st |-> "posted", had |-> FALSE, all |-> <<>>, top |-> <<>>]
    OBVIOUS
  <2>2. s7' = [s7 EXCEPT ![n] = e] /\ s8' = s8 \union {n} /\ UNCHANGED <<s6, s9, s10>>
    BY <1>12, <2>1 DEF Comments!Posted, Comments!Relay, Comments!Reading
  <2>3. Whole(e)
    BY <2>1 DEF Whole
  <2> QED BY <1>1, <1>3, <2>2, <2>3
<1>13. ASSUME NEW n \in DOMAIN s7, Comments!PostFails(n) PROVE Comments!PostTyped'
  <2>1. PICK e : e = [form |-> s7[n].form, st |-> "failed", had |-> FALSE, all |-> <<>>, top |-> <<>>]
    OBVIOUS
  <2>2. s7' = [s7 EXCEPT ![n] = e] /\ UNCHANGED <<s6, s8, s9, s10>>
    BY <1>13, <2>1 DEF Comments!PostFails, Comments!Relay, Comments!Reading
  <2>3. Whole(e)
    BY <2>1 DEF Whole
  <2> QED BY <1>1, <1>3, <2>2, <2>3
<1>14. ASSUME NEW n, Comments!Delete(n) PROVE Comments!PostTyped'
  <2>1. UNCHANGED <<s7, s6, s8>> /\ s9' = s9 \ {n} /\ s10' = s10 \ {n}
    BY <1>14 DEF Comments!Delete, Comments!Reading
  <2> QED BY <1>1, <1>4, <2>1
<1>15. ASSUME NEW n, Comments!Refetch(n) PROVE Comments!PostTyped'
  <2>1. UNCHANGED <<s7, s9, s10>> /\ s8' = s8 \ {n} /\ s6' = {}
    BY <1>15 DEF Comments!Refetch, Comments!Relay
  <2> QED BY <1>1, <1>4, <2>1
<1> QED BY <1>6, <1>7, <1>8, <1>9, <1>10, <1>11, <1>12, <1>13, <1>14, <1>15 DEF Comments!Next

\* Settled lists stay so while no other comment is published or stored.
LEMMA SettledNext ==
  ASSUME \A m \in DOMAIN s7 : /\ m \in DOMAIN s7' /\ s7'[m].form = s7[m].form
                              /\ s7[m].st = "posted" <=> s7'[m].st = "posted",
         s9 \subseteq DOMAIN s7, \A m \in s9' \ s9 : s7'[m].st # "posted",
         NEW a, NEW t, Comments!Settled(a, t), s2' = a, s3' = t
  PROVE  Comments!Settled(s2, s3)'
<1>1. /\ \A n \in s9 : s7[n].st = "posted" => n \in Comments!Range(a) /\ (s7[n].form = "main" <=> n \in Comments!Range(t))
      /\ Comments!Once(a) /\ Comments!Once(t)
      /\ \A n \in Comments!Range(a) \union Comments!Range(t) : n \in DOMAIN s7 /\ s7[n].st = "posted"
  BY DEF Comments!Settled, Comments!TopLevel
<1>2. /\ \A n \in s9' : s7'[n].st = "posted" => n \in Comments!Range(a) /\ (s7'[n].form = "main" <=> n \in Comments!Range(t))
      /\ \A n \in Comments!Range(a) \union Comments!Range(t) : n \in DOMAIN s7' /\ s7'[n].st = "posted"
  BY <1>1
<1>3. /\ \A n \in s9' : s7'[n].st = "posted" => n \in Comments!Range(s2') /\ (s7'[n].form = "main" <=> n \in Comments!Range(s3'))
      /\ Comments!Once(s2') /\ Comments!Once(s3')
      /\ \A n \in Comments!Range(s2') \union Comments!Range(s3') : n \in DOMAIN s7' /\ s7'[n].st = "posted"
  BY <1>1, <1>2
<1> QED BY <1>3, Zenon DEF Comments!Settled, Comments!TopLevel, Comments!Once, Comments!Range

LEMMA SnapshotNext ==
  ASSUME \A m \in DOMAIN s7 : /\ m \in DOMAIN s7' /\ s7'[m].form = s7[m].form
                              /\ s7[m].st = "posted" <=> s7'[m].st = "posted",
         s9 \subseteq DOMAIN s7, \A m \in s9' \ s9 : s7'[m].st # "posted",
         NEW a, NEW t, Comments!Settled(a, t), NEW k, s7'[k].all = a, s7'[k].top = t
  PROVE  Comments!Settled(s7[k].all, s7[k].top)'
<1>1. /\ \A n \in s9 : s7[n].st = "posted" => n \in Comments!Range(a) /\ (s7[n].form = "main" <=> n \in Comments!Range(t))
      /\ Comments!Once(a) /\ Comments!Once(t)
      /\ \A n \in Comments!Range(a) \union Comments!Range(t) : n \in DOMAIN s7 /\ s7[n].st = "posted"
  BY DEF Comments!Settled, Comments!TopLevel
<1>2. /\ \A n \in s9' : s7'[n].st = "posted" => n \in Comments!Range(a) /\ (s7'[n].form = "main" <=> n \in Comments!Range(t))
      /\ \A n \in Comments!Range(a) \union Comments!Range(t) : n \in DOMAIN s7' /\ s7'[n].st = "posted"
  BY <1>1
<1>3. PICK c, d : c = s7'[k].all /\ d = s7'[k].top
  OBVIOUS
<1>4. /\ \A n \in s9' : s7'[n].st = "posted" => n \in Comments!Range(c) /\ (s7'[n].form = "main" <=> n \in Comments!Range(d))
      /\ Comments!Once(c) /\ Comments!Once(d)
      /\ \A n \in Comments!Range(c) \union Comments!Range(d) : n \in DOMAIN s7' /\ s7'[n].st = "posted"
  BY <1>1, <1>2, <1>3
<1>5. /\ \A n \in s9' : s7'[n].st = "posted"
           => n \in Comments!Range(s7'[k].all) /\ (s7'[n].form = "main" <=> n \in Comments!Range(s7'[k].top))
      /\ Comments!Once(s7'[k].all) /\ Comments!Once(s7'[k].top)
      /\ \A n \in Comments!Range(s7'[k].all) \union Comments!Range(s7'[k].top) : n \in DOMAIN s7' /\ s7'[n].st = "posted"
  BY <1>3, <1>4, Zenon
<1> QED BY <1>5, Zenon DEF Comments!Settled, Comments!TopLevel, Comments!Once, Comments!Range

\* A read that finds everything settles the lists.
LEMMA ArrivalSettles ==
  ASSUME Comments!PostTyped, Comments!Arrive, \A n \in s9 : s7[n].st = "posted" => n \in s6,
         \A n \in s6 : s7[n].st = "posted"
  PROVE  Comments!Settled(s2, s3)'
<1>1. /\ s2' \in Comments!NewestFirst(s6) /\ s3' \in Comments!NewestFirst({n \in s6 : Comments!TopLevel(n)})
      /\ UNCHANGED <<s7, s9>>
  BY DEF Comments!Arrive, Comments!Relay
<1>2. s6 \in SUBSET Int /\ s6 \subseteq DOMAIN s7
  BY SeqIs DEF Comments!PostTyped
<1>3. PICK S : S = {n \in s6 : Comments!TopLevel(n)}
  OBVIOUS
<1>4. PICK a, t : a = s2' /\ t = s3'
  OBVIOUS
<1>5. Comments!Range(a) = s6 /\ Comments!Once(a) /\ Comments!Range(t) = S /\ Comments!Once(t)
  <2>1. a \in Comments!NewestFirst(s6) /\ t \in Comments!NewestFirst(S) /\ S \in SUBSET Int
    BY <1>1, <1>2, <1>3, <1>4
  <2> QED BY <1>2, <2>1, NewestOnce
<1>6. Comments!Settled(a, t)
  BY <1>2, <1>3, <1>5 DEF Comments!Settled
<1>7. s9 \subseteq DOMAIN s7
  BY DEF Comments!PostTyped
<1> QED BY <1>1, <1>4, <1>6, <1>7, SettledNext

\* A step that leaves the posts and the lists alone.
LEMMA PatienceCarried ==
  ASSUME Comments!PostTyped, Comments!Patience, UNCHANGED <<s7, s1, s2, s3>>, s9' \subseteq s9, s8' \subseteq s8,
         \A n \in s9' \ s10' : s7[n].st = "posted" => n \in s8',
         \A n \in s9' \ s8' : s7[n].st = "posted" /\ s5' = "seen" => n \in s6',
         \A n \in s6' : s7[n].st \in {"posted", "stored"},
         s8' = {} /\ ~s4' /\ s5' = "none" => s8 = {} /\ ~s4 /\ s5 = "none"
  PROVE  Comments!Patience'
<1>1. s9 \subseteq DOMAIN s7 /\ Comments!Pending' = Comments!Pending
  BY DEF Comments!PostTyped, Comments!Pending
<1>2. Comments!Settled(s2, s3) => Comments!Settled(s2, s3)'
  BY <1>1, SettledNext
<1>3. \A n : Comments!Settled(s7[n].all, s7[n].top) => Comments!Settled(s7[n].all, s7[n].top)'
  BY <1>1, SnapshotNext
<1>4. /\ \A m, n \in Comments!Pending : m = n
      /\ Comments!Pending # {} => s8 = {}
      /\ \A n \in DOMAIN s7 :
           /\ s7[n].st \in {"cancelling", "sent", "failed"} => n \notin s9
           /\ s7[n].st = "cancelling" /\ s1 => Comments!Settled(s2, s3)
           /\ s7[n].st = "sent" /\ s7[n].had => Comments!Settled(s7[n].all, s7[n].top)
           /\ s7[n].st = "sent" /\ ~s7[n].had /\ s1 => Comments!Settled(s2, s3)
      /\ Comments!Pending = {} /\ s8 = {} /\ s1 /\ ~s4 /\ s5 = "none" => Comments!Settled(s2, s3)
  BY DEF Comments!Patience
<1>5. \A n \in DOMAIN s7' :
        /\ s7'[n].st \in {"cancelling", "sent", "failed"} => n \notin s9'
        /\ s7'[n].st = "posted" /\ n \in s9' /\ n \notin s10' => n \in s8'
        /\ s7'[n].st = "posted" /\ n \in s9' /\ n \notin s8' /\ s5' = "seen" => n \in s6'
        /\ s7'[n].st = "cancelling" /\ s1' => Comments!Settled(s2, s3)'
        /\ s7'[n].st = "sent" /\ s7'[n].had => Comments!Settled(s7[n].all, s7[n].top)'
        /\ s7'[n].st = "sent" /\ ~s7'[n].had /\ s1' => Comments!Settled(s2, s3)'
  BY <1>2, <1>3, <1>4
<1>6. /\ \A m, n \in Comments!Pending' : m = n
      /\ Comments!Pending' # {} => s8' = {}
      /\ \A n \in s6' : s7'[n].st \in {"posted", "stored"}
      /\ Comments!Pending' = {} /\ s8' = {} /\ s1' /\ ~s4' /\ s5' = "none" => Comments!Settled(s2, s3)'
  BY <1>1, <1>2, <1>4
<1> QED BY <1>5, <1>6, Zenon DEF Comments!Patience

\* One comment at a time, on lists at rest, leaves lists that settle.
LEMMA PatienceStep ==
  ASSUME Comments!PostTyped, Comments!PostTyped', Comments!Patience, [Comments!Next]_(Comments!vars), s11, s11'
  PROVE  Comments!Patience'
<1>1. /\ s7 \in Seq(Comments!Range(s7)) /\ s10 \subseteq s9
      /\ s9 \subseteq DOMAIN s7 /\ s8 \subseteq DOMAIN s7 /\ s6 \subseteq DOMAIN s7
      /\ \A n \in DOMAIN s7 : s7[n].st \in {"cancelling", "sent", "stored", "posted", "failed"}
  BY DEF Comments!PostTyped
<1>2. /\ \A m, n \in Comments!Pending : m = n
      /\ Comments!Pending # {} => s8 = {}
      /\ \A n \in DOMAIN s7 :
           /\ s7[n].st \in {"cancelling", "sent", "failed"} => n \notin s9
           /\ s7[n].st = "posted" /\ n \in s9 /\ n \notin s10 => n \in s8
           /\ s7[n].st = "posted" /\ n \in s9 /\ n \notin s8 /\ s5 = "seen" => n \in s6
           /\ s7[n].st = "cancelling" /\ s1 => Comments!Settled(s2, s3)
           /\ s7[n].st = "sent" /\ s7[n].had => Comments!Settled(s7[n].all, s7[n].top)
           /\ s7[n].st = "sent" /\ ~s7[n].had /\ s1 => Comments!Settled(s2, s3)
      /\ \A n \in s6 : s7[n].st \in {"posted", "stored"}
      /\ Comments!Pending = {} /\ s8 = {} /\ s1 /\ ~s4 /\ s5 = "none" => Comments!Settled(s2, s3)
  BY DEF Comments!Patience
<1>3. CASE Comments!Mount \/ UNCHANGED Comments!vars
  <2>1. UNCHANGED <<s7, s1, s2, s3, s9, s10, s8, s6, s4>> /\ (s5' = s5 \/ s5' = "asked")
    BY <1>3 DEF Comments!Mount, Comments!vars, Comments!Data, Comments!Relay
  <2> QED BY <1>2, <1>1, <2>1, PatienceCarried
<1>4. CASE Comments!See
  <2>1. /\ UNCHANGED <<s7, s1, s2, s3, s9, s10, s8, s4>>
        /\ s5' = "seen" /\ s6' = s10 \intersect s9
    BY <1>4 DEF Comments!See, Comments!Data, Comments!Relay
  <2> QED BY <1>2, <1>1, <2>1, PatienceCarried
<1>5. CASE Comments!ReadFails
  <2>1. /\ UNCHANGED <<s7, s1, s2, s3, s9, s10, s8>>
        /\ s5' = "none" /\ s6' = {} /\ s4' = TRUE
    BY <1>5 DEF Comments!ReadFails, Comments!Data, Comments!Relay
  <2> QED BY <1>2, <1>1, <2>1, PatienceCarried
<1>6. CASE Comments!Index
  <2>1. /\ UNCHANGED <<s7, s1, s2, s3, s9, s8, s4, s5, s6>> /\ s10' = s9
    BY <1>6 DEF Comments!Index, Comments!Data, Comments!Reading
  <2> QED BY <1>2, <1>1, <2>1, PatienceCarried
<1>7. ASSUME NEW n, Comments!Delete(n) PROVE Comments!Patience'
  <2>1. /\ UNCHANGED <<s7, s1, s2, s3, s8, s4, s5, s6>>
        /\ s9' = s9 \ {n} /\ s10' = s10 \ {n}
    BY <1>7 DEF Comments!Delete, Comments!Data, Comments!Reading
  <2> QED BY <1>2, <1>1, <2>1, PatienceCarried
<1>8. ASSUME NEW n, Comments!Refetch(n) PROVE Comments!Patience'
  <2>1. /\ UNCHANGED <<s7, s1, s2, s3, s4, s9, s10>> /\ (n \in s10 \/ n \notin s9)
        /\ s8' = s8 \ {n} /\ s5' = "asked" /\ s6' = {}
    BY <1>8 DEF Comments!Refetch, Comments!Data, Comments!Relay
  <2> QED BY <1>2, <1>1, <2>1, PatienceCarried
<1>9. CASE Comments!Arrive
  <2>1. /\ UNCHANGED <<s7, s8, s9, s10>> /\ s5 = "seen" /\ s5' = "none"
        /\ s6' = {} /\ s1' = TRUE /\ s4' = FALSE
    BY <1>9 DEF Comments!Arrive, Comments!Relay
  <2>2. Comments!Pending' = Comments!Pending
    BY <2>1 DEF Comments!Pending
  <2>3. ASSUME s8 = {}, \A m \in DOMAIN s7 : s7[m].st # "stored" PROVE Comments!Settled(s2, s3)'
    BY <1>1, <1>2, <1>9, <2>1, <2>3, ArrivalSettles
  <2>4. \A n \in DOMAIN s7 : s7[n].st \in {"cancelling", "sent"} => Comments!Settled(s2, s3)'
    <3> SUFFICES ASSUME NEW n \in DOMAIN s7, s7[n].st \in {"cancelling", "sent"}
                 PROVE  Comments!Settled(s2, s3)'
      OBVIOUS
    <3>1. n \in Comments!Pending
      BY DEF Comments!Pending
    <3>2. \A m \in DOMAIN s7 : s7[m].st = "stored" => m \in Comments!Pending
      BY DEF Comments!Pending
    <3>3. s8 = {} /\ \A m \in DOMAIN s7 : s7[m].st # "stored"
      BY <1>2, <3>1, <3>2
    <3> QED BY <2>3, <3>3
  <2>5. Comments!Pending = {} /\ s8 = {} => Comments!Settled(s2, s3)'
    <3>1. Comments!Pending = {} => \A m \in DOMAIN s7 : s7[m].st # "stored"
      BY DEF Comments!Pending
    <3> QED BY <2>3, <3>1
  <2>6. \A n : Comments!Settled(s7[n].all, s7[n].top) => Comments!Settled(s7[n].all, s7[n].top)'
    BY <1>1, <2>1, SnapshotNext
  <2>7. \A n \in DOMAIN s7' :
          /\ s7'[n].st \in {"cancelling", "sent", "failed"} => n \notin s9'
          /\ s7'[n].st = "posted" /\ n \in s9' /\ n \notin s10' => n \in s8'
          /\ s7'[n].st = "posted" /\ n \in s9' /\ n \notin s8' /\ s5' = "seen" => n \in s6'
          /\ s7'[n].st = "cancelling" /\ s1' => Comments!Settled(s2, s3)'
          /\ s7'[n].st = "sent" /\ s7'[n].had => Comments!Settled(s7[n].all, s7[n].top)'
          /\ s7'[n].st = "sent" /\ ~s7'[n].had /\ s1' => Comments!Settled(s2, s3)'
    BY <1>2, <2>1, <2>4, <2>6
  <2>8. /\ \A m, n \in Comments!Pending' : m = n
        /\ Comments!Pending' # {} => s8' = {}
        /\ \A n \in s6' : s7'[n].st \in {"posted", "stored"}
        /\ Comments!Pending' = {} /\ s8' = {} /\ s1' /\ ~s4' /\ s5' = "none" => Comments!Settled(s2, s3)'
    BY <1>2, <2>1, <2>2, <2>5
  <2> QED BY <2>7, <2>8, Zenon DEF Comments!Patience
<1>10. ASSUME NEW f, Comments!Submit(f) PROVE Comments!Patience'
  <2>1. PICK e, k : /\ e = [form |-> f, st |-> "cancelling", had |-> FALSE, all |-> <<>>, top |-> <<>>]
                    /\ k = Len(s7) + 1
    OBVIOUS
  <2>2. /\ s7' = Append(s7, e) /\ s5' = "none" /\ s6' = {}
        /\ UNCHANGED <<s1, s2, s3, s8, s9, s10, s4>>
    BY <1>10, <2>1 DEF Comments!Submit, Comments!Relay, Comments!Data
  <2>3. Comments!Pending = {} /\ s8 = {} /\ ~s4 /\ (s1 => s5 = "none")
    <3>1. s11' = (s11 /\ Comments!Pending = {} /\ s8 = {} /\ ~s4 /\ (s1 => s5 = "none"))
      BY <1>10 DEF Comments!Submit
    <3> QED BY <3>1
  <2>4. /\ k \notin DOMAIN s7 /\ DOMAIN s7' = DOMAIN s7 \union {k} /\ s7'[k] = e
        /\ \A m \in DOMAIN s7 : s7'[m] = s7[m]
    BY <1>1, <2>1, <2>2, PostAdded
  <2>5. e.st = "cancelling"
    BY <2>1
  <2>6. \A m \in DOMAIN s7 : s7[m].st \notin {"cancelling", "sent", "stored"}
    BY <2>3 DEF Comments!Pending
  <2>7. Comments!Pending' = {k}
    BY <2>4, <2>5, <2>6 DEF Comments!Pending
  <2>8. s1 => Comments!Settled(s2, s3)'
    BY <1>1, <1>2, <2>2, <2>3, <2>4, SettledNext
  <2>9. \A n \in DOMAIN s7' :
          /\ s7'[n].st \in {"cancelling", "sent", "failed"} => n \notin s9'
          /\ s7'[n].st = "posted" /\ n \in s9' /\ n \notin s10' => n \in s8'
          /\ s7'[n].st = "posted" /\ n \in s9' /\ n \notin s8' /\ s5' = "seen" => n \in s6'
          /\ s7'[n].st = "cancelling" /\ s1' => Comments!Settled(s2, s3)'
          /\ s7'[n].st # "sent"
    BY <1>1, <1>2, <2>2, <2>4, <2>5, <2>6, <2>8
  <2>10. /\ \A m, n \in Comments!Pending' : m = n
         /\ Comments!Pending' # {} /\ s8' = {}
         /\ \A n \in s6' : s7'[n].st \in {"posted", "stored"}
    BY <2>2, <2>3, <2>7
  <2> QED BY <2>9, <2>10, Zenon DEF Comments!Patience
<1>11. ASSUME NEW n \in DOMAIN s7, s7[n].st \in {"cancelling", "sent", "stored"}
       PROVE  Comments!Pending = {n} /\ s8 = {} /\ \A m \in DOMAIN s7 : m # n => s7[m].st \in {"posted", "failed"}
  <2>1. n \in Comments!Pending /\ \A m \in DOMAIN s7 : s7[m].st \in {"cancelling", "sent", "stored"} => m \in Comments!Pending
    BY <1>11 DEF Comments!Pending
  <2> QED BY <1>1, <1>2, <2>1
<1>12. ASSUME NEW n \in DOMAIN s7, Comments!Mutate(n) PROVE Comments!Patience'
  <2>1. PICK e : e = [form |-> s7[n].form, st |-> "sent", had |-> s1, all |-> s2, top |-> s3]
    OBVIOUS
  <2>2. /\ s7[n].st = "cancelling" /\ s7' = [s7 EXCEPT ![n] = e]
        /\ UNCHANGED <<s1, s8, s9, s10, s4, s5, s6>>
    BY <1>12, <2>1 DEF Comments!Mutate, Comments!Relay, Comments!Reading
  <2>3. Comments!Pending = {n} /\ s8 = {} /\ \A m \in DOMAIN s7 : m # n => s7[m].st \in {"posted", "failed"}
    BY <1>11, <2>2
  <2>4. DOMAIN s7' = DOMAIN s7 /\ s7'[n] = e /\ \A m \in DOMAIN s7 : m # n => s7'[m] = s7[m]
    BY <1>1, <2>2, PostChanged
  <2>5. e.st = "sent" /\ e.form = s7[n].form /\ e.all = s2 /\ e.top = s3 /\ (e.had <=> s1)
    <3>1. PICK b : b = s1
      OBVIOUS
    <3>2. e.st = "sent" /\ e.form = s7[n].form /\ e.all = s2 /\ e.top = s3 /\ e.had = b
      BY <2>1, <3>1
    <3>3. e.had = s1
      BY <3>1, <3>2
    <3>4. e.had <=> s1
      BY <3>3, Zenon
    <3> QED BY <3>2, <3>1, <3>4
  <2>6. Comments!Pending' = {n}
    BY <2>3, <2>4, <2>5 DEF Comments!Pending
  <2>7. s1 => Comments!Settled(s7[n].all, s7[n].top)'
    <3> SUFFICES ASSUME s1 PROVE Comments!Settled(s7[n].all, s7[n].top)'
      OBVIOUS
    <3>1. PICK a, t : a = s2 /\ t = s3 /\ Comments!Settled(a, t)
      BY <1>2, <2>2
    <3> QED BY <1>1, <2>2, <2>4, <2>5, <3>1, SnapshotNext
  <2>8. \A m \in DOMAIN s7' :
          /\ s7'[m].st \in {"cancelling", "sent", "failed"} => m \notin s9'
          /\ s7'[m].st = "posted" /\ m \in s9' /\ m \notin s10' => m \in s8'
          /\ s7'[m].st = "posted" /\ m \in s9' /\ m \notin s8' /\ s5' = "seen" => m \in s6'
          /\ s7'[m].st # "cancelling"
          /\ s7'[m].st = "sent" => m = n
    BY <1>2, <2>2, <2>3, <2>4, <2>5
  <2>9. s7'[n].had <=> s1'
    BY <2>2, <2>4, <2>5
  <2>10. \A m \in DOMAIN s7' :
           /\ s7'[m].st = "sent" /\ s7'[m].had => Comments!Settled(s7[m].all, s7[m].top)'
           /\ s7'[m].st = "sent" /\ ~s7'[m].had => ~s1'
    <3> TAKE m \in DOMAIN s7'
    <3>1. CASE m = n
      BY <2>2, <2>7, <2>9, <3>1
    <3>2. CASE m # n
      BY <2>8, <3>2
    <3> QED BY <3>1, <3>2
  <2>11. /\ \A m, o \in Comments!Pending' : m = o
         /\ Comments!Pending' # {} /\ s8' = {}
         /\ \A m \in s6' : s7'[m].st \in {"posted", "stored"}
    BY <1>1, <1>2, <2>2, <2>3, <2>4, <2>6
  <2> QED BY <2>8, <2>10, <2>11, Zenon DEF Comments!Patience
<1>13. ASSUME NEW n \in DOMAIN s7, Comments!Store(n) PROVE Comments!Patience'
  <2>1. PICK e : e = [s7[n] EXCEPT !.st = "stored"]
    OBVIOUS
  <2>2. /\ s7[n].st = "sent" /\ s7' = [s7 EXCEPT ![n] = e] /\ s9' = s9 \union {n}
        /\ UNCHANGED <<s1, s8, s10, s4, s5, s6>>
    BY <1>13, <2>1 DEF Comments!Store, Comments!Data, Comments!Reading
  <2>3. Comments!Pending = {n} /\ s8 = {} /\ \A m \in DOMAIN s7 : m # n => s7[m].st \in {"posted", "failed"}
    BY <1>11, <2>2
  <2>4. DOMAIN s7' = DOMAIN s7 /\ s7'[n] = e /\ \A m \in DOMAIN s7 : m # n => s7'[m] = s7[m]
    BY <1>1, <2>2, PostChanged
  <2>5. e.st = "stored"
    BY <2>1 DEF Comments!PostTyped
  <2>6. Comments!Pending' = {n}
    BY <2>3, <2>4, <2>5 DEF Comments!Pending
  <2>7. \A m \in DOMAIN s7' :
          /\ s7'[m].st \in {"cancelling", "sent", "failed"} => m \notin s9'
          /\ s7'[m].st = "posted" /\ m \in s9' /\ m \notin s10' => m \in s8'
          /\ s7'[m].st = "posted" /\ m \in s9' /\ m \notin s8' /\ s5' = "seen" => m \in s6'
          /\ s7'[m].st # "cancelling" /\ s7'[m].st # "sent"
    BY <1>2, <2>2, <2>3, <2>4, <2>5
  <2>8. /\ \A m, o \in Comments!Pending' : m = o
        /\ Comments!Pending' # {} /\ s8' = {}
        /\ \A m \in s6' : s7'[m].st \in {"posted", "stored"}
    BY <1>1, <1>2, <2>2, <2>3, <2>4, <2>5, <2>6
  <2> QED BY <2>7, <2>8, Zenon DEF Comments!Patience
<1>14. ASSUME NEW n \in DOMAIN s7, Comments!Posted(n) PROVE Comments!Patience'
  <2>1. PICK e : e = [form |-> s7[n].form, st |-> "posted", had |-> FALSE, all |-> <<>>, top |-> <<>>]
    OBVIOUS
  <2>2. /\ s7[n].st = "stored" /\ s7' = [s7 EXCEPT ![n] = e] /\ s8' = s8 \union {n}
        /\ UNCHANGED <<s1, s9, s10, s4, s5, s6>>
    BY <1>14, <2>1 DEF Comments!Posted, Comments!Relay, Comments!Reading
  <2>3. Comments!Pending = {n} /\ s8 = {} /\ \A m \in DOMAIN s7 : m # n => s7[m].st \in {"posted", "failed"}
    BY <1>11, <2>2
  <2>4. DOMAIN s7' = DOMAIN s7 /\ s7'[n] = e /\ \A m \in DOMAIN s7 : m # n => s7'[m] = s7[m]
    BY <1>1, <2>2, PostChanged
  <2>5. e.st = "posted"
    BY <2>1
  <2>6. Comments!Pending' = {}
    BY <2>3, <2>4, <2>5 DEF Comments!Pending
  <2>7. \A m \in DOMAIN s7' :
          /\ s7'[m].st \in {"cancelling", "sent", "failed"} => m \notin s9'
          /\ s7'[m].st = "posted" /\ m \in s9' /\ m \notin s10' => m \in s8'
          /\ s7'[m].st = "posted" /\ m \in s9' /\ m \notin s8' /\ s5' = "seen" => m \in s6'
          /\ s7'[m].st # "cancelling" /\ s7'[m].st # "sent"
    BY <1>2, <2>2, <2>3, <2>4, <2>5
  <2>8. /\ Comments!Pending' = {} /\ s8' # {}
        /\ \A m \in s6' : s7'[m].st \in {"posted", "stored"}
    BY <1>1, <1>2, <2>2, <2>4, <2>5, <2>6
  <2> QED BY <2>7, <2>8, Zenon DEF Comments!Patience
<1>15. ASSUME NEW n \in DOMAIN s7, Comments!PostFails(n) PROVE Comments!Patience'
  <2>1. PICK e : e = [form |-> s7[n].form, st |-> "failed", had |-> FALSE, all |-> <<>>, top |-> <<>>]
    OBVIOUS
  <2>2. /\ s7' = [s7 EXCEPT ![n] = e] /\ UNCHANGED <<s8, s9, s10, s4, s5, s6>>
    BY <1>15, <2>1 DEF Comments!PostFails, Comments!Relay, Comments!Reading
  <2>3. s7[n].st = "sent"
    <3>1. s11' = (s11 /\ s7[n].st = "sent")
      BY <1>15 DEF Comments!PostFails
    <3> QED BY <3>1
  <2>4. Comments!Pending = {n} /\ s8 = {} /\ \A m \in DOMAIN s7 : m # n => s7[m].st \in {"posted", "failed"}
    BY <1>11, <2>3
  <2>5. DOMAIN s7' = DOMAIN s7 /\ s7'[n] = e /\ \A m \in DOMAIN s7 : m # n => s7'[m] = s7[m]
    BY <1>1, <2>2, PostChanged
  <2>6. e.st = "failed" /\ e.form = s7[n].form
    BY <2>1
  <2>7. Comments!Pending' = {}
    BY <2>4, <2>5, <2>6 DEF Comments!Pending
  <2>8. s1' => Comments!Settled(s2, s3)'
    <3> SUFFICES ASSUME s1' PROVE Comments!Settled(s2, s3)'
      OBVIOUS
    <3>1. PICK a, t : a = s2' /\ t = s3'
      OBVIOUS
    <3>2. Comments!Settled(a, t)
      <4>1. CASE s7[n].had
        <5>1. a = s7[n].all /\ t = s7[n].top
          BY <1>15, <3>1, <4>1 DEF Comments!PostFails, Comments!Rollback
        <5> QED BY <1>2, <2>3, <4>1, <5>1
      <4>2. CASE ~s7[n].had
        <5>1. a = s2 /\ t = s3
          BY <1>15, <3>1, <4>2 DEF Comments!PostFails, Comments!Rollback
        <5>2. s1' = (s1 \/ s7[n].had)
          BY <1>15 DEF Comments!PostFails
        <5>3. s1
          BY <4>2, <5>2
        <5> QED BY <1>2, <2>3, <4>2, <5>1, <5>3
      <4> QED BY <4>1, <4>2
    <3> QED BY <1>1, <2>2, <2>3, <2>5, <2>6, <3>1, <3>2, SettledNext
  <2>9. \A m \in DOMAIN s7' :
          /\ s7'[m].st \in {"cancelling", "sent", "failed"} => m \notin s9'
          /\ s7'[m].st = "posted" /\ m \in s9' /\ m \notin s10' => m \in s8'
          /\ s7'[m].st = "posted" /\ m \in s9' /\ m \notin s8' /\ s5' = "seen" => m \in s6'
          /\ s7'[m].st # "cancelling" /\ s7'[m].st # "sent"
    BY <1>2, <2>2, <2>3, <2>4, <2>5, <2>6
  <2>10. /\ Comments!Pending' = {}
         /\ \A m \in s6' : s7'[m].st \in {"posted", "stored"}
         /\ s1' => Comments!Settled(s2, s3)'
    BY <1>1, <1>2, <2>2, <2>3, <2>5, <2>7, <2>8
  <2> QED BY <2>9, <2>10, Zenon DEF Comments!Patience
<1> QED BY <1>3, <1>4, <1>5, <1>6, <1>7, <1>8, <1>9, <1>10, <1>12, <1>13, <1>14, <1>15
DEF Comments!Next

\* Every comment the relay keeps is shown once and at its level.
LEMMA CommentsStep ==
  /\ Comments!Init => Comments!CommentsInv
  /\ Comments!CommentsInv /\ [Comments!Next]_(Comments!vars) => Comments!CommentsInv'
  /\ Comments!CommentsInv => Comments!CommentsSettle
<1>1. Comments!Init => Comments!CommentsInv
  <2> SUFFICES ASSUME Comments!Init PROVE Comments!CommentsInv
    OBVIOUS
  <2>1. s1 = FALSE /\ s7 = <<>> /\ s8 = {} /\ s9 = {} /\ s10 = {} /\ s6 = {}
    BY DEF Comments!Init
  <2>2. s7 \in Seq(Comments!Range(s7)) /\ DOMAIN s7 = {}
    BY <2>1
  <2>3. Comments!PostTyped
    BY <2>1, <2>2 DEF Comments!PostTyped
  <2>4. Comments!Patience
    BY <2>1, <2>2 DEF Comments!Patience, Comments!Pending
  <2> QED BY <2>3, <2>4 DEF Comments!CommentsInv
<1>2. Comments!CommentsInv /\ [Comments!Next]_(Comments!vars) => Comments!CommentsInv'
  <2> SUFFICES ASSUME Comments!CommentsInv, [Comments!Next]_(Comments!vars)
               PROVE  Comments!CommentsInv'
    OBVIOUS
  <2>1. Comments!PostTyped'
    BY PostTypedStep DEF Comments!CommentsInv
  <2>2. s11' => s11
    <3>1. CASE Comments!Mount \/ Comments!See \/ Comments!Arrive \/ Comments!ReadFails \/ Comments!Index \/ UNCHANGED Comments!vars
      BY <3>1 DEF Comments!Mount, Comments!See, Comments!Arrive, Comments!ReadFails,
                  Comments!Index, Comments!vars
    <3>2. ASSUME NEW f, Comments!Submit(f) PROVE s11' => s11
      <4>1. s11' = (s11 /\ Comments!Pending = {} /\ s8 = {} /\ ~s4 /\ (s1 => s5 = "none"))
        BY <3>2 DEF Comments!Submit
      <4> QED BY <4>1
    <3>3. ASSUME NEW n, Comments!Mutate(n) \/ Comments!Store(n) \/ Comments!Posted(n) \/ Comments!Delete(n) \/ Comments!Refetch(n) PROVE s11' = s11
      BY <3>3 DEF Comments!Mutate, Comments!Store, Comments!Posted, Comments!Delete,
                  Comments!Refetch
    <3>4. ASSUME NEW n, Comments!PostFails(n) PROVE s11' => s11
      <4>1. s11' = (s11 /\ s7[n].st = "sent")
        BY <3>4 DEF Comments!PostFails
      <4> QED BY <4>1
    <3> QED BY <3>1, <3>2, <3>3, <3>4 DEF Comments!Next
  <2>3. s11' => Comments!Patience'
    BY <2>1, <2>2, PatienceStep DEF Comments!CommentsInv
  <2> QED BY <2>1, <2>3 DEF Comments!CommentsInv
<1>3. Comments!CommentsInv => Comments!CommentsSettle
  <2> SUFFICES ASSUME Comments!CommentsInv, s11, s1, ~s4, Comments!Pending = {}, s5 = "none", s8 = {}
               PROVE  /\ \A n \in s9 : n \in Comments!Range(s2) /\ (Comments!TopLevel(n) <=> n \in Comments!Range(s3))
                      /\ Comments!Once(s2) /\ Comments!Once(s3)
                      /\ \A n \in Comments!Range(s2) \union Comments!Range(s3) : n \in DOMAIN s7 /\ s7[n].st = "posted"
    BY Zenon DEF Comments!CommentsSettle
  <2>1. Comments!Settled(s2, s3)
    BY DEF Comments!CommentsInv, Comments!Patience
  <2>2. \A n \in s9 : s7[n].st = "posted"
    BY DEF Comments!CommentsInv, Comments!PostTyped, Comments!Patience, Comments!Pending
  <2> QED BY <2>1, <2>2 DEF Comments!Settled
<1> QED BY <1>1, <1>2, <1>3

\* The badge and the poll agree with the server, or say that they do not.
LEMMA CountStep ==
  /\ Notices!Init => Notices!CountInv
  /\ Notices!CountInv /\ [Notices!Next]_(Notices!vars) => Notices!CountInv'
  /\ Notices!CountInv => Notices!BadgeIsServers
<1>1. Notices!Init => Notices!CountInv
  <2> SUFFICES ASSUME Notices!Init PROVE Notices!CountInv
    OBVIOUS
  <2>1. s7 = [Notices!NoPoll EXCEPT !.st = "asked"] /\ s6 = Notices!None
    BY DEF Notices!Init
  <2>2. s7 = [st |-> "asked", n |-> 0, late |-> FALSE]
    BY <2>1 DEF Notices!NoPoll
  <2> QED BY <2>1, <2>2 DEF Notices!CountInv
<1>2. Notices!CountInv /\ [Notices!Next]_(Notices!vars) => Notices!CountInv'
  <2> SUFFICES ASSUME Notices!CountInv, [Notices!Next]_(Notices!vars) PROVE Notices!CountInv'
    OBVIOUS
  <2> DEFINE Whole(p) == p = [st |-> p.st, n |-> p.n, late |-> p.late]
  <2>1. /\ Whole(s7)
        /\ s8 = {} => /\ s7.st = "none" /\ ~s11 /\ s6 # Notices!None => s6 = Notices!Unread
                      /\ s7.st = "served" /\ ~s7.late => s7.n = Notices!Unread
    BY DEF Notices!CountInv
  <2>2. ASSUME Whole(s7'),
               s8' = {} => /\ s7'.st = "none" /\ ~s11' /\ s6' # Notices!None => s6' = Notices!Unread'
                           /\ s7'.st = "served" /\ ~s7'.late => s7'.n = Notices!Unread'
        PROVE  Notices!CountInv'
    BY <2>2 DEF Notices!CountInv
  <2>3. /\ Whole(Notices!NoPoll) /\ Notices!NoPoll.st = "none"
        /\ [Notices!NoPoll EXCEPT !.st = "asked"] = [st |-> "asked", n |-> 0, late |-> FALSE]
    <3>1. Notices!NoPoll = [st |-> "none", n |-> 0, late |-> FALSE]
      BY DEF Notices!NoPoll
    <3>2. \A l : [[st |-> "none", n |-> 0, late |-> l] EXCEPT !.st = "asked"]
                  = [st |-> "asked", n |-> 0, late |-> l]
      OBVIOUS
    <3>3. [Notices!NoPoll EXCEPT !.st = "asked"] = [st |-> "asked", n |-> 0, late |-> FALSE]
      BY <3>1, <3>2, Zenon
    <3> QED BY <3>1, <3>3
  <2>4. CASE UNCHANGED <<s1, s6, s7, s8, s11>>
    BY <2>1, <2>2, <2>4 DEF Notices!Unread
  <2>5. CASE Notices!Arrive
    <3>1. /\ s8' = s8 /\ s11' = TRUE /\ s7' = [s7 EXCEPT !.late = s7.st = "served"]
      BY <2>5 DEF Notices!Arrive
    <3>2. Whole(s7') /\ (s7'.st = "served" => s7'.late)
      BY <2>1, <3>1
    <3> HIDE DEF Whole
    <3> QED BY <2>2, <3>1, <3>2
  <2>6. CASE Notices!ServePoll
    <3>1. /\ s7' = [st |-> "served", n |-> Notices!Unread, late |-> FALSE]
          /\ UNCHANGED <<s1, s6, s8, s11>>
      BY <2>6 DEF Notices!ServePoll
    <3>2. Notices!Unread' = Notices!Unread
      BY <3>1 DEF Notices!Unread
    <3> QED BY <2>2, <3>1, <3>2
  <2>7. ASSUME NEW m \in s8, Notices!ServeMark(m) PROVE Notices!CountInv'
    <3>1. s7' = s7 /\ s8' # {}
      BY <2>7 DEF Notices!ServeMark
    <3> QED BY <2>1, <2>2, <3>1
  <2>8. CASE Notices!Poll
    <3>1. s7' = [st |-> "asked", n |-> 0, late |-> FALSE]
      BY <2>3, <2>8 DEF Notices!Poll
    <3> QED BY <2>2, <3>1
  <2>9. CASE Notices!PollAnswer
    <3>1. /\ s7.st = "served" /\ s6' = s7.n /\ s11' = s7.late /\ s7' = Notices!NoPoll
          /\ s8' = s8 /\ s1' = s1
      BY <2>9 DEF Notices!PollAnswer
    <3>2. Notices!Unread' = Notices!Unread
      BY <3>1 DEF Notices!Unread
    <3> HIDE DEF Whole
    <3> QED BY <2>1, <2>2, <2>3, <3>1, <3>2
  <2>10. CASE Notices!PollFails
    <3>1. s7' = Notices!NoPoll /\ s11' = TRUE
      BY <2>10 DEF Notices!PollFails
    <3> QED BY <2>2, <2>3, <3>1
  <2>11. CASE Notices!MarkRead
    <3>1. s7' = Notices!NoPoll /\ s8' # {}
      BY <2>11 DEF Notices!MarkRead
    <3> QED BY <2>2, <2>3, <3>1
  <2>12. ASSUME NEW m \in s8, Notices!MarkSettles(m) PROVE Notices!CountInv'
    <3>1. s7' = [st |-> "asked", n |-> 0, late |-> FALSE]
      BY <2>3, <2>12 DEF Notices!MarkSettles, Notices!Settled
    <3> QED BY <2>2, <3>1
  <2>13. CASE Notices!ServeRead \/ Notices!Open \/ Notices!Leave \/ Notices!Focus \/ Notices!FetchNext \/ Notices!ReadAnswer \/ Notices!ReadFails \/ UNCHANGED Notices!vars
    <3>1. UNCHANGED <<s1, s6, s7, s8, s11>>
      BY <2>13, Zenon DEF Notices!ServeRead, Notices!Open, Notices!Leave, Notices!Focus,
                          Notices!FetchNext, Notices!ReadAnswer, Notices!ReadFails, Notices!vars
    <3> QED BY <2>4, <3>1
  <2> QED BY <2>5, <2>6, <2>7, <2>8, <2>9, <2>10, <2>11, <2>12, <2>13 DEF Notices!Next
<1>3. Notices!CountInv => Notices!BadgeIsServers
  BY DEF Notices!CountInv, Notices!BadgeIsServers
<1> QED BY <1>1, <1>2, <1>3

\* What has been found is shown, in time; nothing is found before the relays are asked.
LEMMA FoundStep ==
  /\ Watch!Init => Watch!FoundInv
  /\ Watch!FoundInv /\ [Watch!Next]_(Watch!vars) => Watch!FoundInv'
  /\ Watch!FoundInv => Watch!FoundIsShown
<1>1. Watch!Init => Watch!FoundInv
  <2> SUFFICES ASSUME Watch!Init PROVE Watch!FoundInv
    OBVIOUS
  <2>1. /\ s10 = [loading |-> TRUE, viewer |-> FALSE, error |-> FALSE] /\ s1 \subseteq Watch!Author
        /\ s2 \subseteq Watch!Author /\ s5 = "connecting" /\ s6 = "off" /\ s7 = FALSE
        /\ s8 = Watch!Nobody /\ s4 = [r \in WatchRelay |-> [video |-> FALSE, author |-> Watch!Nobody]]
    BY DEF Watch!Init, Watch!Author
  <2>2. Watch!Nobody \notin Watch!Author
    BY DEF Watch!Nobody, Watch!Author
  <2> QED BY <2>1, <2>2 DEF Watch!FoundInv, Watch!FoundIsShown
<1>2. Watch!FoundInv /\ [Watch!Next]_(Watch!vars) => Watch!FoundInv'
  <2> SUFFICES ASSUME Watch!FoundInv, [Watch!Next]_(Watch!vars) PROVE Watch!FoundInv'
    OBVIOUS
  <2> DEFINE Whole(s) == s \in [loading : BOOLEAN, viewer : BOOLEAN, error : BOOLEAN]
             viewed == [loading |-> FALSE, viewer |-> TRUE, error |-> FALSE]
  <2>1. /\ Whole(s10) /\ s1 \subseteq Watch!Author /\ s2 \subseteq Watch!Author
        /\ s5 \in {"connecting", "fetching", "over"}
        /\ s5 = "connecting" => /\ s8 = Watch!Nobody /\ s6 = "off" /\ ~s7
                                /\ \A r \in WatchRelay : ~s4[r].video
        /\ s5 = "fetching" => s7
        /\ s8 # Watch!Nobody => ~s10.loading
        /\ s14 /\ s8 \in s2 /\ ~s11 => s10 = viewed
        /\ s5 = "over" => ~s10.loading
    BY DEF Watch!FoundInv, Watch!FoundIsShown
  <2>2. ASSUME Whole(s10'), UNCHANGED <<s1, s2>>,
               s5' \in {"connecting", "fetching", "over"},
               s5' = "connecting" => /\ s8' = Watch!Nobody /\ s6' = "off" /\ ~s7'
                                     /\ \A r \in WatchRelay : ~s4'[r].video,
               s5' = "fetching" => s7',
               s8' # Watch!Nobody => ~s10'.loading,
               s14' /\ s8' \in s2' /\ ~s11' => s10' = viewed,
               s5' = "over" => ~s10'.loading
        PROVE  Watch!FoundInv'
    BY <2>1, <2>2 DEF Watch!FoundInv, Watch!FoundIsShown
  <2>3. Whole(Watch!Error) /\ ~Watch!Error.loading
    BY DEF Watch!Error
  <2>4. Watch!Nobody \notin s2
    BY <2>1 DEF Watch!Nobody, Watch!Author
  <2> HIDE DEF Whole, viewed
  <2>5. CASE UNCHANGED <<s1, s2, s4, s5, s6, s7, s8, s10, s11, s14>>
    BY <2>1, <2>2, <2>5
  <2>6. CASE Watch!ConnectToRelays
    <3>1. /\ s5 = "connecting" /\ UNCHANGED <<s1, s2, s8, s11, s14>>
          /\ \/ s5' = "over" /\ s10' = Watch!Error
             \/ s5' = "fetching" /\ s7' = TRUE /\ s10' = s10
      BY <2>6 DEF Watch!ConnectToRelays, Watch!Given, Watch!Shown
    <3> QED BY <2>1, <2>2, <2>3, <2>4, <3>1
  <2>7. ASSUME NEW r \in WatchRelay, Watch!VideoEvent(r) PROVE Watch!FoundInv'
    <3>1. PICK a \in s1 : s8' = a /\ s10' = Watch!Displayed(a)
      BY <2>7 DEF Watch!VideoEvent
    <3>2. /\ s5 # "connecting" /\ s11' = FALSE /\ s14' = (s14 /\ ~s10.error)
          /\ UNCHANGED <<s1, s2, s5, s6, s7>>
      BY <2>1, <2>7 DEF Watch!VideoEvent, Watch!Given
    <3>3. CASE a \in s2
      <4>1. s10' = [s10 EXCEPT !.loading = FALSE, !.viewer = TRUE]
        BY <3>1, <3>3 DEF Watch!Displayed
      <4>2. Whole(s10') /\ ~s10'.loading /\ (~s10.error => s10' = viewed)
        <5>1. PICK f, t : f = FALSE /\ t = TRUE
          OBVIOUS
        <5>2. s10' = [s10 EXCEPT !.loading = f, !.viewer = t]
          BY <4>1, <5>1, Zenon
        <5>3. s10' = [loading |-> f, viewer |-> t, error |-> s10.error]
          BY <2>1, <5>2 DEF Whole
        <5>4. f \in BOOLEAN /\ t \in BOOLEAN /\ s10.error \in BOOLEAN
          BY <2>1, <5>1 DEF Whole
        <5>5. Whole(s10') /\ s10'.loading = f
          BY <5>3, <5>4 DEF Whole
        <5>6. ~s10'.loading
          BY <5>1, <5>5, Zenon
        <5>7. ASSUME ~s10.error PROVE s10' = viewed
          <6>1. s10.error = FALSE
            BY <5>4, <5>7
          <6> QED BY <5>1, <5>3, <6>1, Zenon DEF viewed
        <5> QED BY <5>5, <5>6, <5>7
      <4> QED BY <2>1, <2>2, <3>2, <4>2
    <3>4. CASE a \notin s2
      <4>1. s10' = Watch!Error
        BY <3>1, <3>4 DEF Watch!Displayed
      <4> QED BY <2>1, <2>2, <2>3, <3>1, <3>2, <3>4, <4>1
    <3> QED BY <3>3, <3>4
  <2>8. CASE Watch!CheckComplete
    <3>1. /\ s8 # Watch!Nobody /\ s5' = "over" /\ UNCHANGED <<s1, s2, s4, s10, s8, s11, s14>>
      BY <2>8 DEF Watch!CheckComplete, Watch!Given, Watch!Shown
    <3> QED BY <2>1, <2>2, <3>1
  <2>9. CASE Watch!TimedOut
    <3>1. /\ s6 = "running" /\ s5' = "over" /\ s10' = IF s5 = "over" THEN s10 ELSE Watch!Error
          /\ UNCHANGED <<s1, s2, s8, s11>>
      BY <2>9 DEF Watch!TimedOut, Watch!Given
    <3>2. s14' = (s14 /\ (s8 = Watch!Nobody \/ ~s7))
      BY <2>9 DEF Watch!TimedOut
    <3>3. s5 # "over" /\ s14' => s8 = Watch!Nobody
      BY <2>1, <3>1, <3>2
    <3> QED BY <2>1, <2>2, <2>3, <2>4, <3>1, <3>2, <3>3
  <2>10. CASE Watch!VideoBroken
    <3>1. /\ s11' = TRUE /\ s10' = Watch!Error
          /\ UNCHANGED <<s1, s2, s4, s5, s6, s7, s8, s14>>
      BY <2>10 DEF Watch!VideoBroken, Watch!Given
    <3> QED BY <2>1, <2>2, <2>3, <3>1
  <2>11. CASE Watch!Like
    BY <2>5, <2>11 DEF Watch!Like, Watch!Given
  <2>12. ASSUME NEW r \in WatchRelay, Watch!Connected(r) \/ Watch!Refused(r) \/ Watch!Lost(r) \/ Watch!ProfileEvent(r) PROVE Watch!FoundInv'
    <3>1. CASE Watch!Connected(r) \/ Watch!Refused(r) \/ Watch!Lost(r)
      BY <2>5, <3>1 DEF Watch!Connected, Watch!Refused, Watch!Lost, Watch!Given, Watch!Shown
    <3>2. CASE Watch!ProfileEvent(r)
      BY <2>5, <3>2 DEF Watch!ProfileEvent, Watch!Given
    <3> QED BY <2>12, <3>1, <3>2
  <2>13. CASE UNCHANGED Watch!vars
    BY <2>5, <2>13 DEF Watch!vars
  <2> QED BY <2>6, <2>7, <2>8, <2>9, <2>10, <2>11, <2>12, <2>13 DEF Watch!Next
<1>3. Watch!FoundInv => Watch!FoundIsShown
  BY DEF Watch!FoundInv
<1> QED BY <1>1, <1>2, <1>3

\* CalmScreenIsTrue for any things to mute, clicks, comments, notifications and relays: by
\* CalmInv a change that was sent has what the user wants and is not older than the relay's
\* list (useMuteItem), by TruthInv a reaction under way can be taken back or confirmed into
\* the truth (useOptimisticLike), by CommentsInv a comment that a search may miss still has
\* its refetch to come (usePostComment), by CountInv an answer that is late says so, and by
\* FoundInv what has been found is on the screen.
THEOREM CalmScreenIsTrueHolds == Spec => []CalmScreenIsTrue
<1> DEFINE MutedInv == part = "Mutes" => Mutes!CalmInv
           TruthInv == part = "Reactions" => Reactions!TruthInv
           CommentsInv == part = "Comments" => Comments!CommentsInv
           CountInv == part = "Notices" => Notices!CountInv
           FoundInv == part = "Watch" => Watch!FoundInv
<1>1. Init => MutedInv
  <2> SUFFICES ASSUME Init, part = "Mutes" PROVE Mutes!CalmInv
    OBVIOUS
  <2>1. Mutes!Init
    BY DEF Init
  <2> QED BY <2>1, WantedStep
<1>2. Init => TruthInv
  <2> SUFFICES ASSUME Init, part = "Reactions" PROVE Reactions!TruthInv
    OBVIOUS
  <2>1. Reactions!Init
    BY DEF Init
  <2> QED BY <2>1, TruthStep
<1>3. Init => CommentsInv
  <2> SUFFICES ASSUME Init, part = "Comments" PROVE Comments!CommentsInv
    OBVIOUS
  <2>1. Comments!Init
    BY DEF Init
  <2> QED BY <2>1, CommentsStep
<1>4. Init => CountInv
  <2> SUFFICES ASSUME Init, part = "Notices" PROVE Notices!CountInv
    OBVIOUS
  <2>1. Notices!Init
    BY DEF Init
  <2> QED BY <2>1, CountStep
<1>5. Init => FoundInv
  <2> SUFFICES ASSUME Init, part = "Watch" PROVE Watch!FoundInv
    OBVIOUS
  <2>1. Watch!Init
    BY DEF Init
  <2> QED BY <2>1, FoundStep
<1>6. MutedInv /\ [Next]_vars => MutedInv'
  <2> SUFFICES ASSUME MutedInv, [Next]_vars, part' = "Mutes"
               PROVE  (Mutes!CalmInv)'
    OBVIOUS
  <2>1. part = "Mutes" /\ [Mutes!Next]_(Mutes!vars)
    BY DEF Next, vars, Mutes!vars
  <2> QED BY <2>1, WantedStep
<1>7. TruthInv /\ [Next]_vars => TruthInv'
  <2> SUFFICES ASSUME TruthInv, [Next]_vars, part' = "Reactions"
               PROVE  (Reactions!TruthInv)'
    OBVIOUS
  <2>1. part = "Reactions" /\ [Reactions!Next]_(Reactions!vars)
    BY DEF Next, vars, Reactions!vars
  <2> QED BY <2>1, TruthStep
<1>8. CommentsInv /\ [Next]_vars => CommentsInv'
  <2> SUFFICES ASSUME CommentsInv, [Next]_vars, part' = "Comments"
               PROVE  (Comments!CommentsInv)'
    OBVIOUS
  <2>1. part = "Comments" /\ [Comments!Next]_(Comments!vars)
    BY DEF Next, vars, Comments!vars
  <2> QED BY <2>1, CommentsStep
<1>9. CountInv /\ [Next]_vars => CountInv'
  <2> SUFFICES ASSUME CountInv, [Next]_vars, part' = "Notices"
               PROVE  (Notices!CountInv)'
    OBVIOUS
  <2>1. part = "Notices" /\ [Notices!Next]_(Notices!vars)
    BY DEF Next, vars, Notices!vars
  <2> QED BY <2>1, CountStep
<1>10. FoundInv /\ [Next]_vars => FoundInv'
  <2> SUFFICES ASSUME FoundInv, [Next]_vars, part' = "Watch"
               PROVE  (Watch!FoundInv)'
    OBVIOUS
  <2>1. part = "Watch" /\ [Watch!Next]_(Watch!vars)
    BY DEF Next, vars, Watch!vars
  <2> QED BY <2>1, FoundStep
<1>11. MutedInv => (part = "Mutes" => Mutes!CalmListIsWanted)
  BY WantedStep
<1>12. TruthInv => (part = "Reactions" => Reactions!CalmShowsTruth)
  BY TruthStep
<1>13. CommentsInv => (part = "Comments" => Comments!CommentsSettle)
  BY CommentsStep
<1>14. CountInv => (part = "Notices" => Notices!BadgeIsServers)
  BY CountStep
<1>15. FoundInv => (part = "Watch" => Watch!FoundIsShown)
  BY FoundStep
<1>16. MutedInv /\ TruthInv /\ CommentsInv /\ CountInv /\ FoundInv => CalmScreenIsTrue
  BY <1>11, <1>12, <1>13, <1>14, <1>15 DEF CalmScreenIsTrue
<1> QED BY <1>1, <1>2, <1>3, <1>4, <1>5, <1>6, <1>7, <1>8, <1>9, <1>10, <1>16, PTL DEF Spec

=============================================================================
