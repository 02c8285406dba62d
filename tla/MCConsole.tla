------------------------------ MODULE MCConsole ------------------------------
(***************************************************************************)
(* The keycast web console and the login client, the forms and cards of    *)
(* the web client, and what works beside the pages: the edge worker, the   *)
(* reports, the mobile app's service worker and the crawlers. Each has     *)
(* state of its own: no two of these parts share a variable. One run       *)
(* checks them all: a behaviour is one of the part that Init chooses, on   *)
(* common variables.                                                       *)
(***************************************************************************)
EXTENDS Integers, Sequences, FiniteSets, TLC, SequenceTheorems,
        FiniteSetTheorems, TLAPS

CONSTANTS Visitors, VisitorActs, Passwords, Changes, LoginTabs, LoginFlows, LoginTokens,
          SignersMade, SignerActs, PolicyTexts, PolicyPermissions, ProfileLimit,
          ProfileVersions, ProfileUploads, ProfileActs, ItemActs, LoadsKept, LoadsTold,
          LoadTicks, SupportPersons, Imported, Unclaimed, AdminActs, TeamThings,
          TeamActs, ReportsKept, ReportsMade, CrawlEvents, CrawlBatch, CrawlLimit,
          CrawlPosts, CrawlStarts, PageAge, AnswerAge, EdgeTicks, NameChanges, EdgeAsks,
          Deployments, FileAsks

VARIABLES
  part,  \* what runs
  s1, s2, s3, s4, s5, s6, s7, s8, s9, s10, s11, s12, s13, s14, s15, s16, s17, s18, s19,
  s20

vars == <<part, s1, s2, s3, s4, s5, s6, s7, s8, s9, s10, s11, s12, s13, s14, s15, s16, s17,
          s18, s19, s20>>


\* A request whose page is gone is of no tab.
ASSUME GoneIsNoTab == "gone" \notin LoginTabs

\* How many versions a profile may have, and pictures be uploaded, are numbers.
ASSUME ProfileBounds == ProfileVersions \in Nat /\ ProfileUploads \in Nat

\* The unclaimed users are imported ones, and nobody is not one.
ASSUME UsersNamed == "nobody" \notin Imported /\ Unclaimed \subseteq Imported

\* How many videos a batch has, and reports a browser keeps, are numbers.
ASSUME BatchSizes == CrawlBatch \in Nat
ASSUME KeptReports == ReportsKept \in Nat

\* How long the edge keeps an answer, and an hour, are numbers of minutes.
ASSUME Ages == PageAge \in Nat /\ AnswerAge \in Nat /\ EdgeTicks \in Nat

Session == INSTANCE ConsoleSession
  WITH User <- Visitors, MaxAct <- VisitorActs, session <- s1, conns <- s2, user <- s3,
       method <- s4, page <- s5, auth <- s6, home <- s7, reads <- s8, entry <- s9,
       verify <- s10, gate <- s11, acts <- s12, calm <- s13
Settings == INSTANCE ConsoleSettings
  WITH Password <- Passwords, MaxAsk <- Changes, password <- s1, key <- s2, cookie <- s3,
       account <- s4, main <- s5, unlocked <- s6, exported <- s7, modal <- s8,
       asked <- s9, leaving <- s10, asks <- s11, calm <- s12
Admin == INSTANCE ConsoleAdmin
  WITH Person <- SupportPersons, User <- Imported, MaxAct <- AdminActs, admins <- s1,
       links <- s2, page <- s3, list <- s4, loading <- s5, reads <- s6, add <- s7,
       removals <- s8, result <- s9, searching <- s10, claim <- s11, lookups <- s12,
       checking <- s13, making <- s14, acts <- s15, calm <- s16, patient <- s17
Teams == INSTANCE ConsoleTeams
  WITH MaxMake <- TeamThings, MaxAct <- TeamActs, things <- s1, page <- s2, shown <- s3,
       read <- s4, answer <- s5, asks <- s6, modal <- s7, taken <- s8, made <- s9,
       acts <- s10, calm <- s11, single <- s12
Policy == INSTANCE PolicyForm
  WITH MaxText <- PolicyTexts, MaxPermission <- PolicyPermissions, identifier <- s1,
       config <- s2, text <- s3, object <- s4, due <- s5, permissions <- s6, saved <- s7
Login == INSTANCE KeycastLogin
  WITH Tab <- LoginTabs, MaxFlow <- LoginFlows, MaxToken <- LoginTokens, session <- s1,
       handle <- s2, pkce <- s3, tabs <- s4, calls <- s5, flows <- s6, codes <- s7,
       auths <- s8, made <- s9, patient <- s10
Signer == INSTANCE InjectedSigner
  WITH MaxSigner <- SignersMade, MaxAct <- SignerActs, token <- s1, last <- s2,
       held <- s3, signers <- s4, calls <- s5, hook <- s6, nostr <- s7, told <- s8,
       wrong <- s9, calm <- s10, acts <- s11
Profile == INSTANCE ProfileForm
  WITH Limit <- ProfileLimit, MaxVersion <- ProfileVersions, MaxUpload <- ProfileUploads,
       MaxAct <- ProfileActs, here <- s1, profiles <- s2, api <- s3, author <- s4,
       fetch <- s5, stored <- s6, batch <- s7, editing <- s8, form <- s9, touched <- s10,
       uploads <- s11, uploaded <- s12, save <- s13, settled <- s14, missed <- s15,
       acts <- s16
Item == INSTANCE VideoItem
  WITH MaxAct <- ItemActs, user <- s1, kind <- s2, mode <- s3, listed <- s4, full <- s5,
       kept <- s6, muted <- s7, before <- s8, tier <- s9, cues <- s10, item <- s11,
       lost <- s12, deletions <- s13, reports <- s14, thumbnail <- s15, ratio <- s16,
       thumbRatio <- s17, choice <- s18, sound <- s19, acts <- s20
Parser == INSTANCE VideoParser
  WITH MaxFallback <- 1, MaxTag <- 3, tags <- s1, video <- s2
Bandwidth == INSTANCE BandwidthTier
  WITH MAX_SAMPLES <- LoadsKept, MaxLoad <- LoadsTold, MaxTime <- LoadTicks,
       samples <- s1, tier <- s2, cards <- s3, due <- s4, clock <- s5, loads <- s6
Edge == INSTANCE EdgeWorker
  WITH MaxTime <- EdgeTicks, MaxChange <- NameChanges, MaxAsk <- EdgeAsks, names <- s1,
       changed <- s2, clock <- s3, changes <- s4, asks <- s5, cache <- s6, flight <- s7
Report == INSTANCE Reports
  WITH MaxKept <- ReportsKept, MaxReport <- ReportsMade, site <- s1, calls <- s2,
       tickets <- s3, told <- s4, stored <- s5, shown <- s6, fresh <- s7, settings <- s8,
       made <- s9
App == INSTANCE AppCaches
  WITH MaxDeploy <- Deployments, MaxAsk <- FileAsks, server <- s1, installed <- s2,
       caches <- s3, flight <- s4, given <- s5, asks <- s6, online <- s7, asked <- s8,
       missed <- s9
Crawl == INSTANCE Crawler
  WITH MaxEvent <- CrawlEvents, BATCH_SIZE <- CrawlBatch, Limit <- CrawlLimit,
       MaxPost <- CrawlPosts, MaxStart <- CrawlStarts, crawler <- s1, content <- s2,
       starts <- s3, running <- s4, tasks <- s5, seen <- s6, submitted <- s7,
       queue <- s8, sending <- s9, ending <- s10, file <- s11, posts <- s12,
       accepted <- s13, lost <- s14

\* The variables a part has no use for.
Idle20 == s20 = {}
Idle19 == s19 = {} /\ Idle20
Idle18 == s18 = {} /\ Idle19
Idle17 == s17 = {} /\ Idle18
Idle16 == s16 = {} /\ Idle17
Idle15 == s15 = {} /\ Idle16
Idle14 == s14 = {} /\ Idle15
Idle13 == s13 = {} /\ Idle14
Idle12 == s12 = {} /\ Idle13
Idle11 == s11 = {} /\ Idle12
Idle10 == s10 = {} /\ Idle11
Idle9 == s9 = {} /\ Idle10
Idle8 == s8 = {} /\ Idle9
Idle7 == s7 = {} /\ Idle8
Idle6 == s6 = {} /\ Idle7
Idle5 == s5 = {} /\ Idle6
Idle4 == s4 = {} /\ Idle5
Idle3 == s3 = {} /\ Idle4

Init ==
  \/ part = "Session" /\ Session!Init /\ Idle14
  \/ part = "Settings" /\ Settings!Init /\ Idle13
  \/ part = "Admin" /\ Admin!Init /\ Idle18
  \/ part = "Teams" /\ Teams!Init /\ Idle13
  \/ part = "Policy" /\ Policy!Init /\ Idle8
  \/ part = "Login" /\ Login!Init /\ Idle11
  \/ part = "Signer" /\ Signer!Init /\ Idle12
  \/ part = "Profile" /\ Profile!Init /\ Idle17
  \/ part = "Item" /\ Item!Init
  \/ part = "Parser" /\ Parser!Init /\ Idle3
  \/ part = "Bandwidth" /\ Bandwidth!Init /\ Idle7
  \/ part = "Edge" /\ Edge!Init /\ Idle8
  \/ part = "Report" /\ Report!Init /\ Idle10
  \/ part = "App" /\ App!Init /\ Idle10
  \/ part = "Crawl" /\ Crawl!Init /\ Idle15

Next ==
  \/ part = "Session" /\ Session!Next /\ UNCHANGED <<part, s14, s15, s16, s17, s18, s19, s20>>
  \/ part = "Settings" /\ Settings!Next /\ UNCHANGED <<part, s13, s14, s15, s16, s17, s18, s19, s20>>
  \/ part = "Admin" /\ Admin!Next /\ UNCHANGED <<part, s18, s19, s20>>
  \/ part = "Teams" /\ Teams!Next /\ UNCHANGED <<part, s13, s14, s15, s16, s17, s18, s19, s20>>
  \/ part = "Policy" /\ Policy!Next /\ UNCHANGED <<part, s8, s9, s10, s11, s12, s13, s14, s15, s16, s17, s18, s19, s20>>
  \/ part = "Login" /\ Login!Next /\ UNCHANGED <<part, s11, s12, s13, s14, s15, s16, s17, s18, s19, s20>>
  \/ part = "Signer" /\ Signer!Next /\ UNCHANGED <<part, s12, s13, s14, s15, s16, s17, s18, s19, s20>>
  \/ part = "Profile" /\ Profile!Next /\ UNCHANGED <<part, s17, s18, s19, s20>>
  \/ part = "Item" /\ Item!Next /\ UNCHANGED <<part>>
  \/ part = "Parser" /\ Parser!Next /\ UNCHANGED <<part, s3, s4, s5, s6, s7, s8, s9, s10, s11, s12, s13, s14, s15, s16, s17, s18,
       s19, s20>>
  \/ part = "Bandwidth" /\ Bandwidth!Next /\ UNCHANGED <<part, s7, s8, s9, s10, s11, s12, s13, s14, s15, s16, s17, s18, s19, s20>>
  \/ part = "Edge" /\ Edge!Next /\ UNCHANGED <<part, s8, s9, s10, s11, s12, s13, s14, s15, s16, s17, s18, s19, s20>>
  \/ part = "Report" /\ Report!Next /\ UNCHANGED <<part, s10, s11, s12, s13, s14, s15, s16, s17, s18, s19, s20>>
  \/ part = "App" /\ App!Next /\ UNCHANGED <<part, s10, s11, s12, s13, s14, s15, s16, s17, s18, s19, s20>>
  \/ part = "Crawl" /\ Crawl!Next /\ UNCHANGED <<part, s15, s16, s17, s18, s19, s20>>

Spec == Init /\ [][Next]_vars

-----------------------------------------------------------------------------
(* Properties. *)

\* Every part is in a state of its types.
TypeOK ==
  /\ part = "Session" => Session!TypeOK
  /\ part = "Settings" => Settings!TypeOK
  /\ part = "Admin" => Admin!TypeOK
  /\ part = "Teams" => Teams!TypeOK
  /\ part = "Policy" => Policy!TypeOK
  /\ part = "Login" => Login!TypeOK
  /\ part = "Signer" => Signer!TypeOK
  /\ part = "Profile" => Profile!TypeOK
  /\ part = "Item" => Item!TypeOK
  /\ part = "Parser" => Parser!TypeOK
  /\ part = "Bandwidth" => Bandwidth!TypeOK
  /\ part = "Edge" => Edge!TypeOK
  /\ part = "Report" => Report!TypeOK
  /\ part = "App" => App!TypeOK
  /\ part = "Crawl" => Crawl!TypeOK

\* Who the tab says is signed in is who the server acts for, once nothing is under way,
\* if one thing was done after another: sign-ins, sign-outs, checks of the cookie that
\* outlive their page, and e-mails verified in another tab (current_user.svelte.ts). The
\* signer that the web client offers to other code is the one of the session's token, or
\* none, and nothing is signed with a key other than the one that was told before, as
\* tokens come and go (useWindowNostrJWT, KeycastJWTSigner).
UserIsSession ==
  /\ part = "Session" => Session!UserIsSession
  /\ part = "Signer" => Signer!OfferedIsHeld /\ Signer!SignerIsTheSessions /\ Signer!SignedAsTold

\* When nothing is under way a page lists what the server has: the dashboard the app
\* connections, the administration the support admins, the pages of the teams what is
\* left of the things made and deleted on them. The history of reports has each one the
\* tab made (useReportHistory).
PageIsServers ==
  /\ part = "Session" => Session!ListIsServers
  /\ part = "Admin" => Admin!AdminsAreListed
  /\ part = "Teams" => Teams!PageIsServers
  /\ part = "Report" => Report!HistoryIsShown

\* Settings that are unlocked keep the password the account has, and a key they show is
\* the account's, unless a change is still under way (settings/security).
UnlockedIsCurrent == part = "Settings" => Settings!UnlockedIsCurrent

\* A secret that is shown is the right one, and one that cannot be shown again has been
\* shown: the claim link is the newest of the user it is shown with, and the bunker URL
\* of every authorization made was on the screen.
SecretIsShownOnce ==
  /\ part = "Admin" => Admin!LinkIsOfTheUser
  /\ part = "Teams" => Teams!UrlWasShown

\* Every permission of the policy that is sent says what the form's fields for its type
\* say when it is sent, though permissions share their objects (PermissionForm's effect).
\* A profile that is saved differs from the one it was made of in what the user has set
\* and in nothing else, and the next edit starts from what was saved, though the query is
\* answered from the cache, unless that had more versions than it looks at
\* (EditProfileForm, cachedNostr.ts).
SavedIsTheForms ==
  /\ part = "Policy" => Policy!SavedAsTheFormSays
  /\ part = "Profile" => Profile!SaveChangesTouched /\ Profile!SavedIsSeen

\* With no request under way the stored session can be refreshed: refresh tokens are
\* good once, and a failed or lost refresh leaves none that is spent
\* (getSessionWithRefresh). The RPC client signs with the credentials the page shows.
SessionIsLive == part = "Login" => Login!SessionIsLive /\ Login!RpcIsOfCredentials

\* What is said to be done was done, whatever failed on the way: a visitor who is told
\* that a report was sent has a ticket (useAnonymousReport); a video the crawler's
\* database has as submitted was taken by the API, and one of an event that was noted is
\* not forgotten while the process lives, unless its look-up failed after it was noted
\* (processVideoEvent, submitVideoBatch). And a deletion is asked for in the author's name
\* only (useDeleteVideo).
SaidIsDone ==
  /\ part = "Report" => Report!SentIsTicket
  /\ part = "Crawl" => Crawl!NotForgotten /\ Crawl!SubmittedIsAccepted
  /\ part = "Item" => Item!DeletionsAreOwn

\* What a cache gives is what was asked for, and no older than it says: pages and answers
\* about names at the edge, with requests that overlap a change of the name (compute-js),
\* and the files of the mobile app, which are behind by one visit at most (sw.js).
KeptIsCurrent ==
  /\ part = "Edge" => Edge!PageIsTheHosts /\ Edge!LapsesInTime
  /\ part = "App" => App!CatchesUp

\* What is read out of an event is of one piece, however its tags are put together: a
\* video plays from a file if it has one, its addresses are of one version, and it is
\* shown as proven if a tag says so (videoParser.ts). The tier of the line is what the
\* last loads have in common; none that is too old weighs (bandwidthTracker.ts). The
\* simple crawler lists a video once, though its events may be looked up before either
\* has a row.
ListsAreRead ==
  /\ part = "Parser" => Parser!FileBeforeStream /\ Parser!AddressesBelongTogether /\ Parser!ProofIsClaimed
  /\ part = "Bandwidth" => Bandwidth!TierIsOfTheLast
  /\ part = "Crawl" => Crawl!ListedOnce

\* A video's card shows subtitles and sounds as was last chosen, on whichever of its two
\* screens, keeps the shape that was declared, and asks for the stream of the tier, unless
\* it is about to be rendered (VideoCard, FullscreenVideoItem, useBandwidthTier.ts).
CardIsAsChosen ==
  /\ part = "Item" => Item!SubtitlesAsChosen /\ Item!SoundComesBack /\ Item!ShapeIsTrusted
  /\ part = "Bandwidth" => Bandwidth!CardsFollow

-----------------------------------------------------------------------------
(* Proofs, part by part. A part's steps leave it the part it is, and its    *)
(* variables in the states of its own specification: its invariants are     *)
(* invariants here. Its variables are named as its INSTANCE above says.     *)

\* SettingsInv is inductive: a change is sent by settings that were unlocked, a check by
\* settings that were not.
LEMMA SettingsHold ==
  /\ Settings!Init => Settings!SettingsInv
  /\ Settings!SettingsInv /\ [Settings!Next]_(Settings!vars) => Settings!SettingsInv'
<1>0. /\ Settings!No \in [at : Settings!At, who : Nat, with : Passwords \cup {Settings!Empty},
                         new : Passwords \cup {Settings!Empty}, key : Nat]
      /\ Settings!No.at = "idle"
  BY DEF Settings!No, Settings!At
<1>1. Settings!Init => Settings!SettingsInv
  <2> SUFFICES ASSUME Settings!Init PROVE Settings!SettingsInv
    OBVIOUS
  <2>1. s9 = [k \in Settings!Kind |-> Settings!No]
    BY DEF Settings!Init
  <2>2. \A k \in Settings!Kind : s9[k].at = "idle"
    BY <1>0, <2>1
  <2>3. Settings!Typed
    <3>1. s2 = 1 /\ s3 = 1 /\ s7 = 0 /\ s6 = FALSE /\ s10 = FALSE /\ s12 = TRUE
      BY DEF Settings!Init
    <3>2. s9 \in [Settings!Kind -> [at : Settings!At, who : Nat, with : Passwords \cup {Settings!Empty},
                                   new : Passwords \cup {Settings!Empty}, key : Nat]]
      BY <1>0, <2>1
    <3>3. s6 \in BOOLEAN /\ s10 \in BOOLEAN /\ s12 \in BOOLEAN
      BY <3>1, Zenon
    <3>4. s5 \in Passwords \cup {Settings!Empty} /\ s2 \in Nat \ {0} /\ s3 \in Nat /\ s7 \in Nat
      BY <3>1 DEF Settings!Init
    <3> QED BY <3>2, <3>3, <3>4 DEF Settings!Typed
  <2>4. /\ s9["verify"].at = "idle" /\ s9["password"].at = "idle"
        /\ s9["export"].at = "idle" /\ s9["key"].at = "idle" /\ ~s6 /\ s7 = 0
    BY <2>2 DEF Settings!Init, Settings!Kind
  <2> QED BY <2>3, <2>4 DEF Settings!SettingsInv, Settings!Idle
<1>2. Settings!SettingsInv /\ [Settings!Next]_(Settings!vars) => Settings!SettingsInv'
  <2> SUFFICES ASSUME Settings!SettingsInv, [Settings!Next]_(Settings!vars)
               PROVE  Settings!SettingsInv'
    OBVIOUS
  <2> USE DEF Settings!Idle
  <2>0. /\ s5 \in Passwords \cup {Settings!Empty} /\ s2 \in Nat \ {0} /\ s3 \in Nat /\ s7 \in Nat
        /\ s6 \in BOOLEAN /\ s10 \in BOOLEAN /\ s12 \in BOOLEAN
    BY DEF Settings!SettingsInv, Settings!Typed
  <2>1. CASE \/ UNCHANGED Settings!vars \/ Settings!FetchAccount \/ Settings!AccountArrives
             \/ Settings!OpenModal \/ Settings!Cancel \/ (\E p \in Passwords : Settings!Type(p))
    <3>1. /\ UNCHANGED <<s1, s2, s3, s6, s7, s9, s10, s12>>
          /\ s5' = s5 \/ (~s6 /\ Settings!Idle("verify"))
          /\ s5' \in Passwords \cup {Settings!Empty}
      BY <2>0, <2>1
      DEF Settings!vars, Settings!session, Settings!server, Settings!view,
          Settings!FetchAccount, Settings!AccountArrives, Settings!OpenModal, Settings!Cancel,
          Settings!SetModal, Settings!Type
    <3>2. Settings!Typed'
      BY <3>1 DEF Settings!SettingsInv, Settings!Typed
    <3> QED BY <3>1, <3>2 DEF Settings!SettingsInv
  <2>2. ASSUME NEW k \in Settings!Kind, NEW new \in Passwords \cup {Settings!Empty}, Settings!Ask(k, new),
               k = "verify" => ~s6, k = "password" => s6
        PROVE  Settings!SettingsInv'
    <3>1. /\ UNCHANGED <<s1, s2, s3, s5, s6, s7, s10>>
          /\ s9' = [s9 EXCEPT ![k] = [at |-> "sent", who |-> s3, with |-> s5,
                                      new |-> new, key |-> 0]]
      BY <2>2 DEF Settings!Ask, Settings!session, Settings!server, Settings!view
    <3>2. /\ \A j \in Settings!Kind : j # k => s9'[j] = s9[j]
          /\ s9[k].at = "idle" /\ s9'[k].at = "sent" /\ s9'[k].with = s5
      BY <2>2, <3>1 DEF Settings!SettingsInv, Settings!Typed, Settings!Ask
    <3>7. s12' = (s12 /\ (k \in Settings!Change => \A c \in Settings!Change : Settings!Idle(c)))
      BY <2>2 DEF Settings!Ask
    <3>8. /\ s12' \in BOOLEAN
          /\ s12' => s12 /\ (k \in Settings!Change => \A c \in Settings!Change : Settings!Idle(c))
      BY <2>0, <3>7, Zenon
    <3>9. s12' => s12 /\ (k \in {"password", "key"} => Settings!Idle("password") /\ Settings!Idle("key"))
      BY <3>8 DEF Settings!Change
    <3>3. Settings!Typed'
      <4>1. s9' \in [Settings!Kind -> [at : Settings!At, who : Nat, with : Passwords \cup {Settings!Empty},
                                       new : Passwords \cup {Settings!Empty}, key : Nat]]
        BY <2>0, <3>1 DEF Settings!SettingsInv, Settings!Typed, Settings!At
      <4> QED BY <2>0, <3>1, <3>8, <4>1 DEF Settings!Typed
    <3>4. CASE k = "verify"
      BY <2>2, <3>1, <3>2, <3>3, <3>4, <3>9 DEF Settings!SettingsInv, Settings!Kind
    <3>5. CASE k = "password"
      BY <2>2, <3>1, <3>2, <3>3, <3>5, <3>9 DEF Settings!SettingsInv, Settings!Kind
    <3>6. CASE k \in {"export", "key"}
      BY <3>1, <3>2, <3>3, <3>6, <3>9 DEF Settings!SettingsInv, Settings!Kind
    <3> QED BY <3>4, <3>5, <3>6 DEF Settings!Kind
  <2>3. CASE Settings!Verify \/ Settings!Export \/ Settings!ChangeKey \/ (\E p \in Passwords : Settings!ChangePassword(p))
    BY <2>2, <2>3 DEF Settings!Verify, Settings!Export, Settings!ChangeKey,
                      Settings!ChangePassword, Settings!Kind
  <2>4. CASE Settings!Lock
    BY <2>4 DEF Settings!SettingsInv, Settings!Typed, Settings!Lock, Settings!Locked,
                Settings!session, Settings!server, Settings!Kind
  <2>11. CASE Settings!Reload
    <3>1. s9' = [k \in Settings!Kind |-> Settings!No] /\ \A k \in Settings!Kind : s9'[k].at = "idle"
      BY <1>0, <2>11 DEF Settings!Reload
    <3>2. s12' = (s12 /\ \A c \in Settings!Change : Settings!Idle(c))
      BY <2>11 DEF Settings!Reload
    <3>3. s12' \in BOOLEAN /\ (s12' => s12)
      BY <2>0, <3>2, Zenon
    <3>4. Settings!Typed'
      BY <1>0, <2>11, <3>1, <3>3 DEF Settings!Reload, Settings!session, Settings!server,
                                     Settings!SettingsInv, Settings!Typed
    <3> QED BY <2>11, <3>1, <3>4 DEF Settings!Reload, Settings!SettingsInv, Settings!Kind
  <2>5. ASSUME NEW k \in Settings!Kind, Settings!CheckPassword(k) PROVE Settings!SettingsInv'
    <3>1. UNCHANGED <<s1, s2, s3, s5, s6, s7, s10, s12>>
      BY <2>5 DEF Settings!CheckPassword, Settings!session, Settings!server, Settings!view
    <3>2. PICK at : /\ at \in {"refused", "checked", "done"}
                    /\ at = "refused" \/ s9[k].with = s1
                    /\ at = "done" => k = "verify"
                    /\ s9' = [s9 EXCEPT ![k].at = at]
      BY <2>5 DEF Settings!CheckPassword
    <3>3. /\ s9[k].at = "sent" /\ s9'[k].at = at
          /\ \A j \in Settings!Kind : j # k => s9'[j] = s9[j]
          /\ s9'[k].with = s9[k].with
      BY <2>5, <3>2 DEF Settings!CheckPassword, Settings!SettingsInv, Settings!Typed
    <3>4. Settings!Typed'
      BY <3>1, <3>2 DEF Settings!SettingsInv, Settings!Typed, Settings!At
    <3>5. CASE k = "verify"
      BY <3>1, <3>2, <3>3, <3>4, <3>5 DEF Settings!SettingsInv, Settings!Kind
    <3>6. CASE k = "password"
      BY <3>1, <3>2, <3>3, <3>4, <3>6 DEF Settings!SettingsInv, Settings!Kind
    <3>7. CASE k = "key"
      BY <3>1, <3>2, <3>3, <3>4, <3>7 DEF Settings!SettingsInv, Settings!Kind
    <3>8. CASE k = "export"
      BY <3>1, <3>2, <3>3, <3>4, <3>8 DEF Settings!SettingsInv, Settings!Kind
    <3> QED BY <3>5, <3>6, <3>7, <3>8 DEF Settings!Kind
  <2>12. CASE Settings!ExportKey
    <3>1. UNCHANGED <<s1, s2, s3, s5, s6, s7, s10, s12>>
      BY <2>12 DEF Settings!ExportKey, Settings!session, Settings!server, Settings!view
    <3>2. PICK at : /\ at \in {"refused", "done"} /\ (at = "done" => s9["export"].who = s2)
                    /\ s9' = [s9 EXCEPT !["export"].at = at,
                                        !["export"].key = s9["export"].who]
      BY <2>12 DEF Settings!ExportKey
    <3>3. /\ "export" \in Settings!Kind /\ s9'["export"].at = at
          /\ s9'["export"].key = s9["export"].who
          /\ \A j \in Settings!Kind : j # "export" => s9'[j] = s9[j]
      BY <3>2 DEF Settings!SettingsInv, Settings!Typed, Settings!Kind
    <3>4. Settings!Typed'
      <4>1. s9["export"].who \in Nat
        BY <3>3 DEF Settings!SettingsInv, Settings!Typed
      <4> QED BY <3>1, <3>2, <4>1 DEF Settings!SettingsInv, Settings!Typed, Settings!At
    <3> QED BY <3>1, <3>2, <3>3, <3>4 DEF Settings!SettingsInv, Settings!Kind
  <2>13. CASE Settings!UpdatePassword
    <3>1. UNCHANGED <<s2, s3, s5, s6, s7, s10, s12>>
      BY <2>13 DEF Settings!UpdatePassword, Settings!view
    <3>2. s9' = [s9 EXCEPT !["password"].at = "done"] /\ s9["password"].at = "checked"
      BY <2>13 DEF Settings!UpdatePassword
    <3>3. /\ "password" \in Settings!Kind /\ s9'["password"].at = "done"
          /\ s9'["password"].with = s9["password"].with
          /\ \A j \in Settings!Kind : j # "password" => s9'[j] = s9[j]
      BY <3>2 DEF Settings!SettingsInv, Settings!Typed, Settings!Kind
    <3>4. Settings!Typed'
      BY <3>1, <3>2 DEF Settings!SettingsInv, Settings!Typed, Settings!At
    <3> QED BY <3>1, <3>2, <3>3, <3>4 DEF Settings!SettingsInv, Settings!Kind
  <2>14. CASE Settings!ChangeKeyTransaction
    <3>1. /\ UNCHANGED <<s3, s5, s6, s7, s10, s12>>
          /\ s2' = s2 + 1 /\ s1' = s9["key"].with
      BY <2>14 DEF Settings!ChangeKeyTransaction, Settings!view
    <3>2. s9' = [s9 EXCEPT !["key"].at = "done"] /\ s9["key"].at = "checked"
      BY <2>14 DEF Settings!ChangeKeyTransaction
    <3>3. /\ "key" \in Settings!Kind /\ s9'["key"].at = "done"
          /\ s9'["key"].with = s9["key"].with
          /\ \A j \in Settings!Kind : j # "key" => s9'[j] = s9[j]
      BY <3>2 DEF Settings!SettingsInv, Settings!Typed, Settings!Kind
    <3>4. Settings!Typed'
      <4>1. s9["key"].with \in Passwords \cup {Settings!Empty} /\ s2 + 1 \in Nat \ {0}
        BY <2>0, <3>3 DEF Settings!SettingsInv, Settings!Typed
      <4>2. s9' \in [Settings!Kind -> [at : Settings!At, who : Nat, with : Passwords \cup {Settings!Empty},
                                       new : Passwords \cup {Settings!Empty}, key : Nat]]
        BY <3>2 DEF Settings!SettingsInv, Settings!Typed, Settings!At
      <4> QED BY <2>0, <3>1, <4>1, <4>2 DEF Settings!Typed
    <3> QED BY <3>1, <3>2, <3>3, <3>4 DEF Settings!SettingsInv, Settings!Kind
  <2>6. CASE Settings!Verified
    BY <1>0, <2>6 DEF Settings!SettingsInv, Settings!Typed, Settings!Verified,
                      Settings!Answered, Settings!session, Settings!server, Settings!Kind
  <2>7. CASE Settings!Exported
    BY <1>0, <2>7 DEF Settings!SettingsInv, Settings!Typed, Settings!Exported,
                      Settings!Answered, Settings!session, Settings!server, Settings!Kind
  <2>8. CASE Settings!PasswordChanged
    BY <1>0, <2>8 DEF Settings!SettingsInv, Settings!Typed, Settings!PasswordChanged,
                      Settings!Answered, Settings!Locked, Settings!session, Settings!server,
                      Settings!Kind
  <2>9. CASE Settings!KeyChanged
    BY <1>0, <2>9 DEF Settings!SettingsInv, Settings!Typed, Settings!KeyChanged,
                      Settings!Answered, Settings!server, Settings!Kind
  <2>10. ASSUME NEW k \in Settings!Kind, Settings!Refused(k) \/ Settings!Lost(k) PROVE Settings!SettingsInv'
    <3>1. /\ UNCHANGED <<s1, s2, s5, s6, s7, s10>>
          /\ s9' = [s9 EXCEPT ![k] = Settings!No] /\ s12' \in BOOLEAN
          /\ s3' \in Nat /\ (s12' => s12 /\ s9[k].at # "done")
      <4>1. CASE Settings!Refused(k)
        BY <2>0, <4>1 DEF Settings!Refused, Settings!session, Settings!server, Settings!view
      <4>2. CASE Settings!Lost(k)
        <5>1. UNCHANGED <<Settings!server, Settings!view, s10>> /\ s9' = [s9 EXCEPT ![k] = Settings!No]
          BY <4>2 DEF Settings!Lost
        <5>2. s12' = (s12 /\ s9[k].at = "sent") /\ s3' \in {s3, s2}
          BY <4>2 DEF Settings!Lost
        <5>3. s12' \in BOOLEAN /\ (s12' => s12 /\ s9[k].at = "sent")
          BY <5>2, Zenon
        <5>4. s12' => s12 /\ s9[k].at # "done"
          BY <5>3
        <5> QED BY <2>0, <5>1, <5>2, <5>3, <5>4 DEF Settings!server, Settings!view
      <4> QED BY <2>10, <4>1, <4>2
    <3>2. (\A j \in Settings!Kind : j # k => s9'[j] = s9[j]) /\ s9'[k].at = "idle"
      BY <1>0, <3>1 DEF Settings!SettingsInv, Settings!Typed
    <3>3. Settings!Typed'
      BY <1>0, <3>1 DEF Settings!SettingsInv, Settings!Typed
    <3> QED BY <2>0, <3>1, <3>2, <3>3 DEF Settings!SettingsInv, Settings!Kind
  <2> QED
    BY <2>1, <2>3, <2>4, <2>5, <2>6, <2>7, <2>8, <2>9, <2>10, <2>11, <2>12,
       <2>13, <2>14 DEF Settings!Next
<1> QED BY <1>1, <1>2

\* UnlockedIsCurrent for any passwords and any number of changes (settings/security): by
\* SettingsInv, what is under way on either side of the lock.
THEOREM UnlockedIsCurrentHolds == Spec => []UnlockedIsCurrent
<1> DEFINE Inv == part = "Settings" => Settings!SettingsInv
<1>1. Init => Inv
  <2> SUFFICES ASSUME Init, part = "Settings" PROVE Settings!SettingsInv
    OBVIOUS
  <2>1. Settings!Init
    BY DEF Init
  <2> QED BY <2>1, SettingsHold
<1>2. Inv /\ [Next]_vars => Inv'
  <2> SUFFICES ASSUME Inv, [Next]_vars, part' = "Settings"
               PROVE  (Settings!SettingsInv)'
    OBVIOUS
  <2>1. part = "Settings" /\ [Settings!Next]_(Settings!vars)
    BY DEF Next, vars, Settings!vars
  <2> QED BY <2>1, SettingsHold
<1>3. Inv => UnlockedIsCurrent
  BY DEF Settings!SettingsInv, Settings!UnlockedIsCurrent, Settings!Typed, Settings!Idle,
         UnlockedIsCurrent
<1> QED BY <1>1, <1>2, <1>3, PTL DEF Spec

-----------------------------------------------------------------------------
\* What a request is made of, and what it becomes.
LEMMA RequestFields ==
  \A d, t, verifier : \A kind \in {"exchange", "refresh"}, arg \in Nat :
    d = Login!Request(t, kind, arg, verifier) =>
      Login!Whole(d) /\ d.tab = t /\ d.kind = kind /\ d.arg = arg /\ d.st = "sent"
BY DEF Login!Request, Login!Whole

\* A request whose page is gone is the request it was.
LEMMA OrphanFields ==
  \A c, d : Login!Whole(c) /\ d = [c EXCEPT !.tab = "gone"] =>
    Login!Whole(d) /\ d.st = c.st /\ d.auth = c.auth /\ d.token = c.token
<1> SUFFICES ASSUME NEW c, NEW d, Login!Whole(c), d = [c EXCEPT !.tab = "gone"]
             PROVE  Login!Whole(d) /\ d.st = c.st /\ d.auth = c.auth /\ d.token = c.token
  OBVIOUS
<1>1. d = [n |-> c.n, tab |-> "gone", kind |-> c.kind, arg |-> c.arg,
           verifier |-> c.verifier, st |-> c.st, auth |-> c.auth, token |-> c.token]
  BY DEF Login!Whole
<1>2. c.kind \in {"exchange", "refresh"} /\ c.arg \in Nat /\ c.auth \in Nat /\ c.token \in Nat
  BY DEF Login!Whole
<1> QED BY <1>1, <1>2 DEF Login!Whole

\* A request that is answered keeps what it asked.
LEMMA AnswerFields ==
  \A c, d : \A a, n \in Nat : Login!Whole(c) /\ d = [c EXCEPT !.st = "ok", !.auth = a, !.token = n] =>
    /\ Login!Whole(d) /\ d.tab = c.tab /\ d.kind = c.kind /\ d.arg = c.arg
    /\ d.st = "ok" /\ d.auth = a /\ d.token = n
<1> TAKE c, d
<1> TAKE a, n \in Nat
<1> HAVE Login!Whole(c) /\ d = [c EXCEPT !.st = "ok", !.auth = a, !.token = n]
<1>1. d = [n |-> c.n, tab |-> c.tab, kind |-> c.kind, arg |-> c.arg,
           verifier |-> c.verifier, st |-> "ok", auth |-> a, token |-> n]
  <2>1. c = [n |-> c.n, tab |-> c.tab, kind |-> c.kind, arg |-> c.arg, verifier |-> c.verifier,
             st |-> c.st, auth |-> c.auth, token |-> c.token]
    BY DEF Login!Whole
  <2>2. DOMAIN c = {"n", "tab", "kind", "arg", "verifier", "st", "auth", "token"}
    BY <2>1
  <2>3. /\ DOMAIN d = DOMAIN c
        /\ \A x \in DOMAIN c : d[x] = IF x = "st" THEN "ok" ELSE IF x = "auth" THEN a
                                      ELSE IF x = "token" THEN n ELSE c[x]
    BY <2>2
  <2> QED BY <2>2, <2>3
<1>2. c.arg \in Nat /\ c.kind \in {"exchange", "refresh"}
  BY DEF Login!Whole
<1> QED BY <1>1, <1>2 DEF Login!Whole

\* The page that is shown after a mount.
LEMMA MountedFields ==
  Login!Typed => \A f \in Nat : Login!Mounted(f) \in Login!Page /\ Login!Mounted(f).rpc = 0
<1> SUFFICES ASSUME Login!Typed, NEW f \in Nat
             PROVE  Login!Mounted(f) \in Login!Page /\ Login!Mounted(f).rpc = 0
  OBVIOUS
<1>1. s1.auth \in Nat
  BY DEF Login!Typed
<1>2. PICK st \in {"idle", "loading", "success", "error"} :
        Login!Mounted(f) = [page |-> "demo", flow |-> f, prev |-> 0, cred |-> s1.auth,
                            rpc |-> 0, status |-> st, calling |-> FALSE]
  BY DEF Login!Mounted, Login!Blank
<1> QED BY <1>1, <1>2 DEF Login!Page

\* The pages a visit begins with.
LEMMA BlankFields ==
  /\ \A f, p, d : d = [Login!Blank EXCEPT !.page = "server", !.flow = f, !.prev = p] =>
       d = [page |-> "server", flow |-> f, prev |-> p, cred |-> 0, rpc |-> 0, status |-> "idle",
            calling |-> FALSE]
  /\ \A f, st, d : d = [Login!Blank EXCEPT !.flow = f, !.status = st] =>
       d = [page |-> "demo", flow |-> f, prev |-> 0, cred |-> 0, rpc |-> 0, status |-> st,
            calling |-> FALSE]
<1>1. ASSUME NEW f, NEW p, NEW d, d = [Login!Blank EXCEPT !.page = "server", !.flow = f, !.prev = p]
      PROVE  d = [page |-> "server", flow |-> f, prev |-> p, cred |-> 0, rpc |-> 0,
                  status |-> "idle", calling |-> FALSE]
  BY <1>1 DEF Login!Blank
<1>2. ASSUME NEW f, NEW st, NEW d, d = [Login!Blank EXCEPT !.flow = f, !.status = st]
      PROVE  d = [page |-> "demo", flow |-> f, prev |-> 0, cred |-> 0, rpc |-> 0,
                  status |-> st, calling |-> FALSE]
  BY <1>2 DEF Login!Blank
<1> QED BY <1>1, <1>2

\* The authorizations after the one a flow renewed was revoked.
LEMMA ServedSeq ==
  \A s, p : s8 \in Seq(Login!Authorization)
             /\ s = [a \in DOMAIN s8 |->
                      IF a = p THEN [token |-> 0, revoked |-> TRUE] ELSE s8[a]] =>
           s \in Seq(Login!Authorization) /\ Len(s) = Len(s8)
<1> SUFFICES ASSUME NEW s, NEW p, s8 \in Seq(Login!Authorization),
                    s = [a \in DOMAIN s8 |->
                          IF a = p THEN [token |-> 0, revoked |-> TRUE] ELSE s8[a]]
             PROVE  s \in Seq(Login!Authorization) /\ Len(s) = Len(s8)
  OBVIOUS
<1>1. /\ DOMAIN s8 = 1..Len(s8) /\ Len(s8) \in Nat
      /\ \A a \in DOMAIN s8 : s8[a] \in Login!Authorization
  OBVIOUS
<1>2. [token |-> 0, revoked |-> TRUE] \in Login!Authorization
  BY DEF Login!Authorization
<1>3. s \in [1..Len(s8) -> Login!Authorization]
  BY <1>1, <1>2
<1> QED BY <1>1, <1>3, SeqDef

\* The pages, the authorizations and the requests keep their types.
LEMMA LoginTyped ==
  /\ Login!Init => Login!Typed /\ Login!LiveInv /\ Login!RpcIsOfCredentials
  /\ Login!Typed /\ [Login!Next]_(Login!vars) => Login!Typed'
<1>1. Login!Init => Login!Typed /\ Login!LiveInv /\ Login!RpcIsOfCredentials
  <2> SUFFICES ASSUME Login!Init PROVE Login!Typed /\ Login!LiveInv /\ Login!RpcIsOfCredentials
    OBVIOUS
  <2>1. Login!Blank \in Login!Page /\ Login!Blank.rpc = 0
    BY DEF Login!Blank, Login!Page
  <2>2. s1 = Login!NoSession /\ s2 = 0 /\ s6 = 0 /\ s9 = 0 /\ s8 = <<>> /\ s5 = {}
        /\ s4 = [t \in LoginTabs |-> Login!Blank]
    BY DEF Login!Init
  <2>3. s1 \in [auth : Nat, token : Nat, age : {"fresh", "old"}] /\ s1.auth = 0
    BY <2>2 DEF Login!NoSession
  <2>4. s4 \in [LoginTabs -> Login!Page] /\ \A t \in LoginTabs : s4[t].rpc = 0
    BY <2>1, <2>2
  <2> QED BY <2>2, <2>3, <2>4 DEF Login!Typed, Login!LiveInv, Login!RpcIsOfCredentials
<1>2. Login!Typed /\ [Login!Next]_(Login!vars) => Login!Typed'
  <2> SUFFICES ASSUME Login!Typed, [Login!Next]_(Login!vars) PROVE Login!Typed'
    OBVIOUS
  <2>0. /\ s1.auth \in Nat /\ s1.token \in Nat /\ 0 \in Nat
        /\ \A t \in LoginTabs : /\ s4[t] \in Login!Page /\ s4[t].flow \in Nat /\ s4[t].prev \in Nat
                                /\ s4[t].cred \in Nat /\ s4[t].rpc \in Nat
    BY DEF Login!Typed, Login!Page
  <2>1. ASSUME s4' \in [LoginTabs -> Login!Page], \A c \in s5' : Login!Whole(c),
               UNCHANGED <<s1, s2, s9, s8>>, s6' \in Nat
        PROVE  Login!Typed'
    BY <2>1 DEF Login!Typed
  <2>2. ASSUME NEW t \in LoginTabs PROVE \A c \in Login!Orphaned(t) : Login!Whole(c)
    BY OrphanFields DEF Login!Orphaned, Login!Typed
  <2>3. ASSUME NEW t \in LoginTabs, Login!Connect(t) PROVE s4' \in [LoginTabs -> Login!Page]
    <3> DEFINE p == [s4[t] EXCEPT !.status = "loading", !.page = "leaving"]
    <3>1. p \in Login!Page
      BY <2>0 DEF Login!Page
    <3>2. s4' = [s4 EXCEPT ![t] = p]
      BY <2>3 DEF Login!Connect
    <3> HIDE DEF p
    <3> QED BY <3>1, <3>2 DEF Login!Typed
  <2>4. ASSUME NEW t \in LoginTabs, Login!UrlFails(t) PROVE s4' \in [LoginTabs -> Login!Page]
    <3> DEFINE p == [s4[t] EXCEPT !.page = "demo", !.flow = 0, !.prev = 0, !.status = "error"]
    <3>1. p \in Login!Page
      BY <2>0 DEF Login!Page
    <3>2. s4' = [s4 EXCEPT ![t] = p]
      BY <2>4 DEF Login!UrlFails
    <3> HIDE DEF p
    <3> QED BY <3>1, <3>2 DEF Login!Typed
  <2>5. ASSUME NEW t \in LoginTabs, Login!AuthorizationUrl(t) PROVE s4' \in [LoginTabs -> Login!Page]
    <3> DEFINE p == [s4[t] EXCEPT !.flow = s6 + 1, !.prev = s2]
    <3>1. p \in Login!Page
      <4>1. s6 + 1 \in Nat /\ s2 \in Nat
        BY DEF Login!Typed
      <4> QED BY <2>0, <4>1 DEF Login!Page
    <3>2. s4' = [s4 EXCEPT ![t] = p]
      BY <2>5 DEF Login!AuthorizationUrl
    <3> HIDE DEF p
    <3> QED BY <3>1, <3>2 DEF Login!Typed
  <2>6. ASSUME NEW t \in LoginTabs, Login!Press(t) PROVE s4' \in [LoginTabs -> Login!Page]
    <3> DEFINE n == IF s4[t].rpc = 0 THEN s4[t].cred ELSE s4[t].rpc
               p == [s4[t] EXCEPT !.calling = TRUE, !.rpc = n]
    <3>1. s4' = [s4 EXCEPT ![t] = p]
      BY <2>6 DEF Login!Press
    <3>2. n \in Nat
      BY <2>0
    <3> HIDE DEF n
    <3>3. p \in Login!Page
      BY <2>0, <3>2 DEF Login!Page
    <3> HIDE DEF p
    <3> QED BY <3>1, <3>3 DEF Login!Typed
  <2>7. ASSUME NEW t \in LoginTabs, Login!Pressed(t) PROVE s4' \in [LoginTabs -> Login!Page]
    BY <2>0, <2>7 DEF Login!Pressed, Login!Typed, Login!Page
  <2>8. ASSUME NEW t \in LoginTabs,
               Login!Connect(t) \/ Login!UrlFails(t) \/ Login!AuthorizationUrl(t) \/ Login!Press(t) \/ Login!Pressed(t)
        PROVE  Login!Typed'
    <3>1. UNCHANGED <<s5, s1, s2, s9, s8>> /\ s6' \in Nat
      BY <2>8 DEF Login!Connect, Login!UrlFails, Login!AuthorizationUrl, Login!Press,
                  Login!Pressed, Login!Storage, Login!Server, Login!Typed
    <3> QED BY <2>1, <2>3, <2>4, <2>5, <2>6, <2>7, <2>8, <3>1 DEF Login!Typed
  <2>9. ASSUME NEW t \in LoginTabs, Login!Leave(t) PROVE Login!Typed'
    <3>1. s4' \in [LoginTabs -> Login!Page]
      <4> DEFINE p == [Login!Blank EXCEPT !.page = "server", !.flow = s4[t].flow, !.prev = s4[t].prev]
      <4>1. p = [page |-> "server", flow |-> s4[t].flow, prev |-> s4[t].prev, cred |-> 0,
                 rpc |-> 0, status |-> "idle", calling |-> FALSE]
        BY BlankFields
      <4>2. p \in Login!Page
        BY <2>0, <4>1 DEF Login!Page
      <4>3. s4' = [s4 EXCEPT ![t] = p]
        BY <2>9 DEF Login!Leave
      <4> HIDE DEF p
      <4> QED BY <4>2, <4>3 DEF Login!Typed
    <3> QED BY <2>1, <2>2, <2>9, <3>1 DEF Login!Leave, Login!Storage, Login!Server, Login!Typed
  <2>10. ASSUME NEW t \in LoginTabs, Login!Deny(t) PROVE Login!Typed'
    <3>1. s4' \in [LoginTabs -> Login!Page]
      <4> DEFINE m == Login!Mounted(0)
      <4>1. m \in Login!Page
        BY MountedFields
      <4>2. s4' = [s4 EXCEPT ![t] = [m EXCEPT !.status = "error"]]
        BY <2>10 DEF Login!Deny
      <4> HIDE DEF m
      <4>3. [m EXCEPT !.status = "error"] \in Login!Page
        BY <4>1 DEF Login!Page
      <4> QED BY <4>2, <4>3 DEF Login!Typed
    <3> QED BY <2>1, <2>10, <3>1 DEF Login!Deny, Login!Storage, Login!Server, Login!Typed
  <2>11. ASSUME NEW t \in LoginTabs, Login!Disconnect(t) PROVE Login!Typed'
    <3>1. s4' \in [LoginTabs -> Login!Page]
      <4> DEFINE st == IF s4[t].flow = 0 THEN "idle" ELSE "error"
                 p == [Login!Blank EXCEPT !.flow = s4[t].flow, !.status = st]
      <4>1. p = [page |-> "demo", flow |-> s4[t].flow, prev |-> 0, cred |-> 0,
                 rpc |-> 0, status |-> st, calling |-> FALSE]
        BY BlankFields
      <4>2. p \in Login!Page
        BY <2>0, <4>1 DEF Login!Page
      <4>3. s4' = [s4 EXCEPT ![t] = p]
        BY <2>11 DEF Login!Disconnect
      <4> HIDE DEF p
      <4> QED BY <4>2, <4>3 DEF Login!Typed
    <3>2. s1' \in [auth : Nat, token : Nat, age : {"fresh", "old"}] /\ s2' = 0
      BY <2>11 DEF Login!Disconnect, Login!NoSession
    <3> QED BY <2>2, <2>11, <3>1, <3>2 DEF Login!Disconnect, Login!Server, Login!Typed
  <2>12. ASSUME NEW t \in LoginTabs, NEW cs, NEW left, \A c \in cs : Login!Whole(c), Login!Mount(t, s4[t].flow, cs, left),
                UNCHANGED <<Login!Storage, s6, s8, s9>>
         PROVE  Login!Typed'
    <3>1. s4' \in [LoginTabs -> Login!Page]
      BY <2>0, <2>12, MountedFields DEF Login!Mount, Login!Typed
    <3>2. \A c \in s5' : Login!Whole(c)
      BY <2>0, <2>12, RequestFields DEF Login!Mount
    <3> QED BY <2>1, <2>12, <3>1, <3>2 DEF Login!Storage, Login!Typed
  <2>13. ASSUME NEW t \in LoginTabs, Login!Approve(t) \/ Login!Reload(t) PROVE Login!Typed'
    BY <2>2, <2>12, <2>13 DEF Login!Approve, Login!Reload, Login!Server, Login!Typed
  <2>14. ASSUME NEW t \in LoginTabs, Login!Refresh(t) PROVE Login!Typed'
    <3>1. \A c \in s5' : Login!Whole(c)
      BY <2>0, <2>14, RequestFields DEF Login!Refresh, Login!Typed
    <3> QED BY <2>1, <2>14, <3>1 DEF Login!Refresh, Login!Storage, Login!Server, Login!Typed
  <2>15. CASE Login!Age
    <3>1. s1' \in [auth : Nat, token : Nat, age : {"fresh", "old"}]
      BY <2>15 DEF Login!Age, Login!Typed
    <3> QED BY <2>15, <3>1 DEF Login!Age, Login!Server, Login!Typed
  <2>16. ASSUME NEW c \in s5, Login!Serve(c) PROVE Login!Typed'
    <3>1. s9' = s9 + 1 /\ UNCHANGED <<s1, s2, s4, s6>>
      BY <2>16 DEF Login!Serve, Login!ServeExchange, Login!ServeRefresh, Login!Storage
    <3>4. /\ s9' \in Nat /\ s9 + 1 \in Nat /\ Len(s8) + 1 \in Nat /\ Login!Whole(c) /\ c.arg \in Nat
          /\ s8 \in Seq(Login!Authorization)
      BY <3>1 DEF Login!Typed, Login!Whole
    <3>2. CASE Login!ServeExchange(c)
      <4>1. PICK code \in s7 :
              /\ s8' = Append([a \in DOMAIN s8 |->
                       IF a = code.prev THEN [token |-> 0, revoked |-> TRUE] ELSE s8[a]],
                    [token |-> s9 + 1, revoked |-> FALSE])
              /\ s5' = (s5 \ {c}) \union
                   {[c EXCEPT !.st = "ok", !.auth = Len(s8) + 1, !.token = s9 + 1]}
        BY <3>2 DEF Login!ServeExchange
      <4>2. \A d \in s5' : Login!Whole(d)
        <5>1. \A d \in s5 : Login!Whole(d)
          BY DEF Login!Typed
        <5> HIDE DEF Login!Typed
        <5> DEFINE e == [c EXCEPT !.st = "ok", !.auth = Len(s8) + 1, !.token = s9 + 1]
        <5>2. Login!Whole(e)
          BY <3>4, AnswerFields
        <5>3. s5' = (s5 \ {c}) \union {e}
          BY <4>1
        <5> HIDE DEF e
        <5> QED BY <5>1, <5>2, <5>3
      <4>3. [a \in DOMAIN s8 |-> IF a = code.prev THEN [token |-> 0, revoked |-> TRUE] ELSE s8[a]]
              \in Seq(Login!Authorization)
        BY <3>4, ServedSeq
      <4>4. s8' \in Seq(Login!Authorization)
        <5> DEFINE s == [a \in DOMAIN s8 |->
                           IF a = code.prev THEN [token |-> 0, revoked |-> TRUE] ELSE s8[a]]
                   x == [token |-> s9 + 1, revoked |-> FALSE]
        <5>1. s \in Seq(Login!Authorization) /\ s8' = Append(s, x)
          BY <4>1, <4>3
        <5>2. x \in Login!Authorization
          BY <3>4 DEF Login!Authorization
        <5> HIDE DEF s, x
        <5> QED BY <5>1, <5>2
      <4> QED BY <3>1, <3>4, <4>2, <4>4 DEF Login!Typed
    <3>3. CASE Login!ServeRefresh(c)
      <4>1. \A d \in s5' : Login!Whole(d)
        <5>1. \A d \in s5 : Login!Whole(d)
          BY DEF Login!Typed
        <5>2. s5' = (s5 \ {c}) \union {[c EXCEPT !.st = "ok", !.auth = c.arg, !.token = s9 + 1]}
          BY <3>3 DEF Login!ServeRefresh
        <5> DEFINE e == [c EXCEPT !.st = "ok", !.auth = c.arg, !.token = s9 + 1]
        <5>3. Login!Whole(e)
          BY <3>4, AnswerFields
        <5>4. s5' = (s5 \ {c}) \union {e}
          BY <5>2
        <5> HIDE DEF e
        <5> QED BY <5>1, <5>3, <5>4
      <4>2. s8' \in Seq(Login!Authorization)
        <5>1. /\ \A a \in DOMAIN s8 : s8[a] \in Login!Authorization
              /\ DOMAIN s8 = 1..Len(s8)
          BY <3>4
        <5>5. \A x \in Login!Authorization : [x EXCEPT !.token = s9 + 1] \in Login!Authorization
          BY <3>4 DEF Login!Authorization
        <5>2. s8' = [s8 EXCEPT ![c.arg] = [s8[c.arg] EXCEPT !.token = s9 + 1]]
          BY <3>3 DEF Login!ServeRefresh
        <5>3. CASE c.arg \in DOMAIN s8
          <6> DEFINE x == [s8[c.arg] EXCEPT !.token = s9 + 1]
          <6>1. x \in Login!Authorization
            BY <5>1, <5>3, <5>5
          <6>2. c.arg \in 1..Len(s8) /\ s8' = [s8 EXCEPT ![c.arg] = x]
            BY <5>1, <5>2, <5>3
          <6> HIDE DEF x
          <6> QED BY <3>4, <6>1, <6>2, ExceptSeq
        <5>4. CASE c.arg \notin DOMAIN s8
          <6> DEFINE x == [s8[c.arg] EXCEPT !.token = s9 + 1]
          <6>1. s8' = [s8 EXCEPT ![c.arg] = x]
            BY <5>2
          <6> HIDE DEF x
          <6>2. s8 \in [1..Len(s8) -> Login!Authorization] /\ Len(s8) \in Nat
            BY <3>4, <5>1
          <6>3. s8' \in [1..Len(s8) -> Login!Authorization]
            BY <5>1, <5>4, <6>1, <6>2
          <6> QED BY <6>2, <6>3, SeqDef
        <5> QED BY <5>3, <5>4
      <4> QED BY <3>1, <3>4, <4>1, <4>2 DEF Login!Typed
    <3> QED BY <2>16, <3>2, <3>3 DEF Login!Serve
  <2>17. ASSUME NEW c \in s5, Login!Saved(c), s8' = s8, s9' = s9, s6' = s6,
                s5' \subseteq s5, s4' \in [LoginTabs -> Login!Page]
         PROVE  Login!Typed'
    <3>1. s1' \in [auth : Nat, token : Nat, age : {"fresh", "old"}] /\ s2' \in Nat
      BY <2>17 DEF Login!Saved, Login!Typed, Login!Whole
    <3> QED BY <2>17, <3>1 DEF Login!Typed
  <2>18. ASSUME NEW c \in s5, Login!Exchanged(c) PROVE Login!Typed'
    <3>1. s4' \in [LoginTabs -> Login!Page]
      BY <2>0, <2>18 DEF Login!Exchanged, Login!Connected, Login!Typed, Login!Page, Login!Whole
    <3> QED BY <2>17, <2>18, <3>1 DEF Login!Exchanged, Login!Server
  <2>19. ASSUME NEW c \in s5, Login!Refreshed(c) PROVE Login!Typed'
    BY <2>17, <2>19 DEF Login!Refreshed, Login!Server, Login!Typed
  <2>20. ASSUME NEW c \in s5, Login!Fails(c) PROVE Login!Typed'
    <3>1. s4' \in [LoginTabs -> Login!Page]
      BY <2>0, <2>20 DEF Login!Fails, Login!Typed, Login!Page
    <3>2. s1' \in [auth : Nat, token : Nat, age : {"fresh", "old"}]
      BY <2>20 DEF Login!Fails, Login!AfterFailure, Login!NoSession, Login!Typed
    <3> QED BY <2>20, <3>1, <3>2 DEF Login!Fails, Login!Server, Login!Typed
  <2>21. ASSUME NEW c \in s5, Login!Forgotten(c) PROVE Login!Typed'
    BY <2>21 DEF Login!Forgotten, Login!Storage, Login!Server, Login!Typed
  <2>22. CASE UNCHANGED Login!vars
    BY <2>22 DEF Login!vars, Login!Typed
  <2> QED
    BY <2>8, <2>9, <2>10, <2>11, <2>13, <2>14, <2>15, <2>16, <2>18, <2>19, <2>20, <2>21, <2>22
    DEF Login!Next
<1> QED BY <1>1, <1>2

\* Every step gives a page the RPC client of its credentials, or none.
LEMMA RpcStep ==
  Login!Typed /\ Login!RpcIsOfCredentials /\ [Login!Next]_(Login!vars) => Login!RpcIsOfCredentials'
<1> SUFFICES ASSUME Login!Typed, Login!RpcIsOfCredentials, [Login!Next]_(Login!vars)
             PROVE  Login!RpcIsOfCredentials'
  OBVIOUS
<1>0. \A t \in LoginTabs : s4[t] \in Login!Page /\ (s4[t].rpc # 0 => s4[t].rpc = s4[t].cred)
  BY DEF Login!Typed, Login!RpcIsOfCredentials
<1>1. ASSUME NEW t, NEW p, s4' = [s4 EXCEPT ![t] = p], t \in LoginTabs => p.rpc = 0 \/ p.rpc = p.cred
      PROVE  Login!RpcIsOfCredentials'
  BY <1>0, <1>1 DEF Login!Typed, Login!RpcIsOfCredentials
<1>2. ASSUME NEW t \in LoginTabs,
             Login!Connect(t) \/ Login!AuthorizationUrl(t) \/ Login!UrlFails(t) \/ Login!Leave(t) \/ Login!Deny(t)
               \/ Login!Press(t) \/ Login!Pressed(t) \/ Login!Disconnect(t)
      PROVE  Login!RpcIsOfCredentials'
  <2> DEFINE p == s4'[t]
  <2>1. s4' = [s4 EXCEPT ![t] = p]
    BY <1>2 DEF Login!Connect, Login!AuthorizationUrl, Login!UrlFails, Login!Leave, Login!Deny,
                Login!Press, Login!Pressed, Login!Disconnect, Login!Typed
  <2>2. CASE Login!Connect(t) \/ Login!AuthorizationUrl(t) \/ Login!UrlFails(t) \/ Login!Pressed(t)
    <3>1. p.rpc = s4[t].rpc /\ p.cred = s4[t].cred
      BY <1>0, <2>2 DEF Login!Connect, Login!AuthorizationUrl, Login!UrlFails, Login!Pressed,
                        Login!Typed, Login!Page
    <3> HIDE DEF p
    <3> QED BY <1>0, <1>1, <2>1, <3>1
  <2>3. CASE Login!Press(t)
    <3>1. p.cred = s4[t].cred /\ (p.rpc = s4[t].rpc \/ p.rpc = s4[t].cred)
      BY <1>0, <2>3 DEF Login!Press, Login!Typed, Login!Page
    <3> HIDE DEF p
    <3> QED BY <1>0, <1>1, <2>1, <3>1
  <2>4. CASE Login!Leave(t) \/ Login!Disconnect(t)
    <3>1. p.rpc = 0
      <4>1. \/ p = [Login!Blank EXCEPT !.page = "server", !.flow = s4[t].flow, !.prev = s4[t].prev]
            \/ p = [Login!Blank EXCEPT !.flow = s4[t].flow,
                                       !.status = IF s4[t].flow = 0 THEN "idle" ELSE "error"]
        BY <2>4 DEF Login!Leave, Login!Disconnect, Login!Typed
      <4> HIDE DEF p
      <4>2. \E f, q : \/ p = [Login!Blank EXCEPT !.page = "server", !.flow = f, !.prev = q]
                     \/ p = [Login!Blank EXCEPT !.flow = f, !.status = q]
        BY <4>1
      <4>3. ASSUME NEW f, NEW q, p = [Login!Blank EXCEPT !.page = "server", !.flow = f, !.prev = q]
            PROVE  p.rpc = 0
        BY <4>3 DEF Login!Blank
      <4>4. ASSUME NEW f, NEW q, p = [Login!Blank EXCEPT !.flow = f, !.status = q]
            PROVE  p.rpc = 0
        BY <4>4 DEF Login!Blank
      <4> QED BY <4>2, <4>3, <4>4
    <3> HIDE DEF p
    <3> QED BY <1>1, <2>1, <3>1
  <2>5. CASE Login!Deny(t)
    <3>1. Login!Mounted(0) \in Login!Page /\ Login!Mounted(0).rpc = 0
      BY MountedFields
    <3>2. p = [Login!Mounted(0) EXCEPT !.status = "error"]
      BY <2>5 DEF Login!Deny, Login!Typed
    <3>3. p.rpc = 0
      BY <3>1, <3>2 DEF Login!Page
    <3> QED BY <1>1, <2>1, <3>3
  <2> QED BY <1>2, <2>2, <2>3, <2>4, <2>5
<1>3. ASSUME NEW t \in LoginTabs, Login!Approve(t) \/ Login!Reload(t) PROVE Login!RpcIsOfCredentials'
  <2>1. s4' = [s4 EXCEPT ![t] = Login!Mounted(s4[t].flow)] /\ s4[t].flow \in Nat
    BY <1>0, <1>3 DEF Login!Approve, Login!Reload, Login!Mount, Login!Page
  <2> QED BY <1>1, <2>1, MountedFields
<1>4. ASSUME NEW c \in s5, Login!Exchanged(c) PROVE Login!RpcIsOfCredentials'
  <2> DEFINE p == Login!Connected(s4[c.tab], c)
  <2>1. s4' = [s4 EXCEPT ![c.tab] = p]
    BY <1>4 DEF Login!Exchanged
  <2>2. c.tab \in LoginTabs => p.rpc = p.cred
    BY <1>0 DEF Login!Connected, Login!Page
  <2> QED BY <1>1, <2>1, <2>2
<1>5. ASSUME NEW c \in s5, Login!Fails(c) PROVE Login!RpcIsOfCredentials'
  <2>1. CASE c.kind = "exchange"
    BY <1>0, <1>5, <2>1 DEF Login!Fails, Login!Typed, Login!Page, Login!RpcIsOfCredentials
  <2>2. CASE c.kind # "exchange"
    BY <1>5, <2>2 DEF Login!Fails, Login!RpcIsOfCredentials
  <2> QED BY <2>1, <2>2
<1>6. CASE \/ UNCHANGED Login!vars \/ Login!Age \/ (\E t \in LoginTabs : Login!Refresh(t))
           \/ \E c \in s5 : Login!Serve(c) \/ Login!Refreshed(c) \/ Login!Forgotten(c)
  BY <1>6 DEF Login!vars, Login!Age, Login!Refresh, Login!Serve, Login!Refreshed,
              Login!Forgotten, Login!RpcIsOfCredentials
<1> QED BY <1>2, <1>3, <1>4, <1>5, <1>6 DEF Login!Next

\* No step leaves a stored token that was spent, unless the answer with the good one is
\* on its way.
LEMMA LiveStep ==
  "gone" \notin LoginTabs => (Login!Typed /\ Login!LiveInv /\ [Login!Next]_(Login!vars) => Login!LiveInv')
<1> SUFFICES ASSUME "gone" \notin LoginTabs, Login!Typed, Login!LiveInv, [Login!Next]_(Login!vars)
             PROVE  Login!LiveInv'
  OBVIOUS
<1>0. s1.auth \in Nat /\ s9 \in Nat /\ s8 \in Seq(Login!Authorization) /\ \A c \in s5 : Login!Whole(c)
  BY DEF Login!Typed
<1>00. DOMAIN s8 = 1..Len(s8) /\ Len(s8) \in Nat
  BY <1>0
<1>1. ASSUME s10' => s10, s5' \subseteq s5, s8' = s8,
             s10 /\ s10' =>
               \/ s1'.auth = 0
               \/ /\ s1'.auth \in DOMAIN s8
                  /\ s8[s1'.auth].token = s1'.token \/ \E c \in s5' : c.st = "ok"
      PROVE  Login!LiveInv'
  BY <1>1 DEF Login!LiveInv
<1>2. ASSUME NEW t \in LoginTabs PROVE Login!Mine(t) = {} => Login!Orphaned(t) = s5
  BY DEF Login!Mine, Login!Orphaned
<1>3. CASE \/ UNCHANGED Login!vars \/ Login!Age
           \/ \E t \in LoginTabs : \/ Login!Connect(t) \/ Login!AuthorizationUrl(t) \/ Login!UrlFails(t) \/ Login!Deny(t)
                                   \/ Login!Press(t) \/ Login!Pressed(t)
  <2>1. UNCHANGED <<s5, s8, s10>> /\ s1'.auth = s1.auth /\ s1'.token = s1.token
    <3>1. CASE Login!Age
      BY <3>1 DEF Login!Age, Login!Server, Login!Typed
    <3> QED BY <1>3, <3>1
      DEF Login!vars, Login!Connect, Login!AuthorizationUrl, Login!UrlFails, Login!Deny,
          Login!Press, Login!Pressed, Login!Storage, Login!Server
  <2> QED BY <1>1, <2>1 DEF Login!LiveInv
<1>4. ASSUME NEW t \in LoginTabs, Login!Leave(t) \/ Login!Disconnect(t) PROVE Login!LiveInv'
  <2>1. s8' = s8 /\ s5' = Login!Orphaned(t) /\ (s10' => s10 /\ Login!Mine(t) = {})
    BY <1>4 DEF Login!Leave, Login!Disconnect, Login!Server
  <2>2. s1' = s1 \/ s1'.auth = 0
    BY <1>4 DEF Login!Leave, Login!Disconnect, Login!Storage, Login!NoSession
  <2> QED BY <1>2, <2>1, <2>2 DEF Login!LiveInv
<1>5. ASSUME NEW t \in LoginTabs, NEW kind \in {"exchange", "refresh"}, NEW arg \in Nat, NEW verifier, s5 = {},
             s5' = {Login!Request(t, kind, arg, verifier)}, kind = "refresh" => arg = s1.auth,
             s1.auth # 0 \/ kind = "exchange",
             UNCHANGED <<s1, s8, s10>>
      PROVE  Login!LiveInv'
  <2> DEFINE d == Login!Request(t, kind, arg, verifier)
  <2>1. d.tab = t /\ d.kind = kind /\ d.arg = arg /\ d.st = "sent"
    BY RequestFields
  <2>2. s5' = {d}
    BY <1>5
  <2> HIDE DEF d
  <2> QED BY <1>5, <2>1, <2>2 DEF Login!LiveInv
<1>6. ASSUME NEW t \in LoginTabs, NEW cs, NEW left, Login!Mount(t, s4[t].flow, cs, left),
             UNCHANGED <<s1, s8>>, left \/ cs = s5
      PROVE  Login!LiveInv'
  <2>1. s4[t].flow \in Nat
    BY DEF Login!Typed, Login!Page
  <2>2. CASE s4[t].flow # 0 /\ Login!Verifier # 0
    <3> SUFFICES ASSUME s10' PROVE Login!LiveInv'
      BY DEF Login!LiveInv
    <3>1. s10 /\ s5 = {} /\ s5' = {Login!Request(t, "exchange", s4[t].flow, Login!Verifier)} /\ s10
      BY <1>6, <2>2 DEF Login!Mount
    <3>2. s10' = s10
      BY <1>6, <2>2, <3>1 DEF Login!Mount
    <3> QED BY <1>5, <1>6, <2>1, <3>1, <3>2
  <2>3. CASE ~(s4[t].flow # 0 /\ Login!Verifier # 0)
    <3>1. s10' => s10 /\ s5' = s5
      BY <1>6, <2>3 DEF Login!Mount
    <3> QED BY <1>6, <3>1 DEF Login!LiveInv
  <2> QED BY <2>2, <2>3
<1>7. ASSUME NEW t \in LoginTabs, Login!Approve(t) \/ Login!Reload(t) PROVE Login!LiveInv'
  <2>1. CASE Login!Approve(t)
    BY <1>6, <2>1 DEF Login!Approve, Login!Storage
  <2>2. CASE Login!Reload(t)
    BY <1>2, <1>6, <2>2 DEF Login!Reload, Login!Storage, Login!Server
  <2> QED BY <1>7, <2>1, <2>2
<1>8. ASSUME NEW t \in LoginTabs, Login!Refresh(t) PROVE Login!LiveInv'
  <2> SUFFICES ASSUME s10' PROVE Login!LiveInv'
    BY DEF Login!LiveInv
  <2>1. s5 = {} /\ s10' = s10
    BY <1>8 DEF Login!Refresh
  <2>2. /\ s5' = {Login!Request(t, "refresh", s1.auth, s1.token)}
        /\ s1.auth # 0 /\ UNCHANGED <<s1, s8>>
    BY <1>8, <2>1 DEF Login!Refresh, Login!Storage, Login!Server
  <2> QED BY <1>0, <1>5, <2>1, <2>2
<1>9. ASSUME NEW c \in s5, Login!Serve(c) PROVE Login!LiveInv'
  <2> SUFFICES ASSUME s10 PROVE Login!LiveInv'
    BY <1>9 DEF Login!Serve, Login!LiveInv
  <2>0. /\ UNCHANGED <<s1, s10>> /\ s5 = {c} /\ c.st = "sent" /\ Login!Whole(c)
        /\ c.tab # "gone" /\ (c.kind = "refresh" => c.arg \in DOMAIN s8)
        /\ s1.auth # 0 => s1.auth \in DOMAIN s8
    BY <1>0, <1>9 DEF Login!Serve, Login!Storage, Login!LiveInv
  <2>1. ASSUME NEW a \in Nat, s5' = (s5 \ {c}) \union
                 {[c EXCEPT !.st = "ok", !.auth = a, !.token = s9 + 1]},
               a \in DOMAIN s8', s8'[a].token = s9 + 1,
               DOMAIN s8 \subseteq DOMAIN s8'
        PROVE  Login!LiveInv'
    <3> DEFINE d == [c EXCEPT !.st = "ok", !.auth = a, !.token = s9 + 1]
    <3>1. d.tab = c.tab /\ d.kind = c.kind /\ d.arg = c.arg /\ d.st = "ok" /\ d.auth = a /\ d.token = s9 + 1
      <4>1. s9 + 1 \in Nat
        BY <1>0
      <4>2. d = [c EXCEPT !.st = "ok", !.auth = a, !.token = s9 + 1]
        OBVIOUS
      <4> HIDE DEF d
      <4> QED BY <2>0, <4>2 DEF Login!Whole
    <3>2. s5' = {d}
      BY <2>0, <2>1
    <3> HIDE DEF d
    <3> QED BY <2>0, <2>1, <3>1, <3>2 DEF Login!LiveInv
  <2>2. CASE Login!ServeExchange(c)
    <3>1. PICK code \in s7 :
            /\ s8' = Append([a \in DOMAIN s8 |->
                       IF a = code.prev THEN [token |-> 0, revoked |-> TRUE] ELSE s8[a]],
                    [token |-> s9 + 1, revoked |-> FALSE])
            /\ s5' = (s5 \ {c}) \union
                 {[c EXCEPT !.st = "ok", !.auth = Len(s8) + 1, !.token = s9 + 1]}
      BY <2>2 DEF Login!ServeExchange
    <3> DEFINE s == [a \in DOMAIN s8 |->
                       IF a = code.prev THEN [token |-> 0, revoked |-> TRUE] ELSE s8[a]]
               x == [token |-> s9 + 1, revoked |-> FALSE]
    <3>2. s8' = Append(s, x) /\ x.token = s9 + 1
      BY <3>1
    <3>3. s \in Seq(Login!Authorization) /\ Len(s) = Len(s8)
      BY <1>0, ServedSeq
    <3>4. x \in Login!Authorization
      BY <1>0 DEF Login!Authorization
    <3> HIDE DEF s, x
    <3>5. DOMAIN s8' = 1..(Len(s8) + 1) /\ s8'[Len(s8) + 1] = x
      BY <3>2, <3>3, <3>4
    <3>6. /\ Len(s8) + 1 \in Nat /\ Len(s8) + 1 \in DOMAIN s8'
          /\ DOMAIN s8 \subseteq DOMAIN s8' /\ s8'[Len(s8) + 1].token = s9 + 1
      BY <1>00, <3>2, <3>5
    <3> QED BY <2>1, <3>1, <3>6
  <2>3. CASE c.kind = "refresh" /\ Login!ServeRefresh(c)
    <3>1. /\ s8' = [s8 EXCEPT ![c.arg].token = s9 + 1]
          /\ s5' = (s5 \ {c}) \union {[c EXCEPT !.st = "ok", !.auth = c.arg, !.token = s9 + 1]}
          /\ c.arg \in DOMAIN s8 /\ c.arg \in Nat
      BY <1>9, <2>0, <2>3 DEF Login!Serve, Login!ServeRefresh, Login!Whole
    <3>2. s8'[c.arg].token = s9 + 1 /\ DOMAIN s8' = DOMAIN s8
      <4>1. s8[c.arg] \in Login!Authorization
        BY <1>0, <3>1
      <4> QED BY <3>1, <4>1 DEF Login!Authorization
    <3> QED BY <2>1, <3>1, <3>2
  <2> QED BY <1>9, <2>2, <2>3 DEF Login!Serve
<1>10. ASSUME NEW c \in s5, Login!Exchanged(c) \/ Login!Refreshed(c) PROVE Login!LiveInv'
  <2>1. /\ c.st = "ok" /\ s1'.auth = c.auth /\ s1'.token = c.token
        /\ s5' = s5 \ {c} /\ UNCHANGED <<s8, s10>>
    BY <1>10 DEF Login!Exchanged, Login!Refreshed, Login!Saved, Login!Server
  <2> QED BY <1>1, <2>1 DEF Login!LiveInv
<1>11. ASSUME NEW c \in s5, Login!Fails(c) PROVE Login!LiveInv'
  <2>1. /\ s5' = s5 \ {c} /\ s8' = s8 /\ (s10' => s10)
        /\ s10' => ~(c.kind = "exchange" /\ c.st = "ok")
    BY <1>11 DEF Login!Fails, Login!Server
  <2>2. s1'.auth = 0 \/ (c.kind # "refresh" /\ s1' = s1)
    BY <1>11 DEF Login!Fails, Login!AfterFailure, Login!NoSession
  <2>3. c.kind \in {"exchange", "refresh"}
    BY DEF Login!Typed, Login!Whole
  <2> QED BY <1>1, <2>1, <2>2, <2>3 DEF Login!LiveInv
<1>12. ASSUME NEW c \in s5, Login!Forgotten(c) PROVE Login!LiveInv'
  BY <1>12 DEF Login!Forgotten, Login!Storage, Login!Server, Login!LiveInv
<1> QED
  BY <1>3, <1>4, <1>7, <1>8, <1>9, <1>10, <1>11, <1>12 DEF Login!Next

\* SessionIsLive and RpcIsOfCredentials follow.
LEMMA LoginHolds == Login!LiveInv => Login!SessionIsLive
BY DEF Login!LiveInv, Login!SessionIsLive

\* SessionIsLive for any tabs, flows and tokens (getSessionWithRefresh and the demo page):
\* by LiveInv, the one request that is under way has the token the session lacks.
THEOREM SessionIsLiveHolds == Spec => []SessionIsLive
<1> DEFINE Inv == part = "Login" => Login!Typed /\ Login!LiveInv /\ Login!RpcIsOfCredentials
<1>1. Init => Inv
  <2> SUFFICES ASSUME Init, part = "Login" PROVE Login!Typed /\ Login!LiveInv /\ Login!RpcIsOfCredentials
    OBVIOUS
  <2>1. Login!Init
    BY DEF Init
  <2> QED BY <2>1, LoginTyped
<1>2. Inv /\ [Next]_vars => Inv'
  <2> SUFFICES ASSUME Inv, [Next]_vars, part' = "Login"
               PROVE  (Login!Typed /\ Login!LiveInv /\ Login!RpcIsOfCredentials)'
    OBVIOUS
  <2>1. part = "Login" /\ [Login!Next]_(Login!vars)
    BY DEF Next, vars, Login!vars
  <2> QED BY <2>1, GoneIsNoTab, LoginTyped, RpcStep, LiveStep
<1>3. Inv => SessionIsLive
  BY LoginHolds DEF SessionIsLive
<1> QED BY <1>1, <1>2, <1>3, PTL DEF Spec

-----------------------------------------------------------------------------
\* The keys of tokens, and what a signer becomes.
LEMMA TokenKeys ==
  /\ Signer!None \notin Signer!Token /\ Signer!None \in Signer!Key
  /\ \A t \in Signer!Token : Signer!Account(t) \in Signer!Key /\ Signer!Account(t) # Signer!None
  /\ \A s \in Signer!Signer : \A k \in Signer!Key :
       /\ [s EXCEPT !.key = k] \in Signer!Signer
       /\ [s EXCEPT !.key = k].token = s.token /\ [s EXCEPT !.key = k].key = k
  /\ \A t \in Signer!Token : [token |-> t, key |-> Signer!None] \in Signer!Signer
BY DEF Signer!Token, Signer!None, Signer!Key, Signer!Account, Signer!Signer

\* An answer that knows the key of the token it was asked with.
LEMMA KnownIs ==
  Signer!Typed => \A c \in s5 :
    /\ Signer!Known(c) \in Seq(Signer!Signer) /\ Len(Signer!Known(c)) = Len(s4)
    /\ \A i \in 1..Len(s4) :
         /\ Signer!Known(c)[i].token = s4[i].token
         /\ Signer!Known(c)[i].key = s4[i].key \/ (i = c.of /\ Signer!Known(c)[i].key = Signer!Account(c.sent))
<1> SUFFICES ASSUME Signer!Typed, NEW c \in s5
             PROVE  /\ Signer!Known(c) \in Seq(Signer!Signer) /\ Len(Signer!Known(c)) = Len(s4)
                    /\ \A i \in 1..Len(s4) :
                         /\ Signer!Known(c)[i].token = s4[i].token
                         /\ Signer!Known(c)[i].key = s4[i].key \/ (i = c.of /\ Signer!Known(c)[i].key = Signer!Account(c.sent))
  OBVIOUS
<1> DEFINE s == [s4[c.of] EXCEPT !.key = Signer!Account(c.sent)]
<1>0. s4 \in Seq(Signer!Signer) /\ c \in Signer!Call /\ c.of \in 1..Len(s4)
  BY DEF Signer!Typed
<1>1. /\ s4 \in Seq(Signer!Signer) /\ Len(s4) \in Nat /\ c.of \in 1..Len(s4) /\ c.sent \in Signer!Token
      /\ \A i \in 1..Len(s4) : s4[i] \in Signer!Signer
  BY <1>0 DEF Signer!Call
<1>2. s \in Signer!Signer /\ s.token = s4[c.of].token /\ s.key = Signer!Account(c.sent)
  BY <1>1, TokenKeys
<1>3. Signer!Known(c) = s4 \/ Signer!Known(c) = [s4 EXCEPT ![c.of] = s]
  BY DEF Signer!Known
<1> HIDE DEF s
<1> QED BY <1>1, <1>2, <1>3, ExceptSeq

\* What is offered to other code is a signer the hook has.
LEMMA OfferedStep ==
  /\ Signer!Init => Signer!OfferedIsHeld
  /\ Signer!Typed /\ Signer!OfferedIsHeld /\ [Signer!Next]_(Signer!vars) => Signer!OfferedIsHeld'
<1>1. Signer!Init => Signer!OfferedIsHeld
  BY DEF Signer!Init, Signer!OfferedIsHeld
<1>2. Signer!Typed /\ Signer!OfferedIsHeld /\ [Signer!Next]_(Signer!vars) => Signer!OfferedIsHeld'
  <2> SUFFICES ASSUME Signer!Typed, Signer!OfferedIsHeld, [Signer!Next]_(Signer!vars)
               PROVE  Signer!OfferedIsHeld'
    OBVIOUS
  <2>0. s6 = [signer |-> s6.signer, starting |-> s6.starting, error |-> s6.error,
              injected |-> s6.injected]
    BY DEF Signer!Typed, Signer!Hook
  <2>1. ASSUME NEW h, Signer!Becomes(h), h = [signer |-> h.signer, starting |-> h.starting,
                                              error |-> h.error, injected |-> h.injected]
        PROVE  Signer!OfferedIsHeld'
    <3>1. CASE h.signer = s6.signer
      <4>1. s6'.injected = s6.injected /\ s6'.signer = s6.signer /\ s7' = s7
        BY <2>1, <3>1 DEF Signer!Becomes
      <4> QED BY <4>1 DEF Signer!OfferedIsHeld
    <3>2. CASE h.signer # s6.signer
      <4>1. s6'.injected = (h.signer # 0) /\ s6'.signer = h.signer /\ s7' = h.signer
        BY <2>1, <3>2 DEF Signer!Becomes, Signer!Offered
      <4> QED BY <4>1 DEF Signer!OfferedIsHeld
    <3> QED BY <3>1, <3>2
  <2>2. ASSUME NEW t, Signer!Given(t) PROVE Signer!OfferedIsHeld'
    <3>1. CASE t = Signer!None /\ Signer!Becomes([s6 EXCEPT !.signer = 0, !.error = FALSE, !.starting = FALSE])
      <4> DEFINE h == [s6 EXCEPT !.signer = 0, !.error = FALSE, !.starting = FALSE]
      <4>1. Signer!Becomes(h) /\ h = [s6 EXCEPT !.signer = 0, !.error = FALSE, !.starting = FALSE]
        BY <3>1
      <4> HIDE DEF h
      <4>2. h = [signer |-> h.signer, starting |-> h.starting, error |-> h.error, injected |-> h.injected]
        BY <2>0, <4>1
      <4> QED BY <2>1, <4>1, <4>2
    <3>2. CASE Signer!Becomes([s6 EXCEPT !.starting = TRUE, !.error = FALSE])
      <4> DEFINE h == [s6 EXCEPT !.starting = TRUE, !.error = FALSE]
      <4>1. Signer!Becomes(h) /\ h = [s6 EXCEPT !.starting = TRUE, !.error = FALSE]
        BY <3>2
      <4> HIDE DEF h
      <4>2. h = [signer |-> h.signer, starting |-> h.starting, error |-> h.error, injected |-> h.injected]
        BY <2>0, <4>1
      <4> QED BY <2>1, <4>1, <4>2
    <3>3. CASE UNCHANGED <<s6, s7>>
      BY <3>3 DEF Signer!OfferedIsHeld
    <3> QED BY <2>2, <3>1, <3>2, <3>3 DEF Signer!Given
  <2>3. ASSUME NEW c \in s5, Signer!Verified(c) PROVE Signer!OfferedIsHeld'
    <3> DEFINE h == [s6 EXCEPT !.signer = IF c.says = "yes" THEN c.of ELSE 0,
                        !.error = c.says = "no", !.starting = FALSE]
    <3>1. Signer!Becomes(h) /\ h = [s6 EXCEPT !.signer = IF c.says = "yes" THEN c.of ELSE 0,
                               !.error = c.says = "no", !.starting = FALSE]
      BY <2>3 DEF Signer!Verified
    <3> HIDE DEF h
    <3>2. h = [signer |-> h.signer, starting |-> h.starting, error |-> h.error, injected |-> h.injected]
      BY <2>0, <3>1
    <3> QED BY <2>1, <3>1, <3>2
  <2>4. CASE Signer!Inject
    BY <2>4 DEF Signer!Inject, Signer!Typed, Signer!Hook, Signer!OfferedIsHeld
  <2>5. CASE Signer!Remove
    BY <2>5 DEF Signer!Remove, Signer!Typed, Signer!Hook, Signer!OfferedIsHeld
  <2>6. CASE \/ UNCHANGED Signer!vars \/ Signer!UpdateToken \/ Signer!GetPublicKey \/ Signer!SignEvent
             \/ \E c \in s5 : Signer!Served(c) \/ Signer!KeyAnswer(c) \/ Signer!Signed(c)
    BY <2>6 DEF Signer!vars, Signer!UpdateToken, Signer!GetPublicKey, Signer!SignEvent,
                Signer!Served, Signer!KeyAnswer, Signer!Signed, Signer!OfferedIsHeld
  <2> QED BY <2>2, <2>3, <2>4, <2>5, <2>6 DEF Signer!Next, Signer!SetToken
<1> QED BY <1>1, <1>2

\* The requests and the hook's states are as Typed says.
LEMMA SignerFields ==
  /\ \A i \in Nat, t \in Signer!Token, what \in {"hook", "key", "use"} : s8 \in Signer!Key =>
       /\ Signer!Asks(i, t, what) \in Signer!Call /\ Signer!Asks(i, t, what).of = i
       /\ Signer!Asks(i, t, what).sent = t
       /\ Signer!Asks(i, t, what).for = what /\ Signer!Asks(i, t, what).told = s8
  /\ \A c \in Signer!Call : \A s \in {"yes", "no"} :
       /\ [c EXCEPT !.says = s] \in Signer!Call /\ [c EXCEPT !.says = s].of = c.of
       /\ [c EXCEPT !.says = s].sent = c.sent /\ [c EXCEPT !.says = s].for = c.for
       /\ [c EXCEPT !.says = s].told = c.told
  /\ \A h \in Signer!Hook : Signer!Typed /\ Signer!Becomes(h) =>
       s6' \in Signer!Hook /\ s6'.signer = h.signer /\ s6'.error = h.error
<1>1. ASSUME NEW i \in Nat, NEW t \in Signer!Token, NEW what \in {"hook", "key", "use"}, s8 \in Signer!Key
      PROVE  /\ Signer!Asks(i, t, what) \in Signer!Call /\ Signer!Asks(i, t, what).of = i
             /\ Signer!Asks(i, t, what).sent = t
             /\ Signer!Asks(i, t, what).for = what /\ Signer!Asks(i, t, what).told = s8
  BY <1>1 DEF Signer!Asks, Signer!Call
<1>2. ASSUME NEW c \in Signer!Call, NEW s \in {"yes", "no"}
      PROVE  /\ [c EXCEPT !.says = s] \in Signer!Call /\ [c EXCEPT !.says = s].of = c.of
             /\ [c EXCEPT !.says = s].sent = c.sent /\ [c EXCEPT !.says = s].for = c.for
             /\ [c EXCEPT !.says = s].told = c.told
  BY DEF Signer!Call
<1>3. ASSUME NEW h \in Signer!Hook, Signer!Typed, Signer!Becomes(h)
      PROVE  s6' \in Signer!Hook /\ s6'.signer = h.signer /\ s6'.error = h.error
  <2>1. CASE h.signer = s6.signer
    <3>1. s6' = [h EXCEPT !.injected = s6.injected] /\ s6.injected \in BOOLEAN
      BY <1>3, <2>1 DEF Signer!Becomes, Signer!Typed, Signer!Hook
    <3> QED BY <3>1 DEF Signer!Hook
  <2>2. CASE h.signer # s6.signer
    <3>1. s6' = [h EXCEPT !.injected = h.signer # 0] /\ (h.signer # 0) \in BOOLEAN
      BY <1>3, <2>2 DEF Signer!Becomes
    <3> QED BY <3>1 DEF Signer!Hook
  <2> QED BY <2>1, <2>2
<1> QED BY <1>1, <1>2, <1>3

\* The effect of a token on the hook's state.
LEMMA GivenIs ==
  Signer!Typed => \A t \in (Signer!Token \cup {Signer!None}) \ {s1} : Signer!Given(t) =>
    \/ /\ t = Signer!None /\ s2' = Signer!None /\ s3' = 0 /\ UNCHANGED <<s4, s5>>
       /\ s6' \in Signer!Hook /\ s6'.signer = 0
    \/ /\ t \in Signer!Token /\ s2' = t /\ s3' = Len(s4) + 1
       /\ s4' = Append(s4, [token |-> t, key |-> Signer!None])
       /\ s5' = s5 \cup {Signer!Asks(s3', t, "hook")}
       /\ s6' \in Signer!Hook /\ s6'.signer = s6.signer
<1> SUFFICES ASSUME Signer!Typed, NEW t \in (Signer!Token \cup {Signer!None}) \ {s1}, Signer!Given(t)
             PROVE  \/ /\ t = Signer!None /\ s2' = Signer!None /\ s3' = 0 /\ UNCHANGED <<s4, s5>>
                       /\ s6' \in Signer!Hook /\ s6'.signer = 0
                    \/ /\ t \in Signer!Token /\ s2' = t /\ s3' = Len(s4) + 1
                       /\ s4' = Append(s4, [token |-> t, key |-> Signer!None])
                       /\ s5' = s5 \cup {Signer!Asks(s3', t, "hook")}
                       /\ s6' \in Signer!Hook /\ s6'.signer = s6.signer
  OBVIOUS
<1>0. s6 \in Signer!Hook /\ s2 = s1 /\ t # s1 /\ t \in Signer!Token \cup {Signer!None}
  BY DEF Signer!Typed
<1>1. CASE t = Signer!None
  <2>1. /\ Signer!Forgotten /\ UNCHANGED <<s4, s5>>
        /\ Signer!Becomes([s6 EXCEPT !.signer = 0, !.error = FALSE, !.starting = FALSE])
    BY <1>1 DEF Signer!Given
  <2>2. PICK h : h = [s6 EXCEPT !.signer = 0, !.error = FALSE, !.starting = FALSE]
    OBVIOUS
  <2>3. h \in Signer!Hook /\ h.signer = 0
    BY <1>0, <2>2 DEF Signer!Hook
  <2>4. Signer!Becomes(h)
    BY <2>1, <2>2
  <2> QED BY <1>1, <2>1, <2>3, <2>4, SignerFields DEF Signer!Forgotten
<1>2. CASE t # Signer!None
  <2>1. /\ s2' = t /\ s3' = Len(s4) + 1
        /\ s4' = Append(s4, [token |-> t, key |-> Signer!None])
        /\ s5' = s5 \cup {Signer!Asks(s3', t, "hook")}
        /\ Signer!Becomes([s6 EXCEPT !.starting = TRUE, !.error = FALSE])
    BY <1>0, <1>2 DEF Signer!Given
  <2>2. PICK h : h = [s6 EXCEPT !.starting = TRUE, !.error = FALSE]
    OBVIOUS
  <2>3. h \in Signer!Hook /\ h.signer = s6.signer
    BY <1>0, <2>2 DEF Signer!Hook
  <2>4. Signer!Becomes(h)
    BY <2>1, <2>2
  <2> QED BY <1>0, <1>2, <2>1, <2>3, <2>4, SignerFields
<1> QED BY <1>1, <1>2

\* An answer on whether a signer works.
LEMMA VerifiedIs ==
  Signer!Typed => \A c \in s5 : Signer!Verified(c) =>
    /\ s6' \in Signer!Hook /\ s6'.signer = (IF c.says = "yes" THEN c.of ELSE 0)
    /\ s6'.error = (c.says = "no") /\ c.says \in {"yes", "no"}
    /\ c.for = "hook" /\ s5' = s5 \ {c} /\ s4' = Signer!Known(c)
    /\ s8' = (IF s7' = s7 THEN s8 ELSE Signer!None)
    /\ (s6'.signer # s6.signer => s7' = s6'.signer)
    /\ UNCHANGED <<s1, s2, s3, s9, s10, s11>>
<1> SUFFICES ASSUME Signer!Typed, NEW c \in s5, Signer!Verified(c)
             PROVE  /\ s6' \in Signer!Hook /\ s6'.signer = (IF c.says = "yes" THEN c.of ELSE 0)
                    /\ s6'.error = (c.says = "no") /\ c.says \in {"yes", "no"}
                    /\ c.for = "hook" /\ s5' = s5 \ {c} /\ s4' = Signer!Known(c)
                    /\ s8' = (IF s7' = s7 THEN s8 ELSE Signer!None)
                    /\ (s6'.signer # s6.signer => s7' = s6'.signer)
                    /\ UNCHANGED <<s1, s2, s3, s9, s10, s11>>
  OBVIOUS
<1> DEFINE n == IF c.says = "yes" THEN c.of ELSE 0
           e == c.says = "no"
<1>1. n \in Nat /\ e \in BOOLEAN /\ s6 \in Signer!Hook /\ c \in Signer!Call
  BY DEF Signer!Typed, Signer!Call
<1>2. /\ Signer!Becomes([s6 EXCEPT !.signer = n, !.error = e, !.starting = FALSE])
      /\ c.for = "hook" /\ s5' = s5 \ {c} /\ s4' = Signer!Known(c)
      /\ s8' = (IF s7' = s7 THEN s8 ELSE Signer!None) /\ c.says # "asked"
      /\ UNCHANGED <<s1, s2, s3, s9, s10, s11>>
  BY DEF Signer!Verified
<1>3. c.says \in {"yes", "no"}
  BY <1>1, <1>2 DEF Signer!Call
<1> HIDE DEF n, e
<1>4. PICK h : h = [s6 EXCEPT !.signer = n, !.error = e, !.starting = FALSE]
  OBVIOUS
<1>5. h \in Signer!Hook /\ h.signer = n /\ h.error = e
  BY <1>1, <1>4 DEF Signer!Hook
<1>6. Signer!Becomes(h)
  BY <1>2, <1>4
<1>7. s6' \in Signer!Hook /\ s6'.signer = n /\ s6'.error = e
  BY <1>5, <1>6, SignerFields
<1>8. n # s6.signer => s7' = n
  BY <1>5, <1>6 DEF Signer!Becomes, Signer!Offered
<1> QED BY <1>2, <1>3, <1>7, <1>8 DEF n, e

\* The signers, the hook and the requests keep their types.
LEMMA SignerTyped ==
  /\ Signer!Init => Signer!Typed /\ Signer!SignerInv
  /\ Signer!Typed /\ Signer!OfferedIsHeld /\ [Signer!Next]_(Signer!vars) => Signer!Typed'
<1>1. Signer!Init => Signer!Typed /\ Signer!SignerInv
  <2> SUFFICES ASSUME Signer!Init PROVE Signer!Typed /\ Signer!SignerInv
    OBVIOUS
  <2>1. /\ s1 = Signer!None /\ s2 = Signer!None /\ s3 = 0 /\ s4 = <<>> /\ s5 = {} /\ s8 = Signer!None
        /\ s6 \in Signer!Hook /\ s6.signer = 0 /\ s9 = FALSE
    BY DEF Signer!Init, Signer!Hook
  <2>2. s4 \in Seq(Signer!Signer) /\ Len(s4) = 0 /\ 1..Len(s4) = {}
    BY <2>1
  <2> QED BY <2>1, <2>2, TokenKeys DEF Signer!Typed, Signer!SignerInv
<1>2. Signer!Typed /\ Signer!OfferedIsHeld /\ [Signer!Next]_(Signer!vars) => Signer!Typed'
  <2> SUFFICES ASSUME Signer!Typed, Signer!OfferedIsHeld, [Signer!Next]_(Signer!vars)
               PROVE  Signer!Typed'
    OBVIOUS
  <2>0. /\ s3 \in Nat /\ s4 \in Seq(Signer!Signer) /\ s8 \in Signer!Key /\ s6 \in Signer!Hook
        /\ s5 \subseteq Signer!Call /\ s1 \in Signer!Token \cup {Signer!None} /\ s3 <= Len(s4)
        /\ s6.signer \in Nat /\ s6.signer <= Len(s4) /\ Len(s4) \in Nat
        /\ \A c \in s5 : c.of \in 1..Len(s4) /\ c.of \in Nat
        /\ s2 = s1 /\ (s3 # 0 <=> s1 # Signer!None) /\ 0 \in Nat
        /\ \A i \in 1..Len(s4) : /\ s4[i] \in Signer!Signer /\ s4[i].token \in Signer!Token
                                 /\ s4[i].key \in Signer!Key
    <3>1. /\ s3 \in Nat /\ s4 \in Seq(Signer!Signer) /\ s8 \in Signer!Key /\ s6 \in Signer!Hook
          /\ s5 \subseteq Signer!Call /\ s1 \in Signer!Token \cup {Signer!None} /\ s3 <= Len(s4)
          /\ s6.signer <= Len(s4) /\ s2 = s1 /\ (s3 # 0 <=> s1 # Signer!None)
          /\ \A c \in s5 : c.of \in 1..Len(s4)
      BY DEF Signer!Typed
    <3>2. Len(s4) \in Nat /\ \A i \in 1..Len(s4) : s4[i] \in Signer!Signer
      BY <3>1
    <3>3. \A s \in Signer!Signer : s.token \in Signer!Token /\ s.key \in Signer!Key
      BY DEF Signer!Signer
    <3>4. s6.signer \in Nat
      BY <3>1 DEF Signer!Hook
    <3> QED BY <3>1, <3>2, <3>3, <3>4
  <2>00. s7 # 0 => s7 \in 1..Len(s4) /\ s7 \in Nat
    BY <2>0 DEF Signer!OfferedIsHeld
  <2>1. ASSUME NEW i \in 1..Len(s4), NEW what \in {"hook", "key", "use"},
               s5' = s5 \cup {Signer!Asks(i, s4[i].token, what)},
               UNCHANGED <<s1, s2, s3, s4, s6, s8>>
        PROVE  Signer!Typed'
    <3> DEFINE d == Signer!Asks(i, s4[i].token, what)
    <3>1. d \in Signer!Call /\ d.of = i
      BY <2>0, SignerFields
    <3> HIDE DEF d
    <3>2. s5' = s5 \cup {d}
      BY <2>1 DEF d
    <3> QED BY <2>0, <2>1, <3>1, <3>2 DEF Signer!Typed
  <2>2. ASSUME UNCHANGED <<s1, s2, s3, s4>>, s5' \subseteq s5, s8' \in Signer!Key,
               s6' = s6 \/ (s6' \in Signer!Hook /\ s6'.signer = s6.signer)
        PROVE  Signer!Typed'
    BY <2>0, <2>2 DEF Signer!Typed
  <2>3. CASE Signer!SetToken
    <3>1. PICK t \in (Signer!Token \cup {Signer!None}) \ {s1} : Signer!Given(t) /\ Signer!Changed(t)
      BY <2>3 DEF Signer!SetToken
    <3>2. s1' = t /\ s8' = Signer!None
      BY <3>1 DEF Signer!Changed
    <3>3. CASE t = Signer!None /\ s3' = 0 /\ s2' = Signer!None /\ UNCHANGED <<s4, s5>>
               /\ s6' \in Signer!Hook /\ s6'.signer = 0
      BY <2>0, <3>2, <3>3, TokenKeys DEF Signer!Typed
    <3>4. CASE /\ t \in Signer!Token /\ s2' = t /\ s3' = Len(s4) + 1
               /\ s4' = Append(s4, [token |-> t, key |-> Signer!None])
               /\ s5' = s5 \cup {Signer!Asks(s3', t, "hook")}
               /\ s6' \in Signer!Hook /\ s6'.signer = s6.signer
      <4> DEFINE d == Signer!Asks(s3', t, "hook")
                 s == [token |-> t, key |-> Signer!None]
      <4>1. s3' \in Nat
        BY <2>0, <3>4
      <4>2. d \in Signer!Call /\ d.of = s3'
        BY <2>0, <3>4, <4>1, SignerFields
      <4>3. s \in Signer!Signer
        BY <3>4, TokenKeys
      <4>4. s4' = Append(s4, s) /\ s5' = s5 \cup {d}
        BY <3>4
      <4> HIDE DEF d, s
      <4>5. s4' \in Seq(Signer!Signer) /\ Len(s4') = Len(s4) + 1
        BY <2>0, <4>3, <4>4
      <4>6. s5' \subseteq Signer!Call /\ \A c \in s5' : c.of \in 1..Len(s4')
        BY <2>0, <3>4, <4>2, <4>4, <4>5
      <4> QED BY <2>0, <3>2, <3>4, <4>1, <4>5, <4>6, TokenKeys DEF Signer!Typed
    <3> QED BY <3>1, <3>3, <3>4, GivenIs
  <2>4. CASE Signer!UpdateToken
    <3>1. PICK t \in Signer!Token \ {s1} :
            s4' = [s4 EXCEPT ![s3] = Signer!NewToken(@, t)] /\ s2' = t /\ Signer!Changed(t)
      BY <2>4 DEF Signer!UpdateToken
    <3> DEFINE s == [token |-> t, key |-> Signer!None]
    <3>2. s4' = [s4 EXCEPT ![s3] = s]
      BY <3>1 DEF Signer!NewToken
    <3>3. s \in Signer!Signer /\ s3 \in 1..Len(s4)
      BY <2>0, <2>4, TokenKeys DEF Signer!UpdateToken
    <3> HIDE DEF s
    <3>4. s4' \in Seq(Signer!Signer) /\ Len(s4') = Len(s4)
      BY <2>0, <3>2, <3>3, ExceptSeq
    <3>5. s1' = t /\ s8' = Signer!None /\ s3' = s3 /\ s3 # 0 /\ UNCHANGED <<s6, s5>>
      BY <2>4, <3>1 DEF Signer!UpdateToken, Signer!Changed
    <3> QED BY <2>0, <3>1, <3>4, <3>5, TokenKeys DEF Signer!Typed
  <2>5. ASSUME NEW c \in s5, Signer!Served(c) PROVE Signer!Typed'
    <3>1. PICK s \in {"yes", "no"} : s5' = (s5 \ {c}) \cup {[c EXCEPT !.says = s]}
      BY <2>5 DEF Signer!Served
    <3> DEFINE d == [c EXCEPT !.says = s]
    <3>2. d \in Signer!Call /\ d.of = c.of
      BY <2>0, SignerFields
    <3>3. s5' = (s5 \ {c}) \cup {d}
      BY <3>1
    <3> HIDE DEF d
    <3>4. UNCHANGED <<s1, s2, s3, s4, s6, s8>>
      BY <2>5 DEF Signer!Served
    <3> QED BY <2>0, <3>2, <3>3, <3>4 DEF Signer!Typed
  <2>6. ASSUME NEW c \in s5, Signer!Verified(c) PROVE Signer!Typed'
    <3>1. /\ s6' \in Signer!Hook /\ s6'.signer \in {0, c.of} /\ s5' \subseteq s5
          /\ s4' \in Seq(Signer!Signer) /\ Len(s4') = Len(s4) /\ s8' \in {s8, Signer!None}
          /\ UNCHANGED <<s1, s2, s3>>
      BY <2>6, VerifiedIs, KnownIs
    <3> QED BY <2>0, <3>1, TokenKeys DEF Signer!Typed
  <2>7. CASE Signer!GetPublicKey
    <3>1. UNCHANGED <<s1, s2, s3, s4, s6>> /\ s7 # 0
      BY <2>7 DEF Signer!GetPublicKey
    <3>2. CASE s4[s7].key # Signer!None
      <4>1. s8' = s4[s7].key /\ s5' = s5
        BY <2>7, <3>2 DEF Signer!GetPublicKey
      <4> QED BY <2>0, <2>00, <2>2, <3>1, <4>1
    <3>3. CASE s4[s7].key = Signer!None
      <4>1. s5' = s5 \cup {Signer!Asks(s7, s4[s7].token, "key")} /\ s8' = s8
        BY <2>7, <3>3 DEF Signer!GetPublicKey
      <4> QED BY <2>00, <2>1, <3>1, <4>1
    <3> QED BY <3>2, <3>3
  <2>8. ASSUME NEW c \in s5, Signer!KeyAnswer(c) PROVE Signer!Typed'
    <3>1. /\ s5' \subseteq s5 /\ s4' \in Seq(Signer!Signer) /\ Len(s4') = Len(s4)
          /\ s8' \in Signer!Key /\ UNCHANGED <<s1, s2, s3, s6>>
      BY <2>0, <2>8, KnownIs, TokenKeys DEF Signer!KeyAnswer, Signer!Call
    <3> QED BY <2>0, <3>1 DEF Signer!Typed
  <2>9. CASE Signer!SignEvent
    BY <2>00, <2>1, <2>9 DEF Signer!SignEvent
  <2>10. ASSUME NEW c \in s5, Signer!Signed(c) PROVE Signer!Typed'
    BY <2>0, <2>2, <2>10 DEF Signer!Signed
  <2>11. CASE Signer!Inject \/ Signer!Remove
    <3>1. UNCHANGED <<s1, s2, s3, s4, s5, s8>>
      BY <2>11 DEF Signer!Inject, Signer!Remove
    <3>2. s6' \in Signer!Hook /\ s6'.signer = s6.signer
      BY <2>0, <2>11 DEF Signer!Inject, Signer!Remove, Signer!Hook
    <3> QED BY <2>0, <2>2, <3>1, <3>2
  <2>12. CASE UNCHANGED Signer!vars
    BY <2>0, <2>2, <2>12 DEF Signer!vars
  <2> QED
    BY <2>3, <2>4, <2>5, <2>6, <2>7, <2>8, <2>9, <2>10, <2>11, <2>12 DEF Signer!Next
<1> QED BY <1>1, <1>2

\* Every step asks with the token its signer has, and knows keys of that token.
LEMMA SignerStep ==
  Signer!Typed /\ Signer!OfferedIsHeld /\ Signer!SignerInv /\ [Signer!Next]_(Signer!vars) =>
    Signer!SignerInv'
<1> SUFFICES ASSUME Signer!Typed, Signer!OfferedIsHeld, Signer!SignerInv,
                    [Signer!Next]_(Signer!vars), s10'
             PROVE  Signer!SignerInv'
  BY DEF Signer!SignerInv
<1>0. /\ s3 \in Nat /\ s4 \in Seq(Signer!Signer) /\ s8 \in Signer!Key /\ s6 \in Signer!Hook
      /\ s5 \subseteq Signer!Call /\ s1 \in Signer!Token \cup {Signer!None} /\ s3 <= Len(s4)
      /\ s6.signer \in Nat /\ s6.signer <= Len(s4) /\ Len(s4) \in Nat
      /\ \A c \in s5 : c.of \in 1..Len(s4) /\ c.of \in Nat /\ c.sent \in Signer!Token
      /\ s2 = s1 /\ (s3 # 0 <=> s1 # Signer!None)
      /\ \A i \in 1..Len(s4) : /\ s4[i] \in Signer!Signer /\ s4[i].token \in Signer!Token
                               /\ s4[i].key \in Signer!Key
  <2>1. /\ s3 \in Nat /\ s4 \in Seq(Signer!Signer) /\ s8 \in Signer!Key /\ s6 \in Signer!Hook
        /\ s5 \subseteq Signer!Call /\ s1 \in Signer!Token \cup {Signer!None} /\ s3 <= Len(s4)
        /\ s6.signer <= Len(s4) /\ s2 = s1 /\ (s3 # 0 <=> s1 # Signer!None)
        /\ \A c \in s5 : c.of \in 1..Len(s4)
    BY DEF Signer!Typed
  <2>2. Len(s4) \in Nat /\ \A i \in 1..Len(s4) : s4[i] \in Signer!Signer
    BY <2>1
  <2>3. \A s \in Signer!Signer : s.token \in Signer!Token /\ s.key \in Signer!Key
    BY DEF Signer!Signer
  <2>4. s6.signer \in Nat /\ \A c \in Signer!Call : c.of \in Nat /\ c.sent \in Signer!Token
    BY <2>1 DEF Signer!Hook, Signer!Call
  <2> QED BY <2>1, <2>2, <2>3, <2>4
<1>1. s10
  BY DEF Signer!Next, Signer!SetToken, Signer!UpdateToken, Signer!Changed, Signer!GetPublicKey,
         Signer!SignEvent, Signer!Inject, Signer!Remove, Signer!Served, Signer!Verified,
         Signer!KeyAnswer, Signer!Signed, Signer!vars
<1>2. /\ ~s9
      /\ \A i \in 1..Len(s4) : s4[i].key \in {Signer!None, Signer!Account(s4[i].token)}
      /\ s8 # Signer!None /\ s6.signer # 0 => s8 = Signer!Account(s4[s6.signer].token)
      /\ \A c \in s5 : /\ c.sent = s4[c.of].token
                       /\ c.for = "use" => c.told \in {Signer!None, Signer!Account(c.sent)}
                       /\ c.for = "hook" => c.of = s3
      /\ s1 = Signer!None => s6.signer = 0 /\ s5 = {}
      /\ s1 # Signer!None =>
           /\ s4[s3].token = s1
           /\ s6.error \/ s6.signer = s3 \/ \E c \in s5 : c.for = "hook"
  BY <1>1 DEF Signer!SignerInv
<1>3. s7 # 0 => s7 = s6.signer /\ s7 \in 1..Len(s4) /\ s7 \in Nat
  BY <1>0 DEF Signer!OfferedIsHeld
<1>4. ASSUME NEW i \in 1..Len(s4), NEW what \in {"key", "use"}, i = s7, s7 # 0,
             s5' = s5 \cup {Signer!Asks(i, s4[i].token, what)},
             UNCHANGED <<s1, s3, s4, s6, s8, s9>>
      PROVE  Signer!SignerInv'
  <2> DEFINE d == Signer!Asks(i, s4[i].token, what)
  <2>1. d.of = i /\ d.sent = s4[i].token /\ d.for = what /\ d.told = s8
    BY <1>0, SignerFields
  <2>2. s5' = s5 \cup {d}
    BY <1>4
  <2> HIDE DEF d
  <2>3. s8 \in {Signer!None, Signer!Account(s4[i].token)} /\ s1 # Signer!None
    BY <1>2, <1>3, <1>4
  <2> QED BY <1>0, <1>2, <1>4, <2>1, <2>2, <2>3 DEF Signer!SignerInv
<1>5. CASE Signer!SetToken
  <2>1. PICK t \in (Signer!Token \cup {Signer!None}) \ {s1} : Signer!Given(t) /\ Signer!Changed(t)
    BY <1>5 DEF Signer!SetToken
  <2>2. s1' = t /\ s8' = Signer!None /\ s5 = {} /\ s9' = s9
    BY <2>1 DEF Signer!Changed
  <2>3. CASE t = Signer!None /\ s3' = 0 /\ s2' = Signer!None /\ UNCHANGED <<s4, s5>>
             /\ s6' \in Signer!Hook /\ s6'.signer = 0
    BY <1>2, <2>2, <2>3 DEF Signer!SignerInv
  <2>4. CASE /\ t \in Signer!Token /\ s2' = t /\ s3' = Len(s4) + 1
             /\ s4' = Append(s4, [token |-> t, key |-> Signer!None])
             /\ s5' = s5 \cup {Signer!Asks(s3', t, "hook")}
             /\ s6' \in Signer!Hook /\ s6'.signer = s6.signer
    <3> DEFINE d == Signer!Asks(s3', t, "hook")
               s == [token |-> t, key |-> Signer!None]
    <3>1. s3' \in Nat
      BY <1>0, <2>4
    <3>2. d.of = s3' /\ d.sent = t /\ d.for = "hook"
      BY <1>0, <2>4, <3>1, SignerFields
    <3>3. s \in Signer!Signer /\ s.token = t /\ s.key = Signer!None
      BY <2>4, TokenKeys
    <3>4. s4' = Append(s4, s) /\ s5' = {d}
      BY <2>2, <2>4
    <3> HIDE DEF d, s
    <3>5. /\ Len(s4') = Len(s4) + 1 /\ s4'[Len(s4) + 1] = s
          /\ \A i \in 1..Len(s4) : s4'[i] = s4[i]
          /\ \A i \in 1..Len(s4') : i \in 1..Len(s4) \/ i = Len(s4) + 1
      BY <1>0, <3>3, <3>4
    <3>6. \A i \in 1..Len(s4') : s4'[i].key \in {Signer!None, Signer!Account(s4'[i].token)}
      BY <1>2, <3>3, <3>5
    <3> QED BY <1>2, <2>2, <2>4, <3>2, <3>3, <3>4, <3>5, <3>6, TokenKeys DEF Signer!SignerInv
  <2> QED BY <2>1, <2>3, <2>4, GivenIs
<1>6. CASE Signer!UpdateToken
  <2>1. PICK t \in Signer!Token \ {s1} :
          s4' = [s4 EXCEPT ![s3] = Signer!NewToken(@, t)] /\ s2' = t /\ Signer!Changed(t)
    BY <1>6 DEF Signer!UpdateToken
  <2> DEFINE s == [token |-> t, key |-> Signer!None]
  <2>2. s4' = [s4 EXCEPT ![s3] = s]
    BY <2>1 DEF Signer!NewToken
  <2>3. s \in Signer!Signer /\ s.token = t /\ s.key = Signer!None /\ s3 \in 1..Len(s4)
    BY <1>0, <1>6, TokenKeys DEF Signer!UpdateToken
  <2> HIDE DEF s
  <2>4. /\ Len(s4') = Len(s4) /\ s4'[s3] = s
        /\ \A i \in 1..Len(s4) : i # s3 => s4'[i] = s4[i]
    BY <1>0, <2>2, <2>3, ExceptSeq
  <2>5. /\ s1' = t /\ s8' = Signer!None /\ s5 = {} /\ s3 # 0
        /\ UNCHANGED <<s3, s9, s6, s5>>
    BY <1>6, <2>1 DEF Signer!UpdateToken, Signer!Changed
  <2>6. \A i \in 1..Len(s4') : s4'[i].key \in {Signer!None, Signer!Account(s4'[i].token)}
    BY <1>2, <2>3, <2>4
  <2>7. s1 # Signer!None /\ t # Signer!None
    BY <1>0, <2>5, TokenKeys
  <2> QED BY <1>2, <2>3, <2>4, <2>5, <2>6, <2>7 DEF Signer!SignerInv
<1>7. ASSUME NEW c \in s5, Signer!Served(c) PROVE Signer!SignerInv'
  <2>1. PICK s \in {"yes", "no"} : s5' = (s5 \ {c}) \cup {[c EXCEPT !.says = s]}
    BY <1>7 DEF Signer!Served
  <2> DEFINE d == [c EXCEPT !.says = s]
  <2>2. d.of = c.of /\ d.sent = c.sent /\ d.for = c.for /\ d.told = c.told
    BY <1>0, SignerFields
  <2>3. s5' = (s5 \ {c}) \cup {d}
    BY <2>1
  <2> HIDE DEF d
  <2>4. UNCHANGED <<s1, s3, s4, s6, s8, s9>>
    BY <1>7 DEF Signer!Served
  <2> QED BY <1>2, <2>2, <2>3, <2>4 DEF Signer!SignerInv
<1>8. ASSUME NEW c \in s5, s4' = Signer!Known(c), s5' = s5 \ {c}
      PROVE  /\ Len(s4') = Len(s4)
             /\ \A i \in 1..Len(s4) : s4'[i].token = s4[i].token
             /\ \A i \in 1..Len(s4') : s4'[i].key \in {Signer!None, Signer!Account(s4'[i].token)}
             /\ \A d \in s5' : /\ d.sent = s4'[d.of].token
                               /\ d.for = "use" => d.told \in {Signer!None, Signer!Account(d.sent)}
                               /\ d.for = "hook" => d.of = s3
  BY <1>0, <1>2, <1>8, KnownIs
<1>9. ASSUME NEW c \in s5, Signer!Verified(c) PROVE Signer!SignerInv'
  <2>1. /\ s6'.signer = (IF c.says = "yes" THEN c.of ELSE 0) /\ s6'.error = (c.says = "no")
        /\ c.says \in {"yes", "no"} /\ c.for = "hook" /\ s5' = s5 \ {c} /\ s4' = Signer!Known(c)
        /\ s8' = (IF s7' = s7 THEN s8 ELSE Signer!None)
        /\ (s6'.signer # s6.signer => s7' = s6'.signer)
        /\ UNCHANGED <<s1, s3, s9>>
    BY <1>9, VerifiedIs
  <2>2. s8' # Signer!None /\ s6'.signer # 0 => s8' = Signer!Account(s4'[s6'.signer].token)
    <3>1. CASE s6'.signer = s6.signer
      BY <1>0, <1>2, <1>8, <2>1, <3>1
    <3>2. CASE s6'.signer # s6.signer
      BY <1>3, <2>1, <3>2
    <3> QED BY <3>1, <3>2
  <2>3. s1 # Signer!None /\ c.of = s3 /\ (s6'.error \/ s6'.signer = s3)
    BY <1>2, <2>1
  <2> QED BY <1>0, <1>2, <1>8, <2>1, <2>2, <2>3 DEF Signer!SignerInv
<1>10. CASE Signer!GetPublicKey
  <2>1. UNCHANGED <<s1, s3, s4, s6, s9>> /\ s7 # 0
    BY <1>10 DEF Signer!GetPublicKey
  <2>2. CASE s4[s7].key # Signer!None
    <3>1. s8' = s4[s7].key /\ s5' = s5
      BY <1>10, <2>2 DEF Signer!GetPublicKey
    <3> QED BY <1>2, <1>3, <2>1, <2>2, <3>1 DEF Signer!SignerInv
  <2>3. CASE s4[s7].key = Signer!None
    <3>1. s5' = s5 \cup {Signer!Asks(s7, s4[s7].token, "key")} /\ s8' = s8
      BY <1>10, <2>3 DEF Signer!GetPublicKey
    <3> QED BY <1>3, <1>4, <2>1, <3>1
  <2> QED BY <2>2, <2>3
<1>11. ASSUME NEW c \in s5, Signer!KeyAnswer(c) PROVE Signer!SignerInv'
  <2>1. /\ s5' = s5 \ {c} /\ s4' = Signer!Known(c) /\ UNCHANGED <<s1, s3, s6, s9>>
        /\ s8' = (IF c.says = "yes" /\ c.of = s7 THEN Signer!Account(c.sent) ELSE s8)
        /\ c.for = "key"
    BY <1>11 DEF Signer!KeyAnswer
  <2>2. s8' # Signer!None /\ s6'.signer # 0 => s8' = Signer!Account(s4'[s6'.signer].token)
    BY <1>0, <1>2, <1>3, <1>8, <2>1
  <2> QED BY <1>0, <1>2, <1>8, <2>1, <2>2 DEF Signer!SignerInv
<1>12. CASE Signer!SignEvent
  BY <1>3, <1>4, <1>12 DEF Signer!SignEvent
<1>13. ASSUME NEW c \in s5, Signer!Signed(c) PROVE Signer!SignerInv'
  <2>1. s5' = s5 \ {c} /\ UNCHANGED <<s1, s3, s4, s6, s8>> /\ c.for = "use"
    BY <1>13 DEF Signer!Signed
  <2>2. ~s9'
    BY <1>2, <1>13 DEF Signer!Signed
  <2> QED BY <1>2, <2>1, <2>2 DEF Signer!SignerInv
<1>14. CASE Signer!Inject \/ Signer!Remove
  <2>1. /\ UNCHANGED <<s1, s3, s4, s5, s8, s9>>
        /\ s6'.signer = s6.signer /\ s6'.error = s6.error
    BY <1>0, <1>14 DEF Signer!Inject, Signer!Remove, Signer!Hook
  <2> QED BY <1>2, <2>1 DEF Signer!SignerInv
<1>15. CASE UNCHANGED Signer!vars
  BY <1>2, <1>15 DEF Signer!vars, Signer!SignerInv
<1> QED
  BY <1>5, <1>6, <1>7, <1>9, <1>10, <1>11, <1>12, <1>13, <1>14, <1>15 DEF Signer!Next

\* What SignerInv says of a signer that is offered, and of a key that was told.
LEMMA SignerHolds ==
  Signer!Typed /\ Signer!OfferedIsHeld /\ Signer!SignerInv =>
    Signer!SignerIsTheSessions /\ Signer!SignedAsTold
<1> SUFFICES ASSUME Signer!Typed, Signer!OfferedIsHeld, Signer!SignerInv, s10
             PROVE  Signer!SignerIsTheSessions /\ Signer!SignedAsTold
  BY DEF Signer!SignerIsTheSessions, Signer!SignedAsTold
<1>1. s1 # Signer!None => s3 # 0
  BY DEF Signer!Typed
<1> QED BY <1>1 DEF Signer!SignerInv, Signer!SignerIsTheSessions, Signer!SignedAsTold

\* A request that is added says that it was asked; the others say what they said.
LEMMA AsksFields ==
  ASSUME NEW s, NEW by, \A f \in s : f = [slot |-> f.slot, by |-> f.by, says |-> f.says]
  PROVE  \A f \in Session!Request(s, by) :
           /\ f = [slot |-> f.slot, by |-> f.by, says |-> f.says]
           /\ f.says = Session!Asked \/ \E g \in s : g.says = f.says
<1> DEFINE n == [slot |-> Session!Free(s), by |-> by, says |-> Session!Asked]
<1>1. n = [slot |-> n.slot, by |-> n.by, says |-> n.says] /\ n.says = Session!Asked
  OBVIOUS
<1>2. Session!Request(s, by) = s \cup {n}
  BY DEF Session!Request
<1> QED
  BY <1>1, <1>2

\* Requests that lose their page say what they said.
LEMMA OrphanAsks ==
  ASSUME \A f \in s6 : f = [slot |-> f.slot, by |-> f.by, says |-> f.says]
  PROVE  \A f \in Session!Orphans :
           /\ f = [slot |-> f.slot, by |-> f.by, says |-> f.says]
           /\ \E g \in s6 : g.says = f.says
<1> SUFFICES ASSUME NEW g \in s6, NEW f,
                    f = IF g.by = "home" THEN [g EXCEPT !.by = "left"] ELSE g
             PROVE  f = [slot |-> f.slot, by |-> f.by, says |-> f.says] /\ g.says = f.says
  BY DEF Session!Orphans
<1>1. g = [slot |-> g.slot, by |-> g.by, says |-> g.says]
  OBVIOUS
<1>2. CASE g.by = "home"
  <2>1. f = [g EXCEPT !.by = "left"]
    BY <1>2
  <2>2. f = [slot |-> g.slot, by |-> "left", says |-> g.says]
    BY <1>1, <2>1
  <2> QED
    BY <2>2
<1> QED
  BY <1>1, <1>2

\* A page that is gone to keeps the requests there were, or adds to them.
LEMMA Moves ==
  ASSUME \A f \in s6 : f = [slot |-> f.slot, by |-> f.by, says |-> f.says],
         NEW p, NEW u,
         s6' \in {s6, Session!HomeAsks(p, u, Session!HeaderAsks(p, u, Session!Orphans))}
  PROVE  \A f \in s6' :
           /\ f = [slot |-> f.slot, by |-> f.by, says |-> f.says]
           /\ f.says = Session!Asked \/ \E g \in s6 : g.says = f.says
<1> DEFINE a == Session!HeaderAsks(p, u, Session!Orphans)
           b == Session!HomeAsks(p, u, a)
<1>1. \A f \in Session!Orphans :
        /\ f = [slot |-> f.slot, by |-> f.by, says |-> f.says]
        /\ \E g \in s6 : g.says = f.says
  BY OrphanAsks
<1>2. \A f \in a :
        /\ f = [slot |-> f.slot, by |-> f.by, says |-> f.says]
        /\ f.says = Session!Asked \/ \E g \in s6 : g.says = f.says
  <2>1. a \in {Session!Orphans, Session!Request(Session!Orphans, "header")}
    BY DEF Session!HeaderAsks
  <2>2. \A f \in Session!Request(Session!Orphans, "header") :
          /\ f = [slot |-> f.slot, by |-> f.by, says |-> f.says]
          /\ f.says = Session!Asked \/ \E g \in Session!Orphans : g.says = f.says
    BY <1>1, AsksFields
  <2> QED
    BY <1>1, <2>1, <2>2
<1>3. \A f \in b :
        /\ f = [slot |-> f.slot, by |-> f.by, says |-> f.says]
        /\ f.says = Session!Asked \/ \E g \in s6 : g.says = f.says
  <2> HIDE DEF a
  <2>1. b = a \/ b = Session!Request(a, "home") \/ b = Session!Request(a, "email")
    BY DEF Session!HomeAsks
  <2>2. \A f \in Session!Request(a, "home") :
          /\ f = [slot |-> f.slot, by |-> f.by, says |-> f.says]
          /\ f.says = Session!Asked \/ \E g \in a : g.says = f.says
    BY <1>2, AsksFields
  <2>3. \A f \in Session!Request(a, "email") :
          /\ f = [slot |-> f.slot, by |-> f.by, says |-> f.says]
          /\ f.says = Session!Asked \/ \E g \in a : g.says = f.says
    BY <1>2, AsksFields
  <2> QED
    BY <1>2, <2>1, <2>2, <2>3
<1> HIDE DEF a, b
<1>4. s6' = s6 \/ s6' = b
  BY DEF a, b
<1> QED
  BY <1>3, <1>4

\* What a loaded tab asks, and what it does on the verification page.
LEMMA LoadedSession ==
  ASSUME NEW p
  PROVE  /\ \A f \in Session!Loaded(p).auth : /\ f = [slot |-> f.slot, by |-> f.by, says |-> f.says]
                                              /\ f.says = Session!Asked
         /\ p = "verify" => Session!Loaded(p).auth = {} /\ Session!Loaded(p).gate = Session!None
         /\ Session!Loaded(p).verify = "polling" => p = "verify"
<1> DEFINE n(by) == [slot |-> 1, by |-> by, says |-> Session!Asked]
<1>1. \A by : n(by) = [slot |-> n(by).slot, by |-> n(by).by, says |-> n(by).says]
              /\ n(by).says = Session!Asked
  OBVIOUS
<1>2. Session!Loaded(p).auth \in {{n("home")}, {}, {n("header")}}
  BY DEF Session!Loaded
<1>3. \A f \in Session!Loaded(p).auth : f = n("home") \/ f = n("header")
  BY <1>2
<1>4. \A f \in Session!Loaded(p).auth : /\ f = [slot |-> f.slot, by |-> f.by, says |-> f.says]
                                        /\ f.says = Session!Asked
  <2> HIDE DEF n
  <2> QED
    BY <1>1, <1>3
<1>5. p = "verify" => Session!Loaded(p).auth = {} /\ Session!Loaded(p).gate = Session!None
  BY DEF Session!Loaded
<1>6. Session!Loaded(p).verify = "polling" => p = "verify"
  BY DEF Session!Loaded
<1> QED
  BY <1>4, <1>5, <1>6

\* Nothing is under way.
LEMMA QuietFields ==
  /\ Session!Quiet = [what |-> Session!Quiet.what, who |-> Session!Quiet.who, at |-> Session!Quiet.at]
  /\ Session!Quiet.at = "sent" /\ Session!Quiet.what = "nothing"
BY DEF Session!Quiet

\* SessionInv is inductive: with one thing done after another no sign-in overtakes a
\* check of the cookie.
LEMMA SessionHolds ==
  /\ Session!Init => Session!SessionInv
  /\ Session!SessionInv /\ [Session!Next]_(Session!vars) => Session!SessionInv'
<1> USE QuietFields
<1>1. Session!Init => Session!SessionInv
  BY LoadedSession DEF Session!Init, Session!SessionInv
<1>2. ASSUME Session!SessionInv, [Session!Next]_(Session!vars)
      PROVE  Session!SessionInv'
  <2> USE <1>2
  <2>0. /\ \A f \in s6 : f = [slot |-> f.slot, by |-> f.by, says |-> f.says]
        /\ s9 = [what |-> s9.what, who |-> s9.who, at |-> s9.at]
    BY DEF Session!SessionInv
  <2>1. ASSUME NEW p, Session!Visit(p)
        PROVE  Session!SessionInv'
    <3>1. /\ p # "verify" /\ s5' = p /\ s6' \in {s6, Session!HomeAsks(p, s3, Session!HeaderAsks(p, s3, Session!Orphans))}
          /\ s13' = (s13 /\ ~Session!Waiting) /\ s9' = s9 /\ s10' = s10
          /\ s3' = s3 /\ s1' = s1
      BY <2>1 DEF Session!Visit, Session!Go, Session!who, Session!server
    <3>2. \A f \in s6' :
            /\ f = [slot |-> f.slot, by |-> f.by, says |-> f.says]
            /\ f.says = Session!Asked \/ \E g \in s6 : g.says = f.says
      BY <2>0, <3>1, Moves
    <3>3. s13' => s13 /\ s9 = Session!Quiet /\ s10 # "polling"
      BY <3>1 DEF Session!Waiting
    <3> QED
      BY <3>1, <3>2, <3>3 DEF Session!SessionInv
  <2>2. ASSUME NEW p, Session!LoadTab(p)
        PROVE  Session!SessionInv'
    BY <2>2, LoadedSession DEF Session!LoadTab, Session!SessionInv, Session!server
  <2>3. ASSUME NEW f \in s6, Session!AuthServed(f)
        PROVE  Session!SessionInv'
    <3> DEFINE g == [f EXCEPT !.says = s1]
    <3>1. g = [slot |-> f.slot, by |-> f.by, says |-> s1]
      BY <2>0
    <3>2. g = [slot |-> g.slot, by |-> g.by, says |-> g.says] /\ g.says = s1
      BY <3>1
    <3> HIDE DEF g
    <3>3. /\ s6' = (s6 \ {f}) \cup {g} /\ UNCHANGED <<s1, s3, s5, s11, s9, s10, s13>>
      BY <2>3 DEF Session!AuthServed, Session!server, Session!who, Session!rest, g
    <3> QED
      BY <3>2, <3>3 DEF Session!SessionInv
  <2>4. ASSUME NEW f \in s6, Session!AuthArrives(f)
        PROVE  Session!SessionInv'
    <3>1. /\ s6' = s6 \ {f} /\ f.says # Session!Asked
          /\ UNCHANGED <<s1, s5, s9, s10, s11>>
          /\ (s13' => s13) /\ (s13' => s3' \in {s3, f.says})
          /\ s5 # "verify"
      BY <2>4 DEF Session!AuthArrives, Session!server, Session!SessionInv
    <3> QED
      BY <3>1 DEF Session!SessionInv
  <2>5. CASE Session!LoadEffect \/ Session!MountNip07
    BY <2>5 DEF Session!LoadEffect, Session!MountNip07, Session!server, Session!who,
                Session!rest, Session!SessionInv
  <2>6. ASSUME NEW what, NEW u, Session!Begin(what, u), s5 # "verify"
        PROVE  Session!SessionInv'
    <3> DEFINE e == [what |-> what, who |-> u, at |-> "sent"]
    <3>1. e = [what |-> e.what, who |-> e.who, at |-> e.at] /\ e.at # "done"
      OBVIOUS
    <3> HIDE DEF e
    <3>2. s9' = e /\ s9 = Session!Quiet /\ s13' = (s13 /\ ~Session!Waiting)
          /\ UNCHANGED <<s1, s3, s5, s6, s10, s11>>
      BY <2>6 DEF Session!Begin, Session!server, Session!who, e
    <3>3. s13' => s6 = {} /\ s10 # "polling" /\ s11 = Session!None /\ s13
      BY <3>2 DEF Session!Waiting
    <3>4. s5 # "verify"
      BY <2>6
    <3> QED
      BY <3>1, <3>2, <3>3, <3>4 DEF Session!SessionInv
  <2>7. ASSUME NEW u \in Visitors, Session!Login(u) \/ Session!Register(u) \/ Session!Nip07(u)
        PROVE  Session!SessionInv'
    BY <2>6, <2>7 DEF Session!Login, Session!Register, Session!Nip07, Session!CanSignIn
  <2>8. CASE Session!SignOut
    BY <2>6, <2>8 DEF Session!SignOut, Session!SessionInv
  <2>9. ASSUME NEW u \in Visitors, Session!Verified(u)
        PROVE  Session!SessionInv'
    <3>1. UNCHANGED <<s3, s5, s6, s9, s11>> /\ s10' # "polling"
          /\ \/ s1' = s1 /\ s13' = s13
             \/ s13' = (s13 /\ s5 = "verify")
      BY <2>9 DEF Session!Verified, Session!who
    <3>2. CASE s1' = s1 /\ s13' = s13
      BY <3>1, <3>2 DEF Session!SessionInv
    <3>3. CASE s13' = (s13 /\ s5 = "verify")
      <4>1. CASE s5 = "verify"
        <5>1. s9 = Session!Quiet /\ s3 = Session!None /\ s6 = {}
          BY <4>1 DEF Session!SessionInv
        <5> QED
          BY <3>1, <4>1, <5>1 DEF Session!SessionInv
      <4>2. CASE s5 # "verify"
        BY <3>1, <3>3, <4>2 DEF Session!SessionInv
      <4> QED
        BY <4>1, <4>2
    <3> QED
      BY <3>1, <3>2, <3>3
  <2>10. CASE Session!Served
    <3> DEFINE e(a) == [what |-> s9.what, who |-> s9.who, at |-> a]
    <3>1. PICK a \in {"done", "failed"} : s9' = [s9 EXCEPT !.at = a]
                /\ (a = "done" => s1' = s9.who /\ s13' = s13)
                /\ (a = "failed" => s1' = s1 /\ (s13' => s13))
      BY <2>10 DEF Session!Served
    <3>2. s9' = e(a)
      BY <3>1, <2>0
    <3>3. s9'.what = s9.what /\ s9'.who = s9.who /\ s9'.at = a
          /\ s9' = [what |-> s9'.what, who |-> s9'.who, at |-> s9'.at]
      BY <3>2
    <3>4. UNCHANGED <<s3, s5, s6, s10, s11>> /\ s9.at = "sent"
          /\ s9.what # "status" /\ s9 # Session!Quiet
      BY <2>10 DEF Session!Served, Session!who, Session!Quiet
    <3> HIDE DEF e
    <3> QED
      BY <3>1, <3>3, <3>4 DEF Session!SessionInv
  <2>11. CASE Session!Entered
    <3>1. PICK p \in {"home", "admin", "support-admin"} : Session!Go(p, s9.who)
      BY <2>11 DEF Session!Entered
    <3>2. /\ s5' = p /\ s6' \in {s6, Session!HomeAsks(p, s9.who, Session!HeaderAsks(p, s9.who, Session!Orphans))}
      BY <3>1 DEF Session!Go
    <3>3. \A f \in s6' :
            /\ f = [slot |-> f.slot, by |-> f.by, says |-> f.says]
            /\ f.says = Session!Asked \/ \E g \in s6 : g.says = f.says
      BY <2>0, <3>2, Moves
    <3>4. /\ s9' = Session!Quiet /\ s3' = s9.who /\ UNCHANGED <<s1, s10, s13>>
          /\ s9.at = "done" /\ s9.what # "status" /\ s9 # Session!Quiet /\ s5 # "verify"
      BY <2>11 DEF Session!Entered, Session!server, Session!SessionInv
    <3> QED
      BY <3>2, <3>3, <3>4 DEF Session!SessionInv
  <2>12. CASE Session!Refused
    <3>1. /\ s9' = Session!Quiet /\ UNCHANGED <<s1, s3, s5, s6, s10, s11, s13>>
          /\ s9.at = "failed"
      BY <2>12 DEF Session!Refused, Session!server, Session!who
    <3> QED
      BY <3>1 DEF Session!SessionInv
  <2>13. CASE Session!Nip07Entered
    <3> DEFINE e == [what |-> "status", who |-> s9.who, at |-> s9.at]
    <3>1. s9' = [s9 EXCEPT !.what = "status"] /\ s3' = s9.who
          /\ UNCHANGED <<s1, s5, s6, s10, s11, s13>>
          /\ s9.at = "done" /\ s9.what = "nip07" /\ s9 # Session!Quiet
      BY <2>13 DEF Session!Nip07Entered, Session!server
    <3>2. s9' = e
      BY <3>1, <2>0
    <3>3. s9'.what = "status" /\ s9'.at = "done"
          /\ s9' = [what |-> s9'.what, who |-> s9'.who, at |-> s9'.at]
      BY <3>1, <3>2
    <3> HIDE DEF e
    <3> QED
      BY <3>1, <3>3 DEF Session!SessionInv
  <2>14. CASE Session!Nip07Goes
    <3>1. PICK p \in {"admin", "support-admin", "teams", "home"} : Session!Go(p, s3)
      BY <2>14 DEF Session!Nip07Goes
    <3>2. /\ s5' = p /\ s6' \in {s6, Session!HomeAsks(p, s3, Session!HeaderAsks(p, s3, Session!Orphans))}
      BY <3>1 DEF Session!Go
    <3>3. \A f \in s6' :
            /\ f = [slot |-> f.slot, by |-> f.by, says |-> f.says]
            /\ f.says = Session!Asked \/ \E g \in s6 : g.says = f.says
      BY <2>0, <3>2, Moves
    <3>4. /\ s9' = Session!Quiet /\ UNCHANGED <<s1, s3, s10, s13>>
          /\ s9.what = "status" /\ s9 # Session!Quiet /\ s5 # "verify"
      BY <2>14 DEF Session!Nip07Goes, Session!server, Session!who, Session!SessionInv
    <3> QED
      BY <3>2, <3>3, <3>4 DEF Session!SessionInv
  <2>15. CASE Session!SignedOut
    <3>1. /\ s5' = "home" /\ s6' \in {s6, Session!HomeAsks("home", s3', Session!HeaderAsks("home", s3', Session!Orphans))}
      BY <2>15 DEF Session!SignedOut, Session!Go
    <3>3. \A f \in s6' :
            /\ f = [slot |-> f.slot, by |-> f.by, says |-> f.says]
            /\ f.says = Session!Asked \/ \E g \in s6 : g.says = f.says
      BY <2>0, <3>1, Moves
    <3>4. /\ s9' = Session!Quiet /\ s3' = Session!None /\ UNCHANGED <<s1, s10, s13>>
          /\ s9 # Session!Quiet /\ s5 # "verify"
      BY <2>15 DEF Session!SignedOut, Session!Forgotten, Session!server, Session!SessionInv
    <3> QED
      BY <3>1, <3>3, <3>4 DEF Session!SessionInv
  <2>16. CASE Session!VerifyGoes
    <3>1. /\ s5' = "home" /\ s6' \in {s6, Session!HomeAsks("home", s3, Session!HeaderAsks("home", s3, Session!Orphans))}
          /\ (s5 = "home" => s6' = s6 /\ s11' = s11) /\ s11' = s11
      BY <2>16 DEF Session!VerifyGoes, Session!Go
    <3>3. \A f \in s6' :
            /\ f = [slot |-> f.slot, by |-> f.by, says |-> f.says]
            /\ f.says = Session!Asked \/ \E g \in s6 : g.says = f.says
      BY <2>0, <3>1, Moves
    <3>4. /\ s10' = "idle" /\ UNCHANGED <<s1, s3, s9>>
          /\ s13' = (s13 /\ s5 \in {"verify", "home"})
      BY <2>16 DEF Session!VerifyGoes, Session!server, Session!who
    <3> QED
      BY <3>1, <3>3, <3>4 DEF Session!SessionInv
  <2>17. CASE Session!Gate
    <3>1. PICK p : /\ s5' \in {s5, p} /\ p # "verify"
                   /\ s6' \in {s6, Session!HomeAsks(p, s3, Session!HeaderAsks(p, s3, Session!Orphans))}
      BY <2>17 DEF Session!Gate, Session!SentTo
    <3>3. \A f \in s6' :
            /\ f = [slot |-> f.slot, by |-> f.by, says |-> f.says]
            /\ f.says = Session!Asked \/ \E g \in s6 : g.says = f.says
      BY <2>0, <3>1, Moves
    <3>4. /\ s11 # Session!None /\ UNCHANGED <<s1, s3, s9, s10, s13>> /\ s5 # "verify"
      BY <2>17 DEF Session!Gate, Session!server, Session!who, Session!rest, Session!SessionInv
    <3> QED
      BY <3>1, <3>3, <3>4 DEF Session!SessionInv
  <2>18. ASSUME NEW r, Session!ReadServed(r) \/ Session!ReadArrives(r)
         PROVE  Session!SessionInv'
    <3>1. UNCHANGED <<s1, s3, s5, s6, s9, s10, s11>>
      BY <2>18 DEF Session!ReadServed, Session!ReadArrives, Session!server, Session!who,
                   Session!rest
    <3>2. s13' => s13
      <4>1. CASE Session!ReadServed(r)
        BY <4>1 DEF Session!ReadServed, Session!rest
      <4>2. CASE Session!ReadArrives(r)
        BY <4>2, Zenon DEF Session!ReadArrives
      <4> QED
        BY <2>18, <4>1, <4>2
    <3> QED
      BY <3>1, <3>2 DEF Session!SessionInv
  <2>19. CASE Session!OpenDialog \/ Session!Create \/ Session!Created \/ Session!CreateFails \/ Session!CloseDialog
              \/ Session!AllRevoked \/ Session!RevokeFails
    <3>1. UNCHANGED <<s1, s3, s5, s6, s9, s10, s11>>
      BY <2>19 DEF Session!OpenDialog, Session!Create, Session!Created, Session!CreateFails,
                   Session!CloseDialog, Session!AllRevoked, Session!RevokeFails, Session!Still,
                   Session!server, Session!who
    <3>2. s13' => s13
      BY <2>19, Zenon DEF Session!OpenDialog, Session!Create, Session!Created,
                          Session!CreateFails, Session!CloseDialog, Session!AllRevoked,
                          Session!RevokeFails
    <3> QED
      BY <3>1, <3>2 DEF Session!SessionInv
  <2>20. ASSUME NEW c, Session!Revoke(c) \/ Session!Revoked(c)
         PROVE  Session!SessionInv'
    <3>1. UNCHANGED <<s1, s3, s5, s6, s9, s10, s11>>
      BY <2>20 DEF Session!Revoke, Session!Revoked, Session!Still, Session!server, Session!who
    <3>2. s13' => s13
      BY <2>20, Zenon DEF Session!Revoke, Session!Revoked
    <3> QED
      BY <3>1, <3>2 DEF Session!SessionInv
  <2>21. CASE UNCHANGED Session!vars
    BY <2>21 DEF Session!vars, Session!SessionInv
  <2> QED
    BY <2>1, <2>2, <2>3, <2>4, <2>5, <2>7, <2>8, <2>9, <2>10, <2>11, <2>12, <2>13, <2>14,
       <2>15, <2>16, <2>17, <2>18, <2>19, <2>20, <2>21 DEF Session!Next
<1> QED
  BY <1>1, <1>2

\* UserIsSession for any users, signers and number of acts: SessionInv for the console's
\* tab (current_user.svelte.ts), SignerInv for what the web client offers to other code
\* (useWindowNostrJWT), each under its own history of things done one after another.
THEOREM UserIsSessionHolds == Spec => []UserIsSession
<1> DEFINE SInv == part = "Session" => Session!SessionInv
           GInv == part = "Signer" => Signer!Typed /\ Signer!OfferedIsHeld /\ Signer!SignerInv
<1>1. Init => SInv
  <2> SUFFICES ASSUME Init, part = "Session" PROVE Session!SessionInv
    OBVIOUS
  <2>1. Session!Init
    BY DEF Init
  <2> QED BY <2>1, SessionHolds
<1>2. Init => GInv
  <2> SUFFICES ASSUME Init, part = "Signer"
               PROVE  Signer!Typed /\ Signer!OfferedIsHeld /\ Signer!SignerInv
    OBVIOUS
  <2>1. Signer!Init
    BY DEF Init
  <2> QED BY <2>1, SignerTyped, OfferedStep
<1>3. SInv /\ [Next]_vars => SInv'
  <2> SUFFICES ASSUME SInv, [Next]_vars, part' = "Session" PROVE Session!SessionInv'
    OBVIOUS
  <2>1. part = "Session" /\ [Session!Next]_(Session!vars)
    BY DEF Next, vars, Session!vars
  <2> QED BY <2>1, SessionHolds
<1>4. GInv /\ [Next]_vars => GInv'
  <2> SUFFICES ASSUME GInv, [Next]_vars, part' = "Signer"
               PROVE  (Signer!Typed /\ Signer!OfferedIsHeld /\ Signer!SignerInv)'
    OBVIOUS
  <2>1. part = "Signer" /\ [Signer!Next]_(Signer!vars)
    BY DEF Next, vars, Signer!vars
  <2> QED BY <2>1, SignerTyped, OfferedStep, SignerStep
<1>5. SInv => (part = "Session" => Session!UserIsSession)
  BY SessionHolds DEF Session!SessionInv, Session!UserIsSession, Session!Waiting, Session!Quiet
<1>6. GInv => (part = "Signer" => /\ Signer!OfferedIsHeld /\ Signer!SignerIsTheSessions
                                  /\ Signer!SignedAsTold)
  BY SignerHolds
<1>7. SInv /\ GInv => UserIsSession
  BY <1>5, <1>6 DEF UserIsSession
<1> QED BY <1>1, <1>2, <1>3, <1>4, <1>7, PTL DEF Spec

-----------------------------------------------------------------------------
\* What a permission says is a number, of no configuration too.
LEMMA SaysTyped ==
  ASSUME NEW c \in Policy!Configured \cup {Policy!None}, NEW o \in [Policy!Configured -> Int]
  PROVE  Policy!Says(c, o) \in Int /\ (c \in Policy!Configured => Policy!Says(c, o) = o[c])
BY DEF Policy!Says, Policy!Configured, Policy!None

\* PolicyInv is inductive: the effect brings objects and configuration up to date before
\* a permission can be added or a policy made (PermissionForm, policies/new).
LEMMA PolicyHolds ==
  /\ Policy!Init => Policy!PolicyInv
  /\ Policy!PolicyInv /\ [Policy!Next]_(Policy!vars) => Policy!PolicyInv'
<1>1. Policy!Init => Policy!PolicyInv
  <2> SUFFICES ASSUME Policy!Init PROVE Policy!PolicyInv
    OBVIOUS
  <2>1. s6 = <<>> /\ s7 = <<>> /\ s4 = s3 /\ s3 = [c \in Policy!Configured |-> 0]
        /\ s1 = Policy!None /\ s2 = Policy!None /\ s5 = FALSE
    BY DEF Policy!Init
  <2>2. Policy!Typed
    <3>1. s5 \in BOOLEAN
      BY <2>1, Zenon
    <3>2. s3 \in [Policy!Configured -> Int]
      BY <2>1
    <3> QED BY <2>1, <3>1, <3>2 DEF Policy!Typed
  <2>3. Policy!None \notin Policy!Configured
    BY DEF Policy!None, Policy!Configured
  <2> QED BY <2>1, <2>2, <2>3 DEF Policy!PolicyInv
<1>2. Policy!PolicyInv /\ [Policy!Next]_(Policy!vars) => Policy!PolicyInv'
  <2> SUFFICES ASSUME Policy!PolicyInv, [Policy!Next]_(Policy!vars) PROVE Policy!PolicyInv'
    OBVIOUS
  <2>0. Policy!Typed /\ Policy!Configured \subseteq Policy!Type
    BY DEF Policy!PolicyInv, Policy!Type
  <2>1. CASE UNCHANGED Policy!vars
    BY <2>1 DEF Policy!vars, Policy!PolicyInv, Policy!Typed
  <2>2. ASSUME NEW t \in Policy!Type \cup {Policy!None}, Policy!Choose(t) PROVE Policy!PolicyInv'
    <3>1. s5' = TRUE /\ s7 = <<>> /\ s7' = <<>> /\ s1' = t
          /\ UNCHANGED <<s2, s3, s4, s6>>
      BY <2>2 DEF Policy!Choose
    <3>2. s5' \in BOOLEAN
      BY <3>1, Zenon
    <3>3. Policy!Typed'
      BY <2>0, <3>1, <3>2 DEF Policy!Typed
    <3> QED BY <3>1, <3>3 DEF Policy!PolicyInv
  <2>3. ASSUME NEW c \in Policy!Configured, NEW n \in Policy!Text, Policy!Fill(c, n) PROVE Policy!PolicyInv'
    <3>1. s5' = TRUE /\ s7 = <<>> /\ s7' = <<>> /\ s3' = [s3 EXCEPT ![c] = n]
          /\ UNCHANGED <<s1, s2, s4, s6>>
      BY <2>3 DEF Policy!Fill
    <3>2. s5' \in BOOLEAN
      BY <3>1, Zenon
    <3>3. Policy!Typed'
      BY <2>0, <3>1, <3>2 DEF Policy!Typed, Policy!Text
    <3> QED BY <3>1, <3>3 DEF Policy!PolicyInv
  <2>4. CASE Policy!Effect
    <3>1. s5' = FALSE /\ s4' = s3 /\ s2' = Policy!Pointed
          /\ UNCHANGED <<s1, s3, s6, s7>> /\ s7 = <<>>
      BY <2>4 DEF Policy!Effect, Policy!PolicyInv
    <3>2. s5' \in BOOLEAN
      BY <3>1, Zenon
    <3>3. Policy!Typed'
      BY <2>0, <3>1, <3>2 DEF Policy!Typed, Policy!Pointed
    <3> QED BY <3>1, <3>3 DEF Policy!PolicyInv, Policy!Pointed
  <2>5. CASE Policy!AddPermission
    <3> DEFINE p == [type |-> s1, config |-> s2]
    <3>1. s5' = TRUE /\ s7 = <<>> /\ s7' = <<>> /\ ~s5 /\ s1 \in Policy!Type
          /\ s6' = Append(s6, p) /\ s1' = Policy!None /\ s2' = Policy!None
          /\ UNCHANGED <<s3, s4>>
      BY <2>0, <2>5 DEF Policy!AddPermission, Policy!Typed
    <3>2. p \in Policy!Permission /\ p.type = s1 /\ p.config = s2
      BY <2>0, <3>1 DEF Policy!Typed, Policy!Permission
    <3> HIDE DEF p
    <3>3. /\ s6' \in Seq(Policy!Permission) /\ Len(s6') = Len(s6) + 1
          /\ \A i \in 1..Len(s6) : s6'[i] = s6[i]
          /\ s6'[Len(s6) + 1] = p
      BY <2>0, <3>1, <3>2 DEF Policy!Typed
    <3>4. \A i \in 1..Len(s6') :
            s6'[i].type \in Policy!Configured => s6'[i].config = s6'[i].type
      BY <2>0, <3>1, <3>2, <3>3 DEF Policy!PolicyInv, Policy!Typed
    <3>5. s5' \in BOOLEAN
      BY <3>1, Zenon
    <3>6. Policy!Typed'
      BY <2>0, <3>1, <3>3, <3>5 DEF Policy!Typed
    <3> QED BY <3>1, <3>4, <3>6 DEF Policy!PolicyInv
  <2>6. CASE Policy!CreatePolicy
    <3> DEFINE one(i) == [type |-> s6[i].type, says |-> Policy!Says(s6[i].config, s4)]
    <3>1. /\ ~s5 /\ s6 # <<>> /\ s7' = [i \in 1..Len(s6) |-> one(i)]
          /\ UNCHANGED <<s1, s2, s3, s4, s5, s6>>
      BY <2>6 DEF Policy!CreatePolicy
    <3>2. \A i \in 1..Len(s6) :
            /\ one(i) \in Policy!SavedOne /\ one(i).type = s6[i].type
            /\ one(i).says = Policy!Says(s6[i].config, s4)
      <4> SUFFICES ASSUME NEW i \in 1..Len(s6)
                   PROVE  /\ one(i) \in Policy!SavedOne /\ one(i).type = s6[i].type
                          /\ one(i).says = Policy!Says(s6[i].config, s4)
        OBVIOUS
      <4>1. s6[i] \in Policy!Permission
        BY <2>0 DEF Policy!Typed
      <4>2. s6[i].type \in Policy!Type /\ Policy!Says(s6[i].config, s4) \in Int
        BY <2>0, <4>1, SaysTyped DEF Policy!Typed, Policy!Permission
      <4> QED BY <4>2 DEF Policy!SavedOne
    <3> HIDE DEF one
    <3>3. Len(s6) \in Nat
      BY <2>0 DEF Policy!Typed
    <3>4. s7' \in Seq(Policy!SavedOne) /\ Len(s7') = Len(s6)
      BY <3>1, <3>2, <3>3
    <3>5. Policy!Typed'
      BY <2>0, <3>1, <3>4 DEF Policy!Typed
    <3> QED BY <3>1, <3>2, <3>4, <3>5 DEF Policy!PolicyInv
  <2>7. CASE Policy!Failed
    <3>1. s7' = <<>> /\ UNCHANGED <<s1, s2, s3, s4, s5, s6>>
      BY <2>7 DEF Policy!Failed
    <3>2. Policy!Typed'
      BY <2>0, <3>1 DEF Policy!Typed
    <3> QED BY <3>1, <3>2 DEF Policy!PolicyInv
  <2> QED BY <2>1, <2>2, <2>3, <2>4, <2>5, <2>6, <2>7 DEF Policy!Next
<1> QED BY <1>1, <1>2

\* What was asked for follows from the invariant.
LEMMA PolicySaved == Policy!PolicyInv => Policy!SavedAsTheFormSays
<1> SUFFICES ASSUME Policy!PolicyInv, NEW i \in 1..Len(s7), s7[i].type \in Policy!Configured
             PROVE  s7[i].says = s3[s7[i].type]
  BY DEF Policy!SavedAsTheFormSays
<1>1. s7 # <<>> /\ ~s5 /\ s4 = s3 /\ i \in 1..Len(s6)
  BY DEF Policy!PolicyInv, Policy!Typed
<1>2. s6[i].config = s7[i].type
  BY <1>1 DEF Policy!PolicyInv
<1> QED BY <1>1, <1>2, SaysTyped DEF Policy!PolicyInv, Policy!Typed

\* What the query's profile is, of whatever version and copy it has.
LEMMA MetadataTyped ==
  ASSUME NEW p \in Seq(Profile!AnyProfile), p = s2, NEW a, a.v \in 0..Len(p)
  PROVE  Profile!Metadata(a) \in Profile!AnyProfile
BY DEF Profile!Metadata, Profile!AnyProfile, Profile!Blank, Profile!Field

\* The types, among them that every version that is spoken of exists.
LEMMA ProfileTyped ==
  /\ Profile!Init => Profile!Typed
  /\ Profile!Typed /\ [Profile!Next]_(Profile!vars) => Profile!Typed'
<1>0. Profile!Blank \in Profile!AnyProfile /\ Profile!NoSave \in Profile!SaveOf /\ Profile!NoSave.st = "none" /\ Profile!NoSave.v = 0 /\ 0 \in 0..Len(s2)'
  BY DEF Profile!Blank, Profile!AnyProfile, Profile!NoSave, Profile!SaveOf, Profile!Field
<1>1. Profile!Init => Profile!Typed
  <2> SUFFICES ASSUME Profile!Init PROVE Profile!Typed
    OBVIOUS
  <2> DEFINE p == [f \in Profile!Field |-> 1]
  <2>1. p \in Profile!AnyProfile
    BY DEF Profile!AnyProfile
  <2> HIDE DEF p
  <2>2. s2 = <<p>>
    BY DEF Profile!Init, p
  <2>3. s2 \in Seq(Profile!AnyProfile) /\ s2 # <<>> /\ Len(s2) = 1
    BY <2>1, <2>2
  <2>4. s1 = TRUE /\ s8 = FALSE
    BY DEF Profile!Init
  <2>5. s1 \in BOOLEAN /\ s8 \in BOOLEAN
    BY <2>4, Zenon
  <2>6. s3 \in 0..1 /\ s4 \in [v : 0..1, copy : BOOLEAN] /\ s7 \in [has : -1..1, st : {"none", "asked"}]
    BY DEF Profile!Init
  <2>7. s5 \in [st : {"none", "asked", "served"}, v : 0..1]
    BY DEF Profile!Init, Profile!Idle
  <2>8. s9 \in Profile!AnyProfile /\ s13 \in Profile!SaveOf /\ s11 = {} /\ s12 = 0 /\ s14 = 0 /\ s10 = {}
        /\ s13.v = 0 /\ s6 \subseteq {1} /\ s13.st = "none"
    BY <1>0 DEF Profile!Init, Profile!NoSave
  <2> QED BY <2>3, <2>5, <2>6, <2>7, <2>8 DEF Profile!Typed
<1>2. Profile!Typed /\ [Profile!Next]_(Profile!vars) => Profile!Typed'
  <2> SUFFICES ASSUME Profile!Typed, [Profile!Next]_(Profile!vars) PROVE Profile!Typed'
    OBVIOUS
  <2>0. /\ s2 \in Seq(Profile!AnyProfile) /\ s2 # <<>> /\ Len(s2) \in Nat \ {0}
        /\ s2[Len(s2)] \in Profile!AnyProfile
    BY DEF Profile!Typed
  <2>1. CASE UNCHANGED Profile!vars
    BY <2>1 DEF Profile!vars, Profile!Typed
  <2>2. ASSUME NEW x \in Profile!AnyProfile, s2' = Append(s2, x), UNCHANGED <<s3, s4, s5, s7, s14, s6>>
        PROVE  /\ s2' \in Seq(Profile!AnyProfile) /\ s2' # <<>>
               /\ s3' \in 0..Len(s2') /\ s4' \in [v : 0..Len(s2'), copy : BOOLEAN]
               /\ s5' \in [st : {"none", "asked", "served"}, v : 0..Len(s2')]
               /\ s7' \in [has : -1..Len(s2'), st : {"none", "asked"}]
               /\ s14' \in 0..Len(s2') /\ s6' \subseteq 1..Len(s2')
               /\ s13.v \in 0..Len(s2') /\ Len(s2) + 1 \in 0..Len(s2')
    <3>1. s2' \in Seq(Profile!AnyProfile) /\ Len(s2') = Len(s2) + 1 /\ s2' # <<>>
      BY <2>0, <2>2
    <3> HIDE DEF Profile!AnyProfile
    <3> QED BY <2>0, <2>2, <3>1 DEF Profile!Typed
  <2>3. CASE Profile!Elsewhere
    <3>1. PICK f \in {"name", "rest"} :
            s2' = Append(s2, [s2[Len(s2)] EXCEPT ![f] = Len(s2) + 1])
      BY <2>3 DEF Profile!Elsewhere, Profile!Cache
    <3> DEFINE x == [s2[Len(s2)] EXCEPT ![f] = Len(s2) + 1]
    <3>2. x \in Profile!AnyProfile
      BY <2>0 DEF Profile!AnyProfile, Profile!Field
    <3> HIDE DEF x
    <3>3. UNCHANGED <<s1, s3, s4, s5, s7, s8, s9, s10, s11, s12, s13, s14, s6>>
      BY <2>3 DEF Profile!Elsewhere, Profile!Cache
    <3> QED BY <2>2, <3>1, <3>2, <3>3 DEF Profile!Typed, x
  <2>4. CASE Profile!SaveStored
    <3>1. s13 \in Profile!SaveOf /\ s13.data \in Profile!AnyProfile
      BY DEF Profile!Typed, Profile!SaveOf
    <3> DEFINE n == Len(s2) + 1
               s == [s13 EXCEPT !.st = "stored", !.v = n]
    <3>3. n \in Int /\ n # 0
      BY <2>0
    <3> HIDE DEF n
    <3>4. s \in Profile!SaveOf /\ s.v = n
      BY <3>1, <3>3 DEF Profile!SaveOf
    <3>2. /\ s2' = Append(s2, s13.data) /\ s13' = s
          /\ UNCHANGED <<s1, s3, s4, s5, s7, s8, s9, s10, s11, s12, s14, s6>>
      BY <2>4 DEF Profile!SaveStored, Profile!Cache, n
    <3> HIDE DEF s
    <3>5. Len(s2) + 1 = n
      BY DEF n
    <3> QED BY <2>2, <3>1, <3>2, <3>3, <3>4, <3>5 DEF Profile!Typed
  <2>20. CASE Profile!FetchServed
    <3>1. /\ s5' \in [st : {"none", "asked", "served"}, v : 0..Len(s2)]
          /\ UNCHANGED <<s1, s2, s3, s4, s7, s14, Profile!Form>>
          /\ \E v \in 0..Len(s2) : s6' \in {s6, s6 \cup ({v} \ {0})}
      BY <2>20 DEF Profile!FetchServed
    <3>2. s6' \subseteq 1..Len(s2)
      BY <2>0, <3>1 DEF Profile!Typed
    <3> QED BY <2>0, <3>1, <3>2 DEF Profile!Typed, Profile!Form
  <2>21. CASE Profile!RefreshInBackground
    <3>1. /\ UNCHANGED <<s1, s2, s3, s4, s5, s7, s14, Profile!Form>>
          /\ s6' = s6 \cup {Len(s2)}
      BY <2>21 DEF Profile!RefreshInBackground
    <3>2. s6' \subseteq 1..Len(s2)
      <4>1. PICK n : n = Len(s2)
        OBVIOUS
      <4>2. n \in 1..n /\ s6 \subseteq 1..n
        BY <2>0, <4>1 DEF Profile!Typed
      <4> QED BY <3>1, <4>1, <4>2
    <3> QED BY <2>0, <3>1, <3>2 DEF Profile!Typed, Profile!Form
  <2>5. CASE Profile!ApiCatchesUp \/ Profile!Focus \/ Profile!FetchFails
    <3>1. /\ s3' \in 0..Len(s2) /\ s14' \in {0, s14}
          /\ s5' \in [st : {"none", "asked", "served"}, v : 0..Len(s2)]
          /\ UNCHANGED <<s1, s2, s4, s7, s6, Profile!Form>>
      BY <2>0, <2>5 DEF Profile!ApiCatchesUp, Profile!Focus, Profile!FetchFails, Profile!Idle,
                        Profile!Typed, Profile!Cache
    <3> QED BY <2>0, <3>1 DEF Profile!Typed, Profile!Form
  <2>6. ASSUME NEW a \in [v : 0..Len(s2), copy : BOOLEAN], Profile!Filled(a)
        PROVE  s9' \in Profile!AnyProfile /\ s10' \in SUBSET Profile!Field
    BY <2>6, MetadataTyped DEF Profile!Filled, Profile!Typed
  <2>7. CASE Profile!FetchAnswer
    <3> DEFINE a == [v |-> s5.v, copy |-> FALSE]
    <3>1. a \in [v : 0..Len(s2), copy : BOOLEAN]
      BY DEF Profile!Typed
    <3>2. /\ s4' = a /\ Profile!Filled(a) /\ s14' \in {0, s14} /\ s5' = Profile!Idle
          /\ UNCHANGED <<s1, s2, s3, s7, s6, s8, s11, s12, s13>>
      BY <2>7 DEF Profile!FetchAnswer, Profile!Cache
    <3> HIDE DEF a
    <3>3. s9' \in Profile!AnyProfile /\ s10' \in SUBSET Profile!Field
      BY <2>6, <3>1, <3>2
    <3>4. s5' \in [st : {"none", "asked", "served"}, v : 0..Len(s2)]
      BY <2>0, <3>2 DEF Profile!Idle
    <3> QED BY <2>0, <3>1, <3>2, <3>3, <3>4 DEF Profile!Typed
  <2>8. ASSUME NEW v \in 0..Len(s2), Profile!Copied(v)
        PROVE  /\ s4' \in [v : 0..Len(s2), copy : BOOLEAN] /\ s14' = 0
               /\ s9' \in Profile!AnyProfile /\ s10' \in SUBSET Profile!Field
    <3> DEFINE a == [v |-> v, copy |-> TRUE]
    <3>1. a \in [v : 0..Len(s2), copy : BOOLEAN]
      OBVIOUS
    <3>2. s4' = a /\ Profile!Filled(a) /\ s14' = 0
      BY <2>8 DEF Profile!Copied
    <3> HIDE DEF a
    <3> QED BY <2>6, <3>1, <3>2
  <2>9. CASE Profile!ShowList
    <3>1. UNCHANGED <<s1, s2, s3, s5, s6, s8, s11, s12, s13>>
      BY <2>9 DEF Profile!ShowList, Profile!Cache
    <3>2. CASE s7.has > 0 /\ Profile!Copied(s7.has) /\ UNCHANGED s7
      <4>1. s7.has \in 0..Len(s2)
        BY <3>2 DEF Profile!Typed
      <4> QED BY <2>0, <2>8, <3>1, <3>2, <4>1 DEF Profile!Typed
    <3>3. CASE /\ s7.st = "none" /\ s7' = [s7 EXCEPT !.st = "asked"]
               /\ UNCHANGED <<s4, s9, s10, s14>>
      BY <3>1, <3>3 DEF Profile!Typed
    <3> QED BY <2>9, <3>2, <3>3 DEF Profile!ShowList, Profile!Cache
  <2>10. CASE Profile!BatchAnswer
    <3>1. /\ s7' = [has |-> s3, st |-> "none"] /\ Profile!Copied(s3)
          /\ UNCHANGED <<s1, s2, s3, s5, s6, s8, s11, s12, s13>>
      BY <2>10 DEF Profile!BatchAnswer, Profile!Cache
    <3> QED BY <2>0, <2>8, <3>1 DEF Profile!Typed
  <2>11. CASE Profile!Edit
    <3>1. /\ s8' = TRUE /\ s9' = Profile!Metadata(s4) /\ s10' = {}
          /\ UNCHANGED <<s1, s2, s3, s4, s5, s7, s14, s6, s11, s12, s13>>
      BY <2>11 DEF Profile!Edit, Profile!Profiles, Profile!Cache
    <3>2. s8' \in BOOLEAN
      BY <3>1, Zenon
    <3>3. s9' \in Profile!AnyProfile
      BY <3>1, MetadataTyped DEF Profile!Typed
    <3> QED BY <3>1, <3>2, <3>3 DEF Profile!Typed
  <2>12. CASE Profile!CloseForm
    <3>1. /\ s8' = FALSE /\ s9' = Profile!Blank /\ s10' = {} /\ s11' = {}
          /\ UNCHANGED <<s1, s2, s3, s4, s5, s7, s14, s6, s12, s13>>
      BY <2>12 DEF Profile!CloseForm, Profile!Profiles, Profile!Cache
    <3>2. s8' \in BOOLEAN
      BY <3>1, Zenon
    <3> QED BY <1>0, <3>1, <3>2 DEF Profile!Typed
  <2>13. CASE Profile!Type
    <3>1. PICK n \in {0, ProfileVersions + ProfileUploads + 1} : s9' = [s9 EXCEPT !["name"] = n]
      BY <2>13 DEF Profile!Type
    <3>2. /\ s10' = s10 \cup {"name"}
          /\ UNCHANGED <<s1, s2, s3, s4, s5, s7, s14, s6, s8, s11, s12, s13>>
      BY <2>13 DEF Profile!Type, Profile!Profiles, Profile!Cache
    <3>3. s9' \in Profile!AnyProfile /\ s10' \in SUBSET Profile!Field
      BY <3>1, <3>2, ProfileBounds DEF Profile!Typed, Profile!AnyProfile, Profile!Field
    <3> QED BY <3>2, <3>3 DEF Profile!Typed
  <2>14. CASE Profile!Choose
    <3>1. /\ s12' = s12 + 1 /\ s11' = s11 \cup {s12'}
          /\ UNCHANGED <<s1, s2, s3, s4, s5, s7, s14, s6, s8, s9, s10, s13>>
      BY <2>14 DEF Profile!Choose, Profile!Profiles, Profile!Cache
    <3>2. s12 \in Nat /\ s11 \subseteq 1..s12
      BY DEF Profile!Typed
    <3>3. s11' \subseteq 1..s12' /\ s12' \in Nat
      BY <3>1, <3>2
    <3> QED BY <3>1, <3>3 DEF Profile!Typed
  <2>15. ASSUME NEW u \in s11, Profile!Uploaded(u) PROVE Profile!Typed'
    <3>1. /\ s11' = s11 \ {u}
          /\ UNCHANGED <<s1, s2, s3, s4, s5, s7, s14, s6, s8, s12, s13>>
          /\ \/ s9' = [s9 EXCEPT !["picture"] = ProfileVersions + u] /\ s10' = s10 \cup {"picture"}
             \/ UNCHANGED <<s9, s10>>
      BY <2>15 DEF Profile!Uploaded, Profile!Profiles, Profile!Cache
    <3>2. u \in 1..s12 /\ s12 \in Nat
      BY DEF Profile!Typed
    <3>3. ProfileVersions + u \in Int
      BY <3>2, ProfileBounds
    <3>4. s9' \in Profile!AnyProfile /\ s10' \in SUBSET Profile!Field
      <4> DEFINE n == ProfileVersions + u
      <4>1. n \in Int /\ s9 \in Profile!AnyProfile /\ s10 \in SUBSET Profile!Field
        BY <3>3 DEF Profile!Typed
      <4>2. [s9 EXCEPT !["picture"] = n] \in Profile!AnyProfile
        BY <4>1 DEF Profile!AnyProfile
      <4> HIDE DEF n
      <4> QED BY <3>1, <4>1, <4>2 DEF Profile!Field, n
    <3>5. s11' \subseteq 1..s12
      BY <3>1 DEF Profile!Typed
    <3> QED BY <3>1, <3>4, <3>5 DEF Profile!Typed
  <2>16. CASE Profile!Submit
    <3> DEFINE s == [st |-> "sent", data |-> Profile!Merged(s9), base |-> Profile!Metadata(s4),
                     whole |-> s4.v # 0, touched |-> s10, v |-> 0]
    <3>1. Profile!Metadata(s4) \in Profile!AnyProfile
      BY MetadataTyped DEF Profile!Typed
    <3>2. Profile!Merged(s9) \in Profile!AnyProfile
      BY <3>1 DEF Profile!Typed, Profile!Merged, Profile!AnyProfile, Profile!Field
    <3>3. s \in Profile!SaveOf /\ s.v = 0 /\ s.st = "sent"
      BY <3>1, <3>2 DEF Profile!Typed, Profile!SaveOf
    <3> HIDE DEF s
    <3>4. /\ s13' = s
          /\ UNCHANGED <<s1, s2, s3, s4, s5, s7, s14, s6, s8, s9, s10, s11, s12>>
      BY <2>16 DEF Profile!Submit, Profile!Profiles, Profile!Cache, s
    <3> QED BY <2>0, <3>3, <3>4 DEF Profile!Typed
  <2>17. CASE Profile!SaveDone
    <3>1. /\ s13' = Profile!NoSave /\ s5' = [Profile!Idle EXCEPT !.st = "asked"] /\ s8' = FALSE
          /\ s9' = Profile!Blank /\ s10' = {} /\ s11' = {} /\ s14' = s13.v
          /\ UNCHANGED <<s1, s2, s3, s4, s7, s12>> /\ s6' = s6 \cup {s13.v}
          /\ s13.v # 0
      BY <2>17 DEF Profile!SaveDone, Profile!Refetch, Profile!Typed
    <3>2. s8' \in BOOLEAN
      BY <3>1, Zenon
    <3>3. s5' \in [st : {"none", "asked", "served"}, v : 0..Len(s2)]
      BY <2>0, <3>1 DEF Profile!Idle
    <3>4. s14' \in 0..Len(s2) /\ s6' \subseteq 1..Len(s2)
      BY <2>0, <3>1 DEF Profile!Typed
    <3> QED BY <1>0, <2>0, <3>1, <3>2, <3>3, <3>4 DEF Profile!Typed
  <2>18. CASE Profile!SaveFails
    BY <1>0, <2>0, <2>18 DEF Profile!SaveFails, Profile!Profiles, Profile!Cache, Profile!Typed
  <2>19. CASE Profile!Visit
    <3>1. /\ s1' = ~s1 /\ s11' = {} /\ s9' \in {Profile!Metadata(s4), Profile!Blank} /\ s10' = {}
          /\ UNCHANGED <<s2, s3, s4, s5, s7, s14, s6, s8, s12, s13>>
      BY <2>19 DEF Profile!Visit, Profile!Profiles, Profile!Cache
    <3>2. s1' \in BOOLEAN
      BY <3>1, Zenon
    <3>3. s9' \in Profile!AnyProfile
      BY <1>0, <3>1, MetadataTyped DEF Profile!Typed
    <3> QED BY <3>1, <3>2, <3>3 DEF Profile!Typed
  <2> QED BY <2>1, <2>3, <2>4, <2>5, <2>7, <2>9, <2>10, <2>11, <2>12, <2>13, <2>14, <2>15, <2>16,
             <2>17, <2>18, <2>19, <2>20, <2>21 DEF Profile!Next
<1> QED BY <1>1, <1>2

\* What the query's profile is does not change as versions are added, or by a step that
\* leaves the versions alone.
LEMMA MetadataStays ==
  ASSUME Profile!Typed, s2' = s2 \/ (\E x : s2' = Append(s2, x)),
         NEW a \in [v : 0..Len(s2), copy : BOOLEAN]
  PROVE  a.v # 0 => s2'[a.v] = s2[a.v]
<1> SUFFICES ASSUME a.v # 0 PROVE s2'[a.v] = s2[a.v]
  OBVIOUS
<1>1. a.v \in 1..Len(s2) /\ s2 \in Seq(Profile!AnyProfile)
  BY DEF Profile!Typed
<1>2. CASE \E x : s2' = Append(s2, x)
  <2>1. PICK x : s2' = Append(s2, x)
    BY <1>2
  <2> QED BY <1>1, <2>1
<1> QED BY <1>2

\* FormIsOfAuthor: the form is filled anew whenever the query's profile is another one.
LEMMA FormStep ==
  /\ Profile!Init => Profile!FormIsOfAuthor
  /\ Profile!Typed /\ Profile!Typed' /\ Profile!FormIsOfAuthor /\ [Profile!Next]_(Profile!vars) => Profile!FormIsOfAuthor'
<1>1. Profile!Init => Profile!FormIsOfAuthor
  BY DEF Profile!Init, Profile!FormIsOfAuthor
<1>2. Profile!Typed /\ Profile!Typed' /\ Profile!FormIsOfAuthor /\ [Profile!Next]_(Profile!vars) => Profile!FormIsOfAuthor'
  <2> SUFFICES ASSUME Profile!Typed, Profile!Typed', Profile!FormIsOfAuthor, [Profile!Next]_(Profile!vars)
               PROVE  Profile!FormIsOfAuthor'
    OBVIOUS
  <2>1. ASSUME UNCHANGED <<s1, s8, s4, s9, s10>>,
               s2' = s2 \/ (\E x : s2' = Append(s2, x))
        PROVE  Profile!FormIsOfAuthor'
    <3>1. s4.v # 0 => s2'[s4.v] = s2[s4.v]
      BY <2>1, MetadataStays DEF Profile!Typed
    <3>2. s4.v # 0 => Profile!Metadata(s4)' = Profile!Metadata(s4)
      BY <2>1, <3>1 DEF Profile!Metadata
    <3> QED BY <2>1, <3>2 DEF Profile!FormIsOfAuthor, Profile!Mounted
  <2>2. CASE \/ UNCHANGED Profile!vars \/ Profile!Elsewhere \/ Profile!ApiCatchesUp \/ Profile!Focus \/ Profile!FetchServed \/ Profile!FetchFails
             \/ Profile!RefreshInBackground \/ Profile!Choose \/ Profile!Submit \/ Profile!SaveStored \/ Profile!SaveFails
    <3>1. UNCHANGED <<s1, s8, s4, s9, s10>>
      BY <2>2 DEF Profile!vars, Profile!Elsewhere, Profile!ApiCatchesUp, Profile!Focus,
                  Profile!FetchServed, Profile!FetchFails, Profile!RefreshInBackground,
                  Profile!Choose, Profile!Submit, Profile!SaveStored, Profile!SaveFails,
                  Profile!Form, Profile!Profiles
    <3>2. s2' = s2 \/ (\E x : s2' = Append(s2, x))
      BY <2>2 DEF Profile!vars, Profile!Elsewhere, Profile!ApiCatchesUp, Profile!Focus,
                  Profile!FetchServed, Profile!FetchFails, Profile!RefreshInBackground,
                  Profile!Choose, Profile!Submit, Profile!SaveStored, Profile!SaveFails,
                  Profile!Form, Profile!Profiles
    <3> QED BY <2>1, <3>1, <3>2
  <2>3. ASSUME NEW a, Profile!Filled(a), s4' = a, UNCHANGED <<s1, s8, s2>>
        PROVE  Profile!FormIsOfAuthor'
    <3>1. Profile!Metadata(s4)' = Profile!Metadata(a) /\ Profile!Mounted' = Profile!Mounted
      BY <2>3 DEF Profile!Metadata, Profile!Mounted
    <3>2. CASE Profile!Mounted /\ a.v # 0 /\ (s4.v = 0 \/ Profile!Metadata(a) # Profile!Metadata(s4))
      BY <2>3, <3>1, <3>2 DEF Profile!Filled, Profile!FormIsOfAuthor
    <3>3. CASE Profile!Mounted /\ a.v # 0 /\ s4.v # 0 /\ Profile!Metadata(a) = Profile!Metadata(s4)
      BY <2>3, <3>1, <3>3 DEF Profile!Filled, Profile!FormIsOfAuthor
    <3>4. CASE ~Profile!Mounted \/ a.v = 0
      BY <2>3, <3>1, <3>4 DEF Profile!FormIsOfAuthor
    <3> QED BY <3>2, <3>3, <3>4
  <2>4. CASE Profile!FetchAnswer \/ Profile!BatchAnswer
    BY <2>3, <2>4 DEF Profile!FetchAnswer, Profile!BatchAnswer, Profile!Copied
  <2>5. CASE Profile!ShowList
    <3>1. UNCHANGED <<s1, s2, s8>>
      BY <2>5 DEF Profile!ShowList
    <3>2. CASE UNCHANGED <<s4, s9, s10>>
      BY <2>1, <3>1, <3>2
    <3>3. CASE Profile!Copied(s7.has)
      BY <2>3, <3>1, <3>3 DEF Profile!Copied
    <3> QED BY <2>5, <3>2, <3>3 DEF Profile!ShowList
  <2>6. CASE Profile!Edit
    <3>1. s9' = Profile!Metadata(s4) /\ UNCHANGED <<s2, s4>>
      BY <2>6 DEF Profile!Edit, Profile!Profiles
    <3>2. Profile!Metadata(s4)' = Profile!Metadata(s4)
      BY <3>1 DEF Profile!Metadata
    <3> QED BY <3>1, <3>2 DEF Profile!FormIsOfAuthor
  <2>7. CASE Profile!CloseForm \/ Profile!SaveDone
    <3>1. ~s8'
      BY <2>7 DEF Profile!CloseForm, Profile!SaveDone
    <3> QED BY <3>1 DEF Profile!FormIsOfAuthor, Profile!Mounted
  <2>8. CASE Profile!Type
    <3>1. PICK n : s9' = [s9 EXCEPT !["name"] = n]
      BY <2>8 DEF Profile!Type
    <3>2. s10' = s10 \cup {"name"} /\ UNCHANGED <<s1, s2, s4, s8>>
      BY <2>8 DEF Profile!Type, Profile!Profiles
    <3>3. Profile!Metadata(s4)' = Profile!Metadata(s4) /\ Profile!Mounted' = Profile!Mounted
      BY <3>2 DEF Profile!Metadata, Profile!Mounted
    <3>4. s9'["picture"] = s9["picture"]
      BY <3>1 DEF Profile!Typed, Profile!AnyProfile, Profile!Field
    <3> QED BY <3>2, <3>3, <3>4 DEF Profile!FormIsOfAuthor
  <2>9. ASSUME NEW u \in s11, Profile!Uploaded(u) PROVE Profile!FormIsOfAuthor'
    <3>1. UNCHANGED <<s1, s2, s4, s8>>
      BY <2>9 DEF Profile!Uploaded, Profile!Profiles
    <3>2. CASE UNCHANGED <<s9, s10>>
      BY <2>1, <3>1, <3>2
    <3>3. CASE s9' = [s9 EXCEPT !["picture"] = ProfileVersions + u] /\ s10' = s10 \cup {"picture"}
      <4>1. Profile!Metadata(s4)' = Profile!Metadata(s4) /\ Profile!Mounted' = Profile!Mounted
        BY <3>1 DEF Profile!Metadata, Profile!Mounted
      <4>2. s9'["name"] = s9["name"]
        BY <3>3 DEF Profile!Typed, Profile!AnyProfile, Profile!Field
      <4> QED BY <3>1, <3>3, <4>1, <4>2 DEF Profile!FormIsOfAuthor
    <3> QED BY <2>9, <3>2, <3>3 DEF Profile!Uploaded
  <2>10. CASE Profile!Visit
    <3>1. UNCHANGED <<s2, s4, s8>> /\ (s1' /\ s8 => s9' = Profile!Metadata(s4))
      BY <2>10 DEF Profile!Visit, Profile!Profiles
    <3>2. Profile!Metadata(s4)' = Profile!Metadata(s4)
      BY <3>1 DEF Profile!Metadata
    <3> QED BY <3>1, <3>2 DEF Profile!FormIsOfAuthor, Profile!Mounted
  <2> QED BY <2>2, <2>4, <2>5, <2>6, <2>7, <2>8, <2>9, <2>10 DEF Profile!Next
<1> QED BY <1>1, <1>2

\* What is saved was made of the profile of the query: it differs in what was set.
LEMMA SaveStep ==
  /\ Profile!Init => Profile!SaveChangesTouched
  /\ Profile!Typed /\ Profile!FormIsOfAuthor /\ Profile!SaveChangesTouched /\ [Profile!Next]_(Profile!vars) => Profile!SaveChangesTouched'
<1>1. Profile!Init => Profile!SaveChangesTouched
  BY DEF Profile!Init, Profile!NoSave, Profile!SaveChangesTouched
<1>2. Profile!Typed /\ Profile!FormIsOfAuthor /\ Profile!SaveChangesTouched /\ [Profile!Next]_(Profile!vars) => Profile!SaveChangesTouched'
  <2> SUFFICES ASSUME Profile!Typed, Profile!FormIsOfAuthor, Profile!SaveChangesTouched, [Profile!Next]_(Profile!vars)
               PROVE  Profile!SaveChangesTouched'
    OBVIOUS
  <2>1. CASE s13' = s13
    BY <2>1 DEF Profile!SaveChangesTouched
  <2>2. CASE s13' = Profile!NoSave
    BY <2>2 DEF Profile!SaveChangesTouched, Profile!NoSave
  <2>3. CASE Profile!SaveStored
    <3> DEFINE n == Len(s2) + 1
    <3> HIDE DEF n
    <3>1. s13' = [s13 EXCEPT !.st = "stored", !.v = n] /\ s13.st = "sent" /\ s13 \in Profile!SaveOf
      BY <2>3 DEF Profile!SaveStored, Profile!Typed, n
    <3>2. s13'.data = s13.data /\ s13'.base = s13.base /\ s13'.whole = s13.whole
          /\ s13'.touched = s13.touched
      BY <3>1 DEF Profile!SaveOf
    <3> QED BY <3>1, <3>2 DEF Profile!SaveChangesTouched
  <2>4. CASE Profile!Submit
    <3>1. Profile!Mounted /\ s13' = [st |-> "sent", data |-> Profile!Merged(s9), base |-> Profile!Metadata(s4),
                                     whole |-> s4.v # 0, touched |-> s10, v |-> 0]
      BY <2>4 DEF Profile!Submit
    <3>2. s13'.data = Profile!Merged(s9) /\ s13'.base = Profile!Metadata(s4) /\ s13'.touched = s10
          /\ (s13'.whole <=> s4.v # 0)
      BY <3>1
    <3>3. /\ Profile!Merged(s9)["name"] = s9["name"] /\ Profile!Merged(s9)["picture"] = s9["picture"]
          /\ Profile!Merged(s9)["rest"] = Profile!Metadata(s4)["rest"]
      BY DEF Profile!Merged, Profile!Typed, Profile!AnyProfile, Profile!Field
    <3> QED BY <3>1, <3>2, <3>3
    DEF Profile!SaveChangesTouched, Profile!FormIsOfAuthor, Profile!Field
  <2>5. s13' = s13 \/ s13' = Profile!NoSave \/ Profile!SaveStored \/ Profile!Submit
    BY DEF Profile!Next, Profile!vars, Profile!Elsewhere, Profile!ApiCatchesUp, Profile!Focus,
           Profile!FetchServed, Profile!RefreshInBackground, Profile!FetchFails,
           Profile!FetchAnswer, Profile!ShowList, Profile!BatchAnswer, Profile!Edit,
           Profile!CloseForm, Profile!Type, Profile!Choose, Profile!SaveDone, Profile!SaveFails,
           Profile!Visit, Profile!Uploaded, Profile!Form
  <2> QED BY <2>1, <2>2, <2>3, <2>4, <2>5
<1> QED BY <1>1, <1>2

\* SettledInv: a save gives up the request under way, and the next has what was saved.
LEMMA SettledStep ==
  /\ Profile!Init => Profile!SettledInv
  /\ Profile!Typed /\ Profile!SettledInv /\ [Profile!Next]_(Profile!vars) => Profile!SettledInv'
<1>1. Profile!Init => Profile!SettledInv
  BY DEF Profile!Init, Profile!SettledInv, Profile!SavedIsSeen, Profile!Idle
<1>2. Profile!Typed /\ Profile!SettledInv /\ [Profile!Next]_(Profile!vars) => Profile!SettledInv'
  <2> SUFFICES ASSUME Profile!Typed, Profile!SettledInv, [Profile!Next]_(Profile!vars)
               PROVE  Profile!SettledInv'
    OBVIOUS
  <2>0. /\ s14 \in Nat /\ s14 <= Len(s2) /\ s4.v \in Nat /\ s5.v \in Nat
        /\ Len(s2) \in Nat /\ s6 \subseteq 1..Len(s2) /\ s6 \subseteq Nat
    BY DEF Profile!Typed
  <2> USE DEF Profile!SettledInv, Profile!SavedIsSeen
  <2>1. CASE UNCHANGED <<s5, s4, s14, s15>> /\ s6 \subseteq s6'
    BY <2>1
  <2>2. CASE s5'.st = "asked" /\ UNCHANGED <<s6, s14>>
    BY <2>2
  <2>3. CASE Profile!FetchServed
    <3>1. PICK S \in Profile!Found, v \in 0..Len(s2) : \E hits \in Profile!Hits(S) :
             /\ IF hits # {}
                THEN v \in hits /\ (\A w \in hits : w <= v) /\ UNCHANGED s6
                ELSE v \in {0, Len(s2)} /\ s6' = s6 \cup ({v} \ {0})
             /\ s5' = [st |-> "served", v |-> v] /\ s15' = (s15 \/ S # s6)
      BY <2>3 DEF Profile!FetchServed
    <3>2. PICK oldest \in 1..Len(s2) + 1 :
             /\ IF {w \in S : w >= oldest} # {}
                THEN v \in {w \in S : w >= oldest} /\ (\A w \in {w \in S : w >= oldest} : w <= v)
                     /\ UNCHANGED s6
                ELSE v \in {0, Len(s2)} /\ s6' = s6 \cup ({v} \ {0})
      BY <3>1 DEF Profile!Hits
    <3>3. s14' = s14 /\ s6 \subseteq s6' /\ s5'.st = "served" /\ s5'.v = v
      BY <2>3, <3>1 DEF Profile!FetchServed
    <3>4. ASSUME S = s6, v # 0 PROVE v >= s14
      <4>1. CASE {w \in S : w >= oldest} # {}
        <5>1. v \in s6 /\ v >= oldest /\ (\A w \in s6 : w >= oldest => w <= v)
          BY <3>2, <3>4, <4>1
        <5>2. s14 = 0 \/ s14 \in s6
          OBVIOUS
        <5> QED BY <2>0, <5>1, <5>2
      <4>2. CASE {w \in S : w >= oldest} = {}
        BY <2>0, <3>2, <3>4, <4>2
      <4> QED BY <4>1, <4>2
    <3>5. ~s15' => S = s6
      BY <3>1, Zenon
    <3> QED BY <3>3, <3>4, <3>5
  <2>10. CASE Profile!SaveDone
    <3>1. s14' = s13.v /\ s6' = s6 \cup {s13.v} /\ s5'.st = "asked"
      BY <2>10 DEF Profile!SaveDone, Profile!Refetch, Profile!Idle
    <3> QED BY <3>1
  <2>4. CASE Profile!FetchFails
    BY <2>0, <2>4 DEF Profile!FetchFails, Profile!Idle, Profile!Cache
  <2>5. CASE Profile!FetchAnswer
    <3>1. /\ s5.st = "served" /\ s5'.st = "none" /\ s4'.v = s5.v /\ UNCHANGED Profile!Cache
          /\ s14' = IF s5.v = 0 THEN 0 ELSE s14
      BY <2>5 DEF Profile!FetchAnswer, Profile!Idle
    <3> QED BY <2>0, <3>1 DEF Profile!Cache
  <2>6. ASSUME NEW v \in 0..Len(s2), Profile!Copied(v), UNCHANGED <<s5, Profile!Cache>> PROVE Profile!SettledInv'
    BY <2>0, <2>6 DEF Profile!Copied
  <2>7. CASE Profile!BatchAnswer
    BY <2>6, <2>7 DEF Profile!BatchAnswer, Profile!Typed
  <2>8. CASE Profile!ShowList
    <3>1. CASE s7.has > 0 /\ Profile!Copied(s7.has)
      <4>1. s7.has \in 0..Len(s2) /\ UNCHANGED <<s5, Profile!Cache>>
        BY <2>8, <3>1 DEF Profile!Typed, Profile!ShowList
      <4> QED BY <2>6, <3>1, <4>1
    <3> QED BY <2>1, <2>8, <3>1 DEF Profile!ShowList, Profile!Cache
  <2>9. CASE Profile!Focus
    BY <2>2, <2>9 DEF Profile!Focus, Profile!Idle, Profile!Cache
  <2> QED
    BY <2>1, <2>3, <2>4, <2>5, <2>7, <2>8, <2>9, <2>10
    DEF Profile!Next, Profile!vars, Profile!Elsewhere, Profile!ApiCatchesUp,
        Profile!RefreshInBackground, Profile!Edit, Profile!CloseForm, Profile!Type,
        Profile!Choose, Profile!Submit, Profile!SaveStored, Profile!SaveFails, Profile!Visit,
        Profile!Uploaded, Profile!Form, Profile!Profiles, Profile!Cache
<1> QED BY <1>1, <1>2

\* SavedIsTheForms for any number of texts, permissions, versions, pictures and acts: by
\* PolicyInv a configuration that is pointed to is the one of its type (PermissionForm), and
\* by ProfileInv the form says what its query says but for what the user has set and the
\* cache has what was saved (EditProfileForm).
THEOREM SavedIsTheFormsHolds == Spec => []SavedIsTheForms
<1> DEFINE PInv == part = "Policy" => Policy!PolicyInv
           FInv == part = "Profile" => Profile!ProfileInv
<1>1. Init => PInv
  <2> SUFFICES ASSUME Init, part = "Policy" PROVE Policy!PolicyInv
    OBVIOUS
  <2>1. Policy!Init
    BY DEF Init
  <2> QED BY <2>1, PolicyHolds
<1>2. Init => FInv
  <2> SUFFICES ASSUME Init, part = "Profile" PROVE Profile!ProfileInv
    OBVIOUS
  <2>1. Profile!Init
    BY DEF Init
  <2> QED BY <2>1, ProfileTyped, FormStep, SaveStep, SettledStep DEF Profile!ProfileInv
<1>3. PInv /\ [Next]_vars => PInv'
  <2> SUFFICES ASSUME PInv, [Next]_vars, part' = "Policy"
               PROVE  (Policy!PolicyInv)'
    OBVIOUS
  <2>1. part = "Policy" /\ [Policy!Next]_(Policy!vars)
    BY DEF Next, vars, Policy!vars
  <2> QED BY <2>1, PolicyHolds
<1>4. FInv /\ [Next]_vars => FInv'
  <2> SUFFICES ASSUME FInv, [Next]_vars, part' = "Profile"
               PROVE  (Profile!ProfileInv)'
    OBVIOUS
  <2>1. part = "Profile" /\ [Profile!Next]_(Profile!vars)
    BY DEF Next, vars, Profile!vars
  <2> QED BY <2>1, ProfileTyped, FormStep, SaveStep, SettledStep DEF Profile!ProfileInv
<1>5. PInv => (part = "Policy" => Policy!SavedAsTheFormSays)
  BY PolicySaved
<1>6. FInv => (part = "Profile" => Profile!SaveChangesTouched /\ Profile!SavedIsSeen)
  BY DEF Profile!ProfileInv, Profile!SettledInv
<1>7. PInv /\ FInv => SavedIsTheForms
  BY <1>5, <1>6 DEF SavedIsTheForms
<1> QED BY <1>1, <1>2, <1>3, <1>4, <1>7, PTL DEF Spec

-----------------------------------------------------------------------------
\* One field of a screen's item is set, and the others stay.
LEMMA ItemChanged ==
  ASSUME NEW i \in Item!AnyItem
  PROVE  /\ \A x \in Item!Choice : LET n == [i EXCEPT !.cc = x] IN
              n \in Item!AnyItem /\ n.cc = x /\ n.deletion = i.deletion
         /\ \A x \in BOOLEAN : LET n == [i EXCEPT !.error = x] IN
              n \in Item!AnyItem /\ n.cc = i.cc /\ n.deletion = i.deletion
         /\ \A x \in Item!Dialog \cup {"none"} : LET n == [i EXCEPT !.dialog = x] IN
              n \in Item!AnyItem /\ n.cc = i.cc /\ n.deletion = i.deletion
         /\ \A x \in Item!AnyDeletion : LET n == [i EXCEPT !.deletion = x] IN
              n \in Item!AnyItem /\ n.cc = i.cc /\ n.deletion = x
BY DEF Item!AnyItem

\* What a new item is.
LEMMA FreshItem ==
  /\ Item!Fresh \in Item!AnyItem /\ Item!Fresh.cc = Item!Unset /\ Item!Fresh.deletion = Item!Idle
  /\ Item!Idle \in Item!AnyDeletion /\ Item!Idle.st = "none" /\ Item!Unset \in Item!Choice
<1>1. Item!Idle \in Item!AnyDeletion /\ Item!Idle.st = "none"
  BY DEF Item!Idle, Item!AnyDeletion
<1>2. Item!Unset \in Item!Choice /\ "none" \in Item!Dialog \cup {"none"}
  BY DEF Item!Choice
<1> QED BY <1>1, <1>2 DEF Item!Fresh, Item!AnyItem

\* The shape of the card, whichever of the video and the thumbnail loads, and when
\* (handleVideoDimensions, handleThumbnailDimensions).
LEMMA ShapeStep ==
  /\ Item!Init => Item!ShapeIsTrusted
  /\ Item!ShapeIsTrusted /\ [Item!Next]_(Item!vars) => Item!ShapeIsTrusted'
<1>1. Item!Init => Item!ShapeIsTrusted
  BY DEF Item!Init, Item!ShapeIsTrusted
<1>2. Item!ShapeIsTrusted /\ [Item!Next]_(Item!vars) => Item!ShapeIsTrusted'
  <2> SUFFICES ASSUME Item!ShapeIsTrusted, [Item!Next]_(Item!vars) PROVE Item!ShapeIsTrusted'
    OBVIOUS
  <2>1. ASSUME NEW r \in Item!Ratios, Item!VideoLoads(r) PROVE Item!ShapeIsTrusted'
    BY <2>1 DEF Item!VideoLoads, Item!Dimensions, Item!ShapeIsTrusted, Item!Playing,
                Item!Ratios, Item!Video
  <2>2. ASSUME NEW r \in Item!Ratios, Item!ThumbnailLoads(r) PROVE Item!ShapeIsTrusted'
    BY <2>2 DEF Item!ThumbnailLoads, Item!ShapeIsTrusted, Item!Playing, Item!Video
  <2>3. CASE UNCHANGED <<s2, s3, s16>>
    BY <2>3 DEF Item!ShapeIsTrusted, Item!Playing
  <2>4. Item!Subtitles \/ Item!EnterFull \/ Item!ExitFull \/ Item!ThumbnailFails \/ Item!ThumbnailChecked \/ Item!AgeVerified
        \/ Item!SwitchUser \/ Item!FeedAnswers => UNCHANGED <<s2, s3, s16>>
    BY DEF Item!Subtitles, Item!EnterFull, Item!ExitFull, Item!ThumbnailFails,
           Item!ThumbnailChecked, Item!AgeVerified, Item!SwitchUser, Item!FeedAnswers,
           Item!Video, Item!Picture
  <2>5. ASSUME NEW s \in Item!Screen,
               Item!ClickSound(s) \/ Item!ClickSubtitles(s) \/ Item!PlayerFails(s) \/ Item!CloseDialog(s) \/ Item!Confirm(s)
               \/ Item!Published(s) \/ Item!Deleted(s) \/ Item!DeleteFails(s) \/ Item!Report(s)
               \/ \E d \in Item!Dialog : Item!OpenDialog(s, d)
        PROVE  UNCHANGED <<s2, s3, s16>>
    BY <2>5 DEF Item!ClickSound, Item!ClickSubtitles, Item!PlayerFails, Item!CloseDialog,
                Item!Confirm, Item!Published, Item!Deleted, Item!DeleteFails, Item!Report,
                Item!OpenDialog, Item!Video, Item!Picture
  <2>6. (\E d \in s12 : Item!LostDeletion(d)) \/ (\E r \in s14 : Item!ReportOver(r)) \/ UNCHANGED Item!vars
        => UNCHANGED <<s2, s3, s16>>
    BY DEF Item!LostDeletion, Item!ReportOver, Item!vars, Item!Video, Item!Picture
  <2> QED BY <2>1, <2>2, <2>3, <2>4, <2>5, <2>6 DEF Item!Next
<1> QED BY <1>1, <1>2

\* What the screens' items are after a step that sets the sound.
LEMMA SoundItems ==
  ASSUME NEW m, NEW i \in [Item!Screen -> Item!AnyItem], NEW h \in [Item!Screen -> Item!Choice], Item!SoundIs(m, i, h)
  PROVE  /\ s11' \in [Item!Screen -> Item!AnyItem] /\ s18' \in [Item!Screen -> Item!Choice]
         /\ \A s \in Item!Screen : /\ s11'[s].deletion = i[s].deletion
                                   /\ i[s].cc = h[s] => s11'[s].cc = s18'[s]
<1>1. CASE m # s7
  <2>1. s11' = [s \in Item!Screen |-> [i[s] EXCEPT !.cc = Item!Unset]] /\ s18' = [s \in Item!Screen |-> Item!Unset]
    BY <1>1 DEF Item!SoundIs
  <2>2. \A s \in Item!Screen : /\ [i[s] EXCEPT !.cc = Item!Unset] \in Item!AnyItem
                               /\ [i[s] EXCEPT !.cc = Item!Unset].cc = Item!Unset
                               /\ [i[s] EXCEPT !.cc = Item!Unset].deletion = i[s].deletion
    BY FreshItem, ItemChanged
  <2> QED BY <2>1, <2>2, FreshItem
<1>2. CASE m = s7
  BY <1>2 DEF Item!SoundIs
<1> QED BY <1>1, <1>2

\* The fullscreen screen as it is opened and closed.
LEMMA ReopenedItems ==
  ASSUME Item!ChosenInv
  PROVE  LET i == [s11 EXCEPT !["full"] = Item!Fresh] IN
         /\ i \in [Item!Screen -> Item!AnyItem] /\ Item!Reopened \in [Item!Screen -> Item!Choice]
         /\ i["full"].cc = Item!Reopened["full"] /\ i["full"].deletion.st = "none"
         /\ i["card"] = s11["card"] /\ Item!Reopened["card"] = s18["card"]
BY FreshItem DEF Item!Reopened, Item!ChosenInv, Item!Screen

\* One screen's item changes, in what the subtitles are not read from.
LEMMA OneItem ==
  ASSUME Item!ChosenInv, Item!DeletionInv, NEW s \in Item!Screen, NEW n \in Item!AnyItem,
         s11' = [s11 EXCEPT ![s] = n], n.cc = s11[s].cc,
         n.deletion.st # "none" => n.deletion.by = "author" /\ (s = "full" => s6),
         UNCHANGED <<s4, s5, s6, s18, s12>>, Item!DeletionsAreOwn'
  PROVE  Item!ChosenInv' /\ Item!DeletionInv'
<1>1. /\ s11' \in [Item!Screen -> Item!AnyItem] /\ s11'[s] = n
      /\ \A t \in Item!Screen \ {s} : s11'[t] = s11[t]
  BY DEF Item!ChosenInv
<1>2. Item!ChosenInv'
  BY <1>1 DEF Item!ChosenInv, Item!Mounted
<1>3. Item!DeletionInv'
  BY <1>1, "full" \in Item!Screen DEF Item!DeletionInv, Item!Screen
<1> QED BY <1>2, <1>3

\* What the subtitles and the deletions show is kept by every step of the screens.
LEMMA ChosenStep ==
  /\ Item!Init => Item!ChosenInv /\ Item!SoundInv /\ Item!DeletionInv
  /\ Item!ChosenInv /\ Item!SoundInv /\ Item!DeletionInv /\ [Item!Next]_(Item!vars)
       => Item!ChosenInv' /\ Item!SoundInv' /\ Item!DeletionInv'
<1> DEFINE Inv == Item!ChosenInv /\ Item!SoundInv /\ Item!DeletionInv
<1>1. Item!Init => Inv
  <2> SUFFICES ASSUME Item!Init PROVE Inv
    OBVIOUS
  <2>1. s11 = [s \in Item!Screen |-> Item!Fresh] /\ s18 = [s \in Item!Screen |-> Item!Unset]
    BY DEF Item!Init
  <2>2. Item!ChosenInv
    BY <2>1, FreshItem DEF Item!ChosenInv
  <2>3. Item!DeletionInv
    <3>1. s12 = {} /\ s13 = {}
      BY DEF Item!Init
    <3> QED BY <2>1, <3>1, FreshItem, "full" \in Item!Screen
    DEF Item!DeletionInv, Item!DeletionsAreOwn, Item!Screen
  <2>4. s5 = FALSE /\ s6 = FALSE /\ s7 = TRUE /\ s8 = TRUE /\ s19 = TRUE
    BY DEF Item!Init
  <2>5. s7 \in BOOLEAN /\ s8 \in BOOLEAN
    BY <2>4, Zenon
  <2> QED BY <2>2, <2>3, <2>4, <2>5 DEF Item!SoundInv
<1>2. Inv /\ [Item!Next]_(Item!vars) => Inv'
  <2> SUFFICES ASSUME Item!ChosenInv, Item!SoundInv, Item!DeletionInv, [Item!Next]_(Item!vars)
               PROVE  Inv'
    OBVIOUS
  <2>0. \A s \in Item!Screen : s11[s] \in Item!AnyItem
    BY DEF Item!ChosenInv
  <2>1. ASSUME UNCHANGED <<Item!Open, s7, s8, s11, s12, s18, s19>>, Item!DeletionsAreOwn' PROVE Inv'
    BY <2>1 DEF Item!ChosenInv, Item!SoundInv, Item!DeletionInv, Item!Open, Item!Mounted
  <2>2. ASSUME UNCHANGED <<Item!Open, s7, s8, s19>> PROVE Item!SoundInv'
    BY <2>2 DEF Item!SoundInv, Item!Open
  <2>3. ASSUME UNCHANGED s13 PROVE Item!DeletionsAreOwn'
    BY <2>3 DEF Item!DeletionInv, Item!DeletionsAreOwn
  <2>4. CASE Item!Subtitles \/ Item!AgeVerified \/ Item!SwitchUser
    BY <2>4, <2>1, <2>3 DEF Item!Subtitles, Item!AgeVerified, Item!SwitchUser, Item!Requests
  <2>5. ASSUME NEW r, Item!VideoLoads(r) \/ Item!ThumbnailLoads(r) \/ Item!ReportOver(r) PROVE Inv'
    BY <2>5, <2>1, <2>3 DEF Item!VideoLoads, Item!ThumbnailLoads, Item!ReportOver, Item!Requests
  <2>6. ASSUME NEW d \in s12, Item!LostDeletion(d) PROVE Inv'
    <3>1. s12' \subseteq s12 /\ Item!DeletionsAreOwn'
      BY <2>6 DEF Item!LostDeletion, Item!DeletionInv, Item!DeletionsAreOwn, Item!Store
    <3>2. UNCHANGED <<Item!Open, s7, s8, s11, s18, s19>>
      BY <2>6 DEF Item!LostDeletion
    <3> QED BY <3>1, <3>2 DEF Item!ChosenInv, Item!SoundInv, Item!DeletionInv, Item!Open,
                              Item!Mounted
  <2>7. Item!EnterFull => Inv'
    <3> SUFFICES ASSUME Item!EnterFull PROVE Inv'
      OBVIOUS
    <3> DEFINE i == [s11 EXCEPT !["full"] = Item!Fresh]
    <3>1. Item!SoundIs(FALSE, i, Item!Reopened) /\ UNCHANGED <<s4, s12, s13, s19>>
          /\ s5' = TRUE /\ s6' = TRUE /\ s8' = s7 /\ ~s5
      BY DEF Item!EnterFull, Item!Requests
    <3>2. /\ i \in [Item!Screen -> Item!AnyItem] /\ Item!Reopened \in [Item!Screen -> Item!Choice]
          /\ i["full"].cc = Item!Reopened["full"] /\ i["full"].deletion.st = "none"
          /\ i["card"] = s11["card"] /\ Item!Reopened["card"] = s18["card"]
      BY ReopenedItems
    <3> HIDE DEF i
    <3>3. /\ s11' \in [Item!Screen -> Item!AnyItem] /\ s18' \in [Item!Screen -> Item!Choice]
          /\ \A s \in Item!Screen : /\ s11'[s].deletion = i[s].deletion
                                    /\ i[s].cc = Item!Reopened[s] => s11'[s].cc = s18'[s]
      BY <3>1, <3>2, SoundItems
    <3>4. Item!ChosenInv'
      BY <3>1, <3>2, <3>3 DEF Item!ChosenInv, Item!Mounted, Item!Screen
    <3>5. Item!SoundInv'
      <4>1. s7' = FALSE
        BY <3>1 DEF Item!SoundIs
      <4>2. s7' \in BOOLEAN /\ s8' \in BOOLEAN
        BY <3>1, <4>1, Zenon DEF Item!SoundInv
      <4> QED BY <3>1, <4>2 DEF Item!SoundInv
    <3>6. Item!DeletionInv'
      BY <3>1, <3>2, <3>3, <2>3 DEF Item!DeletionInv, Item!Screen
    <3> QED BY <3>4, <3>5, <3>6
  <2>8. ASSUME Item!Exit, UNCHANGED <<s4, s8, s13, s19>>, s5,
               \A d \in s12' : d.by = "author"
        PROVE  Inv'
    <3> DEFINE i == [s11 EXCEPT !["full"] = Item!Fresh]
    <3>1. Item!SoundIs(s8, i, Item!Reopened) /\ s5' = FALSE /\ s6' = FALSE /\ s7' = s8
      BY <2>8 DEF Item!Exit, Item!Restored, Item!SoundIs
    <3>2. /\ i \in [Item!Screen -> Item!AnyItem] /\ Item!Reopened \in [Item!Screen -> Item!Choice]
          /\ i["full"].cc = Item!Reopened["full"] /\ i["full"].deletion.st = "none"
          /\ i["card"] = s11["card"] /\ Item!Reopened["card"] = s18["card"]
      BY ReopenedItems
    <3> HIDE DEF i
    <3>3. /\ s11' \in [Item!Screen -> Item!AnyItem] /\ s18' \in [Item!Screen -> Item!Choice]
          /\ \A s \in Item!Screen : /\ s11'[s].deletion = i[s].deletion
                                    /\ i[s].cc = Item!Reopened[s] => s11'[s].cc = s18'[s]
      BY <3>1, <3>2, SoundItems
    <3>4. Item!ChosenInv'
      BY <3>1, <3>2, <3>3, <2>8 DEF Item!ChosenInv, Item!Mounted, Item!Screen
    <3>5. Item!SoundInv'
      BY <3>1, <2>8 DEF Item!SoundInv
    <3>6. Item!DeletionInv'
      BY <3>2, <3>3, <2>8, <2>3 DEF Item!DeletionInv, Item!Screen
    <3> QED BY <3>4, <3>5, <3>6
  <2>9. \A s \in Item!Screen : \A d \in Item!Left(s) : d.by = "author"
    BY DEF Item!Left, Item!DeletionInv
  <2>10. CASE Item!ExitFull
    BY <2>10, <2>8, <2>9, "full" \in Item!Screen DEF Item!ExitFull, Item!Screen
  <2>11. CASE Item!FeedAnswers
    <3>1. s11' = [s \in Item!Screen |-> IF s = "full" /\ s6' THEN s11[s] ELSE Item!Fresh]
          /\ s4' = FALSE /\ s6' \in {s6, FALSE} /\ Item!DeletionsAreOwn'
          /\ UNCHANGED <<s5, s7, s8, s18, s19>>
          /\ s12' = Item!Left("card") \cup (IF s6 /\ ~s6' THEN Item!Left("full") ELSE {})
      BY <2>11, <2>3 DEF Item!FeedAnswers
    <3>2. s11' \in [Item!Screen -> Item!AnyItem] /\ (s6' => s6)
          /\ s11'["card"] = Item!Fresh /\ s11'["full"] = IF s6' THEN s11["full"] ELSE Item!Fresh
      <4>1. \A s \in Item!Screen : (IF s = "full" /\ s6' THEN s11[s] ELSE Item!Fresh) \in Item!AnyItem
        BY <2>0, FreshItem
      <4>2. s11' \in [Item!Screen -> Item!AnyItem]
        BY <3>1, <4>1
      <4>3. "card" \in Item!Screen /\ "full" \in Item!Screen
        BY DEF Item!Screen
      <4>4. s11'["card"] = Item!Fresh /\ s11'["full"] = IF s6' THEN s11["full"] ELSE Item!Fresh
        BY <3>1, <4>3
      <4>5. s6' => s6
        BY <3>1, Zenon
      <4> QED BY <4>2, <4>4, <4>5
    <3>3. Item!ChosenInv'
      BY <3>1, <3>2 DEF Item!ChosenInv, Item!Mounted, Item!Screen
    <3>4. Item!SoundInv'
      BY <3>1, <3>2 DEF Item!SoundInv
    <3>5. \A d \in s12' : d.by = "author"
      BY <3>1, <2>9 DEF Item!Screen
    <3>6. Item!DeletionInv'
      BY <3>1, <3>2, <3>5, FreshItem DEF Item!DeletionInv, Item!Screen
    <3> QED BY <3>3, <3>4, <3>6
  <2>12. ASSUME NEW s \in Item!Screen, NEW n \in Item!AnyItem, s11' = [s11 EXCEPT ![s] = n],
                n.cc = s11[s].cc, n.deletion = s11[s].deletion,
                UNCHANGED <<Item!Open, s7, s8, s12, s13, s18, s19>>
         PROVE  Inv'
    <3>1. n.deletion.st # "none" => n.deletion.by = "author" /\ (s = "full" => s6)
      BY <2>12 DEF Item!DeletionInv
    <3>2. Item!ChosenInv' /\ Item!DeletionInv'
      BY <2>12, <2>3, <3>1, OneItem DEF Item!Open
    <3> QED BY <3>2, <2>2, <2>12
  <2>13. ASSUME NEW s \in Item!Screen, NEW x \in BOOLEAN, s11' = [s11 EXCEPT ![s].error = x],
                UNCHANGED <<Item!Open, s7, s8, s12, s13, s18, s19>>
         PROVE  Inv'
    BY <2>13, <2>12, <2>0, ItemChanged
  <2>14. ASSUME NEW s \in Item!Screen, NEW x \in Item!Dialog \cup {"none"},
                s11' = [s11 EXCEPT ![s].dialog = x],
                UNCHANGED <<Item!Open, s7, s8, s12, s13, s18, s19>>
         PROVE  Inv'
    BY <2>14, <2>12, <2>0, ItemChanged
  <2>15. CASE Item!ThumbnailFails \/ Item!ThumbnailChecked
    <3>1. UNCHANGED <<Item!Open, s7, s8, s12, s13, s18, s19>>
      BY <2>15 DEF Item!ThumbnailFails, Item!ThumbnailChecked, Item!Requests
    <3>2. UNCHANGED s11 \/ s11' = [s11 EXCEPT !["card"].error = TRUE]
      BY <2>15 DEF Item!ThumbnailFails, Item!ThumbnailChecked
    <3> QED BY <3>1, <3>2, <2>1, <2>3, <2>13 DEF Item!Screen
  <2>16. ASSUME NEW s \in Item!Screen, Item!PlayerFails(s) PROVE Inv'
    BY <2>16, <2>13 DEF Item!PlayerFails, Item!Requests
  <2>17. ASSUME NEW s \in Item!Screen, NEW d \in Item!Dialog, Item!OpenDialog(s, d) PROVE Inv'
    BY <2>17, <2>14 DEF Item!OpenDialog, Item!Requests
  <2>18. ASSUME NEW s \in Item!Screen, Item!CloseDialog(s) \/ Item!Report(s) PROVE Inv'
    BY <2>18, <2>14 DEF Item!CloseDialog, Item!Report, Item!Requests
  <2>19. ASSUME NEW s \in Item!Screen, NEW x \in Item!AnyDeletion, s11' = [s11 EXCEPT ![s].deletion = x],
                x.st # "none" => x.by = "author" /\ (s = "full" => s6), Item!DeletionsAreOwn',
                UNCHANGED <<Item!Open, s7, s8, s12, s18, s19>>
         PROVE  Inv'
    <3> DEFINE n == [s11[s] EXCEPT !.deletion = x]
    <3>1. n \in Item!AnyItem /\ n.cc = s11[s].cc /\ n.deletion = x
      BY <2>0, ItemChanged
    <3>2. s11' = [s11 EXCEPT ![s] = n]
      BY <2>19
    <3> HIDE DEF n
    <3>3. Item!ChosenInv' /\ Item!DeletionInv'
      BY <2>19, <3>1, <3>2, OneItem DEF Item!Open
    <3> QED BY <3>3, <2>2, <2>19
  <2>20. ASSUME NEW s \in Item!Screen, Item!Confirm(s) PROVE Inv'
    <3> DEFINE x == [by |-> s1, st |-> "sent"]
    <3>1. x \in Item!AnyDeletion /\ x.by = "author" /\ (s = "full" => s6)
      BY <2>20 DEF Item!Confirm, Item!MayDelete, Item!AnyDeletion, Item!Account, Item!Mounted
    <3>2. s11' = [s11 EXCEPT ![s].deletion = x]
          /\ UNCHANGED <<Item!Open, s7, s8, s12, s13, s18, s19>>
      BY <2>20 DEF Item!Confirm, Item!Requests
    <3> HIDE DEF x
    <3> QED BY <3>1, <3>2, <2>3, <2>19
  <2>21. ASSUME NEW s \in Item!Screen, Item!Published(s) PROVE Inv'
    <3> DEFINE x == [s11[s].deletion EXCEPT !.st = "published"]
    <3>1. s11[s].deletion \in Item!AnyDeletion
      BY <2>0 DEF Item!AnyItem
    <3>2. x \in Item!AnyDeletion /\ x.by = s11[s].deletion.by
      BY <3>1 DEF Item!AnyDeletion
    <3>3. s11' = [s11 EXCEPT ![s].deletion = x] /\ s11[s].deletion.st # "none"
          /\ s13' = s13 \cup {s11[s].deletion.by}
          /\ UNCHANGED <<Item!Open, s7, s8, s12, s18, s19>>
      BY <2>21 DEF Item!Published, Item!Store
    <3> HIDE DEF x
    <3>4. s11[s].deletion.by = "author" /\ (s = "full" => s6)
      BY <3>3 DEF Item!DeletionInv
    <3>5. Item!DeletionsAreOwn'
      BY <3>3, <3>4 DEF Item!DeletionInv, Item!DeletionsAreOwn
    <3> QED BY <3>2, <3>3, <3>4, <3>5, <2>19
  <2>22. ASSUME NEW s \in Item!Screen, Item!DeleteFails(s) PROVE Inv'
    <3>1. s11' = [s11 EXCEPT ![s].deletion = Item!Idle]
          /\ UNCHANGED <<Item!Open, s7, s8, s12, s13, s18, s19>>
      BY <2>22 DEF Item!DeleteFails, Item!Requests
    <3> QED BY <3>1, <2>3, <2>19, FreshItem
  <2>23. CASE Item!Deleted("full")
    <3>1. s5
      BY <2>23, "full" \in Item!Screen
      DEF Item!Deleted, Item!DeletionInv, Item!SoundInv, Item!Screen
    <3>2. Item!Exit /\ UNCHANGED <<s4, s8, s13, s12, s19>>
      BY <2>23 DEF Item!Deleted, Item!Requests
    <3> QED BY <3>1, <3>2, <2>8 DEF Item!DeletionInv
  <2>24. CASE Item!Deleted("card")
    <3> DEFINE n == [s11["card"] EXCEPT !.dialog = "none", !.deletion = Item!Idle]
    <3>1. n \in Item!AnyItem /\ n.cc = s11["card"].cc /\ n.deletion = Item!Idle
      BY <2>0, FreshItem DEF Item!AnyItem, Item!Screen
    <3>2. s11' = [s11 EXCEPT !["card"].dialog = "none", !["card"].deletion = Item!Idle]
          /\ UNCHANGED <<Item!Open, s7, s8, s12, s13, s18, s19>>
      BY <2>24 DEF Item!Deleted, Item!Requests, Item!Open
    <3>3. s11' = [s11 EXCEPT !["card"] = n]
      BY <3>2, <2>0 DEF Item!ChosenInv, Item!Screen
    <3> HIDE DEF n
    <3>4. Item!ChosenInv' /\ Item!DeletionInv'
      BY <3>1, <3>2, <3>3, <2>3, FreshItem, OneItem DEF Item!Open, Item!Screen
    <3> QED BY <3>2, <3>4, <2>2
  <2>25. ASSUME NEW s \in Item!Screen, Item!ClickSound(s) PROVE Inv'
    <3>1. Item!SoundIs(~s7, s11, s18) /\ s19' = (IF s = "card" THEN ~s7 ELSE s19)
          /\ UNCHANGED <<Item!Open, s8, s12, s13>> /\ Item!Reached(s)
      BY <2>25 DEF Item!ClickSound, Item!Requests
    <3>2. /\ s11' \in [Item!Screen -> Item!AnyItem] /\ s18' \in [Item!Screen -> Item!Choice]
          /\ \A t \in Item!Screen : /\ s11'[t].deletion = s11[t].deletion
                                    /\ s11[t].cc = s18[t] => s11'[t].cc = s18'[t]
      BY <3>1, SoundItems DEF Item!ChosenInv
    <3>3. Item!ChosenInv'
      BY <3>1, <3>2 DEF Item!ChosenInv, Item!Mounted, Item!Open
    <3>4. Item!DeletionInv'
      BY <3>1, <3>2, <2>3, "full" \in Item!Screen DEF Item!DeletionInv, Item!Open, Item!Screen
    <3>5. s7' = ~s7 /\ s7' \in BOOLEAN
      BY <3>1, Zenon DEF Item!SoundIs
    <3>6. CASE s = "card"
      <4>1. ~s5 /\ s19' = ~s7
        BY <3>1, <3>6 DEF Item!Reached
      <4> QED BY <4>1, <3>1, <3>3, <3>4, <3>5 DEF Item!SoundInv, Item!Open
    <3>7. CASE s = "full"
      <4>1. s5 /\ s19' = s19
        BY <3>1, <3>7 DEF Item!Reached, Item!Mounted, Item!SoundInv
      <4> QED BY <4>1, <3>1, <3>3, <3>4, <3>5 DEF Item!SoundInv, Item!Open
    <3> QED BY <3>6, <3>7 DEF Item!Screen
  <2>26. ASSUME NEW s \in Item!Screen, Item!ClickSubtitles(s) PROVE Inv'
    <3> DEFINE next == CASE s11[s].cc = Item!Unset -> IF Item!Visible(s) THEN "off" ELSE "on"
                        [] s11[s].cc = "on" -> "off"
                        [] OTHER -> "on"
               says == IF Item!Visible(s) THEN "off" ELSE "on"
               n == [s11[s] EXCEPT !.cc = next]
    <3>1. s11[s].cc \in Item!Choice
      BY <2>0 DEF Item!AnyItem
    <3>2. next = says /\ says \in Item!Choice
      BY <3>1 DEF Item!Visible, Item!Choice, Item!Unset
    <3>3. s11' = [s11 EXCEPT ![s] = n] /\ s18' = [s18 EXCEPT ![s] = says]
          /\ UNCHANGED <<Item!Open, s7, s8, s12, s13, s19>>
      BY <2>26 DEF Item!ClickSubtitles, Item!Requests
    <3> HIDE DEF next, says
    <3>4. n \in Item!AnyItem /\ n.cc = says /\ n.deletion = s11[s].deletion
      BY <2>0, <3>2, ItemChanged
    <3> HIDE DEF n
    <3>5. /\ s11' \in [Item!Screen -> Item!AnyItem] /\ s11'[s] = n
          /\ s18' \in [Item!Screen -> Item!Choice] /\ s18'[s] = says
          /\ \A t \in Item!Screen \ {s} : s11'[t] = s11[t] /\ s18'[t] = s18[t]
      BY <3>2, <3>3, <3>4 DEF Item!ChosenInv
    <3>6. Item!ChosenInv'
      BY <3>3, <3>4, <3>5 DEF Item!ChosenInv, Item!Mounted, Item!Open
    <3>7. Item!DeletionInv'
      BY <3>3, <3>4, <3>5, <2>3, "full" \in Item!Screen
      DEF Item!DeletionInv, Item!Open, Item!Screen
    <3> QED BY <3>3, <3>6, <3>7, <2>2
  <2>27. CASE UNCHANGED Item!vars
    <3>1. UNCHANGED <<Item!Open, s7, s8, s11, s12, s18, s19>> /\ UNCHANGED s13
      BY <2>27 DEF Item!vars, Item!Open
    <3> QED BY <3>1, <2>1, <2>3
  <2>28. ASSUME NEW s \in Item!Screen, Item!Deleted(s) PROVE Inv'
    BY <2>28, <2>23, <2>24 DEF Item!Screen
  <2> QED BY <2>4, <2>5, <2>6, <2>7, <2>10, <2>11, <2>15, <2>16, <2>17, <2>18, <2>20, <2>21, <2>22,
             <2>25, <2>26, <2>27, <2>28 DEF Item!Next
<1> QED BY <1>1, <1>2

\* What is shown follows.
LEMMA ItemShows ==
  Item!ChosenInv /\ Item!SoundInv => Item!SubtitlesAsChosen /\ Item!SoundComesBack
<1> SUFFICES ASSUME Item!ChosenInv, Item!SoundInv
             PROVE  Item!SubtitlesAsChosen /\ Item!SoundComesBack
  OBVIOUS
<1>1. Item!SubtitlesAsChosen
  <2> SUFFICES ASSUME NEW s \in Item!Screen, Item!Mounted(s), s10
               PROVE  Item!Visible(s) = (IF s18[s] = Item!Unset THEN s7 ELSE s18[s] = "on")
    BY DEF Item!SubtitlesAsChosen
  <2>1. s11[s].cc = s18[s]
    BY DEF Item!ChosenInv
  <2>2. CASE s18[s] = Item!Unset
    <3>1. Item!Visible(s) = (s7 /\ s10)
      BY <2>1, <2>2 DEF Item!Visible
    <3>2. s7 \in BOOLEAN
      BY DEF Item!SoundInv
    <3> QED BY <2>2, <3>1, <3>2, Zenon
  <2>3. CASE s18[s] # Item!Unset
    BY <2>1, <2>3 DEF Item!Visible
  <2> QED BY <2>2, <2>3
<1>2. Item!SoundComesBack
  BY DEF Item!SoundInv, Item!SoundComesBack
<1> QED BY <1>1, <1>2

\* Every card that asks for another stream than the tier's is about to be rendered, also
\* when a load changes the tier between two renderings (useBandwidthTier).
LEMMA CardsHold ==
  /\ Bandwidth!Init => Bandwidth!CardsInv
  /\ Bandwidth!CardsInv /\ [Bandwidth!Next]_(Bandwidth!vars) => Bandwidth!CardsInv'
<1>1. Bandwidth!Init => Bandwidth!CardsInv
  BY DEF Bandwidth!Init, Bandwidth!CardsInv, Bandwidth!CardsFollow, Bandwidth!None
<1>2. Bandwidth!CardsInv /\ [Bandwidth!Next]_(Bandwidth!vars) => Bandwidth!CardsInv'
  <2> SUFFICES ASSUME Bandwidth!CardsInv, [Bandwidth!Next]_(Bandwidth!vars)
               PROVE  Bandwidth!CardsInv'
    OBVIOUS
  <2>0. Bandwidth!getOptimalVideoUrl(s2) \in {"480p", "adaptive"}
    BY DEF Bandwidth!getOptimalVideoUrl
  <2>1. ASSUME NEW s \in Bandwidth!Speed, Bandwidth!recordLoad(s) PROVE Bandwidth!CardsInv'
    <3>1. /\ UNCHANGED s3
          /\ s4' = IF s2' # s2 THEN s4 \cup Bandwidth!Listeners ELSE s4
      BY <2>1 DEF Bandwidth!recordLoad
    <3>2. CASE s2' = s2
      BY <3>1, <3>2 DEF Bandwidth!CardsInv, Bandwidth!CardsFollow
    <3>3. CASE s2' # s2
      <4>1. s4' = s4 \cup {c \in Bandwidth!Card : s3[c] # Bandwidth!None}
        BY <3>1, <3>3 DEF Bandwidth!Listeners
      <4> QED BY <3>1, <4>1 DEF Bandwidth!CardsInv, Bandwidth!CardsFollow
    <3> QED BY <3>2, <3>3
  <2>2. ASSUME NEW c \in Bandwidth!Card, Bandwidth!Mount(c) \/ Bandwidth!Render(c) PROVE Bandwidth!CardsInv'
    <3>1. /\ s3' = [s3 EXCEPT ![c] = Bandwidth!getOptimalVideoUrl(s2)] /\ UNCHANGED s2
          /\ s4' = s4 \/ s4' = s4 \ {c}
      BY <2>2 DEF Bandwidth!Mount, Bandwidth!Render
    <3>2. s3' \in [Bandwidth!Card -> {Bandwidth!None, "480p", "adaptive"}] /\ s3'[c] = Bandwidth!getOptimalVideoUrl(s2)
          /\ \A k \in Bandwidth!Card \ {c} : s3'[k] = s3[k]
      BY <2>0, <3>1 DEF Bandwidth!CardsInv
    <3> QED BY <3>1, <3>2 DEF Bandwidth!CardsInv, Bandwidth!CardsFollow
  <2>3. ASSUME NEW c \in Bandwidth!Card, Bandwidth!Unmount(c) PROVE Bandwidth!CardsInv'
    <3>1. s3' = [s3 EXCEPT ![c] = Bandwidth!None] /\ UNCHANGED s2 /\ s4' = s4 \ {c}
      BY <2>3 DEF Bandwidth!Unmount
    <3> QED BY <3>1 DEF Bandwidth!CardsInv, Bandwidth!CardsFollow
  <2>4. CASE Bandwidth!Tick \/ UNCHANGED Bandwidth!vars
    BY <2>4 DEF Bandwidth!Tick, Bandwidth!vars, Bandwidth!CardsInv, Bandwidth!CardsFollow
  <2> QED BY <2>1, <2>2, <2>3, <2>4 DEF Bandwidth!Next
<1> QED BY <1>1, <1>2

\* CardIsAsChosen for any number of the user's acts, of loads and of samples kept: by
\* ChosenInv and SoundInv what is set is what was chosen, and the sound put aside is the
\* feed's (FullscreenFeed); by CardsInv a card of another tier is to be rendered again.
THEOREM CardIsAsChosenHolds == Spec => []CardIsAsChosen
<1> DEFINE IInv == part = "Item" => Item!ChosenInv /\ Item!SoundInv /\ Item!DeletionInv /\ Item!ShapeIsTrusted
           CInv == part = "Bandwidth" => Bandwidth!CardsInv
<1>1. Init => IInv
  <2> SUFFICES ASSUME Init, part = "Item" PROVE Item!ChosenInv /\ Item!SoundInv /\ Item!DeletionInv /\ Item!ShapeIsTrusted
    OBVIOUS
  <2>1. Item!Init
    BY DEF Init
  <2> QED BY <2>1, ChosenStep, ShapeStep
<1>2. Init => CInv
  <2> SUFFICES ASSUME Init, part = "Bandwidth" PROVE Bandwidth!CardsInv
    OBVIOUS
  <2>1. Bandwidth!Init
    BY DEF Init
  <2> QED BY <2>1, CardsHold
<1>3. IInv /\ [Next]_vars => IInv'
  <2> SUFFICES ASSUME IInv, [Next]_vars, part' = "Item"
               PROVE  (Item!ChosenInv /\ Item!SoundInv /\ Item!DeletionInv /\ Item!ShapeIsTrusted)'
    OBVIOUS
  <2>1. part = "Item" /\ [Item!Next]_(Item!vars)
    BY DEF Next, vars, Item!vars
  <2> QED BY <2>1, ChosenStep, ShapeStep
<1>4. CInv /\ [Next]_vars => CInv'
  <2> SUFFICES ASSUME CInv, [Next]_vars, part' = "Bandwidth"
               PROVE  (Bandwidth!CardsInv)'
    OBVIOUS
  <2>1. part = "Bandwidth" /\ [Bandwidth!Next]_(Bandwidth!vars)
    BY DEF Next, vars, Bandwidth!vars
  <2> QED BY <2>1, CardsHold
<1>5. IInv => (part = "Item" => Item!SubtitlesAsChosen /\ Item!SoundComesBack /\ Item!ShapeIsTrusted)
  BY ItemShows
<1>6. CInv => (part = "Bandwidth" => Bandwidth!CardsFollow)
  BY DEF Bandwidth!CardsInv
<1>7. IInv /\ CInv => CardIsAsChosen
  BY <1>5, <1>6 DEF CardIsAsChosen
<1> QED BY <1>1, <1>2, <1>3, <1>4, <1>7, PTL DEF Spec

-----------------------------------------------------------------------------
\* A page that is mounted asks once for itself, and what others asked is theirs.
LEMMA MountedAsks ==
  ASSUME \A f \in s6 : f = [slot |-> f.slot, by |-> f.by, says |-> f.says],
         NEW p, NEW u
  PROVE  LET b == Session!HomeAsks(p, u, Session!HeaderAsks(p, u, Session!Orphans))
         IN  /\ \A f, g \in b : {f.by, g.by} \subseteq {"home", "email"} => f = g
             /\ \A f \in b : f.by \in {"home", "email"} => p = "home"
<1> DEFINE a == Session!HeaderAsks(p, u, Session!Orphans)
           b == Session!HomeAsks(p, u, a)
           n(s, by) == [slot |-> Session!Free(s), by |-> by, says |-> Session!Asked]
<1>1. \A f \in Session!Orphans : f.by \notin {"home", "email"}
  <2> SUFFICES ASSUME NEW g \in s6, g.by # "email", NEW f,
                      f = IF g.by = "home" THEN [g EXCEPT !.by = "left"] ELSE g
               PROVE  f.by \notin {"home", "email"}
    BY DEF Session!Orphans
  <2>1. g = [slot |-> g.slot, by |-> g.by, says |-> g.says]
    OBVIOUS
  <2>2. CASE g.by = "home"
    <3>1. f = [g EXCEPT !.by = "left"]
      BY <2>2
    <3>2. f = [slot |-> g.slot, by |-> "left", says |-> g.says]
      BY <2>1, <3>1
    <3> QED BY <3>2
  <2> QED BY <2>1, <2>2
<1>2. \A s, by : n(s, by).by = by /\ Session!Request(s, by) = s \cup {n(s, by)}
  BY DEF Session!Request
<1> HIDE DEF n
<1>3. \A f \in a : f.by \notin {"home", "email"}
  BY <1>1, <1>2 DEF Session!HeaderAsks
<1> HIDE DEF a
<1>4. b = a \/ (p = "home" /\ \E by : b = a \cup {n(a, by)})
  BY <1>2 DEF Session!HomeAsks
<1> HIDE DEF b
<1>5. /\ \A f, g \in b : {f.by, g.by} \subseteq {"home", "email"} => f = g
      /\ \A f \in b : f.by \in {"home", "email"} => p = "home"
  BY <1>3, <1>4
<1> QED BY <1>5 DEF a, b

\* A tab that is loaded asks once.
LEMMA LoadedAsks ==
  ASSUME NEW p
  PROVE  /\ \A f, g \in Session!Loaded(p).auth : f = g
         /\ \A f \in Session!Loaded(p).auth : f.by \in {"home", "email"} => p = "home"
<1> DEFINE n(by) == [slot |-> 1, by |-> by, says |-> Session!Asked]
<1>1. \A by : n(by).by = by
  OBVIOUS
<1>2. IF p = "home" THEN Session!Loaded(p).auth = {n("home")} ELSE Session!Loaded(p).auth \in {{}, {n("header")}}
  BY DEF Session!Loaded
<1> HIDE DEF n
<1> QED BY <1>1, <1>2

\* A dashboard that was just mounted.
LEMMA FreshHome ==
  /\ Session!Fresh = [checking |-> Session!Fresh.checking, loading |-> Session!Fresh.loading, list |-> Session!Fresh.list,
                      dialog |-> Session!Fresh.dialog, creating |-> Session!Fresh.creating, revoke |-> Session!Fresh.revoke,
                      revoking |-> Session!Fresh.revoking]
  /\ Session!Fresh.checking /\ Session!Fresh.loading /\ Session!Fresh.dialog = "closed" /\ Session!Fresh.creating = "no"
  /\ Session!Fresh.revoking = FALSE
BY DEF Session!Fresh

\* Reads that are begun.
LEMMA NewReads ==
  ASSUME NEW s, NEW first, \A r \in s : r = [slot |-> r.slot, first |-> r.first, says |-> r.says]
  PROVE  \A r \in s \cup {[slot |-> Session!Free(s), first |-> first, says |-> Session!Unread]} :
           /\ r = [slot |-> r.slot, first |-> r.first, says |-> r.says]
           /\ r \in s \/ r.says = Session!Unread
<1> DEFINE n == [slot |-> Session!Free(s), first |-> first, says |-> Session!Unread]
<1>1. n = [slot |-> n.slot, first |-> n.first, says |-> n.says] /\ n.says = Session!Unread
  OBVIOUS
<1> HIDE DEF n
<1>2. \A r \in s \cup {n} : /\ r = [slot |-> r.slot, first |-> r.first, says |-> r.says]
                            /\ r \in s \/ r.says = Session!Unread
  BY <1>1
<1> QED BY <1>2 DEF n

\* HomeInv is inductive.
LEMMA HomeHolds ==
  /\ Session!Init => Session!HomeInv
  /\ Session!SessionInv /\ Session!HomeInv /\ [Session!Next]_(Session!vars) => Session!HomeInv'
<1>1. Session!Init => Session!HomeInv
  BY LoadedAsks, FreshHome DEF Session!Init, Session!HomeInv
<1>2. Session!SessionInv /\ Session!HomeInv /\ [Session!Next]_(Session!vars) => Session!HomeInv'
  <2> SUFFICES ASSUME Session!SessionInv, Session!HomeInv, [Session!Next]_(Session!vars)
               PROVE  Session!HomeInv'
    OBVIOUS
  <2> DEFINE shape(h) == h = [checking |-> h.checking, loading |-> h.loading, list |-> h.list,
                              dialog |-> h.dialog, creating |-> h.creating,
                              revoke |-> h.revoke, revoking |-> h.revoking]
             shapes(s) == \A r \in s : r = [slot |-> r.slot, first |-> r.first, says |-> r.says]
             busy(h) == h.dialog # "closed" \/ h.creating # "no" \/ h.revoking # FALSE
  <2>1. /\ \A f \in s6 : f = [slot |-> f.slot, by |-> f.by, says |-> f.says]
        /\ shape(s7) /\ shapes(s8) /\ (s5 # "home" => s7 = Session!Fresh /\ s8 = {})
    BY DEF Session!SessionInv, Session!HomeInv
  <2>2. /\ \A f, g \in s6 : {f.by, g.by} \subseteq {"home", "email"} => f = g
        /\ \A f \in s6 : f.by \in {"home", "email"} => s5 = "home" /\ s7.checking
        /\ s7.checking \/ s7.loading => ~busy(s7)
    BY DEF Session!HomeInv
  <2>3. ~busy(Session!Fresh) /\ Session!Fresh.checking /\ Session!Fresh.loading /\ shape(Session!Fresh)
    BY FreshHome
  <2>4. ASSUME NEW p, NEW u, s5' = p, s7' = Session!Fresh, s8' = {},
               s6' \in {Session!HomeAsks(p, u, Session!HeaderAsks(p, u, Session!Orphans)), Session!Loaded(p).auth}
        PROVE  Session!HomeInv'
    <3>1. /\ \A f, g \in s6' : {f.by, g.by} \subseteq {"home", "email"} => f = g
          /\ \A f \in s6' : f.by \in {"home", "email"} => p = "home"
      <4>1. CASE s6' = Session!HomeAsks(p, u, Session!HeaderAsks(p, u, Session!Orphans))
        BY <2>1, <4>1, MountedAsks
      <4>2. CASE s6' = Session!Loaded(p).auth
        BY <4>2, LoadedAsks
      <4> QED BY <2>4, <4>1, <4>2
    <3> QED BY <2>3, <2>4, <3>1 DEF Session!HomeInv
  <2>5. ASSUME NEW p, NEW u, Session!Go(p, u) PROVE Session!HomeInv'
    <3>1. CASE p = s5
      BY <2>5, <3>1, <2>1, <2>2 DEF Session!Go, Session!HomeInv
    <3>2. CASE p # s5
      BY <2>4, <2>5, <3>2 DEF Session!Go
    <3> QED BY <3>1, <3>2
  <2>6. ASSUME UNCHANGED <<s5, s6, s7, s8>> PROVE Session!HomeInv'
    BY <2>1, <2>2, <2>6 DEF Session!HomeInv
  <2>7. ASSUME s5 = "home", s5' = s5, s6' \subseteq s6, shape(s7'), shapes(s8'),
               s7'.checking \/ s7'.loading => ~busy(s7'),
               \A f \in s6' : f.by \in {"home", "email"} => s7'.checking
        PROVE  Session!HomeInv'
    BY <2>2, <2>7 DEF Session!HomeInv
  <2>8. ASSUME s5 = "home", s5' = s5, s6' = s6, shape(s7'), shapes(s8'),
               s7'.checking = s7.checking, s7'.loading => s7.loading,
               s7.checking \/ s7.loading => ~busy(s7')
        PROVE  Session!HomeInv'
    BY <2>2, <2>7, <2>8
  <2>9. ASSUME NEW p, Session!Visit(p) PROVE Session!HomeInv'
    BY <2>5, <2>9 DEF Session!Visit
  <2>10. ASSUME NEW p, Session!LoadTab(p) PROVE Session!HomeInv'
    BY <2>4, <2>10 DEF Session!LoadTab
  <2>11. ASSUME NEW f \in s6, Session!AuthServed(f) PROVE Session!HomeInv'
    <3> DEFINE g == [f EXCEPT !.says = s1]
    <3>1. g = [slot |-> f.slot, by |-> f.by, says |-> s1]
      BY <2>1
    <3>2. g.by = f.by
      BY <3>1
    <3> HIDE DEF g
    <3>3. s6' = (s6 \ {f}) \cup {g} /\ UNCHANGED <<s5, s7, s8>>
      BY <2>11 DEF Session!AuthServed, g
    <3>4. /\ \A x, y \in s6' : {x.by, y.by} \subseteq {"home", "email"} => x = y
          /\ \A x \in s6' : x.by \in {"home", "email"} => s5 = "home" /\ s7.checking
      BY <2>2, <3>2, <3>3
    <3> QED BY <2>1, <2>2, <3>3, <3>4 DEF Session!HomeInv
  <2>12. ASSUME NEW f \in s6, Session!AuthArrives(f) PROVE Session!HomeInv'
    <3>1. CASE f.by \in {"home", "email"}
      <4>1. PICK u : /\ s7' = [s7 EXCEPT !.checking = FALSE] /\ s6' = s6 \ {f} /\ s5' = s5
                     /\ s8' \in {s8, Session!First(s8)}
        BY <2>12, <3>1 DEF Session!AuthArrives, Session!Checked
      <4>2. s5 = "home" /\ s7.checking
        BY <2>2, <3>1
      <4>3. \A g \in s6' : g.by \notin {"home", "email"}
        BY <2>2, <3>1, <4>1
      <4>4. s7' = [checking |-> FALSE, loading |-> s7.loading, list |-> s7.list,
                   dialog |-> s7.dialog, creating |-> s7.creating,
                   revoke |-> s7.revoke, revoking |-> s7.revoking]
        BY <2>1, <4>1
      <4>5. shape(s7') /\ s7'.checking = FALSE /\ s7'.loading = s7.loading
            /\ s7'.dialog = s7.dialog /\ s7'.creating = s7.creating
            /\ s7'.revoking = s7.revoking
        BY <4>4
      <4>6. shapes(s8')
        BY <2>1, <4>1, NewReads DEF Session!First
      <4> HIDE DEF shape, shapes
      <4>7. s6' \subseteq s6 /\ ~busy(s7')
        BY <2>2, <4>1, <4>2, <4>5
      <4> QED BY <2>7, <4>1, <4>2, <4>3, <4>5, <4>6, <4>7
    <3>2. CASE f.by \notin {"home", "email"}
      <4>1. s6' = s6 \ {f} /\ UNCHANGED <<s5, s7, s8>>
        BY <2>12, <3>2 DEF Session!AuthArrives
      <4> QED BY <2>1, <2>2, <4>1 DEF Session!HomeInv
    <3> QED BY <3>1, <3>2
  <2>13. CASE Session!LoadEffect
    <3>1. s5 = "home" /\ s8' = Session!First(s8) /\ UNCHANGED <<s5, s6, s7>>
      BY <2>13 DEF Session!LoadEffect
    <3>2. shapes(s8')
      BY <2>1, <3>1, NewReads DEF Session!First
    <3> HIDE DEF shape, shapes
    <3> QED BY <2>1, <2>2, <2>8, <3>1, <3>2
  <2>14. CASE Session!MountNip07
    <3>1. /\ s5 = "home" /\ s7' = [s7 EXCEPT !.checking = FALSE] /\ s7.checking
          /\ \A f \in s6 : f.by \notin {"home", "email"}
          /\ s8' \in {s8, Session!First(s8)} /\ UNCHANGED <<s5, s6>>
      BY <2>14 DEF Session!MountNip07, Session!Checked
    <3>2. s7' = [checking |-> FALSE, loading |-> s7.loading, list |-> s7.list,
                 dialog |-> s7.dialog, creating |-> s7.creating,
                 revoke |-> s7.revoke, revoking |-> s7.revoking]
      BY <2>1, <3>1
    <3>3. shape(s7') /\ s7'.checking = FALSE /\ s7'.loading = s7.loading
          /\ s7'.dialog = s7.dialog /\ s7'.creating = s7.creating
          /\ s7'.revoking = s7.revoking
      BY <3>2
    <3>4. shapes(s8')
      BY <2>1, <3>1, NewReads DEF Session!First
    <3> HIDE DEF shape, shapes
    <3> QED BY <2>2, <2>7, <3>1, <3>3, <3>4
  <2>15. ASSUME NEW what, NEW u, Session!Begin(what, u) PROVE Session!HomeInv'
    BY <2>6, <2>15 DEF Session!Begin
  <2>16. ASSUME NEW u \in Visitors, Session!Login(u) \/ Session!Register(u) \/ Session!Nip07(u) \/ Session!Verified(u) PROVE Session!HomeInv'
    BY <2>6, <2>15, <2>16 DEF Session!Login, Session!Register, Session!Nip07, Session!Verified
  <2>17. CASE Session!SignOut \/ Session!Served \/ Session!Refused \/ Session!Nip07Entered
    BY <2>6, <2>15, <2>17 DEF Session!SignOut, Session!Served, Session!Refused,
                              Session!Nip07Entered
  <2>18. CASE Session!Entered \/ Session!Nip07Goes \/ Session!SignedOut \/ Session!VerifyGoes
    BY <2>5, <2>18 DEF Session!Entered, Session!Nip07Goes, Session!SignedOut, Session!VerifyGoes
  <2>19. CASE Session!Gate
    <3>1. \/ UNCHANGED <<s5, s6, s7, s8>>
          \/ \E p : /\ s5' = p /\ s7' = Session!Fresh /\ s8' = {}
                    /\ s6' = Session!HomeAsks(p, s3, Session!HeaderAsks(p, s3, Session!Orphans))
      BY <2>19 DEF Session!Gate
    <3> QED BY <2>4, <2>6, <3>1
  <2>20. ASSUME NEW r \in s8, Session!ReadServed(r) PROVE Session!HomeInv'
    <3> DEFINE n == [r EXCEPT !.says = Session!Mine]
    <3>1. n = [slot |-> r.slot, first |-> r.first, says |-> Session!Mine]
      BY <2>1
    <3>2. n = [slot |-> n.slot, first |-> n.first, says |-> n.says]
      BY <3>1
    <3> HIDE DEF n
    <3>3. s8' = (s8 \ {r}) \cup {n} /\ UNCHANGED <<s5, s6, s7>> /\ s5 = "home"
      BY <2>1, <2>20 DEF Session!ReadServed, n
    <3>4. shapes(s8')
      BY <2>1, <3>2, <3>3
    <3> HIDE DEF shape, shapes
    <3> QED BY <2>1, <2>2, <2>8, <3>3, <3>4
  <2>21. ASSUME NEW r \in s8, Session!ReadArrives(r) PROVE Session!HomeInv'
    <3>1. PICK says : /\ s7' = [s7 EXCEPT !.list = says, !.loading = @ /\ ~r.first]
                      /\ s8' = s8 \ {r} /\ UNCHANGED <<s5, s6>> /\ s5 = "home"
      BY <2>1, <2>21 DEF Session!ReadArrives
    <3>2. s7' = [checking |-> s7.checking, loading |-> (s7.loading /\ ~r.first), list |-> says,
                 dialog |-> s7.dialog, creating |-> s7.creating,
                 revoke |-> s7.revoke, revoking |-> s7.revoking]
      BY <2>1, <3>1
    <3>3. shape(s7') /\ s7'.checking = s7.checking /\ s7'.loading = (s7.loading /\ ~r.first)
          /\ s7'.dialog = s7.dialog /\ s7'.creating = s7.creating
          /\ s7'.revoking = s7.revoking
      BY <3>2
    <3>4. s7'.loading => s7.loading
      BY <3>3, Zenon
    <3>5. shapes(s8')
      BY <2>1, <3>1
    <3> HIDE DEF shape, shapes
    <3> QED BY <2>2, <2>8, <3>1, <3>3, <3>4, <3>5
  <2>22. ASSUME s5 = "home", UNCHANGED <<s5, s6>>, NEW d, NEW c, NEW g, NEW v,
                s7' = [checking |-> s7.checking, loading |-> s7.loading, list |-> s7.list,
                       dialog |-> d, creating |-> c, revoke |-> g, revoking |-> v],
                s8' \in {s8, s8 \cup {[slot |-> Session!Free(s8), first |-> FALSE, says |-> Session!Unread]}},
                (~s7.checking /\ ~s7.loading) \/ (d = "closed" /\ c = "no" /\ v = FALSE)
         PROVE  Session!HomeInv'
    <3>1. shape(s7') /\ s7'.checking = s7.checking /\ s7'.loading = s7.loading
          /\ s7'.dialog = d /\ s7'.creating = c /\ s7'.revoking = v
      BY <2>22
    <3>2. shapes(s8')
      BY <2>1, <2>22, NewReads
    <3> HIDE DEF shape, shapes
    <3>3. s7.checking \/ s7.loading => ~busy(s7')
      BY <2>22, <3>1
    <3> QED BY <2>2, <2>8, <2>22, <3>1, <3>2, <3>3
  <2>23. CASE Session!OpenDialog \/ Session!Create \/ Session!Created \/ Session!CreateFails \/ Session!CloseDialog \/ Session!AllRevoked \/ Session!RevokeFails
    <3>1. /\ UNCHANGED <<s5, s6>>
          /\ s8' \in {s8, s8 \cup {[slot |-> Session!Free(s8), first |-> FALSE, says |-> Session!Unread]}}
      BY <2>23 DEF Session!OpenDialog, Session!Create, Session!Created, Session!CreateFails,
                   Session!CloseDialog, Session!AllRevoked, Session!RevokeFails, Session!Still,
                   Session!loadSessions
    <3>2. ~s7.checking /\ ~s7.loading /\ s5 = "home"
      <4>1. Session!Dashboard \/ busy(s7)
        BY <2>23 DEF Session!OpenDialog, Session!Create, Session!Created, Session!CreateFails,
                     Session!CloseDialog, Session!AllRevoked, Session!RevokeFails
      <4> QED BY <2>1, <2>2, <2>3, <4>1 DEF Session!Dashboard
    <3>3. \E d, c, g, v :
            s7' = [checking |-> s7.checking, loading |-> s7.loading, list |-> s7.list,
                   dialog |-> d, creating |-> c, revoke |-> g, revoking |-> v]
      BY <2>1, <2>23 DEF Session!OpenDialog, Session!Create, Session!Created,
                         Session!CreateFails, Session!CloseDialog, Session!AllRevoked,
                         Session!RevokeFails, Session!loadSessions
    <3> QED BY <2>22, <3>1, <3>2, <3>3
  <2>24. ASSUME NEW x, Session!Revoke(x) \/ Session!Revoked(x) PROVE Session!HomeInv'
    <3>1. UNCHANGED <<s5, s6, s8>>
      BY <2>24 DEF Session!Revoke, Session!Revoked, Session!Still
    <3>2. ~s7.checking /\ ~s7.loading /\ s5 = "home"
      <4>1. Session!Dashboard \/ busy(s7)
        BY <2>24 DEF Session!Revoke, Session!Revoked
      <4> QED BY <2>1, <2>2, <2>3, <4>1 DEF Session!Dashboard
    <3>3. \E d, c, g, v :
            s7' = [checking |-> s7.checking, loading |-> s7.loading, list |-> s7.list,
                   dialog |-> d, creating |-> c, revoke |-> g, revoking |-> v]
      BY <2>1, <2>24 DEF Session!Revoke, Session!Revoked
    <3> QED BY <2>22, <3>1, <3>2, <3>3
  <2>25. CASE UNCHANGED Session!vars
    BY <2>6, <2>25 DEF Session!vars
  <2> QED BY <2>9, <2>10, <2>11, <2>12, <2>13, <2>14, <2>16, <2>17, <2>18, <2>19, <2>20, <2>21, <2>23,
             <2>24, <2>25 DEF Session!Next
<1> QED BY <1>1, <1>2

\* ReadInv is inductive: what is created, revoked, signed in or out while the list is read
\* is not done one after another.
LEMMA ReadHolds ==
  /\ Session!Init => Session!ReadInv
  /\ Session!SessionInv /\ Session!HomeInv /\ Session!ReadInv /\ [Session!Next]_(Session!vars) => Session!ReadInv'
<1>1. Session!Init => Session!ReadInv
  BY FreshHome, QuietFields DEF Session!Init, Session!ReadInv
<1>2. Session!SessionInv /\ Session!HomeInv /\ Session!ReadInv /\ [Session!Next]_(Session!vars) => Session!ReadInv'
  <2> SUFFICES ASSUME Session!SessionInv, Session!HomeInv, Session!ReadInv, [Session!Next]_(Session!vars), s13'
               PROVE  Session!ReadInv'
    BY DEF Session!ReadInv
  <2> USE QuietFields
  <2> DEFINE shape(h) == h = [checking |-> h.checking, loading |-> h.loading, list |-> h.list,
                              dialog |-> h.dialog, creating |-> h.creating,
                              revoke |-> h.revoke, revoking |-> h.revoking]
             form == s9.what \in {"login", "register"}
             formNow == s9'.what \in {"login", "register"}
             inOut == s9 # Session!Quiet /\ s3 # Session!None /\ s4 # "nip07"
             inOutNow == s9' # Session!Quiet /\ s3' # Session!None /\ s4' # "nip07"
             still == s3 # Session!None /\ s4 # "nip07" /\ s9 = Session!Quiet
             stillNow == s3' # Session!None /\ s4' # "nip07" /\ s9' = Session!Quiet
             ready(h, rs) == \/ h.loading \/ h.revoking \/ h.dialog = "ready" \/ rs # {}
                             \/ h.list = Session!Mine
             mine == Session!Mine'
  <2>1. /\ shape(s7) /\ (s5 # "home" => s7 = Session!Fresh /\ s8 = {})
        /\ \A r \in s8 : r = [slot |-> r.slot, first |-> r.first, says |-> r.says]
        /\ \A f \in s6 : f.by \in {"home", "email"} => s5 = "home" /\ s7.checking
        /\ s7.checking \/ s7.loading =>
             s7.dialog = "closed" /\ s7.creating = "no" /\ s7.revoking = FALSE
        /\ \A f \in s6 : f = [slot |-> f.slot, by |-> f.by, says |-> f.says]
    BY DEF Session!HomeInv, Session!SessionInv
  <2>2. /\ s5 = "verify" => s9 = Session!Quiet /\ s3 = Session!None
        /\ s13 => (s9 # Session!Quiet => s6 = {} /\ s11 = Session!None)
    BY DEF Session!SessionInv
  <2>3. s13 =>
        /\ s7.creating # "no" => s7.creating = "sent" /\ s7.dialog = "form" /\ s8 = {}
        /\ s7.revoking => s7.dialog = "closed" /\ s7.creating = "no" /\ s8 = {}
        /\ s3 = Session!None /\ s6 # {} => s7.loading /\ s8 = {}
        /\ form => s5 \in {"login", "register"}
        /\ inOut => s9.what = "logout" \/ s5 \in {"login", "register"}
        /\ still => (\A r \in s8 : r.says \in {Session!Unread, Session!Mine}) /\ ready(s7, s8)
    BY DEF Session!ReadInv
  <2>4. ASSUME s7'.creating # "no" => s7'.creating = "sent" /\ s7'.dialog = "form" /\ s8' = {},
               s7'.revoking => s7'.dialog = "closed" /\ s7'.creating = "no" /\ s8' = {},
               s3' = Session!None /\ s6' # {} => s7'.loading /\ s8' = {},
               formNow => s5' \in {"login", "register"},
               inOutNow => s9'.what = "logout" \/ s5' \in {"login", "register"},
               stillNow => (\A r \in s8' : r.says \in {Session!Unread, mine}),
               stillNow => \/ s7'.loading \/ s7'.revoking \/ s7'.dialog = "ready" \/ s8' # {}
                           \/ s7'.list = mine
        PROVE  Session!ReadInv'
    <3>1. Session!Unread' = Session!Unread /\ Session!Quiet' = Session!Quiet /\ Session!None' = Session!None
      BY DEF Session!Unread, Session!Quiet, Session!None
    <3> QED BY <2>4, <3>1 DEF Session!ReadInv
  <2>5. ASSUME s7' = Session!Fresh, s8' = {},
               formNow => s5' \in {"login", "register"},
               inOutNow => s9'.what = "logout" \/ s5' \in {"login", "register"}
        PROVE  Session!ReadInv'
    BY <2>4, <2>5, FreshHome
  <2>6. ASSUME UNCHANGED <<s7, s8>>, s13, s5' = s5, s6' = {} \/ s6' = s6,
               s3' = Session!None /\ s6' # {} => s3 = Session!None,
               formNow => s5' \in {"login", "register"},
               inOutNow => s9'.what = "logout" \/ s5' \in {"login", "register"},
               stillNow => still /\ mine = Session!Mine
        PROVE  Session!ReadInv'
    BY <2>3, <2>4, <2>6
  <2>7. ASSUME NEW p, NEW u, Session!Go(p, u), s13, s9' = Session!Quiet,
               p = s5 => /\ s3' = Session!None => s3 = Session!None \/ s6 = {}
                         /\ stillNow => still /\ mine = Session!Mine
        PROVE  Session!ReadInv'
    <3>1. CASE p = s5
      <4>1. UNCHANGED <<s5, s6, s7, s8>>
        BY <2>7, <3>1 DEF Session!Go
      <4> QED BY <2>3, <2>4, <2>7, <3>1, <4>1
    <3>2. CASE p # s5
      BY <2>5, <2>7, <3>2 DEF Session!Go
    <3> QED BY <3>1, <3>2
  <2>8. ASSUME UNCHANGED <<s1, s2>> PROVE mine = Session!Mine
    BY <2>8 DEF Session!Mine
  <2> HIDE DEF mine
  <2>9. ASSUME NEW p, Session!Visit(p) PROVE Session!ReadInv'
    <3>1. s13 /\ s9 = Session!Quiet /\ s9' = Session!Quiet /\ p # s5 /\ Session!Go(p, s3)
      BY <2>9 DEF Session!Visit, Session!Waiting
    <3> QED BY <2>7, <3>1
  <2>10. ASSUME NEW p, Session!LoadTab(p) PROVE Session!ReadInv'
    BY <2>5, <2>10 DEF Session!LoadTab
  <2>11. ASSUME NEW f \in s6, Session!AuthServed(f) PROVE Session!ReadInv'
    <3>1. /\ UNCHANGED <<s1, s2, s3, s4, s5, s7, s8, s9>> /\ s13
      BY <2>11 DEF Session!AuthServed, Session!server, Session!who, Session!rest
    <3>2. s3 = Session!None => s7.loading /\ s8 = {}
      BY <2>3, <3>1
    <3> QED BY <2>3, <2>4, <2>8, <3>1, <3>2
  <2>12. ASSUME NEW f \in s6, Session!AuthArrives(f) PROVE Session!ReadInv'
    <3>1. /\ s13 /\ s6' = s6 \ {f} /\ UNCHANGED <<s1, s2, s5, s9>>
          /\ s3' = Session!None => s3 = Session!None
          /\ s4' = "nip07" <=> s4 = "nip07"
      BY <2>12 DEF Session!AuthArrives, Session!server, Session!None
    <3>2. s9 = Session!Quiet /\ (s3 = Session!None => s7.loading /\ s8 = {})
      BY <2>2, <2>3, <3>1
    <3>3. CASE f.by \in {"home", "email"}
      <4>1. /\ s7' = [s7 EXCEPT !.checking = FALSE]
            /\ s8' = s8 \/ (s8' = Session!First(s8) /\ s3' # Session!None)
        BY <2>12, <3>3 DEF Session!AuthArrives, Session!Checked
      <4>2. s7' = [checking |-> FALSE, loading |-> s7.loading, list |-> s7.list,
                   dialog |-> s7.dialog, creating |-> s7.creating,
                   revoke |-> s7.revoke, revoking |-> s7.revoking]
        BY <2>1, <4>1
      <4>3. /\ s7'.loading = s7.loading /\ s7'.list = s7.list /\ s7'.dialog = s7.dialog
            /\ s7'.creating = s7.creating /\ s7'.revoking = s7.revoking
        BY <4>2
      <4>4. s7.dialog = "closed" /\ s7.creating = "no" /\ s7.revoking = FALSE
        BY <2>1, <3>3
      <4>5. \A r \in s8' : r \in s8 \/ r.says = Session!Unread
        BY <2>1, <4>1, NewReads DEF Session!First
      <4>6. s3' = Session!None => s7'.loading /\ s8' = {}
        BY <3>1, <3>2, <4>1, <4>3
      <4>7. stillNow => \A r \in s8' : r.says \in {Session!Unread, mine}
        BY <2>3, <2>8, <3>1, <3>2, <4>5
      <4>8. s8 # {} => s8' # {}
        BY <4>1 DEF Session!First
      <4>9. stillNow => \/ s7'.loading \/ s7'.revoking \/ s7'.dialog = "ready" \/ s8' # {}
                        \/ s7'.list = mine
        BY <2>3, <2>8, <3>1, <3>2, <4>3, <4>8
      <4> QED BY <2>4, <3>1, <3>2, <4>3, <4>4, <4>6, <4>7, <4>9
    <3>4. CASE f.by \notin {"home", "email"}
      <4>1. UNCHANGED <<s7, s8>>
        BY <2>12, <3>4 DEF Session!AuthArrives
      <4> QED BY <2>3, <2>4, <2>8, <3>1, <3>2, <4>1
    <3> QED BY <3>3, <3>4
  <2>13. CASE Session!LoadEffect
    <3>1. /\ s7.loading /\ s3 # Session!None /\ s8' = Session!First(s8) /\ s13
          /\ UNCHANGED <<s1, s2, s3, s4, s5, s6, s7, s9>>
      BY <2>13 DEF Session!LoadEffect, Session!server, Session!who, Session!rest
    <3>2. \A r \in s8' : r \in s8 \/ r.says = Session!Unread
      BY <2>1, <3>1, NewReads DEF Session!First
    <3>3. stillNow => \A r \in s8' : r.says \in {Session!Unread, mine}
      BY <2>3, <2>8, <3>1, <3>2
    <3> QED BY <2>1, <2>3, <2>4, <3>1, <3>3
  <2>14. CASE Session!MountNip07
    <3>1. /\ s7' = [s7 EXCEPT !.checking = FALSE] /\ s7.checking /\ s13
          /\ s8' = s8 \/ (s8' = Session!First(s8) /\ s3 # Session!None)
          /\ UNCHANGED <<s1, s2, s3, s4, s5, s6, s9>>
      BY <2>14 DEF Session!MountNip07, Session!Checked, Session!server, Session!who,
                   Session!rest
    <3>2. s7' = [checking |-> FALSE, loading |-> s7.loading, list |-> s7.list,
                 dialog |-> s7.dialog, creating |-> s7.creating,
                 revoke |-> s7.revoke, revoking |-> s7.revoking]
      BY <2>1, <3>1
    <3>3. /\ s7'.loading = s7.loading /\ s7'.list = s7.list /\ s7'.dialog = s7.dialog
          /\ s7'.creating = s7.creating /\ s7'.revoking = s7.revoking
      BY <3>2
    <3>4. s7.dialog = "closed" /\ s7.creating = "no" /\ s7.revoking = FALSE
      BY <2>1, <3>1
    <3>5. \A r \in s8' : r \in s8 \/ r.says = Session!Unread
      BY <2>1, <3>1, NewReads DEF Session!First
    <3>6. stillNow => \A r \in s8' : r.says \in {Session!Unread, mine}
      BY <2>3, <2>8, <3>1, <3>5
    <3>7. s8 # {} => s8' # {}
      BY <3>1 DEF Session!First
    <3>8. stillNow => \/ s7'.loading \/ s7'.revoking \/ s7'.dialog = "ready" \/ s8' # {}
                      \/ s7'.list = mine
      BY <2>3, <2>8, <3>1, <3>3, <3>7
    <3>9. s3' = Session!None /\ s6' # {} => s7'.loading /\ s8' = {}
      BY <2>3, <3>1, <3>3
    <3> QED BY <2>3, <2>4, <3>1, <3>3, <3>4, <3>6, <3>8, <3>9
  <2>15. ASSUME NEW what, NEW u, Session!Begin(what, u),
                what = "logout" \/ s3 = Session!None \/ s5 \in {"login", "register"},
                what \in {"login", "register"} => s5 \in {"login", "register"}, what # "nothing"
         PROVE  Session!ReadInv'
    <3> DEFINE e == [what |-> what, who |-> u, at |-> "sent"]
    <3>1. e.what = what
      OBVIOUS
    <3> HIDE DEF e
    <3>2. /\ s9' = e /\ s13 /\ s6 = {}
          /\ UNCHANGED <<s3, s4, s5, s6, s7, s8>>
      BY <2>15 DEF Session!Begin, Session!Waiting, Session!who, Session!server, e
    <3>3. e # Session!Quiet
      BY <2>15, <3>1
    <3> QED BY <2>6, <2>15, <3>1, <3>2, <3>3
  <2>16. ASSUME NEW u \in Visitors, Session!Login(u) \/ Session!Register(u) \/ Session!Nip07(u) PROVE Session!ReadInv'
    BY <2>15, <2>16 DEF Session!Login, Session!Register, Session!Nip07, Session!CanSignIn
  <2>17. CASE Session!SignOut
    BY <2>15, <2>17 DEF Session!SignOut
  <2>18. ASSUME NEW u \in Visitors, Session!Verified(u) PROVE Session!ReadInv'
    <3>1. /\ UNCHANGED <<s2, s3, s4, s5, s6, s7, s8, s9>> /\ s13
          /\ s1' = s1 \/ s5 = "verify"
      BY <2>18 DEF Session!Verified, Session!who
    <3>2. CASE s1' = s1
      BY <2>3, <2>6, <2>8, <3>1, <3>2
    <3>3. CASE s5 = "verify"
      BY <2>1, <2>2, <2>5, <3>1, <3>3
    <3> QED BY <3>1, <3>2, <3>3
  <2>19. CASE Session!Served
    <3> DEFINE e(a) == [what |-> s9.what, who |-> s9.who, at |-> a]
    <3>1. PICK a \in {"done", "failed"} : s9' = [s9 EXCEPT !.at = a]
      BY <2>19 DEF Session!Served
    <3>2. s9 = [what |-> s9.what, who |-> s9.who, at |-> s9.at]
      BY DEF Session!SessionInv
    <3>3. s9' = e(a)
      BY <3>1, <3>2
    <3>4. s9'.what = s9.what /\ s9' # Session!Quiet
      BY <3>3 DEF Session!Quiet
    <3>5. UNCHANGED <<s3, s4, s5, s6, s7, s8>> /\ s13 /\ s9 # Session!Quiet
      BY <2>19, Zenon DEF Session!Served, Session!who, Session!Quiet
    <3> HIDE DEF e
    <3> QED BY <2>3, <2>6, <3>4, <3>5
  <2>20. CASE Session!Entered
    <3>1. PICK p \in {"home", "admin", "support-admin"} : Session!Go(p, s9.who)
      BY <2>20 DEF Session!Entered
    <3>2. /\ s9' = Session!Quiet /\ s13 /\ s9 # Session!Quiet /\ s9.what \in {"login", "register"}
      BY <2>20 DEF Session!Entered
    <3>3. p # s5
      BY <2>3, <3>2
    <3> QED BY <2>7, <3>1, <3>2, <3>3
  <2>21. CASE Session!Refused
    <3>1. /\ s9' = Session!Quiet /\ UNCHANGED <<s1, s2, s3, s4, s5, s6, s7, s8>>
          /\ s9 # Session!Quiet /\ s9.what # "logout" /\ s13
      BY <2>21 DEF Session!Refused, Session!server, Session!who
    <3>2. CASE stillNow
      <4>1. s7 = Session!Fresh /\ s8 = {}
        BY <2>1, <2>3, <3>1, <3>2
      <4> QED BY <2>5, <3>1, <4>1
    <3>3. CASE ~stillNow
      BY <2>6, <3>1, <3>3
    <3> QED BY <3>2, <3>3
  <2>22. CASE Session!Nip07Entered
    <3>1. /\ s4' = "nip07" /\ UNCHANGED <<s5, s6, s7, s8, s13>> /\ s9 # Session!Quiet /\ s13
      BY <2>22 DEF Session!Nip07Entered
    <3>2. s6 = {}
      BY <2>2, <3>1
    <3>3. s9' = [s9 EXCEPT !.what = "status"]
          /\ s9 = [what |-> s9.what, who |-> s9.who, at |-> s9.at]
      BY <2>22 DEF Session!Nip07Entered, Session!SessionInv
    <3>4. s9'.what = "status"
      BY <3>3
    <3> QED BY <2>6, <3>1, <3>2, <3>4
  <2>23. CASE Session!Nip07Goes
    <3>1. PICK p \in {"admin", "support-admin", "teams", "home"} : Session!Go(p, s3)
      BY <2>23 DEF Session!Nip07Goes
    <3>2. /\ s9' = Session!Quiet /\ UNCHANGED <<s3, s4>> /\ s13 /\ s9 # Session!Quiet
          /\ s9.what = "status"
      BY <2>23 DEF Session!Nip07Goes, Session!who
    <3>3. p = s5 => ~(s3 # Session!None /\ s4 # "nip07")
      BY <2>3, <3>2
    <3> QED BY <2>7, <3>1, <3>2, <3>3
  <2>24. CASE Session!SignedOut
    <3>1. /\ Session!Go("home", s3') /\ s3' = Session!None /\ s9' = Session!Quiet /\ s13 /\ s9 # Session!Quiet
      BY <2>24 DEF Session!SignedOut, Session!Forgotten
    <3>2. s6 = {}
      BY <2>2, <3>1
    <3> QED BY <2>7, <3>1, <3>2
  <2>25. CASE Session!VerifyGoes
    <3>1. /\ Session!Go("home", s3) /\ UNCHANGED <<s1, s2, s3, s4, s9>> /\ s13
          /\ s5 \in {"verify", "home"}
      BY <2>25 DEF Session!VerifyGoes, Session!server, Session!who
    <3>2. CASE s5 = "home"
      <4>1. UNCHANGED <<s5, s6, s7, s8>>
        BY <3>1, <3>2 DEF Session!Go
      <4> QED BY <2>3, <2>6, <2>8, <3>1, <4>1
    <3>3. CASE s5 = "verify"
      BY <2>2, <2>7, <3>1, <3>3
    <3> QED BY <3>1, <3>2, <3>3
  <2>26. CASE Session!Gate
    <3>1. s11 # Session!None /\ s13 /\ UNCHANGED <<s1, s2, s3, s4, s9>>
          /\ (UNCHANGED <<s5, s6, s7, s8>> \/ (s7' = Session!Fresh /\ s8' = {}))
      BY <2>26 DEF Session!Gate, Session!server, Session!who, Session!rest
    <3>2. s9 = Session!Quiet
      BY <2>2, <3>1
    <3> QED BY <2>3, <2>5, <2>6, <2>8, <3>1, <3>2
  <2>27. ASSUME NEW r \in s8, Session!ReadServed(r) PROVE Session!ReadInv'
    <3> DEFINE n == [r EXCEPT !.says = Session!Mine]
    <3>1. n = [slot |-> r.slot, first |-> r.first, says |-> Session!Mine]
      BY <2>1
    <3>2. n.says = Session!Mine
      BY <3>1
    <3> HIDE DEF n
    <3>3. /\ s8' = (s8 \ {r}) \cup {n} /\ s13
          /\ UNCHANGED <<s1, s2, s3, s4, s5, s6, s7, s9>>
      BY <2>27 DEF Session!ReadServed, Session!server, Session!who, Session!rest, n
    <3>4. stillNow => \A x \in s8' : x.says \in {Session!Unread, mine}
      BY <2>3, <2>8, <3>2, <3>3
    <3> QED BY <2>3, <2>4, <3>3, <3>4
  <2>28. ASSUME NEW r \in s8, Session!ReadArrives(r) PROVE Session!ReadInv'
    <3>1. PICK says : /\ s7' = [s7 EXCEPT !.list = says, !.loading = @ /\ ~r.first]
                      /\ s13' = (s13 /\ says = r.says)
                      /\ s8' = s8 \ {r} /\ r.says # Session!Unread
                      /\ UNCHANGED <<s1, s2, s3, s4, s5, s6, s9>>
      BY <2>28 DEF Session!ReadArrives, Session!server, Session!who
    <3>2. s13 /\ says = r.says
      BY <3>1, Zenon
    <3>3. s7' = [checking |-> s7.checking, loading |-> (s7.loading /\ ~r.first), list |-> r.says,
                 dialog |-> s7.dialog, creating |-> s7.creating,
                 revoke |-> s7.revoke, revoking |-> s7.revoking]
      BY <2>1, <3>1, <3>2
    <3>4. /\ s7'.list = r.says /\ s7'.dialog = s7.dialog
          /\ s7'.creating = s7.creating /\ s7'.revoking = s7.revoking
      BY <3>3
    <3>5. s8 # {} /\ \A x \in s8' : x \in s8
      BY <3>1
    <3>6. s7'.creating = "no" /\ ~s7'.revoking /\ ~(s3' = Session!None /\ s6' # {})
      BY <2>3, <3>1, <3>2, <3>4, <3>5
    <3>7. stillNow => r.says = mine /\ \A x \in s8' : x.says \in {Session!Unread, mine}
      BY <2>3, <2>8, <3>1, <3>2, <3>5
    <3>8. /\ inOutNow => s9'.what = "logout" \/ s5' \in {"login", "register"}
          /\ formNow => s5' \in {"login", "register"}
      BY <2>3, <3>1, <3>2
    <3> QED BY <2>4, <3>4, <3>6, <3>7, <3>8
  <2>29. ASSUME s13, s7'.loading = s7.loading, s7'.list = s7.list,
                s8' = s8 \/ (s8' # {} /\ s3 # Session!None /\ \A r \in s8' : r \in s8 \/ r.says = Session!Unread),
                UNCHANGED <<s3, s4, s5, s6, s9>>,
                s7'.creating # "no" => s7'.creating = "sent" /\ s7'.dialog = "form" /\ s8' = {},
                s7'.revoking => s7'.dialog = "closed" /\ s7'.creating = "no" /\ s8' = {},
                still => mine = Session!Mine \/ s8' = {},
                still => \/ /\ mine = Session!Mine /\ (s7.revoking => s7'.revoking)
                            /\ s7.dialog = "ready" => s7'.dialog = "ready"
                         \/ s7'.revoking \/ s7'.dialog = "ready" \/ s8' # {}
         PROVE  Session!ReadInv'
    <3>2. s3' = Session!None /\ s6' # {} => s7'.loading /\ s8' = {}
      BY <2>3, <2>29
    <3>3. stillNow => \A r \in s8' : r.says \in {Session!Unread, mine}
      BY <2>3, <2>29
    <3>4. stillNow => \/ s7'.loading \/ s7'.revoking \/ s7'.dialog = "ready" \/ s8' # {}
                      \/ s7'.list = mine
      BY <2>3, <2>29
    <3>5. /\ inOutNow => s9'.what = "logout" \/ s5' \in {"login", "register"}
          /\ formNow => s5' \in {"login", "register"}
      BY <2>3, <2>29
    <3> HIDE DEF stillNow, inOutNow, formNow
    <3> QED BY <2>4, <2>29, <3>2, <3>3, <3>4, <3>5
  <2> DEFINE put(d, c, g, v) == [checking |-> s7.checking, loading |-> s7.loading,
                                 list |-> s7.list, dialog |-> d, creating |-> c,
                                 revoke |-> g, revoking |-> v]
  <2>34. \A d, c, g, v : s7' = put(d, c, g, v) =>
           /\ s7'.loading = s7.loading /\ s7'.list = s7.list
           /\ s7'.dialog = d /\ s7'.creating = c /\ s7'.revoking = v
    OBVIOUS
  <2>30. CASE Session!OpenDialog
    <3>1. /\ UNCHANGED <<s1, s2, s3, s4, s5, s6, s9, s8>>
          /\ s13' = (s13 /\ ~s7.revoking) /\ s7.dialog = "closed"
      BY <2>30 DEF Session!OpenDialog, Session!Still, Session!server, Session!who
    <3>2. s13 /\ ~s7.revoking /\ s7.creating = "no"
      BY <2>3, <3>1, Zenon
    <3>3. s7' = put("form", "no", s7.revoke, s7.revoking)
      BY <2>1, <2>30, <3>2 DEF Session!OpenDialog
    <3>9. /\ s7'.loading = s7.loading /\ s7'.list = s7.list
         /\ s7'.dialog = "form" /\ s7'.creating = "no" /\ s7'.revoking = s7.revoking
      BY <2>34, <3>3
    <3> QED BY <2>8, <2>29, <3>1, <3>2, <3>3, <3>9
  <2>31. CASE Session!Create
    <3>1. /\ UNCHANGED <<s1, s2, s3, s4, s5, s6, s9, s8>>
          /\ s13' = (s13 /\ s8 = {}) /\ s7.dialog = "form"
          /\ s7' = [s7 EXCEPT !.creating = "sent"]
      BY <2>31 DEF Session!Create, Session!Still, Session!server, Session!who
    <3>2. s13 /\ s8 = {} /\ ~s7.revoking
      BY <2>3, <3>1
    <3>3. s7' = put("form", "sent", s7.revoke, s7.revoking)
      BY <2>1, <3>1
    <3>9. /\ s7'.loading = s7.loading /\ s7'.list = s7.list
         /\ s7'.dialog = "form" /\ s7'.creating = "sent" /\ s7'.revoking = s7.revoking
      BY <2>34, <3>3
    <3>4. mine = Session!Mine /\ s7.dialog # "ready" /\ s8' = {}
      BY <2>8, <3>1, <3>2
    <3> HIDE DEF still
    <3> QED BY <2>29, <3>1, <3>2, <3>3, <3>4, <3>9
  <2>32. CASE Session!Created
    <3>1. /\ UNCHANGED <<s1, s3, s4, s5, s6, s9, s8, s13>>
          /\ s7.creating = "sent"
      BY <2>32 DEF Session!Created, Session!Still, Session!who
    <3>2. s13 /\ s8 = {} /\ s7.dialog = "form" /\ ~s7.revoking
      BY <2>3, <3>1
    <3>3. s7' = put("ready", "no", s7.revoke, s7.revoking)
      BY <2>1, <2>32, <3>2 DEF Session!Created
    <3>9. /\ s7'.loading = s7.loading /\ s7'.list = s7.list
         /\ s7'.dialog = "ready" /\ s7'.creating = "no" /\ s7'.revoking = s7.revoking
      BY <2>34, <3>3
    <3>4. s8' = {}
      BY <3>1, <3>2
    <3> HIDE DEF still
    <3> QED BY <2>29, <3>1, <3>2, <3>3, <3>4, <3>9
  <2>33. CASE Session!CreateFails
    <3>1. /\ UNCHANGED <<s1, s2, s3, s4, s5, s6, s9, s8, s13>>
          /\ s7.creating = "sent" /\ s7' = [s7 EXCEPT !.creating = "no"]
      BY <2>33 DEF Session!CreateFails, Session!Still, Session!who, Session!server
    <3>2. s13 /\ ~s7.revoking
      BY <2>3, <3>1
    <3>3. s7' = put(s7.dialog, "no", s7.revoke, s7.revoking)
      BY <2>1, <3>1
    <3>9. /\ s7'.loading = s7.loading /\ s7'.list = s7.list
         /\ s7'.dialog = s7.dialog /\ s7'.creating = "no" /\ s7'.revoking = s7.revoking
      BY <2>34, <3>3
    <3> QED BY <2>8, <2>29, <3>1, <3>2, <3>3, <3>9
  <2>35. CASE Session!CloseDialog
    <3>1. /\ UNCHANGED <<s1, s2, s3, s4, s5, s6, s9>>
          /\ s13' = (s13 /\ s7.creating # "sent") /\ s7.dialog # "closed"
      BY <2>35 DEF Session!CloseDialog, Session!Still, Session!who, Session!server
    <3>2. s13 /\ s7.creating = "no" /\ ~s7.revoking
      BY <2>3, <3>1
    <3>3. CASE s7.dialog = "ready"
      <4>1. Session!loadSessions([s7 EXCEPT !.dialog = "closed"])
        BY <2>35, <3>3 DEF Session!CloseDialog
      <4>2. s7' = put("closed", s7.creating, s7.revoke, s7.revoking)
        BY <2>1, <4>1 DEF Session!loadSessions
      <4>9. /\ s7'.loading = s7.loading /\ s7'.list = s7.list
           /\ s7'.dialog = "closed" /\ s7'.creating = s7.creating /\ s7'.revoking = s7.revoking
        BY <2>34, <4>2
      <4>3. s8' = s8 \/ (s8' # {} /\ s3 # Session!None /\ \A r \in s8' : r \in s8 \/ r.says = Session!Unread)
        BY <2>1, <4>1, NewReads DEF Session!loadSessions
      <4>4. still => s8' # {}
        BY <4>1 DEF Session!loadSessions
      <4>5. mine = Session!Mine
        BY <2>8, <3>1
      <4> HIDE DEF still
      <4> QED BY <2>29, <3>1, <3>2, <4>2, <4>3, <4>4, <4>5, <4>9
    <3>4. CASE s7.dialog # "ready"
      <4>1. s7' = put("closed", s7.creating, s7.revoke, s7.revoking) /\ s8' = s8
        BY <2>1, <2>35, <3>4 DEF Session!CloseDialog
      <4>9. /\ s7'.loading = s7.loading /\ s7'.list = s7.list
           /\ s7'.dialog = "closed" /\ s7'.creating = s7.creating /\ s7'.revoking = s7.revoking
        BY <2>34, <4>1
      <4> QED BY <2>8, <2>29, <3>1, <3>2, <3>4, <4>1, <4>9
    <3> QED BY <3>3, <3>4
  <2>36. ASSUME NEW x, Session!Revoke(x) PROVE Session!ReadInv'
    <3>1. /\ UNCHANGED <<s1, s2, s3, s4, s5, s6, s9, s8>>
          /\ s13' = (s13 /\ s8 = {} /\ s7.creating = "no") /\ s7.dialog = "closed"
          /\ s7' = [s7 EXCEPT !.revoke = x, !.revoking = TRUE]
      BY <2>36 DEF Session!Revoke, Session!Still, Session!who, Session!server
    <3>2. s13 /\ s8 = {} /\ s7.creating = "no"
      BY <3>1
    <3>3. s7' = put(s7.dialog, s7.creating, x, TRUE)
      BY <2>1, <3>1
    <3>9. /\ s7'.loading = s7.loading /\ s7'.list = s7.list
         /\ s7'.dialog = s7.dialog /\ s7'.creating = s7.creating /\ s7'.revoking = TRUE
      BY <2>34, <3>3
    <3> QED BY <2>8, <2>29, <3>1, <3>2, <3>3, <3>9
  <2>37. ASSUME NEW x, Session!Revoked(x) PROVE Session!ReadInv'
    <3>1. /\ UNCHANGED <<s1, s3, s4, s5, s6, s9, s8, s13>>
          /\ s7.revoking /\ s7' = [s7 EXCEPT !.revoke = @ \ {x}]
      BY <2>37 DEF Session!Revoked, Session!Still, Session!who
    <3>2. s13 /\ s8 = {} /\ s7.creating = "no" /\ s7.dialog = "closed"
      BY <2>3, <3>1
    <3>3. s7' = put(s7.dialog, s7.creating, s7.revoke \ {x}, s7.revoking)
      BY <2>1, <3>1
    <3>9. /\ s7'.loading = s7.loading /\ s7'.list = s7.list
         /\ s7'.dialog = s7.dialog /\ s7'.creating = s7.creating /\ s7'.revoking = s7.revoking
      BY <2>34, <3>3
    <3> QED BY <2>29, <3>1, <3>2, <3>3, <3>9
  <2>38. CASE Session!AllRevoked
    <3>1. /\ UNCHANGED <<s1, s2, s3, s4, s5, s6, s9, s13>>
          /\ s7.revoking /\ Session!loadSessions([s7 EXCEPT !.revoking = FALSE])
      BY <2>38 DEF Session!AllRevoked, Session!Still, Session!who, Session!server
    <3>2. s13 /\ s7.creating = "no" /\ s7.dialog = "closed"
      BY <2>3, <3>1
    <3>3. s7' = put(s7.dialog, s7.creating, s7.revoke, FALSE)
      BY <2>1, <3>1 DEF Session!loadSessions
    <3>9. /\ s7'.loading = s7.loading /\ s7'.list = s7.list
         /\ s7'.dialog = s7.dialog /\ s7'.creating = s7.creating /\ s7'.revoking = FALSE
      BY <2>34, <3>3
    <3>4. s8' = s8 \/ (s8' # {} /\ s3 # Session!None /\ \A r \in s8' : r \in s8 \/ r.says = Session!Unread)
      BY <2>1, <3>1, NewReads DEF Session!loadSessions
    <3>5. still => s8' # {}
      BY <3>1 DEF Session!loadSessions
    <3>6. mine = Session!Mine
      BY <2>8, <3>1
    <3> HIDE DEF still
    <3> QED BY <2>29, <3>1, <3>2, <3>3, <3>4, <3>5, <3>6, <3>9
  <2>39. CASE Session!RevokeFails
    BY <2>39 DEF Session!RevokeFails
  <2>40. CASE UNCHANGED Session!vars
    <3>1. UNCHANGED <<s1, s2, s3, s4, s5, s6, s7, s8, s9>> /\ s13
      BY <2>40 DEF Session!vars
    <3> QED BY <2>3, <2>6, <2>8, <3>1
  <2> QED BY <2>9, <2>10, <2>11, <2>12, <2>13, <2>14, <2>16, <2>17, <2>18, <2>19, <2>20, <2>21, <2>22,
             <2>23, <2>24, <2>25, <2>26, <2>27, <2>28, <2>30, <2>31, <2>32, <2>33, <2>35, <2>36, <2>37,
             <2>38, <2>39, <2>40 DEF Session!Next
<1> QED BY <1>1, <1>2

LEMMA ListShows == Session!ReadInv => Session!ListIsServers
  BY DEF Session!ReadInv, Session!ListIsServers, Session!Waiting, Session!Dashboard

\* The types: answers are lists of persons, and links are numbers.
LEMMA AdminTyped ==
  /\ Admin!Init => Admin!Typed
  /\ Admin!Typed /\ [Admin!Next]_(Admin!vars) => Admin!Typed'
<1>0. Admin!Unread \in Admin!Read /\ Admin!NoAsk \in Admin!AnyAsk /\ {"idle", "sent", "served", "failed"} \subseteq Admin!Stage
  BY DEF Admin!Unread, Admin!Read, Admin!Stage, Admin!NoAsk, Admin!AnyAsk
<1>1. Admin!Init => Admin!Typed
  <2> SUFFICES ASSUME Admin!Init PROVE Admin!Typed
    OBVIOUS
  <2>1. s6 = [r \in {"first", "after"} |-> Admin!Unread] /\ s12 = [u \in Imported |-> Admin!NoAsk]
        /\ s14 = Admin!NoAsk /\ s2 = [u \in Imported |-> 0] /\ s8 = [p \in SupportPersons |-> "idle"]
        /\ s7 = [at |-> "idle", who |-> Admin!Nobody] /\ s10 = Admin!Nobody /\ s15 = 0
        /\ s4 = {} /\ s1 \in SUBSET SupportPersons
    BY DEF Admin!Init
  <2>2. s7 \in [at : Admin!Stage \cup {"reading"}, who : SupportPersons \cup {Admin!Nobody}]
    BY <2>1 DEF Admin!Stage
  <2> QED BY <1>0, <2>1, <2>2 DEF Admin!Typed
<1>2. Admin!Typed /\ [Admin!Next]_(Admin!vars) => Admin!Typed'
  <2> SUFFICES ASSUME Admin!Typed, [Admin!Next]_(Admin!vars) PROVE Admin!Typed'
    OBVIOUS
  <2> DEFINE Asked == [at |-> "sent", list |-> {}]
  <2>1. Asked \in Admin!Read
    BY DEF Admin!Read, Admin!Stage
  <2>2. \A r \in {"first", "after"} : s6[r] \in Admin!Read
    BY DEF Admin!Typed
  <2>3. \A i \in Admin!Read : /\ i.list \subseteq SupportPersons
                              /\ [i EXCEPT !.at = "failed"] \in Admin!Read
    BY DEF Admin!Read, Admin!Stage
  <2>4. [at |-> "served", list |-> s1] \in Admin!Read
    BY DEF Admin!Read, Admin!Stage, Admin!Typed
  <2> DEFINE Add == [at : Admin!Stage \cup {"reading"}, who : SupportPersons \cup {Admin!Nobody}]
  <2>5. [at |-> "idle", who |-> Admin!Nobody] \in Add /\ \A p \in SupportPersons : [at |-> "sent", who |-> p] \in Add
    BY DEF Admin!Stage
  <2>6. \A a \in Add : \A x \in Admin!Stage \cup {"reading"} :
          [a EXCEPT !.at = x] \in Add /\ [a EXCEPT !.at = x].who = a.who
    OBVIOUS
  <2>7. \A i \in Admin!AnyAsk : /\ [i EXCEPT !.at = "failed"] \in Admin!AnyAsk
                                /\ \A x \in Int : [i EXCEPT !.at = "served", !.link = x] \in Admin!AnyAsk
    BY DEF Admin!AnyAsk, Admin!Stage
  <2>8. s7 \in Add
    BY DEF Admin!Typed
  <2> HIDE DEF Add, Asked
  <2>10. CASE Admin!CheckAdminStatus
    <3>1. UNCHANGED <<s1, s2, s4, s7, s8, s10, s12, s14, s15>>
          /\ (s6' = [s6 EXCEPT !["first"] = Asked] \/ UNCHANGED s6)
      BY <2>10 DEF Admin!CheckAdminStatus, Admin!Reading, Admin!server, Admin!supportPage,
                   Admin!history, Asked
    <3> QED BY <3>1, <2>1 DEF Admin!Typed
  <2>11. ASSUME NEW p \in SupportPersons, Admin!AddSupportAdmin(p) PROVE Admin!Typed'
    <3>1. UNCHANGED <<s1, s2, s4, s6, s8, s10, s12, s14>>
          /\ s7' = [at |-> "sent", who |-> p] /\ s15' = s15 + 1
      BY <2>11 DEF Admin!AddSupportAdmin, Admin!Act, Admin!server, Admin!supportPage
    <3>2. s7' \in Add
      BY <3>1, <2>5
    <3> QED BY <3>1, <3>2 DEF Admin!Typed, Add
  <2>12. ASSUME NEW p \in SupportPersons, Admin!RemoveSupportAdmin(p) PROVE Admin!Typed'
    <3>1. UNCHANGED <<s1, s2, s4, s6, s7, s10, s12, s14>>
          /\ s8' = [s8 EXCEPT ![p] = "sent"] /\ s15' = s15 + 1
      BY <2>12 DEF Admin!RemoveSupportAdmin, Admin!Act, Admin!server, Admin!supportPage
    <3> QED BY <3>1, <1>0 DEF Admin!Typed
  <2>13. ASSUME NEW r \in {"first", "after"}, Admin!ServeRead(r) PROVE Admin!Typed'
    <3>1. UNCHANGED <<s1, s2, s4, s8, s7, s10, s12, s14, s15>>
          /\ (\/ s6' = [s6 EXCEPT ![r] = [at |-> "served", list |-> s1]]
              \/ s6' = [s6 EXCEPT ![r].at = "failed"])
      BY <2>13 DEF Admin!ServeRead, Admin!server, Admin!supportPage, Admin!history
    <3> QED BY <3>1, <2>2, <2>3, <2>4 DEF Admin!Typed
  <2>14. CASE Admin!ServeAdd
    <3>1. UNCHANGED <<s2, s4, s6, s8, s10, s12, s14, s15>>
          /\ s7.at = "sent"
          /\ (\/ s7' = [s7 EXCEPT !.at = "served"] /\ s1' = s1 \cup {s7.who}
              \/ s7' = [s7 EXCEPT !.at = "failed"] /\ UNCHANGED s1)
      BY <2>14 DEF Admin!ServeAdd, Admin!supportPage
    <3>2. s7' \in Add /\ s7'.who = s7.who
      BY <3>1, <2>6, <2>8, <1>0
    <3>3. s7.who \in SupportPersons
      BY <3>1 DEF Admin!Typed
    <3> QED BY <3>1, <3>2, <3>3 DEF Admin!Typed, Add
  <2>15. ASSUME NEW p \in SupportPersons, Admin!ServeRemoval(p) PROVE Admin!Typed'
    <3>1. UNCHANGED <<s2, s4, s6, s7, s10, s12, s14, s15>>
          /\ (\/ s8' = [s8 EXCEPT ![p] = "served"] /\ s1' = s1 \ {p}
              \/ s8' = [s8 EXCEPT ![p] = "failed"] /\ UNCHANGED s1)
      BY <2>15 DEF Admin!ServeRemoval, Admin!supportPage
    <3> QED BY <3>1, <1>0 DEF Admin!Typed
  <2>16. ASSUME NEW r \in {"first", "after"}, Admin!ListArrives(r) PROVE Admin!Typed'
    <3>1. UNCHANGED <<s1, s2, s8, s10, s12, s14, s15>>
          /\ s6' = [s6 EXCEPT ![r] = Admin!Unread] /\ s4' \in {s6[r].list, s4}
          /\ s7' \in {[at |-> "idle", who |-> Admin!Nobody], s7}
      BY <2>16 DEF Admin!ListArrives, Admin!server, Admin!supportPage
    <3>2. s7' \in Add
      BY <3>1, <2>5, <2>8
    <3>3. s6[r].list \subseteq SupportPersons /\ s4 \subseteq SupportPersons
      BY <2>2, <2>3 DEF Admin!Typed
    <3>4. s4' \subseteq SupportPersons
      BY <3>1, <3>3
    <3> QED BY <3>1, <3>2, <3>4, <1>0 DEF Admin!Typed, Add
  <2>17. CASE Admin!AddAnswered
    <3>1. UNCHANGED <<s1, s2, s4, s8, s10, s12, s14, s15>>
          /\ (s6' = [s6 EXCEPT !["after"] = Asked] \/ UNCHANGED s6)
          /\ (\/ s7' = [s7 EXCEPT !.at = "reading"] /\ s7.at # "idle"
              \/ s7' = [at |-> "idle", who |-> Admin!Nobody])
      BY <2>17 DEF Admin!AddAnswered, Admin!Added, Admin!Reading, Admin!server,
                   Admin!supportPage, Asked
    <3>2. s7' \in Add /\ (s7'.at # "idle" => s7'.who \in SupportPersons)
      BY <3>1, <2>5, <2>6, <2>8 DEF Admin!Typed
    <3> QED BY <3>1, <3>2, <2>1 DEF Admin!Typed, Add
  <2>18. ASSUME NEW p \in SupportPersons, Admin!RemovalAnswered(p) PROVE Admin!Typed'
    <3>1. UNCHANGED <<s1, s2, s6, s7, s10, s12, s14, s15>>
          /\ s8' = [s8 EXCEPT ![p] = "idle"] /\ s4' \in {s4 \ {p}, s4}
      BY <2>18 DEF Admin!RemovalAnswered, Admin!server, Admin!supportPage, Admin!history
    <3> QED BY <3>1, <1>0 DEF Admin!Typed
  <2>19. ASSUME NEW u \in Imported, Admin!Search(u) PROVE Admin!Typed'
    <3>1. UNCHANGED <<s1, s2, s4, s6, s7, s8, s12, s14>>
          /\ s10' = u /\ s15' = s15 + 1
      BY <2>19 DEF Admin!Search, Admin!Act, Admin!server, Admin!adminPage
    <3> QED BY <3>1 DEF Admin!Typed
  <2>20. CASE Admin!Found
    <3> DEFINE i == [at |-> "sent", user |-> s10, link |-> 0]
    <3>1. UNCHANGED <<s1, s2, s4, s6, s7, s8, s14, s15>>
          /\ s10' = Admin!Nobody
          /\ (s12' = [s12 EXCEPT ![s10] = i] \/ UNCHANGED s12)
      BY <2>20 DEF Admin!Found, Admin!server, Admin!adminPage, Admin!history
    <3>2. i \in Admin!AnyAsk
      BY DEF Admin!Typed, Admin!AnyAsk, Admin!Stage
    <3> HIDE DEF i
    <3> QED BY <3>1, <3>2 DEF Admin!Typed
  <2>21. ASSUME NEW u \in Imported, Admin!ServeLookup(u) PROVE Admin!Typed'
    <3>1. UNCHANGED <<s1, s2, s4, s6, s7, s8, s10, s14, s15>>
          /\ (\/ s12' = [s12 EXCEPT ![u] = [@ EXCEPT !.at = "served", !.link = s2[u]]]
              \/ s12' = [s12 EXCEPT ![u] = [@ EXCEPT !.at = "failed"]])
      BY <2>21 DEF Admin!ServeLookup, Admin!server, Admin!adminPage, Admin!history, Admin!Typed
    <3>2. s2[u] \in Int /\ s12[u] \in Admin!AnyAsk
      BY DEF Admin!Typed
    <3>3. [s12[u] EXCEPT !.at = "served", !.link = s2[u]] \in Admin!AnyAsk
          /\ [s12[u] EXCEPT !.at = "failed"] \in Admin!AnyAsk
      BY <3>2, <2>7
    <3> QED BY <3>1, <3>3 DEF Admin!Typed
  <2>22. ASSUME NEW u \in Imported, Admin!LookupAnswered(u) PROVE Admin!Typed'
    <3>1. UNCHANGED <<s1, s2, s4, s6, s7, s8, s10, s14, s15>>
          /\ s12' = [s12 EXCEPT ![u] = Admin!NoAsk]
      BY <2>22 DEF Admin!LookupAnswered, Admin!server, Admin!adminPage, Admin!history
    <3> QED BY <3>1, <1>0 DEF Admin!Typed
  <2>23. CASE Admin!GenerateClaimToken
    <3>1. UNCHANGED <<s1, s2, s4, s6, s7, s8, s10, s12>>
          /\ s14' = [at |-> "sent", user |-> s9, link |-> 0] /\ s9 \in Unclaimed
          /\ s15' = s15 + 1
      BY <2>23 DEF Admin!GenerateClaimToken, Admin!Act, Admin!server, Admin!adminPage
    <3>2. s14' \in Admin!AnyAsk
      BY <3>1, UsersNamed DEF Admin!AnyAsk, Admin!Stage
    <3> QED BY <3>1, <3>2 DEF Admin!Typed
  <2>24. CASE Admin!ServeGenerate
    <3>1. UNCHANGED <<s1, s4, s6, s7, s8, s10, s12, s15>>
          /\ (\/ s2' = [s2 EXCEPT ![s14.user] = s15]
                 /\ s14' = [s14 EXCEPT !.at = "served", !.link = s15]
              \/ UNCHANGED s2 /\ s14' = [s14 EXCEPT !.at = "failed"])
      BY <2>24 DEF Admin!ServeGenerate, Admin!adminPage, Admin!history
    <3>2. s14 \in Admin!AnyAsk /\ s15 \in Int
      BY DEF Admin!Typed
    <3>3. [s14 EXCEPT !.at = "served", !.link = s15] \in Admin!AnyAsk
          /\ [s14 EXCEPT !.at = "failed"] \in Admin!AnyAsk
      BY <3>2, <2>7
    <3>4. s14' \in Admin!AnyAsk
      BY <3>1, <3>3
    <3> QED BY <3>1, <3>2, <3>4 DEF Admin!Typed
  <2>25. CASE Admin!Generated
    <3>1. UNCHANGED <<s1, s2, s4, s6, s7, s8, s10, s12, s15>>
          /\ s14' = Admin!NoAsk
      BY <2>25 DEF Admin!Generated, Admin!server, Admin!adminPage, Admin!history
    <3> QED BY <3>1, <1>0 DEF Admin!Typed
  <2>28. CASE Admin!ChangeLost
    <3>1. UNCHANGED <<s1, s2, s4, s6, s10, s12, s14, s15>>
      BY <2>28 DEF Admin!ChangeLost, Admin!server, Admin!supportPage
    <3>2. CASE s7' = [s7 EXCEPT !.at = "failed"] /\ s7.at = "served" /\ UNCHANGED s8
      <4>1. s7' \in Add /\ s7'.who = s7.who /\ s7.who \in SupportPersons
        BY <3>2, <2>6, <2>8, <1>0 DEF Admin!Typed
      <4> QED BY <3>1, <3>2, <4>1 DEF Admin!Typed, Add
    <3>3. ASSUME NEW p \in SupportPersons, s8' = [s8 EXCEPT ![p] = "failed"], UNCHANGED s7
          PROVE  Admin!Typed'
      BY <3>1, <3>3, <1>0 DEF Admin!Typed
    <3> QED BY <2>28, <3>2, <3>3 DEF Admin!ChangeLost
  <2>29. CASE Admin!LinkLost
    <3>1. UNCHANGED <<s1, s2, s4, s6, s7, s8, s10, s12, s15>>
          /\ s14' = [s14 EXCEPT !.at = "failed"]
      BY <2>29 DEF Admin!LinkLost, Admin!server, Admin!adminPage, Admin!history
    <3>2. s14 \in Admin!AnyAsk
      BY DEF Admin!Typed
    <3>3. s14' \in Admin!AnyAsk
      BY <3>1, <3>2, <2>7
    <3> QED BY <3>1, <3>3 DEF Admin!Typed
  <2>26. CASE UNCHANGED Admin!vars
    BY <2>26 DEF Admin!vars, Admin!Typed
  <2>27. DOMAIN s6 = {"first", "after"}
    BY DEF Admin!Typed
  <2> QED BY <2>10, <2>11, <2>12, <2>13, <2>14, <2>15, <2>16, <2>17, <2>18, <2>19, <2>20, <2>21,
             <2>22, <2>23, <2>24, <2>25, <2>26, <2>27, <2>28, <2>29 DEF Admin!Next
<1> QED BY <1>1, <1>2

\* What a list that is asked for brings is what there is, and no removal is told meanwhile
\* (loadSupportAdmins, addSupportAdmin, removeSupportAdmin).
LEMMA ListStep ==
  /\ Admin!Init => Admin!ListInv
  /\ Admin!Typed /\ Admin!ListInv /\ [Admin!Next]_(Admin!vars) => Admin!ListInv'
<1>1. Admin!Init => Admin!ListInv
  <2> SUFFICES ASSUME Admin!Init PROVE Admin!ListInv
    OBVIOUS
  <2>1. s6 = [r \in {"first", "after"} |-> Admin!Unread] /\ s3 = "checking"
        /\ s8 = [p \in SupportPersons |-> "idle"]
    BY DEF Admin!Init
  <2> QED BY <2>1 DEF Admin!ListInv, Admin!Removed, Admin!Unread
<1>2. Admin!Typed /\ Admin!ListInv /\ [Admin!Next]_(Admin!vars) => Admin!ListInv'
  <2> SUFFICES ASSUME Admin!Typed, Admin!ListInv, [Admin!Next]_(Admin!vars) PROVE Admin!ListInv'
    OBVIOUS
  <2> DEFINE Asked == [at |-> "sent", list |-> {}]
  <2>1. Asked.at = "sent" /\ Admin!Unread.at = "idle"
    BY DEF Admin!Unread
  <2>2. DOMAIN s6 = {"first", "after"} /\ s6 \in [{"first", "after"} -> Admin!Read]
    BY DEF Admin!Typed
  <2>3. \A i \in Admin!Read : [i EXCEPT !.at = "failed"].at = "failed"
    BY DEF Admin!Read
  <2>4. s8 \in [SupportPersons -> Admin!Stage]
    BY DEF Admin!Typed
  <2>5. Admin!ReadsOut <=> \E r \in {"first", "after"} : s6[r].at # "idle"
    BY <2>2 DEF Admin!ReadsOut
  <2> HIDE DEF Asked
  <2>6. ASSUME UNCHANGED <<s3, s16, s1, s4, s6, s8>>,
               s7'.at = "served" \/ s7.at # "served"
        PROVE  Admin!ListInv'
    BY <2>6 DEF Admin!ListInv, Admin!ReadsOut, Admin!Removed
  <2>10. CASE Admin!CheckAdminStatus
    <3>1. UNCHANGED <<s16, s1, s4, s8, s7>> /\ s3 = "checking" /\ s3' # "checking"
          /\ (\/ s3' = "admin" /\ s6' = [s6 EXCEPT !["first"] = Asked]
              \/ s3' # "admin" /\ UNCHANGED s6)
      BY <2>10 DEF Admin!CheckAdminStatus, Admin!Reading, Admin!server, Admin!history, Asked
    <3>2. Admin!Removed' = {}
      BY <3>1 DEF Admin!ListInv, Admin!Removed
    <3>3. CASE s3' = "admin"
      <4>1. s6'["first"].at = "sent" /\ s6'["after"] = s6["after"]
            /\ DOMAIN s6' = {"first", "after"}
        BY <3>1, <3>3, <2>1, <2>2
      <4> QED BY <3>1, <3>2, <3>3, <4>1, <2>2 DEF Admin!ListInv, Admin!ReadsOut
    <3>4. CASE s3' # "admin"
      BY <3>1, <3>2, <3>4 DEF Admin!ListInv, Admin!ReadsOut
    <3> QED BY <3>3, <3>4
  <2>11. ASSUME NEW p \in SupportPersons, Admin!AddSupportAdmin(p) PROVE Admin!ListInv'
    BY <2>11, <2>6 DEF Admin!AddSupportAdmin, Admin!server
  <2>12. ASSUME NEW p \in SupportPersons, Admin!RemoveSupportAdmin(p) PROVE Admin!ListInv'
    <3>1. UNCHANGED <<s3, s16, s1, s4, s6, s7>> /\ s3 = "admin"
          /\ s8' = [s8 EXCEPT ![p] = "sent"] /\ s8[p] = "idle"
      BY <2>12 DEF Admin!RemoveSupportAdmin, Admin!server
    <3>2. Admin!Removed' = Admin!Removed
      BY <3>1, <2>4 DEF Admin!Removed
    <3> QED BY <3>1, <3>2 DEF Admin!ListInv, Admin!ReadsOut
  <2>13. ASSUME NEW r \in {"first", "after"}, Admin!ServeRead(r) PROVE Admin!ListInv'
    <3>1. UNCHANGED <<s3, s16, s1, s4, s8, s7>> /\ s6[r].at = "sent"
          /\ (\/ s6' = [s6 EXCEPT ![r] = [at |-> "served", list |-> s1]]
              \/ s6' = [s6 EXCEPT ![r].at = "failed"])
      BY <2>13 DEF Admin!ServeRead, Admin!server, Admin!history
    <3>2. /\ DOMAIN s6' = {"first", "after"} /\ s6'[r].at # "idle"
          /\ s6'[r].at = "served" => s6'[r].list = s1
          /\ \A q \in {"first", "after"} \ {r} : s6'[q] = s6[q]
      <4>1. s6[r] \in Admin!Read /\ [at |-> "served", list |-> s1].at = "served"
            /\ [at |-> "served", list |-> s1].list = s1
        BY <2>2
      <4> DEFINE S == [at |-> "served", list |-> s1]
                 F == [s6[r] EXCEPT !.at = "failed"]
      <4>2. F.at = "failed" /\ (s6' = [s6 EXCEPT ![r] = S] \/ s6' = [s6 EXCEPT ![r] = F])
        BY <3>1, <4>1, <2>2, <2>3
      <4>3. S.at = "served" /\ S.list = s1
        OBVIOUS
      <4> HIDE DEF S, F
      <4> QED BY <4>2, <4>3, <2>2
    <3>3. Admin!ReadsOut /\ Admin!ReadsOut'
      BY <3>1, <3>2, <2>5 DEF Admin!ReadsOut
    <3>4. Admin!Removed' = Admin!Removed
      BY <3>1 DEF Admin!Removed
    <3> QED BY <3>1, <3>2, <3>3, <3>4, <2>2 DEF Admin!ListInv
  <2>14. CASE Admin!ServeAdd
    <3>1. UNCHANGED <<s3, s4, s6, s8>> /\ s7.at = "sent" /\ s3' = s3
          /\ (\/ s7' = [s7 EXCEPT !.at = "served"] /\ s16' = (s16 /\ ~Admin!ReadsOut)
              \/ s7' = [s7 EXCEPT !.at = "failed"] /\ UNCHANGED <<s1, s16>>)
      BY <2>14 DEF Admin!ServeAdd
    <3>2. Admin!ReadsOut' = Admin!ReadsOut /\ Admin!Removed' = Admin!Removed
      BY <3>1 DEF Admin!ReadsOut, Admin!Removed
    <3>3. CASE s7' = [s7 EXCEPT !.at = "served"] /\ s16' = (s16 /\ ~Admin!ReadsOut)
      <4>1. s7'.at = "served"
        BY <3>3 DEF Admin!Typed
      <4>2. s16' => s16 /\ ~Admin!ReadsOut
        BY <3>3
      <4> QED BY <3>1, <3>2, <4>1, <4>2, <2>2, <2>5 DEF Admin!ListInv
    <3>4. CASE UNCHANGED <<s1, s16>>
      BY <3>1, <3>4, <2>6
    <3> QED BY <3>1, <3>3, <3>4
  <2>15. ASSUME NEW p \in SupportPersons, Admin!ServeRemoval(p) PROVE Admin!ListInv'
    <3>1. UNCHANGED <<s3, s4, s6, s7>> /\ s8[p] = "sent"
          /\ (\/ /\ s8' = [s8 EXCEPT ![p] = "served"] /\ s1' = s1 \ {p}
                 /\ s16' = (s16 /\ ~Admin!ReadsOut)
              \/ s8' = [s8 EXCEPT ![p] = "failed"] /\ UNCHANGED <<s1, s16>>)
      BY <2>15 DEF Admin!ServeRemoval
    <3>2. Admin!ReadsOut' = Admin!ReadsOut /\ s3 # "checking"
      BY <3>1 DEF Admin!ReadsOut, Admin!ListInv
    <3>3. CASE s8' = [s8 EXCEPT ![p] = "served"] /\ s1' = s1 \ {p}
               /\ s16' = (s16 /\ ~Admin!ReadsOut)
      <4>1. Admin!Removed' = Admin!Removed \cup {p}
        BY <3>3, <2>4 DEF Admin!Removed
      <4>2. s16' => s16 /\ ~Admin!ReadsOut
        BY <3>3
      <4> QED BY <3>1, <3>2, <3>3, <4>1, <4>2, <2>2, <2>5 DEF Admin!ListInv
    <3>4. CASE s8' = [s8 EXCEPT ![p] = "failed"] /\ UNCHANGED <<s1, s16>>
      <4>1. Admin!Removed' = Admin!Removed
        BY <3>1, <3>4, <2>4 DEF Admin!Removed
      <4> QED BY <3>1, <3>2, <3>4, <4>1 DEF Admin!ListInv
    <3> QED BY <3>1, <3>3, <3>4
  <2>16. ASSUME NEW r \in {"first", "after"}, Admin!ListArrives(r) PROVE Admin!ListInv'
    <3>1. /\ s6[r].at \in {"served", "failed"} /\ s6' = [s6 EXCEPT ![r] = Admin!Unread]
          /\ s4' = IF s6[r].at = "served" THEN s6[r].list ELSE s4
          /\ s3' = s3 /\ s1' = s1 /\ s8' = s8
      BY <2>16 DEF Admin!ListArrives, Admin!server
    <3>a. s16' => s16 /\ s6[r].at = "served"
      BY <2>16, Zenon DEF Admin!ListArrives
    <3>b. s6[r].at # "idle"
      BY <3>1
    <3>2. Admin!ReadsOut /\ Admin!Removed' = Admin!Removed
      BY <3>1, <3>b, <2>5 DEF Admin!Removed
    <3>3. s16' => s16 /\ s4' = s1 /\ Admin!Removed = {}
      BY <3>1, <3>a, <3>2, <2>2 DEF Admin!ListInv
    <3>4. \A q \in {"first", "after"} : s6'[q].at # "idle" => s6'[q] = s6[q]
      BY <3>1, <2>1, <2>2
    <3>5. DOMAIN s6' = {"first", "after"}
      BY <3>1, <2>2
    <3> QED BY <3>1, <3>2, <3>3, <3>4, <3>5, <2>2 DEF Admin!ListInv
  <2>17. CASE Admin!AddAnswered
    <3>1. CASE s7.at = "served" /\ Admin!Added
      <4>1. UNCHANGED <<s3, s1, s4, s8>>
            /\ s6' = [s6 EXCEPT !["after"] = Asked]
            /\ s16' = (s16 /\ \A p \in SupportPersons : s8[p] = "idle")
        BY <2>17, <3>1 DEF Admin!AddAnswered, Admin!Added, Admin!Reading, Admin!server, Asked
      <4>2. s16' => s16 /\ Admin!Removed' = {}
        BY <4>1 DEF Admin!Removed
      <4>3. /\ DOMAIN s6' = {"first", "after"} /\ s6'["after"].at = "sent"
            /\ s6'["first"] = s6["first"]
        BY <4>1, <2>1, <2>2
      <4>4. Admin!ReadsOut'
        BY <4>3 DEF Admin!ReadsOut
      <4> QED BY <4>1, <4>2, <4>3, <4>4, <2>2 DEF Admin!ListInv
    <3>2. CASE s7.at = "failed" /\ UNCHANGED <<s5, s6, s16>>
      BY <2>17, <3>2, <2>6 DEF Admin!AddAnswered, Admin!server
    <3> QED BY <2>17, <3>1, <3>2 DEF Admin!AddAnswered
  <2>18. ASSUME NEW p \in SupportPersons, Admin!RemovalAnswered(p) PROVE Admin!ListInv'
    <3>1. UNCHANGED <<s3, s16, s1, s6, s7>>
          /\ s8' = [s8 EXCEPT ![p] = "idle"] /\ s8[p] \in {"served", "failed"}
          /\ s4' = IF s8[p] = "served" THEN s4 \ {p} ELSE s4
      BY <2>18 DEF Admin!RemovalAnswered, Admin!server, Admin!history
    <3>2. Admin!Removed' = Admin!Removed \ {p} /\ (s8[p] = "served" <=> p \in Admin!Removed)
      BY <3>1, <2>4 DEF Admin!Removed
    <3>3. s4' \ Admin!Removed' = s4 \ Admin!Removed /\ s3 # "checking"
      BY <3>1, <3>2 DEF Admin!ListInv
    <3> QED BY <3>1, <3>2, <3>3 DEF Admin!ListInv, Admin!ReadsOut
  <2>19. ASSUME NEW u \in Imported, Admin!Search(u) \/ Admin!ServeLookup(u) \/ Admin!LookupAnswered(u) PROVE Admin!ListInv'
    BY <2>19, <2>6 DEF Admin!Search, Admin!ServeLookup, Admin!LookupAnswered, Admin!server,
                       Admin!adminPage, Admin!history
  <2>22. CASE Admin!ChangeLost
    <3>1. UNCHANGED s3 /\ s16' = FALSE
      BY <2>22 DEF Admin!ChangeLost
    <3>2. \A p \in SupportPersons : s8'[p] = "idle" <=> s8[p] = "idle"
      BY <2>22, <2>4 DEF Admin!ChangeLost
    <3> QED BY <3>1, <3>2 DEF Admin!ListInv
  <2>20. CASE Admin!Found \/ Admin!GenerateClaimToken \/ Admin!ServeGenerate \/ Admin!LinkLost \/ Admin!Generated
    BY <2>20, <2>6 DEF Admin!Found, Admin!GenerateClaimToken, Admin!ServeGenerate,
                       Admin!LinkLost, Admin!Generated, Admin!server, Admin!adminPage,
                       Admin!history
  <2>21. CASE UNCHANGED Admin!vars
    BY <2>21, <2>6 DEF Admin!vars
  <2> QED BY <2>10, <2>11, <2>12, <2>13, <2>14, <2>15, <2>16, <2>17, <2>18, <2>19, <2>20, <2>21,
             <2>22, <2>2 DEF Admin!Next
<1> QED BY <1>1, <1>2

\* The one link that is asked for is of the user shown (loadClaimToken, generateClaimToken).
LEMMA LinkStep ==
  /\ Admin!Init => Admin!LinkInv
  /\ Admin!Typed /\ Admin!LinkInv /\ [Admin!Next]_(Admin!vars) => Admin!LinkInv'
<1>1. Admin!Init => Admin!LinkInv
  <2> SUFFICES ASSUME Admin!Init PROVE Admin!LinkInv
    OBVIOUS
  <2>1. s12 = [u \in Imported |-> Admin!NoAsk] /\ s14 = Admin!NoAsk /\ s11 = Admin!NoClaim /\ s10 = Admin!Nobody
    BY DEF Admin!Init
  <2> QED BY <2>1 DEF Admin!LinkInv, Admin!NoAsk
<1>2. Admin!Typed /\ Admin!LinkInv /\ [Admin!Next]_(Admin!vars) => Admin!LinkInv'
  <2> SUFFICES ASSUME Admin!Typed, Admin!LinkInv, [Admin!Next]_(Admin!vars), s17'
               PROVE  Admin!LinkInv'
    BY DEF Admin!LinkInv
  <2>0. s12 \in [Imported -> Admin!AnyAsk] /\ Admin!NoAsk.at = "idle" /\ s14 \in Admin!AnyAsk
    BY DEF Admin!Typed, Admin!NoAsk
  <2>1. CASE UNCHANGED <<s2, s17, Admin!supportPage>>
    BY <2>1 DEF Admin!LinkInv, Admin!LinkAsked, Admin!supportPage
  <2>2. CASE Admin!CheckAdminStatus \/ Admin!ServeAdd \/ Admin!AddAnswered \/ Admin!ChangeLost
    BY <2>2, <2>1 DEF Admin!CheckAdminStatus, Admin!ServeAdd, Admin!AddAnswered,
                      Admin!ChangeLost, Admin!server, Admin!history
  <2>3. ASSUME NEW p \in SupportPersons,
               Admin!AddSupportAdmin(p) \/ Admin!RemoveSupportAdmin(p) \/ Admin!ServeRemoval(p) \/ Admin!RemovalAnswered(p)
        PROVE  Admin!LinkInv'
    BY <2>3, <2>1 DEF Admin!AddSupportAdmin, Admin!RemoveSupportAdmin, Admin!ServeRemoval,
                      Admin!RemovalAnswered, Admin!server, Admin!history
  <2>4. ASSUME NEW r, Admin!ServeRead(r) \/ Admin!ListArrives(r) PROVE Admin!LinkInv'
    BY <2>4, <2>1 DEF Admin!ServeRead, Admin!ListArrives, Admin!server, Admin!history
  <2>5. ASSUME NEW u \in Imported, Admin!Search(u) PROVE Admin!LinkInv'
    <3>1. UNCHANGED <<s12, s14, s2>> /\ s9' = Admin!Nobody /\ s11' = Admin!NoClaim /\ ~Admin!LinkAsked
      BY <2>5 DEF Admin!Search, Admin!Forget, Admin!server
    <3> QED BY <3>1 DEF Admin!LinkInv, Admin!LinkAsked
  <2>6. CASE Admin!Found
    <3>1. s17 /\ s10 # Admin!Nobody /\ s10' = Admin!Nobody /\ UNCHANGED <<s2, s14>>
      BY <2>6 DEF Admin!Found, Admin!server, Admin!history
    <3>2. s9 = Admin!Nobody /\ s11 = Admin!NoClaim /\ ~Admin!LinkAsked /\ s14.at = "idle"
          /\ \A u \in Imported : s12[u].at = "idle"
      BY <3>1 DEF Admin!LinkInv, Admin!LinkAsked
    <3>3. CASE s11' \in {s11, Admin!NoClaim} /\ UNCHANGED <<s9, s12, s13>>
      BY <3>1, <3>2, <3>3 DEF Admin!LinkInv, Admin!LinkAsked
    <3>4. CASE s9' = s10 /\ s11' = Admin!NoClaim /\ s10 \notin Unclaimed
               /\ UNCHANGED s12
      BY <3>1, <3>2, <3>4 DEF Admin!LinkInv, Admin!LinkAsked
    <3>5. CASE /\ s9' = s10 /\ s11' = Admin!NoClaim /\ s10 \in Unclaimed
               /\ s12' = [s12 EXCEPT ![s10] =
                            [at |-> "sent", user |-> s10, link |-> 0]]
               /\ s13' = (s13 \/ s10 \in Unclaimed)
      <4>1. s13' /\ \A u \in Imported : IF u = s10 THEN s12'[u].link = 0
                                                   ELSE s12'[u] = s12[u]
        BY <3>5, <2>0
      <4> QED BY <3>1, <3>2, <3>5, <4>1 DEF Admin!LinkInv
    <3> QED BY <2>6, <3>3, <3>4, <3>5 DEF Admin!Found, Admin!Forget
  <2>7. ASSUME NEW u \in Imported, Admin!ServeLookup(u) PROVE Admin!LinkInv'
    <3>1. s12[u].at = "sent" /\ s17
          /\ UNCHANGED <<s2, s9, s10, s11, s13, s14>>
          /\ (\/ s12' = [s12 EXCEPT ![u].at = "served", ![u].link = s2[u]]
              \/ s12' = [s12 EXCEPT ![u].at = "failed"])
      BY <2>7 DEF Admin!ServeLookup, Admin!server, Admin!history
    <3>2. /\ \A v \in Imported \ {u} : s12'[v] = s12[v]
          /\ s12'[u].link \in {s2[u], s12[u].link}
      BY <3>1, <2>0 DEF Admin!AnyAsk
    <3>3. s10 = Admin!Nobody
      BY <3>1 DEF Admin!LinkInv, Admin!LinkAsked
    <3>4. /\ s9 = u /\ s13 /\ s14.at = "idle" /\ s11 = Admin!NoClaim
          /\ s12[u].link > 0 => s12[u].link = s2[u]
      BY <3>1 DEF Admin!LinkInv
    <3> QED BY <3>1, <3>2, <3>3, <3>4 DEF Admin!LinkInv
  <2>8. ASSUME NEW u \in Imported, Admin!LookupAnswered(u) PROVE Admin!LinkInv'
    <3>1. s12[u].at # "idle" /\ s17 /\ UNCHANGED <<s2, s9, s10, s14>>
          /\ s12' = [s12 EXCEPT ![u] = Admin!NoAsk]
          /\ s11' = IF s12[u].link > 0 THEN [user |-> u, link |-> s12[u].link] ELSE s11
      BY <2>8 DEF Admin!LookupAnswered, Admin!server, Admin!history
    <3>2. /\ s9 = u /\ s14.at = "idle" /\ s11 = Admin!NoClaim
          /\ s12[u].link > 0 => s12[u].link = s2[u]
          /\ \A v \in Imported \ {u} : s12[v].at = "idle"
      BY <3>1 DEF Admin!LinkInv
    <3>3. \A v \in Imported : s12'[v].at = "idle"
      BY <3>1, <3>2, <2>0
    <3>4. s10 = Admin!Nobody
      BY <3>1 DEF Admin!LinkInv, Admin!LinkAsked
    <3>5. s11' # Admin!NoClaim => s11'.user = u /\ s11'.link = s2[u]
      BY <3>1, <3>2
    <3> QED BY <3>1, <3>2, <3>3, <3>4, <3>5 DEF Admin!LinkInv
  <2>9. CASE Admin!GenerateClaimToken
    <3>1. UNCHANGED <<s2, s9, s10, s11, s12, s13>> /\ s17
          /\ s9 \in Unclaimed /\ s11 = Admin!NoClaim /\ ~s13
          /\ s14' = [at |-> "sent", user |-> s9, link |-> 0]
      BY <2>9 DEF Admin!GenerateClaimToken, Admin!server
    <3>2. s14'.at = "sent" /\ s14'.user = s9 /\ s9 \in Imported /\ s9 # Admin!Nobody
      BY <3>1, UsersNamed DEF Admin!Nobody
    <3>3. s10 = Admin!Nobody /\ \A u \in Imported : s12[u].at = "idle"
      BY <3>1, <3>2 DEF Admin!LinkInv
    <3> QED BY <3>1, <3>2, <3>3 DEF Admin!LinkInv
  <2>10. CASE Admin!ServeGenerate
    <3>1. UNCHANGED <<s9, s10, s11, s12, s13>> /\ s17 /\ s14.at = "sent"
          /\ (\/ s2' = [s2 EXCEPT ![s14.user] = s15]
                 /\ s14' = [s14 EXCEPT !.at = "served", !.link = s15]
              \/ UNCHANGED s2 /\ s14' = [s14 EXCEPT !.at = "failed"])
      BY <2>10 DEF Admin!ServeGenerate, Admin!history
    <3>2. s14.user = s9 /\ s9 \in Imported /\ s11 = Admin!NoClaim /\ s10 = Admin!Nobody
          /\ \A u \in Imported : s12[u].at = "idle"
      BY <3>1 DEF Admin!LinkInv, Admin!LinkAsked
    <3>3. s2 \in [Imported -> Int] /\ s15 \in Int
      BY DEF Admin!Typed
    <3>4. /\ s14'.user = s9
          /\ s14'.at = "served" => s14'.link = s2'[s9]
      <4>1. CASE s2' = [s2 EXCEPT ![s14.user] = s15]
                 /\ s14' = [s14 EXCEPT !.at = "served", !.link = s15]
        <5>1. s14'.user = s9 /\ s14'.link = s15
          BY <4>1, <3>2, <2>0 DEF Admin!AnyAsk
        <5>2. s2'[s9] = s15
          BY <4>1, <3>2, <3>3
        <5> QED BY <5>1, <5>2
      <4>2. CASE s14' = [s14 EXCEPT !.at = "failed"]
        BY <4>2, <3>2, <2>0 DEF Admin!AnyAsk
      <4> QED BY <3>1, <4>1, <4>2
    <3> QED BY <3>1, <3>2, <3>4 DEF Admin!LinkInv
  <2>13. CASE Admin!LinkLost
    <3>1. UNCHANGED <<s2, s9, s10, s11, s12, s13>> /\ s17
          /\ s14.at # "idle" /\ s14' = [s14 EXCEPT !.at = "failed"]
      BY <2>13 DEF Admin!LinkLost, Admin!server, Admin!history
    <3>2. s14'.user = s14.user /\ s14'.at = "failed"
      BY <3>1, <2>0 DEF Admin!AnyAsk
    <3> QED BY <3>1, <3>2 DEF Admin!LinkInv, Admin!LinkAsked
  <2>11. CASE Admin!Generated
    <3>1. UNCHANGED <<s2, s9, s10, s12>> /\ s17 /\ s14.at # "idle"
          /\ s14' = Admin!NoAsk
          /\ s11' = IF s14.at = "served" THEN [user |-> s14.user, link |-> s14.link]
                                         ELSE s11
      BY <2>11 DEF Admin!Generated, Admin!server, Admin!history
    <3>2. /\ s14.user = s9 /\ s11 = Admin!NoClaim /\ s10 = Admin!Nobody
          /\ s14.at = "served" => s14.link = s2[s9]
          /\ \A u \in Imported : s12[u].at = "idle"
      BY <3>1 DEF Admin!LinkInv, Admin!LinkAsked
    <3>3. s11' # Admin!NoClaim => s11'.user = s9 /\ s11'.link = s2[s9]
      BY <3>1, <3>2
    <3> QED BY <3>1, <3>2, <3>3, <2>0 DEF Admin!LinkInv
  <2>12. CASE UNCHANGED Admin!vars
    BY <2>12, <2>1 DEF Admin!vars, Admin!supportPage
  <2> QED BY <2>2, <2>3, <2>4, <2>5, <2>6, <2>7, <2>8, <2>9, <2>10, <2>11, <2>12, <2>13
  DEF Admin!Next
<1> QED BY <1>1, <1>2

\* What the pages show follows.
LEMMA AdminShows ==
  /\ Admin!Typed /\ Admin!ListInv => Admin!AdminsAreListed
  /\ Admin!LinkInv => Admin!LinkIsOfTheUser
<1>1. Admin!Typed /\ Admin!ListInv => Admin!AdminsAreListed
  BY DEF Admin!Typed, Admin!ListInv, Admin!AdminsAreListed, Admin!Removed
<1>2. Admin!LinkInv => Admin!LinkIsOfTheUser
  BY DEF Admin!LinkInv, Admin!LinkIsOfTheUser
<1> QED BY <1>1, <1>2

\* What becomes of the requests when the page is opened anew: all are as they were, and
\* nobody is there for them.
LEMMA LeftAsks ==
  ASSUME NEW rs \in SUBSET Teams!AnyAsk, s6' = {[r EXCEPT !.here = FALSE] : r \in rs}
  PROVE  s6' \subseteq Teams!AnyAsk /\ \A r \in s6' : ~r.here
<1>1. \A r \in Teams!AnyAsk : [r EXCEPT !.here = FALSE] \in Teams!AnyAsk /\ ~[r EXCEPT !.here = FALSE].here
  BY DEF Teams!AnyAsk
<1> QED BY <1>1

\* What an answer from the server makes of a request.
LEMMA ServedAsk ==
  ASSUME NEW r \in Teams!AnyAsk, NEW x \in {"served", "refused"}
  PROVE  LET n == [r EXCEPT !.at = x] IN
         n \in Teams!AnyAsk /\ n.at = x /\ n.what = r.what /\ n.id = r.id /\ n.here = r.here
BY DEF Teams!AnyAsk

\* The types, and that what is asked for by the page that is open was asked on it.
LEMMA TeamsTyped ==
  /\ Teams!Init => Teams!Typed
  /\ Teams!Typed /\ [Teams!Next]_(Teams!vars) => Teams!Typed'
<1>1. Teams!Init => Teams!Typed
  BY DEF Teams!Init, Teams!Typed, Teams!Here, Teams!Page, Teams!Kind, Teams!Lists
<1>2. Teams!Typed /\ [Teams!Next]_(Teams!vars) => Teams!Typed'
  <2> SUFFICES ASSUME Teams!Typed, [Teams!Next]_(Teams!vars) PROVE Teams!Typed'
    OBVIOUS
  <2> DEFINE AskedOn(r, p) == CASE r.what = "team" -> p = "teams"
                                [] r.what = "item" -> p = "newItem"
                                [] r.what = "auth" -> p = "newAuth"
                                [] r.what \in {"drop item", "drop team"} -> p = "team"
                                [] r.what \in {"drop auth", "drop key"} -> p = "key"
  <2>1. s6 \subseteq Teams!AnyAsk /\ s9 \in Nat /\ s2 \in Teams!Page /\ \A r \in s6 : r.here => AskedOn(r, s2)
    BY DEF Teams!Typed, Teams!Here
  <2>2. ASSUME s1' \in [Teams!Kind -> SUBSET Int], s6' \subseteq Teams!AnyAsk, s9' \in Nat, s2' \in Teams!Page,
               \A r \in s6' : r.here => AskedOn(r, s2')
        PROVE  Teams!Typed'
    BY <2>2 DEF Teams!Typed, Teams!Here
  <2> HIDE DEF AskedOn
  <2>3. ASSUME UNCHANGED <<s1, s2, s9>>, s6' \subseteq s6 PROVE Teams!Typed'
    BY <2>1, <2>2, <2>3 DEF Teams!Typed
  <2>4. ASSUME NEW p \in Teams!Page, NEW rs \in SUBSET Teams!AnyAsk, Teams!Open(p, rs), UNCHANGED <<s1, s9>>
        PROVE  Teams!Typed'
    BY <2>1, <2>2, <2>4, LeftAsks DEF Teams!Typed, Teams!Open
  <2>5. ASSUME NEW p \in Teams!Page, NEW rs \in SUBSET s6, Teams!Goto(p, rs), UNCHANGED <<s1, s9>>
        PROVE  Teams!Typed'
    BY <2>1, <2>3, <2>4, <2>5 DEF Teams!Goto
  <2>6. "teams" \in Teams!Page /\ "team" \in Teams!Page /\ "key" \in Teams!Page
    BY DEF Teams!Page, Teams!Lists
  <2>7. CASE Teams!ServeRead \/ Teams!Loaded
    BY <2>7, <2>3 DEF Teams!ServeRead, Teams!Loaded
  <2>8. ASSUME NEW p \in Teams!Page, Teams!Follow(p) PROVE Teams!Typed'
    BY <2>8, <2>1, <2>4 DEF Teams!Follow
  <2>9. CASE Teams!CloseSuccessModal
    BY <2>9, <2>1, <2>4, <2>6 DEF Teams!CloseSuccessModal
  <2>10. ASSUME NEW n \in Teams!AnyAsk, n.here => AskedOn(n, s2), s6' = s6 \cup {n},
                UNCHANGED <<s1, s2>>, s9' \in Nat
         PROVE  Teams!Typed'
    BY <2>1, <2>2, <2>10 DEF Teams!Typed
  <2>11. ASSUME NEW k \in Teams!Create, Teams!New(k), UNCHANGED s1,
                k = "team" => s2 = "teams", k = "item" => s2 = "newItem",
                k = "auth" => s2 = "newAuth"
         PROVE  Teams!Typed'
    <3> DEFINE n == [what |-> k, id |-> s9 + 1, at |-> "sent", here |-> TRUE]
    <3>1. s6' = s6 \cup {n} /\ UNCHANGED s2 /\ s9' = s9 + 1
      BY <2>11 DEF Teams!New
    <3>2. s9 + 1 \in Nat
      BY <2>1
    <3>3. n \in Teams!AnyAsk
      BY <3>2 DEF Teams!AnyAsk, Teams!Create
    <3>4. AskedOn(n, s2)
      BY <2>11 DEF AskedOn, Teams!Create
    <3> HIDE DEF n
    <3> QED BY <3>1, <3>2, <3>3, <3>4, <2>10, <2>11
  <2>12. CASE Teams!CreateTeam \/ Teams!CreateItem \/ Teams!CreateAuthorization
    <3>1. CASE s2 = "teams" /\ Teams!New("team")
      BY <3>1, <2>11 DEF Teams!New, Teams!Create
    <3>2. CASE s2 = "newItem" /\ Teams!New("item")
      BY <3>2, <2>11 DEF Teams!New, Teams!Create
    <3>3. CASE s2 = "newAuth" /\ Teams!New("auth")
      BY <3>3, <2>11 DEF Teams!New, Teams!Create
    <3> QED BY <2>12, <3>1, <3>2, <3>3
    DEF Teams!CreateTeam, Teams!CreateItem, Teams!CreateAuthorization
  <2>13. ASSUME NEW what \in Teams!Drop, NEW id \in Teams!Thing, Teams!Delete(what, id) PROVE Teams!Typed'
    <3> DEFINE n == [what |-> what, id |-> id, at |-> "sent", here |-> TRUE]
    <3>1. s6' = s6 \cup {n} /\ UNCHANGED <<s1, s2, s9>>
      BY <2>13 DEF Teams!Delete
    <3>2. id \in Int
      BY DEF Teams!Thing
    <3>3. n \in Teams!AnyAsk /\ AskedOn(n, s2)
      BY <2>13, <3>2 DEF Teams!AnyAsk, AskedOn, Teams!Delete
    <3> HIDE DEF n
    <3> QED BY <3>1, <3>3, <2>1, <2>10
  <2>14. ASSUME NEW r \in s6, Teams!Serve(r) PROVE Teams!Typed'
    <3>1. PICK x \in {"served", "refused"} :
            /\ s6' = (s6 \ {r}) \cup {[r EXCEPT !.at = x]} /\ UNCHANGED <<s2, s9>>
            /\ s1' = Teams!Effect(r) \/ UNCHANGED s1
      BY <2>14 DEF Teams!Serve
    <3> DEFINE n == [r EXCEPT !.at = x]
    <3>2. n \in Teams!AnyAsk /\ n.what = r.what /\ n.here = r.here
      BY <2>1, ServedAsk
    <3>3. s6' = (s6 \ {r}) \cup {n}
      BY <3>1
    <3> HIDE DEF n
    <3>4. n.here => AskedOn(n, s2)
      BY <2>1, <3>2 DEF AskedOn
    <3>5. r.what \in Teams!Create \cup Teams!Drop /\ r.id \in Int
      BY <2>1 DEF Teams!AnyAsk
    <3>6. s1' \in [Teams!Kind -> SUBSET Int]
      <4>1. s1 \in [Teams!Kind -> SUBSET Int]
        BY DEF Teams!Typed
      <4>2. Teams!Effect(r) \in [Teams!Kind -> SUBSET Int]
        BY <3>5, <4>1 DEF Teams!Effect, Teams!Create, Teams!Drop, Teams!Kind
      <4> QED BY <3>1, <4>1, <4>2
    <3> QED BY <3>1, <3>2, <3>3, <3>4, <3>6, <2>1, <2>2
  <2>18. ASSUME NEW r \in s6, Teams!AnswerLost(r) PROVE Teams!Typed'
    <3>1. /\ s6' = (s6 \ {r}) \cup {[r EXCEPT !.at = "refused"]}
          /\ UNCHANGED <<s1, s2, s9>>
      BY <2>18 DEF Teams!AnswerLost
    <3> DEFINE n == [r EXCEPT !.at = "refused"]
    <3>2. n \in Teams!AnyAsk /\ n.what = r.what /\ n.here = r.here
      BY <2>1, ServedAsk
    <3>3. s6' = (s6 \ {r}) \cup {n}
      BY <3>1
    <3> HIDE DEF n
    <3>4. n.here => AskedOn(n, s2)
      BY <2>1, <3>2 DEF AskedOn
    <3>5. s1' \in [Teams!Kind -> SUBSET Int]
      BY <3>1 DEF Teams!Typed
    <3> QED BY <3>1, <3>2, <3>3, <3>4, <3>5, <2>1, <2>2
  <2>15. ASSUME NEW r \in s6, Teams!Answered(r) PROVE Teams!Typed'
    <3>1. s6 \ {r} \in SUBSET s6
      OBVIOUS
    <3> QED BY <2>15, <3>1, <2>3, <2>5, <2>6 DEF Teams!Answered, Teams!AuthAnswer
  <2>16. ASSUME NEW r \in s6, Teams!Refused(r) PROVE Teams!Typed'
    BY <2>16, <2>3 DEF Teams!Refused
  <2>17. CASE UNCHANGED Teams!vars
    BY <2>17, <2>3 DEF Teams!vars
  <2> QED BY <2>7, <2>8, <2>9, <2>12, <2>13, <2>14, <2>15, <2>16, <2>17, <2>18 DEF Teams!Next
<1> QED BY <1>1, <1>2

\* What a page lists is what there is but for what it is about to be told: PageInv is
\* inductive.
LEMMA PageStep ==
  /\ Teams!Init => Teams!PageInv
  /\ Teams!Typed /\ Teams!PageInv /\ [Teams!Next]_(Teams!vars) => Teams!PageInv'
<1>1. Teams!Init => Teams!PageInv
  <2> SUFFICES ASSUME Teams!Init PROVE Teams!PageInv
    OBVIOUS
  <2>1. Teams!Told = {} /\ s4 = "sent"
    BY DEF Teams!Init, Teams!Told, Teams!Here
  <2> QED BY <2>1 DEF Teams!PageInv
<1>2. Teams!Typed /\ Teams!PageInv /\ [Teams!Next]_(Teams!vars) => Teams!PageInv'
  <2> SUFFICES ASSUME Teams!Typed, Teams!PageInv, [Teams!Next]_(Teams!vars), s11'
               PROVE  Teams!PageInv'
    BY DEF Teams!PageInv
  <2>0. s6 \subseteq Teams!AnyAsk
    BY DEF Teams!Typed
  <2>1. ASSUME UNCHANGED <<s1, s2, s3, s4, s5>>, s11, Teams!Told' = Teams!Told PROVE Teams!PageInv'
    BY <2>1 DEF Teams!PageInv, Teams!Ids
  <2>2. ASSUME NEW p, NEW rs \in SUBSET Teams!AnyAsk, Teams!Open(p, rs) PROVE Teams!PageInv'
    <3>1. s6' = {[r EXCEPT !.here = FALSE] : r \in rs} /\ s4' \in {"none", "sent"}
      BY <2>2 DEF Teams!Open
    <3>2. Teams!Told' = {}
      BY <3>1, LeftAsks DEF Teams!Told, Teams!Here
    <3> QED BY <3>1, <3>2 DEF Teams!PageInv
  <2>3. ASSUME NEW r \in s6, r.at # "served" \/ ~r.here, s6' = s6 \ {r},
               UNCHANGED <<s1, s2, s3, s4, s5, s11>>
        PROVE  Teams!PageInv'
    <3>1. Teams!Told' = Teams!Told
      BY <2>3 DEF Teams!Told, Teams!Here
    <3> QED BY <2>1, <2>3, <3>1
  <2>4. ASSUME NEW p, NEW r \in s6, ~r.here \/ s2 # p, Teams!Goto(p, s6 \ {r}),
               UNCHANGED <<s1, s11>>
        PROVE  Teams!PageInv'
    <3>1. s6 \ {r} \in SUBSET Teams!AnyAsk
      BY <2>0
    <3> QED BY <3>1, <2>2, <2>3, <2>4 DEF Teams!Goto
  <2>5. ASSUME NEW n, n.at = "sent", s6' = s6 \cup {n},
               UNCHANGED <<s1, s2, s3, s4, s5, s11>>
        PROVE  Teams!PageInv'
    <3>1. Teams!Told' = Teams!Told
      BY <2>5 DEF Teams!Told, Teams!Here
    <3> QED BY <2>1, <2>5, <3>1
  <2>6. CASE Teams!ServeRead
    <3>1. UNCHANGED <<s1, s2, s3, s6, s11>> /\ s4 = "sent"
      BY <2>6 DEF Teams!ServeRead
    <3>2. Teams!Told = {} /\ Teams!Told' = {}
      BY <3>1 DEF Teams!PageInv, Teams!Told, Teams!Here
    <3>3. \/ s4' = "served" /\ s5' = IF s2 \in DOMAIN Teams!Lists THEN s1[Teams!Lists[s2]] ELSE {}
          \/ s4' = "failed"
      BY <2>6 DEF Teams!ServeRead
    <3> QED BY <3>1, <3>2, <3>3 DEF Teams!PageInv
  <2>7. CASE Teams!Loaded
    <3>1. UNCHANGED <<s1, s2, s5, s6>> /\ s4 \in {"served", "failed"}
          /\ s4' = "loaded" /\ s3' = s5
      BY <2>7 DEF Teams!Loaded
    <3>2. s11 /\ s4 = "served"
      BY <2>7 DEF Teams!Loaded
    <3>3. Teams!Told = {} /\ Teams!Told' = {}
      BY <3>1, <3>2 DEF Teams!PageInv, Teams!Told, Teams!Here
    <3>4. Teams!Ids({"team"})' = {} /\ Teams!Ids({"drop item", "drop auth"})' = {}
      BY <3>3 DEF Teams!Ids
    <3>5. s2 \in DOMAIN Teams!Lists => s5 = s1[Teams!Lists[s2]]
      BY <3>2 DEF Teams!PageInv
    <3> QED BY <3>1, <3>3, <3>4, <3>5 DEF Teams!PageInv
  <2>8. ASSUME NEW p \in Teams!Page, Teams!Follow(p) PROVE Teams!PageInv'
    BY <2>8, <2>0, <2>2 DEF Teams!Follow
  <2>9. CASE Teams!CloseSuccessModal
    BY <2>9, <2>0, <2>2 DEF Teams!CloseSuccessModal
  <2>10. ASSUME NEW k, Teams!New(k) PROVE Teams!PageInv'
    <3> DEFINE n == [what |-> k, id |-> s9 + 1, at |-> "sent", here |-> TRUE]
    <3>1. s6' = s6 \cup {n} /\ n.at = "sent"
          /\ UNCHANGED <<s1, s2, s3, s4, s5, s11>>
      BY <2>10 DEF Teams!New
    <3> HIDE DEF n
    <3> QED BY <3>1, <2>5
  <2>11. CASE Teams!CreateTeam \/ Teams!CreateItem \/ Teams!CreateAuthorization
    BY <2>11, <2>10 DEF Teams!CreateTeam, Teams!CreateItem, Teams!CreateAuthorization
  <2>12. ASSUME NEW what \in Teams!Drop, NEW id \in Teams!Thing, Teams!Delete(what, id) PROVE Teams!PageInv'
    <3> DEFINE n == [what |-> what, id |-> id, at |-> "sent", here |-> TRUE]
    <3>1. s6' = s6 \cup {n} /\ n.at = "sent"
          /\ UNCHANGED <<s1, s2, s3, s4, s5, s11>>
      BY <2>12 DEF Teams!Delete
    <3> HIDE DEF n
    <3> QED BY <3>1, <2>5
  <2>13. ASSUME NEW r \in s6, Teams!Serve(r) PROVE Teams!PageInv'
    <3>0. r \in Teams!AnyAsk /\ r.at = "sent" /\ UNCHANGED <<s2, s3, s4, s5>>
      BY <2>0, <2>13 DEF Teams!Serve
    <3>1. CASE s6' = (s6 \ {r}) \cup {[r EXCEPT !.at = "refused"]} /\ UNCHANGED <<s1, s11>>
      <4> DEFINE n == [r EXCEPT !.at = "refused"]
      <4>1. n.at = "refused"
        BY <3>0, ServedAsk
      <4>2. s6' = (s6 \ {r}) \cup {n}
        BY <3>1
      <4> HIDE DEF n
      <4>3. Teams!Told' = Teams!Told
        BY <3>0, <4>1, <4>2 DEF Teams!Told, Teams!Here
      <4> QED BY <3>0, <3>1, <4>3, <2>1
    <3>2. CASE /\ s1' = Teams!Effect(r) /\ s6' = (s6 \ {r}) \cup {[r EXCEPT !.at = "served"]}
               /\ s11' = (s11 /\ r.here /\ s4 \in {"loaded", "none"})
      <4> DEFINE n == [r EXCEPT !.at = "served"]
      <4>1. n.at = "served" /\ n.what = r.what /\ n.id = r.id /\ n.here = r.here
        BY <3>0, ServedAsk
      <4>2. s6' = (s6 \ {r}) \cup {n}
        BY <3>2
      <4>3. s11 /\ r.here /\ s4 \in {"loaded", "none"}
        BY <3>2
      <4> HIDE DEF n
      <4>4. Teams!Told' = Teams!Told \cup {n}
        BY <3>0, <4>1, <4>2, <4>3 DEF Teams!Told, Teams!Here
      <4>5. s1' = Teams!Effect(r) /\ s1 \in [Teams!Kind -> SUBSET Int]
        BY <3>2 DEF Teams!Typed
      <4>6. r \in Teams!Here /\ r.what \in Teams!Create \cup Teams!Drop
        BY <3>0, <4>3 DEF Teams!Here, Teams!AnyAsk
      <4> SUFFICES ASSUME s4 = "loaded", s2 \in DOMAIN Teams!Lists,
                          r.what \notin {"drop key", "drop team"},
                          \A q \in Teams!Told : q.what \notin {"drop key", "drop team"}
                   PROVE  s1'[Teams!Lists[s2]] =
                            (s3 \cup Teams!Ids({"team"})') \ Teams!Ids({"drop item", "drop auth"})'
        BY <3>0, <4>1, <4>3, <4>4 DEF Teams!PageInv
      <4>7. s1[Teams!Lists[s2]] = (s3 \cup Teams!Ids({"team"})) \ Teams!Ids({"drop item", "drop auth"})
        BY <4>3 DEF Teams!PageInv
      <4>8. Teams!Ids({"team"})' = Teams!Ids({"team"}) \cup (IF r.what = "team" THEN {r.id} ELSE {})
            /\ Teams!Ids({"drop item", "drop auth"})' = Teams!Ids({"drop item", "drop auth"})
                 \cup (IF r.what \in {"drop item", "drop auth"} THEN {r.id} ELSE {})
        BY <4>1, <4>4 DEF Teams!Ids
      <4>9. CASE r.what = "team"
        <5>1. s2 = "teams" /\ \A q \in Teams!Told : q.what \notin {"drop item", "drop auth"}
          BY <4>6, <4>9 DEF Teams!Typed, Teams!Told
        <5>2. Teams!Ids({"drop item", "drop auth"}) = {} /\ Teams!Lists[s2] = "team"
          BY <5>1 DEF Teams!Ids, Teams!Lists
        <5>3. s1'["team"] = s1["team"] \cup {r.id}
          BY <4>5, <4>9 DEF Teams!Effect, Teams!Create, Teams!Kind
        <5> QED BY <4>7, <4>8, <4>9, <5>2, <5>3
      <4>10. CASE r.what \in {"drop item", "drop auth"}
        <5>1. Teams!Lists[s2] = IF r.what = "drop item" THEN "item" ELSE "auth"
          BY <4>6, <4>10 DEF Teams!Typed, Teams!Lists
        <5>2. s1'[Teams!Lists[s2]] = s1[Teams!Lists[s2]] \ {r.id}
          BY <4>5, <4>10, <5>1 DEF Teams!Effect, Teams!Create, Teams!Kind
        <5> QED BY <4>7, <4>8, <4>10, <5>2
      <4>11. CASE r.what \in {"item", "auth"}
        BY <4>6, <4>11 DEF Teams!Typed, Teams!Lists
      <4> QED BY <4>6, <4>9, <4>10, <4>11 DEF Teams!Create, Teams!Drop
    <3> QED BY <2>13, <3>1, <3>2 DEF Teams!Serve
  <2>14. ASSUME NEW r \in s6, Teams!Answered(r) PROVE Teams!PageInv'
    <3>0. r \in Teams!AnyAsk /\ r.at = "served" /\ UNCHANGED <<s1, s11>>
      BY <2>0, <2>14 DEF Teams!Answered
    <3>1. r.here => r \in Teams!Here
      BY DEF Teams!Here
    <3>2. CASE r.what = "item" /\ Teams!Goto("team", s6 \ {r})
      <4>1. ~r.here \/ s2 # "team"
        BY <3>1, <3>2 DEF Teams!Typed
      <4> QED BY <3>0, <3>2, <4>1, <2>4
    <3>3. CASE r.what = "drop key" /\ Teams!Goto("team", s6 \ {r})
      <4>1. ~r.here \/ s2 # "team"
        BY <3>1, <3>3 DEF Teams!Typed
      <4> QED BY <3>0, <3>3, <4>1, <2>4
    <3>4. CASE r.what = "drop team" /\ Teams!Goto("teams", s6 \ {r})
      <4>1. ~r.here \/ s2 # "teams"
        BY <3>1, <3>4 DEF Teams!Typed
      <4> QED BY <3>0, <3>4, <4>1, <2>4
    <3>5. CASE r.what = "auth" /\ Teams!AuthAnswer(r)
      <4>1. s6' = s6 \ {r} /\ UNCHANGED <<s2, s3, s4, s5>>
        BY <3>5 DEF Teams!AuthAnswer
      <4>2. CASE ~r.here
        BY <3>0, <4>1, <4>2, <2>3
      <4>3. CASE r.here
        <5>1. s2 = "newAuth" /\ s2 \notin DOMAIN Teams!Lists
          BY <3>1, <3>5, <4>3 DEF Teams!Typed, Teams!Lists
        <5>2. Teams!Told' \subseteq Teams!Told
          BY <4>1 DEF Teams!Told, Teams!Here
        <5> QED BY <3>0, <4>1, <5>1, <5>2 DEF Teams!PageInv
      <4> QED BY <4>2, <4>3
    <3>6. CASE /\ r.what \in {"team", "drop item", "drop auth"} /\ s6' = s6 \ {r}
               /\ UNCHANGED <<s2, s4, s5>> /\ ~r.here /\ s3' = s3
      BY <3>0, <3>6, <2>3
    <3>7. CASE /\ r.what \in {"team", "drop item", "drop auth"} /\ s6' = s6 \ {r}
               /\ UNCHANGED <<s2, s4, s5>> /\ r.here
               /\ s3' = IF r.what = "team"
                        THEN (IF s4 = "loaded" THEN s3 \cup {r.id} ELSE s3)
                        ELSE s3 \ {r.id}
      <4>1. Teams!Told' = Teams!Told \ {r} /\ r \in Teams!Told
        BY <3>0, <3>7 DEF Teams!Told, Teams!Here
      <4>2. s4 \notin {"sent", "served", "failed"}
        BY <3>0, <4>1 DEF Teams!PageInv
      <4> SUFFICES ASSUME s4 = "loaded", s2 \in DOMAIN Teams!Lists,
                          \A q \in Teams!Told : q.what \notin {"drop key", "drop team"}
                   PROVE  s1[Teams!Lists[s2]] =
                            (s3' \cup Teams!Ids({"team"})') \ Teams!Ids({"drop item", "drop auth"})'
        BY <3>0, <3>7, <4>1, <4>2 DEF Teams!PageInv
      <4>3. s1[Teams!Lists[s2]] = (s3 \cup Teams!Ids({"team"})) \ Teams!Ids({"drop item", "drop auth"})
        BY <3>0 DEF Teams!PageInv
      <4>4. CASE r.what = "team"
        <5>1. s2 = "teams" /\ \A q \in Teams!Told : q.what \notin {"drop item", "drop auth"}
          BY <3>1, <3>7, <4>4 DEF Teams!Typed, Teams!Told
        <5>2. Teams!Ids({"drop item", "drop auth"}) = {} /\ Teams!Ids({"drop item", "drop auth"})' = {}
          BY <4>1, <5>1 DEF Teams!Ids
        <5>3. Teams!Ids({"team"}) = Teams!Ids({"team"})' \cup {r.id}
          BY <4>1, <4>4 DEF Teams!Ids
        <5> QED BY <3>7, <4>3, <4>4, <5>2, <5>3
      <4>5. CASE r.what \in {"drop item", "drop auth"}
        <5>1. s2 \in {"team", "key"} /\ \A q \in Teams!Told : q.what # "team"
          BY <3>1, <3>7, <4>5 DEF Teams!Typed, Teams!Told
        <5>2. Teams!Ids({"team"}) = {} /\ Teams!Ids({"team"})' = {}
          BY <4>1, <5>1 DEF Teams!Ids
        <5>3. Teams!Ids({"drop item", "drop auth"}) = Teams!Ids({"drop item", "drop auth"})' \cup {r.id}
          BY <4>1, <4>5 DEF Teams!Ids
        <5> QED BY <3>7, <4>3, <4>5, <5>2, <5>3
      <4> QED BY <3>7, <4>4, <4>5
    <3> QED BY <2>14, <3>2, <3>3, <3>4, <3>5, <3>6, <3>7 DEF Teams!Answered, Teams!Gone
  <2>15. ASSUME NEW r \in s6, Teams!Refused(r) PROVE Teams!PageInv'
    BY <2>15, <2>3 DEF Teams!Refused
  <2>17. ASSUME NEW r \in s6, Teams!AnswerLost(r) PROVE Teams!PageInv'
    BY <2>17 DEF Teams!AnswerLost, Teams!PageInv
  <2>16. CASE UNCHANGED Teams!vars
    BY <2>16, <2>1 DEF Teams!vars, Teams!Told, Teams!Here
  <2> QED BY <2>6, <2>7, <2>8, <2>9, <2>11, <2>12, <2>13, <2>14, <2>15, <2>16, <2>17
  DEF Teams!Next
<1> QED BY <1>1, <1>2

\* One authorization at a time is on its way to its form, which shows its URL: UrlInv is
\* inductive.
LEMMA UrlStep ==
  /\ Teams!Init => Teams!UrlInv
  /\ Teams!Typed /\ Teams!UrlInv /\ [Teams!Next]_(Teams!vars) => Teams!UrlInv'
<1>1. Teams!Init => Teams!UrlInv
  BY DEF Teams!Init, Teams!UrlInv, Teams!Authorizations, Teams!Kind
<1>2. Teams!Typed /\ Teams!UrlInv /\ [Teams!Next]_(Teams!vars) => Teams!UrlInv'
  <2> SUFFICES ASSUME Teams!Typed, Teams!UrlInv, [Teams!Next]_(Teams!vars) PROVE Teams!UrlInv'
    OBVIOUS
  <2>0. s6 \subseteq Teams!AnyAsk /\ s9 \in Nat /\ Teams!Authorizations \subseteq s6
    BY DEF Teams!Typed, Teams!Authorizations
  <2>1. ASSUME UNCHANGED <<s1, s7, s8, s9>>, s12' => s12,
               Teams!Authorizations' = Teams!Authorizations
        PROVE  Teams!UrlInv'
    BY <2>1 DEF Teams!UrlInv
  <2>2. \A r \in Teams!Authorizations : s12 => r.here /\ s7 = 0 /\ r \in Teams!Here
    BY DEF Teams!UrlInv, Teams!Authorizations, Teams!Here
  <2>3. ASSUME NEW p, NEW rs \in SUBSET s6, Teams!Open(p, rs), UNCHANGED <<s1, s9>>,
               s12' => s12, s12' => \A r \in s6 : r.what # "auth",
               s8' = s8 \cup {s7} \/ (s8' = s8 /\ (s12' => s7 = 0))
        PROVE  Teams!UrlInv'
    <3>1. s6' = {[r EXCEPT !.here = FALSE] : r \in rs} /\ s7' = 0
      BY <2>3 DEF Teams!Open
    <3>2. \A r \in rs : [r EXCEPT !.here = FALSE].what = r.what /\ [r EXCEPT !.here = FALSE].id = r.id
      BY <2>0 DEF Teams!AnyAsk
    <3>3. \A q \in s6' : \E r \in rs : q.what = r.what /\ q.id = r.id
      BY <3>1, <3>2
    <3>4. /\ s12' => Teams!Authorizations = {} /\ Teams!Authorizations' = {}
          /\ \A q \in Teams!Authorizations' : \E r \in Teams!Authorizations : q.id = r.id
      BY <2>3, <3>3 DEF Teams!Authorizations
    <3> QED BY <2>3, <3>1, <3>4 DEF Teams!UrlInv
  <2>4. ASSUME NEW r \in s6, s6' = s6 \ {r}, UNCHANGED <<s1, s7, s8, s9>>,
               s12' => s12, r.what # "auth" \/ r.at # "served"
        PROVE  Teams!UrlInv'
    <3>1. CASE r.what # "auth"
      BY <2>1, <2>4, <3>1 DEF Teams!Authorizations
    <3>2. CASE r.what = "auth" /\ r.at # "served"
      <4>1. Teams!Authorizations' = Teams!Authorizations \ {r} /\ r \in Teams!Authorizations
        BY <2>4, <3>2 DEF Teams!Authorizations
      <4>2. s12 => Teams!Authorizations = {r} /\ r.id \notin s1["auth"]
        BY <3>2, <4>1 DEF Teams!UrlInv
      <4> QED BY <2>4, <4>1, <4>2 DEF Teams!UrlInv
    <3> QED BY <2>4, <3>1, <3>2
  <2>5. ASSUME NEW n, n.what # "auth", s6' = s6 \cup {n},
               UNCHANGED <<s1, s7, s8, s12>>, s9' \in Nat, s9 <= s9'
        PROVE  Teams!UrlInv'
    <3>1. Teams!Authorizations' = Teams!Authorizations
      BY <2>5 DEF Teams!Authorizations
    <3> QED BY <2>0, <2>5, <3>1 DEF Teams!UrlInv
  <2>6. CASE Teams!ServeRead \/ Teams!Loaded
    BY <2>6, <2>1 DEF Teams!ServeRead, Teams!Loaded, Teams!Authorizations
  <2>7. ASSUME NEW p \in Teams!Page, Teams!Follow(p) PROVE Teams!UrlInv'
    <3>1. Teams!Open(p, s6) /\ UNCHANGED <<s1, s8, s9>> /\ s7 = 0
          /\ s12' = (s12 /\ ~\E r \in Teams!Here : r.what = "auth")
      BY <2>7 DEF Teams!Follow
    <3>2. s12' => s12 /\ \A r \in s6 : r.what # "auth"
      BY <2>2, <3>1 DEF Teams!Authorizations
    <3> QED BY <2>3, <3>1, <3>2
  <2>8. CASE Teams!CloseSuccessModal
    <3>1. Teams!Open("key", s6) /\ UNCHANGED <<s1, s9, s12>> /\ s8' = s8 \cup {s7}
          /\ s7 # 0
      BY <2>8 DEF Teams!CloseSuccessModal
    <3>2. s12 => \A r \in s6 : r.what # "auth"
      BY <2>2, <3>1 DEF Teams!Authorizations
    <3> QED BY <3>1, <3>2, <2>3
  <2>9. CASE Teams!CreateTeam \/ Teams!CreateItem
    <3>1. PICK k \in {"team", "item"} : Teams!New(k) /\ UNCHANGED s12
      BY <2>9 DEF Teams!CreateTeam, Teams!CreateItem
    <3> DEFINE n == [what |-> k, id |-> s9 + 1, at |-> "sent", here |-> TRUE]
    <3>2. s6' = s6 \cup {n} /\ n.what # "auth" /\ s9' = s9 + 1
          /\ UNCHANGED <<s1, s7, s8>>
      BY <3>1 DEF Teams!New
    <3> HIDE DEF n
    <3>3. s9' \in Nat /\ s9 <= s9'
      BY <2>0, <3>2
    <3> QED BY <3>1, <3>2, <3>3, <2>5
  <2>10. CASE Teams!CreateAuthorization
    <3> DEFINE n == [what |-> "auth", id |-> s9 + 1, at |-> "sent", here |-> TRUE]
    <3>1. s6' = s6 \cup {n} /\ s9' = s9 + 1 /\ UNCHANGED <<s1, s7, s8>>
          /\ s7 = 0 /\ s12' = (s12 /\ ~\E r \in s6 : r.what = "auth")
      BY <2>10 DEF Teams!CreateAuthorization, Teams!New
    <3>2. n.what = "auth" /\ n.id = s9 + 1 /\ n.here
      OBVIOUS
    <3> HIDE DEF n
    <3>3. s12' => s12 /\ Teams!Authorizations = {} /\ Teams!Authorizations' = {n}
      BY <3>1, <3>2 DEF Teams!Authorizations
    <3>4. s1["auth"] \subseteq 1..s9 /\ s9 + 1 \in 1..s9' /\ s9 + 1 \notin s1["auth"]
          /\ s1["auth"] \subseteq 1..s9'
      BY <2>0, <3>1 DEF Teams!UrlInv
    <3>5. s12' => \A a \in s1["auth"] : a = s7 \/ a \in s8
      BY <3>3 DEF Teams!UrlInv
    <3>6. Teams!Authorizations' = Teams!Authorizations \cup {n}
      BY <3>1, <3>2 DEF Teams!Authorizations
    <3>7. \A r \in Teams!Authorizations' : r.id \in 1..s9'
      BY <2>0, <3>1, <3>2, <3>4, <3>6 DEF Teams!UrlInv
    <3> QED BY <3>1, <3>2, <3>3, <3>4, <3>5, <3>7 DEF Teams!UrlInv
  <2>11. ASSUME NEW what \in Teams!Drop, NEW id \in Teams!Thing, Teams!Delete(what, id) PROVE Teams!UrlInv'
    <3> DEFINE n == [what |-> what, id |-> id, at |-> "sent", here |-> TRUE]
    <3>1. s6' = s6 \cup {n} /\ n.what # "auth" /\ UNCHANGED <<s1, s7, s8, s9, s12>>
      BY <2>11 DEF Teams!Delete, Teams!Drop
    <3> HIDE DEF n
    <3> QED BY <2>0, <3>1, <2>5
  <2>12. ASSUME NEW r \in s6, Teams!Serve(r) PROVE Teams!UrlInv'
    <3>1. PICK x \in {"served", "refused"} :
            /\ s6' = (s6 \ {r}) \cup {[r EXCEPT !.at = x]}
            /\ x = "served" => s1' = Teams!Effect(r)
            /\ x = "refused" => s1' = s1
      BY <2>12 DEF Teams!Serve
    <3> DEFINE n == [r EXCEPT !.at = x]
    <3>2. n.what = r.what /\ n.id = r.id /\ n.here = r.here /\ n.at = x
      BY <2>0, ServedAsk
    <3>3. s6' = (s6 \ {r}) \cup {n}
      BY <3>1
    <3> HIDE DEF n
    <3>4. r.at = "sent" /\ UNCHANGED <<s7, s8, s9, s12>>
      BY <2>12 DEF Teams!Serve
    <3>5. r.what \in Teams!Create \cup Teams!Drop
      BY <2>0 DEF Teams!AnyAsk
    <3>6. s1 \in [Teams!Kind -> SUBSET Int]
      BY DEF Teams!Typed
    <3>7. s1'["auth"] \subseteq s1["auth"]
            \cup (IF r.what = "auth" /\ x = "served" THEN {r.id} ELSE {})
      BY <3>1, <3>5, <3>6 DEF Teams!Effect, Teams!Create, Teams!Drop, Teams!Kind
    <3>8. CASE r.what # "auth"
      <4>1. Teams!Authorizations' = Teams!Authorizations /\ s1'["auth"] \subseteq s1["auth"]
        BY <3>2, <3>3, <3>7, <3>8 DEF Teams!Authorizations
      <4> QED BY <3>4, <4>1 DEF Teams!UrlInv
    <3>9. CASE r.what = "auth"
      <4>1. Teams!Authorizations' = (Teams!Authorizations \ {r}) \cup {n} /\ r \in Teams!Authorizations
        BY <3>2, <3>3, <3>9 DEF Teams!Authorizations
      <4>2. s12 => /\ Teams!Authorizations' = {n} /\ n.here /\ s7 = 0
                   /\ n.at # "served" => n.id \notin s1'["auth"]
                   /\ s1'["auth"] \subseteq s1["auth"] \cup {n.id}
        BY <3>2, <3>4, <3>7, <4>1 DEF Teams!UrlInv
      <4>3. s1'["auth"] \subseteq 1..s9 /\ n.id \in 1..s9
        BY <3>2, <3>7, <4>1 DEF Teams!UrlInv
      <4> QED BY <3>4, <4>1, <4>2, <4>3 DEF Teams!UrlInv
    <3> QED BY <3>8, <3>9
  <2>16. ASSUME NEW r \in s6, Teams!AnswerLost(r) PROVE Teams!UrlInv'
    <3>1. /\ s6' = (s6 \ {r}) \cup {[r EXCEPT !.at = "refused"]}
          /\ s12' = (s12 /\ r.what # "auth") /\ UNCHANGED <<s1, s7, s8, s9>>
      BY <2>16 DEF Teams!AnswerLost
    <3> DEFINE n == [r EXCEPT !.at = "refused"]
    <3>2. n.what = r.what /\ n.id = r.id
      BY <2>0, ServedAsk
    <3>3. s6' = (s6 \ {r}) \cup {n}
      BY <3>1
    <3> HIDE DEF n
    <3>4. (\A q \in Teams!Authorizations : q.id \in 1..s9)'
      BY <3>1, <3>2, <3>3 DEF Teams!Authorizations, Teams!UrlInv
    <3>5. CASE r.what = "auth"
      BY <3>1, <3>4, <3>5 DEF Teams!UrlInv
    <3>6. CASE r.what # "auth"
      <4>1. Teams!Authorizations' = Teams!Authorizations
        BY <3>2, <3>3, <3>6 DEF Teams!Authorizations
      <4>2. s12' => s12
        BY <3>1
      <4> QED BY <3>1, <4>1, <4>2 DEF Teams!UrlInv
    <3> QED BY <3>5, <3>6
  <2>13. ASSUME NEW r \in s6, Teams!Answered(r) PROVE Teams!UrlInv'
    <3>0. r.at = "served" /\ UNCHANGED <<s1, s8, s9>>
          /\ s12' = (s12 /\ (s2' = s2
                              \/ (s7 = 0 /\ ~\E q \in Teams!Here \ {r} : q.what = "auth")))
      BY <2>13 DEF Teams!Answered
    <3>1. ASSUME NEW p, r.what # "auth", Teams!Goto(p, s6 \ {r}) PROVE Teams!UrlInv'
      <4>1. CASE p = s2
        BY <2>4, <3>0, <3>1, <4>1 DEF Teams!Goto
      <4>2. CASE p # s2
        <5>1. Teams!Open(p, s6 \ {r}) /\ s2' # s2
          BY <3>1, <4>2 DEF Teams!Goto, Teams!Open
        <5>2. s12' => s12 /\ s7 = 0 /\ \A q \in s6 : q.what # "auth"
          BY <2>2, <3>0, <3>1, <5>1 DEF Teams!Authorizations
        <5> QED BY <2>3, <3>0, <5>1, <5>2
      <4> QED BY <4>1, <4>2
    <3>2. CASE r.what = "auth" /\ Teams!AuthAnswer(r)
      <4>1. s7' = (IF r.here THEN r.id ELSE s7) /\ s6' = s6 \ {r}
        BY <3>2 DEF Teams!AuthAnswer
      <4>2. Teams!Authorizations' = Teams!Authorizations \ {r} /\ r \in Teams!Authorizations
        BY <3>2, <4>1 DEF Teams!Authorizations
      <4>3. s12 => /\ Teams!Authorizations = {r} /\ r.here /\ s7 = 0
                   /\ \A a \in s1["auth"] : a # 0
        BY <4>2 DEF Teams!UrlInv
      <4>4. s12 => /\ Teams!Authorizations' = {} /\ s7' = r.id
                   /\ \A a \in s1["auth"] : a \in s8 \/ r.id = a
        BY <4>1, <4>2, <4>3 DEF Teams!UrlInv
      <4> QED BY <3>0, <4>2, <4>4 DEF Teams!UrlInv
    <3>3. CASE r.what # "auth" /\ s6' = s6 \ {r} /\ UNCHANGED s7
      BY <2>4, <3>0, <3>3
    <3> QED BY <2>13, <3>1, <3>2, <3>3 DEF Teams!Answered
  <2>14. ASSUME NEW r \in s6, Teams!Refused(r) PROVE Teams!UrlInv'
    BY <2>14, <2>4 DEF Teams!Refused
  <2>15. CASE UNCHANGED Teams!vars
    BY <2>15, <2>1 DEF Teams!vars, Teams!Authorizations
  <2> QED BY <2>6, <2>7, <2>8, <2>9, <2>10, <2>11, <2>12, <2>13, <2>14, <2>15, <2>16
  DEF Teams!Next
<1> QED BY <1>1, <1>2

\* What the pages show follows.
LEMMA TeamsShow ==
  /\ Teams!PageInv => Teams!PageIsServers
  /\ Teams!UrlInv => Teams!UrlWasShown
<1>1. Teams!PageInv => Teams!PageIsServers
  <2> SUFFICES ASSUME Teams!PageInv, s11, s2 \in DOMAIN Teams!Lists, s4 = "loaded", Teams!Here = {}
               PROVE  s3 = s1[Teams!Lists[s2]]
    BY DEF Teams!PageIsServers
  <2>1. Teams!Told = {}
    BY DEF Teams!Told
  <2>2. Teams!Ids({"team"}) = {} /\ Teams!Ids({"drop item", "drop auth"}) = {}
    BY <2>1 DEF Teams!Ids
  <2> QED BY <2>1, <2>2 DEF Teams!PageInv
<1>2. Teams!UrlInv => Teams!UrlWasShown
  BY DEF Teams!UrlInv, Teams!UrlWasShown, Teams!Authorizations
<1> QED BY <1>1, <1>2

\* The reports are counted with their module's own instance of FiniteSets.
LEMMA CountsMatch == \A S : Report!Cardinality(S) = Cardinality(S)
  BY DEF Report!Cardinality, Cardinality

\* What stays of a list: its end.
LEMMA KeptEnd ==
  ASSUME NEW list \in Seq(Int)
  PROVE  LET n == IF Len(list) < ReportsKept THEN 0 ELSE Len(list) - ReportsKept
         IN  /\ Report!Kept(list) \in Seq(Int) /\ Len(Report!Kept(list)) = Len(list) - n
             /\ \A k \in 1..(Len(list) - n) : Report!Kept(list)[k] = list[k + n]
<1> DEFINE n == IF Len(list) < ReportsKept THEN 0 ELSE Len(list) - ReportsKept
<1>1. n \in 0..Len(list) /\ Report!Kept(list) = SubSeq(list, n + 1, Len(list))
  BY KeptReports DEF Report!Kept
<1> HIDE DEF n
<1>2. /\ SubSeq(list, n + 1, Len(list)) \in Seq(Int)
      /\ Len(SubSeq(list, n + 1, Len(list))) = Len(list) - n
      /\ \A k \in 1..(Len(list) - n) : SubSeq(list, n + 1, Len(list))[k] = list[k + n]
  BY <1>1, SubSeqProperties
<1> QED BY <1>1, <1>2 DEF n

\* Of a list that is in order, what does not stay has MaxKept others after it.
LEMMA KeptOrLater ==
  ASSUME NEW c \in Nat, NEW U \in SUBSET (1..c), NEW list \in Seq(Int),
         \A k \in 1..Len(list) : list[k] \in U,
         \A k, l \in 1..Len(list) : k < l => list[k] < list[l],
         NEW i \in Report!Range(list)
  PROVE  i \in Report!Range(Report!Kept(list)) \/ Cardinality({j \in (i + 1)..c : j \in U}) >= ReportsKept
<1> DEFINE n == IF Len(list) < ReportsKept THEN 0 ELSE Len(list) - ReportsKept
           L == {j \in (i + 1)..c : j \in U}
<1>1. PICK k \in 1..Len(list) : list[k] = i
  BY DEF Report!Range
<1>2. n \in 0..Len(list) /\ (n # 0 => Len(list) = n + ReportsKept)
  BY KeptReports
<1>3. Report!Kept(list) \in Seq(Int) /\ Len(Report!Kept(list)) = Len(list) - n
      /\ \A x \in 1..(Len(list) - n) : Report!Kept(list)[x] = list[x + n]
  BY KeptEnd
<1> HIDE DEF n
<1>4. CASE k > n
  <2>1. k - n \in 1..Len(Report!Kept(list)) /\ Report!Kept(list)[k - n] = i
    BY <1>1, <1>2, <1>3, <1>4
  <2>2. DOMAIN Report!Kept(list) = 1..Len(Report!Kept(list))
    BY <1>3
  <2> QED BY <2>1, <2>2 DEF Report!Range
<1>5. CASE k <= n
  <2> DEFINE f == [x \in 1..ReportsKept |-> list[x + n]]
  <2>1. Len(list) = n + ReportsKept /\ i \in Int
    BY <1>1, <1>2, <1>5
  <2>2. ASSUME NEW x \in 1..ReportsKept PROVE list[x + n] \in L
    <3>1. x + n \in 1..Len(list) /\ k < x + n
      BY <1>1, <1>2, <1>5, <2>1, KeptReports
    <3>2. list[x + n] \in U /\ i < list[x + n]
      BY <1>1, <3>1
    <3>3. list[x + n] \in 1..c
      BY <3>2
    <3> HIDE DEF L
    <3>4. list[x + n] \in (i + 1)..c
      BY <2>1, <3>2, <3>3
    <3> QED BY <3>2, <3>4 DEF L
  <2>3. ASSUME NEW x \in 1..ReportsKept, NEW y \in 1..ReportsKept, list[x + n] = list[y + n] PROVE x = y
    <3>1. x + n \in 1..Len(list) /\ y + n \in 1..Len(list)
      BY <1>2, <2>1, KeptReports
    <3>2. ~(x + n < y + n) /\ ~(y + n < x + n)
      BY <2>3, <3>1
    <3> QED BY <1>2, <3>2
  <2>4. f \in [1..ReportsKept -> L]
    BY <2>2
  <2>5. \A x, y \in 1..ReportsKept : f[x] = f[y] => x = y
    BY <2>3
  <2> HIDE DEF f
  <2>6. f \in Injection(1..ReportsKept, L)
    BY <2>4, <2>5 DEF Injection, IsInjective
  <2>7. IsFiniteSet(L)
    <3>1. IsFiniteSet((i + 1)..c)
      BY <2>1, FS_Interval
    <3>2. L \in SUBSET ((i + 1)..c)
      OBVIOUS
    <3> QED BY <3>1, <3>2, FS_Subset
  <2>8. Cardinality(1..ReportsKept) = ReportsKept
    BY KeptReports, FS_Interval
  <2> HIDE DEF L
  <2>9. ReportsKept <= Cardinality(L)
    BY <2>6, <2>7, <2>8, FS_Injection
  <2>10. Cardinality(L) \in Nat
    BY <2>7, FS_CardinalityType
  <2>11. Cardinality(L) >= ReportsKept
    BY <2>9, <2>10, KeptReports
  <2> QED BY <2>11 DEF L
<1> QED BY <1>1, <1>2, <1>4, <1>5

\* What came later stays later.
LEMMA StaysLater ==
  ASSUME NEW B, IsFiniteSet(B), NEW A \in SUBSET B, Cardinality(A) >= ReportsKept
  PROVE  Cardinality(B) >= ReportsKept
<1>1. IsFiniteSet(A) /\ Cardinality(A) <= Cardinality(B)
  BY FS_Subset
<1>2. Cardinality(A) \in Nat /\ Cardinality(B) \in Nat
  BY <1>1, FS_CardinalityType
<1> QED BY <1>1, <1>2, KeptReports

\* An answer, or that there is none, changes how far a report is, and of nothing else.
LEMMA MovedCall ==
  ASSUME Report!Typed, NEW i \in 1..Report!Count, NEW at \in Report!At, s2' = [s2 EXCEPT ![i].at = at]
  PROVE  /\ s2' \in Seq(Report!Call) /\ Report!Count' = Report!Count /\ s2'[i].at = at
         /\ \A j \in 1..Report!Count : /\ s2'[j].user = s2[j].user
                                       /\ s2'[j].reporter = s2[j].reporter
                                       /\ s2'[j].reason = s2[j].reason
                                       /\ j # i => s2'[j].at = s2[j].at
<1>1. s2 \in Seq(Report!Call) /\ Len(s2) \in Nat /\ DOMAIN s2 = 1..Len(s2)
  BY DEF Report!Typed
<1>2. s2[i] \in Report!Call
  BY <1>1 DEF Report!Count
<1> DEFINE r == [s2[i] EXCEPT !.at = at]
<1>3. r \in Report!Call /\ r.at = at /\ r.user = s2[i].user /\ r.reporter = s2[i].reporter
      /\ r.reason = s2[i].reason
  BY <1>2 DEF Report!Call
<1>4. s2' = [s2 EXCEPT ![i] = r]
  OBVIOUS
<1> HIDE DEF r
<1>5. s2' \in Seq(Report!Call) /\ Len(s2') = Len(s2)
      /\ \A j \in 1..Len(s2) : s2'[j] = IF j = i THEN r ELSE s2[j]
  BY <1>1, <1>3, <1>4 DEF Report!Count
<1> QED BY <1>3, <1>5 DEF Report!Count

\* A report that is sent comes last.
LEMMA NewCall ==
  ASSUME Report!Typed, NEW r \in Report!Call, s2' = Append(s2, r)
  PROVE  /\ Report!Count \in Nat /\ s2' \in Seq(Report!Call) /\ Report!Count' = Report!Count + 1
         /\ s2'[Report!Count + 1] = r /\ \A j \in 1..Report!Count : s2'[j] = s2[j]
<1>1. s2 \in Seq(Report!Call) /\ Len(s2) \in Nat
  BY DEF Report!Typed
<1> QED BY <1>1 DEF Report!Count

\* A ticket is there before the visitor is told so, and none goes.
LEMMA TicketStep ==
  /\ Report!Init => Report!Typed /\ Report!TicketInv
  /\ Report!Typed /\ Report!TicketInv /\ [Report!Next]_(Report!vars) => Report!Typed' /\ Report!TicketInv'
<1>1. Report!Init => Report!Typed /\ Report!TicketInv
  BY DEF Report!Init, Report!Typed, Report!TicketInv, Report!Count
<1>2. Report!Typed /\ Report!TicketInv /\ [Report!Next]_(Report!vars) => Report!Typed' /\ Report!TicketInv'
  <2> SUFFICES ASSUME Report!Typed, Report!TicketInv, [Report!Next]_(Report!vars)
               PROVE  Report!Typed' /\ Report!TicketInv'
    OBVIOUS
  <2> DEFINE Said == {"waiting", "success", "error"}
             good(i) == /\ s2[i].reporter = IF s2[i].user THEN "key" ELSE "mail"
                        /\ s2[i].at = "201" => Report!Ticket(i) \in s3
                        /\ ~s2[i].user /\ s4[i] = "success" => Report!Ticket(i) \in s3
             goodNow(i) == /\ s2'[i].reporter = IF s2'[i].user THEN "key" ELSE "mail"
                           /\ s2'[i].at = "201" => Report!Ticket(i)' \in s3'
                           /\ ~s2'[i].user /\ s4'[i] = "success" => Report!Ticket(i)' \in s3'
  <2>1. /\ s2 \in Seq(Report!Call) /\ s4 \in Seq(Said) /\ Len(s4) = Report!Count /\ Report!Count \in Nat
        /\ \A i \in 1..Report!Count : s2[i] \in Report!Call
    BY DEF Report!Typed, Report!Count
  <2>2. (\A i \in 1..Report!Count : good(i)) /\ \A k \in s3 : k.id \in 1..Report!Count /\ k = Report!Ticket(k.id)
    BY DEF Report!TicketInv
  <2>3. ASSUME s2' \in Seq(Report!Call), s4' \in Seq(Said), Len(s4') = Report!Count',
               \A i \in 1..Report!Count' : goodNow(i), \A k \in s3' : k.id \in 1..Report!Count' /\ k = Report!Ticket(k.id)'
        PROVE  Report!Typed' /\ Report!TicketInv'
    <3>1. Report!Typed'
      BY <2>3 DEF Report!Typed
    <3>2. Report!TicketInv'
      BY <2>3 DEF Report!TicketInv
    <3> QED BY <3>1, <3>2
  <2>4. ASSUME NEW i \in 1..Report!Count, NEW at \in Report!At, s2' = [s2 EXCEPT ![i].at = at],
               s3' \in {s3, s3 \cup {Report!Ticket(i)}}, at = "201" => Report!Ticket(i) \in s3',
               s4' \in Seq(Said), Len(s4') = Report!Count,
               \A j \in 1..Report!Count : \/ s4'[j] = s4[j] \/ s4'[j] # "success"
                                          \/ j = i /\ Report!Ticket(i) \in s3
        PROVE  Report!Typed' /\ Report!TicketInv'
    <3>1. /\ s2' \in Seq(Report!Call) /\ Report!Count' = Report!Count /\ s2'[i].at = at
          /\ \A j \in 1..Report!Count : /\ s2'[j].user = s2[j].user
                                        /\ s2'[j].reporter = s2[j].reporter
                                        /\ s2'[j].reason = s2[j].reason
                                        /\ j # i => s2'[j].at = s2[j].at
      BY <2>4, MovedCall
    <3>2. \A j \in 1..Report!Count : Report!Ticket(j)' = Report!Ticket(j)
      BY <3>1 DEF Report!Ticket, Report!getPriority
    <3>3. ASSUME NEW j \in 1..Report!Count PROVE goodNow(j)
      <4>1. s3 \subseteq s3' /\ Report!Ticket(j)' = Report!Ticket(j)
        BY <2>4, <3>2
      <4>2. s2'[j].at = "201" => Report!Ticket(j)' \in s3'
        BY <2>2, <2>4, <3>1, <4>1
      <4>3. ~s2'[j].user /\ s4'[j] = "success" => Report!Ticket(j)' \in s3'
        BY <2>2, <2>4, <3>1, <4>1
      <4>4. s2'[j].reporter = IF s2'[j].user THEN "key" ELSE "mail"
        BY <2>2, <3>1
      <4> QED BY <4>2, <4>3, <4>4
    <3>4. Report!Ticket(i).id = i
      BY DEF Report!Ticket
    <3>5. ASSUME NEW k \in s3' PROVE k.id \in 1..Report!Count /\ k = Report!Ticket(k.id)'
      <4>1. k \in s3 \/ k = Report!Ticket(i)
        BY <2>4
      <4>2. k.id \in 1..Report!Count /\ k = Report!Ticket(k.id)
        BY <2>2, <3>4, <4>1
      <4> QED BY <3>2, <4>2
    <3> QED BY <2>3, <2>4, <3>1, <3>3, <3>5
  <2>5. ASSUME NEW i \in 1..Report!Count, Report!HandleReport(i) PROVE Report!Typed' /\ Report!TicketInv'
    <3>1. PICK answer \in Report!At : /\ s2' = [s2 EXCEPT ![i].at = answer]
                                      /\ s3' \in {s3, s3 \cup {Report!Ticket(i)}}
                                      /\ answer = "201" => Report!Ticket(i) \in s3'
      BY <2>5 DEF Report!HandleReport, Report!Created, Report!Refused, Report!At
    <3>2. s4' = s4
      BY <2>5 DEF Report!HandleReport
    <3> QED BY <2>1, <2>4, <3>1, <3>2
  <2>6. ASSUME NEW i \in 1..Report!Count, Report!Answered(i) PROVE Report!Typed' /\ Report!TicketInv'
    <3>1. s2' = [s2 EXCEPT ![i].at = "over"] /\ s3' = s3 /\ "over" \in Report!At
      BY <2>6 DEF Report!Answered, Report!At
    <3>2. PICK s \in Said : /\ s4' = s4 \/ s4' = [s4 EXCEPT ![i] = s]
                            /\ s = "success" => s2[i].at = "201"
      BY <2>6 DEF Report!Answered, Report!Succeeds
    <3>3. s4' \in Seq(Said) /\ Len(s4') = Report!Count /\ \A j \in 1..Report!Count : s4'[j] = s4[j] \/ (j = i /\ s4'[j] = s)
      BY <2>1, <3>2
    <3>4. \A j \in 1..Report!Count : \/ s4'[j] = s4[j] \/ s4'[j] # "success"
                                     \/ j = i /\ Report!Ticket(i) \in s3
      BY <2>2, <3>2, <3>3
    <3> QED BY <2>4, <3>1, <3>3, <3>4
  <2>7. ASSUME NEW i \in 1..Report!Count, Report!Lost(i) PROVE Report!Typed' /\ Report!TicketInv'
    <3>1. s2' = [s2 EXCEPT ![i].at = "over"] /\ s3' = s3 /\ "over" \in Report!At
      BY <2>7 DEF Report!Lost, Report!At
    <3>2. PICK s \in {"error"} : s4' = s4 \/ s4' = [s4 EXCEPT ![i] = s]
      BY <2>7 DEF Report!Lost
    <3>3. s4' \in Seq(Said) /\ Len(s4') = Report!Count /\ \A j \in 1..Report!Count : s4'[j] = s4[j] \/ (j = i /\ s4'[j] = s)
      BY <2>1, <3>2
    <3>4. \A j \in 1..Report!Count : s4'[j] = s4[j] \/ s4'[j] # "success"
      BY <3>2, <3>3
    <3> QED BY <2>4, <3>1, <3>3, <3>4
  <2>8. ASSUME NEW r \in Report!Call, NEW s \in Said, s2' = Append(s2, r), s4' = Append(s4, s),
               s3' = s3, r.at # "201", r.reporter = IF r.user THEN "key" ELSE "mail",
               r.user \/ s # "success"
        PROVE  Report!Typed' /\ Report!TicketInv'
    <3>1. /\ s2' \in Seq(Report!Call) /\ Report!Count' = Report!Count + 1
          /\ s2'[Report!Count + 1] = r /\ \A j \in 1..Report!Count : s2'[j] = s2[j]
      BY <2>8, NewCall
    <3>2. s4' \in Seq(Said) /\ Len(s4') = Report!Count + 1 /\ s4'[Report!Count + 1] = s
          /\ \A j \in 1..Report!Count : s4'[j] = s4[j]
      BY <2>1, <2>8
    <3>3. \A j \in 1..Report!Count : Report!Ticket(j)' = Report!Ticket(j)
      BY <3>1 DEF Report!Ticket, Report!getPriority
    <3>4. ASSUME NEW j \in 1..Report!Count PROVE goodNow(j)
      <4>1. good(j) /\ s2'[j] = s2[j] /\ s4'[j] = s4[j] /\ Report!Ticket(j)' = Report!Ticket(j)
        BY <2>2, <3>1, <3>2, <3>3
      <4> QED BY <2>8, <4>1
    <3>5. goodNow(Report!Count + 1)
      BY <2>8, <3>1, <3>2
    <3>6. \A j \in 1..Report!Count' : j \in 1..Report!Count \/ j = Report!Count + 1
      BY <2>1, <3>1
    <3>7. 1..Report!Count \subseteq 1..Report!Count'
      BY <2>1, <3>1
    <3>8. \A k \in s3' : k.id \in 1..Report!Count' /\ k = Report!Ticket(k.id)'
      BY <2>2, <2>8, <3>3, <3>7
    <3>9. ASSUME NEW j \in 1..Report!Count' PROVE goodNow(j)
      <4> HIDE DEF good, goodNow
      <4>1. CASE j \in 1..Report!Count
        BY <3>4, <4>1
      <4>2. CASE j = Report!Count + 1
        BY <3>5, <4>2
      <4> QED BY <3>6, <4>1, <4>2
    <3> QED BY <2>3, <3>1, <3>2, <3>8, <3>9
  <2>9. ASSUME NEW t \in Report!Tab, NEW r \in Report!Reason, Report!Report(t, r) PROVE Report!Typed' /\ Report!TicketInv'
    <3> DEFINE c == [at |-> "sent", user |-> TRUE, reporter |-> "key", reason |-> r]
    <3>1. s2' = Append(s2, c) /\ s4' = Append(s4, "success") /\ s3' = s3
      BY <2>9 DEF Report!Report
    <3>2. c \in Report!Call /\ c.at = "sent" /\ c.user /\ c.reporter = "key"
      BY DEF Report!Call, Report!At
    <3> HIDE DEF c
    <3>3. c.at # "201" /\ c.reporter = (IF c.user THEN "key" ELSE "mail") /\ "success" \in Said
      BY <3>2
    <3> QED BY <2>8, <3>1, <3>2, <3>3
  <2>10. ASSUME NEW r \in Report!Reason, NEW valid \in BOOLEAN, Report!ReportAnonymously(r, valid)
         PROVE  Report!Typed' /\ Report!TicketInv'
    <3> DEFINE c == [at |-> IF valid THEN "sent" ELSE "over", user |-> FALSE,
                     reporter |-> "mail", reason |-> r]
               s == IF valid THEN "waiting" ELSE "error"
    <3>1. s2' = Append(s2, c) /\ s4' = Append(s4, s) /\ s3' = s3
      BY <2>10 DEF Report!ReportAnonymously
    <3>2. c \in Report!Call /\ c.at # "201" /\ ~c.user /\ c.reporter = "mail"
      BY DEF Report!Call, Report!At
    <3>3. s \in Said /\ s # "success"
      OBVIOUS
    <3> HIDE DEF c, s
    <3>4. c.reporter = IF c.user THEN "key" ELSE "mail"
      BY <3>2
    <3> QED BY <2>8, <3>1, <3>2, <3>3, <3>4
  <2>11. ASSUME UNCHANGED <<s2, s4, s3>> PROVE Report!Typed' /\ Report!TicketInv'
    <3>1. \A i : Report!Ticket(i)' = Report!Ticket(i)
      BY <2>11 DEF Report!Ticket, Report!getPriority
    <3>2. Report!Count' = Report!Count
      BY <2>11 DEF Report!Count
    <3> QED BY <2>1, <2>2, <2>3, <2>11, <3>1, <3>2
  <2>12. ASSUME NEW t \in Report!Tab, Report!Open(t) \/ Report!Leave(t) PROVE Report!Typed' /\ Report!TicketInv'
    BY <2>11, <2>12 DEF Report!Open, Report!Leave
  <2>13. CASE UNCHANGED Report!vars
    BY <2>11, <2>13 DEF Report!vars
  <2>14. \A i \in Report!Id : Report!HandleReport(i) \/ Report!Answered(i) \/ Report!Lost(i) => i \in 1..Report!Count
    BY DEF Report!HandleReport, Report!Answered, Report!Lost
  <2> QED BY <2>5, <2>6, <2>7, <2>9, <2>10, <2>12, <2>13, <2>14 DEF Report!Next
<1> QED BY <1>1, <1>2

\* What a visitor is told, a ticket is in the name of the e-mail; and a user's is the key's.
LEMMA TicketsShow == Report!TicketInv => Report!SentIsTicket
<1> SUFFICES ASSUME Report!TicketInv, NEW i \in 1..Report!Count
             PROVE  /\ ~s2[i].user /\ s4[i] = "success" =>
                         \E k \in s3 :
                           k = [id |-> i, requester |-> "mail", priority |-> Report!getPriority(s2[i].reason)]
                    /\ \A k \in s3 : k.id = i /\ s2[i].user => k.requester = "key"
  BY DEF Report!SentIsTicket
<1>1. s2[i].reporter = IF s2[i].user THEN "key" ELSE "mail"
  BY DEF Report!TicketInv
<1>2. ~s2[i].user /\ s4[i] = "success" =>
        Report!Ticket(i) \in s3
  BY DEF Report!TicketInv
<1>3. \A k \in s3 : k.id = i => k = Report!Ticket(i)
  BY DEF Report!TicketInv
<1>4. Report!Ticket(i).requester = s2[i].reporter
  BY DEF Report!Ticket
<1>5. ~s2[i].user => Report!Ticket(i) = [id |-> i, requester |-> "mail", priority |-> Report!getPriority(s2[i].reason)]
  BY <1>1 DEF Report!Ticket
<1>6. \A k \in s3 : k.id = i /\ s2[i].user => k.requester = "key"
  BY <1>1, <1>3, <1>4
<1>7. ~s2[i].user /\ s4[i] = "success" =>
        \E k \in s3 : k = [id |-> i, requester |-> "mail", priority |-> Report!getPriority(s2[i].reason)]
  BY <1>2, <1>5
<1> QED BY <1>6, <1>7

\* The list keeps what it must: what it drops has MaxKept after it, and a tab that has made
\* a report does not think that what it has read is fresh.
LEMMA HistoryStep ==
  /\ Report!Init => Report!ListInv
  /\ Report!Typed /\ Report!ListInv /\ [Report!Next]_(Report!vars) => Report!ListInv'
<1>1. Report!Init => Report!ListInv
  BY KeptReports DEF Report!Init, Report!ListInv, Report!Range, Report!Count
<1>2. Report!Typed /\ Report!ListInv /\ [Report!Next]_(Report!vars) => Report!ListInv'
  <2> SUFFICES ASSUME Report!Typed, Report!ListInv, [Report!Next]_(Report!vars)
               PROVE  Report!ListInv'
    OBVIOUS
  <2> DEFINE Users == {j \in 1..Report!Count : s2[j].user}
             d == Report!Count'
             UsersNow == {j \in 1..d : s2'[j].user}
             has(list, i) == i \in Report!Range(list) \/ Cardinality({j \in (i + 1)..Report!Count : j \in Users}) >= ReportsKept
             hasNow(list, i) == i \in Report!Range(list) \/ Cardinality({j \in (i + 1)..d : j \in UsersNow}) >= ReportsKept
  <2>1. Report!Count \in Nat /\ s5 \in Seq(Int) /\ Len(s5) <= ReportsKept
        /\ \A k, l \in 1..Len(s5) : k < l => s5[k] < s5[l]
    BY DEF Report!Typed, Report!Count, Report!ListInv
  <2>2. \A k \in 1..Len(s5) : s5[k] \in Users
    BY DEF Report!ListInv
  <2>3. s9 \in [Report!Tab -> Seq(Int)] /\ s7 \in [Report!Tab -> BOOLEAN] /\ DOMAIN s6 = Report!Tab
        /\ s8 \subseteq {t \in Report!Tab : s7[t]}
    BY DEF Report!ListInv
  <2>4. \A i \in 1..Report!Count : Report!Later(i) = {j \in (i + 1)..Report!Count : j \in Users}
    BY <2>1 DEF Report!Later
  <2>5. ASSUME d \in Nat
        PROVE  \A i \in 1..d : Report!Later(i)' = {j \in (i + 1)..d : j \in UsersNow}
    BY <2>5 DEF Report!Later
  <2>6. \A t \in Report!Tab : \A i \in Report!Range(s9[t]) : i \in 1..Report!Count /\ has(s5, i)
    BY <2>4, CountsMatch DEF Report!ListInv, Report!Has
  <2>7. \A t \in Report!Tab : s7[t] => \A i \in Report!Range(s9[t]) : has(s6[t], i)
    BY <2>4, <2>6, CountsMatch DEF Report!ListInv, Report!Has
  <2>8. ASSUME d \in Nat,
               s5' \in Seq(Int), Len(s5') <= ReportsKept,
               \A k \in 1..Len(s5') : s5'[k] \in UsersNow,
               \A k, l \in 1..Len(s5') : k < l => s5'[k] < s5'[l],
               s9' \in [Report!Tab -> Seq(Int)], s7' \in [Report!Tab -> BOOLEAN], DOMAIN s6' = Report!Tab,
               s8' \subseteq {t \in Report!Tab : s7'[t]},
               \A t \in Report!Tab : \A i \in Report!Range(s9'[t]) : i \in 1..d /\ hasNow(s5', i),
               \A t \in Report!Tab : s7'[t] => \A i \in Report!Range(s9'[t]) : hasNow(s6'[t], i)
        PROVE  Report!ListInv'
    <3>1. \A t \in Report!Tab : \A i \in Report!Range(s9'[t]) : i \in 1..d /\ Report!Has(s5, i)'
      BY <2>5, <2>8, CountsMatch DEF Report!Has
    <3>2. \A t \in Report!Tab : s7'[t] => \A i \in Report!Range(s9'[t]) : Report!Has(s6[t], i)'
      BY <2>5, <2>8, CountsMatch DEF Report!Has
    <3>3. \A k \in 1..Len(s5') : s5'[k] \in 1..d /\ s2'[s5'[k]].user
      BY <2>8
    <3>4. Report!ListInv' <=>
            /\ s5' \in Seq(Int) /\ Len(s5') <= ReportsKept
            /\ \A k \in 1..Len(s5') : s5'[k] \in 1..d /\ s2'[s5'[k]].user
            /\ \A k, l \in 1..Len(s5') : k < l => s5'[k] < s5'[l]
            /\ s9' \in [Report!Tab -> Seq(Int)] /\ s7' \in [Report!Tab -> BOOLEAN] /\ DOMAIN s6' = Report!Tab
            /\ \A t \in Report!Tab : \A i \in Report!Range(s9'[t]) : i \in 1..d /\ Report!Has(s5, i)'
            /\ \A t \in Report!Tab : s7'[t] => \A i \in Report!Range(s9'[t]) : Report!Has(s6[t], i)'
            /\ s8' \subseteq {t \in Report!Tab : s7'[t]}
      BY DEF Report!ListInv, Report!Range
    <3> QED BY <2>8, <3>1, <3>2, <3>3, <3>4
  <2>9. ASSUME d \in Nat, Report!Count <= d, Users \subseteq UsersNow, NEW i \in 1..Report!Count,
               Cardinality({j \in (i + 1)..Report!Count : j \in Users}) >= ReportsKept
        PROVE  Cardinality({j \in (i + 1)..d : j \in UsersNow}) >= ReportsKept
    <3> DEFINE A == {j \in (i + 1)..Report!Count : j \in Users}
               B == {j \in (i + 1)..d : j \in UsersNow}
    <3>1. Report!Count \in Int /\ d \in Int /\ i \in Int
      BY <2>1, <2>9
    <3> HIDE DEF d, Users, UsersNow
    <3>2. A \in SUBSET B
      BY <2>9, <3>1
    <3>3. B \in SUBSET ((i + 1)..d) /\ IsFiniteSet((i + 1)..d)
      BY <3>1, FS_Interval
    <3>4. IsFiniteSet(B)
      BY <3>3, FS_Subset
    <3>5. Cardinality(A) >= ReportsKept
      BY <2>9
    <3> HIDE DEF A, B
    <3>6. Cardinality(B) >= ReportsKept
      BY <3>2, <3>4, <3>5, StaysLater
    <3> QED BY <3>6 DEF B
  <2>10. ASSUME d \in Nat, Report!Count <= d, Users \subseteq UsersNow,
                UNCHANGED <<s5, s6, s7, s9, s8>>
         PROVE  Report!ListInv'
    <3>1. 1..Report!Count \subseteq 1..d
      BY <2>1, <2>10
    <3>2. \A t \in Report!Tab : \A i \in Report!Range(s9[t]) : i \in 1..d /\ hasNow(s5, i)
      BY <2>6, <2>9, <2>10, <3>1
    <3>3. \A t \in Report!Tab : s7[t] => \A i \in Report!Range(s9[t]) : hasNow(s6[t], i)
      BY <2>6, <2>7, <2>9, <2>10
    <3>4. \A k \in 1..Len(s5) : s5[k] \in UsersNow
      BY <2>2, <2>10
    <3> HIDE DEF d, UsersNow, hasNow
    <3>5. /\ \A t \in Report!Tab : \A i \in Report!Range(s9'[t]) : i \in 1..d /\ hasNow(s5', i)
          /\ \A t \in Report!Tab : s7'[t] => \A i \in Report!Range(s9'[t]) : hasNow(s6'[t], i)
      BY <2>10, <3>2, <3>3
    <3> QED BY <2>1, <2>3, <2>8, <2>10, <3>4, <3>5
  <2>11. ASSUME NEW i \in 1..Report!Count, NEW at \in Report!At, s2' = [s2 EXCEPT ![i].at = at],
                UNCHANGED <<s5, s6, s7, s9, s8>>
         PROVE  Report!ListInv'
    <3>1. d = Report!Count /\ \A j \in 1..Report!Count : s2'[j].user = s2[j].user
      BY <2>11, MovedCall
    <3> QED BY <2>1, <2>10, <2>11, <3>1
  <2>12. ASSUME NEW i \in 1..Report!Count, Report!HandleReport(i) \/ Report!Answered(i) \/ Report!Lost(i) PROVE Report!ListInv'
    <3>1. \E at \in Report!At : s2' = [s2 EXCEPT ![i].at = at]
      BY <2>12 DEF Report!HandleReport, Report!Answered, Report!Lost, Report!Created,
                   Report!Refused, Report!At
    <3>2. UNCHANGED <<s5, s6, s7, s9, s8>>
      BY <2>12 DEF Report!HandleReport, Report!Answered, Report!Lost
    <3> QED BY <2>11, <3>1, <3>2
  <2>13. ASSUME NEW r \in Report!Reason, NEW valid \in BOOLEAN, Report!ReportAnonymously(r, valid) PROVE Report!ListInv'
    <3> DEFINE c == [at |-> IF valid THEN "sent" ELSE "over", user |-> FALSE,
                     reporter |-> "mail", reason |-> r]
    <3>1. s2' = Append(s2, c) /\ c \in Report!Call /\ UNCHANGED <<s5, s6, s7, s9, s8>>
      BY <2>13 DEF Report!ReportAnonymously, Report!Call, Report!At
    <3> HIDE DEF c
    <3>2. d = Report!Count + 1 /\ \A j \in 1..Report!Count : s2'[j] = s2[j]
      BY <3>1, NewCall
    <3>3. Users \subseteq UsersNow /\ d \in Nat /\ Report!Count <= d
      BY <2>1, <3>2
    <3> QED BY <2>10, <3>1, <3>3
  <2>14. ASSUME NEW t \in Report!Tab, NEW r \in Report!Reason, Report!Report(t, r) PROVE Report!ListInv'
    <3> DEFINE c == [at |-> "sent", user |-> TRUE, reporter |-> "key", reason |-> r]
               new == Append(s5, Report!Count + 1)
    <3>1. s2' = Append(s2, c) /\ c \in Report!Call /\ c.user
      BY <2>14 DEF Report!Report, Report!Call, Report!At
    <3>2. /\ s5' = Report!Kept(new) /\ s9' = [s9 EXCEPT ![t] = Append(@, Report!Count + 1)]
          /\ s7' = [s7 EXCEPT ![t] = FALSE] /\ UNCHANGED <<s6, s8>> /\ t \notin s8
      BY <2>14 DEF Report!Report, Report!Renewed
    <3> HIDE DEF c
    <3>3. d = Report!Count + 1 /\ (\A j \in 1..Report!Count : s2'[j] = s2[j]) /\ s2'[Report!Count + 1].user
      BY <3>1, NewCall
    <3>4. d \in Nat /\ Report!Count <= d /\ Users \subseteq UsersNow /\ Report!Count + 1 \in UsersNow
      BY <2>1, <3>3
    <3>5. /\ new \in Seq(Int) /\ Len(new) = Len(s5) + 1 /\ new[Len(s5) + 1] = Report!Count + 1
          /\ Len(s5) \in Nat /\ \A k \in 1..Len(s5) : new[k] = s5[k]
      BY <2>1
    <3> HIDE DEF new
    <3>6. \A k \in 1..Len(new) : k \in 1..Len(s5) \/ k = Len(s5) + 1
      BY <3>5
    <3>7. ASSUME NEW k \in 1..Len(new) PROVE new[k] \in UsersNow
      BY <2>2, <3>4, <3>5, <3>6
    <3>8. ASSUME NEW k \in 1..Len(new), NEW l \in 1..Len(new), k < l PROVE new[k] < new[l]
      <4>1. k \in 1..Len(s5)
        BY <3>5, <3>8
      <4>2. s5[k] \in 1..Report!Count
        BY <2>2, <4>1
      <4>3. CASE l \in 1..Len(s5)
        BY <2>1, <3>5, <3>8, <4>1, <4>3
      <4>4. CASE l = Len(s5) + 1
        BY <2>1, <3>5, <4>1, <4>2, <4>4
      <4> QED BY <3>6, <4>3, <4>4
    <3>9. Report!Range(s5) \cup {Report!Count + 1} \subseteq Report!Range(new)
      <4>1. DOMAIN new = 1..Len(new) /\ DOMAIN s5 = 1..Len(s5)
        BY <2>1, <3>5
      <4>2. 1..Len(s5) \subseteq 1..Len(new) /\ Len(s5) + 1 \in 1..Len(new)
        BY <3>5
      <4> QED BY <3>5, <4>1, <4>2 DEF Report!Range
    <3>10. ASSUME NEW i \in Report!Range(new) PROVE hasNow(s5', i)
      <4>1. UsersNow \in SUBSET (1..d)
        OBVIOUS
      <4> HIDE DEF d, UsersNow
      <4> QED BY <3>2, <3>4, <3>5, <3>7, <3>8, <3>10, <4>1, KeptOrLater
    <3>11. ASSUME NEW u \in Report!Tab, NEW i \in Report!Range(s9'[u]) PROVE i \in Report!Range(s9[u]) \/ (u = t /\ i = Report!Count + 1)
      <4>1. CASE u # t
        BY <2>3, <3>2, <3>11, <4>1
      <4>2. CASE u = t
        <5>1. s9[t] \in Seq(Int) /\ s9'[u] = Append(s9[t], Report!Count + 1)
          BY <2>3, <3>2, <4>2
        <5>2. PICK k \in DOMAIN Append(s9[t], Report!Count + 1) : Append(s9[t], Report!Count + 1)[k] = i
          BY <3>11, <5>1 DEF Report!Range
        <5>3. DOMAIN s9[t] = 1..Len(s9[t]) /\ Len(s9[t]) \in Nat
              /\ (k \in 1..Len(s9[t]) \/ k = Len(s9[t]) + 1)
          BY <2>1, <5>1
        <5>4. CASE k \in 1..Len(s9[t])
          BY <4>2, <5>1, <5>2, <5>3, <5>4, <2>1 DEF Report!Range
        <5>5. CASE k = Len(s9[t]) + 1
          BY <4>2, <5>1, <5>2, <5>3, <5>5, <2>1
        <5> QED BY <5>3, <5>4, <5>5
      <4> QED BY <4>1, <4>2
    <3>12. ASSUME NEW u \in Report!Tab, NEW i \in Report!Range(s9'[u]) PROVE i \in 1..d /\ hasNow(s5', i)
      <4>1. CASE i \in Report!Range(s9[u])
        <5>1. i \in 1..Report!Count /\ has(s5, i)
          BY <2>6, <4>1
        <5>2. i \in 1..d
          BY <2>1, <3>3, <5>1
        <5>3. i \in Report!Range(s5) => hasNow(s5', i)
          BY <3>9, <3>10
        <5>4. i \notin Report!Range(s5) => hasNow(s5', i)
          BY <2>9, <3>4, <5>1
        <5> QED BY <5>2, <5>3, <5>4
      <4>2. CASE i = Report!Count + 1
        BY <2>1, <3>3, <3>9, <3>10, <4>2
      <4> QED BY <3>11, <3>12, <4>1, <4>2
    <3>13. ASSUME NEW u \in Report!Tab, s7'[u], NEW i \in Report!Range(s9'[u]) PROVE hasNow(s6'[u], i)
      <4>1. u # t /\ s7[u] /\ s9'[u] = s9[u]
        BY <2>3, <3>2, <3>13
      <4>2. i \in 1..Report!Count /\ has(s6[u], i) /\ s6' = s6
        BY <2>6, <2>7, <3>2, <3>13, <4>1
      <4> QED BY <2>9, <3>4, <4>2
    <3>14. s9' \in [Report!Tab -> Seq(Int)] /\ s7' \in [Report!Tab -> BOOLEAN] /\ DOMAIN s6' = Report!Tab
          /\ s8' \subseteq {u \in Report!Tab : s7'[u]}
      <4>1. s9[t] \in Seq(Int) /\ Append(s9[t], Report!Count + 1) \in Seq(Int)
        BY <2>1, <2>3
      <4> QED BY <2>3, <3>2, <4>1
    <3> DEFINE n == IF Len(new) < ReportsKept THEN 0 ELSE Len(new) - ReportsKept
    <3>15. /\ Report!Kept(new) \in Seq(Int) /\ Len(Report!Kept(new)) = Len(new) - n
           /\ \A k \in 1..(Len(new) - n) : Report!Kept(new)[k] = new[k + n]
      BY <3>5, KeptEnd
    <3>16. n \in 0..Len(new) /\ Len(new) - n <= ReportsKept
      BY <3>5, KeptReports
    <3> HIDE DEF n
    <3>17. \A k \in 1..Len(s5') : k + n \in 1..Len(new) /\ s5'[k] = new[k + n]
      BY <3>2, <3>5, <3>15, <3>16
    <3>18. s5' \in Seq(Int) /\ Len(s5') <= ReportsKept
      BY <3>2, <3>15, <3>16
    <3>19. \A k \in 1..Len(s5') : s5'[k] \in UsersNow
      BY <3>7, <3>17
    <3>20. \A k, l \in 1..Len(s5') : k < l => s5'[k] < s5'[l]
      <4> SUFFICES ASSUME NEW k \in 1..Len(s5'), NEW l \in 1..Len(s5'), k < l
                   PROVE  s5'[k] < s5'[l]
        OBVIOUS
      <4>1. k + n < l + n
        BY <3>16
      <4> QED BY <3>8, <3>17, <4>1
    <3> HIDE DEF d, UsersNow, hasNow
    <3> QED BY <2>8, <3>4, <3>12, <3>13, <3>14, <3>18, <3>19, <3>20
  <2>15. ASSUME NEW t \in Report!Tab, Report!Open(t) PROVE Report!ListInv'
    <3>1. /\ s6' = [s6 EXCEPT ![t] = IF s7[t] THEN @ ELSE s5]
          /\ s7' = [s7 EXCEPT ![t] = TRUE] /\ s8' = s8 \cup {t}
          /\ UNCHANGED <<s2, s5, s9>>
      BY <2>15 DEF Report!Open
    <3>2. d = Report!Count /\ UsersNow = Users
      BY <3>1 DEF Report!Count
    <3>3. /\ s7' \in [Report!Tab -> BOOLEAN] /\ DOMAIN s6' = Report!Tab
          /\ s8' \subseteq {u \in Report!Tab : s7'[u]}
      BY <2>3, <3>1
    <3>4. ASSUME NEW u \in Report!Tab, s7'[u], NEW i \in Report!Range(s9[u]) PROVE has(s6'[u], i)
      <4>1. s6'[u] = s5 \/ (s6'[u] = s6[u] /\ s7[u])
        BY <2>3, <3>1, <3>4
      <4> HIDE DEF has
      <4>2. has(s5, i) /\ (s7[u] => has(s6[u], i))
        BY <2>6, <2>7, <3>4
      <4> QED BY <4>1, <4>2
    <3>5. \A l, i : has(l, i) <=> hasNow(l, i)
      BY <3>2
    <3>6. \A k \in 1..Len(s5) : s5[k] \in UsersNow
      BY <2>2, <3>2
    <3>7. d \in Nat
      BY <2>1, <3>2
    <3> HIDE DEF d, has, hasNow, UsersNow
    <3>8. /\ \A u \in Report!Tab : \A i \in Report!Range(s9'[u]) : i \in 1..d /\ hasNow(s5', i)
          /\ \A u \in Report!Tab : s7'[u] => \A i \in Report!Range(s9'[u]) : hasNow(s6'[u], i)
      BY <2>6, <3>1, <3>2, <3>4, <3>5
    <3> QED BY <2>1, <2>3, <2>8, <3>1, <3>3, <3>6, <3>7, <3>8
  <2>16. ASSUME NEW t \in Report!Tab, Report!Leave(t) PROVE Report!ListInv'
    <3>1. s8' \subseteq s8 /\ UNCHANGED <<s2, s5, s9, s6, s7>>
      BY <2>16 DEF Report!Leave
    <3>2. d = Report!Count /\ UsersNow = Users
      BY <3>1 DEF Report!Count
    <3>3. \A l, i : has(l, i) <=> hasNow(l, i)
      BY <3>2
    <3>4. \A k \in 1..Len(s5) : s5[k] \in UsersNow
      BY <2>2, <3>2
    <3>5. d \in Nat
      BY <2>1, <3>2
    <3> HIDE DEF d, has, hasNow, UsersNow
    <3>6. /\ \A u \in Report!Tab : \A i \in Report!Range(s9'[u]) : i \in 1..d /\ hasNow(s5', i)
          /\ \A u \in Report!Tab : s7'[u] => \A i \in Report!Range(s9'[u]) : hasNow(s6'[u], i)
      BY <2>6, <2>7, <3>1, <3>2, <3>3
    <3>7. s8' \subseteq {u \in Report!Tab : s7'[u]}
      BY <2>3, <3>1
    <3> QED BY <2>1, <2>3, <2>8, <3>1, <3>4, <3>5, <3>6, <3>7
  <2>17. CASE UNCHANGED Report!vars
    <3>1. d = Report!Count /\ UsersNow = Users
      BY <2>17 DEF Report!vars, Report!Count
    <3> QED BY <2>1, <2>10, <2>17, <3>1 DEF Report!vars
  <2>18. \A i \in Report!Id : Report!HandleReport(i) \/ Report!Answered(i) \/ Report!Lost(i) => i \in 1..Report!Count
    BY DEF Report!HandleReport, Report!Answered, Report!Lost
  <2> QED BY <2>12, <2>13, <2>14, <2>15, <2>16, <2>17, <2>18 DEF Report!Next
<1> QED BY <1>1, <1>2

LEMMA HistoryShows == Report!ListInv => Report!HistoryIsShown
  BY DEF Report!ListInv, Report!HistoryIsShown

\* PageIsServers for any users, things made and reports: the list is being read, or is what
\* the server has, as long as one thing is done after another (ReadInv, the dashboard) or
\* whatever is under way (ListInv, the support admins; PageInv, the teams); and the history
\* drops a report only when as many were made after it (useReportHistory).
THEOREM PageIsServersHolds == Spec => []PageIsServers
<1> DEFINE SInv == part = "Session" => Session!SessionInv /\ Session!HomeInv /\ Session!ReadInv
           AInv == part = "Admin" => Admin!Typed /\ Admin!ListInv
           TInv == part = "Teams" => Teams!Typed /\ Teams!PageInv
           RInv == part = "Report" => Report!Typed /\ Report!TicketInv /\ Report!ListInv
<1>1. Init => SInv
  <2> SUFFICES ASSUME Init, part = "Session" PROVE Session!SessionInv /\ Session!HomeInv /\ Session!ReadInv
    OBVIOUS
  <2>1. Session!Init
    BY DEF Init
  <2> QED BY <2>1, SessionHolds, HomeHolds, ReadHolds
<1>2. Init => AInv
  <2> SUFFICES ASSUME Init, part = "Admin" PROVE Admin!Typed /\ Admin!ListInv
    OBVIOUS
  <2>1. Admin!Init
    BY DEF Init
  <2> QED BY <2>1, AdminTyped, ListStep
<1>3. Init => TInv
  <2> SUFFICES ASSUME Init, part = "Teams" PROVE Teams!Typed /\ Teams!PageInv
    OBVIOUS
  <2>1. Teams!Init
    BY DEF Init
  <2> QED BY <2>1, TeamsTyped, PageStep
<1>4. Init => RInv
  <2> SUFFICES ASSUME Init, part = "Report" PROVE Report!Typed /\ Report!TicketInv /\ Report!ListInv
    OBVIOUS
  <2>1. Report!Init
    BY DEF Init
  <2> QED BY <2>1, TicketStep, HistoryStep
<1>5. SInv /\ [Next]_vars => SInv'
  <2> SUFFICES ASSUME SInv, [Next]_vars, part' = "Session"
               PROVE  (Session!SessionInv /\ Session!HomeInv /\ Session!ReadInv)'
    OBVIOUS
  <2>1. part = "Session" /\ [Session!Next]_(Session!vars)
    BY DEF Next, vars, Session!vars
  <2> QED BY <2>1, SessionHolds, HomeHolds, ReadHolds
<1>6. AInv /\ [Next]_vars => AInv'
  <2> SUFFICES ASSUME AInv, [Next]_vars, part' = "Admin"
               PROVE  (Admin!Typed /\ Admin!ListInv)'
    OBVIOUS
  <2>1. part = "Admin" /\ [Admin!Next]_(Admin!vars)
    BY DEF Next, vars, Admin!vars
  <2> QED BY <2>1, AdminTyped, ListStep
<1>7. TInv /\ [Next]_vars => TInv'
  <2> SUFFICES ASSUME TInv, [Next]_vars, part' = "Teams"
               PROVE  (Teams!Typed /\ Teams!PageInv)'
    OBVIOUS
  <2>1. part = "Teams" /\ [Teams!Next]_(Teams!vars)
    BY DEF Next, vars, Teams!vars
  <2> QED BY <2>1, TeamsTyped, PageStep
<1>8. RInv /\ [Next]_vars => RInv'
  <2> SUFFICES ASSUME RInv, [Next]_vars, part' = "Report"
               PROVE  (Report!Typed /\ Report!TicketInv /\ Report!ListInv)'
    OBVIOUS
  <2>1. part = "Report" /\ [Report!Next]_(Report!vars)
    BY DEF Next, vars, Report!vars
  <2> QED BY <2>1, TicketStep, HistoryStep
<1>9. SInv => (part = "Session" => Session!ListIsServers)
  BY ListShows
<1>10. AInv => (part = "Admin" => Admin!AdminsAreListed)
  BY AdminShows
<1>11. TInv => (part = "Teams" => Teams!PageIsServers)
  BY TeamsShow
<1>12. RInv => (part = "Report" => Report!HistoryIsShown)
  BY HistoryShows
<1>13. SInv /\ AInv /\ TInv /\ RInv => PageIsServers
  BY <1>9, <1>10, <1>11, <1>12 DEF PageIsServers
<1> QED BY <1>1, <1>2, <1>3, <1>4, <1>5, <1>6, <1>7, <1>8, <1>13, PTL DEF Spec

\* SecretIsShownOnce for any users, things made and acts: by LinkInv a link that is on its
\* way is of the user who was asked for, by UrlInv an authorization that was not shown yet
\* is on its way to the page, or the page is gone.
THEOREM SecretIsShownOnceHolds == Spec => []SecretIsShownOnce
<1> DEFINE AInv == part = "Admin" => Admin!Typed /\ Admin!LinkInv
           TInv == part = "Teams" => Teams!Typed /\ Teams!UrlInv
<1>1. Init => AInv
  <2> SUFFICES ASSUME Init, part = "Admin" PROVE Admin!Typed /\ Admin!LinkInv
    OBVIOUS
  <2>1. Admin!Init
    BY DEF Init
  <2> QED BY <2>1, AdminTyped, LinkStep
<1>2. Init => TInv
  <2> SUFFICES ASSUME Init, part = "Teams" PROVE Teams!Typed /\ Teams!UrlInv
    OBVIOUS
  <2>1. Teams!Init
    BY DEF Init
  <2> QED BY <2>1, TeamsTyped, UrlStep
<1>3. AInv /\ [Next]_vars => AInv'
  <2> SUFFICES ASSUME AInv, [Next]_vars, part' = "Admin"
               PROVE  (Admin!Typed /\ Admin!LinkInv)'
    OBVIOUS
  <2>1. part = "Admin" /\ [Admin!Next]_(Admin!vars)
    BY DEF Next, vars, Admin!vars
  <2> QED BY <2>1, AdminTyped, LinkStep
<1>4. TInv /\ [Next]_vars => TInv'
  <2> SUFFICES ASSUME TInv, [Next]_vars, part' = "Teams"
               PROVE  (Teams!Typed /\ Teams!UrlInv)'
    OBVIOUS
  <2>1. part = "Teams" /\ [Teams!Next]_(Teams!vars)
    BY DEF Next, vars, Teams!vars
  <2> QED BY <2>1, TeamsTyped, UrlStep
<1>5. AInv => (part = "Admin" => Admin!LinkIsOfTheUser)
  BY AdminShows
<1>6. TInv => (part = "Teams" => Teams!UrlWasShown)
  BY TeamsShow
<1>7. AInv /\ TInv => SecretIsShownOnce
  BY <1>5, <1>6 DEF SecretIsShownOnce
<1> QED BY <1>1, <1>2, <1>3, <1>4, <1>7, PTL DEF Spec

-----------------------------------------------------------------------------
\* A queue that is cut in two has what it had.
LEMMA CutQueue ==
  ASSUME NEW q \in Seq(Crawl!Event), NEW n \in 0..Len(q)
  PROVE  /\ SubSeq(q, 1, n) \in Seq(Crawl!Event) /\ SubSeq(q, n + 1, Len(q)) \in Seq(Crawl!Event)
         /\ Crawl!Range(q) \subseteq Crawl!Range(SubSeq(q, 1, n)) \cup Crawl!Range(SubSeq(q, n + 1, Len(q)))
<1> DEFINE a == SubSeq(q, 1, n)
           b == SubSeq(q, n + 1, Len(q))
<1>1. /\ a \in Seq(Crawl!Event) /\ Len(a) = n /\ b \in Seq(Crawl!Event) /\ Len(b) = Len(q) - n
      /\ \A i \in 1..n : a[i] = q[i]
      /\ \A i \in 1..(Len(q) - n) : b[i] = q[n + i]
  OBVIOUS
<1> HIDE DEF a, b
<1>2. ASSUME NEW i \in 1..Len(q) PROVE q[i] \in Crawl!Range(a) \cup Crawl!Range(b)
  <2>1. CASE i <= n
    <3>1. i \in DOMAIN a /\ a[i] = q[i]
      BY <1>1, <2>1
    <3> QED BY <3>1 DEF Crawl!Range
  <2>2. CASE i > n
    <3>1. i - n \in 1..(Len(q) - n) /\ n + (i - n) = i
      BY <2>2
    <3>2. i - n \in DOMAIN b /\ b[i - n] = q[i]
      BY <1>1, <3>1
    <3> QED BY <3>2 DEF Crawl!Range
  <2> QED BY <2>1, <2>2
<1> QED BY <1>1, <1>2 DEF Crawl!Range, a, b

\* A batch that is put before the queue loses nothing.
LEMMA JoinQueue ==
  ASSUME NEW a \in Seq(Crawl!Event), NEW b \in Seq(Crawl!Event)
  PROVE  a \o b \in Seq(Crawl!Event) /\ Crawl!Range(a) \cup Crawl!Range(b) \subseteq Crawl!Range(a \o b)
<1> DEFINE q == a \o b
<1>1. /\ q \in Seq(Crawl!Event) /\ Len(q) = Len(a) + Len(b)
      /\ \A i \in 1..Len(a) : q[i] = a[i]
      /\ \A i \in 1..Len(b) : q[Len(a) + i] = b[i]
  OBVIOUS
<1> HIDE DEF q
<1>2. DOMAIN q = 1..(Len(a) + Len(b)) /\ Len(a) \in Nat /\ Len(b) \in Nat
  BY <1>1
<1>3. ASSUME NEW i \in 1..Len(a) PROVE a[i] \in Crawl!Range(q)
  <2>1. i \in DOMAIN q /\ q[i] = a[i]
    BY <1>1, <1>2
  <2> QED BY <2>1 DEF Crawl!Range
<1>4. ASSUME NEW i \in 1..Len(b) PROVE b[i] \in Crawl!Range(q)
  <2>1. Len(a) + i \in DOMAIN q /\ q[Len(a) + i] = b[i]
    BY <1>1, <1>2
  <2> QED BY <2>1 DEF Crawl!Range
<1>5. DOMAIN a = 1..Len(a) /\ DOMAIN b = 1..Len(b)
  OBVIOUS
<1>6. Crawl!Range(a) \subseteq Crawl!Range(q) /\ Crawl!Range(b) \subseteq Crawl!Range(q)
  BY <1>3, <1>4, <1>5 DEF Crawl!Range
<1> QED BY <1>1, <1>6 DEF q

\* What is queued is added.
LEMMA AddToQueue ==
  ASSUME NEW q \in Seq(Crawl!Event), NEW e \in Crawl!Event
  PROVE  Append(q, e) \in Seq(Crawl!Event) /\ Crawl!Range(q) \cup {e} \subseteq Crawl!Range(Append(q, e))
<1> DEFINE a == Append(q, e)
<1>1. /\ a \in Seq(Crawl!Event) /\ Len(a) = Len(q) + 1 /\ a[Len(q) + 1] = e
      /\ \A i \in 1..Len(q) : a[i] = q[i]
  OBVIOUS
<1> HIDE DEF a
<1>2. ASSUME NEW i \in 1..Len(q) PROVE q[i] \in Crawl!Range(a)
  BY <1>1 DEF Crawl!Range
<1>3. e \in Crawl!Range(a)
  <2>1. Len(q) + 1 \in DOMAIN a
    BY <1>1
  <2> QED BY <1>1, <2>1 DEF Crawl!Range
<1> QED BY <1>1, <1>2, <1>3 DEF Crawl!Range, a

\* What goes out with a batch stays held.
LEMMA PostedHeld ==
  ASSUME Crawl!Typed, NEW q \in Seq(Crawl!Event), NEW final \in BOOLEAN, Crawl!submitVideoBatch(q, final)
  PROVE  /\ s8' \in Seq(Crawl!Event) /\ s12' \in Int
         /\ \E s \in Crawl!Batch : /\ s9' = s9 \cup {s} /\ s.left = <<>>
                                   /\ Crawl!Range(q) \subseteq Crawl!Range(s.batch) \cup Crawl!Range(s8')
<1> DEFINE n == IF Len(q) < CrawlBatch THEN Len(q) ELSE CrawlBatch
           s == [id |-> s12, batch |-> SubSeq(q, 1, n), left |-> <<>>, final |-> final]
<1>1. n \in 0..Len(q)
  BY BatchSizes
<1>2. s8' = SubSeq(q, n + 1, Len(q)) /\ s9' = s9 \cup {s} /\ s12' = s12 + 1
  BY DEF Crawl!submitVideoBatch
<1> HIDE DEF n
<1>3. SubSeq(q, 1, n) \in Seq(Crawl!Event) /\ s8' \in Seq(Crawl!Event)
      /\ Crawl!Range(q) \subseteq Crawl!Range(SubSeq(q, 1, n)) \cup Crawl!Range(s8')
  BY <1>1, <1>2, CutQueue
<1>4. s12 \in Int
  BY DEF Crawl!Typed
<1>5. <<>> \in Seq(Crawl!Event)
  OBVIOUS
<1>6. s \in Crawl!Batch /\ s.batch = SubSeq(q, 1, n) /\ s.left = <<>>
  BY <1>3, <1>4, <1>5 DEF Crawl!Batch
<1>7. s9' = s9 \cup {s} /\ s \in Crawl!Batch /\ s.left = <<>>
      /\ Crawl!Range(q) \subseteq Crawl!Range(s.batch) \cup Crawl!Range(s8')
  BY <1>2, <1>3, <1>6
<1>8. s12' \in Int
  BY <1>2, <1>4
<1> HIDE DEF s
<1> QED BY <1>3, <1>7, <1>8

\* CrawlInv is inductive: a video leaves the queue with a batch only, a batch ends when the
\* API has it all or goes back whole, and an event is noted before its video is looked up.
LEMMA CrawlHolds ==
  /\ Crawl!Init => Crawl!CrawlInv
  /\ Crawl!CrawlInv /\ [Crawl!Next]_(Crawl!vars) => Crawl!CrawlInv'
<1>1. Crawl!Init => Crawl!CrawlInv
  <2> SUFFICES ASSUME Crawl!Init PROVE Crawl!CrawlInv
    OBVIOUS
  <2>1. s5 = [e \in Crawl!Event |-> "new"] /\ s8 = <<>> /\ s9 = {} /\ s12 = 0 /\ s6 = {}
        /\ s7 = {}
    BY DEF Crawl!Init, Crawl!Fresh
  <2>2. Crawl!Typed
    BY <2>1 DEF Crawl!Typed, Crawl!Step
  <2> QED BY <2>1, <2>2 DEF Crawl!CrawlInv, Crawl!BatchInv, Crawl!SubmittedIsAccepted,
                            Crawl!NotForgotten
<1>2. Crawl!CrawlInv /\ [Crawl!Next]_(Crawl!vars) => Crawl!CrawlInv'
  <2> SUFFICES ASSUME Crawl!CrawlInv, [Crawl!Next]_(Crawl!vars) PROVE Crawl!CrawlInv'
    OBVIOUS
  <2> DEFINE v(e) == Crawl!extractVideoData(e)
             safe(e) == \/ v(e) \in s13 \cup {Crawl!NoVideo}
                        \/ s5[e] = "video"
                        \/ \E h \in Crawl!Held : v(h) = v(e)
  <2>1. s2' = s2 /\ s1' = s1 /\ s13 \subseteq s13'
    BY DEF Crawl!Next, Crawl!vars, Crawl!Crash, Crawl!Start, Crawl!Interval, Crawl!Interrupt,
           Crawl!End, Crawl!Export, Crawl!Arrive, Crawl!LookUpEvent, Crawl!NoteEvent,
           Crawl!LookUpVideo, Crawl!SimpleLookUp, Crawl!SimpleInsert, Crawl!Fails,
           Crawl!Succeeds, Crawl!Mark, Crawl!NotMarked, Crawl!LogError, Crawl!Stop,
           Crawl!GiveUp, Crawl!Taken
  <2>2. \A e : Crawl!extractVideoData(e)' = Crawl!extractVideoData(e)
    BY <2>1 DEF Crawl!extractVideoData
  <2>3. s8 \in Seq(Crawl!Event) /\ s9 \subseteq Crawl!Batch /\ s5 \in [Crawl!Event -> Crawl!Step] /\ s12 \in Int
        /\ (s1 = "crawler" => \A e \in Crawl!Event : s5[e] # "row")
    BY DEF Crawl!CrawlInv, Crawl!Typed
  <2>4. /\ s7 \subseteq s13
        /\ \A s \in s9 : s.left # <<>> => /\ Crawl!Range(s.left) \subseteq Crawl!Range(s.batch)
                                          /\ \A e \in Crawl!Range(s.batch) : v(e) \in s13
    BY DEF Crawl!CrawlInv, Crawl!SubmittedIsAccepted, Crawl!BatchInv
  <2>5. s1 = "crawler" => \A e \in s6 \ s14 : safe(e)
    BY DEF Crawl!CrawlInv, Crawl!NotForgotten
  <2> HIDE DEF v
  <2>6. \A h : h \in Crawl!Held <=> h \in Crawl!Range(s8) \/ \E s \in s9 : h \in Crawl!Range(s.batch)
    BY DEF Crawl!Held
  <2>7. \A h : h \in Crawl!Held' <=> h \in Crawl!Range(s8') \/ \E s \in s9' : h \in Crawl!Range(s.batch)
    BY DEF Crawl!Held
  <2> DEFINE safeNow(e) == \/ v(e) \in s13' \cup {Crawl!NoVideo}
                           \/ s5'[e] = "video"
                           \/ \E h \in Crawl!Held' : v(h) = v(e)
             batchNow(s) == s.left # <<>> => /\ Crawl!Range(s.left) \subseteq Crawl!Range(s.batch)
                                             /\ \A e \in Crawl!Range(s.batch) : v(e) \in s13'
  <2> HIDE DEF safe, safeNow, batchNow
  <2>8. ASSUME Crawl!Typed', \A s \in s9' : batchNow(s), s7' \subseteq s13',
               s1 = "crawler" => \A e \in s6' \ s14' : safeNow(e)
        PROVE  Crawl!CrawlInv'
    BY <2>1, <2>2, <2>8
       DEF Crawl!CrawlInv, Crawl!BatchInv, Crawl!SubmittedIsAccepted, Crawl!NotForgotten, v,
           safeNow, batchNow
  <2>9. \A s \in s9 : batchNow(s)
    BY <2>1, <2>4 DEF batchNow
  <2>10. ASSUME NEW e, safe(e), Crawl!Held \subseteq Crawl!Held' \/ v(e) \in s13', s5'[e] = s5[e]
         PROVE  safeNow(e)
    BY <2>1, <2>10 DEF safe, safeNow
  <2>11. ASSUME Crawl!Held \subseteq Crawl!Held', UNCHANGED <<s5, s7>>, s6' = s6, s14' = s14,
                s8' \in Seq(Crawl!Event), s9' \subseteq Crawl!Batch, s12' \in Int,
                \A s \in s9' : batchNow(s)
         PROVE  Crawl!CrawlInv'
    <3>1. Crawl!Typed'
      BY <2>1, <2>3, <2>11 DEF Crawl!Typed
    <3>2. s7' \subseteq s13'
      BY <2>1, <2>4, <2>11
    <3>3. s1 = "crawler" => \A e \in s6' \ s14' : safeNow(e)
      BY <2>5, <2>10, <2>11
    <3> QED BY <2>8, <2>11, <3>1, <3>2, <3>3
  <2>12. CASE Crawl!Crash \/ Crawl!End
    <3>1. s5' = Crawl!Fresh /\ s8' = <<>> /\ s9' = {} /\ UNCHANGED <<s6, s7, s12>>
          /\ UNCHANGED s13
          /\ s14' = IF s1 = "simple" THEN {}
                    ELSE s14 \cup {e \in s6 : Crawl!extractVideoData(e) \notin s13 \cup {Crawl!NoVideo}}
      BY <2>12 DEF Crawl!Crash, Crawl!End, Crawl!Stop
    <3>2. Crawl!Typed'
      BY <3>1, <2>3 DEF Crawl!Typed, Crawl!Fresh, Crawl!Step
    <3>3. s1 = "crawler" => \A e \in s6' \ s14' : safeNow(e)
      BY <3>1 DEF safeNow, v
    <3>4. s7' \subseteq s13'
      BY <3>1, <2>4
    <3> QED BY <2>8, <3>1, <3>2, <3>3, <3>4
  <2>13. CASE Crawl!Start
    BY <2>13, <2>3, <2>6, <2>7, <2>9, <2>11 DEF Crawl!Start
  <2>14. CASE Crawl!Export
    <3>1. s1 = "simple" /\ s5' = Crawl!Fresh
          /\ UNCHANGED <<s6, s7, s8, s9, s12, s13, s14>>
      BY <2>14 DEF Crawl!Export
    <3>2. Crawl!Typed'
      BY <3>1, <2>1, <2>3 DEF Crawl!Typed, Crawl!Fresh, Crawl!Step
    <3>3. s7' \subseteq s13'
      BY <3>1, <2>4
    <3> QED BY <2>8, <2>9, <3>1, <3>2, <3>3
  <2>15. ASSUME NEW q \in Seq(Crawl!Event), NEW final \in BOOLEAN, Crawl!submitVideoBatch(q, final),
                Crawl!Range(s8) \subseteq Crawl!Range(q)
         PROVE  /\ s8' \in Seq(Crawl!Event) /\ s12' \in Int /\ s9' \subseteq Crawl!Batch
                /\ Crawl!Held \subseteq Crawl!Held' /\ Crawl!Range(q) \subseteq Crawl!Held'
                /\ \A s \in s9' : batchNow(s)
    <3>1. PICK s \in Crawl!Batch : /\ s9' = s9 \cup {s} /\ s.left = <<>>
                                   /\ Crawl!Range(q) \subseteq Crawl!Range(s.batch) \cup Crawl!Range(s8')
      BY <2>15, PostedHeld DEF Crawl!CrawlInv
    <3>2. s8' \in Seq(Crawl!Event) /\ s12' \in Int
      BY <2>15, PostedHeld DEF Crawl!CrawlInv
    <3>3. batchNow(s)
      BY <3>1 DEF batchNow
    <3>4. Crawl!Range(q) \subseteq Crawl!Held'
      BY <3>1, <2>7
    <3>5. Crawl!Held \subseteq Crawl!Held'
      BY <3>1, <3>4, <2>6, <2>7, <2>15
    <3> QED BY <2>3, <2>9, <3>1, <3>2, <3>3, <3>4, <3>5
  <2>16. CASE Crawl!Interval \/ Crawl!Interrupt
    <3>1. PICK final \in BOOLEAN : Crawl!submitVideoBatch(s8, final)
      BY <2>16 DEF Crawl!Interval, Crawl!Interrupt
    <3>2. UNCHANGED <<s5, s7, s6, s14>>
      BY <2>16 DEF Crawl!Interval, Crawl!Interrupt
    <3> QED BY <2>3, <2>11, <2>15, <3>1, <3>2
  <2>17. ASSUME NEW e \in Crawl!Event, NEW t \in Crawl!Step, Crawl!SetTask(e, t),
                s1 = "crawler" => t # "row",
                UNCHANGED <<s8, s9, s12, s7>>, s14 \subseteq s14',
                s1 = "crawler" => /\ s5[e] # "video" \/ e \in s14'
                                  /\ s6' \subseteq s6 \cup {e}
                                  /\ e \in s6' => e \in s6 \cup s14' \/ safeNow(e)
         PROVE  Crawl!CrawlInv'
    <3>1. s5' = [s5 EXCEPT ![e] = t]
      BY <2>17 DEF Crawl!SetTask
    <3>2. Crawl!Typed'
      BY <3>1, <2>1, <2>3, <2>17 DEF Crawl!Typed
    <3>3. Crawl!Held' = Crawl!Held
      BY <2>17 DEF Crawl!Held
    <3>4. ASSUME s1 = "crawler", NEW x \in Crawl!Event, safe(x), x \notin s14' PROVE safeNow(x)
      <4>1. CASE x = e
        BY <2>1, <2>17, <3>3, <3>4, <4>1 DEF safe, safeNow
      <4>2. CASE x # e
        BY <2>3, <2>10, <3>1, <3>3, <3>4, <4>2
      <4> QED BY <4>1, <4>2
    <3>5. s1 = "crawler" => \A x \in s6' \ s14' : safeNow(x)
      <4> SUFFICES ASSUME s1 = "crawler", NEW x \in s6' \ s14' PROVE safeNow(x)
        OBVIOUS
      <4>1. x \in s6 \/ (x = e /\ safeNow(e))
        BY <2>17
      <4>2. CASE x \in s6
        <5>1. safe(x)
          BY <2>5, <2>17, <4>2
        <5>2. CASE x \in Crawl!Event
          BY <3>4, <5>1, <5>2
        <5>3. CASE x \notin Crawl!Event
          <6>1. s5'[x] = s5[x]
            BY <2>3, <3>1, <5>3, <2>17
          <6> QED BY <2>10, <3>3, <5>1, <6>1
        <5> QED BY <5>2, <5>3
      <4> QED BY <4>1, <4>2
    <3>6. s7' \subseteq s13'
      BY <2>1, <2>4, <2>17
    <3> QED BY <2>8, <2>9, <2>17, <3>2, <3>5, <3>6
  <2>18. ASSUME NEW e \in Crawl!Event, Crawl!Arrive(e) PROVE Crawl!CrawlInv'
    <3>1. Crawl!SetTask(e, IF s1 = "crawler" THEN "event" ELSE "video") /\ s5[e] = "new"
          /\ UNCHANGED <<s8, s9, s12, s7, s6, s14>>
      BY <2>18 DEF Crawl!Arrive, Crawl!SetTask
    <3> QED BY <2>17, <3>1 DEF Crawl!Step
  <2>19. ASSUME NEW e \in Crawl!Event, Crawl!LookUpEvent(e) PROVE Crawl!CrawlInv'
    <3>1. Crawl!SetTask(e, IF e \in s6 THEN "done" ELSE "note") /\ s5[e] = "event"
          /\ UNCHANGED <<s8, s9, s12, s7, s6, s14>>
      BY <2>19 DEF Crawl!LookUpEvent
    <3> QED BY <2>17, <3>1 DEF Crawl!Step
  <2>20. ASSUME NEW e \in Crawl!Event, Crawl!NoteEvent(e) PROVE Crawl!CrawlInv'
    <3>1. Crawl!SetTask(e, IF ~Crawl!toISOString(e) \/ v(e) = Crawl!NoVideo THEN "done" ELSE "video") /\ s5[e] = "note"
          /\ UNCHANGED <<s8, s9, s12, s7>> /\ s6' = s6 \cup {e}
          /\ s14' = IF Crawl!toISOString(e) THEN s14 ELSE s14 \cup {e}
      BY <2>20 DEF Crawl!NoteEvent, v
    <3>2. s5'[e] = IF ~Crawl!toISOString(e) \/ v(e) = Crawl!NoVideo THEN "done" ELSE "video"
      BY <3>1, <2>3 DEF Crawl!SetTask
    <3>3. safeNow(e) \/ e \in s14'
      BY <3>1, <3>2 DEF safeNow
    <3> QED BY <2>17, <3>1, <3>3 DEF Crawl!Step
  <2>21. ASSUME NEW e \in Crawl!Event, Crawl!LookUpVideo(e) PROVE Crawl!CrawlInv'
    <3>1. s5' = [s5 EXCEPT ![e] = "done"] /\ s5[e] = "video"
          /\ UNCHANGED <<s6, s7, s13, s14>>
      BY <2>21 DEF Crawl!LookUpVideo, Crawl!SetTask
    <3> DEFINE q == Append(s8, e)
    <3>2. q \in Seq(Crawl!Event) /\ Crawl!Range(s8) \cup {e} \subseteq Crawl!Range(q)
      BY <2>3, AddToQueue
    <3>3. /\ s8' \in Seq(Crawl!Event) /\ s12' \in Int /\ s9' \subseteq Crawl!Batch
          /\ Crawl!Held \subseteq Crawl!Held' /\ (e \in Crawl!Held' \/ v(e) \in s7)
          /\ \A s \in s9' : batchNow(s)
      <4>1. CASE v(e) \in s7 /\ UNCHANGED <<s8, s9, s12>>
        BY <2>3, <2>6, <2>7, <2>9, <4>1
      <4>2. CASE Crawl!submitVideoBatch(q, FALSE)
        BY <2>15, <3>2, <4>2
      <4>3. CASE s8' = q /\ UNCHANGED <<s9, s12>>
        BY <2>3, <2>6, <2>7, <2>9, <3>2, <4>3
      <4> QED BY <2>21, <4>1, <4>2, <4>3 DEF Crawl!LookUpVideo, v
    <3> HIDE DEF q
    <3>4. Crawl!Typed'
      BY <2>1, <2>3, <3>1, <3>3 DEF Crawl!Typed, Crawl!Step
    <3>5. safeNow(e)
      BY <2>4, <3>1, <3>3 DEF safeNow
    <3>6. ASSUME NEW x, safe(x), x # e PROVE safeNow(x)
      <4>1. s5'[x] = s5[x]
        BY <2>3, <3>1, <3>6
      <4> QED BY <2>10, <3>3, <3>6, <4>1
    <3>7. s1 = "crawler" => \A x \in s6' \ s14' : safeNow(x)
      BY <2>5, <3>1, <3>5, <3>6
    <3> QED BY <2>4, <2>8, <3>1, <3>3, <3>4, <3>7
  <2>22. ASSUME NEW e \in Crawl!Event, Crawl!SimpleLookUp(e) PROVE Crawl!CrawlInv'
    <3>1. s1 = "simple" /\ UNCHANGED <<s6, s7, s8, s9, s12, s13, s14>>
      BY <2>22 DEF Crawl!SimpleLookUp
    <3>2. \E t \in Crawl!Step : s5' = [s5 EXCEPT ![e] = t]
      BY <2>22 DEF Crawl!SimpleLookUp, Crawl!SetTask, Crawl!Step
    <3>3. Crawl!Typed'
      BY <3>1, <3>2, <2>1, <2>3 DEF Crawl!Typed
    <3>4. s7' \subseteq s13'
      BY <3>1, <2>4
    <3> QED BY <2>8, <2>9, <3>1, <3>3, <3>4
  <2>23. ASSUME NEW e \in Crawl!Event, Crawl!SimpleInsert(e) PROVE Crawl!CrawlInv'
    <3>1. Crawl!SetTask(e, "done") /\ s5[e] = "row"
          /\ UNCHANGED <<s8, s9, s12, s7, s14>>
      BY <2>23 DEF Crawl!SimpleInsert
    <3>2. s1 # "crawler"
      BY <2>3, <3>1
    <3> QED BY <2>17, <3>1, <3>2 DEF Crawl!Step
  <2>24. ASSUME NEW s \in s9, Crawl!GiveUp(s) PROVE Crawl!CrawlInv'
    <3>1. s8' = s.batch \o s8 /\ s9' = s9 \ {s}
          /\ UNCHANGED <<s5, s6, s7, s12, s14>>
      BY <2>24 DEF Crawl!GiveUp, Crawl!PutBack
    <3>2. s.batch \in Seq(Crawl!Event)
      BY <2>3 DEF Crawl!Batch
    <3>3. s8' \in Seq(Crawl!Event) /\ Crawl!Range(s.batch) \cup Crawl!Range(s8) \subseteq Crawl!Range(s8')
      BY <2>3, <3>1, <3>2, JoinQueue
    <3>4. Crawl!Held \subseteq Crawl!Held'
      BY <2>6, <2>7, <3>1, <3>3
    <3> QED BY <2>3, <2>9, <2>11, <3>1, <3>3, <3>4
  <2>25. ASSUME NEW s \in s9, Crawl!Succeeds(s) PROVE Crawl!CrawlInv'
    <3> DEFINE n == [s EXCEPT !.left = s.batch]
    <3>1. s13' = s13 \cup {v(e) : e \in Crawl!Range(s.batch)}
          /\ s9' = (s9 \ {s}) \cup {n}
          /\ UNCHANGED <<s5, s6, s7, s8, s12, s14>>
      BY <2>25 DEF Crawl!Succeeds, Crawl!Taken, v
    <3>2. n \in Crawl!Batch /\ n.batch = s.batch /\ n.left = s.batch
      BY <2>3 DEF Crawl!Batch
    <3> HIDE DEF n
    <3>3. batchNow(n)
      BY <3>1, <3>2 DEF batchNow
    <3>4. Crawl!Held \subseteq Crawl!Held'
      BY <2>6, <2>7, <3>1, <3>2
    <3> QED BY <2>3, <2>9, <2>11, <3>1, <3>2, <3>3, <3>4
  <2>26. ASSUME NEW s \in s9, Crawl!Mark(s) PROVE Crawl!CrawlInv'
    <3> DEFINE n == [s EXCEPT !.left = Tail(@)]
    <3>1. /\ s.left # <<>> /\ s7' = s7 \cup {v(Head(s.left))}
          /\ s9' = (s9 \ {s}) \cup (IF Len(s.left) = 1 THEN {} ELSE {n})
          /\ UNCHANGED <<s5, s6, s8, s12, s13, s14>>
      BY <2>26 DEF Crawl!Mark, v
    <3>2. s \in Crawl!Batch /\ s.left \in Seq(Crawl!Event) /\ s.left # <<>>
      BY <2>3, <3>1 DEF Crawl!Batch
    <3>3. Tail(s.left) \in Seq(Crawl!Event) /\ Head(s.left) \in Crawl!Range(s.left)
          /\ Crawl!Range(Tail(s.left)) \subseteq Crawl!Range(s.left)
      <4>1. /\ Len(s.left) \in Nat \ {0} /\ Head(s.left) = s.left[1] /\ DOMAIN s.left = 1..Len(s.left)
            /\ Tail(s.left) \in Seq(Crawl!Event) /\ DOMAIN Tail(s.left) = 1..(Len(s.left) - 1)
            /\ \A i \in 1..(Len(s.left) - 1) : Tail(s.left)[i] = s.left[i + 1]
        BY <3>2
      <4>2. \A i \in 1..(Len(s.left) - 1) : i + 1 \in 1..Len(s.left)
        BY <4>1
      <4> QED BY <4>1, <4>2 DEF Crawl!Range
    <3>4. n \in Crawl!Batch /\ n.batch = s.batch /\ n.left = Tail(s.left)
      BY <3>2, <3>3 DEF Crawl!Batch
    <3> HIDE DEF n
    <3>5. Crawl!Range(s.left) \subseteq Crawl!Range(s.batch) /\ \A e \in Crawl!Range(s.batch) : v(e) \in s13
      BY <2>4, <3>1
    <3>6. batchNow(n)
      BY <3>1, <3>3, <3>4, <3>5 DEF batchNow
    <3>7. s9' \subseteq Crawl!Batch /\ \A t \in s9' : batchNow(t)
      BY <2>3, <2>9, <3>1, <3>4, <3>6
    <3>8. Crawl!Typed'
      BY <2>1, <2>3, <3>1, <3>7 DEF Crawl!Typed
    <3>9. s7' \subseteq s13'
      BY <2>4, <3>1, <3>3, <3>5
    <3>10. ASSUME NEW x, safe(x) PROVE safeNow(x)
      <4>1. ASSUME NEW h \in Crawl!Held, v(h) = v(x) PROVE safeNow(x)
        <5>1. CASE h \in Crawl!Range(s.batch)
          BY <3>1, <3>5, <4>1, <5>1 DEF safeNow
        <5>2. CASE h \notin Crawl!Range(s.batch)
          <6>1. h \in Crawl!Held'
            BY <2>6, <2>7, <3>1, <4>1, <5>2
          <6> QED BY <4>1, <6>1 DEF safeNow
        <5> QED BY <5>1, <5>2
      <4> QED BY <3>1, <3>10, <4>1 DEF safe, safeNow
    <3>11. s1 = "crawler" => \A e \in s6' \ s14' : safeNow(e)
      BY <2>5, <3>1, <3>10
    <3> QED BY <2>8, <3>7, <3>8, <3>9, <3>11
  <2>27. ASSUME NEW s \in s9, Crawl!Fails(s) \/ Crawl!NotMarked(s) PROVE Crawl!CrawlInv'
    BY <2>24, <2>27 DEF Crawl!Fails, Crawl!NotMarked
  <2>28. CASE UNCHANGED Crawl!vars
    <3>1. UNCHANGED <<s5, s7, s6, s14, s8, s9, s12>>
      BY <2>28 DEF Crawl!vars
    <3>2. Crawl!Held \subseteq Crawl!Held'
      BY <2>6, <2>7, <3>1
    <3> QED BY <2>3, <2>9, <2>11, <3>1, <3>2
  <2>29. ASSUME NEW e \in Crawl!Event, Crawl!LogError(e) PROVE Crawl!CrawlInv'
    <3>1. Crawl!SetTask(e, "done") /\ UNCHANGED <<s8, s9, s12, s7, s6>>
          /\ s14 \subseteq s14' /\ (s1 = "crawler" /\ s5[e] = "video" => e \in s14')
      BY <2>29 DEF Crawl!LogError
    <3> QED BY <2>17, <3>1 DEF Crawl!Step
  <2> QED BY <2>12, <2>13, <2>14, <2>16, <2>18, <2>19, <2>20, <2>21, <2>22, <2>23, <2>25, <2>26, <2>27,
             <2>28, <2>29 DEF Crawl!Next
<1> QED BY <1>1, <1>2

\* SaidIsDone for any number of reports, events, posts and acts, and any size of a batch: by
\* TicketInv a ticket is there before its answer, by CrawlInv a noted video is held, or is
\* the API's, until the process ends, and a batch that is being marked was taken whole.
THEOREM SaidIsDoneHolds == Spec => []SaidIsDone
<1> DEFINE RInv == part = "Report" => Report!Typed /\ Report!TicketInv
           CInv == part = "Crawl" => Crawl!CrawlInv
           IInv == part = "Item" => Item!ChosenInv /\ Item!SoundInv /\ Item!DeletionInv /\ Item!ShapeIsTrusted
<1>1. Init => RInv
  <2> SUFFICES ASSUME Init, part = "Report" PROVE Report!Typed /\ Report!TicketInv
    OBVIOUS
  <2>1. Report!Init
    BY DEF Init
  <2> QED BY <2>1, TicketStep
<1>2. Init => CInv
  <2> SUFFICES ASSUME Init, part = "Crawl" PROVE Crawl!CrawlInv
    OBVIOUS
  <2>1. Crawl!Init
    BY DEF Init
  <2> QED BY <2>1, CrawlHolds
<1>3. Init => IInv
  <2> SUFFICES ASSUME Init, part = "Item" PROVE Item!ChosenInv /\ Item!SoundInv /\ Item!DeletionInv /\ Item!ShapeIsTrusted
    OBVIOUS
  <2>1. Item!Init
    BY DEF Init
  <2> QED BY <2>1, ChosenStep, ShapeStep
<1>4. RInv /\ [Next]_vars => RInv'
  <2> SUFFICES ASSUME RInv, [Next]_vars, part' = "Report"
               PROVE  (Report!Typed /\ Report!TicketInv)'
    OBVIOUS
  <2>1. part = "Report" /\ [Report!Next]_(Report!vars)
    BY DEF Next, vars, Report!vars
  <2> QED BY <2>1, TicketStep
<1>5. CInv /\ [Next]_vars => CInv'
  <2> SUFFICES ASSUME CInv, [Next]_vars, part' = "Crawl"
               PROVE  (Crawl!CrawlInv)'
    OBVIOUS
  <2>1. part = "Crawl" /\ [Crawl!Next]_(Crawl!vars)
    BY DEF Next, vars, Crawl!vars
  <2> QED BY <2>1, CrawlHolds
<1>6. IInv /\ [Next]_vars => IInv'
  <2> SUFFICES ASSUME IInv, [Next]_vars, part' = "Item"
               PROVE  (Item!ChosenInv /\ Item!SoundInv /\ Item!DeletionInv /\ Item!ShapeIsTrusted)'
    OBVIOUS
  <2>1. part = "Item" /\ [Item!Next]_(Item!vars)
    BY DEF Next, vars, Item!vars
  <2> QED BY <2>1, ChosenStep, ShapeStep
<1>7. RInv => (part = "Report" => Report!SentIsTicket)
  BY TicketsShow
<1>8. CInv => (part = "Crawl" => Crawl!NotForgotten /\ Crawl!SubmittedIsAccepted)
  BY DEF Crawl!CrawlInv
<1>9. IInv => (part = "Item" => Item!DeletionsAreOwn)
  BY DEF Item!DeletionInv
<1>10. RInv /\ CInv /\ IInv => SaidIsDone
  BY <1>7, <1>8, <1>9 DEF SaidIsDone
<1> QED BY <1>1, <1>2, <1>3, <1>4, <1>5, <1>6, <1>10, PTL DEF Spec

-----------------------------------------------------------------------------
\* A request that is at the worker has its name's entry, or the name has just changed.
LEMMA EdgeTyped ==
  /\ Edge!Init => Edge!Typed
  /\ Edge!Typed /\ [Edge!Next]_(Edge!vars) => Edge!Typed'
<1>1. Edge!Init => Edge!Typed
  BY DEF Edge!Init, Edge!Typed, Edge!Entry, Edge!Key, Edge!Name, Edge!None
<1>2. Edge!Typed /\ [Edge!Next]_(Edge!vars) => Edge!Typed'
  <2> SUFFICES ASSUME Edge!Typed, [Edge!Next]_(Edge!vars) PROVE Edge!Typed'
    OBVIOUS
  <2> DEFINE ok(f) == /\ f = [r |-> f.r, got |-> f.got] /\ f.r \in Edge!Request
                      /\ f.got # {} =>
                           \E entry \in Edge!Entry :
                             f.got = {entry} /\ (entry = s1[Edge!NameOf(f.r)] \/ s2[Edge!NameOf(f.r)] = s3)
             okNow(f) == /\ f = [r |-> f.r, got |-> f.got] /\ f.r \in Edge!Request
                         /\ f.got # {} =>
                              \E entry \in Edge!Entry :
                                f.got = {entry} /\ (entry = s1'[Edge!NameOf(f.r)] \/ s2'[Edge!NameOf(f.r)] = s3')
  <2>1. /\ s3 \in Nat /\ (\A n \in Edge!Name : s2[n] \in 0..s3) /\ s1 \in [Edge!Name -> Edge!Entry]
        /\ DOMAIN s2 = Edge!Name /\ \A f \in s7 : ok(f)
    BY DEF Edge!Typed
  <2>2. ASSUME NEW r \in Edge!Request PROVE Edge!NameOf(r) # Edge!None => Edge!NameOf(r) \in Edge!Name
    BY DEF Edge!Request, Edge!NameOf, Edge!getSubdomain, Edge!None
  <2>3. ASSUME UNCHANGED <<s1, s2, s3>>, \A f \in s7' : f \in s7 \/ ok(f) PROVE Edge!Typed'
    <3>1. \A f : okNow(f) <=> ok(f)
      BY <2>3
    <3> HIDE DEF ok, okNow
    <3>2. \A f \in s7' : okNow(f)
      BY <2>1, <2>3, <3>1
    <3> QED BY <2>1, <2>3, <3>2 DEF Edge!Typed, okNow, Edge!NameOf
  <2>4. ASSUME NEW r \in Edge!Request, Edge!Ask(r) PROVE Edge!Typed'
    <3> DEFINE f == [r |-> r, got |-> {}]
    <3>1. s7' = s7 \cup {f} /\ UNCHANGED <<s1, s2, s3>>
      BY <2>4 DEF Edge!Ask
    <3>2. ok(f)
      BY <2>4
    <3> HIDE DEF f, ok
    <3> QED BY <2>3, <3>1, <3>2
  <2>5. ASSUME NEW f \in s7, Edge!LookUp(f) PROVE Edge!Typed'
    <3> DEFINE g == [f EXCEPT !.got = {s1[Edge!NameOf(f.r)]}]
    <3>1. /\ s7' = (s7 \ {f}) \cup {g} /\ UNCHANGED <<s1, s2, s3>>
          /\ Edge!NameOf(f.r) # Edge!None
      BY <2>5 DEF Edge!LookUp
    <3>2. f = [r |-> f.r, got |-> f.got] /\ f.r \in Edge!Request
      BY <2>1
    <3>3. Edge!NameOf(f.r) \in Edge!Name
      BY <2>2, <3>1, <3>2
    <3>4. s1[Edge!NameOf(f.r)] \in Edge!Entry
      BY <2>1, <3>3
    <3>5. g = [r |-> f.r, got |-> {s1[Edge!NameOf(f.r)]}]
      BY <3>2
    <3> HIDE DEF g
    <3>6. ok(g)
      BY <3>2, <3>4, <3>5
    <3> HIDE DEF ok
    <3> QED BY <2>3, <3>1, <3>6
  <2>6. ASSUME NEW f \in s7, Edge!Answer(f) PROVE Edge!Typed'
    <3>1. s7' \subseteq s7 /\ UNCHANGED <<s1, s2, s3>>
      BY <2>6 DEF Edge!Answer
    <3> HIDE DEF ok
    <3> QED BY <2>3, <3>1
  <2>7. ASSUME NEW n \in Edge!Name, NEW entry \in Edge!Entry, Edge!Rename(n, entry) PROVE Edge!Typed'
    <3>1. /\ s1' = [s1 EXCEPT ![n] = entry] /\ s2' = [s2 EXCEPT ![n] = s3]
          /\ UNCHANGED <<s3, s7>>
      BY <2>7 DEF Edge!Rename
    <3>2. s1' \in [Edge!Name -> Edge!Entry] /\ DOMAIN s2' = Edge!Name
      BY <2>1, <3>1
    <3>3. \A m \in Edge!Name : s2'[m] \in 0..s3
      BY <2>1, <3>1
    <3>4. ASSUME NEW f \in s7 PROVE okNow(f)
      <4>1. ok(f)
        BY <2>1
      <4>2. CASE Edge!NameOf(f.r) = n
        BY <2>1, <3>1, <4>1, <4>2
      <4>3. CASE Edge!NameOf(f.r) # n
        <5>1. s1'[Edge!NameOf(f.r)] = s1[Edge!NameOf(f.r)] \/ Edge!NameOf(f.r) \notin Edge!Name
          BY <2>1, <3>1, <4>3
        <5>2. s2'[Edge!NameOf(f.r)] = s2[Edge!NameOf(f.r)] \/ Edge!NameOf(f.r) \notin Edge!Name
          BY <2>1, <3>1, <4>3
        <5> QED BY <3>1, <4>1, <4>3, <5>1, <5>2
      <4> QED BY <4>2, <4>3
    <3> QED BY <2>1, <3>1, <3>2, <3>3, <3>4 DEF Edge!Typed, Edge!NameOf
  <2>8. CASE Edge!Tick
    <3>1. s3' = s3 + 1 /\ s7' = {} /\ UNCHANGED <<s1, s2>>
      BY <2>8 DEF Edge!Tick
    <3> QED BY <2>1, <3>1 DEF Edge!Typed
  <2>9. CASE UNCHANGED Edge!vars
    <3>1. UNCHANGED <<s1, s2, s3, s7>>
      BY <2>9 DEF Edge!vars
    <3> HIDE DEF ok
    <3> QED BY <2>3, <3>1
  <2> QED BY <2>4, <2>5, <2>6, <2>7, <2>8, <2>9 DEF Edge!Next
<1> QED BY <1>1, <1>2

\* What an answer that is kept says of the request it is for and of what was looked up.
LEMMA AnswerIsFor ==
  ASSUME NEW r \in Edge!Request, NEW entry \in Edge!Entry, NEW a \in Edge!Answers(r, entry), a.age # 0
  PROVE  /\ a.age \in Nat
         /\ r.path = "page" =>
              /\ a.vary = {"X-Original-Host"}
              /\ IF r.host \in Edge!Name THEN a.kind = "profile" /\ a.of = r.host ELSE a.kind = "app"
         /\ a.pk # Edge!None =>
              /\ Edge!NameOf(r) # Edge!None /\ a.pk = entry.pk
              /\ r.host \in Edge!Name => entry.active
<1>1. /\ \A kind : Edge!Plain(kind).age = 0
      /\ Edge!Application.age = PageAge /\ Edge!Application.pk = Edge!None /\ Edge!Application.kind = "app"
      /\ Edge!Application.vary = {"X-Original-Host"}
  BY DEF Edge!Plain, Edge!NoVary, Edge!Application
<1>2. CASE r.host = "www"
  <2>1. a \in {Edge!Plain("redirect")}
    BY <1>2 DEF Edge!Answers
  <2> QED BY <1>1, <2>1
<1>3. CASE r.host \in Edge!Name
  <2>0. r.host # "www" /\ Edge!getSubdomain(r.host) = r.host /\ r.host # Edge!None /\ Edge!NameOf(r) = r.host
    BY <1>3 DEF Edge!Name, Edge!None, Edge!getSubdomain, Edge!NameOf
  <2>1. CASE r.path = "names"
    <3>1. a = Edge!handleSubdomainNip05(r, entry)
      BY <2>0, <2>1 DEF Edge!Answers
    <3>2. entry.pk # Edge!None /\ entry.active /\ a = Edge!jsonResponse(r.host, entry.pk)
      BY <1>1, <3>1 DEF Edge!handleSubdomainNip05
    <3>3. a.age = AnswerAge /\ a.pk = entry.pk
      BY <3>2 DEF Edge!jsonResponse
    <3> QED BY <2>0, <2>1, <3>2, <3>3, Ages
  <2>2. CASE r.path = "assoc"
    <3>1. a \in Edge!WellKnown(r)
      BY <2>0, <2>2 DEF Edge!Answers
    <3>2. a.age = EdgeTicks + 1 /\ a.pk = Edge!None
      BY <1>1, <3>1 DEF Edge!WellKnown
    <3> QED BY <2>2, <3>2, Ages
  <2>3. CASE r.path \notin {"names", "assoc"}
    <3>1. a \in Edge!handleSubdomainProfile(r, entry)
      BY <2>0, <2>3 DEF Edge!Answers
    <3>2. entry.pk # Edge!None /\ entry.active /\ a = Edge!ProfilePage(r, entry)
      BY <1>1, <3>1 DEF Edge!handleSubdomainProfile
    <3>3. /\ a.age = PageAge /\ a.pk = entry.pk /\ a.kind = "profile" /\ a.of = r.host
          /\ a.vary = {"X-Original-Host"}
      BY <3>2 DEF Edge!ProfilePage
    <3> QED BY <1>3, <2>0, <3>2, <3>3, Ages
  <2> QED BY <2>1, <2>2, <2>3
<1>4. CASE r.host \notin Edge!Name /\ r.host # "www"
  <2>0. Edge!getSubdomain(r.host) = Edge!None /\ Edge!NameOf(r) = r.name
    BY <1>4 DEF Edge!getSubdomain, Edge!NameOf
  <2>1. CASE r.path = "names"
    <3>1. a \in Edge!handleNip05(r, entry)
      BY <1>4, <2>0, <2>1 DEF Edge!Answers
    <3>2. a = Edge!jsonError \/ (r.name # Edge!None /\ a = Edge!jsonResponse(r.name, entry.pk))
      BY <3>1 DEF Edge!handleNip05
    <3>3. a.age = AnswerAge /\ (a.pk = Edge!None \/ (r.name # Edge!None /\ a.pk = entry.pk))
      BY <3>2 DEF Edge!jsonResponse, Edge!jsonError
    <3> QED BY <1>4, <2>0, <2>1, <3>3, Ages
  <2>2. CASE r.path = "assoc"
    <3>1. a \in Edge!WellKnown(r)
      BY <1>4, <2>0, <2>2 DEF Edge!Answers
    <3>2. a.age = EdgeTicks + 1 /\ a.pk = Edge!None
      BY <1>1, <3>1 DEF Edge!WellKnown
    <3> QED BY <2>2, <3>2, Ages
  <2>3. CASE r.path = "video" /\ Edge!isSocialMediaCrawler(r)
    <3>1. a \in Edge!handleVideoOgTags
      BY <1>4, <2>0, <2>3 DEF Edge!Answers
    <3>2. a.age = AnswerAge /\ a.pk = Edge!None
      BY <3>1 DEF Edge!handleVideoOgTags
    <3> QED BY <2>3, <3>2, Ages
  <2>4. CASE r.path \notin {"names", "assoc"} /\ ~(r.path = "video" /\ Edge!isSocialMediaCrawler(r))
    <3>1. a \in {Edge!Plain("redirect")} \/ a = Edge!Application
      BY <1>4, <2>0, <2>4 DEF Edge!Answers
    <3>2. a = Edge!Application
      BY <1>1, <3>1
    <3> QED BY <1>1, <1>4, <3>2, Ages
  <2> QED BY <2>1, <2>2, <2>3, <2>4
<1> QED BY <1>2, <1>3, <1>4

\* What is kept was kept for a request, and is as old as its name's entry at most.
LEMMA CacheStep ==
  /\ Edge!Init => Edge!CacheInv
  /\ Edge!Typed /\ Edge!CacheInv /\ [Edge!Next]_(Edge!vars) => Edge!CacheInv'
<1>1. Edge!Init => Edge!CacheInv
  BY DEF Edge!Init, Edge!CacheInv
<1>2. Edge!Typed /\ Edge!CacheInv /\ [Edge!Next]_(Edge!vars) => Edge!CacheInv'
  <2> SUFFICES ASSUME Edge!Typed, Edge!CacheInv, [Edge!Next]_(Edge!vars) PROVE Edge!CacheInv'
    OBVIOUS
  <2> DEFINE true(e, r) == e.answer.pk # Edge!None =>
                             /\ Edge!NameOf(r) \in Edge!Name
                             /\ \/ /\ e.answer.pk = s1[Edge!NameOf(r)].pk
                                   /\ r.host \in Edge!Name => s1[Edge!NameOf(r)].active
                                \/ e.at <= s2[Edge!NameOf(r)]
             trueNow(e, r) == e.answer.pk # Edge!None =>
                                /\ Edge!NameOf(r) \in Edge!Name
                                /\ \/ /\ e.answer.pk = s1'[Edge!NameOf(r)].pk
                                      /\ r.host \in Edge!Name => s1'[Edge!NameOf(r)].active
                                   \/ e.at <= s2'[Edge!NameOf(r)]
             for(e, r) == /\ e.url = Edge!Url(r)
                          /\ r.path = "page" =>
                               /\ e.by = [h \in {"X-Original-Host"} |-> Edge!Header(r, h)]
                               /\ IF r.host \in Edge!Name
                                    THEN e.answer.kind = "profile" /\ e.answer.of = r.host
                                    ELSE e.answer.kind = "app"
             good(e) == e.at \in 0..s3 /\ e.answer.age \in Nat /\ s3 < e.at + e.answer.age
             goodNow(e) == e.at \in 0..s3' /\ e.answer.age \in Nat /\ s3' < e.at + e.answer.age
  <2>1. /\ s3 \in Nat /\ (\A n \in Edge!Name : s2[n] \in 0..s3) /\ s1 \in [Edge!Name -> Edge!Entry]
        /\ DOMAIN s2 = Edge!Name
    BY DEF Edge!Typed
  <2>2. \A e \in s6 : good(e) /\ \E r \in Edge!Request : for(e, r) /\ true(e, r)
    BY DEF Edge!CacheInv, Edge!Good, Edge!OfRequest
  <2>3. ASSUME \A e \in s6' : goodNow(e) /\ \E r \in Edge!Request : for(e, r) /\ trueNow(e, r) PROVE Edge!CacheInv'
    BY <2>3 DEF Edge!CacheInv, Edge!Good, Edge!OfRequest, Edge!Url, Edge!Header, Edge!NameOf
  <2>4. ASSUME UNCHANGED <<s1, s2, s3>>,
               \A e \in s6' : e \in s6 \/ (good(e) /\ \E r \in Edge!Request : for(e, r) /\ true(e, r))
        PROVE  Edge!CacheInv'
    <3>1. \A e, r : (goodNow(e) <=> good(e)) /\ (trueNow(e, r) <=> true(e, r))
      BY <2>4
    <3> HIDE DEF good, goodNow, for, true, trueNow
    <3> QED BY <2>2, <2>3, <2>4, <3>1
  <2>5. ASSUME NEW f \in s7, Edge!LookUp(f) PROVE Edge!CacheInv'
    <3>1. UNCHANGED <<s1, s2, s3, s6>>
      BY <2>5 DEF Edge!LookUp
    <3> HIDE DEF good, for, true
    <3> QED BY <2>4, <3>1
  <2>6. ASSUME NEW r \in Edge!Request, Edge!Ask(r) PROVE Edge!CacheInv'
    <3>1. UNCHANGED <<s1, s2, s3, s6>>
      BY <2>6 DEF Edge!Ask
    <3> HIDE DEF good, for, true
    <3> QED BY <2>4, <3>1
  <2>7. ASSUME NEW f \in s7, Edge!Answer(f) PROVE Edge!CacheInv'
    <3> DEFINE r == f.r
    <3>1. UNCHANGED <<s1, s2, s3>>
      BY <2>7 DEF Edge!Answer
    <3>2. PICK entry \in IF f.got = {} THEN {[pk |-> Edge!None, active |-> FALSE]} ELSE f.got :
            \E a \in Edge!Answers(r, entry) : s6' = Edge!Stored(r, a)
      BY <2>7 DEF Edge!Answer
    <3>0. PICK a \in Edge!Answers(r, entry) : s6' = Edge!Stored(r, a)
      BY <3>2
    <3>3. f.got # {} \/ Edge!NameOf(r) = Edge!None
      BY <2>7 DEF Edge!Answer
    <3>4. /\ r \in Edge!Request /\ entry \in Edge!Entry
          /\ Edge!NameOf(r) # Edge!None => entry = s1[Edge!NameOf(r)] \/ s2[Edge!NameOf(r)] = s3
      <4>1. r \in Edge!Request
        BY DEF Edge!Typed
      <4>2. CASE f.got = {}
        BY <3>2, <3>3, <4>1, <4>2 DEF Edge!Entry
      <4>3. CASE f.got # {}
        BY <3>2, <4>1, <4>3 DEF Edge!Typed
      <4> QED BY <4>2, <4>3
    <3> HIDE DEF r
    <3>5. CASE a.age = 0
      <4>1. s6' = s6
        BY <3>0, <3>5 DEF Edge!Stored
      <4> HIDE DEF good, for, true
      <4> QED BY <2>4, <3>1, <4>1
    <3>6. CASE a.age # 0
      <4> DEFINE e == [url |-> Edge!Url(r), at |-> s3, answer |-> a, by |-> [h \in a.vary |-> Edge!Header(r, h)]]
      <4>1. \A x \in s6' : x \in s6 \/ x = e
        BY <3>0, <3>6 DEF Edge!Stored, Edge!Kept
      <4>2. e.url = Edge!Url(r) /\ e.at = s3 /\ e.answer = a /\ e.by = [h \in a.vary |-> Edge!Header(r, h)]
        OBVIOUS
      <4> HIDE DEF e
      <4>3. /\ a.age \in Nat
            /\ r.path = "page" =>
                 /\ a.vary = {"X-Original-Host"}
                 /\ IF r.host \in Edge!Name THEN a.kind = "profile" /\ a.of = r.host ELSE a.kind = "app"
            /\ a.pk # Edge!None =>
                 /\ Edge!NameOf(r) # Edge!None /\ a.pk = entry.pk
                 /\ r.host \in Edge!Name => entry.active
        BY <3>0, <3>4, <3>6, AnswerIsFor
      <4>4. Edge!NameOf(r) # Edge!None => Edge!NameOf(r) \in Edge!Name
        BY <3>4 DEF Edge!Request, Edge!NameOf, Edge!getSubdomain, Edge!None
      <4>5. good(e)
        BY <2>1, <3>6, <4>2, <4>3
      <4>6. for(e, r)
        BY <4>2, <4>3
      <4>7. true(e, r)
        <5> SUFFICES ASSUME a.pk # Edge!None
                     PROVE  /\ Edge!NameOf(r) \in Edge!Name
                            /\ \/ /\ a.pk = s1[Edge!NameOf(r)].pk
                                  /\ r.host \in Edge!Name => s1[Edge!NameOf(r)].active
                               \/ s3 <= s2[Edge!NameOf(r)]
          BY <4>2
        <5>1. Edge!NameOf(r) \in Edge!Name /\ a.pk = entry.pk /\ (r.host \in Edge!Name => entry.active)
          BY <4>3, <4>4
        <5>2. entry = s1[Edge!NameOf(r)] \/ s2[Edge!NameOf(r)] = s3
          BY <3>4, <4>3
        <5>3. s2[Edge!NameOf(r)] = s3 => s3 <= s2[Edge!NameOf(r)]
          BY <2>1
        <5> QED BY <5>1, <5>2, <5>3
      <4> HIDE DEF good, for, true
      <4> QED BY <2>4, <3>1, <3>4, <4>1, <4>5, <4>6, <4>7
    <3> QED BY <3>5, <3>6
  <2>8. ASSUME NEW n \in Edge!Name, NEW entry \in Edge!Entry, Edge!Rename(n, entry) PROVE Edge!CacheInv'
    <3>1. /\ s1' = [s1 EXCEPT ![n] = entry] /\ s2' = [s2 EXCEPT ![n] = s3]
          /\ UNCHANGED <<s3, s6>>
      BY <2>8 DEF Edge!Rename
    <3>2. ASSUME NEW e \in s6 PROVE goodNow(e) /\ \E r \in Edge!Request : for(e, r) /\ trueNow(e, r)
      <4>1. PICK r \in Edge!Request : for(e, r) /\ true(e, r)
        BY <2>2
      <4>2. good(e) /\ goodNow(e)
        BY <2>2, <3>1
      <4>3. trueNow(e, r)
        <5> SUFFICES ASSUME e.answer.pk # Edge!None
                     PROVE  /\ Edge!NameOf(r) \in Edge!Name
                            /\ \/ /\ e.answer.pk = s1'[Edge!NameOf(r)].pk
                                  /\ r.host \in Edge!Name => s1'[Edge!NameOf(r)].active
                               \/ e.at <= s2'[Edge!NameOf(r)]
          OBVIOUS
        <5>1. Edge!NameOf(r) \in Edge!Name
          BY <4>1
        <5>2. CASE Edge!NameOf(r) = n
          BY <2>1, <2>2, <3>1, <5>1, <5>2
        <5>3. CASE Edge!NameOf(r) # n
          <6>1. s1'[Edge!NameOf(r)] = s1[Edge!NameOf(r)] /\ s2'[Edge!NameOf(r)] = s2[Edge!NameOf(r)]
            BY <2>1, <3>1, <5>1, <5>3
          <6> QED BY <4>1, <5>1, <6>1
        <5> QED BY <5>2, <5>3
      <4> HIDE DEF for, trueNow
      <4> QED BY <4>1, <4>2, <4>3
    <3> HIDE DEF goodNow, for, trueNow
    <3> QED BY <2>3, <3>1, <3>2
  <2>9. CASE Edge!Tick
    <3>1. /\ s3' = s3 + 1 /\ UNCHANGED <<s1, s2>>
          /\ s6' = {e \in s6 : s3' < e.at + e.answer.age}
      BY <2>9 DEF Edge!Tick
    <3>2. ASSUME NEW e \in s6' PROVE goodNow(e) /\ \E r \in Edge!Request : for(e, r) /\ trueNow(e, r)
      <4>1. PICK r \in Edge!Request : for(e, r) /\ true(e, r)
        BY <2>2, <3>1
      <4>2. goodNow(e)
        BY <2>1, <2>2, <3>1
      <4>3. trueNow(e, r)
        BY <3>1, <4>1
      <4> HIDE DEF goodNow, for, trueNow
      <4> QED BY <4>1, <4>2, <4>3
    <3> HIDE DEF goodNow, for, trueNow
    <3> QED BY <2>3, <3>2
  <2>10. CASE UNCHANGED Edge!vars
    <3>1. UNCHANGED <<s1, s2, s3, s6>>
      BY <2>10 DEF Edge!vars
    <3> HIDE DEF good, for, true
    <3> QED BY <2>4, <3>1
  <2> QED BY <2>5, <2>6, <2>7, <2>8, <2>9, <2>10 DEF Edge!Next
<1> QED BY <1>1, <1>2

\* A page the cache gives was kept for a request to the same host, and an answer for a name
\* for one that asked for that name.
LEMMA EdgeShows == Edge!Typed /\ Edge!CacheInv => Edge!PageIsTheHosts /\ Edge!LapsesInTime
<1> SUFFICES ASSUME Edge!Typed, Edge!CacheInv PROVE Edge!PageIsTheHosts /\ Edge!LapsesInTime
  OBVIOUS
<1>1. ASSUME NEW e \in s6, NEW r \in Edge!Request, Edge!Hits(e, r), NEW q \in Edge!Request, Edge!OfRequest(e, q)
      PROVE  /\ r.path = q.path /\ r.name = q.name /\ (~r.routed => r.host = q.host)
             /\ r.path = "page" => r.host = q.host
  <2>1. Edge!Url(r) = Edge!Url(q)
    BY <1>1 DEF Edge!Hits, Edge!OfRequest
  <2>2. /\ r.path = q.path /\ r.name = q.name
        /\ (IF r.routed THEN "router" ELSE r.host) = (IF q.routed THEN "router" ELSE q.host)
    BY <2>1 DEF Edge!Url
  <2>3. \A x \in Edge!Request : x.host # "router" /\ x.host # Edge!None
    BY DEF Edge!Request, Edge!Name, Edge!Apex, Edge!None
  <2>4. (r.routed <=> q.routed) /\ (~r.routed => r.host = q.host)
    BY <2>2, <2>3
  <2>5. ASSUME r.path = "page", r.routed PROVE r.host = q.host
    <3>1. e.by = [h \in {"X-Original-Host"} |-> Edge!Header(q, h)]
      BY <1>1, <2>2, <2>5 DEF Edge!OfRequest
    <3>2. e.by["X-Original-Host"] = Edge!Header(q, "X-Original-Host") /\ "X-Original-Host" \in DOMAIN e.by
      BY <3>1
    <3>3. Edge!Header(r, "X-Original-Host") = Edge!Header(q, "X-Original-Host")
      BY <1>1, <3>2 DEF Edge!Hits
    <3> QED BY <2>4, <2>5, <3>3 DEF Edge!Header
  <2> QED BY <2>2, <2>4, <2>5
<1>2. \A e \in s6 : /\ e.at \in 0..s3 /\ e.answer.age \in Nat /\ s3 < e.at + e.answer.age
                    /\ \E q \in Edge!Request : Edge!OfRequest(e, q)
  BY DEF Edge!CacheInv, Edge!Good
<1>3. Edge!PageIsTheHosts
  <2> SUFFICES ASSUME NEW e \in s6, NEW r \in Edge!Request, Edge!Hits(e, r), r.path = "page"
               PROVE  IF r.host \in Edge!Name THEN e.answer.kind = "profile" /\ e.answer.of = r.host
                                              ELSE e.answer.kind = "app"
    BY DEF Edge!PageIsTheHosts
  <2>1. PICK q \in Edge!Request : Edge!OfRequest(e, q)
    BY <1>2
  <2>2. r.path = q.path /\ r.host = q.host
    BY <1>1, <2>1
  <2> QED BY <2>1, <2>2 DEF Edge!OfRequest
<1>4. Edge!LapsesInTime
  <2> SUFFICES ASSUME NEW e \in s6, NEW r \in Edge!Request, Edge!Hits(e, r), e.answer.pk # Edge!None,
                      r.path = "page" \/ ~r.routed \/ r.name # Edge!None
               PROVE  \/ /\ e.answer.pk = s1[Edge!NameOf(r)].pk
                         /\ r.host \in Edge!Name => s1[Edge!NameOf(r)].active
                      \/ s3 < s2[Edge!NameOf(r)] + e.answer.age
    BY DEF Edge!LapsesInTime
  <2>1. PICK q \in Edge!Request : Edge!OfRequest(e, q)
    BY <1>2
  <2>2. r.path = q.path /\ r.name = q.name /\ (~r.routed => r.host = q.host)
        /\ (r.path = "page" => r.host = q.host)
    BY <1>1, <2>1
  <2>3. \A x \in Edge!Request : x.name # Edge!None => x.host = Edge!Apex
    BY DEF Edge!Request, Edge!Name, Edge!Apex, Edge!None
  <2>4. r.host = q.host
    BY <2>2, <2>3
  <2>5. Edge!NameOf(r) = Edge!NameOf(q)
    BY <2>2, <2>4 DEF Edge!NameOf
  <2>6. /\ Edge!NameOf(r) \in Edge!Name
        /\ \/ /\ e.answer.pk = s1[Edge!NameOf(r)].pk
              /\ r.host \in Edge!Name => s1[Edge!NameOf(r)].active
           \/ e.at <= s2[Edge!NameOf(r)]
    BY <2>1, <2>4, <2>5 DEF Edge!OfRequest
  <2>7. s2[Edge!NameOf(r)] \in 0..s3 /\ s3 \in Nat
    BY <2>6 DEF Edge!Typed
  <2> QED BY <1>2, <2>6, <2>7
<1> QED BY <1>3, <1>4

\* The worker's caches and requests are what they seem.
LEMMA AppTyped ==
  /\ App!Init => App!Typed
  /\ App!Typed /\ [App!Next]_(App!vars) => App!Typed'
<1>1. App!Init => App!Typed
  BY DEF App!Init, App!Typed, App!Nothing
<1>2. App!Typed /\ [App!Next]_(App!vars) => App!Typed'
  <2> SUFFICES ASSUME App!Typed, [App!Next]_(App!vars) PROVE App!Typed'
    OBVIOUS
  <2>1. /\ s1 \in Nat /\ s6 \in Nat /\ s8 \in [App!Request -> Int]
        /\ s3 \in [App!Cache -> [App!Request -> Int]] /\ s4 \subseteq App!Sent
    BY DEF App!Typed
  <2>2. \A f \in s4 : f.id \in Nat /\ f.r \in App!Request /\ f.behind \in BOOLEAN /\ f.v \in Int /\ f.lost \in BOOLEAN
                      /\ f = [id |-> f.id, r |-> f.r, behind |-> f.behind, v |-> f.v, lost |-> f.lost]
    BY <2>1 DEF App!Sent
  <2>3. App!FLUTTER_CACHE \in App!Cache /\ App!API_CACHE \in App!Cache /\ App!OLD_CACHE \in App!Cache
        /\ App!FLUTTER_CACHE # App!API_CACHE /\ App!FLUTTER_CACHE # App!OLD_CACHE
    BY DEF App!Cache, App!FLUTTER_CACHE, App!API_CACHE, App!OLD_CACHE
  <2>4. CASE App!Install
    <3> DEFINE new == [r \in App!Request |-> IF r \in App!PRECACHE_ASSETS THEN s1 ELSE s3[App!FLUTTER_CACHE][r]]
    <3>1. /\ s3' = [s3 EXCEPT ![App!FLUTTER_CACHE] = new, ![App!OLD_CACHE] = App!Nothing]
          /\ UNCHANGED <<s1, s4, s6, s8>>
      BY <2>4 DEF App!Install
    <3>2. new \in [App!Request -> Int] /\ App!Nothing \in [App!Request -> Int]
      BY <2>1, <2>3 DEF App!Nothing
    <3> HIDE DEF new
    <3>3. s3' \in [App!Cache -> [App!Request -> Int]]
      BY <2>1, <3>1, <3>2
    <3> QED BY <2>1, <3>1, <3>3 DEF App!Typed
  <2>5. CASE App!Clear
    <3>1. /\ s3' = [c \in App!Cache |-> App!Nothing]
          /\ s4' = {[f EXCEPT !.lost = ~App!isApiRequest(f.r)] : f \in s4}
          /\ UNCHANGED <<s1, s6, s8>>
      BY <2>5 DEF App!Clear
    <3>2. ASSUME NEW f \in s4 PROVE [f EXCEPT !.lost = ~App!isApiRequest(f.r)] \in App!Sent
      <4> DEFINE lost == ~App!isApiRequest(f.r)
      <4>1. lost \in BOOLEAN
        BY DEF App!isApiRequest
      <4> HIDE DEF lost
      <4>2. [f EXCEPT !.lost = lost] = [id |-> f.id, r |-> f.r, behind |-> f.behind, v |-> f.v, lost |-> lost]
        BY <2>2
      <4>3. [f EXCEPT !.lost = lost] \in App!Sent
        BY <2>2, <4>1, <4>2 DEF App!Sent
      <4> QED BY <4>3 DEF lost
    <3>3. s4' \subseteq App!Sent
      BY <3>1, <3>2
    <3>4. s3' \in [App!Cache -> [App!Request -> Int]]
      BY <3>1 DEF App!Nothing
    <3> QED BY <2>1, <3>1, <3>3, <3>4 DEF App!Typed
  <2>6. ASSUME NEW r \in App!Request, App!Ask(r) PROVE App!Typed'
    <3> DEFINE hit == App!CacheFirst(r) /\ App!Kept(r) # 0
               f == [id |-> s6, r |-> r, behind |-> hit, v |-> 0, lost |-> FALSE]
    <3>1. /\ s4' = s4 \/ s4' = s4 \cup {f}
          /\ s6' = s6 + 1 /\ s8' = [s8 EXCEPT ![r] = s1] /\ UNCHANGED <<s1, s3>>
      BY <2>6 DEF App!Ask
    <3>2. hit \in BOOLEAN
      BY DEF App!CacheFirst
    <3> HIDE DEF hit
    <3>3. f \in App!Sent
      BY <2>1, <3>2 DEF App!Sent
    <3> HIDE DEF f
    <3>4. s8' \in [App!Request -> Int] /\ s6' \in Nat
      BY <2>1, <3>1
    <3> QED BY <2>1, <3>1, <3>3, <3>4 DEF App!Typed
  <2>7. CASE App!AskThrough \/ App!Deploy \/ App!Switch \/ UNCHANGED App!vars
    BY <2>1, <2>7 DEF App!AskThrough, App!Deploy, App!Switch, App!vars, App!Typed
  <2>8. ASSUME NEW f \in s4, App!Reply(f) PROVE App!Typed'
    <3>1. PICK v \in {s1, App!Error} : s4' = (s4 \ {f}) \cup {[f EXCEPT !.v = v]}
      BY <2>8 DEF App!Reply
    <3>2. v \in Int
      BY <2>1 DEF App!Error
    <3>3. [f EXCEPT !.v = v] \in App!Sent
      BY <2>2, <3>2 DEF App!Sent
    <3>4. UNCHANGED <<s1, s6, s8, s3>>
      BY <2>8 DEF App!Reply
    <3> QED BY <2>1, <3>1, <3>3, <3>4 DEF App!Typed
  <2>9. ASSUME NEW f \in s4, App!Arrive(f) \/ App!Fail(f) PROVE App!Typed'
    <3>1. /\ s4' = s4 \ {f} /\ UNCHANGED <<s1, s6, s8>>
          /\ \/ s3' = s3
             \/ \E c \in App!Cache : s3' = [s3 EXCEPT ![c][f.r] = f.v]
      BY <2>3, <2>9 DEF App!Arrive, App!Fail
    <3>2. s3' \in [App!Cache -> [App!Request -> Int]]
      BY <2>1, <2>2, <3>1
    <3> QED BY <2>1, <3>1, <3>2 DEF App!Typed
  <2> QED BY <2>4, <2>5, <2>6, <2>7, <2>8, <2>9 DEF App!Next
<1> QED BY <1>1, <1>2

\* A file of which nothing was missed is in the cache as it was when asked for, or on its way.
LEMMA FileStep ==
  /\ App!Init => App!FileInv
  /\ App!Typed /\ App!FileInv /\ [App!Next]_(App!vars) => App!FileInv'
<1>1. App!Init => App!FileInv
  BY DEF App!Init, App!FileInv, App!Nothing, App!Cache, App!FLUTTER_CACHE
<1>2. App!Typed /\ App!FileInv /\ [App!Next]_(App!vars) => App!FileInv'
  <2> SUFFICES ASSUME App!Typed, App!FileInv, [App!Next]_(App!vars) PROVE App!FileInv'
    OBVIOUS
  <2> DEFINE ok(r) == /\ \A f \in s4 : f.r = r =>
                           /\ ~f.lost /\ (f.v \in {0, App!Error} \/ f.v >= s8[r])
                           /\ \A g \in s4 : g.r = r => g = f
                      /\ (\A f \in s4 : f.r # r) =>
                           s3[App!FLUTTER_CACHE][r] = 0 \/ s3[App!FLUTTER_CACHE][r] >= s8[r]
             okNow(r) == /\ \A f \in s4' : f.r = r =>
                              /\ ~f.lost /\ (f.v \in {0, App!Error} \/ f.v >= s8'[r])
                              /\ \A g \in s4' : g.r = r => g = f
                         /\ (\A f \in s4' : f.r # r) =>
                              s3'[App!FLUTTER_CACHE][r] = 0 \/ s3'[App!FLUTTER_CACHE][r] >= s8'[r]
  <2>1. /\ s1 \in Nat /\ s6 \in Nat /\ s8 \in [App!Request -> Int]
        /\ s3 \in [App!Cache -> [App!Request -> Int]] /\ s4 \subseteq App!Sent
    BY DEF App!Typed
  <2>2. \A f \in s4 : f.id \in Nat /\ f.r \in App!Request /\ f.behind \in BOOLEAN /\ f.v \in Int /\ f.lost \in BOOLEAN
                      /\ f = [id |-> f.id, r |-> f.r, behind |-> f.behind, v |-> f.v, lost |-> f.lost]
    BY <2>1 DEF App!Sent
  <2>3. App!FLUTTER_CACHE \in App!Cache /\ App!API_CACHE \in App!Cache /\ App!OLD_CACHE \in App!Cache
        /\ App!FLUTTER_CACHE # App!API_CACHE /\ App!FLUTTER_CACHE # App!OLD_CACHE
    BY DEF App!Cache, App!FLUTTER_CACHE, App!API_CACHE, App!OLD_CACHE
  <2>4. /\ \A r \in App!Request : s8[r] <= s1
        /\ \A r \in App!Request : App!AsksBehind(r) /\ r \notin s9 => ok(r)
    BY DEF App!FileInv
  <2>5. \A r \in App!Request : App!AsksBehind(r) => ~App!isApiRequest(r) /\ r # "analytics"
    BY DEF App!AsksBehind, App!isFlutterAsset, App!isFontRequest, App!isApiRequest
  <2>6. ASSUME \A r \in App!Request : s8'[r] <= s1',
               \A r \in App!Request : App!AsksBehind(r) /\ r \notin s9' => okNow(r)
        PROVE  App!FileInv'
    BY <2>6 DEF App!FileInv, App!AsksBehind
  <2>7. ASSUME s1' \in Nat, s1 <= s1', UNCHANGED <<s3, s4, s8, s9>> PROVE App!FileInv'
    <3>1. \A r : okNow(r) <=> ok(r)
      BY <2>7
    <3>2. \A r \in App!Request : s8'[r] <= s1'
      BY <2>1, <2>4, <2>7
    <3> HIDE DEF ok, okNow
    <3> QED BY <2>4, <2>6, <2>7, <3>1, <3>2
  <2>8. CASE App!Install
    <3> DEFINE new == [r \in App!Request |-> IF r \in App!PRECACHE_ASSETS THEN s1 ELSE s3[App!FLUTTER_CACHE][r]]
    <3>1. /\ s3' = [s3 EXCEPT ![App!FLUTTER_CACHE] = new, ![App!OLD_CACHE] = App!Nothing]
          /\ UNCHANGED <<s1, s4, s8, s9>>
      BY <2>8 DEF App!Install
    <3> HIDE DEF new
    <3>2. s3'[App!FLUTTER_CACHE] = new
      BY <2>1, <2>3, <3>1
    <3>3. ASSUME NEW r \in App!Request PROVE new[r] = s1 \/ new[r] = s3[App!FLUTTER_CACHE][r]
      BY DEF new
    <3>4. ASSUME NEW r \in App!Request, App!AsksBehind(r), r \notin s9' PROVE okNow(r)
      <4>1. ok(r) /\ s8[r] <= s1
        BY <2>4, <3>1, <3>4
      <4>2. s3'[App!FLUTTER_CACHE][r] = s3[App!FLUTTER_CACHE][r] \/ s3'[App!FLUTTER_CACHE][r] = s1
        BY <3>2, <3>3
      <4> QED BY <2>1, <3>1, <4>1, <4>2
    <3> HIDE DEF okNow
    <3> QED BY <2>4, <2>6, <3>1, <3>4
  <2>9. CASE App!Clear
    <3>1. /\ s3' = [c \in App!Cache |-> App!Nothing]
          /\ s4' = {[f EXCEPT !.lost = ~App!isApiRequest(f.r)] : f \in s4}
          /\ s9' = s9 \cup {f.r : f \in s4}
          /\ UNCHANGED <<s1, s8>>
      BY <2>9 DEF App!Clear
    <3>2. \A f \in s4 : [f EXCEPT !.lost = ~App!isApiRequest(f.r)].r = f.r
      BY <2>2
    <3>3. \A f \in s4' : f.r \in s9'
      BY <3>1, <3>2
    <3>4. ASSUME NEW r \in App!Request, r \notin s9' PROVE okNow(r)
      <4>1. \A f \in s4' : f.r # r
        BY <3>3, <3>4
      <4>2. s3'[App!FLUTTER_CACHE][r] = 0
        BY <2>3, <3>1 DEF App!Nothing
      <4> QED BY <4>1, <4>2
    <3> HIDE DEF okNow
    <3> QED BY <2>4, <2>6, <3>1, <3>4
  <2>10. ASSUME NEW q \in App!Request, App!Ask(q) PROVE App!FileInv'
    <3> DEFINE hit == App!CacheFirst(q) /\ App!Kept(q) # 0
               f == [id |-> s6, r |-> q, behind |-> hit, v |-> 0, lost |-> FALSE]
    <3>1. /\ s4' = IF ~hit \/ App!AsksBehind(q) THEN s4 \cup {f} ELSE s4
          /\ s8' = [s8 EXCEPT ![q] = s1] /\ UNCHANGED <<s1, s3>>
          /\ s9' = IF \E g \in s4 : g.r = q THEN s9 \cup {q} ELSE s9 \ {q}
      BY <2>10 DEF App!Ask
    <3>2. f.r = q /\ f.lost = FALSE /\ f.v = 0
      OBVIOUS
    <3> HIDE DEF f, hit
    <3>3. s8'[q] = s1 /\ \A r \in App!Request \ {q} : s8'[r] = s8[r]
      BY <2>1, <3>1
    <3>4. \A r \in App!Request : s8'[r] <= s1'
      BY <2>1, <2>4, <3>1, <3>3
    <3>5. ASSUME NEW r \in App!Request, App!AsksBehind(r), r \notin s9' PROVE okNow(r)
      <4>1. CASE r = q
        <5>1. \A g \in s4 : g.r # q
          BY <3>1, <3>5, <4>1
        <5>2. s4' = s4 \cup {f}
          BY <3>1, <3>5, <4>1
        <5> QED BY <3>2, <4>1, <5>1, <5>2
      <4>2. CASE r # q
        <5>1. ok(r)
          BY <2>4, <3>1, <3>5, <4>2
        <5>2. \A g \in s4' : g.r = r => g \in s4
          BY <3>1, <3>2, <4>2
        <5>3. s4 \subseteq s4' /\ s8'[r] = s8[r] /\ s3' = s3
          BY <3>1, <3>3, <4>2
        <5> QED BY <5>1, <5>2, <5>3
      <4> QED BY <4>1, <4>2
    <3> HIDE DEF okNow
    <3> QED BY <2>6, <3>4, <3>5
  <2>11. ASSUME NEW f \in s4, App!Reply(f) PROVE App!FileInv'
    <3>1. PICK v \in {s1, App!Error} : s4' = (s4 \ {f}) \cup {[f EXCEPT !.v = v]}
      BY <2>11 DEF App!Reply
    <3> DEFINE g == [f EXCEPT !.v = v]
    <3>2. g.r = f.r /\ g.lost = f.lost /\ g.v = v
      BY <2>2
    <3>3. UNCHANGED <<s1, s8, s3, s9>> /\ s4' = (s4 \ {f}) \cup {g}
      BY <2>11, <3>1 DEF App!Reply
    <3> HIDE DEF g
    <3>4. ASSUME NEW r \in App!Request, App!AsksBehind(r), r \notin s9' PROVE okNow(r)
      <4>1. ok(r) /\ s8[r] <= s1
        BY <2>4, <3>3, <3>4
      <4>2. v = App!Error \/ v >= s8[r]
        BY <2>1, <4>1
      <4>3. CASE f.r = r
        <5>1. ~f.lost /\ \A h \in s4 : h.r = r => h = f
          BY <4>1, <4>3
        <5>2. \A h \in s4' : h.r = r => h = g
          BY <3>3, <5>1
        <5>3. g \in s4'
          BY <3>3
        <5> QED BY <3>2, <3>3, <4>2, <4>3, <5>1, <5>2, <5>3
      <4>4. CASE f.r # r
        <5>1. \A h \in s4' : h.r = r => h \in s4
          BY <3>2, <3>3, <4>4
        <5>2. \A h \in s4 : h.r = r => h \in s4'
          BY <3>3, <4>4
        <5> QED BY <3>3, <4>1, <5>1, <5>2
      <4> QED BY <4>3, <4>4
    <3> HIDE DEF okNow
    <3> QED BY <2>4, <2>6, <3>3, <3>4
  <2>12. ASSUME NEW f \in s4, App!Arrive(f) \/ App!Fail(f) PROVE App!FileInv'
    <3> DEFINE c == IF App!isApiRequest(f.r) THEN App!API_CACHE ELSE App!FLUTTER_CACHE
    <3>1. /\ s4' = s4 \ {f} /\ UNCHANGED <<s1, s8>> /\ s9 \subseteq s9'
          /\ f.r \in s9' \/ (App!Arrive(f) /\ f.v # 0 /\ f.v # App!Error)
          /\ \/ s3' = s3 /\ (f.r \in s9' \/ f.lost)
             \/ s3' = [s3 EXCEPT ![c][f.r] = f.v]
      BY <2>12 DEF App!Arrive, App!Fail
    <3>2. c \in App!Cache
      BY <2>3
    <3>3. ASSUME NEW r \in App!Request, App!AsksBehind(r), r \notin s9' PROVE okNow(r)
      <4>1. ok(r)
        BY <2>4, <3>1, <3>3
      <4>2. CASE f.r = r
        <5>1. /\ ~f.lost /\ f.v >= s8[r] /\ \A h \in s4 : h.r = r => h = f
          BY <3>1, <3>3, <4>1, <4>2
        <5>2. \A h \in s4' : h.r # r
          BY <3>1, <5>1
        <5>3. c = App!FLUTTER_CACHE
          BY <2>5, <3>3, <4>2
        <5>4. s3' = [s3 EXCEPT ![App!FLUTTER_CACHE][r] = f.v]
          BY <3>1, <3>3, <4>2, <5>1, <5>3
        <5>5. s3'[App!FLUTTER_CACHE][r] = f.v
          BY <2>1, <2>3, <5>4
        <5> QED BY <3>1, <5>1, <5>2, <5>5
      <4>3. CASE f.r # r
        <5>1. s3'[App!FLUTTER_CACHE][r] = s3[App!FLUTTER_CACHE][r]
          BY <2>1, <2>2, <2>3, <3>1, <3>2, <4>3
        <5>2. \A h : h.r = r => (h \in s4' <=> h \in s4)
          BY <3>1, <4>3
        <5> QED BY <3>1, <4>1, <5>1, <5>2
      <4> QED BY <4>2, <4>3
    <3> HIDE DEF okNow
    <3> QED BY <2>4, <2>6, <3>1, <3>3
  <2>13. CASE App!AskThrough \/ App!Switch \/ UNCHANGED App!vars
    <3>1. UNCHANGED <<s1, s3, s4, s8, s9>>
      BY <2>13 DEF App!AskThrough, App!Switch, App!vars
    <3> QED BY <2>1, <2>7, <3>1
  <2>14. CASE App!Deploy
    BY <2>1, <2>7, <2>14 DEF App!Deploy
  <2> QED BY <2>8, <2>9, <2>10, <2>11, <2>12, <2>13, <2>14 DEF App!Next
<1> QED BY <1>1, <1>2

\* A file that no request is under way for is there.
LEMMA AppShows == App!FileInv => App!CatchesUp
<1> SUFFICES ASSUME App!FileInv, NEW r \in App!Request, App!isFlutterAsset(r) \/ App!isFontRequest(r),
                    r \notin s9, App!Kept(r) # 0, ~\E f \in s4 : f.r = r
             PROVE  App!Kept(r) >= s8[r]
  BY DEF App!CatchesUp
<1>1. App!AsksBehind(r) /\ ~App!isApiRequest(r)
  BY DEF App!AsksBehind, App!isFlutterAsset, App!isFontRequest, App!isApiRequest
<1>2. App!Kept(r) = s3[App!FLUTTER_CACHE][r]
  BY <1>1 DEF App!Kept
<1> QED BY <1>1, <1>2 DEF App!FileInv

\* KeptIsCurrent for any ages, changes of names, deployments and requests: by CacheInv what
\* the edge keeps (index.js) answered some request, and whom it names holds the name or it
\* has changed since; by FileInv a file (sw.js) is there, as new as it was when asked
\* for, or on its way by one request.
THEOREM KeptIsCurrentHolds == Spec => []KeptIsCurrent
<1> DEFINE EInv == part = "Edge" => Edge!Typed /\ Edge!CacheInv
           AInv == part = "App" => App!Typed /\ App!FileInv
<1>1. Init => EInv
  <2> SUFFICES ASSUME Init, part = "Edge" PROVE Edge!Typed /\ Edge!CacheInv
    OBVIOUS
  <2>1. Edge!Init
    BY DEF Init
  <2> QED BY <2>1, EdgeTyped, CacheStep
<1>2. Init => AInv
  <2> SUFFICES ASSUME Init, part = "App" PROVE App!Typed /\ App!FileInv
    OBVIOUS
  <2>1. App!Init
    BY DEF Init
  <2> QED BY <2>1, AppTyped, FileStep
<1>3. EInv /\ [Next]_vars => EInv'
  <2> SUFFICES ASSUME EInv, [Next]_vars, part' = "Edge"
               PROVE  (Edge!Typed /\ Edge!CacheInv)'
    OBVIOUS
  <2>1. part = "Edge" /\ [Edge!Next]_(Edge!vars)
    BY DEF Next, vars, Edge!vars
  <2> QED BY <2>1, EdgeTyped, CacheStep
<1>4. AInv /\ [Next]_vars => AInv'
  <2> SUFFICES ASSUME AInv, [Next]_vars, part' = "App"
               PROVE  (App!Typed /\ App!FileInv)'
    OBVIOUS
  <2>1. part = "App" /\ [App!Next]_(App!vars)
    BY DEF Next, vars, App!vars
  <2> QED BY <2>1, AppTyped, FileStep
<1>5. EInv => (part = "Edge" => Edge!PageIsTheHosts /\ Edge!LapsesInTime)
  BY EdgeShows
<1>6. AInv => (part = "App" => App!CatchesUp)
  BY AppShows
<1>7. EInv /\ AInv => KeptIsCurrent
  BY <1>5, <1>6 DEF KeptIsCurrent
<1> QED BY <1>1, <1>2, <1>3, <1>4, <1>7, PTL DEF Spec

=============================================================================
