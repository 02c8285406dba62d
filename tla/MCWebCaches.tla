----------------------------- MODULE MCWebCaches -----------------------------
(***************************************************************************)
(* The stores of the web client that answer from what they have and catch  *)
(* up behind: the contact list with its four caches, the mute list with    *)
(* its query, and the feeds with the source they are read from. No two of  *)
(* them share state, so that one run checks each of them by itself: a      *)
(* behaviour is one of the part that Init chooses, on common variables.    *)
(***************************************************************************)
EXTENDS Integers, Sequences, FiniteSets, TLC

CONSTANTS Contact, Site, AtFirst, TheirLists, DivineRelay, Muted

VARIABLES
  part,  \* what runs
  s1, s2, s3, s4, s5, s6, s7, s8, s9, s10, s11, s12, s13, s14, s15, s16, s17, s18

vars == <<part, s1, s2, s3, s4, s5, s6, s7, s8, s9, s10, s11, s12, s13, s14, s15, s16, s17,
          s18>>

Contacts == INSTANCE ContactList
  WITH Person <- Contact, Relay <- Site, Start <- AtFirst, Theirs <- TheirLists,
       Divine <- DivineRelay, MaxVersion <- 3, MaxReload <- 0, fol <- s1, relay <- s2,
       mem <- s3, idb <- s4, refresh <- s5, ls <- s6, load <- s7, list <- s8,
       listPc <- s9, rel <- s10, relPc <- s11, stale <- s12, safe <- s13, page <- s14,
       dialog <- s15, mut <- s16, settled <- s17, reloads <- s18
Mutes == INSTANCE MuteLists
  WITH Thing <- Muted, MaxChange <- 2, MaxSecond <- 2, stored <- s1, second <- s2,
       muted <- s3, query <- s4, heard <- s5, changes <- s6, count <- s7, wanted <- s8,
       calm <- s9
Source == INSTANCE FeedSource
  WITH CIRCUIT_BREAKER_THRESHOLD <- 2, Retries <- 2, MaxAct <- 2, errors <- s1,
       recent <- s2, page <- s3, drawn <- s4, source <- s5, query <- s6, follows <- s7,
       names <- s8, acts <- s9

\* The variables a part has no use for.
Idle18 == s18 = {}
Idle17 == s17 = {} /\ Idle18
Idle16 == s16 = {} /\ Idle17
Idle15 == s15 = {} /\ Idle16
Idle14 == s14 = {} /\ Idle15
Idle13 == s13 = {} /\ Idle14
Idle12 == s12 = {} /\ Idle13
Idle11 == s11 = {} /\ Idle12
Idle10 == s10 = {} /\ Idle11

Init ==
  \/ part = "Contacts" /\ Contacts!Init
  \/ part = "Mutes" /\ Mutes!Init /\ Idle10
  \/ part = "Source" /\ Source!Init /\ Idle10

Next ==
  \/ part = "Contacts" /\ Contacts!Next /\ UNCHANGED <<part>>
  \/ part = "Mutes" /\ Mutes!Next /\ UNCHANGED <<part, s10, s11, s12, s13, s14, s15, s16, s17, s18>>
  \/ part = "Source" /\ Source!Next /\ UNCHANGED <<part, s10, s11, s12, s13, s14, s15, s16, s17, s18>>

contacts == Contacts!vars
mutes == Mutes!vars
source == Source!vars

\* FeedSource's Fairness.
Fairness ==
  /\ WF_source(part = "Source" /\ Source!Draw)
  /\ WF_source(part = "Source" /\ Source!AskNames)
  /\ WF_source(part = "Source" /\ Source!NamesAnswer)
  /\ \A f \in {"home", "discovery"}, s \in {"api", "ws"} :
       /\ WF_source(part = "Source" /\ Source!Answer(f, s))
       /\ WF_source(part = "Source" /\ Source!Retry(f, s))

Spec == Init /\ [][Next]_vars /\ Fairness

-----------------------------------------------------------------------------
(* Properties. *)

\* If the user keeps coming back to the home page and what asks the relays again and
\* again gets the answer of each of them at times, the list shown becomes and stays the
\* newest one stored (cachedNostr answers from its cache and refreshes it behind).
FollowListCatchesUp ==
  /\ []<><<part = "Contacts" /\ Contacts!Focus>>_contacts
  /\ SF_contacts(part = "Contacts" /\ Contacts!Answered)
  => <>[](part = "Contacts" => Contacts!ListIsNewest)

\* If pages that need the mute list keep coming and its fetches are at times answered,
\* the list that filters the feed becomes and stays the one stored, although every
\* change invalidates the query before the relay has the new version (useMuteItem).
FilterCatchesUp ==
  /\ []<><<part = "Mutes" /\ Mutes!Mount>>_mutes
  /\ SF_mutes(part = "Mutes" /\ Mutes!MuteRead) /\ SF_mutes(part = "Mutes" /\ Mutes!MuteAnswer)
  => <>[](part = "Mutes" => Mutes!FilterIsStored)

\* Whatever fails, a feed shows videos, that there are none, or an error in the end; it
\* never loads for ever, while sources change, follows load and pages redirect
\* (useVideoProvider and the circuit breaker of funnelcakeHealth).
FeedSettles ==
  part = "Source" /\ Source!Reading ~> part = "Source" /\ Source!Settled

=============================================================================
