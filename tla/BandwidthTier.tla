---------------------------- MODULE BandwidthTier ----------------------------
(***************************************************************************)
(* How fast the client thinks its line is (lib/bandwidthTracker.ts): every *)
(* player tells how long its video took, the tracker keeps the latest of   *)
(* these loads and takes a tier from their weighted average, and the video *)
(* cards that are shown (useBandwidthTier.ts) ask for the stream of the    *)
(* tier. Time goes in ticks of half the five minutes a load counts for.    *)
(***************************************************************************)
EXTENDS Integers, Sequences, Functions

CONSTANTS MAX_SAMPLES, \* how many loads count (10)
          MaxLoad,     \* bounds the loads
          MaxTime      \* bounds the clock

VARIABLES
  samples, \* the loads that count, each with its speed in Mbps and its time
  tier,    \* low, medium or high
  cards,   \* the cards on the page, each with the stream it asks for
  due,     \* the cards to be rendered again
  clock,
  loads    \* history: all loads that were told and not ignored

vars == <<samples, tier, cards, due, clock, loads>>

-----------------------------------------------------------------------------

Card == {"c1", "c2"}
\* Speeds below, at and above the thresholds.
Speed == {1, 2, 4, 5, 9}
SAMPLE_MAX_AGE == 2
Tier == {"low", "medium", "high"}
None == "none"

\* 480p on a slow line, else what the player finds best.
getOptimalVideoUrl(t) == IF t = "low" THEN "480p" ELSE "adaptive"

Init ==
  /\ samples = << >> /\ loads = << >> /\ tier = "medium"
  /\ cards = [c \in Card |-> None] /\ due = {} /\ clock = 0

Class(mbps, per) == IF mbps < 2 * per THEN "low" ELSE IF mbps < 5 * per THEN "medium" ELSE "high"

\* The later a load, the more it weighs: the sum of the weighted speeds and of the weights.
Weighted(list) == FoldFunction(+, 0, [i \in DOMAIN list |-> i * list[i].mbps])
Weight(list) == (Len(list) * (Len(list) + 1)) \div 2

Fresh_All(list) == list

\* Those younger than five minutes.
Fresh(list) == SelectSeq(list, LAMBDA s : s.at > clock - SAMPLE_MAX_AGE)

Last_First(list) == SubSeq(list, 1, IF Len(list) < MAX_SAMPLES THEN Len(list) ELSE MAX_SAMPLES)

\* Mutant: nothing is cut off.
Last10_All(list) == list

\* The last ten.
Last10(list) == SubSeq(list, IF Len(list) < MAX_SAMPLES THEN 1 ELSE Len(list) - MAX_SAMPLES + 1, Len(list))

\* One load says nothing.
TierOf(list) ==
  IF Len(list) < 2 THEN tier ELSE Class(Weighted(list), Weight(list))

Listeners_None == {}

\* The cards that are shown listen for changes.
Listeners == {c \in Card : cards[c] # None}

\* A player tells of a load. Loads of less than 50 ms or more than 30 s, and of less than
\* ten kilobytes, are ignored.
recordLoad(mbps) ==
  /\ Len(loads) < MaxLoad
  /\ loads' = Append(loads, [mbps |-> mbps, at |-> clock])
  /\ samples' = Last10(Fresh(Append(samples, [mbps |-> mbps, at |-> clock])))
  /\ tier' = TierOf(samples')
  /\ due' = IF tier' # tier THEN due \cup Listeners ELSE due
  /\ UNCHANGED <<cards, clock>>

\* A card comes on the page, rendered with the tier of the moment, and goes again.
Mount(c) ==
  /\ cards[c] = None
  /\ cards' = [cards EXCEPT ![c] = getOptimalVideoUrl(tier)]
  /\ UNCHANGED <<samples, tier, due, clock, loads>>

Unmount(c) ==
  /\ cards[c] # None
  /\ cards' = [cards EXCEPT ![c] = None] /\ due' = due \ {c}
  /\ UNCHANGED <<samples, tier, clock, loads>>

Render(c) ==
  /\ c \in due /\ due' = due \ {c}
  /\ cards' = [cards EXCEPT ![c] = getOptimalVideoUrl(tier)]
  /\ UNCHANGED <<samples, tier, clock, loads>>

Tick ==
  /\ clock < MaxTime /\ clock' = clock + 1
  /\ UNCHANGED <<samples, tier, cards, due, loads>>

Next ==
  \/ \E s \in Speed : recordLoad(s)
  \/ \E c \in Card : Mount(c) \/ Unmount(c) \/ Render(c)
  \/ Tick

Spec == Init /\ [][Next]_vars

-----------------------------------------------------------------------------
(* Properties. *)

TypeOK ==
  /\ Len(samples) <= MAX_SAMPLES /\ tier \in Tier /\ due \subseteq Card
  /\ \A i \in DOMAIN samples : samples[i].mbps \in Speed /\ samples[i].at \in 0..MaxTime
  /\ cards \in [Card -> {None, "480p", "adaptive"}] /\ clock \in 0..MaxTime

\* The tier is the one its loads have in common, if the last loads, as many as count and
\* from the five minutes before the latest, have one in common: no load that is too old,
\* or too far back, weighs against them.
TierIsOfTheLast ==
  LET n == Len(loads)
      recent == {i \in 1..n : i > n - MAX_SAMPLES /\ loads[i].at > loads[n].at - SAMPLE_MAX_AGE}
      tiers == {Class(loads[i].mbps, 1) : i \in recent}
  IN \A t \in Tier : n > 1 /\ n - 1 \in recent /\ tiers = {t} => tier = t

\* A card that is not about to be rendered asks for the stream of the tier.
CardsFollow ==
  \A c \in Card : cards[c] # None /\ c \notin due => cards[c] = getOptimalVideoUrl(tier)

-----------------------------------------------------------------------------
(* The inductive invariant of CardsFollow. *)

CardsInv ==
  /\ cards \in [Card -> {None, "480p", "adaptive"}] /\ due \subseteq Card
  /\ CardsFollow
=============================================================================
