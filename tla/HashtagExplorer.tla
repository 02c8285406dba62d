--------------------------- MODULE HashtagExplorer ---------------------------
(***************************************************************************)
(* The explorer of hashtags: the hundred most popular, filtered by what is *)
(* typed, of which a window is shown that grows when a sentinel below the  *)
(* cards comes into view. An observer tells of the sentinel entering the   *)
(* view and leaving it, and once when it begins to observe.                *)
(*                                                                         *)
(* The cards are left out. A screen holds Screen of them.                  *)
(***************************************************************************)
EXTENDS Integers, FiniteSets

CONSTANTS
  Initial, More,  \* INITIAL_LOAD, LOAD_MORE_COUNT
  Total,          \* tags the server has
  Screen,         \* cards the screen holds, the margin of 200 px included
  MaxAct          \* bound: searches

VARIABLES
  tags,      \* the answer: not there, failed, or how many
  search,    \* how many tags match what is typed; Total if nothing is
  visible,   \* state visibleCount
  scrolled,  \* cards above the top of the screen
  seen,      \* what the observer saw last; "new" if it has not looked yet
  acts

vars == <<tags, search, visible, scrolled, seen, acts>>

Min2(a, b) == IF a < b THEN a ELSE b

TypeOK ==
  /\ tags \in -2..Total /\ search \in 0..Total /\ visible \in Nat /\ scrolled \in 0..Total
  /\ seen \in {"none", "new", "in", "out"} /\ acts \in 0..MaxAct

Filtered == IF tags < 0 THEN 0 ELSE Min2(search, tags)
Shown == Min2(visible, Filtered)
HasMore == visible < Filtered

\* The sentinel is there with the cards, below the last of them.
InView == Shown - scrolled <= Screen

Init ==
  /\ tags = -1 /\ search = Total /\ visible = Initial /\ scrolled = 0 /\ seen = "none"
  /\ acts = 0

Act == acts < MaxAct /\ acts' = acts + 1

\* The effect of the observer: made anew when hasMore or the number of tags has changed.
Observed ==
  seen' = IF Filtered' = 0 THEN "none"
          ELSE IF Filtered' # Filtered \/ HasMore' # HasMore THEN "new" ELSE seen

\* The page is never scrolled beyond its end.
Held == scrolled' = IF Shown' - scrolled < 0 THEN Shown' ELSE scrolled

Answer ==
  /\ tags = -1 /\ tags' \in {-2, Initial, Total}
  /\ UNCHANGED <<search, visible, scrolled, acts>> /\ Observed

\* Mutant: what was loaded for the last search is there for the next.
Reset_Not == visible

\* The effect on the search.
Reset == Initial

Search ==
  /\ Act /\ tags # -2 /\ search' \in (0..Total) \ {search}
  /\ visible' = Reset /\ UNCHANGED tags /\ Observed /\ Held

Grown == Min2(visible + More, Filtered)

\* The observer tells of a change of what it saw; with the sentinel in view the window grows.
Tells ==
  /\ seen # "none" /\ seen # (IF InView THEN "in" ELSE "out")
  /\ IF InView /\ HasMore THEN visible' = Grown ELSE UNCHANGED visible
  /\ UNCHANGED <<tags, search, scrolled, acts>>
  /\ seen' = IF HasMore' # HasMore THEN "new" ELSE IF InView THEN "in" ELSE "out"

\* The user scrolls, as far as the page goes.
Scroll ==
  /\ scrolled' \in {scrolled - 1, scrolled + 1} /\ scrolled' >= 0
  /\ scrolled' <= Shown - Screen \/ scrolled' < scrolled
  /\ UNCHANGED <<tags, search, visible, seen, acts>>

Next == Answer \/ Search \/ Tells \/ Scroll

Spec == Init /\ [][Next]_vars

-----------------------------------------------------------------------------
(* Properties. *)

\* The window never says there is less than there is, or more: "Showing all" is true.
WindowFits == tags >= 0 => (visible = Initial \/ visible <= Filtered)

=============================================================================
