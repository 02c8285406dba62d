------------------------------ MODULE FeedPages -------------------------------
(***************************************************************************)
(* How a feed is read page by page while videos are published: by offset,  *)
(* by time, from a random place with wrapping around, or by asking a relay *)
(* for everything up to the page, in the relay's order or sorted anew.     *)
(* Pages are put together without the videos that do not parse, and each   *)
(* video is shown once.                                                    *)
(*                                                                         *)
(* A server's feed is the sequence of its videos, best first. A video's    *)
(* number tells its time, and one video may be of the same second as the   *)
(* one before it. Nothing is removed or moved in it while it is read.      *)
(***************************************************************************)
EXTENDS Integers, Sequences, SequencesExt, FiniteSets

CONSTANTS
  PageSize,
  First,     \* how many videos there are at first
  MaxVideo,  \* bound: videos
  MaxRead    \* bound: pages read

VARIABLES
  kind,      \* where the feed is read
  rank,      \* the server's feed
  twin,      \* the video of the same second as the one numbered before it, 0 if none is
  bad,       \* the videos that do not parse, or are hidden for the viewer
  start,     \* randomStartOffset
  pages,     \* the pages of the query, each with the videos and its parameter
  anew,      \* the pages of a refetch under way
  base,      \* history: the videos the server had when the first page was read
  again,     \* the same for the refetch
  reads

vars == <<kind, rank, twin, bad, start, pages, anew, base, again, reads>>

Nothing == -1
Kind == {"recent", "sorted", "profile", "foryou", "classics", "relay", "relaySorted", "relayResorted"}
ByTime == {"recent", "relay"}
Sorted == {"relaySorted", "relayResorted"}
Api == Kind \ ({"relay"} \cup Sorted)
Top == First

Page == [videos : Seq(1..MaxVideo), next : -1..(MaxVideo + PageSize)]

TypeOK ==
  /\ kind \in Kind /\ ToSet(rank) \cup bad \cup base \cup again \subseteq 1..MaxVideo
  /\ twin \in 0..MaxVideo /\ start \in 0..Top /\ reads \in 0..MaxRead
  /\ \A p \in ToSet(pages) \cup ToSet(anew) : p \in Page /\ Len(p.videos) <= PageSize

\* created_at, in seconds.
Time(v) == IF twin # 0 /\ v >= twin THEN v - 1 ELSE v

\* The feeds by time, and what is sorted here, come in its order; the others in any.
Init ==
  /\ kind \in Kind /\ bad \in SUBSET (1..MaxVideo)
  /\ rank \in IF kind \in ByTime \cup {"profile", "relayResorted"} THEN {[i \in 1..First |-> First + 1 - i]}
              ELSE {[i \in 1..First |-> i], [i \in 1..First |-> First + 1 - i]}
  /\ twin \in IF kind \in ByTime THEN {0} \cup 2..MaxVideo ELSE {0}
  /\ start \in IF kind = "classics" THEN {k * PageSize : k \in 0..(Top \div PageSize) - 1}
               ELSE {0}
  /\ pages = <<>> /\ anew = <<>> /\ base = {} /\ again = {} /\ reads = 0

-----------------------------------------------------------------------------
(* One page. *)

Slice(vs, from, to) == SubSeq(vs, from + 1, IF to < Len(vs) THEN to ELSE Len(vs))

\* A row of the API, and an event of a relay, that can be made a video of.
transformFunnelcakeVideo(v) == v \notin bad
Parses(v) == v \notin bad
Parsed(vs) == SelectSeq(vs, Parses)

\* A row that throws is left out. A server's rows are different videos, so that none is
\* left out as another row of the same.
transformFunnelcakeResponse(vs) == SelectSeq(vs, transformFunnelcakeVideo)

\* Mutants: whether there is more is judged by what parses; the offset passes over one.
HasMore_Parsed(vs) == Len(Parsed(vs)) >= PageSize
OffsetAfter_Skips(from, vs) == from + Len(vs) + 1

HasMore(vs) == Len(vs) >= PageSize
OffsetAfter(from, vs) == from + Len(vs)

\* The page made of an answer: its cursor counts only where there is more.
transformToVideoPage(vs, cursor) ==
  [videos |-> transformFunnelcakeResponse(vs), next |-> IF HasMore(vs) THEN cursor ELSE Nothing]

\* fetchVideos, fetchUserVideos and fetchRecommendations with an offset.
ByOffset(from) ==
  LET vs == Slice(rank, from, from + PageSize)
  IN  transformToVideoPage(vs, OffsetAfter(from, vs))

\* fetchVideos with sort recent: older than the last one.
ByCreation(before) ==
  LET older == SelectSeq(rank, LAMBDA v : before = 0 \/ Time(v) < before)
      vs == Slice(older, 0, PageSize)
  IN  transformToVideoPage(vs, IF vs = <<>> THEN Nothing ELSE Time(Last(vs)))

\* useInfiniteVideos without a sort mode: until is one second before the last video.
FromRelay(until) ==
  LET older == SelectSeq(rank, LAMBDA v : until = 0 \/ Time(v) <= until)
      vs == Parsed(Slice(older, 0, PageSize))
  IN  [videos |-> vs, next |-> IF vs = <<>> THEN Nothing ELSE Time(Last(vs)) - 1]

\* The classics and the hashtags are sorted here, by loops; the older have more of them.
SortedHere(vs) == IF kind = "relayResorted" THEN SetToSortSeq(ToSet(vs), <) ELSE vs

\* With one: the relay knows no offset, and what it sends is cut.
FromSortedRelay(offset) ==
  LET videos == SortedHere(Parsed(Slice(rank, 0, offset + PageSize)))
      vs == Slice(videos, offset, offset + PageSize)
  IN  [videos |-> vs, next |-> IF Len(vs) = PageSize THEN offset + Len(vs) ELSE Nothing]

\* The answer to a page's parameter, 0 for the first page.
Read(param) ==
  CASE kind = "recent" -> ByCreation(param)
    [] kind = "relay" -> FromRelay(param)
    [] kind \in Sorted -> FromSortedRelay(param)
    [] kind = "classics" -> ByOffset(param)
    [] OTHER -> ByOffset(param)

\* getNextPageParam: the classics wrap around within the top and stop after all pages.
NextParam(ps) ==
  IF ps = <<>> THEN start
  ELSE IF kind = "classics"
  THEN IF Len(ps) >= Top \div PageSize THEN Nothing
       ELSE (start + Len(ps) * PageSize) % Top
  ELSE IF Last(ps).next = 0 /\ kind = "relay" THEN Nothing ELSE Last(ps).next

\* VideoFeed: the pages in a row, each video once.
Shown == UNION {ToSet(p.videos) : p \in ToSet(pages)}

-----------------------------------------------------------------------------
(* Reading and publishing. *)

\* The feed ends, or scrolls to more; nothing scrolls while no video is shown.
ReadPage ==
  /\ anew = <<>> /\ reads < MaxRead /\ reads' = reads + 1
  /\ pages # <<>> => Shown # {} /\ NextParam(pages) # Nothing
  /\ pages' = Append(pages, Read(NextParam(pages)))
  /\ base' = IF pages = <<>> THEN ToSet(rank) ELSE base
  /\ UNCHANGED <<kind, rank, twin, bad, start, anew, again>>

\* A refetch reads as many pages again, one by one, and replaces them together.
Refetch ==
  /\ pages # <<>> /\ reads < MaxRead /\ reads' = reads + 1
  /\ LET ps == Append(anew, Read(NextParam(anew)))
         seen == IF anew = <<>> THEN ToSet(rank) ELSE again
     IN  IF Len(ps) = Len(pages) \/ NextParam(ps) = Nothing
         THEN pages' = ps /\ base' = seen /\ anew' = <<>> /\ again' = {}
         ELSE anew' = ps /\ again' = seen /\ UNCHANGED <<pages, base>>
  /\ UNCHANGED <<kind, rank, twin, bad, start>>

\* A video comes in, first where the feed is by time; the archive is closed.
Publish ==
  /\ Len(rank) < MaxVideo /\ kind # "classics"
  /\ \E i \in IF kind \in ByTime \cup {"profile", "relayResorted"} THEN {1} ELSE 1..Len(rank) + 1 :
       rank' = InsertAt(rank, i, Len(rank) + 1)
  /\ UNCHANGED <<kind, twin, bad, start, pages, anew, base, again, reads>>

Next == ReadPage \/ Refetch \/ Publish

Spec == Init /\ [][Next]_vars

-----------------------------------------------------------------------------
(* Properties. *)

Before(y, x) == \E i, j \in DOMAIN rank : i < j /\ rank[i] = y /\ rank[j] = x

\* The cursor of a page is a second: the next page goes on before it, and what is left of
\* it is lost.
AtCut(y) == kind \in ByTime /\ \E p \in ToSet(pages) : Time(y) = IF kind = "relay" THEN p.next + 1 ELSE p.next

\* No hole: a video that was there when the first page was read and comes before one
\* that is shown is shown, whatever is published between the pages, unless it is of the
\* second at which a page ended. (Not so in a feed that is sorted here.)
NothingSkipped ==
  kind \notin {"classics", "relayResorted"} =>
    \A x \in Shown, y \in base \ bad : Before(y, x) => y \in Shown \/ AtCut(y)

\* A feed of the API that has come to its end has shown every video there was but those
\* of the second at which a page ended, those of the top for the classics; one of a relay
\* that is not sorted here, if all of them parse.
AllReached ==
  pages # <<>> /\ NextParam(pages) = Nothing /\ (kind \in Api \/ (bad = {} /\ kind # "relayResorted")) =>
    \A y \in base \ bad : y \in Shown \/ AtCut(y)

-----------------------------------------------------------------------------
(* What the comments say and the code does not do. *)

\* While nothing is published the slice of a sorted feed gets only the new page. Not so:
\* what was asked for is sorted before it is cut, and what comes with the second page goes
\* before the first.
NewPagesAreNew ==
  kind \in Sorted /\ base = ToSet(rank) =>
    \A i, j \in DOMAIN pages : i # j => ToSet(pages[i].videos) \cap ToSet(pages[j].videos) = {}
=============================================================================
