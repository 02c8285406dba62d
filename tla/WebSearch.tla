------------------------------ MODULE WebSearch ------------------------------
(***************************************************************************)
(* The search page: the text typed, the order and the tab chosen, the      *)
(* address that follows them half a second later, and the pages of videos  *)
(* read from the relay, for each text and order. A relay may search itself *)
(* (NIP-50), not at all, or fail to; the page then reads the newest videos *)
(* and keeps those that match. A video's number tells the second of its    *)
(* creation; one video may be of the same second as the one before it.     *)
(***************************************************************************)
EXTENDS Integers, Sequences, FiniteSets, Functions

CONSTANTS MaxVideo, PageSize, MaxAct, MaxRead \* bounds: videos, what is typed or clicked, requests

VARIABLES
  matching, broken, nip50,  \* the relay: videos that match, that do not parse; whether it searches
  twin,                     \* the video of the same second as the one numbered before it, or 0
  query, sort, tab,         \* the page's state
  url,                      \* the address: query, order and tab
  timer,                    \* the half second since the last change runs
  others,                   \* the users and hashtags found for the text
  videos,                   \* the query cache: what was read for each text and order
  stage,                    \* the request for the current text and order
  acts, reads

vars == <<matching, broken, nip50, twin, query, sort, tab, url, timer, others, videos, stage, acts, reads>>

Video == 2..MaxVideo + 1
Words == {"#tag", "word"}
Sort == {"relevance", "top"}
Tab == {"all", "videos"}
Key == Words \X Sort
\* What was read: the videos in the order they came, where to go on, whether there is more,
\* and, as history, whether every page that brought events brought a video to show, and the
\* seconds at which a page ended.
Unread == [read |-> FALSE, list |-> <<>>, cursor |-> 0, more |-> TRUE, whole |-> TRUE, cuts |-> {}]

TypeOK ==
  /\ matching \subseteq Video /\ broken \subseteq Video /\ nip50 \in {"yes", "no", "fails"}
  /\ twin \in {0} \cup Video /\ query \in Words \cup {""} /\ sort \in Sort /\ tab \in Tab
  /\ url \in (Words \cup {""}) \X Sort \X Tab /\ timer \in BOOLEAN
  /\ others \in {"loading", "some", "none", "error"}
  /\ \A k \in Key :
       /\ videos[k].read \in BOOLEAN /\ videos[k].list \in Seq(Video)
       /\ videos[k].cursor \in 0..MaxVideo + 1 /\ videos[k].more \in BOOLEAN /\ videos[k].whole \in BOOLEAN
       /\ videos[k].cuts \subseteq Video
  /\ stage \in {"idle", "waiting", "asked", "error"} /\ acts \in 0..MaxAct /\ reads \in 0..MaxRead

Init ==
  /\ matching \in SUBSET Video /\ broken \in {{}, {MaxVideo}} /\ nip50 \in {"yes", "no", "fails"}
  /\ twin \in {0} \cup 3..MaxVideo + 1 /\ query = "" /\ sort = "relevance" /\ tab = "all" /\ url = <<"", "relevance", "all">>
  /\ timer = TRUE /\ others = "none" /\ videos = [k \in Key |-> Unread] /\ stage = "idle"
  /\ acts = 0 /\ reads = 0

relay == <<matching, broken, nip50, twin>>
Act == acts < MaxAct /\ acts' = acts + 1
Current == <<query, sort>>
Asking == stage \in {"waiting", "asked"}

-----------------------------------------------------------------------------
(* What the user does. *)

\* A request no part of the page waits for any more is aborted; videos read before are shown
\* again, others are asked for once the text has stood for 300 milliseconds.
Observe(q, s) ==
  stage' = IF q = "" \/ videos[<<q, s>>].read THEN "idle" ELSE "waiting"

\* A text, or a hashtag that is clicked.
HandleSearchChange(q) ==
  /\ q # query /\ Act /\ query' = q /\ timer' = TRUE
  /\ others' = IF q = "" THEN "none" ELSE "loading"
  /\ Observe(q, sort)
  /\ UNCHANGED <<relay, sort, tab, url, videos, reads>>

SetSortMode(s) ==
  /\ query # "" /\ s # sort /\ Act /\ sort' = s /\ timer' = TRUE /\ Observe(query, s)
  /\ UNCHANGED <<relay, query, tab, url, others, videos, reads>>

HandleFilterChange(t) ==
  /\ t # tab /\ Act /\ tab' = t /\ timer' = TRUE
  /\ UNCHANGED <<relay, query, sort, url, others, videos, stage, reads>>

\* Mutant: the timer is started by the page's state only.
Restarted_State(u) == timer

\* The effect that starts the timer depends on setSearchParams, which changes with the address.
Restarted(u) == timer \/ u # url

\* The header's search button leads to the page without a text.
Header ==
  /\ Act /\ url' = <<"", "relevance", "all">> /\ timer' = Restarted(url')
  /\ UNCHANGED <<relay, query, sort, tab, others, videos, stage, reads>>

\* The address is replaced, which starts the timer once more if it changed.
TimerFires ==
  /\ timer /\ url' = <<query, sort, tab>> /\ timer' = (url' # url)
  /\ UNCHANGED <<relay, query, sort, tab, others, videos, stage, acts, reads>>

-----------------------------------------------------------------------------
(* The videos. *)

Ask ==
  /\ stage = "waiting" /\ reads < MaxRead /\ reads' = reads + 1 /\ stage' = "asked"
  /\ UNCHANGED <<relay, query, sort, tab, url, timer, others, videos, acts>>

\* The list of the videos tab asks for the next page.
FetchNextPage ==
  /\ tab = "videos" /\ query # "" /\ ~Asking /\ videos[Current].read /\ videos[Current].more
  /\ videos[Current].list # <<>> /\ stage' = "waiting"
  /\ UNCHANGED <<relay, query, sort, tab, url, timer, others, videos, acts, reads>>

\* created_at, in seconds.
Time(v) == IF twin # 0 /\ v >= twin THEN v - 1 ELSE v

Before(k, vs) == IF videos[k].cursor = 0 THEN vs ELSE {v \in vs : Time(v) <= videos[k].cursor}
\* A page in an order of the relay's own; and one in the order of time: of two videos the
\* newer comes before, and is not left out.
Full(vs) == IF Cardinality(vs) < PageSize THEN Cardinality(vs) ELSE PageSize
Ranked(vs) == {s \in [1..Full(vs) -> vs] : \A i, j \in DOMAIN s : s[i] = s[j] => i = j}
Newest(vs) ==
  {s \in Ranked(vs) : \A i \in DOMAIN s, v \in vs : Time(v) > Time(s[i]) => \E j \in 1..i - 1 : s[j] = v}

\* Whether the relay is not asked to search, or failed to.
Fallback(k) == k[1] = "word" /\ nip50 # "yes"

Pages(k) ==
  IF Fallback(k) THEN Newest(Before(k, Video))
  ELSE IF k[1] = "#tag" /\ (k[2] = "relevance" \/ nip50 = "no") THEN Newest(Before(k, matching))
  ELSE Ranked(Before(k, matching))

\* A list without what is not in a set, in its order; as the one member of a set.
Among(s, S) ==
  LET I == {i \in DOMAIN s : s[i] \in S}
      rising == {o \in [1..Cardinality(I) -> I] : \A m, n \in DOMAIN o : m < n => o[m] < o[n]}
  IN  {[n \in DOMAIN o |-> s[o[n]]] : o \in rising}

\* What is kept of a page: what parses and, if the relay did not search, what matches.
Kept(k, events) == Among(events, (IF Fallback(k) THEN matching ELSE Video) \ broken)

\* Mutant: the next page leaves one out.
NextCursor_Skips(vs) == IF vs = <<>> THEN 0 ELSE Time(vs[Len(vs)]) - 2

NextCursor(vs) == IF vs = <<>> THEN 0 ELSE Time(vs[Len(vs)]) - 1

\* The second at which a page ended.
Ends(vs) == {Time(vs[n]) : n \in {Len(vs)} \ {0}}

\* Videos that came before are shown once.
Unique(list, vs) == {list \o more : more \in Among(vs, Video \ Range(list))}

VideosArrive ==
  /\ stage = "asked" /\ stage' = "idle"
  /\ \E events \in Pages(Current) : \E vs \in Kept(Current, events) :
       LET was == videos[Current]
       IN  \E list \in Unique(was.list, vs) :
             videos' = [videos EXCEPT ![Current] =
               [read |-> TRUE, list |-> list, cursor |-> NextCursor(vs),
                more |-> vs # <<>>, whole |-> was.whole /\ (events # <<>> => vs # <<>>),
                cuts |-> was.cuts \cup Ends(vs)]]
  /\ timer' = (timer \/ videos'[Current].list # videos[Current].list)
  /\ UNCHANGED <<relay, query, sort, tab, url, others, acts, reads>>

\* Also when a relay that searches refuses the search for a hashtag.
VideosFail ==
  /\ stage = "asked" /\ stage' = "error"
  /\ UNCHANGED <<relay, query, sort, tab, url, timer, others, videos, acts, reads>>

OthersArrive ==
  /\ others = "loading" /\ others' \in {"some", "none", "error"}
  /\ timer' = (timer \/ others' = "some")
  /\ UNCHANGED <<relay, query, sort, tab, url, videos, stage, acts, reads>>

Next ==
  \/ Header \/ TimerFires \/ Ask \/ FetchNextPage \/ VideosArrive \/ VideosFail \/ OthersArrive
  \/ \E q \in Words \cup {""} : HandleSearchChange(q)
  \/ \E s \in Sort : SetSortMode(s)
  \/ \E t \in Tab : HandleFilterChange(t)

Spec == Init /\ [][Next]_vars

-----------------------------------------------------------------------------
(* Properties. *)

Loading == Asking /\ ~videos[Current].read

\* Mutant: only the error and the results are looked at.
Waiting_Not == FALSE

Waiting == Loading \/ (tab = "all" /\ others = "loading")

\* What the tab says.
Says ==
  IF query = "" THEN "empty"
  ELSE IF Waiting THEN "loading"
  ELSE IF stage = "error" \/ (tab = "all" /\ others = "error") THEN "error"
  ELSE IF videos[Current].list = <<>> /\ (tab = "videos" \/ others = "none") THEN "no results"
  ELSE "results"

\* When the page has come to rest the address says what is searched for.
UrlFollows == ~timer => url = <<query, sort, tab>>

\* A list in the order of time that says it has no more holds every video there is to
\* show, but those of a second at which a page ended, if no page was without any.
EndIsTheEnd ==
  \A k \in Key :
    videos[k].read /\ ~videos[k].more /\ videos[k].whole
    /\ (Fallback(k) \/ (k[1] = "#tag" /\ (k[2] = "relevance" \/ nip50 = "no")))
      => /\ Range(videos[k].list) \subseteq matching \ broken
         /\ \A v \in matching \ broken : v \in Range(videos[k].list) \/ Time(v) \in videos[k].cuts

\* The page says that there are no results when the relay has none.
NoneIsNone == Says = "no results" /\ videos[Current].whole => matching \ broken = {}

-----------------------------------------------------------------------------
(* The inductive invariant of NoneIsNone. *)

\* What was not read is being asked for, or that failed; what was read and is empty was
\* empty from its first page on.
SearchInv ==
  /\ matching \subseteq Video /\ query \in Words \cup {""} /\ sort \in Sort
  /\ stage \in {"idle", "waiting", "asked", "error"} /\ (stage # "idle" => query # "")
  /\ query # "" /\ ~videos[Current].read => stage # "idle"
  /\ videos = [k \in Key |-> videos[k]]
  /\ \A k \in Key :
       /\ videos[k].list \in Seq(Video)
       /\ ~videos[k].read => videos[k] = Unread
       /\ videos[k].read /\ videos[k].list = <<>> /\ videos[k].whole => matching \ broken = {}
=============================================================================
