----------------------------- MODULE VideoQuery -----------------------------
(***************************************************************************)
(* A feed the web client reads from the relay itself: the videos, for some *)
(* feeds the reposts, for a repost of a video that is not among them the   *)
(* video, for hashtags the reactions. Every answer comes while others      *)
(* publish, repost and edit; a feed that refreshes itself drops the query  *)
(* that is under way.                                                      *)
(*                                                                         *)
(* A video is its author and the time it was signed at: each author has    *)
(* one address, which every later video replaces on the relays that have   *)
(* heard of it. Texts, tags other than these, paging and the measurements  *)
(* are left out.                                                           *)
(***************************************************************************)
EXTENDS Integers, Sequences, FiniteSets, Functions

CONSTANTS
  Limit,     \* the limit of a query
  MaxTime,   \* bound: events
  MaxAct     \* bound: changes of the follow list, refreshes

VARIABLES
  relay,     \* what the relays have
  clock,     \* events so far
  feed,      \* the feed that is shown
  follows,   \* what useFollowList has; Unknown while it loads
  cache,     \* query results, by the follow list in their key
  q,         \* the query under way
  acts

vars == <<relay, clock, feed, follows, cache, q, acts>>

Unknown == {"unknown"}
Author == {"a", "b"}
Lists == (SUBSET Author) \cup {Unknown}
Time == 1..MaxTime

Video == [by : Author, at : Time, loops : 0..1]
Repost == [of : Author, at : Time, by : {"r"}]
Entry == [video : Video, reposts : Seq(Repost)]
Idle == [step |-> "idle", key |-> Unknown, videos |-> <<>>, reposts |-> <<>>, map |-> <<>>]

Videos == {e \in relay : "loops" \in DOMAIN e}
Reposts == relay \ Videos

TypeOK ==
  /\ relay \subseteq Video \cup Repost /\ clock \in 0..MaxTime
  /\ feed \in {"recent", "hashtag", "profile", "trending", "home", "ids"}
  /\ follows \in Lists /\ acts \in 0..MaxAct
  /\ DOMAIN cache \subseteq Lists
  /\ \A k \in DOMAIN cache : cache[k] \in Seq(Entry)
  /\ q.step \in {"idle", "videos", "reposts", "fetch", "reactions"} /\ q.key \in Lists
  /\ q.videos \in Seq(Video) /\ q.reposts \in Seq(Repost) /\ q.map \in Seq(Entry)

Init ==
  /\ relay = {} /\ clock = 0 /\ follows = Unknown /\ q = Idle /\ acts = 0
  /\ feed \in {"recent", "hashtag", "profile", "trending", "home", "ids"}
  /\ cache = <<>>

Act == acts < MaxAct /\ acts' = acts + 1

-----------------------------------------------------------------------------
(* What others publish. *)

\* A new version of the author's video; some relay may keep the last one.
Publish ==
  /\ clock < MaxTime /\ clock' = clock + 1
  /\ \E a \in Author, n \in 0..1, keep \in BOOLEAN :
       relay' = {e \in relay : keep \/ e \notin Videos \/ e.by # a}
                  \cup {[by |-> a, at |-> clock', loops |-> n]}
  /\ UNCHANGED <<feed, follows, cache, q, acts>>

PublishRepost ==
  /\ clock < MaxTime /\ clock' = clock + 1
  /\ \E a \in Author : relay' = relay \cup {[of |-> a, at |-> clock', by |-> "r"]}
  /\ UNCHANGED <<feed, follows, cache, q, acts>>

-----------------------------------------------------------------------------
(* The filter. *)

\* Feeds that the relay sorts (NIP-50): home and trending.
ByPopularity == feed \in {"home", "trending"}

Wanted(key) ==
  CASE feed = "home" -> {e \in Videos : e.by \in key}
    [] feed = "profile" -> {e \in Videos : e.by = "a"}
    [] feed = "ids" -> {e \in Videos : e.at = 1}
    [] OTHER -> Videos

Orders(S) == {s \in [1..Cardinality(S) -> S] : \A i, j \in DOMAIN s : s[i] = s[j] => i = j}
NewestFirst(S) ==
  CHOOSE s \in Orders(S) : \A i, j \in DOMAIN s : i < j => s[i].at > s[j].at
Head_(s, n) == SubSeq(s, 1, IF n < Len(s) THEN n ELSE Len(s))

\* What the relay may answer: its newest, or, sorted by popularity, in an order of its own.
Answers(key) ==
  LET W == Wanted(key)
  IN  IF ByPopularity
      THEN {Head_(s, Limit) : s \in Orders(W)}
      ELSE {IF feed = "profile" THEN NewestFirst(W) ELSE Head_(NewestFirst(W), Limit)}

-----------------------------------------------------------------------------
(* Parsing. *)

Has(map, a) == \E i \in DOMAIN map : map[i].video.by = a

\* The first version of an address that comes is kept.
Added(map, v) ==
  IF Has(map, v.by) THEN map ELSE Append(map, [video |-> v, reposts |-> <<>>])

\* The videos added one by one, in the order they came; as the one member of a set.
Parsed(videos) ==
  LET first == {i \in DOMAIN videos : \A j \in 1..i - 1 : videos[j].by # videos[i].by}
      rising == {o \in [1..Cardinality(first) -> first] : \A m, n \in DOMAIN o : m < n => o[m] < o[n]}
  IN  {[n \in DOMAIN o |-> [video |-> videos[o[n]], reposts |-> <<>>]] : o \in rising}

\* Mutant: a repost makes an entry of its own.
Reposted_Anew(map, r) ==
  LET i == CHOOSE j \in DOMAIN map : map[j].video.by = r.of
  IN  IF map[i].reposts = <<>> THEN [map EXCEPT ![i].reposts = <<r>>]
      ELSE Append(map, [video |-> map[i].video, reposts |-> <<r>>])

\* The repost goes to the entry of its video.
Reposted(map, r) ==
  [i \in DOMAIN map |->
     IF map[i].video.by = r.of THEN [map[i] EXCEPT !.reposts = Append(@, r)] ELSE map[i]]

MaxOf(S) == CHOOSE x \in S : \A y \in S : y <= x
Times(e) == {e.reposts[i].at : i \in DOMAIN e.reposts}

\* Mutant: only reposts count as activity.
Activity_Reposts(e) == IF Times(e) = {} THEN e.video.at ELSE MaxOf(Times(e))

Activity(e) == MaxOf(Times(e) \cup {e.video.at})

\* In descending order of a key, a list's own order where it is the same; likewise.
By(map, Key(_)) ==
  LET before(i, j) == Key(map[i]) > Key(map[j]) \/ (Key(map[i]) = Key(map[j]) /\ i < j)
      sorted == {o \in [DOMAIN map -> DOMAIN map] : \A i, j \in DOMAIN o : i < j => before(o[i], o[j])}
  IN  {[i \in DOMAIN map |-> map[o[i]]] : o \in sorted}

\* By time for the newest videos, else by loops and then by time.
Sorted(map) ==
  IF feed = "recent" THEN By(map, Activity)
  ELSE By(map, LAMBDA e : e.video.loops * (MaxTime + 1) + Activity(e))

\* Hashtags once more, by loops and the reactions the relay tells of.
ByEngagement(map, n) ==
  {Head_(m, Limit) : m \in By(map, LAMBDA e :
                            (e.video.loops + n[e.video.by]) * (MaxTime + 1)
                              + (IF Times(e) = {} THEN e.video.at ELSE MaxOf(Times(e))))}

-----------------------------------------------------------------------------
(* The query. *)

\* Mutant: the follow list is not part of the key.
Key_Same(f) == {}

\* The key of the query and of what is shown: only the home feed depends on it.
Key(f) == f

HasData == Key(follows) \in DOMAIN cache
Shown == cache[Key(follows)]
Begun == [Idle EXCEPT !.step = "videos", !.key = Key(follows)]

\* On mounting, and whenever the key changes to one that has no data.
Start ==
  /\ q.step = "idle" /\ ~HasData /\ q' = Begun
  /\ UNCHANGED <<relay, clock, feed, follows, cache, acts>>

\* Somebody follows or unfollows, or the list loads; the old key's query is nobody's then.
SetFollows ==
  /\ Act /\ feed = "home" /\ \E f \in SUBSET Author : f # follows /\ follows' = f
  /\ q' = Idle /\ UNCHANGED <<relay, clock, feed, cache>>

\* Every 30 seconds (recent) or 10 minutes (home): what is under way is dropped.
Refresh ==
  /\ Act /\ feed \in {"recent", "home"} /\ HasData /\ q' = Begun
  /\ UNCHANGED <<relay, clock, feed, follows, cache>>

Finish(list) ==
  /\ cache' = [k \in DOMAIN cache \cup {q.key} |-> IF k = q.key THEN list ELSE cache[k]]
  /\ q' = Idle

\* A home feed with no follow list, or an empty one, asks for nothing.
NoFollows ==
  /\ q.step = "videos" /\ feed = "home" /\ follows \in {Unknown, {}} /\ Finish(<<>>)
  /\ UNCHANGED <<relay, clock, feed, follows, acts>>

VideosAnswer ==
  /\ q.step = "videos" /\ ~(feed = "home" /\ follows \in {Unknown, {}})
  /\ \E s \in Answers(follows) :
       IF Len(s) < Limit /\ feed \notin {"profile", "ids"} /\ ~ByPopularity
       THEN q' = [q EXCEPT !.step = "reposts", !.videos = s] /\ UNCHANGED cache
       ELSE \E parsed \in Parsed(s) : \E map \in Sorted(parsed) :
              IF feed = "hashtag"
              THEN q' = [q EXCEPT !.step = "reactions", !.map = map] /\ UNCHANGED cache
              ELSE Finish(map)
  /\ UNCHANGED <<relay, clock, feed, follows, acts>>

\* The reposts, which are gone through one by one.
RepostsAnswer ==
  /\ q.step = "reposts"
  /\ \E map \in Parsed(q.videos) :
       q' = [q EXCEPT !.step = "fetch", !.reposts = NewestFirst(Reposts), !.map = map]
  /\ UNCHANGED <<relay, clock, feed, follows, cache, acts>>

\* The next repost: its video is there, or is asked for and comes, or never does.
TakeRepost ==
  /\ q.step = "fetch" /\ q.reposts # <<>>
  /\ LET r == Head(q.reposts)
         found == {v \in Videos : v.by = r.of}
         rest == [q EXCEPT !.reposts = Tail(@)]
     IN  \/ Has(q.map, r.of) /\ q' = [rest EXCEPT !.map = Reposted(@, r)]
         \/ /\ ~Has(q.map, r.of) /\ found # {}
            /\ q' = [rest EXCEPT !.map = Reposted(Added(@, NewestFirst(found)[1]), r)]
         \/ ~Has(q.map, r.of) /\ q' = rest
  /\ UNCHANGED <<relay, clock, feed, follows, cache, acts>>

Parse ==
  /\ q.step = "fetch" /\ q.reposts = <<>>
  /\ \E map \in Sorted(q.map) :
       IF feed = "hashtag" /\ map # <<>>
       THEN q' = [q EXCEPT !.step = "reactions", !.map = map] /\ UNCHANGED cache
       ELSE Finish(map)
  /\ UNCHANGED <<relay, clock, feed, follows, acts>>

\* The counts, or none of them.
Reactions ==
  /\ q.step = "reactions"
  /\ \E n \in [Author -> 0..1] : \E map \in ByEngagement(q.map, n) : Finish(map)
  /\ UNCHANGED <<relay, clock, feed, follows, acts>>

\* The relay fails, or the 10 or 15 seconds are over: what was shown stays.
Fail ==
  /\ q.step \in {"videos", "reposts"} /\ q' = Idle
  /\ UNCHANGED <<relay, clock, feed, follows, cache, acts>>

Next ==
  \/ Publish \/ PublishRepost \/ Start \/ SetFollows \/ Refresh \/ NoFollows \/ VideosAnswer
  \/ RepostsAnswer \/ TakeRepost \/ Parse \/ Reactions \/ Fail

Spec == Init /\ [][Next]_vars

-----------------------------------------------------------------------------
(* Properties. *)

\* No list has a video twice, and a repost is told at its own video, once, whoever found
\* the video: the feed, or an earlier repost of it.
OncePerVideo ==
  \A k \in DOMAIN cache :
    /\ \A i, j \in DOMAIN cache[k] : cache[k][i].video.by = cache[k][j].video.by => i = j
    /\ \A e \in Range(cache[k]) : \A i, j \in DOMAIN e.reposts :
         e.reposts[i].of = e.video.by /\ (e.reposts[i] = e.reposts[j] => i = j)

\* The newest videos are in the order of what happened to them last: an old video that was
\* just reposted is before a newer one, and one that was replaced after its repost is new.
LatestFirst ==
  feed = "recent" /\ HasData =>
    \A i, j \in DOMAIN Shown :
      i < j => MaxOf(Times(Shown[i]) \cup {Shown[i].video.at})
                 >= MaxOf(Times(Shown[j]) \cup {Shown[j].video.at})

\* The home feed shows nobody whom the follow list, as it is now, does not have.
HomeIsFollowed ==
  feed = "home" /\ HasData => \A e \in Range(Shown) : e.video.by \in follows

-----------------------------------------------------------------------------
(* The inductive invariant of HomeIsFollowed. *)

\* A home feed is read for the follow list there is, under whose key it is kept.
HomeInv ==
  /\ IsFiniteSet(relay)
  /\ feed = "home" =>
       /\ q.step \in {"idle", "videos"} /\ (q.step = "videos" => q.key = follows)
       /\ \A k \in DOMAIN cache : \A i \in DOMAIN cache[k] : cache[k][i].video.by \in k
=============================================================================
