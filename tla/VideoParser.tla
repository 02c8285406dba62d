----------------------------- MODULE VideoParser -----------------------------
(***************************************************************************)
(* What a reader makes of a video event (lib/videoParser.ts). The event is *)
(* written one tag at a time, by any app: the imeta tags are versions of   *)
(* one video, the other tags say the rest. Where it plays from, where else *)
(* it may, and what it is trusted for follow from the tags alone. Only the *)
(* order among tags of one name matters: the imeta tags come last.         *)
(***************************************************************************)
EXTENDS Integers, Sequences, FiniteSets, Functions

CONSTANTS MaxFallback, \* how many other places a video may play from (2)
          MaxTag       \* bounds the tags of an event, but for its d tag

VARIABLES
  tags,  \* the event's
  video  \* what it is parsed to: none or one

vars == <<tags, video>>

-----------------------------------------------------------------------------
(* Tags. *)

None == "none"
\* "media" and "mp4" are MP4 files, the first at media.divine.video; "vine" is at vine.co.
Address == {"media", "mp4", "mp4b", "webm", "other", "m3u8", "vine"}
Level == {"verified_mobile", "verified_web", "basic_proof", "unverified"}

Imeta ==
  [name: {"imeta"}, url: Address, has: {{}, {"hls", "image", "m"}, {"x"}}, duration: {0, 7}]

\* The other tags, one by one.
Plain ==
  [name: {"url", "r"}, v: {"mp4", "other", "vine"}]
  \cup [name: {"verification"}, v: {"verified_mobile", "basic_proof", "odd"}]
  \cup [name: {"proofmode"}, v: {"json", "words"}]
  \cup [name: {"device_attestation", "image", "thumb", "text-track"}, v: {"some"}]
  \cup [name: {"loops", "views", "likes", "published_at"}, v: {"5", "words"}]
  \cup [name: {"origin", "platform"}, v: {"vine", "else"}]

\* A vine.co address is dead and never played.
isValidVideoUrl(url) == url # "vine"
IsMp4(url) == url \in {"media", "mp4", "mp4b"}

\* The imeta tags that have an address to play, in order.
parseImetaTag(ts) ==
  SelectSeq(ts, LAMBDA t : t.name = "imeta" /\ isValidVideoUrl(t.url))

\* The first tag of a name, as a set of its value; a find looks no further.
Find(ts, names) ==
  LET at == {i \in DOMAIN ts : ts[i].name \in names}
  IN IF at = {} THEN {} ELSE {ts[CHOOSE i \in at : \A j \in at : i <= j].v}

\* What a text says as a number, if it does.
Number(vs) == IF vs = {"5"} THEN {5} ELSE {}

-----------------------------------------------------------------------------
(* Where it plays from. *)

\* The file types in order, and what is added for the rest an imeta has.
Base(url) ==
  CASE IsMp4(url) -> 100
    [] url = "webm" -> 90
    [] url = "m3u8" -> 50
    [] OTHER -> 70

Score_Hls(i) == Base(i.url) + IF "hls" \in i.has THEN 27 ELSE 0

Score(i) ==
  Base(i.url) + (IF "hls" \in i.has THEN 10 ELSE 0)
  + (IF "image" \in i.has THEN 5 ELSE 0) + (IF "m" \in i.has THEN 2 ELSE 0)

\* The first of the best.
Best(is) ==
  is[CHOOSE i \in DOMAIN is : \A j \in DOMAIN is :
       Score(is[j]) < Score(is[i]) \/ (Score(is[j]) = Score(is[i]) /\ i <= j)]

\* Without an imeta: a url tag, then an r tag, MP4 first.
extractVideoUrl(ts) ==
  LET valid(n) == SelectSeq(ts, LAMBDA t : t.name = n /\ isValidVideoUrl(t.v))
      mp4 == SelectSeq(valid("r"), LAMBDA t : IsMp4(t.v))
  IN IF valid("url") # << >> THEN {valid("url")[1].v}
     ELSE IF mp4 # << >> THEN {mp4[1].v}
     ELSE IF valid("r") # << >> THEN {valid("r")[1].v}
     ELSE {}

Stream_Any(best, is) ==
  IF \E i \in DOMAIN is : "hls" \in is[i].has THEN "given"
  ELSE IF "x" \in best.has /\ best.url = "media" THEN "of its hash"
  ELSE None

\* The stream of the same imeta, or one made of its hash.
Stream(best, is) ==
  IF "hls" \in best.has THEN "given"
  ELSE IF "x" \in best.has /\ best.url = "media" THEN "of its hash"
  ELSE None

\* The other MP4 files, once each.
Fallbacks(best, is) ==
  LET all == SelectSeq(is, LAMBDA i : i.url # best.url /\ IsMp4(i.url))
      first == SelectSeq([k \in 1..Len(all) |-> k], LAMBDA k : \A j \in 1..(k - 1) : all[j].url # all[k].url)
      once == [k \in 1..Len(first) |-> all[first[k]].url]
  IN SubSeq(once, 1, IF Len(once) < MaxFallback THEN Len(once) ELSE MaxFallback)

\* What the best has not is taken from the others, but for addresses.
extractVideoMetadata(ts) ==
  LET is == parseImetaTag(ts)
      best == Best(is)
      long == SelectSeq(is, LAMBDA i : i.duration # 0)
  IN IF is # << >>
       THEN {[url |-> best.url, hls |-> Stream(best, is), fallback |-> Fallbacks(best, is),
              thumbnail |-> \E i \in DOMAIN is : "image" \in is[i].has,
              duration |-> IF best.duration # 0 \/ long = << >> THEN best.duration
                           ELSE long[1].duration]}
       ELSE {[url |-> u, hls |-> None, fallback |-> << >>, thumbnail |-> FALSE, duration |-> 0]
             : u \in extractVideoUrl(ts)}

-----------------------------------------------------------------------------
(* What else it says. *)

getProofModeData_Manifest(ts) ==
  IF Find(ts, {"proofmode"}) = {"json"} THEN {"verified_web"}
  ELSE IF Find(ts, {"device_attestation"}) # {} THEN {"verified_mobile"}
  ELSE {IF l \in Level THEN l ELSE "unverified" : l \in Find(ts, {"verification"})}

\* None without a verification tag. A manifest that can be read comes before an
\* attestation, and either before what the tag says.
getProofModeData(ts) ==
  IF Find(ts, {"verification"}) = {} THEN {}
  ELSE IF Find(ts, {"proofmode"}) = {"json"} THEN {"verified_web"}
  ELSE IF Find(ts, {"device_attestation"}) # {} THEN {"verified_mobile"}
  ELSE {IF l \in Level THEN l ELSE "unverified" : l \in Find(ts, {"verification"})}

\* A platform tag counts if there is no origin tag.
getOriginPlatform(ts) ==
  IF Find(ts, {"origin"}) # {} THEN Find(ts, {"origin"}) ELSE Find(ts, {"platform"})

isVineMigrated(ts) == getOriginPlatform(ts) = {"vine"}

\* Loops, or else views, or none.
getLoopCount(ts) ==
  LET loops == Number(Find(ts, {"loops"})) IN
  IF loops # {} THEN loops
  ELSE IF Number(Find(ts, {"views"})) # {} THEN Number(Find(ts, {"views"})) ELSE {0}

getOriginalLikeCount(ts) == Number(Find(ts, {"likes"}))
getOriginalVineTimestamp(ts) == Number(Find(ts, {"published_at"}))
getTextTrackRef(ts) == Find(ts, {"text-track"})

\* Where its picture is from; at worst it is the video.
getThumbnailUrl(ts, m) ==
  IF m.thumbnail THEN "imeta"
  ELSE IF Find(ts, {"image"}) # {} THEN "image"
  ELSE IF Find(ts, {"thumb"}) # {} THEN "thumb" ELSE "video"

\* An address of its own is a must; seven seconds are too long.
parseVideoEvents(ts) ==
  {[url |-> m.url, hls |-> m.hls, fallback |-> m.fallback, duration |-> m.duration,
    thumbnail |-> getThumbnailUrl(ts, m), proof |-> getProofModeData(ts),
    vine |-> isVineMigrated(ts), loops |-> getLoopCount(ts), likes |-> getOriginalLikeCount(ts),
    published |-> getOriginalVineTimestamp(ts), subtitles |-> getTextTrackRef(ts)]
   : m \in {m \in extractVideoMetadata(ts) : m.duration < 7 /\ Find(ts, {"d"}) # {}}}

-----------------------------------------------------------------------------

DTag == [name |-> "d", v |-> "some"]

\* With the d tag an addressable event needs, or without it.
Init ==
  /\ tags \in {<< >>, <<DTag>>}
  /\ video = parseVideoEvents(tags)

Others == SelectSeq(tags, LAMBDA t : t.name # "d")

\* One more tag.
Write(t) ==
  /\ Len(Others) < MaxTag
  /\ t.name # "imeta" => \A i \in DOMAIN tags : tags[i].name # "imeta"
  /\ tags' = Append(tags, t)
  /\ video' = parseVideoEvents(tags')

Next == \E t \in Imeta \cup Plain : Write(t)

Spec == Init /\ [][Next]_vars

-----------------------------------------------------------------------------
(* Properties. *)

Versions == {tags[i] : i \in {i \in DOMAIN tags : tags[i].name = "imeta" /\ isValidVideoUrl(tags[i].url)}}

TypeOK ==
  /\ Len(Others) <= MaxTag /\ \A i \in DOMAIN tags : tags[i] \in Imeta \cup Plain \cup {DTag}
  /\ Cardinality(video) <= 1
  /\ \A v \in video : v.url \in Address /\ v.proof \subseteq Level /\ v.loops \subseteq {0, 5}

\* Whatever else an imeta tag has, a video plays from a file as long as one of its versions
\* is a file: the points for more data never lift a stream above one.
FileBeforeStream ==
  \A v \in video : v.url = "m3u8" => \A i \in Versions : i.url = "m3u8"

\* The addresses of a video belong together: the stream is given by a version at the
\* address it plays from, or made of that file's hash, and the other places are other
\* versions, MP4 files, a few at most (videoParser.ts:241 "prevents mixing broken URLs
\* from one imeta with good URLs from another").
AddressesBelongTogether ==
  \A v \in video :
    /\ v.hls = "given" => \E i \in Versions : i.url = v.url /\ "hls" \in i.has
    /\ v.hls = "of its hash" => \E i \in Versions : i.url = v.url /\ "x" \in i.has
    /\ IsInjective(v.fallback) /\ Len(v.fallback) <= MaxFallback
    /\ \A u \in Range(v.fallback) : IsMp4(u) /\ u # v.url /\ \E i \in Versions : i.url = u

\* A video shown as proven says so in a verification tag, whatever manifests and
\* attestations it has.
ProofIsClaimed ==
  \A v \in video : v.proof # {} => \E i \in DOMAIN tags : tags[i].name = "verification"
=============================================================================
