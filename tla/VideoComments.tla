--------------------------- MODULE VideoComments ---------------------------
(* The comments of one video: the query of useComments, the optimistic      *)
(* entry of usePostComment with its rollback and late refetch, and the      *)
(* deletion of a comment, which refreshes no query of comments.             *)
(*                                                                          *)
(* Post n is the user's n-th comment; -n is the entry shown while it is     *)
(* sent.  The relay stores a comment at once and finds it in a search only  *)
(* after its index is refreshed.  Comments of other people do not change.   *)
EXTENDS Integers, Sequences, FiniteSets, Functions

CONSTANT MaxPost  \* bound: comments the user posts

VARIABLES
  loaded,   \* the query has data
  all,      \* its allComments
  top,      \* its topLevelComments
  error,    \* its last read failed
  read,     \* "none", "asked", "seen"
  found,    \* what a read that has seen the relay brings
  posts,    \* Seq of [form, st, had, all, top]: the mutations
  timers,   \* posts whose refetch is scheduled
  stored,   \* comments the relay has
  indexed,  \* comments a search finds
  patient   \* every post began at rest, and no answer was lost

vars == <<loaded, all, top, error, read, found, posts, timers, stored, indexed, patient>>

Data == <<loaded, all, top>>
Reading == <<error, read, found>>
Relay == <<stored, indexed>>

Form == {"main", "reply"}

Init ==
  /\ loaded = FALSE /\ all = <<>> /\ top = <<>>
  /\ error = FALSE /\ read = "asked" /\ found = {}
  /\ posts = <<>> /\ timers = {}
  /\ stored = {} /\ indexed = {}
  /\ patient = TRUE

Pending == {n \in DOMAIN posts : posts[n].st \in {"cancelling", "sent", "stored"}}

Without(s, n) == SelectSeq(s, LAMBDA x : x # n)

\* The form a comment was written in says whether it is a reply.
TopLevel(n) == posts[n].form = "main"

-----------------------------------------------------------------------------
(* The query. *)

\* A component that shows comments mounts and the data is stale.
Mount ==
  /\ read = "none"
  /\ read' = "asked"
  /\ UNCHANGED <<Data, error, found, posts, timers, Relay, patient>>

See ==
  /\ read = "asked"
  /\ read' = "seen" /\ found' = indexed \intersect stored
  /\ UNCHANGED <<Data, error, posts, timers, Relay, patient>>

\* The one list of these comments that has the newest first.
NewestFirst(S) ==
  {s \in [1..Cardinality(S) -> S] : Range(s) = S /\ \A i, j \in DOMAIN s : i < j => s[i] > s[j]}

\* The top level newest first; both lists hold what the relay answered.
Arrive ==
  /\ read = "seen"
  /\ read' = "none" /\ found' = {}
  /\ loaded' = TRUE /\ error' = FALSE
  /\ all' \in NewestFirst(found)
  /\ top' \in NewestFirst({n \in found : TopLevel(n)})
  /\ UNCHANGED <<posts, timers, Relay, patient>>

ReadFails ==
  /\ read # "none"
  /\ read' = "none" /\ found' = {} /\ error' = TRUE
  /\ UNCHANGED <<Data, posts, timers, Relay, patient>>

-----------------------------------------------------------------------------
(* Posting. *)

\* handleSubmit: the form is disabled while its mutation is pending; onMutate
\* cancels the reads and waits for that.
Submit(f) ==
  /\ Len(posts) < MaxPost /\ \A n \in Pending : posts[n].form # f
  /\ posts' = Append(posts, [form |-> f, st |-> "cancelling", had |-> FALSE,
                             all |-> <<>>, top |-> <<>>])
  /\ read' = "none" /\ found' = {}
  /\ patient' = (patient /\ Pending = {} /\ timers = {} /\ ~error
                /\ (loaded => read = "none"))
  /\ UNCHANGED <<Data, error, timers, Relay>>

\* The rest of onMutate: the snapshot and the entry marked "sending".
Mutate(n) ==
  /\ posts[n].st = "cancelling"
  /\ posts' = [posts EXCEPT ![n] = [form |-> @.form, st |-> "sent", had |-> loaded,
                                    all |-> all, top |-> top]]
  /\ all' = IF loaded THEN <<-n>> \o all ELSE all
  /\ top' = IF loaded /\ TopLevel(n) THEN <<-n>> \o top ELSE top
  /\ UNCHANGED <<loaded, Reading, timers, Relay, patient>>

Store(n) ==
  /\ posts[n].st = "sent"
  /\ posts' = [posts EXCEPT ![n].st = "stored"]
  /\ stored' = stored \union {n}
  /\ UNCHANGED <<Data, Reading, timers, indexed, patient>>

\* The relay's index is refreshed every five seconds.
Index ==
  /\ stored # indexed
  /\ indexed' = stored
  /\ UNCHANGED <<Data, Reading, posts, timers, stored, patient>>

\* onSuccess: the entry becomes the comment, where the entry still is.
Posted(n) ==
  /\ posts[n].st = "stored"
  /\ posts' = [posts EXCEPT ![n] = [form |-> @.form, st |-> "posted", had |-> FALSE,
                                    all |-> <<>>, top |-> <<>>]]
  /\ all' = IF loaded THEN <<n>> \o Without(all, -n) ELSE all
  /\ top' = IF loaded /\ -n \in Range(top) THEN <<n>> \o Without(top, -n) ELSE top
  /\ timers' = timers \union {n}
  /\ UNCHANGED <<loaded, Reading, Relay, patient>>

\* Mutant: a post that failed leaves its entry.
Rollback_Not(n) == <<all, top>>

\* onError: the lists as they were, where there were any.
Rollback(n) == IF posts[n].had THEN <<posts[n].all, posts[n].top>> ELSE <<all, top>>

\* Not signed, refused, or the relay's answer lost.
PostFails(n) ==
  /\ posts[n].st \in {"sent", "stored"}
  /\ all' = Rollback(n)[1] /\ top' = Rollback(n)[2]
  /\ loaded' = (loaded \/ posts[n].had)
  /\ posts' = [posts EXCEPT ![n] = [form |-> @.form, st |-> "failed", had |-> FALSE,
                                    all |-> <<>>, top |-> <<>>]]
  /\ patient' = (patient /\ posts[n].st = "sent")
  /\ UNCHANGED <<Reading, timers, Relay>>

\* The timeout of six seconds, longer than the index takes: invalidateQueries.
Refetch(n) ==
  /\ n \in indexed \/ n \notin stored
  /\ timers' = timers \ {n}
  /\ read' = "asked" /\ found' = {}
  /\ UNCHANGED <<Data, error, posts, Relay, patient>>

\* The menu of a comment offers its deletion to its author only; one that is being sent
\* has no event to delete.
Deletable(n) == n \in Range(all) /\ n \in stored

\* useDeleteComment: the deletion event, and an invalidation of ["comments"],
\* a key no query has.
Delete(n) ==
  /\ Deletable(n)
  /\ stored' = stored \ {n} /\ indexed' = indexed \ {n}
  /\ UNCHANGED <<Data, Reading, posts, timers, patient>>

Next ==
  \/ Mount \/ See \/ Arrive \/ ReadFails \/ Index
  \/ \E f \in Form : Submit(f)
  \/ \E n \in DOMAIN posts : Mutate(n) \/ Store(n) \/ Posted(n) \/ PostFails(n) \/ Delete(n)
  \/ \E n \in timers : Refetch(n)

Spec == Init /\ [][Next]_vars

-----------------------------------------------------------------------------
(* Properties. *)

TypeOK ==
  /\ loaded \in BOOLEAN /\ error \in BOOLEAN /\ patient \in BOOLEAN
  /\ read \in {"none", "asked", "seen"}
  /\ \A n \in DOMAIN posts :
       posts[n].form \in Form /\ posts[n].st \in {"cancelling", "sent", "stored", "posted", "failed"}
  /\ Len(posts) \in 0..MaxPost
  /\ stored \union timers \union found \union indexed \subseteq DOMAIN posts

Once(s) == \A i, j \in DOMAIN s : s[i] = s[j] => i = j

\* When posts, reads and refetches are over, every comment of the user the
\* relay keeps is shown once and at its level, and nothing is shown as being
\* sent or that was never published.
CommentsSettle ==
  patient /\ loaded /\ ~error /\ Pending = {} /\ read = "none" /\ timers = {} =>
    /\ \A n \in stored : n \in Range(all) /\ (TopLevel(n) <=> n \in Range(top))
    /\ Once(all) /\ Once(top)
    /\ \A n \in Range(all) \union Range(top) : n \in DOMAIN posts /\ posts[n].st = "posted"

-----------------------------------------------------------------------------
(* The inductive invariant of CommentsSettle. *)

\* Lists that may be shown when nothing is under way.
Settled(a, t) ==
  /\ \A n \in stored : posts[n].st = "posted" => n \in Range(a) /\ (TopLevel(n) <=> n \in Range(t))
  /\ Once(a) /\ Once(t)
  /\ \A n \in Range(a) \union Range(t) : n \in DOMAIN posts /\ posts[n].st = "posted"

\* One comment at a time, on lists at rest: until it is stored the lists are settled or the
\* snapshot is; afterwards its refetch is owed, and finds it.
Patience ==
  /\ \A m, n \in Pending : m = n
  /\ Pending # {} => timers = {}
  /\ \A n \in DOMAIN posts :
       /\ posts[n].st \in {"cancelling", "sent", "failed"} => n \notin stored
       /\ posts[n].st = "posted" /\ n \in stored /\ n \notin indexed => n \in timers
       /\ posts[n].st = "posted" /\ n \in stored /\ n \notin timers /\ read = "seen" => n \in found
       /\ posts[n].st = "cancelling" /\ loaded => Settled(all, top)
       /\ posts[n].st = "sent" /\ posts[n].had => Settled(posts[n].all, posts[n].top)
       /\ posts[n].st = "sent" /\ ~posts[n].had /\ loaded => Settled(all, top)
  /\ \A n \in found : posts[n].st \in {"posted", "stored"}
  /\ Pending = {} /\ timers = {} /\ loaded /\ ~error /\ read = "none" => Settled(all, top)

PostTyped ==
  /\ posts \in Seq(Range(posts))
  /\ \A n \in DOMAIN posts :
       /\ posts[n] = [form |-> posts[n].form, st |-> posts[n].st, had |-> posts[n].had,
                      all |-> posts[n].all, top |-> posts[n].top]
       /\ posts[n].st \in {"cancelling", "sent", "stored", "posted", "failed"}
  /\ indexed \subseteq stored /\ stored \union timers \union found \subseteq DOMAIN posts

CommentsInv == PostTyped /\ (patient => Patience)
==============================================================================
