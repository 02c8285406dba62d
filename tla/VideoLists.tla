----------------------------- MODULE VideoLists ------------------------------
(***************************************************************************)
(* The user's video lists (kind 30005): the relay that stores one version  *)
(* of each, the query behind every page that shows them, the detail page   *)
(* of a list, and the operations of the dialogs, which publish a list      *)
(* anew or its deletion.                                                   *)
(*                                                                         *)
(* Of a list's title, description, image, tags, collaborators, thumbnail   *)
(* and play order it matters only whether a version still has the last     *)
(* four. Toasts, other people's lists and the trending ones are left out.  *)
(***************************************************************************)
EXTENDS Integers, FiniteSets, TLAPS

CONSTANTS
  List, Video,
  MaxOp,    \* bound: operations
  MaxTime   \* bound: seconds

VARIABLES
  store,    \* the version the relay has of each list
  gone,     \* created_at of the newest deletion it has, 0 if none
  now,      \* seconds
  view,     \* query video-lists: a version of each list
  viewPc,   \* idle, asked, or answered with snap on its way
  snap,
  page,     \* "lists", or the list whose detail page is open
  detail,   \* query list-detail of each list
  ops,      \* operations under way
  made,     \* how many were begun
  dropped   \* history: created_at of the newest deletion whose onSuccess ran

vars == <<store, gone, now, view, viewPc, snap, page, detail, ops, made, dropped>>

Version == [at : 0..MaxTime, vids : SUBSET Video, full : BOOLEAN]
Absent == [at |-> 0, vids |-> {}, full |-> FALSE]
Op == [n : 1..MaxOp, kind : {"create", "edit", "add", "remove", "delete"}, l : List,
       x : SUBSET Video, v : Version, pc : {"read", "sent", "ok"}]

TypeOK ==
  /\ {store, view, snap, detail} \subseteq [List -> Version]
  /\ {gone, dropped} \subseteq [List -> 0..MaxTime] /\ now \in 1..MaxTime
  /\ viewPc \in {"idle", "asked", "answered"} /\ page \in {"lists"} \cup List
  /\ ops \subseteq Op /\ made \in 0..MaxOp

Init ==
  /\ now = 1
  /\ store \in [List -> {Absent, [at |-> 1, vids |-> Video, full |-> TRUE]}]
  /\ gone = [l \in List |-> 0] /\ dropped = gone
  /\ view = [l \in List |-> Absent] /\ viewPc = "asked" /\ snap = view
  /\ page = "lists" /\ detail = view /\ ops = {} /\ made = 0

-----------------------------------------------------------------------------
(* Queries. *)

Relay == <<store, gone>>
Views == <<view, viewPc, snap>>

\* useVideoLists: the relay reads, then its answer arrives.
FetchRead ==
  /\ viewPc = "asked" /\ viewPc' = "answered" /\ snap' = store
  /\ UNCHANGED <<Relay, now, view, page, detail, ops, made, dropped>>

FetchDone ==
  /\ viewPc = "answered" /\ viewPc' = "idle" /\ view' = snap
  /\ UNCHANGED <<Relay, now, snap, page, detail, ops, made, dropped>>

FetchFail ==
  /\ viewPc # "idle" /\ viewPc' = "idle"
  /\ UNCHANGED <<Relay, now, view, snap, page, detail, ops, made, dropped>>

\* A page that shows lists is opened a minute after the last fetch.
Revisit ==
  /\ viewPc = "idle" /\ viewPc' = "asked"
  /\ UNCHANGED <<Relay, now, view, snap, page, detail, ops, made, dropped>>

\* Mutant: the fetch under way is joined, if there is one.
Invalidate_Joins == viewPc' = (IF viewPc = "idle" THEN "asked" ELSE viewPc) /\ UNCHANGED snap

\* invalidateQueries cancels the fetch under way and starts another.
Invalidate == viewPc' = "asked" /\ UNCHANGED snap

\* The page of list l, as the cache has it until its own query answers.
Open(l) ==
  /\ page # l /\ (view[l].at > 0 \/ detail[l].at > 0)
  /\ page' = l
  /\ UNCHANGED <<Relay, now, Views, detail, ops, made, dropped>>

\* "List not found" leaves what was cached.
DetailFetch ==
  /\ page \in List /\ store[page].at > 0
  /\ detail' = [detail EXCEPT ![page] = store[page]]
  /\ UNCHANGED <<Relay, now, Views, page, ops, made, dropped>>

Leave ==
  /\ page # "lists" /\ page' = "lists"
  /\ UNCHANGED <<Relay, now, Views, detail, ops, made, dropped>>

-----------------------------------------------------------------------------
(* Operations. *)

Pending(kinds) == \E o \in ops : o.kind \in kinds /\ o.pc # "ok"

Begin(kind, l, x, v, pc) ==
  /\ made < MaxOp /\ made' = made + 1
  /\ ops' = ops \cup {[n |-> made + 1, kind |-> kind, l |-> l, x |-> x, v |-> v, pc |-> pc]}
  /\ UNCHANGED <<Relay, now, Views, page, detail, dropped>>

\* What useCreateVideoList publishes.
NewList(S) == [at |-> now, vids |-> S, full |-> TRUE]

\* The id comes from the name: it may be that of a list there is.
CreateEmpty(l) ==
  ~Pending({"create"}) /\ Begin("create", l, {}, NewList({}), "sent")

CreateAndAdd(l, x) ==
  ~Pending({"create"}) /\ Begin("create", l, {x}, NewList({x}), "sent")

\* EditListDialog publishes the videos the page has in hand.
Edit ==
  /\ page \in List /\ detail[page].at > 0 /\ ~Pending({"edit"})
  /\ Begin("edit", page, {}, NewList(detail[page].vids), "sent")

\* A list that shows the video cannot be ticked.
Tickable(l, x) == view[l].at > 0 /\ x \notin view[l].vids

Add(l, x) ==
  /\ Tickable(l, x)
  /\ ~\E o \in ops : o.kind = "add" /\ o.pc = "read"
  /\ Begin("add", l, {x}, Absent, "read")

Remove(x) ==
  /\ page \in List /\ x \in detail[page].vids
  /\ Begin("remove", page, {x}, Absent, "read")

\* A kind 5 event with the list's address.
Deletion == [Absent EXCEPT !.at = now]

Delete ==
  /\ page \in List /\ detail[page].at > 0 /\ ~Pending({"delete"})
  /\ Begin("delete", page, {}, Deletion, "sent")

\* What useAddVideoToList and useRemoveVideoFromList make of the list they read:
\* the first carries over neither tags nor collaborators, thumbnail and order.
Rebuild(o, old) ==
  IF o.kind = "add" THEN [at |-> now, vids |-> old.vids \cup o.x, full |-> FALSE]
  ELSE [at |-> now, vids |-> old.vids \ o.x, full |-> old.full]

\* Both use mutate: their onSuccess runs before the relay has the new version.
ReadList(o) ==
  LET old == store[o.l]
      done == o.kind = "add" /\ o.x \subseteq old.vids
  IN  /\ o.pc = "read" /\ old.at > 0
      /\ ops' = (ops \ {o}) \cup
                (IF done THEN {} ELSE {[o EXCEPT !.v = Rebuild(o, old), !.pc = "sent"]})
      /\ Invalidate
      /\ UNCHANGED <<Relay, now, view, page, detail, made, dropped>>

\* The list is not found, or no answer came; or no relay took the event.
Fail(o) ==
  /\ o.pc # "ok" /\ ops' = ops \ {o}
  /\ UNCHANGED <<Relay, now, Views, page, detail, made, dropped>>

\* The relay replaces an older version and ignores what a deletion covers.
Accept(o) ==
  /\ o.pc = "sent" /\ (o.kind # "delete" => o.v.at > gone[o.l])
  /\ IF o.kind = "delete"
     THEN /\ gone' = [gone EXCEPT ![o.l] = IF o.v.at > @ THEN o.v.at ELSE @]
          /\ store' = [store EXCEPT ![o.l] = IF @.at <= o.v.at THEN Absent ELSE @]
     ELSE /\ \/ store' = [store EXCEPT ![o.l] = IF o.v.at >= @.at THEN o.v ELSE @]
             \/ o.v.at = store[o.l].at /\ UNCHANGED store  \* the lower id stays
          /\ UNCHANGED gone
  /\ ops' = (ops \ {o}) \cup
            (IF o.kind \in {"add", "remove"} THEN {} ELSE {[o EXCEPT !.pc = "ok"]})
  /\ UNCHANGED <<now, Views, page, detail, made, dropped>>

\* setQueryData of either hook.
AfterDelete(o) ==
  /\ view' = [view EXCEPT ![o.l] = Absent]
  /\ dropped' = [dropped EXCEPT ![o.l] = IF o.v.at > @ THEN o.v.at ELSE @]
AfterCreate(o) == view' = [view EXCEPT ![o.l] = o.v] /\ UNCHANGED dropped

\* onSuccess of useCreateVideoList and of useDeleteVideoList; after a creation and
\* after a deletion the dialog goes to another page.
Succeed(o) ==
  /\ o.pc = "ok" /\ ops' = ops \ {o}
  /\ IF o.kind = "delete" THEN AfterDelete(o) ELSE AfterCreate(o)
  /\ page' = IF o.kind = "delete" THEN "lists" ELSE IF o.kind = "create" THEN o.l ELSE page
  /\ Invalidate
  /\ UNCHANGED <<Relay, now, detail, made>>

Tick ==
  /\ now < MaxTime /\ now' = now + 1
  /\ UNCHANGED <<Relay, Views, page, detail, ops, made, dropped>>

Next ==
  \/ FetchRead \/ FetchDone \/ FetchFail \/ Revisit \/ DetailFetch \/ Leave \/ Tick
  \/ Edit \/ Delete
  \/ \E l \in List :
       Open(l) \/ CreateEmpty(l) \/ \E x \in Video : CreateAndAdd(l, x) \/ Add(l, x)
  \/ \E x \in Video : Remove(x)
  \/ \E o \in ops : ReadList(o) \/ Fail(o) \/ Accept(o) \/ Succeed(o)

Spec == Init /\ [][Next]_vars

-----------------------------------------------------------------------------
(* Properties. *)

\* A list the user sees does not vanish from the cached lists unless it has been
\* deleted: no answer read before its creation replaces what useCreateVideoList
\* put into the cache.
ViewStep == \A l \in List : view[l].at > 0 /\ view'[l].at = 0 => gone[l] > 0
ListStaysInView == [][ViewStep]_vars

\* Once useDeleteVideoList has succeeded, no answer on its way to the cached lists
\* holds a version the deletion covers: a query asked before is not delivered.
DeletedStaysOut ==
  viewPc = "answered" =>
    \A l \in List : snap[l].at = 0 \/ snap[l].at > dropped[l]

-----------------------------------------------------------------------------
(* Proofs. *)

Kept == [at : Nat, vids : SUBSET Video, full : BOOLEAN]
Task == [n : Nat, kind : {"create", "edit", "add", "remove", "delete"}, l : List,
         x : SUBSET Video, v : Kept, pc : {"read", "sent", "ok"}]

Typed ==
  /\ store \in [List -> Kept] /\ view \in [List -> Kept] /\ snap \in [List -> Kept]
  /\ detail \in [List -> Kept]
  /\ gone \in [List -> Nat] /\ dropped \in [List -> Nat]
  /\ now \in Nat \ {0} /\ made \in Nat /\ ops \subseteq Task
  /\ viewPc \in {"idle", "asked", "answered"}

\* Which version of a list the relay keeps, and which deletion, is known to the cached
\* lists: the relay has nothing its newest deletion covers, and a deletion is on the relay
\* before its onSuccess runs; an answer on its way holds nothing a deletion covers whose
\* onSuccess ran before it was asked.
DeletedInv ==
  /\ \A l \in List : store[l].at = 0 \/ store[l].at > gone[l]
  /\ \A l \in List : dropped[l] <= gone[l]
  /\ \A o \in ops : o.kind = "delete" /\ o.pc = "ok" => o.v.at <= gone[o.l]
  /\ viewPc = "answered" => \A l \in List : snap[l].at = 0 \/ snap[l].at > dropped[l]

\* A list that is shown, or was created, is on the relay unless it was deleted there, and
\* an answer on its way lacks none that is shown but those.
OnRelay(l) == store[l].at > 0 \/ gone[l] > 0
ShownInv ==
  /\ \A l \in List : view[l].at > 0 \/ snap[l].at > 0 => OnRelay(l)
  /\ \A o \in ops : o.kind \in {"create", "edit", "delete"} \/ o.pc = "sent" => o.v.at > 0
  /\ \A o \in ops : o.pc = "ok" =>
       /\ o.kind \in {"create", "edit", "delete"} /\ OnRelay(o.l)
       /\ o.kind = "delete" => gone[o.l] > 0
  /\ viewPc = "answered" => \A l \in List : view[l].at > 0 /\ snap[l].at = 0 => gone[l] > 0

\* A dialog begins an operation, whose version has a time unless it is yet to be made.
Begins ==
  /\ UNCHANGED <<store, gone, now, view, viewPc, snap, detail, dropped>>
  /\ made' \in Nat /\ ops' \subseteq Task
  /\ \A o \in ops' \ ops :
       o.pc # "ok" /\ (o.kind \in {"create", "edit", "delete"} \/ o.pc = "sent" => o.v.at > 0)

LEMMA BeginIs ==
  ASSUME Typed, NEW kind \in {"create", "edit", "add", "remove", "delete"}, NEW l \in List,
         NEW x \in SUBSET Video, NEW v \in Kept, NEW pc \in {"read", "sent"},
         Begin(kind, l, x, v, pc),
         kind \in {"create", "edit", "delete"} \/ pc = "sent" => v.at > 0
  PROVE  Begins
<1> DEFINE o == [n |-> made + 1, kind |-> kind, l |-> l, x |-> x, v |-> v, pc |-> pc]
<1>1. o \in Task
  BY DEF Task, Typed
<1>2. ops' = ops \cup {o} /\ made' = made + 1
  BY DEF Begin
<1>3. UNCHANGED <<store, gone, now, view, viewPc, snap, detail, dropped>>
  BY DEF Begin, Relay, Views
<1>4. o.pc = pc /\ o.kind = kind /\ o.v = v
  OBVIOUS
<1> HIDE DEF o
<1> QED BY <1>1, <1>2, <1>3, <1>4 DEF Typed, Begins

Beginning ==
  \/ Edit \/ Delete
  \/ \E l \in List : CreateEmpty(l) \/ \E x \in Video : CreateAndAdd(l, x) \/ Add(l, x)
  \/ \E x \in Video : Remove(x)

LEMMA BeginningIs ==
  ASSUME Typed, Beginning
  PROVE  Begins
<1>1. now \in Nat \ {0} /\ Absent \in Kept /\ \A l \in List : detail[l].vids \in SUBSET Video
  BY DEF Typed, Kept, Absent
<1>2. \A S \in SUBSET Video : NewList(S) \in Kept /\ NewList(S).at > 0
  BY <1>1 DEF NewList, Kept
<1>3. Deletion \in Kept /\ Deletion.at > 0
  BY <1>1 DEF Deletion, Kept
<1>4. CASE Edit
  BY <1>1, <1>2, <1>4, BeginIs DEF Edit
<1>5. CASE Delete
  BY <1>3, <1>5, BeginIs DEF Delete
<1>6. ASSUME NEW l \in List, CreateEmpty(l) PROVE Begins
  BY <1>2, <1>6, BeginIs DEF CreateEmpty
<1>7. ASSUME NEW l \in List, NEW x \in Video, CreateAndAdd(l, x) PROVE Begins
  BY <1>2, <1>7, BeginIs DEF CreateAndAdd
<1>8. ASSUME NEW l \in List, NEW x \in Video, Add(l, x) PROVE Begins
  BY <1>1, <1>8, BeginIs DEF Add
<1>9. ASSUME NEW x \in Video, Remove(x) PROVE Begins
  BY <1>1, <1>9, BeginIs DEF Remove
<1> QED BY <1>4, <1>5, <1>6, <1>7, <1>8, <1>9 DEF Beginning

\* The relay takes a version or a deletion that was sent.
LEMMA AcceptIs ==
  ASSUME Typed, NEW o \in ops, Accept(o)
  PROVE  /\ UNCHANGED <<now, view, viewPc, snap, detail, made, dropped>>
         /\ store' \in [List -> Kept] /\ gone' \in [List -> Nat] /\ ops' \subseteq Task
         /\ o.pc = "sent"
         /\ \A l \in List \ {o.l} : store'[l] = store[l] /\ gone'[l] = gone[l]
         /\ \A p \in ops' \ ops : p.l = o.l /\ p.v = o.v /\ p.kind = o.kind
                                  /\ o.kind \in {"create", "edit", "delete"}
         /\ IF o.kind = "delete"
            THEN /\ gone'[o.l] >= gone[o.l] /\ gone'[o.l] >= o.v.at
                 /\ gone'[o.l] \in {gone[o.l], o.v.at}
                 /\ \/ store'[o.l].at = 0
                    \/ store'[o.l] = store[o.l] /\ store[o.l].at > o.v.at
            ELSE /\ gone' = gone /\ o.v.at > gone[o.l]
                 /\ store'[o.l] = o.v \/ (store'[o.l] = store[o.l] /\ store[o.l].at >= o.v.at)
<1>1. /\ o \in Task /\ o.l \in List /\ o.v \in Kept /\ o.v.at \in Nat /\ gone[o.l] \in Nat
      /\ store[o.l] \in Kept /\ store[o.l].at \in Nat /\ Absent \in Kept /\ Absent.at = 0
  BY DEF Typed, Task, Kept, Absent
<1>2. UNCHANGED <<now, view, viewPc, snap, detail, made, dropped>> /\ o.pc = "sent"
  BY DEF Accept, Views
<1>3. [o EXCEPT !.pc = "ok"] \in Task /\ [o EXCEPT !.pc = "ok"].l = o.l
      /\ [o EXCEPT !.pc = "ok"].v = o.v /\ [o EXCEPT !.pc = "ok"].kind = o.kind
  BY <1>1 DEF Task
<1>4. /\ ops' \subseteq Task
      /\ \A p \in ops' \ ops : p.l = o.l /\ p.v = o.v /\ p.kind = o.kind
                               /\ o.kind \in {"create", "edit", "delete"}
  <2>1. ops' = (ops \ {o}) \cup (IF o.kind \in {"add", "remove"} THEN {}
                                 ELSE {[o EXCEPT !.pc = "ok"]})
    BY DEF Accept
  <2>2. o.kind \in {"create", "edit", "add", "remove", "delete"}
    BY <1>1 DEF Task
  <2> QED BY <1>3, <2>1, <2>2 DEF Typed
<1>5. CASE o.kind = "delete"
  BY <1>1, <1>2, <1>4, <1>5 DEF Accept, Typed
<1>6. CASE o.kind # "delete"
  BY <1>1, <1>2, <1>4, <1>6 DEF Accept, Typed
<1> QED BY <1>5, <1>6

\* onSuccess puts what was published, or nothing, into the cached lists and has them
\* asked for again.
LEMMA SucceedIs ==
  ASSUME Typed, NEW o \in ops, Succeed(o)
  PROVE  /\ UNCHANGED <<store, gone, now, snap, detail, made>> /\ viewPc' = "asked"
         /\ ops' = ops \ {o} /\ o.pc = "ok"
         /\ view' \in [List -> Kept] /\ dropped' \in [List -> Nat]
         /\ \A l \in List \ {o.l} : view'[l] = view[l] /\ dropped'[l] = dropped[l]
         /\ IF o.kind = "delete"
            THEN view'[o.l].at = 0 /\ dropped'[o.l] \in {dropped[o.l], o.v.at}
            ELSE view'[o.l] = o.v /\ dropped' = dropped
<1>1. /\ o \in Task /\ o.l \in List /\ o.v \in Kept /\ o.v.at \in Nat
      /\ dropped[o.l] \in Nat /\ Absent \in Kept /\ Absent.at = 0
  BY DEF Typed, Task, Kept, Absent
<1> QED BY <1>1 DEF Succeed, AfterDelete, AfterCreate, Invalidate, Relay, Typed

\* An addition or a removal has read the list it changes.
LEMMA ReadListIs ==
  ASSUME Typed, NEW o \in ops, ReadList(o)
  PROVE  /\ UNCHANGED <<store, gone, now, view, snap, detail, made, dropped>>
         /\ viewPc' = "asked" /\ ops' \subseteq Task
         /\ \A p \in ops' \ ops : p.pc = "sent" /\ p.v.at > 0 /\ p.kind = o.kind
<1> DEFINE old == store[o.l]
           p == [o EXCEPT !.v = Rebuild(o, old), !.pc = "sent"]
<1>1. o \in Task /\ old \in Kept /\ now \in Nat \ {0}
  BY DEF Typed, Task
<1>2. Rebuild(o, old) \in Kept /\ Rebuild(o, old).at > 0
  BY <1>1 DEF Rebuild, Kept, Task
<1>3. p \in Task /\ p.pc = "sent" /\ p.v.at > 0 /\ p.kind = o.kind
  BY <1>1, <1>2 DEF Task
<1>4. ops' \subseteq (ops \ {o}) \cup {p}
  BY DEF ReadList
<1>5. UNCHANGED <<store, gone, now, view, snap, detail, made, dropped>> /\ viewPc' = "asked"
  BY DEF ReadList, Invalidate, Relay
<1> HIDE DEF p
<1> QED BY <1>3, <1>4, <1>5 DEF Typed

LEMMA TypedStep == Typed /\ [Next]_vars => Typed'
<1> SUFFICES ASSUME Typed, [Next]_vars PROVE Typed'
  OBVIOUS
<1>1. CASE Beginning
  BY <1>1, BeginningIs DEF Begins, Typed
<1>2. ASSUME NEW o \in ops, Accept(o) PROVE Typed'
  BY <1>2, AcceptIs DEF Typed
<1>3. ASSUME NEW o \in ops, Succeed(o) PROVE Typed'
  BY <1>3, SucceedIs DEF Typed
<1>4. ASSUME NEW o \in ops, ReadList(o) PROVE Typed'
  BY <1>4, ReadListIs DEF Typed
<1>5. ASSUME NEW o \in ops, Fail(o) PROVE Typed'
  BY <1>5 DEF Fail, Relay, Views, Typed
<1>6. CASE FetchRead \/ FetchDone \/ FetchFail \/ Revisit
  BY <1>6 DEF FetchRead, FetchDone, FetchFail, Revisit, Relay, Typed
<1>7. CASE DetailFetch
  BY <1>7 DEF DetailFetch, Relay, Views, Typed
<1>8. CASE Leave \/ Tick \/ UNCHANGED vars
  BY <1>8 DEF Leave, Tick, Relay, Views, vars, Typed
<1>9. ASSUME NEW l \in List, Open(l) PROVE Typed'
  BY <1>9 DEF Open, Relay, Views, Typed
<1> QED
  BY <1>1, <1>2, <1>3, <1>4, <1>5, <1>6, <1>7, <1>8, <1>9 DEF Next, Beginning

LEMMA DeletedStep == Typed /\ DeletedInv /\ [Next]_vars => DeletedInv'
<1> SUFFICES ASSUME Typed, DeletedInv, [Next]_vars PROVE DeletedInv'
  OBVIOUS
<1>0. /\ \A l \in List : store[l].at \in Nat /\ gone[l] \in Nat /\ dropped[l] \in Nat
                         /\ snap[l].at \in Nat
      /\ \A o \in ops : o.l \in List /\ o.v.at \in Nat
  BY DEF Typed, Kept, Task
<1>1. CASE Beginning
  BY <1>1, BeginningIs DEF Begins, DeletedInv
<1>2. ASSUME NEW o \in ops, Accept(o) PROVE DeletedInv'
  <2>1. UNCHANGED <<viewPc, snap, dropped>>
    BY <1>2, AcceptIs
  <2>2. \A l \in List : gone'[l] >= gone[l] /\ gone'[l] \in Nat
    BY <1>0, <1>2, AcceptIs DEF Typed
  <2>3. \A l \in List : dropped'[l] <= gone'[l]
    BY <1>0, <2>1, <2>2 DEF DeletedInv
  <2>4. \A l \in List : store'[l].at = 0 \/ store'[l].at > gone'[l]
    BY <1>0, <1>2, AcceptIs DEF DeletedInv
  <2>5. \A p \in ops' : p.kind = "delete" /\ p.pc = "ok" => p.v.at <= gone'[p.l]
    BY <1>0, <1>2, <2>2, AcceptIs DEF DeletedInv
  <2> QED BY <2>1, <2>3, <2>4, <2>5 DEF DeletedInv
<1>3. ASSUME NEW o \in ops, Succeed(o) PROVE DeletedInv'
  <2>1. UNCHANGED <<store, gone>> /\ viewPc' = "asked" /\ ops' \subseteq ops /\ o.pc = "ok"
    BY <1>3, SucceedIs
  <2>2. \A l \in List : dropped'[l] <= gone'[l]
    BY <1>0, <1>3, SucceedIs DEF DeletedInv
  <2> QED BY <2>1, <2>2 DEF DeletedInv
<1>4. ASSUME NEW o \in ops, ReadList(o) PROVE DeletedInv'
  BY <1>4, ReadListIs DEF DeletedInv
<1>5. ASSUME NEW o \in ops, Fail(o) PROVE DeletedInv'
  BY <1>5 DEF Fail, Relay, Views, DeletedInv
<1>6. CASE FetchRead
  BY <1>0, <1>6 DEF FetchRead, Relay, DeletedInv
<1>7. CASE FetchDone \/ FetchFail \/ Revisit
  BY <1>7 DEF FetchDone, FetchFail, Revisit, Relay, DeletedInv
<1>8. CASE DetailFetch \/ Leave \/ Tick \/ UNCHANGED vars \/ \E l \in List : Open(l)
  BY <1>8 DEF DetailFetch, Leave, Tick, Open, Relay, Views, vars, DeletedInv
<1> QED BY <1>1, <1>2, <1>3, <1>4, <1>5, <1>6, <1>7, <1>8 DEF Next, Beginning

LEMMA ShownStep == Typed /\ ShownInv /\ [Next]_vars => ShownInv' /\ ViewStep
<1> SUFFICES ASSUME Typed, ShownInv, [Next]_vars PROVE ShownInv' /\ ViewStep
  OBVIOUS
<1> USE DEF OnRelay
<1>0. /\ \A l \in List : store[l].at \in Nat /\ gone[l] \in Nat /\ view[l].at \in Nat
                         /\ snap[l].at \in Nat
      /\ \A o \in ops : o.l \in List /\ o.v.at \in Nat
  BY DEF Typed, Kept, Task
<1>1. CASE Beginning
  <2>1. UNCHANGED <<store, gone, view, viewPc, snap>>
        /\ \A o \in ops' \ ops : /\ o.pc # "ok"
             /\ (o.kind \in {"create", "edit", "delete"} \/ o.pc = "sent" => o.v.at > 0)
    BY <1>1, BeginningIs DEF Begins
  <2> QED BY <1>0, <2>1 DEF ShownInv, ViewStep
<1>2. ASSUME NEW o \in ops, Accept(o) PROVE ShownInv' /\ ViewStep
  <2>1. UNCHANGED <<view, viewPc, snap>> /\ o.v.at > 0
    BY <1>2, AcceptIs DEF ShownInv
  <2>2. \A l \in List : /\ OnRelay(l) => OnRelay(l)'
                        /\ gone[l] > 0 => gone'[l] > 0
    BY <1>0, <1>2, <2>1, AcceptIs
  <2>3. OnRelay(o.l)' /\ (o.kind = "delete" => gone'[o.l] > 0)
    BY <1>0, <1>2, <2>1, AcceptIs
  <2>4. \A p \in ops' \ ops : p.l = o.l /\ p.v = o.v /\ p.kind = o.kind
                              /\ o.kind \in {"create", "edit", "delete"}
    BY <1>2, AcceptIs
  <2> QED BY <1>0, <2>1, <2>2, <2>3, <2>4 DEF ShownInv, ViewStep
<1>3. ASSUME NEW o \in ops, Succeed(o) PROVE ShownInv' /\ ViewStep
  <2>1. /\ UNCHANGED <<store, gone, snap>> /\ viewPc' = "asked" /\ ops' \subseteq ops
        /\ OnRelay(o.l) /\ o.v.at > 0 /\ (o.kind = "delete" => gone[o.l] > 0)
    BY <1>3, SucceedIs DEF ShownInv
  <2>2. \A l \in List \ {o.l} : view'[l] = view[l]
    BY <1>3, SucceedIs
  <2>3. IF o.kind = "delete" THEN view'[o.l].at = 0 ELSE view'[o.l] = o.v
    BY <1>3, SucceedIs
  <2>4. ViewStep
    BY <1>0, <2>1, <2>2, <2>3 DEF ViewStep
  <2>5. \A l \in List : view'[l].at > 0 \/ snap'[l].at > 0 => OnRelay(l)'
    BY <1>0, <2>1, <2>2, <2>3 DEF ShownInv
  <2> QED BY <2>1, <2>4, <2>5 DEF ShownInv
<1>4. ASSUME NEW o \in ops, ReadList(o) PROVE ShownInv' /\ ViewStep
  <2>1. UNCHANGED <<store, gone, view, snap>> /\ viewPc' = "asked"
        /\ \A p \in ops' \ ops : p.pc = "sent" /\ p.v.at > 0
    BY <1>4, ReadListIs
  <2> QED BY <1>0, <2>1 DEF ShownInv, ViewStep
<1>5. ASSUME NEW o \in ops, Fail(o) PROVE ShownInv' /\ ViewStep
  BY <1>0, <1>5 DEF Fail, Relay, Views, ShownInv, ViewStep
<1>6. CASE FetchRead \/ FetchDone \/ FetchFail \/ Revisit
  <2>1. UNCHANGED <<store, gone, ops>>
    BY <1>6 DEF FetchRead, FetchDone, FetchFail, Revisit, Relay
  <2>2. \/ view' = view /\ snap' = snap /\ viewPc' # "answered"
        \/ view' = view /\ snap' = store
        \/ view' = snap /\ snap' = snap /\ viewPc = "answered" /\ viewPc' = "idle"
    BY <1>6 DEF FetchRead, FetchDone, FetchFail, Revisit
  <2> QED BY <1>0, <2>1, <2>2 DEF ShownInv, ViewStep
<1>7. CASE DetailFetch \/ Leave \/ Tick \/ UNCHANGED vars \/ \E l \in List : Open(l)
  <2>1. UNCHANGED <<store, gone, view, viewPc, snap, ops>>
    BY <1>7 DEF DetailFetch, Leave, Tick, Open, Relay, Views, vars
  <2> QED BY <1>0, <2>1 DEF ShownInv, ViewStep
<1> QED BY <1>1, <1>2, <1>3, <1>4, <1>5, <1>6, <1>7 DEF Next, Beginning

LEMMA ListsInit == Init => Typed /\ DeletedInv /\ ShownInv
<1> SUFFICES ASSUME Init PROVE Typed /\ DeletedInv /\ ShownInv
  OBVIOUS
<1>1. Absent \in Kept /\ [at |-> 1, vids |-> Video, full |-> TRUE] \in Kept /\ Absent.at = 0
  BY DEF Absent, Kept
<1>2. Typed
  <2>1. store \in [List -> Kept]
    BY <1>1 DEF Init
  <2>2. view \in [List -> Kept] /\ snap \in [List -> Kept] /\ detail \in [List -> Kept]
    BY <1>1 DEF Init
  <2>3. gone \in [List -> Nat] /\ dropped \in [List -> Nat]
    BY DEF Init
  <2> QED BY <2>1, <2>2, <2>3 DEF Init, Typed
<1>3. \A l \in List : store[l].at = 0 \/ store[l].at = 1
  BY <1>1 DEF Init
<1> QED BY <1>1, <1>2, <1>3 DEF Init, DeletedInv, ShownInv, OnRelay

\* For any lists, videos, operations and times: what was deleted does not come back into
\* the cached lists with an answer asked before (the cancelled fetches of
\* useDeleteVideoList's onSuccess).
THEOREM DeletedStaysOutHolds == Spec => []DeletedStaysOut
<1>1. DeletedInv => DeletedStaysOut
  BY DEF DeletedInv, DeletedStaysOut
<1> QED BY <1>1, ListsInit, TypedStep, DeletedStep, PTL DEF Spec

\* For any lists, videos, operations and times: a list the user sees leaves the cached
\* lists only when it was deleted (useCreateVideoList's onSuccess).
THEOREM ListStaysInViewHolds == Spec => ListStaysInView
<1>1. Typed /\ ShownInv /\ [Next]_vars => [ViewStep]_vars
  BY ShownStep
<1> QED BY <1>1, ListsInit, TypedStep, ShownStep, PTL DEF Spec, ListStaysInView
=============================================================================
