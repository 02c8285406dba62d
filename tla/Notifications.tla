---------------------------- MODULE Notifications -----------------------------
(***************************************************************************)
(* The user's notifications: the server's list of them, the query of the   *)
(* page that shows it page by page, the query of the badge in the header,  *)
(* which is polled, and the requests that mark what the page showed as     *)
(* read, in the caches at once and on the server later.                    *)
(*                                                                         *)
(* The n-th notification has the id n. Only follows are told apart from    *)
(* other types, and all are of one actor: a page keeps the newest of an    *)
(* actor's. Another device that marks as read, the age of cached answers   *)
(* and the errors shown are left out.                                      *)
(***************************************************************************)
EXTENDS Integers, Sequences, FiniteSets

CONSTANTS
  PageSize,
  MaxNote,   \* bound: notifications
  MaxMark,   \* bound: requests that mark
  MaxRead    \* bound: reads of the list

VARIABLES
  inbox,     \* server: whether each notification is a follow, and read
  open,      \* the page is mounted
  marked,    \* hasMarkedRead
  list,      \* query notifications: its pages, none before it has data
  read,      \* its request: where the next page begins, how many pages, those it got
  count,     \* query notifications-unread-count, None before it has data
  poll,      \* its request
  marks,     \* requests that mark
  reads, made,
  behind     \* history: something happened that no answer to a poll tells

vars == <<inbox, open, marked, list, read, count, poll, marks, reads, made, behind>>

None == -1
NoRead == [st |-> "none", from |-> 0, want |-> 0, got |-> <<>>, next |-> FALSE]
NoPoll == [st |-> "none", n |-> 0, late |-> FALSE]
Id == 1..MaxNote
Line == [id : Id, read : BOOLEAN]

TypeOK ==
  /\ Len(inbox) <= MaxNote /\ \A i \in 1..Len(inbox) : inbox[i] \in [follow : BOOLEAN, read : BOOLEAN]
  /\ {open, marked, behind} \subseteq BOOLEAN
  /\ \A pages \in {list, read.got} : \A i \in 1..Len(pages) :
       /\ pages[i].next \in 0..MaxNote
       /\ \A j \in 1..Len(pages[i].shown) : pages[i].shown[j] \in Line
  /\ read.st \in {"none", "asked", "served"} /\ read.from \in 0..MaxNote + 1
  /\ read.want \in 0..MaxNote /\ read.next \in BOOLEAN
  /\ count \in {None} \cup 0..MaxNote
  /\ poll \in [st : {"none", "asked", "served"}, n : 0..MaxNote, late : BOOLEAN]
  /\ marks \subseteq [n : 1..MaxMark, ids : SUBSET Id, st : {"sent", "over"}]
  /\ reads \in 0..MaxRead /\ made \in 0..MaxMark

Init ==
  /\ \E n \in 0..PageSize + 1 : inbox \in [1..n -> [follow : BOOLEAN, read : {FALSE}]]
  /\ open = FALSE /\ marked = FALSE /\ list = <<>> /\ read = NoRead /\ count = None
  /\ poll = [NoPoll EXCEPT !.st = "asked"] /\ marks = {} /\ reads = 0 /\ made = 0
  /\ behind = FALSE

Unread == Cardinality({i \in 1..Len(inbox) : ~inbox[i].read})

-----------------------------------------------------------------------------
(* The server. *)

Arrive ==
  /\ Len(inbox) < MaxNote
  /\ \E follow \in BOOLEAN : inbox' = Append(inbox, [follow |-> follow, read |-> FALSE])
  /\ behind' = TRUE /\ poll' = [poll EXCEPT !.late = poll.st = "served"]
  /\ UNCHANGED <<open, marked, list, read, count, marks, reads, made>>

\* Mutant: the next page begins one further on.
Page_Skips(from) ==
  LET ids == {i \in 1..Len(inbox) : i < from /\ i >= from - PageSize}
      raw == [n \in 1..Cardinality(ids) |-> from - n]
      kept == SelectSeq(raw, LAMBDA i : ~inbox[i].follow \/ \A j \in ids : j > i => ~inbox[j].follow)
  IN  [shown |-> [n \in 1..Len(kept) |-> [id |-> kept[n], read |-> inbox[kept[n]].read]],
       next |-> IF from - PageSize - 1 > 1 THEN from - PageSize - 1 ELSE 0]

\* The page of those before an id, and where the next one begins; a follow is kept if it
\* is the newest of the page.
Page(from) ==
  LET ids == {i \in 1..Len(inbox) : i < from /\ i >= from - PageSize}
      raw == [n \in 1..Cardinality(ids) |-> from - n]
      kept == SelectSeq(raw, LAMBDA i : ~inbox[i].follow \/ \A j \in ids : j > i => ~inbox[j].follow)
  IN  [shown |-> [n \in 1..Len(kept) |-> [id |-> kept[n], read |-> inbox[kept[n]].read]],
       next |-> IF from - PageSize > 1 THEN from - PageSize ELSE 0]

ServeRead ==
  /\ read.st = "asked"
  /\ LET from == IF read.from = 0 THEN Len(inbox) + 1 ELSE read.from
         page == Page(from)
         more == page.next # 0 /\ Len(read.got) + 1 < read.want
     IN  read' = [read EXCEPT !.got = Append(@, page), !.from = page.next,
                              !.st = IF more THEN "asked" ELSE "served"]
  /\ UNCHANGED <<inbox, open, marked, list, count, poll, marks, reads, made, behind>>

ServePoll ==
  /\ poll.st = "asked" /\ poll' = [st |-> "served", n |-> Unread, late |-> FALSE]
  /\ UNCHANGED <<inbox, open, marked, list, read, count, marks, reads, made, behind>>

\* The server marks, or the request fails.
ServeMark(m) ==
  /\ m.st = "sent" /\ marks' = (marks \ {m}) \cup {[m EXCEPT !.st = "over"]}
  /\ inbox' \in {inbox, [i \in 1..Len(inbox) |-> [inbox[i] EXCEPT !.read = @ \/ i \in m.ids]]}
  /\ UNCHANGED <<open, marked, list, read, count, poll, reads, made, behind>>

-----------------------------------------------------------------------------
(* The list. *)

Ask(want) ==
  /\ reads < MaxRead /\ reads' = reads + 1
  /\ read' = [NoRead EXCEPT !.st = "asked", !.want = want]

Pages == IF list = <<>> THEN 1 ELSE Len(list)

\* What is cached is read anew if it is old.
Open ==
  /\ ~open /\ open' = TRUE /\ marked' = FALSE
  /\ \/ Ask(Pages)
     \/ list # <<>> /\ UNCHANGED <<read, reads>>
  /\ UNCHANGED <<inbox, list, count, poll, marks, made, behind>>

\* The request of a query nobody looks at is aborted.
Leave ==
  /\ open /\ open' = FALSE /\ read' = NoRead
  /\ UNCHANGED <<inbox, marked, list, count, poll, marks, reads, made, behind>>

Focus ==
  /\ open /\ read.st = "none" /\ Ask(Pages)
  /\ UNCHANGED <<inbox, open, marked, list, count, poll, marks, made, behind>>

\* The end of the list is seen; a refetch under way gives way.
FetchNext ==
  /\ open /\ list # <<>> /\ list[Len(list)].next # 0 /\ ~read.next
  /\ reads < MaxRead /\ reads' = reads + 1
  /\ read' = [st |-> "asked", from |-> list[Len(list)].next, want |-> 1, got |-> <<>>, next |-> TRUE]
  /\ UNCHANGED <<inbox, open, marked, list, count, poll, marks, made, behind>>

ReadAnswer ==
  /\ read.st = "served" /\ list' = (IF read.next THEN list \o read.got ELSE read.got)
  /\ read' = NoRead
  /\ UNCHANGED <<inbox, open, marked, count, poll, marks, reads, made, behind>>

ReadFails ==
  /\ read.st # "none" /\ read' = NoRead
  /\ UNCHANGED <<inbox, open, marked, list, count, poll, marks, reads, made, behind>>

-----------------------------------------------------------------------------
(* The badge. *)

Poll ==
  /\ poll.st = "none" /\ poll' = [NoPoll EXCEPT !.st = "asked"]
  /\ UNCHANGED <<inbox, open, marked, list, read, count, marks, reads, made, behind>>

PollAnswer ==
  /\ poll.st = "served" /\ count' = poll.n /\ behind' = poll.late /\ poll' = NoPoll
  /\ UNCHANGED <<inbox, open, marked, list, read, marks, reads, made>>

PollFails ==
  /\ poll.st # "none" /\ poll' = NoPoll /\ behind' = TRUE
  /\ UNCHANGED <<inbox, open, marked, list, read, count, marks, reads, made>>

-----------------------------------------------------------------------------
(* Marking as read. *)

Lines == UNION {{list[i].shown[j] : j \in DOMAIN list[i].shown} : i \in DOMAIN list}

NewIds == {line.id : line \in {l \in Lines : ~l.read}}

\* The page's effect, once per mount, and onMutate: what is shown is marked at once, and
\* the badge goes down by as many.
MarkRead ==
  /\ open /\ ~marked /\ NewIds # {} /\ made < MaxMark
  /\ marked' = TRUE /\ made' = made + 1
  /\ marks' = marks \cup {[n |-> made + 1, ids |-> NewIds, st |-> "sent"]}
  /\ read' = NoRead /\ poll' = NoPoll
  /\ list' = [i \in 1..Len(list) |-> [list[i] EXCEPT !.shown =
                [j \in 1..Len(@) |-> [@[j] EXCEPT !.read = TRUE]]]]
  /\ count' = LET old == IF count = None THEN 0 ELSE count
                  new == old - Cardinality(NewIds)
              IN  IF new < 0 THEN 0 ELSE new
  /\ UNCHANGED <<inbox, open, reads, behind>>

\* Mutant: the badge is not read again.
Settled_Kept == UNCHANGED poll

\* onSettled: the badge is read again, by a new request.
Settled == poll' = [NoPoll EXCEPT !.st = "asked"]

MarkSettles(m) ==
  /\ m.st = "over" /\ marks' = marks \ {m} /\ Settled
  /\ UNCHANGED <<inbox, open, marked, list, read, count, reads, made, behind>>

Next ==
  \/ Arrive \/ ServeRead \/ ServePoll \/ Open \/ Leave \/ Focus \/ FetchNext \/ ReadAnswer
  \/ ReadFails \/ Poll \/ PollAnswer \/ PollFails \/ MarkRead
  \/ \E m \in marks : ServeMark(m) \/ MarkSettles(m)

Spec == Init /\ [][Next]_vars

-----------------------------------------------------------------------------
(* Properties. *)

\* With nothing under way the badge shows what the server counts, if no poll failed and
\* nothing arrived since: it was lowered before the server knew, the request may have
\* failed, and polls overlap it ("server will sync on next refresh", useNotifications).
BadgeIsServers ==
  poll.st = "none" /\ marks = {} /\ ~behind /\ count # None => count = Unread

\* Between the newest notification shown and the last place read nothing is missing but
\* follows that a newer one stands for, however pages, arrivals and refetches mix.
ListIsWhole ==
  list # <<>> =>
    \A i \in 1..Len(inbox) :
      (\E line \in Lines : line.id > i) /\ i >= list[Len(list)].next =>
        \/ \E line \in Lines : line.id = i
        \/ inbox[i].follow /\ \E line \in Lines : line.id > i /\ inbox[line.id].follow

-----------------------------------------------------------------------------
(* The inductive invariant of BadgeIsServers. *)

\* With no marks under way: a poll the server has answered brings what it counts, unless it
\* says that it is late; and without a poll the badge has it, unless something is behind.
CountInv ==
  /\ poll = [st |-> poll.st, n |-> poll.n, late |-> poll.late]
  /\ marks = {} =>
       /\ poll.st = "none" /\ ~behind /\ count # None => count = Unread
       /\ poll.st = "served" /\ ~poll.late => poll.n = Unread
==============================================================================
