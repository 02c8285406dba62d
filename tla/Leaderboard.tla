----------------------------- MODULE Leaderboard -----------------------------
(***************************************************************************)
(* The leaderboard: the videos or the creators with the most loops, of all *)
(* time or of the last day to year. Each board is a query of its own; for  *)
(* the videos whose author the server did not name it asks a second time.  *)
(* The server does not sort.                                               *)
(*                                                                         *)
(* Titles, pictures and the formatting of numbers are left out.            *)
(***************************************************************************)
EXTENDS Integers, Sequences, FiniteSets

CONSTANTS MaxAct  \* bound: clicks

VARIABLES
  tab, period,  \* what is chosen
  boards,       \* query results by key
  query,        \* the query under way: its key, phase, failures and what it has
  acts

vars == <<tab, period, boards, query, acts>>

Tab == {"videos", "creators"}
Period == {"alltime", "day"}
Keys == Tab \X Period
Video == {"v1", "v2"}
Loops == 0..1
Entry == [id : Video, loops : Loops, name : {"none", "given", "profile"}, of : Keys]
Idle == [phase |-> "none", key |-> <<"videos", "alltime">>, failures |-> 0, list |-> <<>>]

TypeOK ==
  /\ tab \in Tab /\ period \in Period /\ acts \in 0..MaxAct
  /\ DOMAIN boards \subseteq Keys
  /\ \A k \in DOMAIN boards : boards[k] \in [ok : BOOLEAN, list : Seq(Entry)]
  /\ query.phase \in {"none", "board", "names"} /\ query.key \in Keys
  /\ query.failures \in 0..1 /\ query.list \in Seq(Entry)

Orders(D) == {o \in [D -> D] : \A i, j \in D : o[i] = o[j] => i = j}

\* Mutant: the key is the tab.
Key_Tab(t, p) == <<t, "alltime">>

Key(t, p) == <<t, p>>

Begun(t, p) == [Idle EXCEPT !.phase = "board", !.key = <<t, p>>]
Has(t, p) == Key(t, p) \in DOMAIN boards /\ boards[Key(t, p)].ok

Init ==
  /\ tab = "videos" /\ period = "alltime" /\ boards = <<>> /\ acts = 0
  /\ query = Begun("videos", "alltime")

\* Another tab or period: the query under way is cancelled, and one without data is made;
\* one whose data are a minute old too.
Choose ==
  /\ acts < MaxAct /\ acts' = acts + 1 /\ UNCHANGED boards
  /\ \E t \in Tab, p \in Period, stale \in BOOLEAN :
       /\ <<t, p>> # <<tab, period>> /\ tab' = t /\ period' = p
       /\ query' = IF Has(t, p) /\ ~stale THEN Idle ELSE Begun(t, p)

\* Mutant: the order of the server.
Ranked_Not(list) == {list}

\* Most loops first; which of two with as many comes first is up to the server's order.
Ranked(list) ==
  {r \in {[i \in DOMAIN list |-> list[o[i]]] : o \in Orders(DOMAIN list)} :
     \A i, j \in DOMAIN r : i < j => r[i].loops >= r[j].loops}

\* What the query was made for gets the answer.
Finish(ok, list) ==
  LET k == Key(query.key[1], query.key[2])
  IN  /\ \E r \in Ranked(list) :
           boards' = [j \in DOMAIN boards \cup {k} |->
                        IF j = k THEN [ok |-> ok, list |-> r] ELSE boards[j]]
      /\ query' = Idle

\* The entries, in any order. Only the videos ask for the names that are missing.
Entries ==
  /\ query.phase = "board"
  /\ \E l \in [Video -> Loops], named \in {Video, {"v1"}},
        order \in {o \in [1..2 -> Video] : o[1] # o[2]} :
       LET list == [i \in 1..2 |-> [id |-> order[i], loops |-> l[order[i]], of |-> query.key,
                                   name |-> IF order[i] \in named THEN "given" ELSE "none"]]
       IN  IF query.key[1] = "videos" /\ named # Video  \* creators come with their names
           THEN query' = [query EXCEPT !.phase = "names", !.list = list] /\ UNCHANGED boards
           ELSE Finish(TRUE, list)
  /\ UNCHANGED <<tab, period, acts>>

\* A failure is tried once more; then it is told, in place of older data too.
EntriesFail ==
  /\ query.phase = "board"
  /\ IF query.failures = 0 THEN query' = [query EXCEPT !.failures = 1] /\ UNCHANGED boards
     ELSE Finish(FALSE, <<>>)
  /\ UNCHANGED <<tab, period, acts>>

Named(e, known) ==
  IF e.name = "none" /\ e.id \in known THEN [e EXCEPT !.name = "profile"] ELSE e

\* The names that are known, or none of them.
Names ==
  /\ query.phase = "names"
  /\ \E known \in {{}, Video} :
       Finish(TRUE, [i \in DOMAIN query.list |-> Named(query.list[i], known)])
  /\ UNCHANGED <<tab, period, acts>>

Next == Choose \/ Entries \/ EntriesFail \/ Names

Spec == Init /\ [][Next]_vars

-----------------------------------------------------------------------------
(* Properties. *)

\* The board on the screen is that of the tab and period chosen, whatever answers came after
\* they were left; and its ranks go by loops.
BoardIsTheChosen ==
  Key(tab, period) \in DOMAIN boards =>
    LET list == boards[Key(tab, period)].list
    IN  \A i, j \in DOMAIN list :
          list[i].of = <<tab, period>> /\ (i < j => list[i].loops >= list[j].loops)

-----------------------------------------------------------------------------
(* The inductive invariant of BoardIsTheChosen. *)

\* What is on a board, or on its way to it while names are asked for, is of its key.
BoardInv ==
  /\ tab \in Tab /\ period \in Period /\ query.key \in Keys
  /\ query = [phase |-> query.phase, key |-> query.key, failures |-> query.failures,
              list |-> query.list]
  /\ query.phase = "names" => \A i \in DOMAIN query.list :
       LET e == query.list[i]
       IN  e = [id |-> e.id, loops |-> e.loops, of |-> query.key, name |-> e.name]
  /\ \A k \in DOMAIN boards : \A i, j \in DOMAIN boards[k].list :
       /\ boards[k].list[i].of = k
       /\ i < j => boards[k].list[i].loops >= boards[k].list[j].loops
=============================================================================
