---------------------------- MODULE WebAccounts ----------------------------
(* The logins of the web application: LoginDialog, LoginArea, the account  *)
(* switcher and the list of accounts it reads, with the follow list each   *)
(* account leaves in localStorage.                                         *)
(*                                                                         *)
(* The dialog starts at most one attempt per press, but an attempt is a    *)
(* promise, a timer or a file reader: it outlives the dialog that started  *)
(* it.  One LoginArea is modelled; the key, the bunker address and the     *)
(* text of errors are left out.                                            *)
EXTENDS Integers, Sequences, FiniteSets, Functions

CONSTANTS
  User,       \* the accounts; the id of a login is its user
  MaxAttempt  \* bound: login attempts

VARIABLES
  logins,       \* useNostrLogin: the first one is the current user
  global,       \* LoginDialogContext.isOpen
  local,        \* LoginArea.localLoginDialogOpen
  signup,       \* LoginArea.signupDialogOpen
  loading,      \* LoginDialog.isLoading
  fileLoading,  \* LoginDialog.isFileLoading
  attempts,     \* attempts under way: [n, kind, user]
  made,         \* attempts so far
  asked,        \* reads of the accounts under way: the logins they are about
  authors,      \* key -> accounts: the queries of useLoggedInAccounts
  caches        \* users with a follow list in localStorage

vars == <<logins, global, local, signup, loading, fileLoading, attempts, made,
          asked, authors, caches>>

Dialogs == <<global, local, signup>>
Accounts == <<asked, authors>>

IsOpen == global \/ local

\* The reload that brings the logins back, or nobody logged in.
Init ==
  /\ logins = <<>>
  /\ global = FALSE /\ local = FALSE /\ signup = FALSE
  /\ loading = FALSE /\ fileLoading = FALSE
  /\ attempts = {} /\ made = 0
  /\ asked = {} /\ authors = << >>
  /\ caches = {}

-----------------------------------------------------------------------------
(* The dialog. *)

\* Mutant: the dialog keeps its state when it opens.
Reset_Not == UNCHANGED <<loading, fileLoading>>

\* The effect of LoginDialog on isOpen.
Reset == loading' = FALSE /\ fileLoading' = FALSE

Closed == global' = FALSE /\ local' = FALSE

\* A like, a comment or a report without an account; the modal covers the rest.
OpenGlobal ==
  /\ ~IsOpen /\ ~signup /\ logins = <<>>
  /\ global' = TRUE /\ Reset
  /\ UNCHANGED <<logins, local, signup, attempts, made, Accounts, caches>>

\* "Log in" and "Add another account".
OpenLocal ==
  /\ ~IsOpen /\ ~signup
  /\ local' = TRUE /\ Reset
  /\ UNCHANGED <<logins, global, signup, attempts, made, Accounts, caches>>

\* handleCloseLoginDialog: the cross, Escape and the overlay, at any time.
Close ==
  /\ IsOpen
  /\ Closed
  /\ UNCHANGED <<logins, signup, loading, fileLoading, attempts, made, Accounts, caches>>

\* The link of each dialog to the other; the button that joins the waitlist.
SignUp ==
  /\ IsOpen \/ (~signup /\ logins = <<>>)
  /\ Closed /\ signup' = TRUE
  /\ UNCHANGED <<logins, loading, fileLoading, attempts, made, Accounts, caches>>

HaveAccount ==
  /\ signup
  /\ signup' = FALSE /\ local' = TRUE /\ Reset
  /\ UNCHANGED <<logins, global, attempts, made, Accounts, caches>>

CloseSignUp ==
  /\ signup
  /\ signup' = FALSE
  /\ UNCHANGED <<logins, global, local, loading, fileLoading, attempts, made, Accounts, caches>>

-----------------------------------------------------------------------------
(* Attempts. *)

Attempt(kind, u) == [n |-> made + 1, kind |-> kind, user |-> u]

\* handleExtensionLogin, handleBunkerLogin and executeLogin from the key field.
Start(kind, u) ==
  /\ IsOpen /\ ~loading /\ made < MaxAttempt
  /\ loading' = TRUE
  /\ attempts' = attempts \union {Attempt(kind, u)} /\ made' = made + 1
  /\ UNCHANGED <<logins, Dialogs, fileLoading, Accounts, caches>>

\* handleFileUpload.
StartFile(u) ==
  /\ IsOpen /\ ~loading /\ ~fileLoading /\ made < MaxAttempt
  /\ fileLoading' = TRUE
  /\ attempts' = attempts \union {Attempt("file", u)} /\ made' = made + 1
  /\ UNCHANGED <<logins, Dialogs, loading, Accounts, caches>>

\* FileReader.onload with a key in the file: executeLogin, dialog or not.
FileRead(a) ==
  /\ a.kind = "file"
  /\ fileLoading' = FALSE /\ loading' = TRUE
  /\ attempts' = (attempts \ {a}) \union {[a EXCEPT !.kind = "key"]}
  /\ UNCHANGED <<logins, Dialogs, made, Accounts, caches>>

\* onload without one, onerror.
FileRefused(a) ==
  /\ a.kind = "file"
  /\ fileLoading' = FALSE
  /\ attempts' = attempts \ {a}
  /\ UNCHANGED <<logins, Dialogs, loading, made, Accounts, caches>>

\* No user is in the list twice: one entry goes at most.
Without(l, u) ==
  IF u \notin Range(l) THEN l
  ELSE LET i == CHOOSE i \in DOMAIN l : l[i] = u
       IN  SubSeq(l, 1, i - 1) \o SubSeq(l, i + 1, Len(l))

\* A login becomes the current one; its older entry goes.
Added(u) == <<u>> \o Without(logins, u)

\* The login of a key, of a bunker address or of the extension: once it has been
\* made it is added, whoever is logged in by then.
LogIn(u) == Added(u)

\* The key's timer leaves isLoading set: it counts on the dialog closing.
Stops(kind) == IF kind = "key" THEN loading ELSE FALSE

\* addLogin, onLogin, onClose.
LoggedIn(a) ==
  /\ a.kind # "file"
  /\ logins' = LogIn(a.user)
  /\ Closed /\ signup' = FALSE
  /\ loading' = Stops(a.kind)
  /\ attempts' = attempts \ {a}
  /\ UNCHANGED <<fileLoading, made, Accounts, caches>>

LoginFails(a) ==
  /\ a.kind # "file"
  /\ loading' = FALSE
  /\ attempts' = attempts \ {a}
  /\ UNCHANGED <<logins, Dialogs, fileLoading, made, Accounts, caches>>

-----------------------------------------------------------------------------
(* The accounts. *)

\* Mutant: the key names the current login only.
Key_Current(l) == IF l = <<>> THEN l ELSE <<Head(l)>>

\* The query key: the ids of the logins, in their order.
Key(l) == l

\* useLoggedInAccounts mounts or its key changes.
AskAuthors ==
  /\ Key(logins) \notin DOMAIN authors /\ logins \notin asked
  /\ asked' = asked \union {logins}
  /\ UNCHANGED <<logins, Dialogs, loading, fileLoading, attempts, made, authors, caches>>

\* One account for each login of the read, whether its profile was found or not.
AuthorsArrive(l) ==
  /\ asked' = asked \ {l}
  /\ authors' = [k \in DOMAIN authors \union {Key(l)} |->
                   IF k = Key(l) THEN l ELSE authors[k]]
  /\ UNCHANGED <<logins, Dialogs, loading, fileLoading, attempts, made, caches>>

AuthorsFail(l) ==
  /\ asked' = asked \ {l}
  /\ UNCHANGED <<logins, Dialogs, loading, fileLoading, attempts, made, authors, caches>>

\* otherUsers: all but the first of what was read.
OtherUsers ==
  IF Key(logins) \notin DOMAIN authors \/ authors[Key(logins)] = <<>> THEN <<>>
  ELSE Tail(authors[Key(logins)])

\* An entry of the switcher's menu: setLogin.
Switch(u) ==
  /\ ~IsOpen /\ ~signup /\ logins # <<>> /\ u \in Range(OtherUsers)
  /\ logins' = IF u \in Range(logins) THEN Added(u) ELSE logins
  /\ UNCHANGED <<Dialogs, loading, fileLoading, attempts, made, Accounts, caches>>

\* "Log out": removeLogin, and nothing else.
LogOut ==
  /\ ~IsOpen /\ ~signup /\ logins # <<>>
  /\ logins' = Tail(logins)
  /\ UNCHANGED <<Dialogs, loading, fileLoading, attempts, made, Accounts, caches>>

\* useCurrentUser: the first of the logins, each of which makes a user.
Current == {logins[i] : i \in DOMAIN logins \intersect {1}}

\* useFollowList stores the list of the current user.
Browse ==
  /\ ~(Current \subseteq caches)
  /\ caches' = caches \union Current
  /\ UNCHANGED <<logins, Dialogs, loading, fileLoading, attempts, made, Accounts>>

Next ==
  \/ OpenGlobal \/ OpenLocal \/ Close \/ SignUp \/ HaveAccount \/ CloseSignUp
  \/ \E u \in User, kind \in {"extension", "bunker", "key"} : Start(kind, u)
  \/ \E u \in User : StartFile(u) \/ Switch(u)
  \/ \E a \in attempts : FileRead(a) \/ FileRefused(a) \/ LoggedIn(a) \/ LoginFails(a)
  \/ AskAuthors
  \/ \E l \in asked : AuthorsArrive(l) \/ AuthorsFail(l)
  \/ LogOut \/ Browse

Spec == Init /\ [][Next]_vars

-----------------------------------------------------------------------------
(* Properties. *)

TypeOK ==
  /\ Range(logins) \subseteq User /\ Len(logins) = Cardinality(Range(logins))
  /\ global \in BOOLEAN /\ local \in BOOLEAN /\ signup \in BOOLEAN
  /\ loading \in BOOLEAN /\ fileLoading \in BOOLEAN
  /\ \A a \in attempts : /\ a.n \in 1..made /\ a.user \in User
                         /\ a.kind \in {"extension", "bunker", "key", "file"}
  /\ made \in 0..MaxAttempt
  /\ caches \subseteq User

\* The buttons of an open dialog are not disabled for ever: the marks of an
\* attempt, also of one the user closed the dialog on, go with the attempt.
DialogIsUsable == IsOpen /\ attempts = {} => ~loading /\ ~fileLoading

\* The switcher offers every other login and never the current one, whatever
\* order the reads of the accounts are answered in.
OthersAreOthers ==
  Key(logins) \in DOMAIN authors /\ logins # <<>> =>
    Range(OtherUsers) = Range(logins) \ {Head(logins)}

\* "Clear user-specific caches on logout for privacy" (useLoginActions.ts).
LogoutClearsCaches ==
  [][\A u \in Range(logins) \ Range(logins') : u \notin caches']_vars

-----------------------------------------------------------------------------
(* The inductive invariants of the two. *)

Kind == {"extension", "bunker", "key", "file"}

Typed ==
  /\ attempts \subseteq [n: Int, kind: Kind, user: User] /\ made \in Int
  /\ loading \in BOOLEAN /\ fileLoading \in BOOLEAN

\* Each mark of an open dialog is that of an attempt under way, which takes it away.
MarksInv ==
  IsOpen => /\ loading => \E a \in attempts : a.kind # "file"
            /\ fileLoading => \E a \in attempts : a.kind = "file"

\* Nobody is logged in twice, and what was read for some logins are those.
LoginsInv ==
  /\ logins \in Seq(User) /\ \A i, j \in 1..Len(logins) : logins[i] = logins[j] => i = j
  /\ \A l \in DOMAIN authors : authors[l] = l
=============================================================================
