---------------------------- MODULE ConsoleSettings ----------------------------
(***************************************************************************)
(* The console's security settings: the password the page keeps once it    *)
(* was verified, which the later requests carry, the private key shown,    *)
(* and the changes of the password and of the key. The server checks the   *)
(* password of each request when it arrives, and acts on what it read some *)
(* time later. A password is a member of a small set and a key a number,   *)
(* which is also the identity that the session's cookie names; the         *)
(* account's e-mail is verified or not yet known to be.                    *)
(***************************************************************************)
EXTENDS Integers

CONSTANTS
  Password,
  MaxAsk   \* bound: requests

VARIABLES
  password,  \* server: the account's password
  key,       \* server: the account's key, the n-th
  cookie,    \* the key of the identity the browser's cookie is of
  account,   \* the page's account status: unknown, asked, unverified, verified
  main,      \* mainPassword, "" when empty
  unlocked,  \* isPasswordVerified
  exported,  \* the key shown, 0 for none
  modal,     \* the dialog that asks to type DELETE
  asked,     \* the request of each kind that is under way
  leaving,   \* the new key was announced; the home page is loaded two seconds later
  asks,
  calm       \* history: no answer was lost or given up, nobody locked during a change of
             \* password, and no two changes were under way at once

vars == <<password, key, cookie, account, main, unlocked, exported, modal, asked, leaving, asks, calm>>

Empty == ""
Kind == {"verify", "export", "password", "key"}
At == {"idle", "sent", "checked", "done", "refused"}
No == [at |-> "idle", who |-> 0, with |-> Empty, new |-> Empty, key |-> 0]
Request == [at : At, who : 0..MaxAsk + 1, with : Password \cup {Empty},
            new : Password \cup {Empty}, key : 0..MaxAsk + 1]

TypeOK ==
  /\ password \in Password /\ key \in 1..MaxAsk + 1 /\ cookie \in 1..key
  /\ account \in {"unknown", "asked", "unverified", "verified"}
  /\ main \in Password \cup {Empty} /\ unlocked \in BOOLEAN /\ exported \in 0..MaxAsk + 1
  /\ modal \in BOOLEAN /\ asked \in [Kind -> Request]
  /\ leaving \in BOOLEAN /\ asks \in 0..MaxAsk /\ calm \in BOOLEAN

Init ==
  /\ password \in Password /\ key = 1 /\ cookie = 1 /\ asks = 0 /\ calm = TRUE
  /\ account = "unknown" /\ main = Empty /\ unlocked = FALSE /\ exported = 0
  /\ modal = FALSE /\ asked = [k \in Kind |-> No] /\ leaving = FALSE

server == <<password, key>>
session == <<server, cookie>>
view == <<main, unlocked, exported, modal>>
Idle(k) == asked[k].at = "idle"

-----------------------------------------------------------------------------
(* The account and the password field. *)

\* The status is asked for once the user is known to have a password.
FetchAccount ==
  /\ account = "unknown" /\ account' = "asked"
  /\ UNCHANGED <<session, view, asked, leaving, asks, calm>>

\* A failure leaves the page as for an unverified address.
AccountArrives ==
  /\ account = "asked" /\ account' \in {"unverified", "verified"}
  /\ UNCHANGED <<session, view, asked, leaving, asks, calm>>

\* The page behind the dialog takes no click.
Usable == account = "verified" /\ ~modal

Type(p) ==
  /\ Usable /\ ~unlocked /\ Idle("verify") /\ main # p /\ main' = p
  /\ UNCHANGED <<session, account, unlocked, exported, modal, asked, leaving, asks, calm>>

Change == {"password", "key"}

Ask(k, new) ==
  /\ Idle(k) /\ asks < MaxAsk /\ asks' = asks + 1
  /\ asked' = [asked EXCEPT ![k] = [at |-> "sent", who |-> cookie, with |-> main,
                                    new |-> new, key |-> 0]]
  /\ calm' = (calm /\ (k \in Change => \A c \in Change : Idle(c)))
  /\ UNCHANGED <<session, account, view, leaving>>

Verify == Usable /\ ~unlocked /\ main # Empty /\ Ask("verify", Empty)
Export == Usable /\ unlocked /\ Ask("export", Empty)
ChangePassword(p) == Usable /\ unlocked /\ p # main /\ Ask("password", p)

SetModal(open) ==
  /\ modal' = open
  /\ UNCHANGED <<session, account, main, unlocked, exported, asked, leaving, asks, calm>>

OpenModal == Usable /\ unlocked /\ Idle("key") /\ SetModal(TRUE)
Cancel == modal /\ SetModal(FALSE)
ChangeKey == modal /\ Ask("key", Empty)

\* Settings are locked by the button, and after a change of the password.
Locked == unlocked' = FALSE /\ main' = Empty /\ exported' = 0

Lock ==
  /\ Usable /\ unlocked /\ Locked /\ calm' = (calm /\ Idle("password"))
  /\ UNCHANGED <<session, account, modal, asked, leaving, asks>>

-----------------------------------------------------------------------------
(* The server. Each request carries the password the page kept, and the cookie the     *)
(* browser had, when it was sent.                                                       *)

\* The password is compared with the hash that is read first; what the request asks for
\* is done afterwards, and nothing is locked in between.
CheckPassword(k) ==
  /\ asked[k].at = "sent"
  /\ LET ok == asked[k].who = key /\ asked[k].with = password IN
     asked' = [asked EXCEPT ![k].at = IF ~ok THEN "refused" ELSE IF k = "verify" THEN "done" ELSE "checked"]
  /\ UNCHANGED <<session, account, view, leaving, asks, calm>>

\* The key of the identity that asks, which has none once it was changed for another.
ExportKey ==
  /\ asked["export"].at = "checked"
  /\ asked' = [asked EXCEPT !["export"].at = IF asked["export"].who = key THEN "done" ELSE "refused",
                            !["export"].key = asked["export"].who]
  /\ UNCHANGED <<session, account, view, leaving, asks, calm>>

\* The row of the identity that asks is updated, the account's or one that it left behind.
UpdatePassword ==
  /\ asked["password"].at = "checked" /\ asked' = [asked EXCEPT !["password"].at = "done"]
  /\ password' = IF asked["password"].who = key THEN asked["password"].new ELSE password
  /\ UNCHANGED <<key, cookie, account, view, leaving, asks, calm>>

\* The new identity is given the hash that was read when the password was checked.
ChangeKeyTransaction ==
  /\ asked["key"].at = "checked" /\ asked["key"].who = key
  /\ asked' = [asked EXCEPT !["key"].at = "done"]
  /\ key' = key + 1 /\ password' = asked["key"].with
  /\ UNCHANGED <<cookie, account, view, leaving, asks, calm>>

-----------------------------------------------------------------------------
(* Answers. That of a change of the key brings the new identity's cookie. *)

Answered(k) == asked[k].at = "done" /\ asked' = [asked EXCEPT ![k] = No]

Verified ==
  /\ Answered("verify") /\ unlocked' = TRUE
  /\ UNCHANGED <<session, account, main, exported, modal, leaving, asks, calm>>

Exported ==
  /\ Answered("export") /\ exported' = asked["export"].key
  /\ UNCHANGED <<session, account, main, unlocked, modal, leaving, asks, calm>>

\* Mutant: the settings stay open.
PasswordChanged_Open ==
  /\ Answered("password") /\ UNCHANGED <<session, account, view, leaving, asks, calm>>

PasswordChanged ==
  /\ Answered("password") /\ Locked
  /\ UNCHANGED <<session, account, modal, leaving, asks, calm>>

KeyChanged ==
  /\ Answered("key") /\ cookie' = key /\ modal' = FALSE /\ leaving' = TRUE
  /\ UNCHANGED <<server, account, main, unlocked, exported, asks, calm>>

\* An error is only told to the user.
Refused(k) ==
  /\ asked[k].at = "refused" /\ asked' = [asked EXCEPT ![k] = No]
  /\ UNCHANGED <<session, account, view, leaving, asks, calm>>

\* The connection breaks, or the server fails, before or after it acted; the browser may
\* have taken the cookie of an answer that breaks.
Lost(k) ==
  /\ asked[k].at \in {"sent", "checked", "done"} /\ asked' = [asked EXCEPT ![k] = No]
  /\ calm' = (calm /\ asked[k].at = "sent")
  /\ cookie' = cookie \/ (k = "key" /\ asked[k].at = "done" /\ cookie' = key)
  /\ UNCHANGED <<server, account, view, leaving, asks>>

\* The home page is loaded, and the settings are opened again; what was asked is given up.
Reload ==
  /\ leaving /\ leaving' = FALSE /\ account' = "unknown" /\ main' = Empty
  /\ unlocked' = FALSE /\ exported' = 0 /\ modal' = FALSE /\ asked' = [k \in Kind |-> No]
  /\ calm' = (calm /\ \A c \in Change : Idle(c))
  /\ UNCHANGED <<session, asks>>

Next ==
  \/ FetchAccount \/ AccountArrives \/ Verify \/ Export \/ OpenModal \/ Cancel \/ ChangeKey
  \/ Lock \/ ExportKey \/ UpdatePassword \/ ChangeKeyTransaction \/ Verified \/ Exported \/ PasswordChanged \/ KeyChanged \/ Reload
  \/ \E p \in Password : Type(p) \/ ChangePassword(p)
  \/ \E k \in Kind : CheckPassword(k) \/ Refused(k) \/ Lost(k)

Spec == Init /\ [][Next]_vars

-----------------------------------------------------------------------------
(* Properties. *)

\* Settings that are unlocked keep the password the account has, and a key they
\* show is the account's, unless a change is still under way.
UnlockedIsCurrent ==
  calm /\ unlocked /\ Idle("password") /\ Idle("key") =>
    main = password /\ (exported # 0 /\ ~leaving => exported = key)

\* A success that the server answers to a change of the password is one: the password is
\* the new one. It is not when the key is changed meanwhile, which gives the new identity
\* the hash that was read before, or leaves to the old one the row that is updated.
ChangedPasswordIsNew == asked["password"].at = "done" => password = asked["password"].new

\* Why: a request that checks the password is under way only while the settings are
\* locked, one that changes it only while they are unlocked, each with the password that
\* the page keeps; a change of the key gives back the password it was checked with, which
\* is still the account's; and a key on its way to the page, or shown on it, is the
\* account's until a new one is.
Typed ==
  /\ main \in Password \cup {Empty} /\ key \in Nat \ {0} /\ cookie \in Nat /\ exported \in Nat
  /\ unlocked \in BOOLEAN /\ leaving \in BOOLEAN /\ calm \in BOOLEAN
  /\ asked \in [Kind -> [at : At, who : Nat, with : Password \cup {Empty},
                         new : Password \cup {Empty}, key : Nat]]

SettingsInv ==
  /\ Typed
  /\ calm =>
       /\ Idle("password") \/ Idle("key")
       /\ ~Idle("verify") =>
            /\ ~unlocked /\ Idle("password") /\ asked["verify"].with = main
            /\ asked["verify"].at = "done" => main = password
       /\ ~Idle("password") => unlocked /\ asked["password"].with = main
       /\ unlocked /\ asked["password"].at # "done" => main = password
       /\ asked["key"].at = "checked" => asked["key"].with = password
       /\ ~leaving /\ asked["key"].at # "done" =>
            /\ exported # 0 => exported = key
            /\ asked["export"].at = "done" => asked["export"].key = key

=============================================================================
