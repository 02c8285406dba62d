---------------------------- MODULE InjectedSigner ----------------------------
(***************************************************************************)
(* The signer the web client makes of a keycast token and offers to other  *)
(* code as window.nostr. It asks the server over HTTP for its public key   *)
(* and for everything it signs, encrypts and decrypts; no answer is        *)
(* cancelled when the token changes. No page mounts the component that     *)
(* does this; it is complete and tested, and modelled as mounted.          *)
(*                                                                         *)
(* Relays (always empty), payloads, log lines and unmounting are left out. *)
(***************************************************************************)
EXTENDS Integers, Sequences, FiniteSets

CONSTANTS
  MaxSigner,  \* bound: signers made
  MaxAct      \* bound: changes of the token and calls of the page

VARIABLES
  token,     \* what the session gives the component
  last,      \* ref lastToken
  held,      \* ref signerRef
  signers,   \* the signers there have been: the token, and the key once it is known
  calls,     \* requests: signer, the token sent, for what, and what the server says
  hook,      \* state of useWindowNostrJWT
  nostr,     \* window.nostr
  told,      \* history: the key window.nostr has given since it or the token last changed
  wrong,     \* history: something was signed with a key other than the one told
  calm,      \* history: no token has changed with a request under way
  acts

vars == <<token, last, held, signers, calls, hook, nostr, told, wrong, calm, acts>>

None == "none"
Token == {"a1", "a2", "b1"}
Account(t) == IF t = "b1" THEN "b" ELSE "a"
Ids == 0..MaxSigner                              \* 0 is no signer

TypeOK ==
  /\ {token, last} \subseteq Token \cup {None} /\ {held, nostr} \subseteq Ids
  /\ signers \in Seq([token : Token, key : {None, "a", "b"}])
  /\ calls \subseteq [of : Ids, sent : Token, for : {"hook", "key", "use"},
                      says : {"asked", "yes", "no"},
                      told : {None, "a", "b"}]
  /\ hook \in [signer : Ids, starting : BOOLEAN, error : BOOLEAN, injected : BOOLEAN]
  /\ told \in {None, "a", "b"} /\ {wrong, calm} \subseteq BOOLEAN /\ acts \in 0..MaxAct

Init ==
  /\ token = None /\ last = None /\ held = 0 /\ signers = <<>> /\ calls = {}
  /\ hook = [signer |-> 0, starting |-> FALSE, error |-> FALSE, injected |-> FALSE]
  /\ nostr = 0 /\ told = None /\ wrong = FALSE /\ calm = TRUE /\ acts = 0

Act == acts < MaxAct /\ acts' = acts + 1
Asks(i, t, what) == [of |-> i, sent |-> t, for |-> what, says |-> "asked", told |-> told]

\* Mutant: the signer that was offered stays where it is.
Offered_Stays(i) == IF i = 0 THEN nostr ELSE i

\* The cleanup of the effect that injects takes window.nostr away, and the effect puts the
\* new signer there.
Offered(i) == i

\* A new state of the hook, and the effect on its signer.
Becomes(h) ==
  IF h.signer = hook.signer
  THEN hook' = [h EXCEPT !.injected = hook.injected] /\ UNCHANGED nostr
  ELSE hook' = [h EXCEPT !.injected = h.signer # 0] /\ nostr' = Offered(h.signer)

-----------------------------------------------------------------------------
(* The token. *)

\* Mutant: the refs outlive the session.
Forgotten_Not == last' = last /\ held' = held

Forgotten == last' = None /\ held' = 0

\* The effect on the token: nothing if a signer for it was made, whether it works or not.
Given(t) ==
  \/ /\ t = None /\ Forgotten
     /\ Becomes([hook EXCEPT !.signer = 0, !.error = FALSE, !.starting = FALSE])
     /\ UNCHANGED <<signers, calls>>
  \/ /\ t # None /\ t = last /\ held # 0
     /\ UNCHANGED <<last, held, signers, calls, hook, nostr>>
  \/ /\ t # None /\ ~(t = last /\ held # 0) /\ Len(signers) < MaxSigner
     /\ last' = t /\ held' = Len(signers) + 1
     /\ signers' = Append(signers, [token |-> t, key |-> None])
     /\ calls' = calls \cup {Asks(held', t, "hook")}
     /\ Becomes([hook EXCEPT !.starting = TRUE, !.error = FALSE])

Changed(t) == token' = t /\ told' = None /\ calm' = (calm /\ calls = {}) /\ UNCHANGED wrong

SetToken == Act /\ \E t \in (Token \cup {None}) \ {token} : Given(t) /\ Changed(t)

\* Mutant: the signer keeps the key it knows.
NewToken_Keeps(s, t) == [s EXCEPT !.token = t]

NewToken(s, t) == [token |-> t, key |-> None]

\* The session is refreshed: updateToken, then the effect finds its work done.
UpdateToken ==
  /\ Act /\ held # 0
  /\ \E t \in Token \ {token} :
       /\ signers' = [signers EXCEPT ![held] = NewToken(@, t)]
       /\ last' = t /\ Changed(t)
  /\ UNCHANGED <<held, calls, hook, nostr>>

-----------------------------------------------------------------------------
(* What is asked of the server, and what other code does with window.nostr. *)

Served(c) ==
  /\ c.says = "asked"
  /\ \E s \in {"yes", "no"} : calls' = (calls \ {c}) \cup {[c EXCEPT !.says = s]}
  /\ UNCHANGED <<token, last, held, signers, hook, nostr, told, wrong, calm, acts>>

Known(c) ==
  IF c.says = "yes" THEN [signers EXCEPT ![c.of].key = Account(c.sent)] ELSE signers

\* The signer proves to work or not; nobody asks whether it is still wanted.
Verified(c) ==
  /\ c.for = "hook" /\ c.says # "asked" /\ calls' = calls \ {c} /\ signers' = Known(c)
  /\ Becomes([hook EXCEPT !.signer = IF c.says = "yes" THEN c.of ELSE 0,
                        !.error = c.says = "no", !.starting = FALSE])
  /\ told' = IF nostr' = nostr THEN told ELSE None
  /\ UNCHANGED <<token, last, held, wrong, calm, acts>>

\* getPublicKey by the page: the key that is cached, or a request.
GetPublicKey ==
  /\ Act /\ nostr # 0
  /\ IF signers[nostr].key # None
     THEN told' = signers[nostr].key /\ UNCHANGED calls
     ELSE /\ calls' = calls \cup {Asks(nostr, signers[nostr].token, "key")}
          /\ UNCHANGED told
  /\ UNCHANGED <<token, last, held, signers, hook, nostr, wrong, calm>>

KeyAnswer(c) ==
  /\ c.for = "key" /\ c.says # "asked" /\ calls' = calls \ {c} /\ signers' = Known(c)
  /\ told' = IF c.says = "yes" /\ c.of = nostr THEN Account(c.sent) ELSE told
  /\ UNCHANGED <<token, last, held, hook, nostr, wrong, calm, acts>>

\* signEvent, and encryption and decryption the same way, with the token of the moment.
SignEvent ==
  /\ Act /\ nostr # 0
  /\ calls' = calls \cup {Asks(nostr, signers[nostr].token, "use")}
  /\ UNCHANGED <<token, last, held, signers, hook, nostr, told, wrong, calm>>

Signed(c) ==
  /\ c.for = "use" /\ c.says # "asked" /\ calls' = calls \ {c}
  /\ wrong' = (wrong \/ (c.says = "yes" /\ c.told \notin {None, Account(c.sent)}))
  /\ UNCHANGED <<token, last, held, signers, hook, nostr, told, calm, acts>>

Inject ==
  /\ Act /\ hook.signer # 0 /\ ~hook.injected /\ nostr' = hook.signer
  /\ hook' = [hook EXCEPT !.injected = TRUE]
  /\ UNCHANGED <<token, last, held, signers, calls, told, wrong, calm>>

Remove ==
  /\ Act /\ hook.injected /\ nostr' = 0 /\ hook' = [hook EXCEPT !.injected = FALSE]
  /\ UNCHANGED <<token, last, held, signers, calls, told, wrong, calm>>

Next ==
  \/ SetToken \/ UpdateToken \/ GetPublicKey \/ SignEvent \/ Inject \/ Remove
  \/ \E c \in calls : Served(c) \/ Verified(c) \/ KeyAnswer(c) \/ Signed(c)

Spec == Init /\ [][Next]_vars

-----------------------------------------------------------------------------
(* Properties. *)

\* window.nostr is the signer the hook has, or nothing: no other code signs with one the
\* hook has dropped, and the hook says rightly whether it is there.
OfferedIsHeld ==
  /\ nostr # 0 => nostr = hook.signer
  /\ hook.injected <=> nostr # 0

\* When no token has changed during a request and none is under way, somebody signed in
\* has the signer of the session's token or has been told of an error, and nobody else
\* has a signer.
SignerIsTheSessions ==
  calm /\ calls = {} =>
    /\ token = None => hook.signer = 0
    /\ token # None => hook.error \/ (hook.signer # 0 /\ signers[hook.signer].token = token)

\* Nothing is signed with a key other than the one that other code was told before it asked,
\* if no token changes during a request.
SignedAsTold == calm => ~wrong

\* Why: as long as no token changes during a request, every request was sent with the token
\* its signer still has, the key a signer knows and the one that was told are of that token,
\* and the last signer is offered, was refused or is being asked for.
Key == {None, "a", "b"}
Signer == [token : Token, key : Key]

Hook == [signer : Nat, starting : BOOLEAN, error : BOOLEAN, injected : BOOLEAN]
Call == [of : Nat, sent : Token, for : {"hook", "key", "use"}, says : {"asked", "yes", "no"},
         told : Key]

Typed ==
  /\ held \in Nat /\ signers \in Seq(Signer) /\ told \in Key
  /\ hook \in Hook /\ calls \subseteq Call
  /\ token \in Token \cup {None} /\ held <= Len(signers) /\ hook.signer <= Len(signers)
  /\ \A c \in calls : c.of \in 1..Len(signers)
  /\ last = token /\ (held # 0 <=> token # None)

SignerInv ==
  calm =>
    /\ ~wrong
    /\ \A i \in 1..Len(signers) : signers[i].key \in {None, Account(signers[i].token)}
    /\ told # None /\ hook.signer # 0 => told = Account(signers[hook.signer].token)
    /\ \A c \in calls :
         /\ c.sent = signers[c.of].token
         /\ c.for = "use" => c.told \in {None, Account(c.sent)}
         /\ c.for = "hook" => c.of = held
    /\ token = None => hook.signer = 0 /\ calls = {}
    /\ token # None =>
         /\ signers[held].token = token
         /\ hook.error \/ hook.signer = held \/ \E c \in calls : c.for = "hook"

=============================================================================
