----------------------------- MODULE EmailCodes -----------------------------
(***************************************************************************)
(* The e-mail code of a sign-up: mailed, then kept in Redis for three      *)
(* minutes, then compared and deleted (auth.service.ts 155-168,            *)
(* redis.service.ts 38-51).  Every await may be overtaken.                 *)
(***************************************************************************)
EXTENDS Naturals

CONSTANTS
    Addresses,
    Codes,      \* six digits
    NoCode,     \* the key is not in Redis
    Asks,       \* requests that may be in flight at once
    MaxAsks     \* bound: requests begun in a behaviour

ASSUME EmailCodesAssumption == NoCode \notin Codes /\ MaxAsks \in Nat

VARIABLES
    mailbox,    \* <<address, code>>: what the mail server delivered
    stored,     \* address -> the code Redis holds
    ask,        \* slot -> the request in flight
    verified,   \* <<address, code>>: answered "verified"
    expected,   \* history: address -> the code of the last answer "sent",
                \*   until it is answered "verified" or expires
    overlapped, \* history: addresses two requests were about at once
    asked       \* requests begun so far

emailCodesVars == <<mailbox, stored, ask, verified, expected, overlapped, asked>>

Free == [op |-> "free"]

EmailCodesInit ==
    /\ mailbox = {} /\ verified = {} /\ overlapped = {}
    /\ stored = [e \in Addresses |-> NoCode]
    /\ expected = [e \in Addresses |-> NoCode]
    /\ ask = [a \in Asks |-> Free]
    /\ asked = 0

Asking(a, op, e, k) ==
    /\ ask[a] = Free
    /\ asked < MaxAsks
    /\ asked' = asked + 1
    /\ ask' = [ask EXCEPT ![a] = [op |-> op, email |-> e, code |-> k]]
    /\ overlapped' = IF \E b \in Asks : ask[b] # Free /\ ask[b].email = e
                     THEN overlapped \cup {e} ELSE overlapped

Then(a, op) ==
    /\ ask' = [ask EXCEPT ![a].op = op]
    /\ UNCHANGED <<overlapped, asked>>

Over(a) ==
    /\ ask' = [ask EXCEPT ![a] = Free]
    /\ UNCHANGED <<overlapped, asked>>

\* sendEmailVerification: a random code is drawn ...
SendCode(a, e, k) ==
    /\ Asking(a, "mail", e, k)
    /\ UNCHANGED <<mailbox, stored, verified, expected>>

\* Mutant of Mail: the code there was is deleted before the new one is kept.
MailAfterClearing(a) ==
    /\ ask[a].op = "mail"
    /\ mailbox' = mailbox \cup {<<ask[a].email, ask[a].code>>}
    /\ stored' = [stored EXCEPT ![ask[a].email] = NoCode]
    /\ Then(a, "store")
    /\ UNCHANGED <<verified, expected>>

\* ... mailed ...
Mail(a) ==
    /\ ask[a].op = "mail"
    /\ mailbox' = mailbox \cup {<<ask[a].email, ask[a].code>>}
    /\ Then(a, "store")
    /\ UNCHANGED <<stored, verified, expected>>

\* ... and stored, over the one before.
SaveEmailCode(a) ==
    /\ ask[a].op = "store"
    /\ stored' = [stored EXCEPT ![ask[a].email] = ask[a].code]
    /\ expected' = [expected EXCEPT ![ask[a].email] = ask[a].code]
    /\ Over(a)
    /\ UNCHANGED <<mailbox, verified>>

\* Mutant of AskFails: the mail is not awaited, its failure goes unnoticed.
FailUnnoticed(a) ==
    /\ ask[a].op = "mail"
    /\ Then(a, "store")
    /\ UNCHANGED <<mailbox, stored, verified, expected>>

\* The mail server, or Redis, fails; or the process restarts.
AskFails(a) ==
    /\ ask[a] # Free
    /\ Over(a)
    /\ UNCHANGED <<mailbox, stored, verified, expected>>

\* Mutant of VerifyCode: no code typed equals no code in Redis.
VerifyNothing(a, e, k) ==
    /\ Asking(a, "delete", e, stored[e])
    /\ UNCHANGED <<mailbox, stored, verified, expected>>

\* verifyCode: get, and compare with what was typed.
VerifyCode(a, e, k) ==
    /\ Asking(a, IF stored[e] = k THEN "delete" ELSE "refuse", e, k)
    /\ UNCHANGED <<mailbox, stored, verified, expected>>

\* The key is deleted, whatever it holds by now.
DeleteEmailCode(a) ==
    /\ ask[a].op = "delete"
    /\ stored' = [stored EXCEPT ![ask[a].email] = NoCode]
    /\ expected' = [expected EXCEPT ![ask[a].email] =
                        IF @ = ask[a].code THEN NoCode ELSE @]
    /\ verified' = verified \cup {<<ask[a].email, ask[a].code>>}
    /\ Over(a)
    /\ UNCHANGED mailbox

\* Three minutes after it was stored.
ExpireCode(e) ==
    /\ stored[e] # NoCode
    /\ stored' = [stored EXCEPT ![e] = NoCode]
    /\ expected' = [expected EXCEPT ![e] = NoCode]
    /\ UNCHANGED <<mailbox, ask, verified, overlapped, asked>>

EmailCodesNext ==
    \/ \E a \in Asks : Mail(a) \/ SaveEmailCode(a) \/ AskFails(a) \/ DeleteEmailCode(a)
    \/ \E a \in Asks, e \in Addresses, k \in Codes : SendCode(a, e, k) \/ VerifyCode(a, e, k)
    \/ \E e \in Addresses : ExpireCode(e)
-----------------------------------------------------------------------------
(* Nobody verifies an address with a code that was not mailed to it,       *)
(* however sends, failures and verifications overlap: the mail is awaited  *)
(* before the code is stored (auth.service.ts 157-158).                    *)
VerifiedWasMailed == verified \subseteq mailbox

(* Unless two requests about an address overlapped, the code the last      *)
(* answered send mailed to it opens it until it expires: wrong guesses and *)
(* failed sends in between take nothing away (auth.service.ts 158-166).    *)
LastCodeOpens == \A e \in Addresses \ overlapped : stored[e] = expected[e]
=============================================================================
