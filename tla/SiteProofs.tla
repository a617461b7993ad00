----------------------------- MODULE SiteProofs -----------------------------
(***************************************************************************)
(* Sign-up codes, push tokens, comments, chat histories, connections and   *)
(* paged lists: what the site promises of each, for any number of them and *)
(* whatever else the site does in between; and the types of all its rows.  *)
(***************************************************************************)
EXTENDS IdentityProofs, ArticleProofs

-----------------------------------------------------------------------------
(* The codes mailed to sign up *)

CodesType ==
    /\ stored \in [Addresses -> Codes \cup {NoCode}]
    /\ expected \in [Addresses -> Codes \cup {NoCode}]
    /\ ask \in [Asks -> {Free} \cup [op : {"mail", "store", "delete", "refuse"},
                                     email : Addresses, code : Codes]]

\* What Redis holds, what will be stored and what is being verified was mailed.
CodesMailed ==
    /\ \A e \in Addresses : stored[e] # NoCode => <<e, stored[e]>> \in mailbox
    /\ \A a \in Asks : ask[a].op \in {"store", "delete"} =>
                            <<ask[a].email, ask[a].code>> \in mailbox

\* Requests about an address one at a time find what the last one left.
OneByOne ==
    /\ \A a, b \in Asks :
        /\ ask[a] # Free /\ ask[b] # Free /\ ask[a].email = ask[b].email
        /\ ask[a].email \notin overlapped
        => a = b
    /\ \A a \in Asks :
        LET e == ask[a].email
        IN  ask[a].op = "delete" /\ e \notin overlapped => stored[e] \in {ask[a].code, NoCode}

CodesInv ==
    /\ CodesType
    /\ CodesMailed
    /\ VerifiedWasMailed
    /\ OneByOne
    /\ LastCodeOpens

USE EmailCodesAssumption

LEMMA FreeIsFree == \A op : op \in {"mail", "store", "delete", "refuse"} => Free.op # op
BY DEF Free

LEMMA CodesInvInit == EmailCodesInit => CodesInv
BY FreeIsFree DEF EmailCodesInit, CodesInv, CodesType, CodesMailed, VerifiedWasMailed,
                  OneByOne, LastCodeOpens

\* A request begins, and overlaps whichever is in flight about its address.
LEMMA AskingKeeps ==
    ASSUME CodesInv, NEW a \in Asks, NEW e \in Addresses, NEW k \in Codes,
           NEW op \in {"mail", "delete", "refuse"},
           op = "delete" => stored[e] = k,
           Asking(a, op, e, k), UNCHANGED <<mailbox, stored, verified, expected>>
    PROVE  CodesInv'
<1>1. /\ ask[a] = Free
      /\ ask'[a] = [op |-> op, email |-> e, code |-> k]
      /\ \A b \in Asks \ {a} : ask'[b] = ask[b]
      /\ CodesType'
  BY DEF Asking, CodesInv, CodesType
<1>2. /\ overlapped \subseteq overlapped'
      /\ \A b \in Asks : ask[b] # Free /\ ask[b].email = e => e \in overlapped'
  BY DEF Asking
<1>3. CodesMailed' /\ VerifiedWasMailed'
  BY <1>1 DEF CodesInv, CodesMailed, VerifiedWasMailed
<1>4. OneByOne'
  <2>1. ASSUME NEW b \in Asks, NEW d \in Asks, ask'[b] # Free, ask'[d] # Free,
               ask'[b].email = ask'[d].email, ask'[b].email \notin overlapped'
        PROVE  b = d
    <3>1. CASE b # a /\ d # a
      BY <1>1, <1>2, <2>1, <3>1 DEF CodesInv, OneByOne
    <3>2. CASE b = a /\ d # a
      BY <1>1, <1>2, <2>1, <3>2
    <3>3. CASE b # a /\ d = a
      BY <1>1, <1>2, <2>1, <3>3
    <3> QED BY <3>1, <3>2, <3>3
  <2>2. ASSUME NEW b \in Asks, ask'[b].op = "delete", ask'[b].email \notin overlapped'
        PROVE  stored'[ask'[b].email] \in {ask'[b].code, NoCode}
    <3>1. CASE b = a
      BY <1>1, <2>2, <3>1
    <3>2. CASE b # a
      BY <1>1, <1>2, <2>2, <3>2 DEF CodesInv, OneByOne
    <3> QED BY <3>1, <3>2
  <2> QED BY <2>1, <2>2 DEF OneByOne
<1>5. LastCodeOpens'
  BY <1>2 DEF CodesInv, LastCodeOpens
<1> QED BY <1>1, <1>3, <1>4, <1>5 DEF CodesInv

LEMMA CodesStep == CodesInv /\ EmailCodesNext => CodesInv'
<1> SUFFICES ASSUME CodesInv, EmailCodesNext PROVE CodesInv'
  OBVIOUS
<1>1. ASSUME NEW a \in Asks, Mail(a) PROVE CodesInv'
  <2>1. /\ ask[a] # Free /\ ask'[a] = [ask[a] EXCEPT !.op = "store"]
        /\ ask[a] \in [op : {"mail", "store", "delete", "refuse"},
                       email : Addresses, code : Codes]
        /\ \A b \in Asks \ {a} : ask'[b] = ask[b]
        /\ mailbox' = mailbox \cup {<<ask[a].email, ask[a].code>>}
        /\ UNCHANGED <<stored, verified, expected, overlapped>>
    BY <1>1, FreeIsFree DEF Mail, Then, CodesInv, CodesType
  <2>2. ask'[a] # Free /\ ask'[a].op = "store"
        /\ ask'[a].email = ask[a].email /\ ask'[a].code = ask[a].code
    BY <2>1, FreeIsFree
  <2>3. CodesType'
    BY <1>1, <2>1 DEF Mail, Then, CodesInv, CodesType
  <2>4. CodesMailed' /\ VerifiedWasMailed'
    BY <2>1, <2>2 DEF CodesInv, CodesMailed, VerifiedWasMailed
  <2>5. OneByOne' /\ LastCodeOpens'
    BY <2>1, <2>2 DEF CodesInv, OneByOne, LastCodeOpens
  <2> QED BY <2>3, <2>4, <2>5 DEF CodesInv
\* The request of a is over: what it stored is v, and v is expected.
<1>2. ASSUME NEW a \in Asks, Over(a), ask[a] # Free,
             stored' \in [Addresses -> Codes \cup {NoCode}],
             expected' \in [Addresses -> Codes \cup {NoCode}],
             UNCHANGED mailbox, verified' \subseteq mailbox,
             \A e \in Addresses \ {ask[a].email} : stored'[e] = stored[e]
                                                   /\ expected'[e] = expected[e],
             LET e == ask[a].email
             IN  /\ stored'[e] # NoCode => <<e, stored'[e]>> \in mailbox
                 /\ e \notin overlapped => stored'[e] = expected'[e]
      PROVE  CodesInv'
  <2>1. /\ ask'[a] = Free /\ ask[a].email \in Addresses
        /\ \A b \in Asks \ {a} : ask'[b] = ask[b]
        /\ UNCHANGED overlapped
        /\ CodesType'
    BY <1>2 DEF Over, CodesInv, CodesType
  <2>2. CodesMailed' /\ VerifiedWasMailed' /\ LastCodeOpens'
    BY <1>2, <2>1, FreeIsFree DEF CodesInv, CodesMailed, VerifiedWasMailed, LastCodeOpens
  <2>3. ASSUME NEW b \in Asks, ask'[b].op = "delete", ask'[b].email \notin overlapped'
        PROVE  stored'[ask'[b].email] \in {ask'[b].code, NoCode}
    <3>1. b # a /\ ask'[b] = ask[b] /\ ask[b] # Free
      BY <2>1, <2>3, FreeIsFree
    <3>2. ask[b].email # ask[a].email /\ ask[b].email \in Addresses
      BY <1>2, <2>1, <2>3, <3>1 DEF CodesInv, OneByOne, CodesType
    <3> QED BY <1>2, <2>1, <2>3, <3>1, <3>2 DEF CodesInv, OneByOne
  <2>4. OneByOne'
    BY <2>1, <2>3 DEF CodesInv, OneByOne
  <2> QED BY <2>1, <2>2, <2>4 DEF CodesInv
<1>3. ASSUME NEW a \in Asks, SaveEmailCode(a) PROVE CodesInv'
  <2>1. ask[a] # Free /\ ask[a].email \in Addresses /\ ask[a].code \in Codes
        /\ <<ask[a].email, ask[a].code>> \in mailbox
    BY <1>3, FreeIsFree DEF SaveEmailCode, CodesInv, CodesType, CodesMailed
  <2> QED BY <1>2, <1>3, <2>1
          DEF SaveEmailCode, CodesInv, CodesType, VerifiedWasMailed, Over
<1>4. ASSUME NEW a \in Asks, AskFails(a) PROVE CodesInv'
  <2>1. ask[a].email \in Addresses
    BY <1>4 DEF AskFails, CodesInv, CodesType
  <2>2. Over(a) /\ ask[a] # Free /\ UNCHANGED <<mailbox, stored, verified, expected>>
    BY <1>4 DEF AskFails
  <2>3. /\ stored \in [Addresses -> Codes \cup {NoCode}]
        /\ expected \in [Addresses -> Codes \cup {NoCode}]
        /\ verified \subseteq mailbox
    BY DEF CodesInv, CodesType, VerifiedWasMailed
  <2>4. \A e \in Addresses : /\ stored[e] # NoCode => <<e, stored[e]>> \in mailbox
                             /\ e \notin overlapped => stored[e] = expected[e]
    BY DEF CodesInv, CodesMailed, LastCodeOpens
  <2> QED BY <1>2, <2>1, <2>2, <2>3, <2>4
<1>5. ASSUME NEW a \in Asks, DeleteEmailCode(a) PROVE CodesInv'
  <2> DEFINE e == ask[a].email
  <2>1. ask[a] # Free /\ e \in Addresses /\ ask[a].code \in Codes
        /\ <<e, ask[a].code>> \in mailbox
    BY <1>5, FreeIsFree DEF DeleteEmailCode, CodesInv, CodesType, CodesMailed
  <2>2. /\ stored' = [stored EXCEPT ![e] = NoCode]
        /\ expected' = [expected EXCEPT ![e] =
                            IF expected[e] = ask[a].code THEN NoCode ELSE expected[e]]
        /\ verified' = verified \cup {<<e, ask[a].code>>}
        /\ UNCHANGED mailbox /\ Over(a)
    BY <1>5 DEF DeleteEmailCode, CodesInv, CodesType
  <2>3. e \notin overlapped => expected[e] \in {ask[a].code, NoCode}
    BY <1>5, <2>1 DEF DeleteEmailCode, CodesInv, OneByOne, LastCodeOpens
  <2>4. /\ stored' \in [Addresses -> Codes \cup {NoCode}] /\ stored'[e] = NoCode
        /\ expected' \in [Addresses -> Codes \cup {NoCode}]
        /\ e \notin overlapped => expected'[e] = NoCode
        /\ \A d \in Addresses \ {e} : stored'[d] = stored[d] /\ expected'[d] = expected[d]
    BY <2>1, <2>2, <2>3 DEF CodesInv, CodesType
  <2>5. verified' \subseteq mailbox
    BY <2>1, <2>2 DEF CodesInv, VerifiedWasMailed
  <2> HIDE DEF e
  <2> QED BY <1>2, <2>1, <2>2, <2>4, <2>5 DEF e
<1>6. ASSUME NEW a \in Asks, NEW e \in Addresses, NEW k \in Codes, SendCode(a, e, k)
      PROVE  CodesInv'
  BY <1>6, AskingKeeps DEF SendCode
<1>7. ASSUME NEW a \in Asks, NEW e \in Addresses, NEW k \in Codes, VerifyCode(a, e, k)
      PROVE  CodesInv'
  <2>1. CASE stored[e] = k
    BY <1>7, <2>1, AskingKeeps DEF VerifyCode
  <2>2. CASE stored[e] # k
    BY <1>7, <2>2, AskingKeeps DEF VerifyCode
  <2> QED BY <2>1, <2>2
<1>8. ASSUME NEW e \in Addresses, ExpireCode(e) PROVE CodesInv'
  <2>1. /\ UNCHANGED <<mailbox, ask, verified, overlapped>>
        /\ stored'[e] = NoCode /\ expected'[e] = NoCode
        /\ \A d \in Addresses \ {e} : stored'[d] = stored[d] /\ expected'[d] = expected[d]
        /\ CodesType'
    BY <1>8 DEF ExpireCode, CodesInv, CodesType
  <2>2. CodesMailed' /\ VerifiedWasMailed' /\ LastCodeOpens'
    BY <2>1 DEF CodesInv, CodesMailed, VerifiedWasMailed, LastCodeOpens
  <2>3. \A a \in Asks : ask[a].op = "delete" => ask[a].email \in Addresses
    BY FreeIsFree DEF CodesInv, CodesType
  <2>4. OneByOne'
    BY <2>1, <2>3 DEF CodesInv, OneByOne
  <2> QED BY <2>1, <2>2, <2>4 DEF CodesInv
<1> QED BY <1>1, <1>3, <1>4, <1>5, <1>6, <1>7, <1>8 DEF EmailCodesNext

LEMMA CodesAlways == Spec => []CodesInv
<1>1. Init => CodesInv
  BY CodesInvInit DEF Init
<1>2. CodesInv /\ [Next]_siteVars => CodesInv'
  <2>1. CodesInv /\ UNCHANGED emailCodesVars => CodesInv'
    BY DEF CodesInv, CodesType, CodesMailed, VerifiedWasMailed, OneByOne, LastCodeOpens,
           emailCodesVars
  <2>2. [Next]_siteVars => EmailCodesNext \/ UNCHANGED emailCodesVars
    BY DEF Next, siteVars, People, SignUps, Posts, Browse, Chats, Pages, Queries
  <2> QED BY <2>1, <2>2, CodesStep
<1> QED BY <1>1, <1>2, PTL DEF Spec

(* No address is verified with a code that was not mailed to it, however   *)
(* sends, failures, restarts and verifications overlap                     *)
(* (auth.service.ts 157-158).                                              *)
THEOREM CodesWereMailed == Spec => []VerifiedWasMailed
<1>1. CodesInv => VerifiedWasMailed
  BY DEF CodesInv
<1> QED BY <1>1, CodesAlways, PTL

(* Requests about an address that come one at a time leave the last code   *)
(* mailed to it usable until it is used or expires                         *)
(* (auth.service.ts 158-166).                                              *)
THEOREM LastCodeStaysUsable == Spec => []LastCodeOpens
<1>1. CodesInv => LastCodeOpens
  BY DEF CodesInv
<1> QED BY <1>1, CodesAlways, PTL

-----------------------------------------------------------------------------
(* The browsers' push tokens *)

TokenRow == [id : Nat, user : Users, token : Browsers]

DevicesType ==
    /\ nextToken \in Nat
    /\ tokens \subseteq TokenRow
    /\ live \subseteq Browsers
    /\ owner \in [Browsers -> Users \cup {Nobody}]
    /\ asking \in [Browsers -> {Resting} \cup [op : {"look", "delete", "insert"}, user : Users]]
    /\ push \in [Pushes -> SUBSET TokenRow]

\* An id is given once, and what a push has read it still knows by its id.
IdsStand ==
    /\ \A t \in tokens : t.id < nextToken
    /\ \A s, t \in tokens : s.id = t.id => s = t
    /\ \A p \in Pushes : \A t \in push[p] :
            t.id < nextToken /\ \A x \in tokens : x.id = t.id => x = t

OneRowPerBrowser == \A s, t \in tokens : s.token = t.token => s = t

\* Between two statements of a registration nobody gives the browser a row.
NoRowMeanwhile ==
    \A b \in Browsers : \A t \in RowsOf(b) :
        /\ asking[b].op # "insert"
        /\ asking[b].op = "look" => t.user # asking[b].user

ToldTrue ==
    \A b \in Browsers :
        b \in live /\ asking[b] = Resting /\ owner[b] # Nobody
        => \E t \in RowsOf(b) : t.user = owner[b]

DevicesInv == DevicesType /\ IdsStand /\ OneRowPerBrowser /\ NoRowMeanwhile /\ ToldTrue

USE DevicesAssumption

LEMMA RestingIsResting == \A op : op \in {"look", "delete", "insert"} => Resting.op # op
BY DEF Resting

LEMMA DevicesInvInit == DevicesInit => DevicesInv
BY DEF DevicesInit, DevicesInv, DevicesType, IdsStand, OneRowPerBrowser, NoRowMeanwhile,
       ToldTrue, RowsOf

\* A step of one browser's registration that inserts nothing.
LEMMA RegistrationKeeps ==
    ASSUME DevicesInv, NEW b \in Browsers, UNCHANGED <<nextToken, live, push>>,
           asking' = [asking EXCEPT ![b] = asking'[b]], owner' = [owner EXCEPT ![b] = owner'[b]],
           asking'[b] \in {Resting} \cup [op : {"look", "delete", "insert"}, user : Users],
           owner'[b] \in Users \cup {Nobody},
           tokens' \subseteq tokens, \A t \in tokens \ tokens' : t.token = b,
           \A t \in RowsOf(b)' : /\ asking'[b].op # "insert"
                                 /\ asking'[b].op = "look" => t.user # asking'[b].user,
           asking'[b] = Resting /\ owner'[b] # Nobody => \E t \in RowsOf(b)' : t.user = owner'[b]
    PROVE  DevicesInv'
<1>1. DevicesType' /\ IdsStand' /\ OneRowPerBrowser'
  BY DEF DevicesInv, DevicesType, IdsStand, OneRowPerBrowser
<1>2. /\ \A c \in Browsers \ {b} : RowsOf(c)' = RowsOf(c)
      /\ \A c \in Browsers \ {b} : asking'[c] = asking[c] /\ owner'[c] = owner[c]
  BY DEF RowsOf, DevicesInv, DevicesType
<1>3. NoRowMeanwhile' /\ ToldTrue'
  BY <1>2 DEF NoRowMeanwhile, ToldTrue, DevicesInv
<1> QED BY <1>1, <1>3 DEF DevicesInv

\* A push that reads rows, sends to one, or deletes one Firebase forgot.
LEMMA PushKeeps ==
    ASSUME DevicesInv, NEW p \in Pushes, UNCHANGED <<nextToken, asking, owner>>,
           live' \subseteq live,
           push' = [push EXCEPT ![p] = push'[p]], push'[p] \subseteq push[p] \cup tokens,
           tokens' \subseteq tokens, \A t \in tokens \ tokens' : t.token \notin live
    PROVE  DevicesInv'
<1>1. DevicesType' /\ IdsStand' /\ OneRowPerBrowser'
  BY DEF DevicesInv, DevicesType, IdsStand, OneRowPerBrowser
<1>2. NoRowMeanwhile' /\ ToldTrue'
  BY DEF NoRowMeanwhile, ToldTrue, DevicesInv, RowsOf
<1> QED BY <1>1, <1>2 DEF DevicesInv

LEMMA DevicesStep == DevicesInv /\ DevicesNext => DevicesInv'
<1> SUFFICES ASSUME DevicesInv, DevicesNext PROVE DevicesInv'
  OBVIOUS
<1>1. ASSUME NEW u \in Users, NEW b \in Browsers, Register(u, b) PROVE DevicesInv'
  <2>1. asking[b] = Resting /\ UNCHANGED <<tokens, nextToken, live, push>>
        /\ RowsOf(b)' = RowsOf(b)
    BY <1>1 DEF Register, RowsOf
  <2>2. CASE \E t \in RowsOf(b) : t.user = u
    <3>1. owner' = [owner EXCEPT ![b] = u] /\ asking' = asking
      BY <1>1, <2>2 DEF Register
    <3>2. owner'[b] = u /\ asking'[b] = Resting /\ asking' = [asking EXCEPT ![b] = asking'[b]]
      BY <2>1, <3>1 DEF DevicesInv, DevicesType
    <3>3. owner' = [owner EXCEPT ![b] = owner'[b]]
      BY <3>1, <3>2
    <3>4. asking'[b].op \notin {"look", "delete", "insert"}
      BY <3>2, RestingIsResting
    <3> QED BY <2>1, <2>2, <3>2, <3>3, <3>4, RegistrationKeeps
  <2>3. CASE ~\E t \in RowsOf(b) : t.user = u
    <3>1. asking' = [asking EXCEPT ![b] = [op |-> "look", user |-> u]] /\ owner' = owner
      BY <1>1, <2>3 DEF Register
    <3>2. /\ asking'[b] = [op |-> "look", user |-> u] /\ asking'[b] # Resting
          /\ owner' = [owner EXCEPT ![b] = owner'[b]] /\ owner'[b] \in Users \cup {Nobody}
      BY <3>1, RestingIsResting DEF DevicesInv, DevicesType
    <3>3. /\ asking'[b] \in [op : {"look", "delete", "insert"}, user : Users]
          /\ asking'[b].op = "look" /\ asking'[b].user = u
      BY <3>2
    <3>4. asking' = [asking EXCEPT ![b] = asking'[b]]
      BY <3>1, <3>2
    <3> QED BY <2>1, <2>3, <3>2, <3>3, <3>4, RegistrationKeeps
  <2> QED BY <2>2, <2>3
\* From one of the registration's statements to another.
<1>2. ASSUME NEW b \in Browsers, asking[b] # Resting, UNCHANGED <<nextToken, live, owner, push>>,
             NEW op \in {"insert", "delete"}, asking' = [asking EXCEPT ![b].op = op],
             tokens' \subseteq tokens, \A t \in tokens \ tokens' : t.token = b,
             op = "insert" => RowsOf(b)' = {}
      PROVE  DevicesInv'
  <2>1. asking[b] \in [op : {"look", "delete", "insert"}, user : Users]
        /\ owner[b] \in Users \cup {Nobody}
    BY <1>2 DEF DevicesInv, DevicesType
  <2>2. asking'[b] = [asking[b] EXCEPT !.op = op] /\ asking' = [asking EXCEPT ![b] = asking'[b]]
        /\ owner' = [owner EXCEPT ![b] = owner'[b]]
    BY <1>2 DEF DevicesInv, DevicesType
  <2>3. asking'[b] \in [op : {"look", "delete", "insert"}, user : Users] /\ asking'[b].op = op
        /\ asking'[b] # Resting
    BY <2>1, <2>2, RestingIsResting
  <2> QED BY <1>2, <2>1, <2>2, <2>3, RegistrationKeeps
<1>3. ASSUME NEW b \in Browsers, LookOther(b) PROVE DevicesInv'
  <2>1. asking[b].op = "look" /\ asking[b] # Resting /\ RowsOf(b)' = RowsOf(b)
        /\ UNCHANGED <<tokens, nextToken, live, owner, push>>
    BY <1>3, RestingIsResting DEF LookOther, RowsOf
  <2>2. CASE RowsOf(b) = {} /\ asking' = [asking EXCEPT ![b].op = "insert"]
    BY <1>2, <2>1, <2>2
  <2>3. ASSUME NEW t \in RowsOf(b),
               asking' = [asking EXCEPT ![b].op =
                              IF t.user = asking[b].user THEN "insert" ELSE "delete"]
        PROVE  DevicesInv'
    <3>1. t.user # asking[b].user
      BY <2>1 DEF DevicesInv, NoRowMeanwhile
    <3>2. asking' = [asking EXCEPT ![b].op = "delete"]
      BY <2>3, <3>1
    <3> QED BY <1>2, <2>1, <3>2
  <2> QED BY <1>3, <2>2, <2>3 DEF LookOther
<1>4. ASSUME NEW b \in Browsers, DeleteOther(b) PROVE DevicesInv'
  <2>1. /\ asking[b] # Resting /\ UNCHANGED <<nextToken, live, owner, push>>
        /\ asking' = [asking EXCEPT ![b].op = "insert"]
        /\ tokens' = tokens \ RowsOf(b)
    BY <1>4, RestingIsResting DEF DeleteOther
  <2>2. RowsOf(b)' = {} /\ tokens' \subseteq tokens /\ \A t \in tokens \ tokens' : t.token = b
    BY <2>1 DEF RowsOf
  <2> QED BY <1>2, <2>1, <2>2
<1>5. ASSUME NEW b \in Browsers, InsertToken(b) PROVE DevicesInv'
  <2> DEFINE new == [id |-> nextToken, user |-> asking[b].user, token |-> b]
  <2>1. /\ asking[b].op = "insert" /\ asking[b].user \in Users /\ RowsOf(b) = {}
        /\ nextToken' = nextToken + 1 /\ nextToken \in Nat
        /\ tokens' = tokens \cup {new}
        /\ asking' = [asking EXCEPT ![b] = Resting]
        /\ owner' = [owner EXCEPT ![b] = asking[b].user]
        /\ UNCHANGED <<live, push>>
    BY <1>5, RestingIsResting DEF InsertToken, DevicesInv, DevicesType, NoRowMeanwhile
  <2>2. new \in TokenRow /\ new.id = nextToken /\ new.token = b /\ new.user = asking[b].user
    BY <2>1 DEF TokenRow
  <2> HIDE DEF new
  <2>3. DevicesType'
    BY <2>1, <2>2 DEF DevicesInv, DevicesType
  <2>4. \A t \in TokenRow : t.id \in Nat
    BY DEF TokenRow
  <2>5. IdsStand'
    <3>1. \A t \in tokens' : t.id < nextToken'
      BY <2>1, <2>2, <2>4 DEF DevicesInv, DevicesType, IdsStand
    <3>2. \A s, t \in tokens' : s.id = t.id => s = t
      BY <2>1, <2>2, <2>4 DEF DevicesInv, DevicesType, IdsStand
    <3>3. ASSUME NEW p \in Pushes, NEW t \in push[p]
          PROVE  t.id < nextToken' /\ \A x \in tokens' : x.id = t.id => x = t
      <4>1. t.id \in Nat /\ t.id < nextToken
        BY <2>4 DEF DevicesInv, DevicesType, IdsStand
      <4> QED BY <2>1, <2>2, <4>1 DEF DevicesInv, IdsStand
    <3> QED BY <2>1, <3>1, <3>2, <3>3 DEF IdsStand
  <2>6. OneRowPerBrowser'
    BY <2>1, <2>2 DEF DevicesInv, OneRowPerBrowser, RowsOf
  <2>7. /\ asking'[b] = Resting /\ owner'[b] = asking[b].user /\ new \in RowsOf(b)'
        /\ \A c \in Browsers \ {b} : /\ RowsOf(c)' = RowsOf(c)
                                     /\ asking'[c] = asking[c] /\ owner'[c] = owner[c]
    BY <2>1, <2>2 DEF RowsOf, DevicesInv, DevicesType
  <2>8. NoRowMeanwhile' /\ ToldTrue'
    BY <2>1, <2>2, <2>7, RestingIsResting DEF NoRowMeanwhile, ToldTrue, DevicesInv
  <2> QED BY <2>3, <2>5, <2>6, <2>8 DEF DevicesInv
<1>6. ASSUME NEW b \in Browsers, Refuse(b) PROVE DevicesInv'
  <2>1. asking'[b] = Resting /\ owner'[b] = Nobody
        /\ asking' = [asking EXCEPT ![b] = asking'[b]]
        /\ owner' = [owner EXCEPT ![b] = owner'[b]]
    BY <1>6 DEF Refuse, DevicesInv, DevicesType
  <2> QED BY <1>6, <2>1, RegistrationKeeps, RestingIsResting DEF Refuse
<1>7. ASSUME NEW u \in Users, NEW b \in Browsers, RemoveToken(u, b) PROVE DevicesInv'
  <2>1. asking'[b] = Resting /\ owner'[b] = Nobody
        /\ asking' = [asking EXCEPT ![b] = asking'[b]]
        /\ owner' = [owner EXCEPT ![b] = owner'[b]]
    BY <1>7 DEF RemoveToken, DevicesInv, DevicesType
  <2> QED BY <1>7, <2>1, RegistrationKeeps, RestingIsResting DEF RemoveToken
<1>8. ASSUME NEW p \in Pushes, NEW u \in Users, StartPush(p, u) PROVE DevicesInv'
  <2>1. push' = [push EXCEPT ![p] = push'[p]] /\ push'[p] \subseteq tokens
    BY <1>8 DEF StartPush, DevicesInv, DevicesType
  <2> QED BY <1>8, <2>1, PushKeeps DEF StartPush
<1>9. ASSUME NEW p \in Pushes, NEW t \in push[p], Push(p, t) PROVE DevicesInv'
  <2>1. push' = [push EXCEPT ![p] = push'[p]] /\ push'[p] \subseteq push[p]
    BY <1>9 DEF Push, DevicesInv, DevicesType
  <2> QED BY <1>9, <2>1, PushKeeps DEF Push
<1>10. ASSUME NEW p \in Pushes, NEW t \in push[p], DropToken(p, t) PROVE DevicesInv'
  <2>1. push' = [push EXCEPT ![p] = push'[p]] /\ push'[p] \subseteq push[p]
    BY <1>10 DEF DropToken, DevicesInv, DevicesType
  <2>2. tokens' \subseteq tokens /\ \A x \in tokens \ tokens' : x.token \notin live
    BY <1>10 DEF DropToken, DevicesInv, IdsStand
  <2> QED BY <1>10, <2>1, <2>2, PushKeeps DEF DropToken
<1>11. ASSUME NEW b \in Browsers, Unsubscribe(b) PROVE DevicesInv'
  <2>1. live' \subseteq live /\ UNCHANGED <<tokens, nextToken, asking, owner, push>>
    BY <1>11 DEF Unsubscribe
  <2> QED BY <2>1 DEF DevicesInv, DevicesType, IdsStand, OneRowPerBrowser, NoRowMeanwhile,
                      ToldTrue, RowsOf
<1> QED BY <1>1, <1>3, <1>4, <1>5, <1>6, <1>7, <1>8, <1>9, <1>10, <1>11 DEF DevicesNext

LEMMA DevicesAlways == Spec => []DevicesInv
<1>1. Init => DevicesInv
  BY DevicesInvInit DEF Init
<1>2. DevicesInv /\ [Next]_siteVars => DevicesInv'
  <2>1. DevicesInv /\ UNCHANGED devicesVars => DevicesInv'
    BY DEF DevicesInv, DevicesType, IdsStand, OneRowPerBrowser, NoRowMeanwhile, ToldTrue,
           RowsOf, devicesVars
  <2>2. [Next]_siteVars => DevicesNext \/ UNCHANGED devicesVars
    BY DEF Next, siteVars, People, SignUps, Posts, Browse, Chats, Pages, Queries
  <2> QED BY <2>1, <2>2, DevicesStep
<1> QED BY <1>1, <1>2, PTL DEF Spec

(* A browser never has two rows, and one that was told it is registered    *)
(* has the row of the user it was told, though pushes delete rows they     *)
(* read long ago (notification.service.ts 220-246, 78-83).                 *)
THEOREM BrowserHasOneUser == Spec => []OneUserPerBrowser
<1>1. DevicesInv => OneUserPerBrowser
  BY DEF DevicesInv, OneRowPerBrowser, ToldTrue, OneUserPerBrowser, RowsOf
<1> QED BY <1>1, DevicesAlways, PTL

-----------------------------------------------------------------------------
(* Comments and the notifications they send *)

\* Only a like is told of in a statement of its own.
TellsLikes ==
    /\ act = [u \in Users |-> act[u]]
    /\ \A u \in Users : act[u].op = "tell" => act[u].about \in LikeIds
    /\ \A u \in Users : act[u].op = "read" => act[u] = [op |-> "read", on |-> act[u].on,
                                      likes |-> act[u].likes, row |-> act[u].row]

\* The rows and requests that name someone as the author of an article.
Names(r, a, x) ==
    \/ r.op \in {"read", "select", "update"} /\ r.on = a /\ x = r.row.author
    \/ r.op = "comment" /\ r.on = a /\ x = r.author
Says(a, x) ==
    \/ article[a] # None /\ x = article[a].author
    \/ \E u \in Users : Names(act[u], a, x)

\* They name one person, w, or nobody; and she is told of the comments.
Agree(a, w) ==
    /\ \A x : Says(a, x) => x \in {w, None}
    /\ \A c \in There : comments[c].on = a /\ comments[c].parent = None
                        => ToldOf(c) = {w} \ {comments[c].by}

GivenIds ==
    /\ comments = [c \in CommentIds |-> comments[c]]
    /\ \A c \in CommentIds \ used : comments[c] = None /\ ToldOf(c) = {}
    /\ \A e \in edits : e.by \in Users /\ e.comment \in CommentIds \cap used
    /\ \A a \in ArticleIds : \A x : Says(a, x) => a \in used /\ x \in Users \cup {None}
    /\ \A a \in ArticleIds, c \in There : comments[c].on = a => a \in used

CommentsInv ==
    /\ TellsLikes
    /\ GivenIds
    /\ \A a \in ArticleIds : \E w : Agree(a, w)
    /\ \A c \in CommentIds : \A u, v \in ToldOf(c) : u = v

USE CommentsAssumption

LEMMA CommentsInvInit == ArticlesInit /\ CommentsInit /\ InboxInit => CommentsInv
<1> SUFFICES ASSUME ArticlesInit, CommentsInit, InboxInit PROVE CommentsInv
  OBVIOUS
<1>1. /\ \A u \in Users : act[u] = Quiet
      /\ \A a \in ArticleIds : article[a] = None
      /\ \A c \in CommentIds : comments[c] = None
      /\ edits = {} /\ inbox = {} /\ dismissed = {}
  BY DEF ArticlesInit, CommentsInit, InboxInit
<1>2. TellsLikes
  BY <1>1 DEF ArticlesInit, TellsLikes, Quiet
<1>3. /\ \A a \in ArticleIds : \A x : ~Says(a, x)
      /\ There = {}
      /\ \A c \in CommentIds : ToldOf(c) = {}
  BY <1>1 DEF Says, Names, Quiet, There, ToldOf, Told
<1>4. GivenIds
  BY <1>1, <1>3 DEF CommentsInit, GivenIds
<1>5. \A a \in ArticleIds : Agree(a, None)
  BY <1>3 DEF Agree
<1> QED BY <1>2, <1>3, <1>4, <1>5 DEF CommentsInv

LEMMA InboxStepKeeps == InboxNext => Told' = Told
<1> SUFFICES ASSUME InboxNext PROVE Told' = Told
  OBVIOUS
<1>1. ASSUME NEW some \in SUBSET inbox, Read(some) PROVE Told' = Told
  <2>1. /\ inbox' = (inbox \ some) \cup {[r EXCEPT !.read = TRUE] : r \in some}
        /\ dismissed' = dismissed
    BY <1>1 DEF Read
  <2>2. \A r \in some : LET q == [r EXCEPT !.read = TRUE] IN q.to = r.to /\ q.about = r.about
    OBVIOUS
  <2> DEFINE after == {[r EXCEPT !.read = TRUE] : r \in some}
  <2>3. /\ \A q \in after : \E r \in some : q.to = r.to /\ q.about = r.about
        /\ \A r \in some : \E q \in after : q.to = r.to /\ q.about = r.about
    BY <2>2
  <2>4. inbox' = (inbox \ some) \cup after
    BY <2>1
  <2> HIDE DEF after
  <2>5. /\ \A q \in inbox' : \E r \in inbox : q.to = r.to /\ q.about = r.about
        /\ \A r \in inbox : \E q \in inbox' : q.to = r.to /\ q.about = r.about
    BY <2>3, <2>4
  <2>6. {<<r.to, r.about>> : r \in inbox'} = {<<r.to, r.about>> : r \in inbox}
    BY <2>5
  <2> QED BY <2>1, <2>6 DEF Told
<1>2. ASSUME NEW u \in Users, NEW some \in SUBSET Mine(u), Delete(u, some) PROVE Told' = Told
  <2>1. /\ inbox' = inbox \ some
        /\ dismissed' = dismissed \cup {<<u, r.about>> : r \in {x \in some : x.to = u}}
        /\ \A r \in some : r.to = u /\ r \in inbox
    BY <1>2 DEF Delete, Mine
  <2>2. {<<r.to, r.about>> : r \in inbox'} \cup dismissed'
        = {<<r.to, r.about>> : r \in inbox} \cup dismissed
    BY <2>1
  <2> QED BY <2>2 DEF Told
<1> QED BY <1>1, <1>2 DEF InboxNext, MarkAllAsRead, MarkAsRead, DeleteAll,
                          DeleteNotification, Mine

LEMMA NotifyTells ==
    ASSUME NEW u, NEW about, Notify(u, about)
    PROVE  Told' = IF about \in CommentIds THEN Told \cup {<<u, about>>} ELSE Told
<1> DEFINE new == [to |-> u, about |-> about, read |-> FALSE]
<1>1. inbox' = inbox \cup {new} /\ dismissed' = dismissed
  BY DEF Notify
<1>2. new.to = u /\ new.about = about
  OBVIOUS
<1> HIDE DEF new
<1>3. {<<r.to, r.about>> : r \in inbox'} = {<<r.to, r.about>> : r \in inbox} \cup {<<u, about>>}
  BY <1>1, <1>2
<1>4. <<u, about>>[2] = about
  OBVIOUS
<1> QED BY <1>1, <1>3, <1>4 DEF Told

\* A step that gives u's request another shape, which tells of a like or nothing.
LEMMA GoesKeeps ==
    ASSUME TellsLikes, NEW u \in Users, NEW r, act' = [act EXCEPT ![u] = r],
           r.op = "tell" => r.about \in LikeIds,
           r.op = "read" => r = [op |-> "read", on |-> r.on, likes |-> r.likes, row |-> r.row]
    PROVE  TellsLikes'
BY DEF TellsLikes

LEMMA ArticlesStepKeeps == TellsLikes /\ ArticlesNext => TellsLikes' /\ Told' = Told
<1> SUFFICES ASSUME TellsLikes, ArticlesNext PROVE TellsLikes' /\ Told' = Told
  OBVIOUS
<1>1. ASSUME UNCHANGED inboxVars PROVE Told' = Told
  BY <1>1 DEF Told, inboxVars
<1>2. ASSUME NEW u \in Users, act' = [act EXCEPT ![u] = Quiet] PROVE TellsLikes'
  BY <1>2, GoesKeeps DEF Quiet
<1>3. ASSUME NEW u \in Users,
             \/ SaveArticle(u) \/ MarkViewed(u) \/ Fails(u) \/ RemoveLike(u)
             \/ \E l \in LikeIds : StoreLike(u, l)
             \/ \E a \in ArticleIds : CreateArticle(u, a) \/ UpdateArticle(u, a)
                                      \/ DeleteArticle(u, a) \/ FindLike(u, a)
      PROVE  TellsLikes'
  <2>1. CASE SaveArticle(u)
    <3>1. PICK r : act' = [act EXCEPT ![u] = r] /\ r \in {Quiet, [op |-> "mark", on |-> act[u].on]}
      BY <2>1 DEF SaveArticle, Goes
    <3> QED BY <3>1, GoesKeeps DEF Quiet
  <2>2. CASE MarkViewed(u) \/ Fails(u) \/ RemoveLike(u)
    BY <1>2, <2>2 DEF MarkViewed, Fails, RemoveLike, Ends, Goes
  <2>3. ASSUME NEW l \in LikeIds, StoreLike(u, l) PROVE TellsLikes'
    <3>1. act' = [act EXCEPT ![u] = [op |-> "tell", to |-> act[u].author, about |-> l]]
      BY <2>3 DEF StoreLike, Goes
    <3> QED BY <3>1, GoesKeeps
  <2>4. ASSUME NEW a \in ArticleIds, CreateArticle(u, a) \/ DeleteArticle(u, a) PROVE TellsLikes'
    BY <1>2, <2>4 DEF CreateArticle, DeleteArticle, Begins
  <2>5. ASSUME NEW a \in ArticleIds, UpdateArticle(u, a) PROVE TellsLikes'
    <3>1. act' = [act EXCEPT ![u] = [op |-> "select", on |-> a, row |-> article[a]]]
      BY <2>5 DEF UpdateArticle, Begins
    <3> QED BY <3>1, GoesKeeps
  <2>6. ASSUME NEW a \in ArticleIds, FindLike(u, a) PROVE TellsLikes'
    <3>1. ASSUME act' = [act EXCEPT ![u] = [op |-> "like", on |-> a, author |-> Author(a)]]
          PROVE  TellsLikes'
      BY <3>1, GoesKeeps
    <3>2. ASSUME NEW l, act' = [act EXCEPT ![u] = [op |-> "unlike", on |-> a, like |-> l]]
          PROVE  TellsLikes'
      BY <3>2, GoesKeeps
    <3> QED BY <2>6, <3>1, <3>2 DEF FindLike, Begins
  <2> QED BY <1>3, <2>1, <2>2, <2>3, <2>4, <2>5, <2>6
<1>4. ASSUME NEW u \in Users, NEW a \in ArticleIds, ReadArticle(u, a) PROVE TellsLikes'
  <2> DEFINE r == [op |-> "read", on |-> a, likes |-> LikesOf(a),
                   row |-> [article[a] EXCEPT !.author = Author(a)]]
  <2>1. act' = [act EXCEPT ![u] = r]
    BY <1>4 DEF ReadArticle, Begins
  <2>2. r.op = "read" /\ r = [op |-> "read", on |-> r.on, likes |-> r.likes, row |-> r.row]
    OBVIOUS
  <2> HIDE DEF r
  <2> QED BY <2>1, <2>2, GoesKeeps
<1>5. ASSUME NEW u \in Users, CountView(u) PROVE TellsLikes'
  <2> DEFINE r == [act[u] EXCEPT !.op = "select", !.row.views = @ + 1]
  <2>1. act' = [act EXCEPT ![u] = r] /\ act[u].op = "read"
    BY <1>5 DEF CountView, Goes
  <2>2. r.op = "select"
    BY <2>1 DEF TellsLikes
  <2> HIDE DEF r
  <2> QED BY <2>1, <2>2, GoesKeeps
<1>6. ASSUME NEW u \in Users, SelectArticle(u) PROVE TellsLikes'
  <2>1. ASSUME NEW a, NEW row, NEW base, NEW ls, NEW bs,
               act' = [act EXCEPT ![u] = [op |-> "update", on |-> a, row |-> row, base |-> base,
                                          likes |-> ls, baseLikes |-> bs]]
        PROVE  TellsLikes'
    BY <2>1, GoesKeeps
  <2>2. ASSUME NEW a, NEW row, NEW base,
               act' = [act EXCEPT ![u] = [op |-> "update", on |-> a, row |-> row, base |-> base]]
        PROVE  TellsLikes'
    BY <2>2, GoesKeeps
  <2> QED BY <1>6, <2>1, <2>2 DEF SelectArticle, Goes
<1>7. ASSUME NEW u \in Users, NEW a \in ArticleIds, ExpireMark(u, a) PROVE TellsLikes'
  BY <1>7 DEF ExpireMark, TellsLikes
<1>8. ASSUME NEW u \in Users, TellLike(u) PROVE TellsLikes' /\ Told' = Told
  <2>1. act[u].about \in LikeIds /\ Notify(act[u].to, act[u].about)
        /\ act' = [act EXCEPT ![u] = Quiet]
    BY <1>8 DEF TellLike, TellsLikes, Ends, Goes
  <2> QED BY <1>2, <2>1, NotifyTells
<1> QED BY <1>1, <1>3, <1>4, <1>5, <1>6, <1>7, <1>8 DEF ArticlesNext

LEMMA UsedGrows == ArticlesNext => used \subseteq used'
BY DEF ArticlesNext, CountView, SelectArticle, SaveArticle, MarkViewed, Fails, RemoveLike,
       StoreLike, CreateArticle, ReadArticle, UpdateArticle, ExpireMark, DeleteArticle,
       FindLike, TellLike, rows

\* Nobody is named who was not, but for nobody.
SaysLess ==
    \A a \in ArticleIds : \A x : Says(a, x)' => \E y : Says(a, y) /\ x \in {y, None}

LEMMA RequestSays ==
    ASSUME TellsLikes, NEW u \in Users, NEW r, act' = [act EXCEPT ![u] = r],
           \A a \in ArticleIds : article'[a] # None =>
                \E y : Says(a, y) /\ article'[a].author \in {y, None},
           \A a \in ArticleIds : \A x : Names(r, a, x) =>
                \E y : Says(a, y) /\ x \in {y, None}
    PROVE  SaysLess
<1> SUFFICES ASSUME NEW a \in ArticleIds, NEW x, Says(a, x)'
             PROVE  \E y : Says(a, y) /\ x \in {y, None}
  BY DEF SaysLess
<1>1. \A v \in Users : act'[v] = IF v = u THEN r ELSE act[v]
  BY DEF TellsLikes
<1>2. CASE article'[a] # None /\ x = article'[a].author
  BY <1>2
<1>3. ASSUME NEW v \in Users, Names(act'[v], a, x) PROVE \E y : Says(a, y) /\ x \in {y, None}
  <2>1. CASE v = u
    BY <1>1, <1>3, <2>1
  <2>2. CASE v # u
    <3>1. Names(act[v], a, x)
      BY <1>1, <1>3, <2>2
    <3> QED BY <3>1 DEF Says
  <2> QED BY <2>1, <2>2
<1> QED BY <1>2, <1>3 DEF Says, Names

\* Of the rows nothing is changed but that some go.
LEMMA AuthorsStay ==
    \A a \in ArticleIds : article'[a] \in {article[a], None} /\ article'[a] # None
        => \E y : Says(a, y) /\ article'[a].author \in {y, None}
BY DEF Says

LEMMA QuietNames == \A a, x : ~Names(Quiet, a, x)
BY DEF Names, Quiet

\* The one an article is read with is its author, or nobody.
LEMMA AuthorSaid ==
    \A a \in ArticleIds : article[a] # None =>
        Says(a, article[a].author) /\ Author(a) \in {article[a].author, None}
BY DEF Says, Author

LEMMA SaveSays ==
    ASSUME ViewsInv, TellsLikes, NEW u \in Users, SaveArticle(u)
    PROVE  SaysLess
<1> DEFINE on == act[u].on
           row == act[u].row
           base == act[u].base
<1>1. act[u].op = "update" /\ on \in ArticleIds /\ row \in ArticleRow
  BY DEF SaveArticle, ViewsInv, ViewFits
<1>2. Says(on, row.author)
  BY <1>1 DEF Says, Names
<1>3. article \in [ArticleIds -> ArticleRow \cup {None}]
  BY DEF ViewsInv, ViewsType
<1>4. /\ article' = [article EXCEPT ![on] =
              IF base = None THEN row
              ELSE IF article[on] = None THEN None ELSE Saved(article[on], row, base)]
      /\ \E r : act' = [act EXCEPT ![u] = r] /\ r \in {Quiet, [op |-> "mark", on |-> on]}
  BY DEF SaveArticle, Goes
<1>5. article[on] # None =>
        Saved(article[on], row, base).author \in {row.author, article[on].author}
  <2> SUFFICES ASSUME article[on] # None
               PROVE  Saved(article[on], row, base).author \in {row.author, article[on].author}
    OBVIOUS
  <2>1. "author" \in DOMAIN article[on] /\ "author" \in DOMAIN row
    BY <1>1, <1>3 DEF ArticleRow
  <2> QED BY <2>1 DEF Saved
<1>6. ASSUME NEW a \in ArticleIds, article'[a] # None
      PROVE  \E y : Says(a, y) /\ article'[a].author \in {y, None}
  <2>1. CASE a # on
    <3>1. article'[a] = article[a]
      BY <1>3, <1>4, <2>1
    <3> QED BY <1>6, <3>1, AuthorSaid
  <2>2. CASE a = on
    <3>1. \/ article'[on] = row
          \/ /\ article[on] # None
             /\ article'[on].author \in {row.author, article[on].author}
      BY <1>1, <1>3, <1>4, <1>5, <1>6, <2>2
    <3> QED BY <1>1, <1>2, <2>2, <3>1, AuthorSaid
  <2> QED BY <2>1, <2>2
<1>7. PICK r : act' = [act EXCEPT ![u] = r] /\ r \in {Quiet, [op |-> "mark", on |-> on]}
  BY <1>4
<1>8. \A a, x : ~Names(r, a, x)
  BY <1>7 DEF Names, Quiet
<1> QED BY <1>6, <1>7, <1>8, RequestSays

LEMMA ArticlesSay ==
    ASSUME ViewsInv, TellsLikes, ArticlesNext,
           \A u \in Users, a \in ArticleIds : ~CreateArticle(u, a)
    PROVE  SaysLess
<1> DEFINE Stays == \A a \in ArticleIds : article'[a] \in {article[a], None}
<1>0. article \in [ArticleIds -> ArticleRow \cup {None}]
  BY DEF ViewsInv, ViewsType
\* A request that goes on about the article it was about, or ends.
<1>1. ASSUME NEW u \in Users, NEW r, act' = [act EXCEPT ![u] = r], Stays,
             \A a \in ArticleIds : \A x : Names(r, a, x) => \E y : Says(a, y) /\ x \in {y, None}
      PROVE  SaysLess
  <2>1. \A a \in ArticleIds : article'[a] # None =>
                \E y : Says(a, y) /\ article'[a].author \in {y, None}
    BY <1>1, AuthorsStay
  <2> QED BY <1>1, <2>1, RequestSays
<1>2. ASSUME NEW u \in Users, NEW r, act' = [act EXCEPT ![u] = r], Stays,
             r.op \notin {"read", "select", "update", "comment"}
      PROVE  SaysLess
  <2>1. \A a, x : ~Names(r, a, x)
    BY <1>2 DEF Names
  <2> HIDE DEF Stays
  <2> QED BY <1>1, <1>2, <2>1
<1>3. ASSUME NEW u \in Users, NEW r, act' = [act EXCEPT ![u] = r], Stays,
             r.op \in {"select", "update"}, NEW y, Says(r.on, y), r.row.author \in {y, None}
      PROVE  SaysLess
  <2>1. \A a, x : Names(r, a, x) => a = r.on /\ x = r.row.author
    BY <1>3 DEF Names
  <2> HIDE DEF Stays
  <2> QED BY <1>1, <1>3, <2>1
<1>4. ASSUME NEW u \in Users, CountView(u) PROVE SaysLess
  <2>1. PICK r : r = [act[u] EXCEPT !.op = "select", !.row.views = @ + 1]
    OBVIOUS
  <2>2. act' = [act EXCEPT ![u] = r] /\ act[u].op = "read" /\ Stays
    BY <1>4, <2>1 DEF CountView, Goes, rows
  <2>3. PICK on, ls, row : act[u] = [op |-> "read", on |-> on, likes |-> ls, row |-> row]
    BY <2>2 DEF TellsLikes
  <2>4. act[u].row = row /\ act[u].on = on /\ row \in ArticleRow
    BY <2>2, <2>3 DEF ViewsInv, ViewFits
  <2>5. r.op = "select" /\ r.on = on /\ r.row = [row EXCEPT !.views = @ + 1]
    <3>1. PICK q : q = act[u]
      OBVIOUS
    <3>2. r = [q EXCEPT !.op = "select", !.row.views = @ + 1]
      BY <2>1, <3>1
    <3>3. q \in [op : {"read"}, on : {on}, likes : {ls}, row : {row}]
      BY <2>3, <3>1
    <3> QED BY <3>2, <3>3
  <2>6. [row EXCEPT !.views = @ + 1].author = row.author
    BY <2>4 DEF ArticleRow
  <2>7. r.op = "select" /\ r.on = on /\ r.row.author = row.author
    BY <2>5, <2>6
  <2>8. Says(on, row.author)
    BY <2>2, <2>4 DEF Says, Names
  <2> HIDE DEF Stays
  <2> QED BY <1>3, <2>2, <2>7, <2>8
<1>5. ASSUME NEW u \in Users, SelectArticle(u) PROVE SaysLess
  <2>1. act[u].op = "select" /\ Says(act[u].on, act[u].row.author) /\ Stays
    BY <1>5 DEF SelectArticle, Says, Names, rows
  <2>2. PICK r : act' = [act EXCEPT ![u] = r] /\ r.op = "update"
                 /\ r.on = act[u].on /\ r.row = act[u].row
    <3>1. CASE Counts(act[u])
      <4>1. PICK r : r = [op |-> "update", on |-> act[u].on, row |-> act[u].row,
                          base |-> article[act[u].on], likes |-> act[u].likes,
                          baseLikes |-> LikesOf(act[u].on)]
        OBVIOUS
      <4>2. act' = [act EXCEPT ![u] = r]
        BY <1>5, <3>1, <4>1 DEF SelectArticle, Goes
      <4>3. r.op = "update" /\ r.on = act[u].on /\ r.row = act[u].row
        BY <4>1
      <4> QED BY <4>2, <4>3
    <3>2. CASE ~Counts(act[u])
      <4>1. PICK r : r = [op |-> "update", on |-> act[u].on, row |-> act[u].row,
                          base |-> article[act[u].on]]
        OBVIOUS
      <4>2. act' = [act EXCEPT ![u] = r]
        BY <1>5, <3>2, <4>1 DEF SelectArticle, Goes
      <4>3. r.op = "update" /\ r.on = act[u].on /\ r.row = act[u].row
        BY <4>1
      <4> QED BY <4>2, <4>3
    <3> QED BY <3>1, <3>2
  <2> HIDE DEF Stays
  <2> QED BY <1>3, <2>1, <2>2
<1>6. ASSUME NEW u \in Users, NEW a \in ArticleIds, UpdateArticle(u, a) PROVE SaysLess
  <2>1. PICK r : r = [op |-> "select", on |-> a, row |-> article[a]]
    OBVIOUS
  <2>2. act' = [act EXCEPT ![u] = r] /\ Stays /\ article[a] # None
    BY <1>6, <2>1 DEF UpdateArticle, Begins, rows
  <2>3. r.op = "select" /\ Says(r.on, r.row.author)
    BY <2>1, <2>2, AuthorSaid
  <2> HIDE DEF Stays
  <2> QED BY <1>3, <2>2, <2>3
<1>7. ASSUME NEW u \in Users, NEW a \in ArticleIds, ReadArticle(u, a) PROVE SaysLess
  <2>1. PICK row : row = [article[a] EXCEPT !.author = Author(a)]
    OBVIOUS
  <2>2. PICK r : r = [op |-> "read", on |-> a, likes |-> LikesOf(a), row |-> row]
    OBVIOUS
  <2>3. act' = [act EXCEPT ![u] = r] /\ Stays /\ article[a] # None
    BY <1>7, <2>1, <2>2 DEF ReadArticle, Begins, rows
  <2>4. row.author = Author(a)
    BY <1>0, <2>1, <2>3 DEF ArticleRow
  <2>5. \A b, x : Names(r, b, x) => b = a /\ x = Author(a)
    BY <2>2, <2>4 DEF Names
  <2> HIDE DEF Stays
  <2> QED BY <1>1, <2>3, <2>5, AuthorSaid
<1>8. ASSUME NEW u \in Users, NEW l \in LikeIds, StoreLike(u, l) PROVE SaysLess
  <2>1. PICK r : r = [op |-> "tell", to |-> act[u].author, about |-> l]
    OBVIOUS
  <2>2. act' = [act EXCEPT ![u] = r] /\ Stays /\ r.op = "tell"
    BY <1>8, <2>1 DEF StoreLike, Goes
  <2> HIDE DEF Stays
  <2> QED BY <1>2, <2>2
<1>9. ASSUME NEW u \in Users,
             \/ MarkViewed(u) \/ Fails(u) \/ RemoveLike(u) \/ TellLike(u)
             \/ \E a \in ArticleIds : DeleteArticle(u, a)
      PROVE  SaysLess
  <2>1. act' = [act EXCEPT ![u] = Quiet]
    BY <1>9 DEF MarkViewed, Fails, RemoveLike, TellLike, DeleteArticle, Begins, Ends, Goes
  <2>2. Stays
    BY <1>0, <1>9 DEF MarkViewed, Fails, RemoveLike, TellLike, DeleteArticle, rows
  <2>3. Quiet.op \notin {"read", "select", "update", "comment"}
    BY DEF Quiet
  <2> HIDE DEF Stays
  <2> QED BY <1>2, <2>1, <2>2, <2>3
<1>10. ASSUME NEW u \in Users, NEW a \in ArticleIds, FindLike(u, a) PROVE SaysLess
  <2>1. PICK r : act' = [act EXCEPT ![u] = r] /\ r.op \in {"like", "unlike"}
    <3>1. ASSUME NEW w, act' = [act EXCEPT ![u] = [op |-> "like", on |-> a, author |-> w]]
          PROVE  \E r : act' = [act EXCEPT ![u] = r] /\ r.op \in {"like", "unlike"}
      <4>1. PICK r : r = [op |-> "like", on |-> a, author |-> w]
        OBVIOUS
      <4>2. act' = [act EXCEPT ![u] = r]
        BY <3>1, <4>1
      <4>3. r.op \in {"like", "unlike"}
        BY <4>1
      <4> QED BY <4>2, <4>3
    <3>2. ASSUME NEW l, act' = [act EXCEPT ![u] = [op |-> "unlike", on |-> a, like |-> l]]
          PROVE  \E r : act' = [act EXCEPT ![u] = r] /\ r.op \in {"like", "unlike"}
      <4>1. PICK r : r = [op |-> "unlike", on |-> a, like |-> l]
        OBVIOUS
      <4>2. act' = [act EXCEPT ![u] = r]
        BY <3>2, <4>1
      <4>3. r.op \in {"like", "unlike"}
        BY <4>1
      <4> QED BY <4>2, <4>3
    <3> QED BY <1>10, <3>1, <3>2 DEF FindLike, Begins
  <2>2. Stays
    BY <1>10 DEF FindLike, rows
  <2> HIDE DEF Stays
  <2> QED BY <1>2, <2>1, <2>2
<1>11. ASSUME NEW u \in Users, NEW a \in ArticleIds, ExpireMark(u, a) PROVE SaysLess
  BY <1>11 DEF ExpireMark, SaysLess, Says, Names, rows
<1>12. \A u \in Users : SaveArticle(u) => SaysLess
  BY SaveSays
<1> QED BY <1>4, <1>5, <1>6, <1>7, <1>8, <1>9, <1>10, <1>11, <1>12 DEF ArticlesNext

\* Comments that go, or lose their article, and nobody newly told.
LEMMA FewerComments ==
    ASSUME CommentsInv, TellsLikes', SaysLess, used \subseteq used', Told' = Told,
           comments' = [c \in CommentIds |-> comments'[c]],
           \A c \in CommentIds : \/ comments'[c] \in {comments[c], None}
                                 \/ comments'[c].on = None /\ c \in used,
           \A e \in edits' : e.by \in Users /\ e.comment \in CommentIds \cap used'
    PROVE  CommentsInv'
<1>1. \A c : ToldOf(c)' = ToldOf(c)
  BY DEF ToldOf
<1>2. None \notin ArticleIds
  BY ArticlesAssumption
<1>3. ASSUME NEW a \in ArticleIds, NEW c \in There', comments'[c].on = a
      PROVE  c \in There /\ comments'[c] = comments[c]
  BY <1>2, <1>3 DEF There
<1>4. GivenIds'
  <2>1. ASSUME NEW a \in ArticleIds, NEW x, Says(a, x)' PROVE a \in used' /\ x \in Users \cup {None}
    BY <2>1 DEF SaysLess, CommentsInv, GivenIds
  <2>2. ASSUME NEW a \in ArticleIds, NEW c \in There', comments'[c].on = a PROVE a \in used'
    BY <1>3, <2>2 DEF CommentsInv, GivenIds
  <2>3. \A c \in CommentIds \ used' : comments'[c] = None /\ ToldOf(c)' = {}
    BY <1>1 DEF CommentsInv, GivenIds
  <2> QED BY <2>1, <2>2, <2>3 DEF GivenIds
<1>5. ASSUME NEW a \in ArticleIds PROVE \E w : Agree(a, w)'
  <2>1. PICK w : Agree(a, w)
    BY DEF CommentsInv
  <2>2. \A x : Says(a, x)' => x \in {w, None}
    BY <2>1 DEF Agree, SaysLess
  <2>3. ASSUME NEW c \in There', comments'[c].on = a, comments'[c].parent = None
        PROVE  ToldOf(c)' = {w} \ {comments'[c].by}
    BY <1>1, <1>3, <2>1, <2>3 DEF Agree
  <2>4. Agree(a, w)'
    BY <2>2, <2>3 DEF Agree
  <2> QED BY <2>4
<1> QED BY <1>1, <1>4, <1>5 DEF CommentsInv

\* A new article has an id nothing was about.
LEMMA CreateTells ==
    ASSUME ViewsInv, CommentsInv, NEW u \in Users, NEW b \in ArticleIds, CreateArticle(u, b),
           Cascade, UNCHANGED <<edits, inboxVars>>
    PROVE  CommentsInv'
<1>1. /\ act' = [act EXCEPT ![u] = Quiet] /\ b \notin used /\ used' = used \cup {b}
      /\ article' = [article EXCEPT ![b] = [author |-> u, views |-> 0]]
      /\ article \in [ArticleIds -> ArticleRow \cup {None}]
  BY DEF CreateArticle, Begins, ViewsInv, ViewsType
<1>2. Told' = Told /\ \A c : ToldOf(c)' = ToldOf(c)
  BY DEF Told, ToldOf, inboxVars
<1>3. TellsLikes'
  BY <1>1, GoesKeeps DEF CommentsInv, Quiet
<1>4. /\ comments' = [c \in CommentIds |-> comments'[c]]
      /\ \A c \in CommentIds : comments'[c] \in {comments[c], None}
  BY DEF Cascade, Gone
<1>5. /\ article'[b] = [author |-> u, views |-> 0]
      /\ \A a \in ArticleIds \ {b} : article'[a] = article[a]
      /\ \A v \in Users : act'[v] = IF v = u THEN Quiet ELSE act[v]
  BY <1>1 DEF CommentsInv, TellsLikes
<1>6. \A a \in ArticleIds : \A x : Says(a, x)' => IF a = b THEN x = u ELSE Says(a, x)
  <2> SUFFICES ASSUME NEW a \in ArticleIds, NEW x, Says(a, x)'
               PROVE  IF a = b THEN x = u ELSE Says(a, x)
    OBVIOUS
  <2>1. ASSUME NEW v \in Users, Names(act'[v], a, x) PROVE a # b /\ Says(a, x)
    <3>1. act'[v] = act[v]
      BY <1>5, <2>1, QuietNames
    <3>2. Says(a, x)
      BY <2>1, <3>1 DEF Says
    <3> QED BY <1>1, <3>2 DEF CommentsInv, GivenIds
  <2>2. CASE article'[a] # None /\ x = article'[a].author
    BY <1>5, <2>2 DEF Says
  <2> QED BY <2>1, <2>2 DEF Says, Names
<1>7. ASSUME NEW a \in ArticleIds, NEW c \in There', comments'[c].on = a
      PROVE  c \in There /\ comments'[c] = comments[c] /\ a # b /\ a \in used
  <2>1. c \in There /\ comments'[c] = comments[c]
    BY <1>4, <1>7 DEF There
  <2> QED BY <1>1, <1>7, <2>1 DEF CommentsInv, GivenIds
<1>8. GivenIds'
  <2>1. \A c \in CommentIds \ used' : comments'[c] = None /\ ToldOf(c)' = {}
    BY <1>1, <1>2, <1>4 DEF CommentsInv, GivenIds
  <2>2. \A e \in edits' : e.by \in Users /\ e.comment \in CommentIds \cap used'
    BY <1>1 DEF CommentsInv, GivenIds
  <2>3. \A a \in ArticleIds : \A x : Says(a, x)' => a \in used' /\ x \in Users \cup {None}
    BY <1>1, <1>6 DEF CommentsInv, GivenIds
  <2>4. \A a \in ArticleIds, c \in There' : comments'[c].on = a => a \in used'
    BY <1>1, <1>7
  <2> QED BY <1>4, <2>1, <2>2, <2>3, <2>4 DEF GivenIds
<1>9. ASSUME NEW a \in ArticleIds PROVE \E w : Agree(a, w)'
  <2>1. CASE a = b
    <3>1. Agree(a, u)'
      BY <1>6, <1>7, <2>1 DEF Agree
    <3> QED BY <3>1
  <2>2. CASE a # b
    <3>1. PICK w : Agree(a, w)
      BY DEF CommentsInv
    <3>2. Agree(a, w)'
      BY <1>2, <1>6, <1>7, <2>2, <3>1 DEF Agree
    <3> QED BY <3>2
  <2> QED BY <2>1, <2>2
<1> QED BY <1>2, <1>3, <1>8, <1>9 DEF CommentsInv

\* Of a new comment nobody was told; now the author its handler read is.
LEMMA CommitTells ==
    ASSUME CommentsInv, NEW u \in Users, NEW c \in CommentIds, CommitComment(u, c)
    PROVE  CommentsInv'
<1> DEFINE to == act[u].author
           on == act[u].on
           parent == act[u].parent
<1>1. /\ act[u].op = "comment" /\ c \notin used /\ to # None /\ used' = used \cup {c}
      /\ comments' = [comments EXCEPT ![c] = [by |-> u, on |-> on, parent |-> parent]]
      /\ act' = [act EXCEPT ![u] = Quiet] /\ UNCHANGED <<article, edits>>
      /\ IF to # u THEN Notify(to, c) ELSE UNCHANGED inboxVars
      /\ article[on] # None
  BY DEF CommitComment, Ends, Goes
<1>2. TellsLikes'
  BY <1>1, GoesKeeps DEF CommentsInv, Quiet
<1>3. /\ comments'[c] = [by |-> u, on |-> on, parent |-> parent]
      /\ \A d \in CommentIds \ {c} : comments'[d] = comments[d]
      /\ comments' = [d \in CommentIds |-> comments'[d]]
      /\ comments[c] = None /\ ToldOf(c) = {}
  BY <1>1 DEF CommentsInv, GivenIds
<1>4. /\ comments'[c].by = u /\ comments'[c].on = on /\ comments'[c].parent = parent
      /\ There' \subseteq There \cup {c} /\ \A d \in There : d # c
  BY <1>3 DEF There
<1>5. on \in ArticleIds => to \in Users
  <2>1. Says(on, to)
    BY <1>1 DEF Says, Names
  <2> QED BY <1>1, <2>1 DEF CommentsInv, GivenIds
<1>6. Told' = IF to # u THEN Told \cup {<<to, c>>} ELSE Told
  <2>1. CASE to # u
    BY <1>1, <2>1, NotifyTells
  <2>2. CASE to = u
    BY <1>1, <2>2 DEF Told, inboxVars
  <2> QED BY <2>1, <2>2
<1>7. /\ \A d \in CommentIds \ {c} : ToldOf(d)' = ToldOf(d)
      /\ \A v, w \in ToldOf(c)' : v = w
      /\ on \in ArticleIds => ToldOf(c)' = {to} \ {u}
  <2> HIDE DEF to
  <2> QED BY <1>3, <1>5, <1>6 DEF ToldOf
<1>8. \A a \in ArticleIds : \A x : Says(a, x)' => Says(a, x)
  <2>1. \A v \in Users : act'[v] = IF v = u THEN Quiet ELSE act[v]
    BY <1>1 DEF CommentsInv, TellsLikes
  <2> QED BY <1>1, <2>1, QuietNames DEF Says
<1>9. Says(on, to)
  BY <1>1 DEF Says, Names
<1>10. GivenIds'
  <2>1. \A d \in CommentIds \ used' : comments'[d] = None /\ ToldOf(d)' = {}
    BY <1>1, <1>3, <1>7 DEF CommentsInv, GivenIds
  <2>2. \A e \in edits' : e.by \in Users /\ e.comment \in CommentIds \cap used'
    BY <1>1 DEF CommentsInv, GivenIds
  <2>3. \A a \in ArticleIds : \A x : Says(a, x)' => a \in used' /\ x \in Users \cup {None}
    BY <1>1, <1>8 DEF CommentsInv, GivenIds
  <2>4. ASSUME NEW a \in ArticleIds, NEW d \in There', comments'[d].on = a PROVE a \in used'
    <3>1. CASE d = c
      BY <1>1, <1>4, <1>9, <2>4, <3>1 DEF CommentsInv, GivenIds
    <3>2. CASE d # c
      BY <1>1, <1>3, <1>4, <2>4, <3>2 DEF CommentsInv, GivenIds, There
    <3> QED BY <3>1, <3>2
  <2> QED BY <1>3, <2>1, <2>2, <2>3, <2>4 DEF GivenIds
<1>11. ASSUME NEW a \in ArticleIds PROVE \E w : Agree(a, w)'
  <2>1. PICK w : Agree(a, w)
    BY DEF CommentsInv
  <2>2. \A x : Says(a, x)' => x \in {w, None}
    BY <1>8, <2>1 DEF Agree
  <2>3. ASSUME NEW d \in There', comments'[d].on = a, comments'[d].parent = None
        PROVE  ToldOf(d)' = {w} \ {comments'[d].by}
    <3>1. CASE d = c
      <4>1. on = a /\ to = w
        BY <1>1, <1>4, <1>9, <2>1, <2>3, <3>1 DEF Agree
      <4> HIDE DEF to, on
      <4> QED BY <1>4, <1>7, <3>1, <4>1
    <3>2. CASE d # c
      <4>1. d \in There /\ d \in CommentIds /\ comments'[d] = comments[d]
        BY <1>3, <1>4, <2>3, <3>2 DEF There
      <4> QED BY <1>7, <2>1, <2>3, <3>2, <4>1 DEF Agree
    <3> QED BY <3>1, <3>2
  <2>4. Agree(a, w)'
    BY <2>2, <2>3 DEF Agree
  <2> QED BY <2>4
<1>12. \A d \in CommentIds : \A v, w \in ToldOf(d)' : v = w
  BY <1>7 DEF CommentsInv
<1> QED BY <1>2, <1>10, <1>11, <1>12 DEF CommentsInv

LEMMA CommentsStep == ViewsInv /\ CommentsInv /\ CommentsNext => CommentsInv'
<1> SUFFICES ASSUME ViewsInv, CommentsInv, CommentsNext PROVE CommentsInv'
  OBVIOUS
<1>1. TellsLikes /\ \A e \in edits : e.by \in Users /\ e.comment \in CommentIds \cap used
  BY DEF CommentsInv, GivenIds
<1>2. comments = [c \in CommentIds |-> comments[c]]
  BY DEF CommentsInv, GivenIds
\* A request of one user's, that changes no article.
<1>3. ASSUME NEW u \in Users, NEW r, act' = [act EXCEPT ![u] = r], UNCHANGED article,
             \A a \in ArticleIds : \A x : Names(r, a, x) => \E y : Says(a, y) /\ x \in {y, None}
      PROVE  SaysLess
  BY <1>1, <1>3, RequestSays, AuthorSaid
<1>4. CASE ArticlesNext /\ Cascade /\ UNCHANGED edits
  <2>1. TellsLikes' /\ Told' = Told /\ used \subseteq used'
    BY <1>1, <1>4, ArticlesStepKeeps, UsedGrows
  <2>2. /\ comments' = [c \in CommentIds |-> comments'[c]]
        /\ \A c \in CommentIds : comments'[c] \in {comments[c], None}
    BY <1>4 DEF Cascade, Gone
  <2>3. CASE \A u \in Users, a \in ArticleIds : ~CreateArticle(u, a)
    <3>1. SaysLess
      BY <1>1, <1>4, <2>3, ArticlesSay
    <3> QED BY <1>1, <1>4, <2>1, <2>2, <3>1, FewerComments
  <2>4. ASSUME NEW u \in Users, NEW a \in ArticleIds, CreateArticle(u, a) PROVE CommentsInv'
    <3>1. CASE UNCHANGED inboxVars
      BY <1>4, <2>4, <3>1, CreateTells
    <3>2. ASSUME NEW v \in Users, TellLike(v) PROVE FALSE
      BY <2>4, <3>2 DEF TellLike, CreateArticle, rows
    <3> QED BY <1>4, <3>1, <3>2 DEF ArticlesNext
  <2> QED BY <2>3, <2>4
<1>5. CASE InboxNext /\ UNCHANGED <<articlesVars, commentsVars>>
  <2>1. UNCHANGED <<article, act, used, comments, edits>> /\ Told' = Told
    BY <1>5, InboxStepKeeps DEF articlesVars, commentsVars, rows
  <2>2. TellsLikes' /\ SaysLess
    BY <1>1, <2>1 DEF TellsLikes, SaysLess, Says, Names
  <2> QED BY <1>1, <1>2, <2>1, <2>2, FewerComments
<1>6. ASSUME NEW e \in edits, SaveComment(e) PROVE CommentsInv'
  <2>1. /\ UNCHANGED <<article, act, used>> /\ Told' = Told /\ edits' \subseteq edits
        /\ comments' = [comments EXCEPT ![e.comment] =
                IF comments[e.comment] # None THEN comments[e.comment]
                ELSE [by |-> e.by, on |-> None, parent |-> None]]
    BY <1>6 DEF SaveComment, articlesVars, inboxVars, rows, Told
  <2>2. TellsLikes' /\ SaysLess
    BY <1>1, <2>1 DEF TellsLikes, SaysLess, Says, Names
  <2>3. [by |-> e.by, on |-> None, parent |-> None].on = None
    OBVIOUS
  <2>4. /\ comments' = [c \in CommentIds |-> comments'[c]]
        /\ \A c \in CommentIds : \/ comments'[c] \in {comments[c], None}
                                 \/ comments'[c].on = None /\ c \in used
    BY <1>1, <1>2, <2>1, <2>3
  <2> QED BY <1>1, <2>1, <2>2, <2>4, FewerComments
<1>7. ASSUME NEW u \in Users, NEW a \in ArticleIds, NEW p \in CommentIds \cup {None},
             BeginComment(u, a, p)
      PROVE  CommentsInv'
  <2>1. PICK r : r = [op |-> "comment", on |-> a, parent |-> p, author |-> Author(a)]
    OBVIOUS
  <2>2. /\ act' = [act EXCEPT ![u] = r] /\ article[a] # None
        /\ UNCHANGED <<article, used, comments, edits>> /\ Told' = Told
    BY <1>7, <2>1 DEF BeginComment, Begins, rows, commentsVars, inboxVars, Told
  <2>3. \A b, x : Names(r, b, x) => b = a /\ x = Author(a)
    BY <2>1 DEF Names
  <2>4. SaysLess
    BY <1>3, <2>2, <2>3, AuthorSaid
  <2>5. TellsLikes'
    BY <1>1, <2>1, <2>2, GoesKeeps
  <2> QED BY <1>1, <1>2, <2>2, <2>4, <2>5, FewerComments
<1>8. ASSUME NEW u \in Users, NEW c \in CommentIds, DeleteComment(u, c) \/ UpdateComment(u, c)
      PROVE  CommentsInv'
  <2>1. /\ act' = [act EXCEPT ![u] = Quiet] /\ UNCHANGED <<article, used>> /\ Told' = Told
    BY <1>8 DEF DeleteComment, UpdateComment, Begins, rows, inboxVars, Told
  <2>2. TellsLikes' /\ SaysLess
    BY <1>1, <1>3, <2>1, GoesKeeps, QuietNames DEF Quiet
  <2>3. /\ comments' = [d \in CommentIds |-> comments'[d]]
        /\ \A d \in CommentIds : comments'[d] \in {comments[d], None}
    BY <1>2, <1>8 DEF DeleteComment, UpdateComment, Gone
  <2>4. c \in used
    BY <1>8 DEF DeleteComment, UpdateComment, There, CommentsInv, GivenIds
  <2>5. \A e \in edits' : e.by \in Users /\ e.comment \in CommentIds \cap used'
    BY <1>1, <1>8, <2>1, <2>4 DEF DeleteComment, UpdateComment
  <2> QED BY <2>1, <2>2, <2>3, <2>5, FewerComments
<1> QED BY <1>4, <1>5, <1>6, <1>7, <1>8, CommitTells DEF CommentsNext

LEMMA CommentsAlways == Spec => []CommentsInv
<1>1. Init => CommentsInv
  BY CommentsInvInit DEF Init
<1>2. ViewsInv /\ CommentsInv /\ [Next]_siteVars => CommentsInv'
  <2>1. CommentsInv /\ UNCHANGED posts => CommentsInv'
    <3> SUFFICES ASSUME CommentsInv, UNCHANGED posts PROVE CommentsInv'
      OBVIOUS
    <3>1. UNCHANGED <<article, act, used, comments, edits>> /\ Told' = Told
      BY DEF posts, articlesVars, commentsVars, inboxVars, rows, Told
    <3>2. TellsLikes' /\ SaysLess
      BY <3>1 DEF CommentsInv, TellsLikes, SaysLess, Says, Names
    <3> QED BY <3>1, <3>2, FewerComments DEF CommentsInv, GivenIds
  <2>2. [Next]_siteVars => CommentsNext \/ UNCHANGED posts
    BY DEF Next, siteVars, People, SignUps, Posts, Browse, Chats, Pages, Queries
  <2> QED BY <2>1, <2>2, CommentsStep
<1> QED BY <1>1, <1>2, ViewsAlways, PTL DEF Spec

(* For any users, articles and comments: the article's author, and only    *)
(* she, has been told of every comment on the article that is no reply and *)
(* not her own, as every row and request that names the author of an       *)
(* article names the same one; and nobody else of any comment told to one  *)
(* (article.service.ts 193-207, 342-353, 428-452, notification.service.ts  *)
(* 36-46, 142-154, 279-285).                                               *)
THEOREM CommentsReachAuthors == Spec => []CommentsAreTold
<1>1. CommentsInv => CommentsAreTold
  <2> SUFFICES ASSUME CommentsInv, NEW c \in There, NEW a \in ArticleIds,
                      comments[c].on = a, comments[c].parent = None,
                      article[a] # None, article[a].author # None
               PROVE  ToldOf(c) = {article[a].author} \ {comments[c].by}
    BY DEF CommentsInv, CommentsAreTold
  <2>1. PICK w : Agree(a, w)
    BY DEF CommentsInv
  <2>2. article[a].author = w
    BY <2>1 DEF Agree, Says
  <2> QED BY <2>1, <2>2 DEF Agree
<1> QED BY <1>1, CommentsAlways, PTL

-----------------------------------------------------------------------------
(* Chat histories: ids, by which a page begins, and times, by which it is   *)
(* sorted, agree except within a millisecond.                               *)

Reader == [state : {"closed", "more", "read"}, cursor : 1 .. Top,
           start : SUBSET Ids, shown : [Ids -> Nat]]

HistoryType ==
    /\ sent \in 0 .. MaxSent
    /\ clock \in Nat
    /\ at \in [Ids -> Nat]
    /\ kept \subseteq 1 .. sent
    /\ page \in Reader

TimesFollowIds ==
    /\ \A m \in 1 .. sent : at[m] <= clock
    /\ \A m, n \in 1 .. sent : m <= n => at[m] <= at[n]

HistoryInv ==
    /\ HistoryType
    /\ TimesFollowIds
    /\ page.start \subseteq kept
    /\ HistoryComplete

USE ChatHistoryAssumption DEF Ids, Top

\* The four parts of the reader, changed one or two at a time.
LEMMA ClosedReader ==
    /\ Closed \in Reader
    /\ Closed.state = "closed" /\ Closed.start = {}
BY DEF Closed, Reader

LEMMA HistoryInvInit == HistoryInit => HistoryInv
<1> SUFFICES ASSUME HistoryInit PROVE HistoryInv
  OBVIOUS
<1>1. HistoryType
  BY ClosedReader DEF HistoryInit, HistoryType
<1>2. TimesFollowIds /\ page.start \subseteq kept /\ HistoryComplete
  BY ClosedReader DEF HistoryInit, TimesFollowIds, HistoryComplete
<1> QED BY <1>1, <1>2 DEF HistoryInv

LEMMA SendKeeps ==
    ASSUME HistoryInv, NEW later \in {0, 1}, SendMessage(later)
    PROVE  HistoryInv'
<1>1. /\ sent \in Nat /\ sent < MaxSent /\ sent' = sent + 1 /\ clock' \in Nat
      /\ clock \in Nat /\ clock <= clock'
      /\ at \in [Ids -> Nat] /\ at' = [at EXCEPT ![sent'] = clock']
      /\ UNCHANGED <<kept, page>>
  BY DEF SendMessage, HistoryInv, HistoryType
<1>2. /\ at'[sent'] = clock' /\ at' \in [Ids -> Nat]
      /\ \A m \in 1 .. sent : at'[m] = at[m]
  BY <1>1
<1>3. HistoryType'
  BY <1>1, <1>2 DEF HistoryInv, HistoryType
<1>4. TimesFollowIds'
  <2>1. \A m \in 1 .. sent' : m \in 1 .. sent \/ m = sent'
    BY <1>1
  <2>2. \A m \in 1 .. sent : at'[m] <= clock'
    BY <1>1, <1>2 DEF HistoryInv, TimesFollowIds
  <2>3. \A m \in 1 .. sent' : at'[m] <= clock'
    BY <1>1, <1>2, <2>1, <2>2
  <2>4. ASSUME NEW m \in 1 .. sent', NEW n \in 1 .. sent', m <= n PROVE at'[m] <= at'[n]
    <3>1. CASE n = sent'
      BY <1>2, <2>3, <3>1
    <3>2. CASE n # sent'
      <4>1. m \in 1 .. sent /\ n \in 1 .. sent
        BY <1>1, <2>4, <3>2
      <4> QED BY <1>2, <2>4, <4>1 DEF HistoryInv, TimesFollowIds
    <3> QED BY <3>1, <3>2
  <2> QED BY <2>3, <2>4 DEF TimesFollowIds
<1>5. HistoryComplete'
  <2> SUFFICES ASSUME NEW m \in page.start, Alone(m)'
               PROVE  page.shown[m] = IF page.state = "read" \/ m >= page.cursor THEN 1 ELSE 0
    BY <1>1 DEF HistoryComplete
  <2>1. m \in 1 .. sent
    BY DEF HistoryInv, HistoryType
  <2>2. \A n \in 1 .. sent : n \in 1 .. sent' /\ at'[n] = at[n]
    BY <1>1, <1>2
  <2>3. Alone(m)
    BY <2>1, <2>2 DEF Alone
  <2> QED BY <2>3 DEF HistoryInv, HistoryComplete
<1> QED BY <1>1, <1>3, <1>4, <1>5 DEF HistoryInv

\* A step of the reader: the messages stay what they are.
LEMMA ReaderKeeps ==
    ASSUME HistoryInv, UNCHANGED <<sent, at, kept, clock>>,
           page' \in Reader, page'.start \subseteq kept,
           \A m \in page'.start : Alone(m) =>
                page'.shown[m] = IF page'.state = "read" \/ m >= page'.cursor THEN 1 ELSE 0
    PROVE  HistoryInv'
BY DEF HistoryInv, HistoryType, TimesFollowIds, HistoryComplete, Alone

LEMMA FullPageKeeps ==
    ASSUME HistoryInv, NEW d \in SUBSET Older, NEW c \in d, FullPage(d, c)
    PROVE  HistoryInv'
<1>1. page \in Reader /\ kept \subseteq 1 .. sent /\ sent \in Nat /\ sent <= MaxSent
      /\ page.cursor \in 1 .. Top /\ page.start \subseteq kept /\ page.shown \in [Ids -> Nat]
  BY DEF HistoryInv, HistoryType, Reader
<1> DEFINE shown == [m \in Ids |-> IF m \in d THEN page.shown[m] + 1 ELSE page.shown[m]]
<1>2. /\ page.state = "more" /\ UNCHANGED <<sent, at, kept, clock>>
      /\ page' = [page EXCEPT !.cursor = c, !.shown = shown]
      /\ Newest(d, Older) /\ c \in Oldest(d)
  BY DEF FullPage
<1>3. c \in kept /\ c < page.cursor /\ c \in 1 .. sent /\ c \in 1 .. Top
  <2>1. c \in kept /\ c < page.cursor
    BY DEF Older
  <2>2. c \in 1 .. sent
    BY <1>1, <2>1
  <2>3. MaxSent \in Nat
    OBVIOUS
  <2> QED BY <1>1, <2>1, <2>2, <2>3
<1>4. shown \in [Ids -> Nat]
  BY <1>1
<1>5. \A m \in Ids : shown[m] = IF m \in d THEN page.shown[m] + 1 ELSE page.shown[m]
  OBVIOUS
<1> HIDE DEF shown
<1>6. /\ page' \in Reader /\ page'.cursor = c /\ page'.shown = shown
      /\ page'.start = page.start /\ page'.state = "more"
  BY <1>1, <1>2, <1>3, <1>4 DEF Reader
<1>7. ASSUME NEW m \in page.start, Alone(m)
      PROVE  shown[m] = IF m >= c THEN 1 ELSE 0
  <2>1. m \in kept /\ m \in 1 .. sent /\ m \in Ids
    <3>1. m \in kept
      BY <1>1, <1>7
    <3>2. \A n \in 1 .. sent : n \in Ids
      BY <1>1
    <3> QED BY <1>1, <3>1, <3>2
  <2>2. page.shown[m] = IF m >= page.cursor THEN 1 ELSE 0
    BY <1>2, <1>7 DEF HistoryInv, HistoryComplete
  <2>3. CASE m >= page.cursor
    <3>1. m \notin d /\ m >= c
      BY <1>1, <1>3, <2>1, <2>3 DEF Older
    <3> QED BY <1>5, <2>1, <2>2, <2>3, <3>1
  <2>4. CASE ~(m >= page.cursor)
    <3>1. m \in Older
      BY <1>1, <2>1, <2>4 DEF Older
    <3>2. at[m] = at[c] => m = c
      BY <1>3, <1>7 DEF Alone
    <3>3. /\ at[m] \in Nat /\ at[c] \in Nat
          /\ m <= c => at[m] <= at[c]
          /\ c <= m => at[c] <= at[m]
      BY <1>1, <1>3, <2>1 DEF HistoryInv, HistoryType, TimesFollowIds
    <3>4. CASE m \in d
      <4>1. at[c] <= at[m]
        BY <1>2, <3>4 DEF Oldest
      <4>2. m >= c
        BY <1>3, <2>1, <3>2, <3>3, <4>1
      <4> QED BY <1>5, <2>1, <2>2, <2>4, <3>4, <4>2
    <3>5. CASE m \notin d
      <4>1. at[m] <= at[c]
        BY <1>2, <3>1, <3>5 DEF Newest
      <4>2. ~(m >= c)
        BY <1>3, <2>1, <3>2, <3>3, <3>5, <4>1
      <4> QED BY <1>5, <2>1, <2>2, <2>4, <3>5, <4>2
    <3> QED BY <3>4, <3>5
  <2> QED BY <2>3, <2>4
<1> QED BY <1>1, <1>2, <1>6, <1>7, ReaderKeeps

LEMMA LastPageKeeps ==
    ASSUME HistoryInv, LastPage
    PROVE  HistoryInv'
<1>1. page \in Reader /\ kept \subseteq 1 .. sent /\ sent \in Nat /\ sent <= MaxSent
      /\ page.cursor \in 1 .. Top /\ page.start \subseteq kept /\ page.shown \in [Ids -> Nat]
  BY DEF HistoryInv, HistoryType, Reader
<1> DEFINE shown == [m \in Ids |-> IF m \in Older THEN page.shown[m] + 1 ELSE page.shown[m]]
<1>2. /\ page.state = "more" /\ UNCHANGED <<sent, at, kept, clock>>
      /\ page' = [page EXCEPT !.state = "read", !.shown = shown]
  BY DEF LastPage
<1>3. shown \in [Ids -> Nat]
  BY <1>1
<1>4. \A m \in Ids : shown[m] = IF m \in Older THEN page.shown[m] + 1 ELSE page.shown[m]
  OBVIOUS
<1> HIDE DEF shown
<1>5. page' \in Reader /\ page'.shown = shown /\ page'.start = page.start /\ page'.state = "read"
  BY <1>1, <1>2, <1>3 DEF Reader
<1>6. ASSUME NEW m \in page.start, Alone(m) PROVE shown[m] = 1
  <2>1. m \in kept /\ m \in Ids /\ page.shown[m] = IF m >= page.cursor THEN 1 ELSE 0
    BY <1>1, <1>2, <1>6 DEF HistoryInv, HistoryComplete
  <2>2. m \in Older <=> ~(m >= page.cursor)
    BY <1>1, <2>1 DEF Older
  <2> QED BY <1>4, <2>1, <2>2
<1> QED BY <1>1, <1>2, <1>5, <1>6, ReaderKeeps

LEMMA HistoryStep == HistoryInv /\ HistoryNext => HistoryInv'
<1> SUFFICES ASSUME HistoryInv, HistoryNext PROVE HistoryInv'
  OBVIOUS
<1>1. CASE OpenRoom
  <2>1. page' = [Closed EXCEPT !.state = "more", !.start = kept]
        /\ UNCHANGED <<sent, at, kept, clock>> /\ kept \subseteq 1 .. sent /\ sent <= MaxSent
        /\ sent \in Nat
    BY <1>1 DEF OpenRoom, HistoryInv, HistoryType
  <2>2. page' = [state |-> "more", cursor |-> Top, start |-> kept, shown |-> [m \in Ids |-> 0]]
    BY <2>1 DEF Closed
  <2>3. kept \subseteq Ids
    BY <2>1
  <2>4. page' \in Reader /\ page'.start = kept /\ page'.state = "more" /\ page'.cursor = Top
        /\ \A m \in Ids : page'.shown[m] = 0
    BY <2>2, <2>3 DEF Reader
  <2>5. \A m \in kept : ~(m >= Top)
    BY <2>3
  <2> QED BY <2>1, <2>3, <2>4, <2>5, ReaderKeeps
<1>2. CASE CloseRoom
  BY <1>2, ClosedReader, ReaderKeeps DEF CloseRoom
<1>3. ASSUME NEW m \in Ids, StoreMessage(m) PROVE HistoryInv'
  BY <1>3 DEF StoreMessage, HistoryInv, HistoryType, TimesFollowIds, HistoryComplete, Alone
<1> QED BY <1>1, <1>2, <1>3, SendKeeps, FullPageKeeps, LastPageKeeps DEF HistoryNext

LEMMA HistoryAlways == Spec => []HistoryInv
<1>1. Init => HistoryInv
  BY HistoryInvInit DEF Init
<1>2. HistoryInv /\ [Next]_siteVars => HistoryInv'
  <2>1. HistoryInv /\ UNCHANGED historyVars => HistoryInv'
    BY DEF HistoryInv, HistoryType, TimesFollowIds, HistoryComplete, Alone, historyVars
  <2>2. [Next]_siteVars => HistoryNext \/ UNCHANGED historyVars
    BY DEF Next, siteVars, People, SignUps, Posts, Browse, Chats, Pages, Queries
  <2> QED BY <2>1, <2>2, HistoryStep
<1> QED BY <1>1, <1>2, PTL DEF Spec

(* Whatever is sent and stored while somebody turns the pages of a         *)
(* history, of any length and with any page size, she sees each message    *)
(* there was once, unless another has its createdAt (chat.service.ts       *)
(* 105-125).                                                               *)
THEOREM HistoryIsShown == Spec => []HistoryComplete
<1>1. HistoryInv => HistoryComplete
  BY DEF HistoryInv
<1> QED BY <1>1, HistoryAlways, PTL

HIDE ChatHistoryAssumption DEF Ids, Top
HIDE CommentsAssumption
HIDE DevicesAssumption
HIDE EmailCodesAssumption

-----------------------------------------------------------------------------
(* The connection pool: however large it is and however many requests      *)
(* there are, only the handlers that ask for a second connection stop it.  *)

PoolType ==
    /\ lent \in [Connections -> Requests \cup {NoOne}]
    /\ queued \subseteq Requests
    /\ handler \in [Requests -> Handlers \cup {"none"}]
    /\ outside \in [Requests -> Nat]

\* Who waits holds at most one connection, and one only in a nested handler.
PoolInv ==
    /\ PoolType
    /\ queued # {} => HeldBy(NoOne) = {}
    /\ \A r \in Requests : handler[r] = "none" => r \notin queued /\ HeldBy(r) = {}
    /\ \A r \in Requests : outside[r] > 0 => r \in Nested
    /\ \A r \in queued : HeldBy(r) # {} => r \in Nested /\ HoldsOne(r)

USE PoolAssumption

\* What the table says of each handler.
LEMMA OutsideFacts ==
    \A h \in Handlers :
        /\ Outside[h] \in Nat
        /\ Outside[h] > 0 => h \in {"refundPayment", "approveMentor", "updateReservationStatus"}
        /\ h # "none"
BY DEF Handlers, Outside

LEMMA PoolInvInit == PoolInit => PoolInv
BY DEF PoolInit, PoolInv, PoolType, HeldBy

\* Obtain and GiveBack change who holds what, for one request at most.
LEMMA ObtainKeeps ==
    ASSUME PoolType, NEW r \in Requests, r \notin queued,
           queued # {} => HeldBy(NoOne) = {}, Obtain(r)
    PROVE  /\ lent' \in [Connections -> Requests \cup {NoOne}]
           /\ queued' \subseteq Requests
           /\ queued \subseteq queued' /\ queued' \subseteq queued \cup {r}
           /\ queued' # {} => HeldBy(NoOne)' = {}
           /\ \A q \in Requests \ {r} : HeldBy(q)' = HeldBy(q)
           /\ r \in queued' => HeldBy(r)' = HeldBy(r)
<1>1. CASE \E c \in HeldBy(NoOne) : lent' = [lent EXCEPT ![c] = r] /\ UNCHANGED queued
  <2>1. PICK c \in HeldBy(NoOne) : lent' = [lent EXCEPT ![c] = r] /\ UNCHANGED queued
    BY <1>1
  <2>2. queued = {}
    BY <2>1
  <2> QED BY <2>1, <2>2 DEF HeldBy, PoolType
<1>2. CASE HeldBy(NoOne) = {} /\ queued' = queued \cup {r} /\ UNCHANGED lent
  BY <1>2 DEF HeldBy, PoolType
<1> QED BY <1>1, <1>2 DEF Obtain

LEMMA GiveBackKeeps ==
    ASSUME PoolType, NEW r \in Requests, r \notin queued, NEW c \in HeldBy(r),
           queued # {} => HeldBy(NoOne) = {}, GiveBack(c)
    PROVE  /\ lent' \in [Connections -> Requests \cup {NoOne}]
           /\ queued' \subseteq queued
           /\ queued' # {} => HeldBy(NoOne)' = {}
           /\ HeldBy(r)' = HeldBy(r) \ {c}
           /\ \A q \in Requests \ {r} : HeldBy(q)' # HeldBy(q) => q \in queued /\ q \notin queued'
<1>1. CASE queued = {} /\ lent' = [lent EXCEPT ![c] = NoOne] /\ UNCHANGED queued
  BY <1>1 DEF HeldBy, PoolType
<1>2. CASE \E w \in queued : lent' = [lent EXCEPT ![c] = w] /\ queued' = queued \ {w}
  <2>1. PICK w \in queued : lent' = [lent EXCEPT ![c] = w] /\ queued' = queued \ {w}
    BY <1>2
  <2>2. w # r /\ w \in Requests
    BY DEF PoolType
  <2> QED BY <2>1, <2>2 DEF HeldBy, PoolType
<1> QED BY <1>1, <1>2 DEF GiveBack

LEMMA PoolStep == PoolInv /\ PoolNext => PoolInv'
<1> SUFFICES ASSUME PoolInv, PoolNext PROVE PoolInv'
  OBVIOUS
<1> PICK r \in Requests :
        \/ \E h \in Handlers : StartHandler(r, h)
        \/ CallOutside(r) \/ CallEnds(r) \/ EndHandler(r)
  BY DEF PoolNext
<1>1. ASSUME NEW h \in Handlers, StartHandler(r, h) PROVE PoolInv'
  <2>1. handler[r] = "none" /\ r \notin queued /\ HeldBy(r) = {} /\ Obtain(r)
        /\ handler' = [handler EXCEPT ![r] = h]
        /\ outside' = [outside EXCEPT ![r] = Outside[h]]
    BY <1>1 DEF StartHandler, PoolInv
  <2>2. PoolType' /\ (queued' # {} => HeldBy(NoOne)' = {})
    BY <2>1, ObtainKeeps, OutsideFacts DEF PoolInv, PoolType
  <2>3. \A q \in Requests : handler'[q] = "none" => q \notin queued' /\ HeldBy(q)' = {}
    BY <2>1, ObtainKeeps, OutsideFacts DEF PoolInv, PoolType
  <2>4. \A q \in Requests : outside'[q] > 0 => q \in Nested'
    BY <2>1, OutsideFacts DEF PoolInv, PoolType, Nested
  <2>5. ASSUME NEW q \in queued', HeldBy(q)' # {} PROVE q \in Nested' /\ HoldsOne(q)'
    <3>1. q # r
      BY <2>1, <2>5, ObtainKeeps DEF PoolInv
    <3>2. q \in queued /\ q \in Requests /\ HeldBy(q)' = HeldBy(q)
      BY <2>1, <3>1, ObtainKeeps DEF PoolInv, PoolType
    <3> QED BY <2>1, <2>5, <3>1, <3>2 DEF PoolInv, PoolType, Nested, HoldsOne
  <2> QED BY <2>2, <2>3, <2>4, <2>5 DEF PoolInv
<1>2. CASE CallOutside(r)
  <2>1. /\ r \notin queued /\ HoldsOne(r) /\ outside[r] > 0 /\ Obtain(r)
        /\ outside' = [outside EXCEPT ![r] = @ - 1] /\ handler' = handler
    BY <1>2 DEF CallOutside
  <2>2. PoolType' /\ (queued' # {} => HeldBy(NoOne)' = {})
    BY <2>1, ObtainKeeps DEF PoolInv, PoolType
  <2>3. r \in Nested /\ handler[r] # "none"
    BY <2>1 DEF PoolInv, Nested
  <2>4. Nested' = Nested
    BY <2>1 DEF Nested
  <2>5. \A q \in Requests : handler'[q] = "none" => q \notin queued' /\ HeldBy(q)' = {}
    BY <2>1, <2>3, ObtainKeeps DEF PoolInv, PoolType
  <2>6. \A q \in Requests : outside'[q] > 0 => q \in Nested'
    BY <2>1, <2>3, <2>4 DEF PoolInv, PoolType
  <2>7. ASSUME NEW q \in queued', HeldBy(q)' # {} PROVE q \in Nested' /\ HoldsOne(q)'
    <3>1. HeldBy(q)' = HeldBy(q)
      BY <2>1, ObtainKeeps DEF PoolInv, PoolType
    <3>2. CASE q = r
      BY <2>1, <2>3, <2>4, <3>1, <3>2 DEF HoldsOne
    <3>3. CASE q # r
      BY <2>1, <2>4, <2>7, <3>1, <3>3, ObtainKeeps DEF PoolInv, HoldsOne
    <3> QED BY <3>2, <3>3
  <2> QED BY <2>2, <2>5, <2>6, <2>7 DEF PoolInv
<1>3. ASSUME NEW c \in HeldBy(r), r \notin queued, GiveBack(c),
             \/ handler' = handler /\ outside' = outside
             \/ /\ handler' = [handler EXCEPT ![r] = "none"]
                /\ outside' = [outside EXCEPT ![r] = 0]
                /\ HeldBy(r) = {c}
      PROVE  PoolInv'
  <2>1. PoolType' /\ queued' \subseteq queued /\ (queued' # {} => HeldBy(NoOne)' = {})
    BY <1>3, GiveBackKeeps DEF PoolInv, PoolType
  <2>2. HeldBy(r)' = HeldBy(r) \ {c} /\ r \notin queued'
    BY <1>3, GiveBackKeeps DEF PoolInv, PoolType
  <2>3. \A q \in Requests \ {r} :
            /\ HeldBy(q)' # HeldBy(q) => q \in queued /\ q \notin queued'
            /\ handler'[q] = handler[q] /\ outside'[q] = outside[q]
    BY <1>3, GiveBackKeeps DEF PoolInv, PoolType
  <2>4. \A q \in Requests : handler'[q] = "none" => q \notin queued' /\ HeldBy(q)' = {}
    BY <1>3, <2>1, <2>2, <2>3 DEF PoolInv, PoolType
  <2>5. \A q \in Requests : outside'[q] > 0 => q \in Nested'
    BY <1>3, <2>3 DEF PoolInv, PoolType, Nested
  <2>6. ASSUME NEW q \in queued', HeldBy(q)' # {} PROVE q \in Nested' /\ HoldsOne(q)'
    <3>1. q \in Requests \ {r} /\ q \in queued
      BY <2>1, <2>2 DEF PoolInv, PoolType
    <3>2. HeldBy(q)' = HeldBy(q) /\ handler'[q] = handler[q]
      BY <2>3, <3>1
    <3> QED BY <2>6, <3>1, <3>2 DEF PoolInv, Nested, HoldsOne
  <2> QED BY <2>1, <2>4, <2>5, <2>6 DEF PoolInv
<1>4. CASE CallEnds(r)
  BY <1>3, <1>4 DEF CallEnds
<1>5. CASE EndHandler(r)
  <2>1. PICK c \in Connections : HeldBy(r) = {c}
    BY <1>5 DEF EndHandler, HoldsOne
  <2> QED BY <1>3, <1>5, <2>1 DEF EndHandler
<1> QED BY <1>1, <1>2, <1>4, <1>5

\* If every connection is with someone who waits, each is with another one.
LEMMA PoolInvMeans == PoolInv => SomeoneReturns
<1> SUFFICES ASSUME PoolInv, queued # {}, Cardinality(Nested) < Cardinality(Connections),
                    \A c \in Connections : lent[c] \notin Requests \ queued
             PROVE  FALSE
  BY DEF SomeoneReturns
<1>1. \A c \in Connections : lent[c] \in queued
  BY DEF PoolInv, PoolType, HeldBy
<1>2. \A c \in Connections : lent[c] \in Nested /\ HoldsOne(lent[c])
  BY <1>1 DEF PoolInv, HeldBy
<1>3. \A c, d \in Connections : lent[c] = lent[d] => c = d
  BY <1>2 DEF HoldsOne, HeldBy
<1>4. IsFiniteSet(Nested)
  BY FS_Subset DEF Nested
<1>5. lent \in Injection(Connections, Nested)
  BY <1>2, <1>3 DEF PoolInv, PoolType, Injection, IsInjective
<1>6. Cardinality(Connections) <= Cardinality(Nested)
  BY <1>4, <1>5, FS_Injection, FS_CardinalityType DEF ExistsInjection
<1> QED BY <1>4, <1>6, FS_CardinalityType

LEMMA PoolAlways == Spec => []PoolInv
<1>1. Init => PoolInv
  BY PoolInvInit DEF Init
<1>2. PoolInv /\ [Next]_siteVars => PoolInv'
  <2>1. PoolInv /\ UNCHANGED poolVars => PoolInv'
    BY DEF PoolInv, PoolType, poolVars, HeldBy, HoldsOne, Nested
  <2>2. [Next]_siteVars => PoolNext \/ UNCHANGED poolVars
    BY DEF Next, siteVars, People, SignUps, Posts, Browse, Chats, Pages, Queries
  <2> QED BY <2>1, <2>2, PoolStep
<1> QED BY <1>1, <1>2, PTL DEF Spec

(* For any pool and any number of requests: while fewer nested handlers    *)
(* run than there are connections, a waiting request has one ahead of it   *)
(* that will give its connection back (app.module.ts 65).                  *)
THEOREM PoolServes == Spec => []SomeoneReturns
BY PoolAlways, PoolInvMeans, PTL

-----------------------------------------------------------------------------
(* Pages: where the rows of a list have places of their own, each has its  *)
(* rank, and loses at most one when another row leaves or moves            *)

HIDE PoolAssumption
USE ListsAssumption

Rank(p, s, id) == Cardinality({j \in s : p[j] < p[id]})

Ordered(p, s) ==
    /\ \A i \in s : p[i] \in Int
    /\ \A i, j \in s : p[i] = p[j] => i = j

LEMMA RankType ==
    ASSUME NEW s \in SUBSET RowIds, NEW p, NEW id
    PROVE  /\ IsFiniteSet(s) /\ Cardinality(s) \in Nat
           /\ IsFiniteSet({j \in s : p[j] < p[id]}) /\ Rank(p, s, id) \in Nat
<1>1. IsFiniteSet(RowIds)
  BY FS_Interval DEF RowIds
<1>2. IsFiniteSet(s) /\ IsFiniteSet({j \in s : p[j] < p[id]})
  BY <1>1, FS_Subset
<1> QED BY <1>2, FS_CardinalityType DEF Rank

LEMMA RankGrows ==
    ASSUME NEW t \in SUBSET RowIds, NEW s \in SUBSET t, NEW p, NEW id
    PROVE  Rank(p, s, id) <= Rank(p, t, id)
<1>1. {j \in s : p[j] < p[id]} \subseteq {j \in t : p[j] < p[id]}
  OBVIOUS
<1> QED BY <1>1, RankType, FS_Subset DEF Rank

LEMMA RankOfRest ==
    ASSUME NEW s \in SUBSET RowIds, NEW x, NEW p, NEW id
    PROVE  Rank(p, s, id) - 1 <= Rank(p, s \ {x}, id)
<1> DEFINE before == {j \in s : p[j] < p[id]}
<1>1. {j \in s \ {x} : p[j] < p[id]} = before \ {x}
  OBVIOUS
<1>2. IsFiniteSet(before) /\ Cardinality(before) \in Nat
  BY RankType DEF Rank
<1> HIDE DEF before
<1>3. Cardinality(before \ {x}) >= Cardinality(before) - 1
  BY <1>2, FS_RemoveElement
<1> QED BY <1>1, <1>3 DEF Rank, before

\* Rows that keep their places keep their ranks among themselves.
LEMMA RankSame ==
    ASSUME NEW s, NEW p, NEW q, \A j \in s : q[j] = p[j], NEW id \in s
    PROVE  Rank(q, s, id) = Rank(p, s, id)
<1>1. {j \in s : q[j] < q[id]} = {j \in s : p[j] < p[id]}
  OBVIOUS
<1> QED BY <1>1 DEF Rank

\* The order is total: of two rows one has the other ahead, with all before.
LEMMA RankOrders ==
    ASSUME NEW s \in SUBSET RowIds, NEW p, Ordered(p, s),
           NEW i \in s, NEW j \in s, p[i] < p[j]
    PROVE  Rank(p, s, i) < Rank(p, s, j)
<1> DEFINE a == {k \in s : p[k] < p[i]}
           b == {k \in s : p[k] < p[j]}
<1>1. \A k \in s : p[k] \in Int
  BY DEF Ordered
<1>2. a \subseteq b /\ i \in b /\ i \notin a
  BY <1>1
<1>3. IsFiniteSet(b) /\ Cardinality(a) \in Nat /\ Cardinality(b) \in Nat
  BY RankType DEF Rank
<1> HIDE DEF a, b
<1>4. Cardinality(a) <= Cardinality(b) /\ Cardinality(a) # Cardinality(b)
  BY <1>2, <1>3, FS_Subset
<1>5. Cardinality(a) < Cardinality(b)
  BY <1>3, <1>4
<1> QED BY <1>5 DEF Rank, a, b

LEMMA RankTellsApart ==
    ASSUME NEW s \in SUBSET RowIds, NEW p, Ordered(p, s),
           NEW i \in s, NEW j \in s, Rank(p, s, i) = Rank(p, s, j)
    PROVE  i = j
<1>1. p[i] \in Int /\ p[j] \in Int /\ (i # j => p[i] # p[j])
  BY DEF Ordered
<1>2. i # j => p[i] < p[j] \/ p[j] < p[i]
  BY <1>1
<1>3. Rank(p, s, i) \in Nat /\ Rank(p, s, j) \in Nat
  BY RankType
<1> QED BY <1>2, <1>3, RankOrders

LEMMA RankBelowCount ==
    ASSUME NEW s \in SUBSET RowIds, NEW p, Ordered(p, s), NEW i \in s
    PROVE  Rank(p, s, i) < Cardinality(s)
<1> DEFINE a == {k \in s : p[k] < p[i]}
<1>1. p[i] \in Int
  BY DEF Ordered
<1>2. a \subseteq s /\ i \notin a
  BY <1>1
<1>3. IsFiniteSet(s) /\ Cardinality(a) \in Nat /\ Cardinality(s) \in Nat
  BY RankType DEF Rank
<1> HIDE DEF a
<1>4. Cardinality(a) <= Cardinality(s) /\ Cardinality(a) # Cardinality(s)
  BY <1>2, <1>3, FS_Subset
<1>5. Cardinality(a) < Cardinality(s)
  BY <1>3, <1>4
<1> QED BY <1>5 DEF Rank, a

\* Every place up to the number of rows is some row's.
LEMMA RankFills ==
    ASSUME NEW s \in SUBSET RowIds, NEW p, Ordered(p, s), NEW m \in Nat, m < Cardinality(s)
    PROVE  \E i \in s : Rank(p, s, i) = m
<1> DEFINE n == Cardinality(s)
           places == 0 .. n - 1
           f == [i \in s |-> Rank(p, s, i)]
<1>1. n \in Nat /\ IsFiniteSet(s)
  BY RankType
<1>2. IsFiniteSet(places) /\ Cardinality(places) = n
  <2> HIDE DEF n
  <2>1. 0 \in Int /\ n - 1 \in Int /\ (IF 0 > n - 1 THEN 0 ELSE n - 1 - 0 + 1) = n
    BY <1>1
  <2> QED BY <2>1, FS_Interval
<1>3. ASSUME NEW i \in s PROVE Rank(p, s, i) \in places
  <2>1. Rank(p, s, i) \in Nat /\ Rank(p, s, i) < n
    BY RankType, RankBelowCount
  <2> HIDE DEF n
  <2> QED BY <1>1, <2>1
<1>4. f \in Injection(s, places)
  <2>1. \A i \in s : f[i] \in places
    BY <1>3
  <2>2. \A i, j \in s : f[i] = f[j] => i = j
    BY RankTellsApart
  <2>3. f = [i \in s |-> f[i]]
    OBVIOUS
  <2> HIDE DEF f, places
  <2> QED BY <2>1, <2>2, <2>3 DEF Injection, IsInjective
<1>5. f \in Surjection(s, places)
  BY <1>2, <1>4, FS_Injection
<1>6. m \in places
  BY <1>1
<1> QED BY <1>5, <1>6 DEF Surjection

PageOf(p, s, n) == {i \in s : Rank(p, s, i) \in (n - 1) * PageSize .. n * PageSize - 1}

\* The places of page n, as many as it holds.
LEMMA PagePlaces ==
    ASSUME NEW n \in Nat \ {0}
    PROVE  /\ n * PageSize \in Nat /\ (n - 1) * PageSize \in Nat
           /\ (n - 1) * PageSize = n * PageSize - PageSize
           /\ IsFiniteSet((n - 1) * PageSize .. n * PageSize - 1)
           /\ Cardinality((n - 1) * PageSize .. n * PageSize - 1) = PageSize
<1>1. PageSize \in Nat \ {0} /\ n * PageSize \in Nat /\ (n - 1) * PageSize \in Nat
      /\ (n - 1) * PageSize = n * PageSize - PageSize
  OBVIOUS
<1> DEFINE lo == (n - 1) * PageSize
           hi == n * PageSize - 1
<1>2. lo \in Int /\ hi \in Int /\ hi - lo + 1 = PageSize /\ ~(lo > hi)
  BY <1>1
<1> HIDE DEF lo, hi
<1>3. IsFiniteSet(lo .. hi) /\ Cardinality(lo .. hi) = PageSize
  BY <1>2, FS_Interval
<1> QED BY <1>1, <1>3 DEF lo, hi

\* A page before some row is full.
LEMMA PageIsFull ==
    ASSUME NEW s \in SUBSET RowIds, NEW p, Ordered(p, s), NEW n \in Nat \ {0}, NEW i \in s,
           Rank(p, s, i) >= n * PageSize
    PROVE  Cardinality(PageOf(p, s, n)) = PageSize
<1> DEFINE lo == (n - 1) * PageSize
           hi == n * PageSize - 1
           g == [m \in lo .. hi |-> CHOOSE j \in s : Rank(p, s, j) = m]
           f == [j \in PageOf(p, s, n) |-> Rank(p, s, j)]
<1>1. lo \in Nat /\ n * PageSize \in Nat /\ IsFiniteSet(lo .. hi)
      /\ Cardinality(lo .. hi) = PageSize
  BY PagePlaces
<1>2. Cardinality(s) \in Nat /\ Rank(p, s, i) < Cardinality(s) /\ Rank(p, s, i) \in Nat
  BY RankType, RankBelowCount
<1>3. ASSUME NEW m \in lo .. hi PROVE g[m] \in s /\ Rank(p, s, g[m]) = m
  <2>1. m \in Nat /\ m < Cardinality(s)
    BY <1>1, <1>2
  <2>2. \E j \in s : Rank(p, s, j) = m
    BY <2>1, RankFills
  <2> QED BY <2>2
<1>4. PageOf(p, s, n) \in SUBSET RowIds /\ PageOf(p, s, n) \subseteq s
  BY DEF PageOf
<1>5. IsFiniteSet(PageOf(p, s, n)) /\ Cardinality(PageOf(p, s, n)) \in Nat
  BY <1>4, RankType
<1>6. g \in Injection(lo .. hi, PageOf(p, s, n))
  <2>1. \A m \in lo .. hi : g[m] \in PageOf(p, s, n)
    BY <1>3 DEF PageOf
  <2>2. \A m, k \in lo .. hi : g[m] = g[k] => m = k
    BY <1>3
  <2>3. g = [m \in lo .. hi |-> g[m]]
    OBVIOUS
  <2> HIDE DEF g, lo, hi
  <2> QED BY <2>1, <2>2, <2>3 DEF Injection, IsInjective
<1>7. f \in Injection(PageOf(p, s, n), lo .. hi)
  <2>1. \A j \in PageOf(p, s, n) : f[j] \in lo .. hi
    BY DEF PageOf
  <2>2. \A j, k \in PageOf(p, s, n) : f[j] = f[k] => j = k
    BY <1>4, RankTellsApart
  <2>3. f = [j \in PageOf(p, s, n) |-> f[j]]
    OBVIOUS
  <2> HIDE DEF f, lo, hi
  <2> QED BY <2>1, <2>2, <2>3 DEF Injection, IsInjective
<1> HIDE DEF f, g, lo, hi
<1>8. /\ Cardinality(lo .. hi) <= Cardinality(PageOf(p, s, n))
      /\ Cardinality(PageOf(p, s, n)) <= Cardinality(lo .. hi)
  BY <1>1, <1>5, <1>6, <1>7, FS_Injection
<1>9. PageSize \in Nat
  OBVIOUS
<1> QED BY <1>1, <1>5, <1>8, <1>9

-----------------------------------------------------------------------------
States == {"away", "ids", "rows", "count", "done"}
ReaderType ==
    [state : States, page : Nat \ {0}, ids : SUBSET RowIds, shown : SUBSET RowIds,
     start : SUBSET RowIds, moved : SUBSET (Nat \X RowIds), torn : BOOLEAN]

Row(r) == r \in [kind : {r.kind}, open : {r.open}, place : Int]

ListType ==
    /\ table = [id \in RowIds |-> table[id]]
    /\ \A id \in RowIds : Present(id) => Row(table[id])
    /\ query = Absent => \A id \in RowIds : ~Present(id)
    /\ query # Absent => query.sort \in {"latest", "oldest", "field"}
    /\ created \in Nat /\ changes \in Nat
    /\ \A id \in RowIds : id > created => table[id] = Absent
    /\ reader \in ReaderType
    /\ reader.state # "rows" => reader.ids = {}
    /\ reader.torn => reader.state = "done"

\* No two rows have one place.
Distinct ==
    Untied => \A i, j \in RowIds :
                Present(i) /\ Present(j) /\ table[i].place = table[j].place => i = j

Place == [i \in RowIds |-> table[i].place]

\* Rows of the start that kept their places, and those that were passed
\* unseen: all of them where the list is taken to have ended.
Staying == {id \in reader.start : \A x \in reader.moved : x[2] # id}
Ended == reader.state = "done" \/ (reader.state = "rows" /\ Cardinality(reader.ids) # PageSize)
Passed == IF reader.state = "ids" THEN (reader.page - 1) * PageSize
                                  ELSE reader.page * PageSize
Missed == {id \in Staying \ (reader.shown \cup reader.ids) :
              Ended \/ Rank(Place, Listed, id) < Passed}

PagesInv ==
    /\ ListType
    /\ Distinct
    /\ IsFiniteSet(reader.moved) /\ \A x \in reader.moved : x[1] <= changes
    /\ reader.state # "away" => query # Absent /\ Staying \subseteq Listed
    /\ reader.state # "away" /\ ~reader.torn /\ Untied =>
         Cardinality(Missed) <= Cardinality(reader.moved)

LEMMA AwayReader ==
    /\ Away \in ReaderType /\ Away.state = "away" /\ Away.ids = {} /\ ~Away.torn
    /\ Away.moved = {}
BY DEF Away, ReaderType, States

LEMMA PagesInit == ListsInit => PagesInv
<1> SUFFICES ASSUME ListsInit PROVE PagesInv
  OBVIOUS
<1>1. reader.state = "away" /\ reader.moved = {} /\ ListType /\ \A id \in RowIds : ~Present(id)
  BY AwayReader DEF ListsInit, ListType, Present
<1> QED BY <1>1, FS_EmptySet DEF PagesInv, Distinct

LEMMA ListedRows == Listed \subseteq RowIds /\ Listed' \subseteq RowIds
BY DEF Listed

LEMMA PlacesOrdered ==
    ASSUME ListType, Distinct, Untied
    PROVE  Ordered(Place, Listed)
<1>1. \A i \in Listed : Place[i] = table[i].place /\ Place[i] \in Int /\ Present(i) /\ i \in RowIds
  BY DEF Place, Listed, ListType, Row
<1> QED BY <1>1 DEF Ordered, Distinct

LEMMA MissedType ==
    ASSUME PagesInv
    PROVE  /\ Staying \in SUBSET RowIds /\ Missed \in SUBSET RowIds
           /\ IsFiniteSet(Missed) /\ Cardinality(Missed) \in Nat
           /\ Cardinality(reader.moved) \in Nat
           /\ reader.page \in Nat \ {0} /\ Passed \in Nat
<1>1. Staying \in SUBSET RowIds /\ Missed \in SUBSET RowIds
  BY DEF Staying, Missed, PagesInv, ListType, ReaderType
<1>2. reader.page \in Nat \ {0} /\ reader.page * PageSize \in Nat
      /\ (reader.page - 1) * PageSize \in Nat
  BY DEF PagesInv, ListType, ReaderType
<1> QED BY <1>1, <1>2, RankType, FS_CardinalityType DEF PagesInv, Passed

\* A set that loses members counts no more than before.
LEMMA FewerMissed ==
    ASSUME NEW s \in SUBSET RowIds, NEW t \in SUBSET s
    PROVE  Cardinality(t) <= Cardinality(s) /\ Cardinality(t) \in Nat
BY RankType, FS_Subset, FS_CardinalityType

LEMMA AskedAsBefore == UNCHANGED query => Untied' = Untied
BY DEF Untied, Unjoined

\* Rows come, or go nowhere: ranks only grow.
LEMMA ArrivalKeeps ==
    ASSUME PagesInv, UNCHANGED query, ListType', Distinct', changes <= changes',
           reader' = reader, Listed \subseteq Listed',
           \A j \in Listed : table'[j].place = table[j].place
    PROVE  PagesInv'
<1>1. ASSUME NEW id \in Listed
      PROVE  /\ Rank(Place, Listed, id) \in Nat /\ Rank(Place', Listed', id) \in Nat
             /\ Rank(Place, Listed, id) <= Rank(Place', Listed', id)
  <2>1. \A j \in Listed : Place'[j] = Place[j]
    BY ListedRows DEF Place
  <2>2. Rank(Place', Listed, id) = Rank(Place, Listed, id)
    BY <2>1, RankSame
  <2> QED BY <2>2, ListedRows, RankType, RankGrows
<1>2. Staying' = Staying /\ Passed' = Passed /\ Ended' = Ended /\ Untied' = Untied
  BY AskedAsBefore DEF Staying, Passed, Ended
<1>3. \A x \in reader'.moved : x[1] <= changes'
  BY DEF PagesInv, ListType, ReaderType
<1>4. reader'.state # "away" => query' # Absent /\ Staying' \subseteq Listed'
  BY <1>2 DEF PagesInv
<1>5. ASSUME reader'.state # "away", ~reader'.torn, Untied'
      PROVE  Cardinality(Missed') <= Cardinality(reader'.moved)
  <2>1. Staying \subseteq Listed /\ Cardinality(Missed) <= Cardinality(reader.moved)
    BY <1>2, <1>5 DEF PagesInv
  <2>2. Missed' \subseteq Missed
    <3> SUFFICES ASSUME NEW id \in Missed' PROVE id \in Missed
      OBVIOUS
    <3>1. id \in Staying \ (reader.shown \cup reader.ids)
          /\ (Ended \/ Rank(Place', Listed', id) < Passed)
      BY <1>2 DEF Missed
    <3>2. Ended \/ Rank(Place, Listed, id) < Passed
      BY <1>1, <2>1, <3>1, MissedType
    <3> QED BY <3>1, <3>2 DEF Missed
  <2>3. Cardinality(Missed') <= Cardinality(Missed) /\ Cardinality(Missed') \in Nat
    BY <2>2, MissedType, FewerMissed
  <2> QED BY <2>1, <2>3, MissedType
<1>6. IsFiniteSet(reader'.moved)
  BY DEF PagesInv
<1> QED BY <1>3, <1>4, <1>5, <1>6 DEF PagesInv

LEMMA OneMore ==
    ASSUME NEW s, NEW t, IsFiniteSet(s), \A i, j \in t : i = j
    PROVE  /\ IsFiniteSet(s \cup t) /\ Cardinality(s \cup t) \in Nat
           /\ Cardinality(s \cup t) <= Cardinality(s) + 1
<1>1. Cardinality(s) \in Nat
  BY FS_CardinalityType
<1>2. t = {} \/ \E j : t = {j}
  OBVIOUS
<1>3. CASE s \cup t = s
  <2>1. Cardinality(s \cup t) = Cardinality(s)
    BY <1>3
  <2>2. Cardinality(s) <= Cardinality(s) + 1
    BY <1>1
  <2> QED BY <1>1, <1>3, <2>1, <2>2, Zenon
<1>4. ASSUME NEW j, s \cup t = s \cup {j} PROVE
        /\ IsFiniteSet(s \cup t) /\ Cardinality(s \cup t) \in Nat
        /\ Cardinality(s \cup t) <= Cardinality(s) + 1
  <2>1. /\ IsFiniteSet(s \cup {j})
        /\ Cardinality(s \cup {j}) = IF j \in s THEN Cardinality(s) ELSE Cardinality(s) + 1
    BY FS_AddElement
  <2>2. Cardinality(s \cup {j}) \in Nat /\ Cardinality(s \cup {j}) <= Cardinality(s) + 1
    BY <1>1, <2>1
  <2> QED BY <1>4, <2>1, <2>2, Zenon
<1>5. s \cup t = s \/ \E j : s \cup t = s \cup {j}
  BY <1>2
<1> QED BY <1>3, <1>4, <1>5, Zenon

\* A row that leaves its place makes room for one at most, and is counted.
LEMMA LeavingKeeps ==
    ASSUME PagesInv, UNCHANGED query, ListType', Distinct', changes' = changes + 1,
           reader.state # "away", NEW id \in Listed, Listed' \ {id} = Listed \ {id},
           \A j \in Listed \ {id} : table'[j].place = table[j].place,
           reader' = [reader EXCEPT !.moved = @ \cup {<<changes', id>>}]
    PROVE  PagesInv'
<1> DEFINE gap == {j \in Listed : Rank(Place, Listed, j) = Passed}
<1>1. /\ reader'.moved = reader.moved \cup {<<changes', id>>}
      /\ reader'.state = reader.state /\ reader'.page = reader.page
      /\ reader'.ids = reader.ids /\ reader'.torn = reader.torn
      /\ reader'.shown = reader.shown /\ reader'.start = reader.start
  BY DEF PagesInv, ListType, ReaderType
<1>2. Staying' \subseteq Staying \ {id} /\ Passed' = Passed /\ Ended' = Ended /\ Untied' = Untied
  <2>1. Passed' = Passed /\ Ended' = Ended /\ Untied' = Untied
    BY <1>1, AskedAsBefore DEF Passed, Ended
  <2>2. \A j \in Staying' : j \in reader.start /\ \A x \in reader.moved : x[2] # j
    BY <1>1 DEF Staying
  <2>3. <<changes', id>> \in reader'.moved /\ <<changes', id>>[2] = id
    BY <1>1
  <2>4. id \notin Staying'
    BY <2>3 DEF Staying
  <2>5. Staying' \subseteq Staying
    BY <2>2 DEF Staying
  <2> QED BY <2>1, <2>4, <2>5
<1>3. Staying' \subseteq Listed'
  <2>1. Staying \subseteq Listed
    BY DEF PagesInv
  <2> QED BY <1>2, <2>1
<1>4. ASSUME NEW j \in Listed \ {id}
      PROVE  /\ Rank(Place, Listed, j) \in Nat /\ Rank(Place', Listed', j) \in Nat
             /\ Rank(Place, Listed, j) - 1 <= Rank(Place', Listed', j)
  <2> DEFINE rest == Listed \ {id}
  <2>1. \A k \in rest : Place'[k] = Place[k]
    BY ListedRows DEF Place
  <2>2. rest \in SUBSET RowIds /\ rest \in SUBSET Listed' /\ j \in rest
    BY ListedRows
  <2>3. Rank(Place, Listed, j) - 1 <= Rank(Place, rest, j)
    BY ListedRows, RankOfRest
  <2> HIDE DEF rest
  <2>4. Rank(Place', rest, j) = Rank(Place, rest, j)
    BY <2>1, <2>2, RankSame
  <2>5. Rank(Place', rest, j) <= Rank(Place', Listed', j)
    BY <2>2, ListedRows, RankGrows
  <2>6. Rank(Place, Listed, j) \in Nat /\ Rank(Place, rest, j) \in Nat
        /\ Rank(Place', Listed', j) \in Nat
    BY <2>2, ListedRows, RankType
  <2> QED BY <2>3, <2>4, <2>5, <2>6
<1>5. /\ IsFiniteSet(reader'.moved)
      /\ Cardinality(reader'.moved) = Cardinality(reader.moved) + 1
      /\ \A x \in reader'.moved : x[1] <= changes'
  <2>1. changes \in Nat /\ \A x \in reader.moved : x[1] <= changes /\ x[1] \in Nat
    BY DEF PagesInv, ListType, ReaderType
  <2>2. <<changes', id>> \notin reader.moved
    BY <2>1
  <2>3. IsFiniteSet(reader.moved) /\ \A x \in reader.moved : x[1] <= changes'
    BY <2>1 DEF PagesInv
  <2>4. /\ IsFiniteSet(reader.moved \cup {<<changes', id>>})
        /\ Cardinality(reader.moved \cup {<<changes', id>>}) = Cardinality(reader.moved) + 1
    BY <2>2, <2>3, FS_AddElement
  <2>5. \A x \in reader'.moved : x[1] <= changes'
    BY <1>1, <2>1, <2>3
  <2> QED BY <1>1, <2>4, <2>5
<1>6. ASSUME ~reader'.torn, Untied' PROVE Cardinality(Missed') <= Cardinality(reader'.moved)
  <2>1. Untied /\ Cardinality(Missed) <= Cardinality(reader.moved)
    BY <1>1, <1>2, <1>6 DEF PagesInv
  <2>2. Missed' \subseteq Missed \cup gap
    <3> SUFFICES ASSUME NEW j \in Missed', j \notin gap PROVE j \in Missed
      OBVIOUS
    <3>1. j \in Staying \ (reader.shown \cup reader.ids) /\ j \in Listed \ {id}
          /\ (Ended \/ Rank(Place', Listed', j) < Passed)
      BY <1>1, <1>2, <1>3 DEF Missed
    <3>2. Rank(Place, Listed, j) # Passed
      BY <3>1
    <3>3. Ended \/ Rank(Place, Listed, j) < Passed
      BY <1>4, <3>1, <3>2, MissedType
    <3> QED BY <3>1, <3>3 DEF Missed
  <2>3. Ordered(Place, Listed)
    BY <2>1, PlacesOrdered DEF PagesInv
  <2>4. \A i, j \in gap : i = j
    BY <2>3, ListedRows, RankTellsApart
  <2>5. gap \in SUBSET RowIds
    BY ListedRows
  <2>6. IsFiniteSet(Missed \cup gap) /\ Cardinality(Missed \cup gap) \in Nat
        /\ Cardinality(Missed \cup gap) <= Cardinality(Missed) + 1
    <3> HIDE DEF gap
    <3> QED BY <2>4, MissedType, OneMore
  <2> HIDE DEF gap
  <2>7. Cardinality(Missed') <= Cardinality(Missed \cup gap) /\ Cardinality(Missed') \in Nat
    BY <2>2, <2>5, MissedType, FewerMissed
  <2> QED BY <1>5, <2>1, <2>6, <2>7, MissedType
<1>7. query' # Absent
  BY DEF PagesInv
<1> QED BY <1>3, <1>5, <1>6, <1>7 DEF PagesInv

\* What a row shows depends on the row and on what is asked, as before.
LEMMA EntryStays ==
    ASSUME UNCHANGED query
    PROVE  Listed' = {id \in RowIds : table'[id] # Absent /\ EntryOf(table'[id]).kept}
BY DEF Listed, Present, EntryOf, MentorList, UserList, UserListWithFilters, PaymentList,
       ArticleList, NoticeList, MentoringSessions, MentoringReservations, Catalogue,
       PublicArticles, CommentList, MentorSessions, MentorIncome, MenteeIncome,
       MentorReservationList, MyReservations, MyClearReservations

\* Whatever becomes of a row, no other comes or goes.
LEMMA OtherRowsStay ==
    ASSUME ListType, UNCHANGED query, NEW id \in RowIds, NEW r,
           table' = [table EXCEPT ![id] = r]
    PROVE  /\ Listed' \ {id} = Listed \ {id}
           /\ table' = [j \in RowIds |-> table'[j]] /\ table'[id] = r
           /\ \A j \in RowIds \ {id} : table'[j] = table[j] /\ (Present(j)' <=> Present(j))
<1>1. /\ \A j \in RowIds \ {id} : table'[j] = table[j]
      /\ table' = [j \in RowIds |-> table'[j]] /\ table'[id] = r
  BY DEF ListType
<1> QED BY <1>1, EntryStays DEF Listed, Present

\* A row that is written takes a place no other has.
Takes(id, r) ==
    r # Absent => /\ Row(r)
                  /\ Untied => \A j \in RowIds \ {id} : Present(j) => table[j].place # r.place

LEMMA WritingKeeps ==
    ASSUME ListType, Distinct, UNCHANGED query, NEW id \in RowIds, NEW r, Takes(id, r),
           table' = [table EXCEPT ![id] = r]
    PROVE  Distinct' /\ \A j \in RowIds : Present(j)' => Row(table'[j])
<1>1. /\ table'[id] = r
      /\ \A j \in RowIds \ {id} : table'[j] = table[j] /\ (Present(j)' <=> Present(j))
  BY OtherRowsStay
<1>2. Untied' = Untied
  BY AskedAsBefore
<1>3. \A j \in RowIds : Present(j)' => Row(table'[j])
  <2> SUFFICES ASSUME NEW j \in RowIds, Present(j)' PROVE Row(table'[j])
    OBVIOUS
  <2>1. CASE j = id
    BY <1>1, <2>1 DEF Takes, Present
  <2>2. CASE j # id
    BY <1>1, <2>2 DEF ListType
  <2> QED BY <2>1, <2>2
<1>4. Distinct'
  <2> SUFFICES ASSUME Untied, NEW i \in RowIds, NEW j \in RowIds, Present(i)', Present(j)',
                      table'[i].place = table'[j].place
               PROVE  i = j
    BY <1>2 DEF Distinct
  <2>1. CASE i # id /\ j # id
    BY <1>1, <2>1 DEF Distinct
  <2>2. CASE i = id /\ j # id
    BY <1>1, <2>2 DEF Takes, Present
  <2>3. CASE i # id /\ j = id
    BY <1>1, <2>3 DEF Takes, Present
  <2> QED BY <2>1, <2>2, <2>3
<1> QED BY <1>3, <1>4

LEMMA PlaceType ==
    ASSUME ListType, query # Absent, NEW id \in RowIds
    PROVE  FreePlaces(id) \subseteq Int
<1>1. MaxRows \in Nat /\ id \in Int
  BY DEF RowIds
<1>2. query.sort \in {"latest", "oldest", "field"}
  BY DEF ListType
<1>3. PlacesOf(id) \subseteq Int
  BY <1>1, <1>2 DEF PlacesOf
<1> QED BY <1>3 DEF FreePlaces

LEMMA CreateKeeps == PagesInv /\ CreateRow => PagesInv'
<1> SUFFICES ASSUME PagesInv, CreateRow PROVE PagesInv'
  OBVIOUS
<1>1. created \in Nat /\ created' = created + 1 /\ created' \in RowIds /\ query # Absent
  BY DEF PagesInv, ListType, CreateRow, RowIds
<1>2. PICK k \in Made[Table], p \in FreePlaces(created') :
        table' = [table EXCEPT ![created'] = [kind |-> k, open |-> TRUE, place |-> p]]
  BY DEF CreateRow
<1> DEFINE r == [kind |-> k, open |-> TRUE, place |-> p]
<1>3. UNCHANGED <<query, changes, reader>>
  BY DEF CreateRow
<1>4. ListType /\ Distinct
  BY DEF PagesInv
<1>5. Takes(created', r)
  <2>1. p \in Int /\ (Untied => \A j \in RowIds \ {created'} : Present(j) => table[j].place # p)
    BY <1>1, <1>4, PlaceType DEF FreePlaces
  <2>2. Row(r) /\ r.place = p
    BY <2>1 DEF Row
  <2> HIDE DEF r
  <2> QED BY <2>1, <2>2 DEF Takes
<1>6. table' = [table EXCEPT ![created'] = r]
  BY <1>2
<1> HIDE DEF r
<1>7. Distinct' /\ \A j \in RowIds : Present(j)' => Row(table'[j])
  BY <1>1, <1>3, <1>4, <1>5, <1>6, WritingKeeps
<1>8. /\ Listed' \ {created'} = Listed \ {created'}
      /\ table' = [j \in RowIds |-> table'[j]]
      /\ \A j \in RowIds \ {created'} : table'[j] = table[j]
  BY <1>1, <1>3, <1>4, <1>6, OtherRowsStay
<1>9. \A j \in RowIds : j > created' => table'[j] = Absent
  <2> SUFFICES ASSUME NEW j \in RowIds, j > created' PROVE table'[j] = Absent
    OBVIOUS
  <2>1. j > created /\ j # created'
    BY <1>1 DEF RowIds
  <2> QED BY <1>4, <1>8, <2>1 DEF ListType
<1>10. ListType'
  BY <1>1, <1>3, <1>4, <1>7, <1>8, <1>9 DEF ListType
<1>11. created' \notin Listed
  BY <1>1, <1>4 DEF ListType, Listed, Present
<1>12. Listed \subseteq Listed' /\ \A j \in Listed : table'[j].place = table[j].place
  BY <1>8, <1>11, ListedRows
<1>13. changes <= changes'
  BY <1>3, <1>4 DEF ListType
<1> QED BY <1>3, <1>7, <1>10, <1>12, <1>13, ArrivalKeeps

LEMMA ChangedKeeps ==
    ASSUME PagesInv, NEW id \in RowIds, NEW r, Takes(id, r), Present(id), Changed(id, r)
    PROVE  PagesInv'
<1>1. /\ UNCHANGED <<query, created>> /\ table' = [table EXCEPT ![id] = r]
      /\ changes' = changes + 1 /\ changes \in Nat /\ changes' \in Nat /\ changes <= changes'
  BY DEF Changed, PagesInv, ListType
<1>2. ListType /\ Distinct
  BY DEF PagesInv
<1>3. /\ Listed' \ {id} = Listed \ {id} /\ table'[id] = r
      /\ table' = [j \in RowIds |-> table'[j]]
      /\ \A j \in RowIds \ {id} : table'[j] = table[j] /\ (Present(j)' <=> Present(j))
  BY <1>1, <1>2, OtherRowsStay
<1>4. Distinct' /\ \A j \in RowIds : Present(j)' => Row(table'[j])
  BY <1>1, <1>2, WritingKeeps
<1>5. /\ query' # Absent
      /\ \A j \in RowIds : j > created' => table'[j] = Absent
  BY <1>1, <1>2, <1>3 DEF ListType, Present
<1> DEFINE recorded == /\ reader.state # "away" /\ id \in Listed
                       /\ id \in Listed' => r.place # table[id].place
<1>6. /\ recorded => reader' = [reader EXCEPT !.moved = @ \cup {<<changes', id>>}]
      /\ ~recorded => reader' = reader
  <2>1. reader' = [reader EXCEPT !.moved = IF recorded THEN @ \cup {<<changes', id>>} ELSE @]
    BY DEF Changed
  <2>2. [reader EXCEPT !.moved = @] = reader
    BY <1>2 DEF ListType, ReaderType
  <2> HIDE DEF recorded
  <2> QED BY <2>1, <2>2
<1>7. ListType'
  <2>1. reader' \in ReaderType /\ reader'.state = reader.state /\ reader'.ids = reader.ids
        /\ reader'.torn = reader.torn
    <3> HIDE DEF recorded
    <3>1. CASE recorded
      <4>1. <<changes', id>> \in Nat \X RowIds
        BY <1>1
      <4> QED BY <1>2, <1>6, <3>1, <4>1 DEF ListType, ReaderType
    <3>2. CASE ~recorded
      BY <1>2, <1>6, <3>2 DEF ListType
    <3> QED BY <3>1, <3>2
  <2> HIDE DEF recorded
  <2> QED BY <1>1, <1>2, <1>3, <1>4, <1>5, <2>1 DEF ListType
<1>8. CASE recorded
  <2>1. \A j \in Listed \ {id} : table'[j].place = table[j].place
    BY <1>3, ListedRows
  <2> QED BY <1>1, <1>3, <1>4, <1>6, <1>7, <1>8, <2>1, LeavingKeeps
<1>9. CASE ~recorded /\ reader.state = "away"
  <2>1. reader' = reader
    BY <1>6, <1>9
  <2>2. \A x \in reader.moved : x[1] <= changes /\ x[1] \in Nat
    BY <1>2 DEF PagesInv, ListType, ReaderType
  <2> QED BY <1>1, <1>4, <1>7, <1>9, <2>1, <2>2 DEF PagesInv
<1>10. CASE ~recorded /\ reader.state # "away"
  <2>1. Listed \subseteq Listed' /\ \A j \in Listed : table'[j].place = table[j].place
    <3>1. id \in Listed => id \in Listed' /\ table'[id].place = table[id].place
      BY <1>3, <1>10
    <3> QED BY <1>3, <3>1, ListedRows
  <2> QED BY <1>1, <1>4, <1>6, <1>7, <1>10, <2>1, ArrivalKeeps
<1> QED BY <1>8, <1>9, <1>10

\* Each of the changes writes a row with a place of its own, or none.
LEMMA ChangesTake ==
    ASSUME PagesInv, NEW id \in RowIds, ChangeRow(id) \/ CloseOwner(id) \/ DeleteRow(id)
    PROVE  PagesInv'
<1>1. Present(id) /\ Row(table[id]) /\ query # Absent
  BY DEF ChangeRow, CloseOwner, DeleteRow, PagesInv, ListType
<1>2. CASE ChangeRow(id)
  <2>1. PICK k \in {table[id].kind} \cup {t[2] : t \in {x \in Turns : x[1] = table[id].kind}},
             p \in FreePlaces(id) : Changed(id, [table[id] EXCEPT !.kind = k, !.place = p])
    BY <1>2 DEF ChangeRow
  <2> DEFINE r == [table[id] EXCEPT !.kind = k, !.place = p]
  <2>2. p \in Int /\ (Untied => \A j \in RowIds \ {id} : Present(j) => table[j].place # p)
    BY <1>1, PlaceType DEF FreePlaces, PagesInv
  <2>3. Row(r) /\ r.place = p
    <3>1. r \in [kind : {k}, open : {table[id].open}, place : Int] /\ r.kind = k
          /\ r.open = table[id].open /\ r.place = p
      BY <1>1, <2>2 DEF Row
    <3> QED BY <3>1 DEF Row
  <2>4. Changed(id, r)
    BY <2>1
  <2> HIDE DEF r
  <2>5. Takes(id, r)
    BY <2>2, <2>3 DEF Takes
  <2> QED BY <1>1, <2>4, <2>5, ChangedKeeps
<1>3. CASE CloseOwner(id)
  <2> DEFINE r == [table[id] EXCEPT !.open = FALSE]
  <2>1. Row(r) /\ r.place = table[id].place
    <3>1. r \in [kind : {table[id].kind}, open : {FALSE}, place : Int]
          /\ r.kind = table[id].kind /\ r.open = FALSE /\ r.place = table[id].place
      BY <1>1 DEF Row
    <3> QED BY <3>1 DEF Row
  <2>2. Changed(id, r)
    BY <1>3 DEF CloseOwner
  <2> HIDE DEF r
  <2>3. Takes(id, r)
    BY <1>1, <2>1 DEF Takes, PagesInv, Distinct
  <2> QED BY <1>1, <2>2, <2>3, ChangedKeeps
<1>4. CASE DeleteRow(id)
  <2>1. Changed(id, Absent) /\ Takes(id, Absent)
    BY <1>4 DEF DeleteRow, Takes
  <2> QED BY <1>1, <2>1, ChangedKeeps
<1> QED BY <1>2, <1>3, <1>4

-----------------------------------------------------------------------------
(* Where rows have places of their own, the database has one order for     *)
(* them, and a page is the rows with the ranks of that page                *)

LEMMA PrefixIs ==
    ASSUME Ordered(Place, Listed), NEW k \in Nat, NEW t \in Prefixes(k)
    PROVE  t = {i \in Listed : Rank(Place, Listed, i) < k}
<1>1. /\ t \in SUBSET Listed /\ Cardinality(t) <= k
      /\ Cardinality(t) < k => t = Listed
      /\ \A i \in t, j \in Listed \ t : ~(Place[j] < Place[i])
  BY ListedRows DEF Prefixes, Ahead, Place
<1>2. \A i \in Listed : Rank(Place, Listed, i) \in Nat
  BY ListedRows, RankType
<1>3. t \in SUBSET RowIds /\ IsFiniteSet(t) /\ Cardinality(t) \in Nat
  BY <1>1, ListedRows, RankType
<1>4. CASE Cardinality(t) < k
  <2>1. t = Listed
    BY <1>1, <1>4
  <2>2. \A i \in Listed : Rank(Place, Listed, i) < Cardinality(Listed)
    BY ListedRows, RankBelowCount
  <2>3. Cardinality(Listed) < k /\ Cardinality(Listed) \in Nat
    BY <1>3, <1>4, <2>1
  <2>4. \A i \in Listed : Rank(Place, Listed, i) < k
    BY <1>2, <2>2, <2>3
  <2> QED BY <2>1, <2>4
<1>5. CASE Cardinality(t) = k
  <2>1. ASSUME NEW i \in t PROVE Rank(Place, Listed, i) < k
    <3> DEFINE a == {j \in Listed : Place[j] < Place[i]}
    <3>1. Place[i] \in Int /\ i \in Listed
      BY <1>1 DEF Ordered
    <3>2. a \subseteq t /\ i \notin a
      BY <1>1, <3>1
    <3>3. Cardinality(a) \in Nat
      BY ListedRows, RankType DEF Rank
    <3> HIDE DEF a
    <3>4. Cardinality(a) <= Cardinality(t) /\ Cardinality(a) # Cardinality(t)
      BY <1>3, <3>2, FS_Subset
    <3>5. Cardinality(a) < k
      BY <1>5, <3>3, <3>4
    <3> QED BY <3>5 DEF Rank, a
  <2>2. ASSUME NEW i \in Listed \ t PROVE ~(Rank(Place, Listed, i) < k)
    <3> DEFINE a == {j \in Listed : Place[j] < Place[i]}
    <3>1. \A j \in t : Place[i] \in Int /\ Place[j] \in Int /\ Place[i] # Place[j]
      BY <1>1 DEF Ordered
    <3>2. t \subseteq a
      BY <1>1, <3>1
    <3>3. IsFiniteSet(a) /\ Cardinality(a) \in Nat
      BY ListedRows, RankType DEF Rank
    <3> HIDE DEF a
    <3>4. Cardinality(t) <= Cardinality(a)
      BY <3>2, <3>3, FS_Subset
    <3>5. ~(Cardinality(a) < k)
      BY <1>5, <3>3, <3>4
    <3> QED BY <3>5 DEF Rank, a
  <2> QED BY <1>1, <2>1, <2>2
<1> QED BY <1>1, <1>3, <1>4, <1>5

LEMMA CutIs ==
    ASSUME NEW n \in Nat \ {0}, NEW c \in Cut(n)
    PROVE  /\ c \in SUBSET Listed
           /\ Ordered(Place, Listed) => c = PageOf(Place, Listed, n)
<1>1. PICK r \in Prefixes((n - 1) * PageSize) \X Prefixes(n * PageSize) : c = r[2] \ r[1]
  BY DEF Cut
<1>2. r[1] \in Prefixes((n - 1) * PageSize) /\ r[2] \in Prefixes(n * PageSize)
  BY <1>1
<1>3. c \in SUBSET Listed
  BY <1>1, <1>2 DEF Prefixes
<1>4. ASSUME Ordered(Place, Listed) PROVE c = PageOf(Place, Listed, n)
  <2> DEFINE lo == (n - 1) * PageSize
             hi == n * PageSize
  <2>1. lo \in Nat /\ hi \in Nat
    BY PagePlaces
  <2>2. r[1] \in Prefixes(lo) /\ r[2] \in Prefixes(hi)
    BY <1>2
  <2>3. PageOf(Place, Listed, n) = {i \in Listed : Rank(Place, Listed, i) \in lo .. hi - 1}
    BY DEF PageOf
  <2> HIDE DEF lo, hi
  <2>4. r[1] = {i \in Listed : Rank(Place, Listed, i) < lo}
    BY <1>4, <2>1, <2>2, PrefixIs
  <2>5. r[2] = {i \in Listed : Rank(Place, Listed, i) < hi}
    BY <1>4, <2>1, <2>2, PrefixIs
  <2>6. \A i \in Listed : Rank(Place, Listed, i) \in Nat
    BY ListedRows, RankType
  <2>7. \A i \in Listed : Rank(Place, Listed, i) \in lo .. hi - 1
                            <=> Rank(Place, Listed, i) < hi /\ ~(Rank(Place, Listed, i) < lo)
    BY <2>1, <2>6
  <2> QED BY <1>1, <2>3, <2>4, <2>5, <2>7
<1> QED BY <1>3, <1>4

-----------------------------------------------------------------------------
(* Turning the pages *)

\* While the table stays as it is so do the list, its order and the ranks.
LEMMA ListStays ==
    ASSUME UNCHANGED <<query, table>>
    PROVE  /\ Listed' = Listed /\ Place' = Place /\ Untied' = Untied
           /\ Distinct' = Distinct
<1>1. Listed' = Listed
  BY EntryStays DEF Listed, Present
<1> QED BY <1>1, AskedAsBefore DEF Place, Distinct, Present

LEMMA AwayKeeps ==
    ASSUME PagesInv, UNCHANGED <<query, table, created, changes>>, reader' = Away
    PROVE  PagesInv'
<1>1. ListType'
  BY AwayReader DEF PagesInv, ListType, Present
<1>2. IsFiniteSet(reader'.moved) /\ \A x \in reader'.moved : x[1] <= changes'
  BY AwayReader, FS_EmptySet
<1> QED BY <1>1, <1>2, AwayReader, ListStays DEF PagesInv

\* The reader opens a list; nothing is passed before the first page.
LEMMA OpenKeeps == PagesInv /\ OpenList => PagesInv'
<1> SUFFICES ASSUME PagesInv, OpenList PROVE PagesInv'
  OBVIOUS
<1>1. UNCHANGED <<query, table, created, changes>> /\ query # Absent
  BY DEF OpenList
<1>2. reader' = [state |-> "ids", page |-> 1, ids |-> {}, shown |-> {},
                 start |-> Listed, moved |-> {}, torn |-> FALSE]
  BY DEF OpenList, Away
<1>3. ListType'
  BY <1>1, <1>2, ListedRows DEF PagesInv, ListType, ReaderType, States, Present
<1>4. Listed' = Listed /\ Place' = Place /\ Distinct'
  BY <1>1, ListStays DEF PagesInv
<1>5. Staying' = Listed'
  BY <1>2, <1>4 DEF Staying
<1>6. Passed' = 0 /\ ~Ended'
  BY <1>2 DEF Passed, Ended
<1>7. \A id : Rank(Place, Listed, id) \in Nat
  BY ListedRows, RankType
<1>8. Missed' = {}
  BY <1>4, <1>6, <1>7 DEF Missed
<1>9. Cardinality(Missed') <= Cardinality(reader'.moved)
  BY <1>2, <1>8, FS_EmptySet
<1>10. IsFiniteSet(reader'.moved) /\ \A x \in reader'.moved : x[1] <= changes'
  BY <1>2, FS_EmptySet
<1> QED BY <1>1, <1>3, <1>4, <1>5, <1>9, <1>10 DEF PagesInv

\* What the reader does with a page: it may miss no more than before.
LEMMA TurningKeeps ==
    ASSUME PagesInv, UNCHANGED <<query, table, created, changes>>, ListType',
           reader.state \in {"ids", "rows", "count"},
           reader'.moved = reader.moved, reader'.start = reader.start,
           ~reader'.torn /\ Untied => Missed' \subseteq Missed
    PROVE  PagesInv'
<1>1. Staying' = Staying
  BY DEF Staying
<1>2. Listed' = Listed /\ Distinct' /\ Untied' = Untied
  BY ListStays DEF PagesInv
<1>3. ASSUME ~reader'.torn, Untied PROVE Cardinality(Missed') <= Cardinality(reader'.moved)
  <2>1. Cardinality(Missed') <= Cardinality(Missed) /\ Cardinality(Missed') \in Nat
    BY <1>3, MissedType, FewerMissed
  <2>2. Cardinality(Missed) <= Cardinality(reader.moved)
    BY <1>3 DEF PagesInv, ListType
  <2> QED BY <2>1, <2>2, MissedType
<1>4. query' # Absent /\ Staying' \subseteq Listed'
  BY <1>1, <1>2 DEF PagesInv
<1>5. IsFiniteSet(reader'.moved) /\ \A x \in reader'.moved : x[1] <= changes'
  BY DEF PagesInv
<1> QED BY <1>2, <1>3, <1>4, <1>5 DEF PagesInv

\* Of a page's ids, all ahead of it was passed before; if they are too few
\* to fill it, there is nothing behind it.
Unseen(ids) ==
    {id \in Staying \ (reader.shown \cup ids) :
        Cardinality(ids) # PageSize \/ Rank(Place, Listed, id) < reader.page * PageSize}

LEMMA CutMisses ==
    ASSUME PagesInv, reader.state = "ids", Untied, NEW ids \in Cut(reader.page)
    PROVE  Unseen(ids) \subseteq Missed
<1> DEFINE n == reader.page
<1>1. n \in Nat \ {0} /\ n * PageSize \in Nat /\ (n - 1) * PageSize \in Nat
  BY PagePlaces DEF PagesInv, ListType, ReaderType
<1>2. Ordered(Place, Listed)
  BY PlacesOrdered DEF PagesInv
<1>3. ids = PageOf(Place, Listed, n)
  BY <1>1, <1>2, CutIs
<1> SUFFICES ASSUME NEW id \in Unseen(ids) PROVE id \in Missed
  OBVIOUS
<1>4. id \in Staying \ (reader.shown \cup ids)
      /\ (Cardinality(ids) # PageSize \/ Rank(Place, Listed, id) < n * PageSize)
  BY DEF Unseen
<1>5. id \in Listed /\ Rank(Place, Listed, id) \in Nat
  BY <1>4, ListedRows, RankType DEF PagesInv
<1>6. Rank(Place, Listed, id) < n * PageSize
  <2> SUFFICES ASSUME ~(Rank(Place, Listed, id) < n * PageSize) PROVE FALSE
    OBVIOUS
  <2>1. Rank(Place, Listed, id) >= n * PageSize
    BY <1>1, <1>5
  <2>2. Cardinality(ids) = PageSize
    BY <1>1, <1>2, <1>3, <1>5, <2>1, ListedRows, PageIsFull
  <2> QED BY <1>4, <2>2
<1>7. Rank(Place, Listed, id) \notin (n - 1) * PageSize .. n * PageSize - 1
  BY <1>3, <1>4, <1>5 DEF PageOf
<1>8. Rank(Place, Listed, id) < (n - 1) * PageSize
  <2> DEFINE lo == (n - 1) * PageSize
             hi == n * PageSize
  <2>1. lo \in Nat /\ hi \in Nat /\ Rank(Place, Listed, id) < hi
        /\ Rank(Place, Listed, id) \notin lo .. hi - 1
    BY <1>1, <1>6, <1>7
  <2> HIDE DEF lo, hi
  <2>2. Rank(Place, Listed, id) < lo
    BY <1>5, <2>1
  <2> QED BY <2>2 DEF lo
<1>9. Passed = (n - 1) * PageSize /\ reader.ids = {}
  BY DEF Passed, PagesInv, ListType
<1> QED BY <1>4, <1>8, <1>9 DEF Missed

LEMMA ReadIdsKeeps == PagesInv /\ ReadIds => PagesInv'
<1> SUFFICES ASSUME PagesInv, ReadIds PROVE PagesInv'
  OBVIOUS
<1>1. UNCHANGED <<query, table, created, changes>> /\ reader.state = "ids"
  BY DEF ReadIds
<1>2. PICK ids \in Cut(reader.page) : reader' = [reader EXCEPT !.state = "rows", !.ids = ids]
  BY DEF ReadIds
<1>3. reader.page \in Nat \ {0}
  BY DEF PagesInv, ListType, ReaderType
<1>4. ids \in SUBSET RowIds
  BY <1>3, CutIs, ListedRows
<1>5. /\ reader'.state = "rows" /\ reader'.ids = ids /\ reader'.page = reader.page
      /\ reader'.shown = reader.shown /\ reader'.start = reader.start
      /\ reader'.moved = reader.moved /\ reader'.torn = reader.torn
      /\ reader' \in ReaderType
  BY <1>2, <1>4 DEF PagesInv, ListType, ReaderType, States
<1>6. ListType'
  BY <1>1, <1>5 DEF PagesInv, ListType, Present
<1>7. Staying' = Staying /\ Listed' = Listed /\ Place' = Place
  BY <1>1, <1>5, ListStays DEF Staying
<1>8. Missed' = Unseen(ids)
  <2>1. Passed' = reader.page * PageSize /\ (Ended' <=> Cardinality(ids) # PageSize)
    BY <1>5 DEF Passed, Ended
  <2> QED BY <1>5, <1>7, <2>1 DEF Missed, Unseen
<1>9. Untied => Missed' \subseteq Missed
  BY <1>1, <1>8, CutMisses
<1> QED BY <1>1, <1>5, <1>6, <1>9, TurningKeeps

LEMMA ReceiveKeeps ==
    ASSUME PagesInv, UNCHANGED <<query, table, created, changes>>,
           reader.state \in {"ids", "rows"}, NEW ids \in SUBSET RowIds, Receive(ids),
           Untied => Unseen(ids) \subseteq Missed
    PROVE  PagesInv'
<1> DEFINE still == ids \cap Listed
<1>1. CASE Throws(still)
  <2>1. reader' = Away
    BY <1>1 DEF Receive
  <2> QED BY <2>1, AwayKeeps
<1>2. CASE ~Throws(still)
  <2>1. PICK c \in Counted(still) :
          reader' = [reader EXCEPT !.state = IF c THEN "count" ELSE "done", !.ids = {},
                                   !.shown = @ \cup still,
                                   !.torn = ~c /\ Cardinality(ids) = PageSize]
    BY <1>2 DEF Receive
  <2>2. c \in BOOLEAN
    BY DEF Counted
  <2>3. still \in SUBSET RowIds
    OBVIOUS
  <2> HIDE DEF still
  <2>4. PICK tear \in BOOLEAN : tear <=> ~c /\ Cardinality(ids) = PageSize
    OBVIOUS
  <2>5. PICK to \in {"count", "done"} : to = IF c THEN "count" ELSE "done"
    BY <2>2
  <2>6. reader' = [reader EXCEPT !.state = to, !.ids = {}, !.shown = @ \cup still, !.torn = tear]
    <3>1. tear = (~c /\ Cardinality(ids) = PageSize)
      BY <2>2, <2>4
    <3> QED BY <2>1, <2>5, <3>1, Zenon
  <2>7. /\ reader'.state = to /\ reader'.ids = {} /\ reader'.page = reader.page
        /\ reader'.shown = reader.shown \cup still /\ reader'.start = reader.start
        /\ reader'.moved = reader.moved /\ reader'.torn = tear
        /\ reader' \in ReaderType
    BY <2>3, <2>5, <2>6 DEF PagesInv, ListType, ReaderType, States
  <2>8. tear => to = "done"
    BY <2>2, <2>4, <2>5
  <2>9. ListType'
    BY <2>7, <2>8 DEF PagesInv, ListType, Present
  <2>10. Staying' = Staying /\ Listed' = Listed /\ Place' = Place
    BY <2>7, ListStays DEF Staying
  <2>11. ASSUME ~tear, Untied PROVE Missed' \subseteq Missed
    <3>1. to = "done" => Cardinality(ids) # PageSize
      BY <2>2, <2>4, <2>5, <2>11
    <3>2. Passed' = reader.page * PageSize /\ (Ended' <=> to = "done")
      BY <2>5, <2>7 DEF Passed, Ended
    <3>3. ASSUME NEW id \in Missed' PROVE id \in Unseen(ids)
      <4>1. id \in Staying /\ id \notin reader.shown /\ id \notin still
            /\ (to = "done" \/ Rank(Place, Listed, id) < reader.page * PageSize)
        BY <2>7, <2>10, <3>2 DEF Missed
      <4>2. id \in Listed
        BY <4>1 DEF PagesInv
      <4>3. id \notin ids
        BY <4>1, <4>2 DEF still
      <4> QED BY <3>1, <4>1, <4>3 DEF Unseen
    <3> QED BY <2>11, <3>3
  <2> QED BY <2>7, <2>9, <2>11, TurningKeeps
<1> QED BY <1>1, <1>2

LEMMA ReadRowsKeeps == PagesInv /\ ReadRows => PagesInv'
<1> SUFFICES ASSUME PagesInv, ReadRows PROVE PagesInv'
  OBVIOUS
<1>1. UNCHANGED <<query, table, created, changes>>
  BY DEF ReadRows
<1>2. CASE reader.state = "rows" /\ Receive(reader.ids)
  <2>1. reader.ids \in SUBSET RowIds
    BY DEF PagesInv, ListType, ReaderType
  <2>2. Unseen(reader.ids) = Missed
    <3>1. Passed = reader.page * PageSize /\ (Ended <=> Cardinality(reader.ids) # PageSize)
      BY <1>2 DEF Passed, Ended
    <3> QED BY <3>1 DEF Unseen, Missed
  <2> QED BY <1>1, <1>2, <2>1, <2>2, ReceiveKeeps
<1>3. CASE reader.state = "ids" /\ \E ids \in Cut(reader.page) : Receive(ids)
  <2>1. PICK ids \in Cut(reader.page) : Receive(ids)
    BY <1>3
  <2>2. ids \in SUBSET RowIds
    BY CutIs, ListedRows DEF PagesInv, ListType, ReaderType
  <2>3. Untied => Unseen(ids) \subseteq Missed
    BY <1>3, CutMisses
  <2> QED BY <1>1, <1>3, <2>1, <2>2, <2>3, ReceiveKeeps
<1> QED BY <1>2, <1>3 DEF ReadRows

LEMMA CountKeeps == PagesInv /\ CountRows => PagesInv'
<1> SUFFICES ASSUME PagesInv, CountRows PROVE PagesInv'
  OBVIOUS
<1> DEFINE n == reader.page
           more == n * PageSize < Cardinality(Listed)
<1>1. UNCHANGED <<query, table, created, changes>> /\ reader.state = "count"
  BY DEF CountRows
<1>2. n \in Nat \ {0} /\ n + 1 \in Nat \ {0} /\ n * PageSize \in Nat /\ n + 1 - 1 = n
  BY PagePlaces DEF PagesInv, ListType, ReaderType
<1>3. /\ more => reader' = [reader EXCEPT !.state = "ids", !.page = n + 1]
      /\ ~more => reader' = [reader EXCEPT !.state = "done"]
  BY DEF CountRows
<1> HIDE DEF more
<1>4. /\ reader'.moved = reader.moved /\ reader'.start = reader.start
      /\ reader'.shown = reader.shown /\ reader'.ids = reader.ids
      /\ reader'.torn = reader.torn /\ reader' \in ReaderType
      /\ more => reader'.state = "ids" /\ reader'.page = n + 1
      /\ ~more => reader'.state = "done" /\ reader'.page = n
  <2> HIDE DEF n
  <2>1. reader \in ReaderType
    BY DEF PagesInv, ListType
  <2>2. CASE more
    <3>1. reader' = [reader EXCEPT !.state = "ids", !.page = n + 1]
      BY <1>3, <2>2
    <3> QED BY <1>2, <2>1, <2>2, <3>1 DEF ReaderType, States
  <2>3. CASE ~more
    <3>1. reader' = [reader EXCEPT !.state = "done"]
      BY <1>3, <2>3
    <3> QED BY <2>1, <2>3, <3>1 DEF ReaderType, States, n
  <2> QED BY <2>2, <2>3
<1>5. ListType'
  BY <1>1, <1>4 DEF PagesInv, ListType, Present
<1>6. Staying' = Staying /\ Listed' = Listed /\ Place' = Place
  BY <1>1, <1>4, ListStays DEF Staying
<1>7. Passed = n * PageSize /\ ~Ended
  BY <1>1 DEF Passed, Ended
<1>8. ASSUME Untied PROVE Missed' \subseteq Missed
  <2> SUFFICES ASSUME NEW id \in Missed' PROVE id \in Missed
    OBVIOUS
  <2>1. id \in Staying \ (reader.shown \cup reader.ids)
        /\ (Ended' \/ Rank(Place, Listed, id) < Passed')
    BY <1>4, <1>6 DEF Missed
  <2>2. id \in Listed
    BY <1>1, <2>1 DEF PagesInv
  <2>3. Rank(Place, Listed, id) < n * PageSize
    <3>1. CASE more
      <4>1. Passed' = n * PageSize /\ ~Ended'
        BY <1>2, <1>4, <3>1 DEF Passed, Ended
      <4> QED BY <2>1, <4>1
    <3>2. CASE ~more
      <4>1. Ordered(Place, Listed)
        BY <1>8, PlacesOrdered DEF PagesInv
      <4>2. /\ Rank(Place, Listed, id) < Cardinality(Listed)
            /\ Rank(Place, Listed, id) \in Nat /\ Cardinality(Listed) \in Nat
        BY <2>2, <4>1, ListedRows, RankType, RankBelowCount
      <4>3. Cardinality(Listed) <= n * PageSize
        BY <1>2, <3>2, <4>2 DEF more
      <4> QED BY <1>2, <4>2, <4>3
    <3> QED BY <3>1, <3>2
  <2> QED BY <1>7, <2>1, <2>3 DEF Missed
<1> HIDE DEF n
<1> QED BY <1>1, <1>4, <1>5, <1>8, TurningKeeps

LEMMA PagesStep == PagesInv /\ ListsNext => PagesInv'
<1> SUFFICES ASSUME PagesInv, ListsNext PROVE PagesInv'
  OBVIOUS
<1>1. CASE Choose
  <2>1. query = Absent /\ UNCHANGED <<table, created, changes, reader>>
    BY <1>1 DEF Choose
  <2>2. reader.state = "away" /\ \A id \in RowIds : ~Present(id)
    BY <2>1 DEF PagesInv, ListType
  <2>3. \A id \in RowIds : ~Present(id)'
    BY <2>1, <2>2 DEF Present
  <2>4. query' \in Query
    BY <1>1 DEF Choose
  <2>5. query'.sort \in {"latest", "oldest", "field"}
    <3>1. PICK l \in DOMAIN Statuses :
            query' \in [list : {l}, status : Statuses[l], sort : Sorts(l)]
      BY <2>4 DEF Query
    <3> QED BY <3>1 DEF Sorts
  <2>6. ListType' /\ Distinct'
    BY <2>1, <2>3, <2>5 DEF PagesInv, ListType, Distinct
  <2> QED BY <2>1, <2>2, <2>6 DEF PagesInv
<1>2. CASE LeaveList
  BY <1>2, AwayKeeps DEF LeaveList
<1>3. CASE \E id \in RowIds : ChangeRow(id) \/ CloseOwner(id) \/ DeleteRow(id)
  BY <1>3, ChangesTake
<1> QED BY <1>1, <1>2, <1>3, CreateKeeps, OpenKeeps, ReadIdsKeeps, ReadRowsKeeps, CountKeeps
        DEF ListsNext

LEMMA PagesUnchanged == PagesInv /\ UNCHANGED listsVars => PagesInv'
<1> SUFFICES ASSUME PagesInv, UNCHANGED listsVars PROVE PagesInv'
  OBVIOUS
<1>1. UNCHANGED <<query, table, created, changes, reader>>
  BY DEF listsVars
<1>2. Listed' = Listed /\ Place' = Place /\ Untied' = Untied /\ Distinct' = Distinct
  BY <1>1, ListStays
<1>3. ListType' /\ Staying' = Staying /\ Passed' = Passed /\ Ended' = Ended
  BY <1>1 DEF PagesInv, ListType, Present, Staying, Passed, Ended
<1>4. Missed' = Missed
  BY <1>1, <1>2, <1>3 DEF Missed
<1> QED BY <1>1, <1>2, <1>3, <1>4 DEF PagesInv

LEMMA PagesAlways == Spec => []PagesInv
<1>1. Init => PagesInv
  BY PagesInit DEF Init
<1>2. PagesInv /\ [Next]_siteVars => PagesInv'
  <2>1. CASE Pages
    BY <2>1, PagesStep DEF Pages
  <2>2. CASE UNCHANGED listsVars
    BY <2>2, PagesUnchanged
  <2> QED BY <2>1, <2>2 DEF Next, siteVars, People, SignUps, Posts, Browse, Chats, Queries
<1> QED BY <1>1, <1>2, PTL DEF Spec

-----------------------------------------------------------------------------
(* Whatever rows come, go and move while someone turns the pages of a      *)
(* list, also between the two queries of a joined page, in whatever order  *)
(* that tells rows apart and whatever the page's size: of the rows that    *)
(* kept their places that reader misses at most one for each row that left *)
(* the list or moved in it, unless a page was torn (the skip and take of   *)
(* admin.service.ts 464-1041, and the other lists).                        *)
THEOREM PagesMissFew == Spec => []PagesMissAtMost
<1>1. PagesInv => PagesMissAtMost
  <2> SUFFICES ASSUME PagesInv, reader.state = "done", ~reader.torn, Untied
               PROVE  Cardinality({id \in reader.start \cap Listed :
                          id \notin reader.shown /\ \A x \in reader.moved : x[2] # id})
                          <= Cardinality(reader.moved)
    BY DEF PagesMissAtMost
  <2>1. Ended /\ reader.ids = {} /\ Staying \subseteq Listed
    BY DEF Ended, PagesInv, ListType
  <2>2. {id \in reader.start \cap Listed :
            id \notin reader.shown /\ \A x \in reader.moved : x[2] # id} = Missed
    BY <2>1 DEF Missed, Staying
  <2> QED BY <2>2 DEF PagesInv
<1> QED BY <1>1, PagesAlways, PTL

-----------------------------------------------------------------------------
(* Types: to the invariants above, what they did not need to say of the    *)
(* rows and of the requests that write them                                *)

HIDE ListsAssumption

InboxRow == [to : Users, about : LikeIds \cup CommentIds, read : BOOLEAN]

\* Whom a request will tell, and about what.
Knows(r) ==
    /\ r.op \in {"like", "comment"} => r.author \in Users \cup {None}
    /\ r.op = "comment" => r.on \in ArticleIds
    /\ r.op = "tell" => r.to \in Users \cup {None} /\ r.about \in LikeIds

CommentType ==
    /\ comments = [c \in CommentIds |-> comments[c]]
    /\ \A c \in CommentIds :
         comments[c] # None => c \in used /\ comments[c].on \in ArticleIds \cup {None}

RowsInv ==
    /\ inbox \subseteq InboxRow
    /\ CommentType
    /\ \A u \in Users : Knows(act[u])

LEMMA QuietKnows == Knows(Quiet)
BY DEF Knows, Quiet

LEMMA RowsInit == ArticlesInit /\ CommentsInit /\ InboxInit => RowsInv
BY QuietKnows DEF ArticlesInit, CommentsInit, InboxInit, RowsInv, CommentType

LEMMA RequestsKnow ==
    ASSUME act = [v \in Users |-> act[v]], \A v \in Users : Knows(act[v]),
           NEW u \in Users, NEW r, Knows(r), act' = [act EXCEPT ![u] = r]
    PROVE  \A v \in Users : Knows(act'[v])
BY DEF Knows

LEMMA AuthorType == \A a \in ArticleIds : ViewsType /\ article[a] # None =>
                        Author(a) \in Users \cup {None}
BY DEF ViewsType, ArticleRow, Author

LEMMA NotifyType ==
    ASSUME inbox \subseteq InboxRow, NEW u \in Users, NEW about \in LikeIds \cup CommentIds,
           Notify(u, about)
    PROVE  inbox' \subseteq InboxRow
<1>1. [to |-> u, about |-> about, read |-> FALSE] \in InboxRow
  BY DEF InboxRow
<1> QED BY <1>1 DEF Notify

\* Rows that go leave the others.
LEMMA GoneType ==
    ASSUME CommentType, NEW cs, Gone(cs), used \subseteq used'
    PROVE  CommentType'
BY DEF Gone, CommentType

LEMMA InboxRows ==
    ASSUME inbox \subseteq InboxRow, InboxNext
    PROVE  inbox' \subseteq InboxRow
<1>1. ASSUME NEW some \in SUBSET inbox, Read(some) PROVE inbox' \subseteq InboxRow
  <2>1. \A r \in some : [r EXCEPT !.read = TRUE] \in InboxRow
    BY DEF InboxRow
  <2> QED BY <1>1, <2>1 DEF Read
<1>2. ASSUME NEW u, NEW some, Delete(u, some) PROVE inbox' \subseteq InboxRow
  BY <1>2 DEF Delete
<1> QED BY <1>1, <1>2 DEF InboxNext, MarkAllAsRead, MarkAsRead, DeleteAll,
                          DeleteNotification, Mine

\* What a step on articles makes of the requests.
LEMMA ArticleRequests ==
    ASSUME ViewsType, TellsLikes, RowsInv, ArticlesNext
    PROVE  /\ used \subseteq used'
           /\ inbox' \subseteq InboxRow
           /\ \A v \in Users : Knows(act'[v])
<1>1. act = [v \in Users |-> act[v]] /\ (\A v \in Users : Knows(act[v]))
      /\ inbox \subseteq InboxRow
  BY DEF RowsInv, TellsLikes
<1>2. used \subseteq used'
  BY DEF ArticlesNext, CountView, SelectArticle, SaveArticle, MarkViewed, Fails, RemoveLike,
         StoreLike, CreateArticle, ReadArticle, UpdateArticle, ExpireMark, DeleteArticle,
         FindLike, TellLike, rows
<1>3. ASSUME NEW u \in Users, NEW r, act' = [act EXCEPT ![u] = r], Knows(r)
      PROVE  \A v \in Users : Knows(act'[v])
  BY <1>1, <1>2, <1>3, RequestsKnow
<1>4. ASSUME NEW u \in Users, NEW r, act' = [act EXCEPT ![u] = r],
             r.op \notin {"like", "comment", "tell"}
      PROVE  \A v \in Users : Knows(act'[v])
  BY <1>3, <1>4 DEF Knows
<1>5. ASSUME NEW u \in Users, act' = [act EXCEPT ![u] = Quiet]
      PROVE  \A v \in Users : Knows(act'[v])
  BY <1>3, <1>5, QuietKnows
<1>6. ASSUME NEW u \in Users, TellLike(u)
      PROVE  inbox' \subseteq InboxRow /\ \A v \in Users : Knows(act'[v])
  <2>1. /\ act[u].to \in Users /\ act[u].about \in LikeIds
        /\ Notify(act[u].to, act[u].about) /\ act' = [act EXCEPT ![u] = Quiet]
    BY <1>1, <1>6 DEF TellLike, Knows, Ends, Goes
  <2>2. PICK to \in Users, about \in LikeIds : to = act[u].to /\ about = act[u].about
    BY <2>1
  <2>3. Notify(to, about)
    BY <2>1, <2>2
  <2> QED BY <1>1, <1>5, <2>1, <2>3, NotifyType
<1>7. CASE /\ UNCHANGED inboxVars
           /\ \E u \in Users :
                \/ CountView(u) \/ SelectArticle(u) \/ SaveArticle(u) \/ MarkViewed(u)
                \/ Fails(u) \/ RemoveLike(u)
                \/ \E l \in LikeIds : StoreLike(u, l)
                \/ \E a \in ArticleIds :
                    \/ CreateArticle(u, a) \/ ReadArticle(u, a) \/ UpdateArticle(u, a)
                    \/ ExpireMark(u, a) \/ DeleteArticle(u, a) \/ FindLike(u, a)
  <2>1. inbox' \subseteq InboxRow
    BY <1>1, <1>7 DEF inboxVars
  <2>2. PICK u \in Users :
            \/ CountView(u) \/ SelectArticle(u) \/ SaveArticle(u) \/ MarkViewed(u)
            \/ Fails(u) \/ RemoveLike(u)
            \/ \E l \in LikeIds : StoreLike(u, l)
            \/ \E a \in ArticleIds :
                \/ CreateArticle(u, a) \/ ReadArticle(u, a) \/ UpdateArticle(u, a)
                \/ ExpireMark(u, a) \/ DeleteArticle(u, a) \/ FindLike(u, a)
    BY <1>7
  <2>3. CASE CountView(u)
    <3>1. PICK r : r = [act[u] EXCEPT !.op = "select", !.row.views = @ + 1]
      OBVIOUS
    <3>2. act' = [act EXCEPT ![u] = r] /\ act[u].op = "read"
      BY <2>3, <3>1 DEF CountView, Goes
    <3>3. r.op = "select"
      BY <3>1, <3>2 DEF TellsLikes
    <3> QED BY <1>4, <2>1, <3>2, <3>3, <1>2
  <2>4. CASE SelectArticle(u)
    <3>1. ASSUME NEW r, act' = [act EXCEPT ![u] = r], r.op = "update"
          PROVE  \A v \in Users : Knows(act'[v])
      BY <1>4, <3>1
    <3>2. ASSUME NEW a, NEW row, NEW base, NEW ls, NEW bs,
                 act' = [act EXCEPT ![u] = [op |-> "update", on |-> a, row |-> row,
                                            base |-> base, likes |-> ls, baseLikes |-> bs]]
          PROVE  \A v \in Users : Knows(act'[v])
      BY <3>1, <3>2
    <3>3. ASSUME NEW a, NEW row, NEW base,
                 act' = [act EXCEPT ![u] = [op |-> "update", on |-> a, row |-> row, base |-> base]]
          PROVE  \A v \in Users : Knows(act'[v])
      BY <3>1, <3>3
    <3>4. \A v \in Users : Knows(act'[v])
      BY <2>4, <3>2, <3>3 DEF SelectArticle, Goes
    <3> QED BY <1>2, <2>1, <3>4
  <2>5. CASE SaveArticle(u)
    <3>1. PICK r : act' = [act EXCEPT ![u] = r] /\ r \in {Quiet, [op |-> "mark", on |-> act[u].on]}
      BY <2>5 DEF SaveArticle, Goes
    <3>2. r.op \notin {"like", "comment", "tell"}
      BY <3>1 DEF Quiet
    <3> QED BY <1>2, <1>4, <2>1, <3>1, <3>2
  <2>6. CASE MarkViewed(u) \/ Fails(u) \/ RemoveLike(u)
    <3>1. act' = [act EXCEPT ![u] = Quiet]
      BY <2>6 DEF MarkViewed, Fails, RemoveLike, Ends, Goes
    <3> QED BY <1>2, <1>5, <2>1, <3>1
  <2>7. ASSUME NEW l \in LikeIds, StoreLike(u, l)
        PROVE  \A v \in Users : Knows(act'[v])
    <3>1. PICK r : r = [op |-> "tell", to |-> act[u].author, about |-> l]
      OBVIOUS
    <3>2. act' = [act EXCEPT ![u] = r] /\ act[u].author \in Users \cup {None}
      BY <1>1, <2>7, <3>1 DEF StoreLike, Goes, Knows
    <3>3. Knows(r)
      BY <3>1, <3>2 DEF Knows
    <3> QED BY <1>3, <3>2, <3>3
  <2>8. ASSUME NEW a \in ArticleIds,
               CreateArticle(u, a) \/ DeleteArticle(u, a) \/ ExpireMark(u, a)
        PROVE  \A v \in Users : Knows(act'[v])
    <3>1. act' = [act EXCEPT ![u] = Quiet] \/ act' = act
      BY <2>8 DEF CreateArticle, DeleteArticle, ExpireMark, Begins
    <3>2. act' = act => \A v \in Users : Knows(act'[v])
      BY <1>1, <1>2 DEF Knows
    <3> QED BY <1>5, <3>1, <3>2
  <2>9. ASSUME NEW a \in ArticleIds, ReadArticle(u, a) \/ UpdateArticle(u, a)
        PROVE  \A v \in Users : Knows(act'[v])
    <3>1. CASE ReadArticle(u, a)
      <4>1. PICK r : r = [op |-> "read", on |-> a, likes |-> LikesOf(a),
                          row |-> [article[a] EXCEPT !.author = Author(a)]]
        OBVIOUS
      <4>2. act' = [act EXCEPT ![u] = r] /\ r.op = "read"
        BY <3>1, <4>1 DEF ReadArticle, Begins
      <4> QED BY <1>4, <4>2
    <3>2. CASE UpdateArticle(u, a)
      <4>1. PICK r : r = [op |-> "select", on |-> a, row |-> article[a]]
        OBVIOUS
      <4>2. act' = [act EXCEPT ![u] = r] /\ r.op = "select"
        BY <3>2, <4>1 DEF UpdateArticle, Begins
      <4> QED BY <1>4, <4>2
    <3> QED BY <2>9, <3>1, <3>2
  <2>10. ASSUME NEW a \in ArticleIds, FindLike(u, a)
         PROVE  \A v \in Users : Knows(act'[v])
    <3>1. ASSUME act' = [act EXCEPT ![u] = [op |-> "like", on |-> a, author |-> Author(a)]]
          PROVE  \A v \in Users : Knows(act'[v])
      <4>1. PICK r : r = [op |-> "like", on |-> a, author |-> Author(a)]
        OBVIOUS
      <4>2. Author(a) \in Users \cup {None}
        BY <2>10, AuthorType DEF FindLike
      <4>3. Knows(r)
        BY <4>1, <4>2 DEF Knows
      <4> QED BY <1>3, <3>1, <4>1, <4>3
    <3>2. ASSUME NEW l, act' = [act EXCEPT ![u] = [op |-> "unlike", on |-> a, like |-> l]]
          PROVE  \A v \in Users : Knows(act'[v])
      <4>1. PICK r : r = [op |-> "unlike", on |-> a, like |-> l]
        OBVIOUS
      <4> QED BY <1>4, <3>2, <4>1
    <3> QED BY <2>10, <3>1, <3>2 DEF FindLike, Begins
  <2> QED BY <1>2, <2>1, <2>2, <2>3, <2>4, <2>5, <2>6, <2>7, <2>8, <2>9, <2>10
<1> QED BY <1>1, <1>2, <1>6, <1>7 DEF ArticlesNext

LEMMA RowsStep ==
    ASSUME ViewsType, CommentsInv, RowsInv, CommentsNext
    PROVE  RowsInv'
<1>1. /\ act = [v \in Users |-> act[v]] /\ \A v \in Users : Knows(act[v])
      /\ inbox \subseteq InboxRow /\ CommentType /\ TellsLikes
      /\ \A e \in edits : e.comment \in CommentIds \cap used
  BY DEF RowsInv, TellsLikes, CommentsInv, GivenIds
<1>2. ASSUME NEW u \in Users, NEW r, act' = [act EXCEPT ![u] = r], Knows(r),
             used \subseteq used', inbox' \subseteq InboxRow, CommentType'
      PROVE  RowsInv'
  BY <1>1, <1>2, RequestsKnow DEF RowsInv
<1>3. CASE ArticlesNext /\ Cascade /\ UNCHANGED edits
  <2>1. used \subseteq used' /\ inbox' \subseteq InboxRow
        /\ \A v \in Users : Knows(act'[v])
    BY <1>1, <1>3, ArticleRequests
  <2>2. \E cs : Gone(cs)
    BY <1>3 DEF Cascade
  <2>3. CommentType'
    BY <1>1, <2>1, <2>2, GoneType
  <2> QED BY <2>1, <2>3 DEF RowsInv
<1>4. CASE InboxNext /\ UNCHANGED <<articlesVars, commentsVars>>
  <2>1. UNCHANGED <<act, used, comments>>
    BY <1>4 DEF articlesVars, commentsVars, rows
  <2>2. inbox' \subseteq InboxRow
    BY <1>1, <1>4, InboxRows
  <2> QED BY <1>1, <2>1, <2>2 DEF RowsInv, CommentType
<1>5. ASSUME NEW e \in edits, SaveComment(e) PROVE RowsInv'
  <2>1. PICK c : c = e.comment
    OBVIOUS
  <2>2. /\ c \in CommentIds /\ c \in used
        /\ comments' = [comments EXCEPT ![c] =
                            IF @ # None THEN @ ELSE [by |-> e.by, on |-> None, parent |-> None]]
        /\ UNCHANGED <<act, used, inbox>>
    BY <1>1, <1>5, <2>1 DEF SaveComment, rows, inboxVars, articlesVars
  <2>3. CommentType'
    BY <1>1, <2>2 DEF CommentType
  <2> QED BY <1>1, <2>2, <2>3 DEF RowsInv
<1>6. ASSUME NEW u \in Users, NEW a \in ArticleIds, NEW p, BeginComment(u, a, p) PROVE RowsInv'
  <2>1. PICK r : r = [op |-> "comment", on |-> a, parent |-> p, author |-> Author(a)]
    OBVIOUS
  <2>2. act' = [act EXCEPT ![u] = r] /\ UNCHANGED <<used, inbox, comments>>
    BY <1>6, <2>1 DEF BeginComment, Begins, rows, inboxVars, commentsVars
  <2>3. Author(a) \in Users \cup {None}
    BY <1>6, AuthorType DEF BeginComment
  <2>4. Knows(r)
    BY <2>1, <2>3 DEF Knows
  <2>5. CommentType'
    BY <1>1, <2>2 DEF CommentType
  <2> QED BY <1>1, <1>2, <2>2, <2>4, <2>5
<1>7. ASSUME NEW u \in Users, NEW c \in CommentIds, CommitComment(u, c) PROVE RowsInv'
  <2>1. PICK r : r = act[u]
    OBVIOUS
  <2>2. /\ r.author \in Users /\ r.on \in ArticleIds
        /\ comments' = [comments EXCEPT ![c] = [by |-> u, on |-> r.on, parent |-> r.parent]]
        /\ used' = used \cup {c} /\ act' = [act EXCEPT ![u] = Quiet]
        /\ Notify(r.author, c) \/ UNCHANGED inbox
    BY <1>1, <1>7, <2>1 DEF CommitComment, Knows, Ends, Goes, inboxVars
  <2>3. inbox' \subseteq InboxRow
    BY <1>1, <2>2, NotifyType
  <2>4. CommentType'
    BY <1>1, <2>2 DEF CommentType
  <2> QED BY <1>2, <2>2, <2>3, <2>4, QuietKnows
<1>8. ASSUME NEW u \in Users, NEW c \in CommentIds, DeleteComment(u, c) \/ UpdateComment(u, c)
      PROVE  RowsInv'
  <2>1. /\ Gone({c}) \/ UNCHANGED comments
        /\ act' = [act EXCEPT ![u] = Quiet] /\ UNCHANGED <<used, inbox>>
    BY <1>8 DEF DeleteComment, UpdateComment, Begins, rows, inboxVars
  <2>2. CommentType'
    BY <1>1, <2>1, GoneType DEF CommentType
  <2> QED BY <1>1, <1>2, <2>1, <2>2, QuietKnows
<1> QED BY <1>3, <1>4, <1>5, <1>6, <1>7, <1>8 DEF CommentsNext

LEMMA RowsAlways == Spec => []RowsInv
<1>1. Init => RowsInv
  BY RowsInit DEF Init
<1>2. ViewsInv /\ CommentsInv /\ RowsInv /\ [Next]_siteVars => RowsInv'
  <2>1. RowsInv /\ UNCHANGED posts => RowsInv'
    BY DEF RowsInv, CommentType, posts, articlesVars, commentsVars, inboxVars, rows
  <2>2. [Next]_siteVars => CommentsNext \/ UNCHANGED posts
    BY DEF Next, siteVars, People, SignUps, Posts, Browse, Chats, Pages, Queries
  <2> QED BY <2>1, <2>2, RowsStep DEF ViewsInv
<1> QED BY <1>1, <1>2, ViewsAlways, CommentsAlways, PTL DEF Spec

\* Every code mailed was drawn for an address that asked.
MailType == mailbox \subseteq Addresses \X Codes

LEMMA MailAlways == Spec => []MailType
<1>1. Init => MailType
  BY DEF Init, EmailCodesInit, MailType
<1>2. CodesInv /\ MailType /\ [Next]_siteVars => MailType'
  <2> SUFFICES ASSUME CodesInv, MailType, [Next]_siteVars PROVE MailType'
    OBVIOUS
  <2>1. ASSUME NEW a \in Asks, Mail(a) PROVE MailType'
    <3>1. ask[a].email \in Addresses /\ ask[a].code \in Codes
      BY <2>1, FreeIsFree DEF Mail, CodesInv, CodesType
    <3> QED BY <2>1, <3>1 DEF Mail, MailType
  <2>2. CASE EmailCodesNext
    <3>1. (\E a \in Asks : Mail(a)) \/ UNCHANGED mailbox
      BY <2>2 DEF EmailCodesNext, SendCode, VerifyCode, SaveEmailCode, AskFails,
                  DeleteEmailCode, ExpireCode
    <3> QED BY <2>1, <3>1 DEF MailType
  <2>3. EmailCodesNext \/ UNCHANGED mailbox
    BY DEF Next, siteVars, People, SignUps, Posts, Browse, Chats, Pages, Queries, emailCodesVars
  <2> QED BY <2>2, <2>3 DEF MailType
<1> QED BY <1>1, <1>2, CodesAlways, PTL DEF Spec

TimesType == \A m \in Ids : at[m] <= clock

LEMMA TimesAlways == Spec => []TimesType
<1>1. Init => TimesType
  <2>1. HistoryInit => \A m \in Ids : at[m] = 0 /\ clock = 0
    BY DEF HistoryInit
  <2>2. HistoryInit => TimesType
    BY <2>1 DEF TimesType
  <2> QED BY <2>2 DEF Init
<1>2. HistoryInv /\ TimesType /\ [Next]_siteVars => TimesType'
  <2> SUFFICES ASSUME HistoryInv, TimesType, [Next]_siteVars PROVE TimesType'
    OBVIOUS
  <2>1. clock \in Nat /\ at \in [Ids -> Nat]
    BY DEF HistoryInv, HistoryType
  <2>2. ASSUME NEW later \in {0, 1}, SendMessage(later) PROVE TimesType'
    <3>1. clock' = clock + later /\ at' = [at EXCEPT ![sent'] = clock']
      BY <2>2 DEF SendMessage
    <3>2. \A m \in Ids : at'[m] = at[m] \/ at'[m] = clock'
      BY <2>1, <3>1
    <3> QED BY <2>1, <3>1, <3>2 DEF TimesType
  <2>3. CASE HistoryNext
    <3>1. (\E later \in {0, 1} : SendMessage(later)) \/ UNCHANGED <<at, clock>>
      BY <2>3 DEF HistoryNext, OpenRoom, LastPage, CloseRoom, StoreMessage, FullPage
    <3> QED BY <2>2, <3>1 DEF TimesType
  <2>4. HistoryNext \/ UNCHANGED <<at, clock>>
    BY DEF Next, siteVars, People, SignUps, Posts, Browse, Chats, Pages, Queries, historyVars
  <2> QED BY <2>3, <2>4 DEF TimesType
<1> QED BY <1>1, <1>2, HistoryAlways, PTL DEF Spec

CallsType == \A r \in Requests : outside[r] <= 2

LEMMA CallsAlways == Spec => []CallsType
<1>1. Init => CallsType
  <2>1. PoolInit => \A r \in Requests : outside[r] = 0
    BY DEF PoolInit
  <2>2. PoolInit => CallsType
    BY <2>1 DEF CallsType
  <2> QED BY <2>2 DEF Init
<1>2. PoolInv /\ CallsType /\ [Next]_siteVars => CallsType'
  <2> SUFFICES ASSUME PoolInv, CallsType, [Next]_siteVars PROVE CallsType'
    OBVIOUS
  <2>1. outside \in [Requests -> Nat] /\ \A h \in Handlers : Outside[h] \in {0, 1, 2}
    BY DEF PoolInv, PoolType, Handlers, Outside
  <2>2. ASSUME NEW q \in Requests, NEW n \in Nat, n <= 2, outside' = [outside EXCEPT ![q] = n]
        PROVE  CallsType'
    BY <2>1, <2>2 DEF CallsType
  <2>3. CASE PoolNext
    <3>1. PICK q \in Requests : (\E h \in Handlers : StartHandler(q, h)) \/ CallOutside(q)
                                \/ CallEnds(q) \/ EndHandler(q)
      BY <2>3 DEF PoolNext
    <3>2. ASSUME NEW h \in Handlers, StartHandler(q, h) PROVE CallsType'
      <4>1. PICK n : n = Outside[h]
        OBVIOUS
      <4>2. n \in Nat /\ n <= 2 /\ outside' = [outside EXCEPT ![q] = n]
        BY <2>1, <3>2, <4>1 DEF StartHandler
      <4> QED BY <2>2, <4>2
    <3>3. CASE CallOutside(q)
      <4>1. PICK n : n = outside[q] - 1
        OBVIOUS
      <4>2. n \in Nat /\ n <= 2 /\ outside' = [outside EXCEPT ![q] = n]
        BY <2>1, <3>3, <4>1 DEF CallOutside, CallsType
      <4> QED BY <2>2, <4>2
    <3>4. CASE CallEnds(q)
      BY <3>4 DEF CallEnds, CallsType
    <3>5. CASE EndHandler(q)
      <4>1. PICK n : n = 0
        OBVIOUS
      <4>2. n \in Nat /\ n <= 2 /\ outside' = [outside EXCEPT ![q] = n]
        BY <3>5, <4>1 DEF EndHandler
      <4> QED BY <2>2, <4>2
    <3> QED BY <3>1, <3>2, <3>3, <3>4, <3>5
  <2>4. PoolNext \/ UNCHANGED outside
    BY DEF Next, siteVars, People, SignUps, Posts, Browse, Chats, Pages, Queries, poolVars
  <2> QED BY <2>3, <2>4 DEF CallsType
<1> QED BY <1>1, <1>2, PoolAlways, PTL DEF Spec

(* For every instance of the site: rows are of their types whoever wrote   *)
(* them and however late, the account a social identity, a token or a      *)
(* request in flight names exists, likes and comments have ids given to    *)
(* them before, also one that was inserted again, and a notification goes  *)
(* to a user and is about a like or a comment                              *)
(* (user.entity.ts, article.entity.ts, comment.entity.ts, like.entity.ts,  *)
(* fcm.entity.ts, notification.entity.ts, chat-message.schema.ts).         *)
THEOREM SiteTypeCorrect == Spec => []TypeOK
<1>1. ASSUME PeopleInv, CodesInv, MailType, CommentsInv, RowsInv, ViewsInv, LikesInv, DevicesInv,
             HistoryInv, TimesType, PagesInv, PoolInv, CallsType
      PROVE  TypeOK
  <2>1. /\ account \in [Users -> Account \cup {NoRow}]
        /\ social \subseteq Emails \X {u \in Users : Exists(u)}
        /\ mentorToken \cup published \cup accepted \cup withdrawn \cup raced
             \subseteq {u \in Users : Exists(u)}
    BY <1>1 DEF PeopleInv, AccountsInv, Existing
  <2>2. \A c \in Clients : req[c].op \in {"idle", "join", "create", "link", "loaded",
                                          "save", "apply", "accept", "reject", "withdraw"}
    BY <1>1 DEF PeopleInv, Shape, Ops, Writing
  <2>3. \A c \in Clients : "user" \in DOMAIN req[c] => Exists(req[c].user)
    BY <1>1 DEF PeopleInv, Shape
  <2>4. /\ stored \in [Addresses -> Codes \cup {NoCode}]
        /\ mailbox \cup verified \subseteq Addresses \X Codes
    BY <1>1 DEF CodesInv, CodesType, VerifiedWasMailed, MailType
  <2>5. inbox \subseteq [to : Users, about : LikeIds \cup CommentIds, read : BOOLEAN]
    BY <1>1 DEF RowsInv, InboxRow
  <2>6. \A a \in ArticleIds :
          article[a] # None => article[a].author \in Users \cup {None} /\ article[a].views \in Nat
    BY <1>1 DEF ViewsInv, ViewsType, ArticleRow
  <2>7. \A l \in LikeIds :
          likes[l] # None => l \in used /\ likes[l].on \in ArticleIds \cup {None}
    BY <1>1 DEF LikesInv, LikesType, LikeRow
  <2>8. \A c \in CommentIds :
          comments[c] # None => c \in used /\ comments[c].on \in ArticleIds \cup {None}
    BY <1>1 DEF RowsInv, CommentType
  <2>16. \A e \in edits : e.by \in Users /\ e.comment \in CommentIds \cap used
    BY <1>1 DEF CommentsInv, GivenIds
  <2>9. tokens \subseteq [id : 0 .. nextToken - 1, user : Users, token : Browsers]
    <3> SUFFICES ASSUME NEW t \in tokens
                 PROVE  t \in [id : 0 .. nextToken - 1, user : Users, token : Browsers]
      OBVIOUS
    <3>1. t \in TokenRow /\ t.id < nextToken /\ nextToken \in Nat
      BY <1>1 DEF DevicesInv, DevicesType, IdsStand
    <3>2. t.id \in 0 .. nextToken - 1
      BY <3>1 DEF TokenRow
    <3> QED BY <3>1, <3>2 DEF TokenRow
  <2>10. owner \in [Browsers -> Users \cup {Nobody}]
    BY <1>1 DEF DevicesInv, DevicesType
  <2>11. kept \subseteq 1 .. sent
    BY <1>1 DEF HistoryInv, HistoryType
  <2>12. at \in [Ids -> 0 .. clock]
    <3>1. clock \in Nat /\ at \in [Ids -> Nat]
      BY <1>1 DEF HistoryInv, HistoryType
    <3>2. \A m \in Ids : at[m] \in 0 .. clock
      BY <1>1, <3>1 DEF TimesType
    <3> QED BY <3>1, <3>2
  <2>13. \A i \in RowIds : Present(i) => i <= created
    BY <1>1 DEF PagesInv, ListType, Present, RowIds
  <2>14. /\ lent \in [Connections -> Requests \cup {NoOne}]
         /\ queued \subseteq Requests
         /\ handler \in [Requests -> Handlers \cup {"none"}]
    BY <1>1 DEF PoolInv, PoolType
  <2>15. outside \in [Requests -> 0 .. 2]
    <3>1. outside \in [Requests -> Nat]
      BY <1>1 DEF PoolInv, PoolType
    <3>2. \A r \in Requests : outside[r] \in 0 .. 2
      BY <1>1, <3>1 DEF CallsType
    <3> QED BY <3>1, <3>2
  <2> QED BY <2>1, <2>2, <2>3, <2>4, <2>5, <2>6, <2>7, <2>8, <2>9, <2>10, <2>11, <2>12,
             <2>13, <2>14, <2>15, <2>16 DEF TypeOK
<1>2. DecisionsInv => PeopleInv
  BY DEF DecisionsInv
<1> QED BY <1>1, <1>2, DecisionsAlways, CodesAlways, MailAlways, CommentsAlways, RowsAlways,
           ViewsAlways, LikesAlways, DevicesAlways, HistoryAlways, TimesAlways, PagesAlways, PoolAlways,
           CallsAlways, PTL
=============================================================================
