-------------------------- MODULE GoogleSignInProofs --------------------------
(***************************************************************************)
(* What holds of GoogleSignIn for any number of tabs, sign-ins, requests,  *)
(* accounts, emails and faults.                                            *)
(***************************************************************************)
EXTENDS GoogleSignIn, FiniteSetTheorems, TLAPS

USE GoogleSignInAssumption DEF GoogleSignInAssumption
USE DEF vars, database, store, browser, google, history

----------------------------------------------------------------------------
(* The inductive invariant *)

\* A callback between the state it took and its redirect.
Busy(c) == call[c].at \in {"exchange", "find", "update", "byEmail", "link", "create", "handoff"}

\* A callback that found, linked or created its user.
Knows(c) == call[c].at = "handoff" \/ call[c].result = "ok"

Linked(email) == \E s \in Sub : owner[s] = email

\* Whoever the user was when a callback arrived, the user still is.
Picked(c) ==
  /\ Busy(c) \/ call[c].at = "take" \/ call[c].result \in {"ok", "account_conflict"}
       => call[c].of \in SignIn /\ chosen[call[c].of] \in Identity
  /\ call[c].result # None => call[c].at = "done"

\* The user a callback is for is the account's.
HasUser(c) ==
  /\ call[c].at = "update" => owner[Who(c).sub] # None
  /\ Knows(c) => /\ owner[Who(c).sub] # None /\ call[c].user = owner[Who(c).sub]
                 /\ call[c].refresh => offline[Who(c).sub]

\* What a callback that is about to link or create may find, and what one that
\* was refused by a constraint will.
Races(c) ==
  /\ call[c].at = "link" => Who(c).email \in users
  /\ call[c].at = "create" /\ Who(c).email \in users => Linked(Who(c).email)
  /\ call[c].at = "find" /\ call[c].attempt = 1 => owner[Who(c).sub] # None \/ Linked(Who(c).email)
  /\ call[c].at = "byEmail" /\ call[c].attempt = 1 => Linked(Who(c).email)
  /\ call[c].at \in {"new", "take", "exchange", "link", "create"} => call[c].attempt = 0
  /\ call[c].result # "google_failed"

\* No snapshot: only an overtaken callback can see a connection it did not find.
Overtaking(c) ==
  /\ call[c].at = "byEmail" => call[c].overtaken \/ owner[Who(c).sub] = None
  /\ call[c].result = "account_conflict" =>
       call[c].overtaken \/ \E s \in Sub \ {Who(c).sub} : owner[s] = Who(c).email

CallInv(c) == Picked(c) /\ HasUser(c) /\ Races(c) /\ Overtaking(c)

\* A sign-in has a state in the store, or one callback, or a code, or none of them.
OneAtATime ==
  /\ \A f \in SignIn : pending[f] # "none" => made[f] = 0
  /\ \A c \in Call : Busy(c) => pending[call[c].of] = "none" /\ made[call[c].of] = 0
  /\ \A c, d \in Call : Busy(c) /\ Busy(d) /\ call[c].of = call[d].of => c = d

\* ... and a code is in the store, or was traded, at most once ...
CodesOnce ==
  \A f \in SignIn :
    /\ made[f] \in {0, 1}
    /\ made[f] = 0 \/ handoff[f] # "none" => sessions[f] = {}
    /\ made[f] = 0 => handoff[f] = "none"
    /\ \A s, r \in sessions[f] : s = r

\* ... for the user of the account, by the tab that began.
CodesHaveUsers ==
  \A f \in SignIn :
    /\ made[f] # 0 => /\ chosen[f] \in Identity /\ owner[chosen[f].sub] # None
                      /\ handoffUser[f] = owner[chosen[f].sub]
    /\ \A s \in sessions[f] : s[1] = starter[f] /\ s[2] = handoffUser[f]

\* The nonce of a tab is that of a sign-in it started.
NoncesAreOwn ==
  \A t \in Tab : /\ nonce[t] # None => starter[nonce[t]] = t
                 /\ page[t].nonce # None => starter[page[t].nonce] = t

SignInInv == (\A c \in Call : CallInv(c)) /\ OneAtATime /\ CodesOnce /\ CodesHaveUsers /\ NoncesAreOwn

----------------------------------------------------------------------------
(* Types *)

\* What the actions read of an identity is what the constants promise.
LEMMA Identities ==
  /\ \A i \in Identity : i.sub \in Sub /\ i.email \in Email /\ i.email # None
  /\ Nobody \notin Identity /\ Denied \notin Identity /\ Nobody # Denied
  <1>1. \A i \in Identity : i.sub \in Sub /\ i.email \in Email /\ i.email # None
    BY DEF Sub, Email
  <1>2. Nobody.email = None /\ Denied.email = None /\ Nobody.sub # Denied.sub
    BY DEF Nobody, Denied, None
  <1> QED
    BY <1>1, <1>2

\* A callback stays one when a column of it changes.
LEMMA Updates ==
  ASSUME NEW r \in CallRecord
  PROVE  /\ \A x \in Places : [r EXCEPT !.at = x] \in CallRecord
         /\ \A x \in {0, 1} : [r EXCEPT !.attempt = x] \in CallRecord
         /\ \A x \in BOOLEAN : [r EXCEPT !.refresh = x] \in CallRecord
         /\ \A x \in BOOLEAN : [r EXCEPT !.overtaken = x] \in CallRecord
         /\ \A x \in users \cup {None} : [r EXCEPT !.user = x] \in CallRecord
         /\ \A x \in Results : [r EXCEPT !.result = x] \in CallRecord
         /\ \A x \in SignIn : [r EXCEPT !.of = x] \in CallRecord
  BY DEF CallRecord

LEMMA NewRecord == NewCall \in CallRecord
  BY DEF NewCall, CallRecord, Places, Results

LEMMA InitTypes == Init => TypeOK
  <1> SUFFICES ASSUME Init PROVE TypeOK
    OBVIOUS
  <1>1. NewCall \in CallRecord
    BY NewRecord
  <1>2. call \in [Call -> CallRecord]
    BY <1>1 DEF Init
  <1>3. page \in [Tab -> [code : SignIn \cup {None}, nonce : SignIn \cup {None}]]
    BY DEF Init
  <1>4. pending \in [SignIn -> {"none", "fresh", "stale"}] /\ handoff \in [SignIn -> {"none", "fresh", "stale"}]
    BY DEF Init
  <1>5. faults \in 0..MaxFaults /\ made \in [SignIn -> Nat] /\ sessions \in [SignIn -> SUBSET (Tab \X users)]
    BY DEF Init
  <1>6. users \subseteq User /\ owner \in [Sub -> users \cup {None}] /\ offline \in [Sub -> BOOLEAN]
    BY DEF Init, User
  <1> QED
    BY <1>2, <1>3, <1>4, <1>5, <1>6 DEF Init, TypeOK

\* Where a callback may go.
LEMMA Records ==
  ASSUME TypeOK, NEW c \in Call
  PROVE  /\ call[c] \in CallRecord
         /\ \A where \in Places : At(c, where) \in CallRecord
         /\ \A result \in Results : Ends(c, result) \in CallRecord
  <1>1. call[c] \in CallRecord
    BY DEF TypeOK
  <1>2. \A where \in Places : At(c, where) \in CallRecord
    BY <1>1, Updates DEF At
  <1>3. ASSUME NEW result \in Results PROVE Ends(c, result) \in CallRecord
    <2>1. At(c, "done") \in CallRecord
      BY <1>2 DEF Places
    <2>2. Ends(c, result) = [At(c, "done") EXCEPT !.result = result]
      BY <1>1 DEF Ends, At, CallRecord
    <2> QED
      BY <2>1, <2>2, Updates
  <1> QED
    BY <1>1, <1>2, <1>3

\* A record stays one when a user is added.
LEMMA MoreUsers == users \subseteq users' => CallRecord \subseteq CallRecord'
  BY DEF CallRecord

LEMMA Goes ==
  ASSUME TypeOK, NEW c \in Call, NEW from, NEW with \in CallRecord, Goto(c, from, with)
  PROVE  call' \in [Call -> CallRecord]
  BY DEF TypeOK, Goto

LEMMA StepTypes == TypeOK /\ SignInInv /\ [Next]_vars => TypeOK'
  <1> SUFFICES ASSUME TypeOK, \A c \in Call : Picked(c) /\ Races(c), CodesOnce, CodesHaveUsers,
                      [Next]_vars
               PROVE  TypeOK'
    BY DEF SignInInv, CallInv
  <1> USE Identities
  <1>1. ASSUME NEW t \in Tab, NEW f \in SignIn, Start(t, f) PROVE TypeOK'
    BY <1>1 DEF Start, TypeOK, CallRecord
  <1>2. ASSUME NEW t \in Tab, NEW f \in SignIn, OpenLink(t, f) PROVE TypeOK'
    BY <1>2 DEF OpenLink, TypeOK, CallRecord
  <1>3. ASSUME NEW f \in SignIn, Authorize(f) PROVE TypeOK'
    BY <1>3 DEF Authorize, Put, TypeOK, CallRecord
  <1>4. ASSUME NEW f \in SignIn, Expire(f) PROVE TypeOK'
    BY <1>4 DEF Expire, TypeOK, CallRecord
  <1>5. ASSUME NEW f \in SignIn, NEW i \in Identity \cup {Denied}, Choose(f, i) PROVE TypeOK'
    BY <1>5 DEF Choose, TypeOK, CallRecord
  <1>6. ASSUME NEW c \in Call, TakeState(c) PROVE TypeOK'
    <2>1. call' \in [Call -> CallRecord]
      BY <1>6, Records, Goes DEF TakeState, Places, Results
    <2> QED
      BY <1>6, <2>1 DEF TakeState, TypeOK, CallRecord
  <1>7. ASSUME NEW c \in Call, ExchangeCode(c) PROVE TypeOK'
    <2>1. call[c].at = "exchange" /\ Who(c) \in Identity
      BY <1>7 DEF ExchangeCode, Goto, Who, Picked, Busy
    <2>2. [At(c, "find") EXCEPT !.refresh = Who(c).sub \notin consented] \in CallRecord
      <3>1. At(c, "find") \in CallRecord
        BY Records DEF Places
      <3> QED
        BY <3>1, Updates
    <2>3. call' \in [Call -> CallRecord]
      BY <1>7, <2>2, Records, Goes DEF ExchangeCode, Results
    <2> QED
      BY <1>7, <2>1, <2>3 DEF ExchangeCode, TypeOK, CallRecord
  <1>8. ASSUME NEW c \in Call, FindConnection(c) PROVE TypeOK'
    <2>1. \A where \in Places : [call[c] EXCEPT !.overtaken = FALSE, !.at = where] \in CallRecord
      BY Records, ZenonT(60) DEF CallRecord
    <2>2. call' \in [Call -> CallRecord]
      BY <1>8, <2>1, Goes DEF FindConnection, Places
    <2> QED
      BY <1>8, <2>2 DEF FindConnection, TypeOK, CallRecord
  <1>9. ASSUME NEW c \in Call, UpdateConnection(c) PROVE TypeOK'
    <2>1. call[c].at = "update" /\ Who(c).sub \in Sub
      BY <1>9 DEF UpdateConnection, Goto, Who, Picked, Busy
    <2>2. [At(c, "handoff") EXCEPT !.user = owner[Who(c).sub]] \in CallRecord
      <3>1. At(c, "handoff") \in CallRecord /\ owner[Who(c).sub] \in users \cup {None}
        BY <2>1, Records DEF TypeOK, Places
      <3> QED
        BY <3>1, Updates
    <2>3. call' \in [Call -> CallRecord]
      BY <1>9, <2>2, Goes DEF UpdateConnection
    <2>4. offline' \in [Sub -> BOOLEAN]
      BY <1>9, <2>1, Records DEF UpdateConnection, TypeOK, CallRecord
    <2> QED
      BY <1>9, <2>3, <2>4 DEF UpdateConnection, TypeOK, CallRecord
  <1>10. ASSUME NEW c \in Call, FindByEmail(c) PROVE TypeOK'
    <2>1. call' \in [Call -> CallRecord]
      BY <1>10, Records, Goes DEF FindByEmail, Places, Results
    <2> QED
      BY <1>10, <2>1 DEF FindByEmail, TypeOK, CallRecord
  <1>11. ASSUME NEW c \in Call, Violation(c) PROVE call' \in [Call -> CallRecord]
    <2>1. [call[c] EXCEPT !.at = "find", !.attempt = 1] \in CallRecord
      <3>1. At(c, "find") \in CallRecord
        BY Records DEF Places
      <3>2. [call[c] EXCEPT !.at = "find", !.attempt = 1] = [At(c, "find") EXCEPT !.attempt = 1]
        BY Records DEF At, CallRecord
      <3> QED
        BY <3>1, <3>2, Updates
    <2>2. Ends(c, "google_failed") \in CallRecord
      BY Records DEF Results
    <2> QED
      BY <1>11, <2>1, <2>2 DEF Violation, TypeOK
  <1>12. ASSUME NEW c \in Call, call[c].at \in {"link", "create"}, Insert(c),
                users \subseteq users', Who(c).email \in users'
         PROVE  /\ call' \in [Call -> CallRecord'] /\ owner' \in [Sub -> users' \cup {None}]
                /\ offline' \in [Sub -> BOOLEAN]
    <2>1. Who(c).sub \in Sub
      BY <1>12 DEF Who, Picked, Busy
    <2>2. [At(c, "handoff") EXCEPT !.user = Who(c).email] \in CallRecord'
      <3>1. At(c, "handoff") \in CallRecord'
        BY <1>12, Records, MoreUsers DEF Places
      <3> QED
        BY <1>12, <3>1 DEF CallRecord
    <2>3. \A d \in Call : call[d] \in CallRecord' /\ [call[d] EXCEPT !.overtaken = TRUE] \in CallRecord'
      BY <1>12, Records, ZenonT(60) DEF CallRecord
    <2>4. call' \in [Call -> CallRecord']
      BY <1>12, <2>2, <2>3 DEF Insert
    <2>5. owner' \in [Sub -> users' \cup {None}] /\ offline' \in [Sub -> BOOLEAN]
      BY <1>12, <2>1, Records DEF Insert, TypeOK, CallRecord
    <2> QED
      BY <2>4, <2>5
  <1>13. ASSUME NEW c \in Call, Link(c) PROVE TypeOK'
    <2>1. CASE Insert(c)
      <3>1. call[c].at = "link" /\ Who(c).email \in users' /\ users' = users
        BY <1>13 DEF Link, Races
      <3> QED
        BY <1>12, <1>13, <2>1, <3>1 DEF Link, TypeOK
    <2>2. CASE Violation(c) /\ UNCHANGED <<owner, offline>>
      BY <1>11, <1>13, <2>2 DEF Link, TypeOK, CallRecord
    <2> QED
      BY <1>13, <2>1, <2>2 DEF Link
  <1>14. ASSUME NEW c \in Call, Create(c) PROVE TypeOK'
    <2>1. Who(c).email \in Email
      BY <1>14 DEF Create, Who, Picked, Busy
    <2>2. CASE Insert(c) /\ users' = users \cup {Who(c).email}
      <3>1. /\ call' \in [Call -> CallRecord'] /\ owner' \in [Sub -> users' \cup {None}]
            /\ offline' \in [Sub -> BOOLEAN]
        BY <1>12, <1>14, <2>2 DEF Create
      <3> QED
        BY <1>14, <2>1, <2>2, <3>1 DEF Create, TypeOK, User
    <2>3. CASE Violation(c) /\ UNCHANGED database
      BY <1>11, <1>14, <2>3 DEF Create, TypeOK, CallRecord
    <2> QED
      BY <1>14, <2>2, <2>3 DEF Create
  <1>15. ASSUME NEW c \in Call, PutHandoff(c) PROVE TypeOK'
    <2>1. call[c].at = "handoff" /\ call[c].of \in SignIn
      BY <1>15 DEF PutHandoff, Goto, Picked, Busy
    <2>2. call' \in [Call -> CallRecord]
      BY <1>15, Records, Goes DEF PutHandoff, Results
    <2>3. call[c].user \in users \cup {None}
      BY Records DEF CallRecord
    <2> QED
      BY <1>15, <2>1, <2>2, <2>3 DEF PutHandoff, Put, TypeOK, CallRecord
  <1>16. ASSUME NEW c \in Call, CallFails(c) PROVE TypeOK'
    <2>1. call' \in [Call -> CallRecord]
      BY <1>16, Records DEF CallFails, Results, TypeOK
    <2> QED
      BY <1>16, <2>1 DEF CallFails, TypeOK, CallRecord
  <1>17. ASSUME NEW c \in Call, NEW f \in SignIn, Arrive(c, f) PROVE TypeOK'
    <2>1. /\ [NewCall EXCEPT !.at = "done", !.of = f, !.result = "access_denied"] \in CallRecord
          /\ [NewCall EXCEPT !.at = "take", !.of = f] \in CallRecord
      BY DEF NewCall, CallRecord, Places, Results, None
    <2>2. call' \in [Call -> CallRecord]
      BY <1>17, <2>1, Goes DEF Arrive
    <2> QED
      BY <1>17, <2>2 DEF Arrive, TypeOK, CallRecord
  <1>18. ASSUME NEW t \in Tab, Exchange(t) PROVE TypeOK'
    <2>1. PICK f \in SignIn : f = page[t].code
      BY <1>18 DEF Exchange, TypeOK
    <2>2. handoff[f] = "fresh" => handoffUser[f] \in users
      BY DEF TypeOK, CodesOnce, CodesHaveUsers
    <2>3. sessions' \in [SignIn -> SUBSET (Tab \X users)]
      BY <1>18, <2>1, <2>2 DEF Exchange, TypeOK
    <2>4. page' \in [Tab -> [code : SignIn \cup {None}, nonce : SignIn \cup {None}]]
      BY <1>18 DEF Exchange, Resting, TypeOK
    <2> QED
      BY <1>18, <2>1, <2>3, <2>4 DEF Exchange, TypeOK, CallRecord
  <1>19. ASSUME NEW t \in Tab, ExchangeLost(t) PROVE TypeOK'
    BY <1>19 DEF ExchangeLost, Resting, TypeOK, CallRecord
  <1>20. CASE Alarm
    BY <1>20 DEF Alarm, Holds, TypeOK, CallRecord
  <1>21. CASE UNCHANGED vars
    BY <1>21 DEF TypeOK, CallRecord
  <1> QED
    BY <1>1, <1>2, <1>3, <1>4, <1>5, <1>6, <1>7, <1>8, <1>9, <1>10, <1>13, <1>14,
       <1>15, <1>16, <1>17, <1>18, <1>19, <1>20, <1>21
    DEF Next, Browse, handleCallback, upsertUser, exchangeHandoff
----------------------------------------------------------------------------
(* The invariant *)

LEMMA InitInv == Init => SignInInv
  <1> SUFFICES ASSUME Init PROVE SignInInv
    OBVIOUS
  <1>1. \A c \in Call : call[c].at = "new" /\ call[c].result = None /\ call[c].attempt = 0
    BY DEF Init, NewCall
  <1>2. \A c \in Call : CallInv(c) /\ ~Busy(c)
    BY <1>1 DEF CallInv, Picked, HasUser, Races, Overtaking, Busy, Knows, None
  <1>3. OneAtATime /\ CodesOnce /\ CodesHaveUsers /\ NoncesAreOwn
    BY <1>2 DEF Init, OneAtATime, CodesOnce, CodesHaveUsers, NoncesAreOwn
  <1> QED
    BY <1>2, <1>3 DEF SignInInv

\* What a callback keeps of itself when another one moves: all but that it was
\* overtaken.
Keeps(d) ==
  /\ call[d].at' = call[d].at /\ call[d].of' = call[d].of /\ call[d].attempt' = call[d].attempt
  /\ call[d].refresh' = call[d].refresh /\ call[d].user' = call[d].user
  /\ call[d].result' = call[d].result /\ (call[d].overtaken => call[d].overtaken')

\* Connections stay, and a new user has one.
Grows ==
  /\ \A s \in Sub : owner[s] # None => owner'[s] = owner[s] /\ (offline[s] => offline'[s])
  /\ users \subseteq users' /\ \A e \in users' : e \in users \/ Linked(e)'

\* Nothing but a callback moves itself.
LEMMA OthersStay ==
  ASSUME TypeOK, NEW d \in Call, CallInv(d), Keeps(d), Grows,
         Busy(d) \/ call[d].at = "take" \/ call[d].result \in {"ok", "account_conflict"}
           => chosen'[call[d].of] = chosen[call[d].of],
         call[d].at = "byEmail" /\ owner[Who(d).sub] = None /\ owner'[Who(d).sub] # None
           => call[d].overtaken'
  PROVE  CallInv(d)'
  <1> DEFINE sub == Who(d).sub  email == Who(d).email
  <1>1. Picked(d)'
    BY DEF CallInv, Picked, Keeps, Busy, None
  <1>2. CASE ~(Busy(d) \/ call[d].result \in {"ok", "account_conflict"})
    BY <1>1, <1>2 DEF CallInv, Picked, HasUser, Races, Overtaking, Keeps, Busy, Knows
  <1>3. CASE Busy(d) \/ call[d].result \in {"ok", "account_conflict"}
    <2>1. Who(d)' = Who(d) /\ sub \in Sub /\ email # None
      <3>1. call[d].of' = call[d].of /\ chosen'[call[d].of] = chosen[call[d].of]
        BY <1>3 DEF Keeps, None
      <3>2. Who(d) \in Identity
        BY <1>3 DEF CallInv, Picked, Who
      <3> QED
        BY <3>1, <3>2, Identities DEF Who
    <2>2. Linked(email) => Linked(email)'
      BY <2>1 DEF Grows, Linked
    <2>3. HasUser(d)'
      BY <2>1 DEF CallInv, HasUser, Keeps, Knows, Grows
    <2>4. Races(d)'
      BY <2>1, <2>2 DEF CallInv, Races, Keeps, Grows
    <2>5. Overtaking(d)'
      BY <2>1 DEF CallInv, Overtaking, Keeps, Grows
    <2> QED
      BY <1>1, <2>3, <2>4, <2>5 DEF CallInv
  <1> QED
    BY <1>2, <1>3

\* A callback that moves, is over, or arrives does not add one to its sign-in.
LEMMA StillOne ==
  ASSUME OneAtATime, NEW c \in Call, \A d \in Call : d # c => Keeps(d),
         Busy(c)' => Busy(c) /\ call[c].of' = call[c].of, UNCHANGED <<pending, made>>
  PROVE  OneAtATime'
  BY DEF OneAtATime, Keeps, Busy

\* Codes and nonces do not depend on what the connections become.
LEMMA CodesStay ==
  ASSUME CodesOnce, CodesHaveUsers, NoncesAreOwn, Grows,
         UNCHANGED <<handoff, handoffUser, made, sessions, starter, chosen, nonce, page>>
  PROVE  CodesOnce' /\ CodesHaveUsers' /\ NoncesAreOwn'
  <1>1. CodesOnce' /\ NoncesAreOwn'
    BY DEF CodesOnce, NoncesAreOwn
  <1>2. CodesHaveUsers'
    BY Identities DEF CodesHaveUsers, Grows
  <1> QED
    BY <1>1, <1>2

\* A callback that moves keeps the invariant when it keeps its own part.
LEMMA CallbackInv ==
  ASSUME TypeOK, SignInInv, NEW c \in Call, CallInv(c)', Grows,
         \A d \in Call : d # c => Keeps(d),
         \A d \in Call : d # c /\ call[d].at = "byEmail" /\ owner[Who(d).sub] = None
                            /\ owner'[Who(d).sub] # None => call[d].overtaken',
         Busy(c)' => Busy(c) /\ call[c].of' = call[c].of,
         UNCHANGED <<pending, handoff, handoffUser, made, sessions, starter, chosen, nonce, page>>
  PROVE  SignInInv'
  <1>1. ASSUME NEW d \in Call PROVE CallInv(d)'
    <2>1. CASE d = c
      BY <2>1
    <2>2. CASE d # c
      BY <2>2, OthersStay DEF SignInInv
    <2> QED
      BY <2>1, <2>2
  <1>2. OneAtATime'
    BY StillOne DEF SignInInv
  <1>3. CodesOnce' /\ CodesHaveUsers' /\ NoncesAreOwn'
    BY CodesStay DEF SignInInv
  <1> QED
    BY <1>1, <1>2, <1>3 DEF SignInInv

\* A step of anybody else keeps the callbacks' part.
LEMMA CallsStay ==
  ASSUME TypeOK, SignInInv, UNCHANGED <<database, call>>,
         \A f \in SignIn : chosen[f] \in Identity => chosen'[f] = chosen[f]
  PROVE  \A d \in Call : CallInv(d)'
  <1> TAKE d \in Call
  <1>1. CallInv(d) /\ Keeps(d)
    BY DEF SignInInv, Keeps
  <1>2. Grows
    <2>1. \A e \in users' : e \in users
      OBVIOUS
    <2> QED
      BY <2>1 DEF Grows
  <1>3. Busy(d) \/ call[d].at = "take" \/ call[d].result \in {"ok", "account_conflict"}
          => chosen'[call[d].of] = chosen[call[d].of]
    BY <1>1 DEF CallInv, Picked
  <1> QED
    BY <1>1, <1>2, <1>3, OthersStay

LEMMA StepInv == TypeOK /\ SignInInv /\ [Next]_vars => SignInInv'
  <1> SUFFICES ASSUME TypeOK, SignInInv, [Next]_vars PROVE SignInInv'
    OBVIOUS
  <1> DEFINE Alone(c) == \A d \in Call : d # c => Keeps(d)
  <1>0. ASSUME NEW c \in Call, Alone(c), CallInv(c)', UNCHANGED <<users, owner>>,
               \A s \in Sub : offline[s] => offline'[s],
               Busy(c)' => Busy(c) /\ call[c].of' = call[c].of,
               UNCHANGED <<pending, handoff, handoffUser, made, sessions, starter, chosen, nonce, page>>
        PROVE  SignInInv'
    <2>1. Grows
      BY <1>0 DEF Grows
    <2> QED
      BY <1>0, <2>1, CallbackInv
  <1>1. ASSUME NEW t \in Tab, NEW f \in SignIn, Start(t, f) PROVE SignInInv'
    <2>1. \A d \in Call : CallInv(d)'
      BY <1>1, CallsStay DEF Start
    <2>2. OneAtATime' /\ CodesOnce'
      BY <1>1 DEF Start, SignInInv, OneAtATime, CodesOnce, Busy
    <2>3. CodesHaveUsers'
      BY <1>1 DEF Start, SignInInv, CodesHaveUsers, CodesOnce, TypeOK, None
    <2>4. NoncesAreOwn'
      BY <1>1 DEF Start, SignInInv, NoncesAreOwn, TypeOK
    <2> QED
      BY <2>1, <2>2, <2>3, <2>4 DEF SignInInv
  <1>2. ASSUME NEW t \in Tab, NEW f \in SignIn, OpenLink(t, f) PROVE SignInInv'
    <2>1. \A d \in Call : CallInv(d)'
      BY <1>2, CallsStay DEF OpenLink
    <2>2. OneAtATime' /\ CodesOnce' /\ CodesHaveUsers'
      BY <1>2 DEF OpenLink, SignInInv, OneAtATime, CodesOnce, CodesHaveUsers, Busy
    <2>3. NoncesAreOwn'
      BY <1>2 DEF OpenLink, SignInInv, NoncesAreOwn, TypeOK
    <2> QED
      BY <2>1, <2>2, <2>3 DEF SignInInv
  <1>3. ASSUME NEW f \in SignIn, Authorize(f) PROVE SignInInv'
    <2>1. \A d \in Call : CallInv(d)'
      BY <1>3, CallsStay DEF Authorize
    <2>2. OneAtATime'
      BY <1>3, Identities DEF Authorize, SignInInv, OneAtATime, CodesOnce, CodesHaveUsers, CallInv, Picked, Busy, TypeOK
    <2>3. CodesOnce' /\ CodesHaveUsers' /\ NoncesAreOwn'
      BY <1>3 DEF Authorize, SignInInv, CodesOnce, CodesHaveUsers, NoncesAreOwn
    <2> QED
      BY <2>1, <2>2, <2>3 DEF SignInInv
  <1>4. ASSUME NEW f \in SignIn, Expire(f) PROVE SignInInv'
    <2>1. \A d \in Call : CallInv(d)'
      BY <1>4, CallsStay DEF Expire
    <2>2. OneAtATime'
      <3>1. \A g \in SignIn : pending'[g] # "none" <=> pending[g] # "none"
        BY <1>4 DEF Expire, TypeOK
      <3>2. \A c \in Call : Busy(c) => call[c].of \in SignIn
        BY DEF SignInInv, CallInv, Picked
      <3> QED
        BY <1>4, <3>1, <3>2 DEF Expire, SignInInv, OneAtATime, Busy
    <2>4. CodesOnce'
      <3>1. \A g \in SignIn : handoff'[g] # "none" <=> handoff[g] # "none"
        BY <1>4 DEF Expire, TypeOK
      <3> QED
        BY <1>4, <3>1 DEF Expire, SignInInv, CodesOnce
    <2>3. CodesHaveUsers' /\ NoncesAreOwn'
      BY <1>4 DEF Expire, SignInInv, CodesHaveUsers, NoncesAreOwn
    <2> QED
      BY <2>1, <2>2, <2>3, <2>4 DEF SignInInv
  <1>5. ASSUME NEW f \in SignIn, NEW i \in Identity \cup {Denied}, Choose(f, i) PROVE SignInInv'
    <2>1. \A g \in SignIn : chosen[g] \in Identity => chosen'[g] = chosen[g]
      BY <1>5, Identities DEF Choose, TypeOK
    <2>2. \A d \in Call : CallInv(d)'
      BY <1>5, <2>1, CallsStay DEF Choose
    <2>3. OneAtATime' /\ CodesOnce' /\ NoncesAreOwn'
      BY <1>5 DEF Choose, SignInInv, OneAtATime, CodesOnce, NoncesAreOwn, Busy
    <2>4. CodesHaveUsers'
      BY <1>5, <2>1 DEF Choose, SignInInv, CodesHaveUsers
    <2> QED
      BY <2>2, <2>3, <2>4 DEF SignInInv
  <1>6. ASSUME NEW c \in Call, TakeState(c) PROVE SignInInv'
    <2>1. /\ call[c].at = "take" /\ call[c].of' = call[c].of /\ Alone(c)
          /\ call[c].attempt' = call[c].attempt /\ call[c].at' \in {"exchange", "done"}
          /\ call[c].result' \in {call[c].result, "state_expired"}
          /\ call[c].at' = "exchange" => pending[call[c].of] = "fresh" /\ call[c].result' = call[c].result
      BY <1>6, Records, ZenonT(60) DEF TakeState, Keeps, Goto, At, Ends, CallRecord, TypeOK
    <2>2. /\ UNCHANGED <<users, owner, offline, handoff, handoffUser, made, sessions, starter, chosen, nonce, page>>
          /\ pending' = [pending EXCEPT ![call[c].of] = "none"]
      BY <1>6 DEF TakeState
    <2>3. CallInv(c)'
      BY <2>1, <2>2 DEF SignInInv, CallInv, Picked, HasUser, Races, Overtaking, Knows, Busy, None
    <2>4. \A d \in Call : d # c => CallInv(d)'
      BY <2>1, <2>2, OthersStay DEF SignInInv, Grows
    <2>5. OneAtATime'
      <3>1. call[c].of \in SignIn /\ \A f \in SignIn : pending'[f] # "none" => pending'[f] = pending[f] /\ f # call[c].of
        <4>1. call[c].of \in SignIn
          BY <2>1 DEF SignInInv, CallInv, Picked
        <4>2. pending'[call[c].of] = "none" /\ \A f \in SignIn : f # call[c].of => pending'[f] = pending[f]
          BY <2>2, <4>1 DEF TypeOK
        <4> QED
          BY <4>1, <4>2
      <3>2. \A d \in Call : d # c => Busy(d)' = Busy(d) /\ call[d].of' = call[d].of
        BY <2>1 DEF Keeps, Busy
      <3>3. Busy(c)' => made[call[c].of] = 0 /\ pending'[call[c].of] = "none" /\ \A d \in Call : Busy(d) => call[d].of # call[c].of
        BY <2>1, <2>2, <3>1 DEF SignInInv, OneAtATime, Busy
      <3>4. \A d \in Call : Busy(d) => pending'[call[d].of] = "none"
        BY <3>1 DEF SignInInv, OneAtATime, CallInv, Picked
      <3>5. \A f \in SignIn : pending'[f] # "none" => made'[f] = 0
        BY <2>2, <3>1 DEF SignInInv, OneAtATime
      <3>6. \A d \in Call : Busy(d)' => pending'[call'[d].of] = "none" /\ made'[call'[d].of] = 0
        BY <2>1, <2>2, <3>2, <3>3, <3>4 DEF SignInInv, OneAtATime
      <3>7. \A d, e \in Call : Busy(d)' /\ Busy(e)' /\ call'[d].of = call'[e].of => d = e
        BY <2>1, <3>2, <3>3 DEF SignInInv, OneAtATime
      <3> QED
        BY <3>5, <3>6, <3>7 DEF OneAtATime
    <2>6. CodesOnce' /\ CodesHaveUsers' /\ NoncesAreOwn'
      BY <2>2, CodesStay DEF SignInInv, Grows
    <2> QED
      BY <2>3, <2>4, <2>5, <2>6 DEF SignInInv
  <1>7. ASSUME NEW c \in Call, ExchangeCode(c) PROVE SignInInv'
    <2>1. /\ call[c].at = "exchange" /\ call[c].of' = call[c].of /\ Alone(c)
          /\ \/ call[c].at' = "find" /\ call[c].result' = call[c].result /\ call[c].attempt' = call[c].attempt
             \/ call[c].at' = "done" /\ call[c].result' = "email_unverified"
      BY <1>7, Records, ZenonT(60) DEF ExchangeCode, Keeps, Goto, At, Ends, CallRecord, TypeOK
    <2>2. UNCHANGED <<users, owner, offline, store, browser, starter, chosen, history>>
      BY <1>7 DEF ExchangeCode
    <2>3. CallInv(c)'
      BY <2>1, <2>2 DEF SignInInv, CallInv, Picked, HasUser, Races, Overtaking, Knows, Busy, None
    <2> QED
      BY <1>0, <2>1, <2>2, <2>3 DEF Busy
  <1>8. ASSUME NEW c \in Call, FindConnection(c) PROVE SignInInv'
    <2>1. /\ call[c].at = "find" /\ call[c].of' = call[c].of /\ Alone(c)
          /\ call[c].result' = call[c].result /\ call[c].attempt' = call[c].attempt
          /\ call[c].at' = IF owner[Who(c).sub] # None THEN "update" ELSE "byEmail"
      BY <1>8, Records DEF FindConnection, Keeps, Goto, CallRecord, TypeOK
    <2>2. UNCHANGED <<users, owner, offline, store, browser, google, history>>
      BY <1>8 DEF FindConnection
    <2>3. CallInv(c)'
      BY <2>1, <2>2, SMTT(30) DEF SignInInv, CallInv, Picked, HasUser, Races, Overtaking, Knows, Busy, None, Who, Linked
    <2> QED
      BY <1>0, <2>1, <2>2, <2>3 DEF Busy
  <1>9. ASSUME NEW c \in Call, UpdateConnection(c) PROVE SignInInv'
    <2>1. /\ call[c].at = "update" /\ call[c].of' = call[c].of /\ Alone(c)
          /\ call[c].result' = call[c].result /\ call[c].refresh' = call[c].refresh
          /\ call[c].at' = "handoff" /\ call[c].user' = owner[Who(c).sub]
      BY <1>9, Records DEF UpdateConnection, Keeps, Goto, At, CallRecord, TypeOK
    <2>2. UNCHANGED <<users, owner, store, browser, google, history>>
      BY <1>9 DEF UpdateConnection
    <2>3. Who(c).sub \in Sub /\ offline' = [offline EXCEPT ![Who(c).sub] = @ \/ call[c].refresh]
      BY <1>9, <2>1, Identities DEF UpdateConnection, SignInInv, CallInv, Picked, Busy, Who
    <2>4. \A s \in Sub : offline[s] => offline'[s]
      BY <2>3 DEF TypeOK
    <2>5. call[c].refresh => offline'[Who(c).sub]
      BY <2>3 DEF TypeOK
    <2>6. CallInv(c)'
      BY <2>1, <2>2, <2>5 DEF SignInInv, CallInv, Picked, HasUser, Races, Overtaking, Knows, Busy, None, Who
    <2> QED
      BY <1>0, <2>1, <2>2, <2>4, <2>6 DEF Busy
  <1>10. ASSUME NEW c \in Call, FindByEmail(c) PROVE SignInInv'
    <2>1. /\ call[c].at = "byEmail" /\ call[c].of' = call[c].of /\ Alone(c)
          /\ call[c].attempt' = call[c].attempt /\ call[c].overtaken' = call[c].overtaken
          /\ \/ /\ call[c].result' = call[c].result
                /\ call[c].at' = IF Who(c).email \in users THEN "link" ELSE "create"
                /\ ~Linked(Who(c).email) \/ Who(c).email \notin users
             \/ call[c].at' = "done" /\ call[c].result' = "account_conflict" /\ Linked(Who(c).email)
      BY <1>10, Records, ZenonT(60) DEF FindByEmail, Linked, Keeps, Goto, At, Ends, CallRecord, TypeOK
    <2>2. UNCHANGED <<users, owner, offline, store, browser, google, history>>
      BY <1>10 DEF FindByEmail
    <2>3. Linked(Who(c).email) => Who(c).email \in users
      <3>1. Who(c).email # None
        BY <2>1, Identities DEF SignInInv, CallInv, Picked, Busy, Who
      <3> QED
        BY <3>1 DEF Linked, TypeOK
    <2>4. CallInv(c)'
      <3>1. CallInv(c) /\ Who(c)' = Who(c)
        BY <2>1, <2>2 DEF SignInInv, Who
      <3>2. Linked(Who(c).email)' = Linked(Who(c).email)
        BY <2>2, <3>1 DEF Linked
      <3>3. Picked(c)' /\ HasUser(c)'
        BY <2>1, <2>2, <3>1 DEF CallInv, Picked, HasUser, Knows, Busy, None
      <3>4. Races(c)'
        <4>1. call[c].at' \in {"link", "create"} => call[c].attempt = 0
          BY <2>1, <2>3, <3>1, Records DEF CallInv, Races, CallRecord
        <4> QED
          BY <2>1, <2>2, <3>1, <3>2, <4>1 DEF CallInv, Races
      <3>5. Overtaking(c)'
        <4>1. Linked(Who(c).email) => call[c].overtaken \/ \E s \in Sub \ {Who(c).sub} : owner[s] = Who(c).email
          <5>1. Who(c).email # None
            BY <2>1, <3>1, Identities DEF CallInv, Picked, Busy, Who
          <5> QED
            BY <2>1, <3>1, <5>1 DEF CallInv, Overtaking, Linked
        <4> QED
          BY <2>1, <2>2, <3>1, <4>1 DEF CallInv, Picked, Overtaking, None
      <3> QED
        BY <3>3, <3>4, <3>5 DEF CallInv
    <2> QED
      BY <1>0, <2>1, <2>2, <2>4 DEF Busy
  <1>11. ASSUME NEW c \in Call, call[c].at \in {"link", "create"}, Insert(c), CallInv(c),
                call[c].at = "link" => Who(c).email \in users,
                users \subseteq users', Who(c).email \in users', \A e \in users' : e \in users \/ e = Who(c).email,
                Unique(c), UNCHANGED <<store, browser, google, history>>
         PROVE  SignInInv'
    <2>1. Who(c) \in Identity /\ Who(c).sub \in Sub /\ Who(c).email # None
      BY <1>11, Identities DEF CallInv, Picked, Busy, Who
    <2>2. /\ owner'[Who(c).sub] = Who(c).email /\ offline'[Who(c).sub] = call[c].refresh
          /\ owner[Who(c).sub] = None
          /\ \A s \in Sub : s # Who(c).sub => owner'[s] = owner[s] /\ offline'[s] = offline[s]
      BY <1>11, <2>1 DEF Insert, Unique, TypeOK
    <2>3. /\ call[c].of' = call[c].of /\ call[c].at' = "handoff" /\ call[c].user' = Who(c).email
          /\ call[c].result' = call[c].result /\ call[c].refresh' = call[c].refresh
      BY <1>11, Records DEF Insert, At, CallRecord
    <2>4. \A d \in Call : d # c => Keeps(d)
      BY <1>11, Records DEF Insert, CallRecord, Keeps
    <2>5. Grows
      BY <1>11, <2>1, <2>2 DEF Grows, Linked
    <2>6. \A d \in Call : d # c /\ call[d].at = "byEmail" /\ owner[Who(d).sub] = None
                            /\ owner'[Who(d).sub] # None => call[d].overtaken'
      <3> SUFFICES ASSUME NEW d \in Call, d # c, call[d].at = "byEmail", owner[Who(d).sub] = None,
                          owner'[Who(d).sub] # None
                   PROVE  call[d].overtaken'
        OBVIOUS
      <3>1. Who(d).sub \in Sub
        BY Identities DEF SignInInv, CallInv, Picked, Busy, Who
      <3>2. Who(d).sub = Who(c).sub
        BY <2>2, <3>1
      <3> QED
        BY <1>11, <3>2, Records DEF Insert, CallRecord
    <2>7. CallInv(c)'
      BY <1>11, <2>1, <2>2, <2>3 DEF CallInv, Picked, HasUser, Races, Overtaking, Knows, Busy, None, Who
    <2> QED
      BY <1>11, <2>3, <2>4, <2>5, <2>6, <2>7, CallbackInv DEF Busy
  <1>12. ASSUME NEW c \in Call, call[c].at \in {"link", "create"}, Violation(c), CallInv(c), ~Unique(c),
                UNCHANGED <<database, store, browser, google, history>>
         PROVE  SignInInv'
    <2>1. call[c].attempt = 0
      BY <1>12 DEF CallInv, Races
    <2>2. /\ call[c].at' = "find" /\ call[c].attempt' = 1 /\ call[c].of' = call[c].of
          /\ call[c].result' = call[c].result /\ Alone(c)
      BY <1>12, <2>1, Records DEF Violation, CallRecord, Keeps, TypeOK
    <2>3. CallInv(c)'
      BY <1>12, <2>2 DEF CallInv, Picked, HasUser, Races, Overtaking, Knows, Busy, None, Who, Unique, Linked
    <2> QED
      BY <1>0, <1>12, <2>2, <2>3 DEF Busy
  <1>13. ASSUME NEW c \in Call, Link(c) PROVE SignInInv'
    <2>1. CallInv(c) /\ call[c].at = "link" /\ Who(c).email \in users
      BY <1>13 DEF Link, SignInInv, CallInv, Races
    <2>2. CASE Unique(c) /\ Insert(c)
      BY <1>11, <1>13, <2>1, <2>2 DEF Link
    <2>3. CASE ~Unique(c) /\ Violation(c) /\ UNCHANGED <<owner, offline>>
      BY <1>12, <1>13, <2>1, <2>3 DEF Link
    <2> QED
      BY <1>13, <2>2, <2>3 DEF Link
  <1>14. ASSUME NEW c \in Call, Create(c) PROVE SignInInv'
    <2>1. CallInv(c) /\ call[c].at = "create"
      BY <1>14 DEF Create, SignInInv
    <2>2. Who(c).email \in users => ~Unique(c)
      BY <2>1 DEF CallInv, Races, Linked, Unique
    <2>3. CASE Who(c).email \notin users /\ Unique(c) /\ Insert(c) /\ users' = users \cup {Who(c).email}
      BY <1>11, <1>14, <2>1, <2>3 DEF Create
    <2>4. CASE ~Unique(c) /\ Violation(c) /\ UNCHANGED database
      BY <1>12, <1>14, <2>1, <2>4 DEF Create
    <2> QED
      BY <1>14, <2>2, <2>3, <2>4 DEF Create
  <1>15. ASSUME NEW c \in Call, PutHandoff(c) PROVE SignInInv'
    <2> DEFINE f == call[c].of
    <2>1. /\ call[c].at = "handoff" /\ f \in SignIn /\ chosen[f] \in Identity
          /\ owner[chosen[f].sub] # None /\ call[c].user = owner[chosen[f].sub]
      BY <1>15 DEF PutHandoff, Goto, SignInInv, CallInv, Picked, HasUser, Knows, Busy, Who
    <2>2. call[c].at' = "done" /\ call[c].result' = "ok" /\ call[c].of' = f /\ Alone(c)
          /\ call[c].user' = call[c].user /\ call[c].refresh' = call[c].refresh
      BY <1>15, Records, ZenonT(60) DEF PutHandoff, Keeps, Goto, Ends, CallRecord, TypeOK
    <2>3. UNCHANGED <<users, owner, offline, pending, browser, google, sessions>>
      BY <1>15 DEF PutHandoff
    <2>4. made[f] = 0 /\ pending[f] = "none" /\ \A d \in Call : d # c /\ Busy(d) => call[d].of # f
      BY <2>1 DEF SignInInv, OneAtATime, Busy
    <2>5. \A g \in SignIn : IF g = f THEN handoff'[g] = "fresh" /\ handoffUser'[g] = call[c].user /\ made'[g] = 1
                                    ELSE handoff'[g] = handoff[g] /\ handoffUser'[g] = handoffUser[g] /\ made'[g] = made[g]
      BY <1>15, <2>1, <2>4 DEF PutHandoff, TypeOK
    <2>6. CallInv(c)'
      BY <2>1, <2>2, <2>3 DEF SignInInv, CallInv, Picked, HasUser, Races, Overtaking, Knows, Busy, None, Who
    <2>7. \A d \in Call : d # c => CallInv(d)'
      BY <2>2, <2>3, OthersStay DEF SignInInv, Grows
    <2>8. OneAtATime'
      <3>1. \A d \in Call : Busy(d)' => d # c /\ Busy(d) /\ call[d].of' = call[d].of /\ call[d].of \in SignIn
        BY <2>2 DEF Keeps, Busy, SignInInv, CallInv, Picked
      <3> QED
        BY <2>3, <2>4, <2>5, <3>1 DEF SignInInv, OneAtATime
    <2>9. CodesOnce'
      BY <2>3, <2>4, <2>5 DEF SignInInv, CodesOnce
    <2>10. CodesHaveUsers' /\ NoncesAreOwn'
      BY <2>1, <2>3, <2>4, <2>5 DEF SignInInv, CodesOnce, CodesHaveUsers, NoncesAreOwn
    <2> QED
      BY <2>6, <2>7, <2>8, <2>9, <2>10 DEF SignInInv
  <1>16. ASSUME NEW c \in Call, CallFails(c) PROVE SignInInv'
    <2>1. call[c].at' = "done" /\ call[c].result' = "fault" /\ Alone(c)
      BY <1>16, Records, ZenonT(60) DEF CallFails, Keeps, Ends, CallRecord, TypeOK
    <2>2. UNCHANGED <<users, owner, offline, store, browser, google, history>>
      BY <1>16 DEF CallFails
    <2>3. CallInv(c)'
      BY <2>1 DEF CallInv, Picked, HasUser, Races, Overtaking, Knows, Busy, None
    <2> QED
      BY <1>0, <2>1, <2>2, <2>3 DEF Busy
  <1>17. ASSUME NEW c \in Call, NEW f \in SignIn, Arrive(c, f) PROVE SignInInv'
    <2>1. /\ call[c].of' = f /\ call[c].attempt' = 0 /\ Alone(c)
          /\ \/ call[c].at' = "take" /\ call[c].result' = None /\ chosen[f] \notin {Nobody, Denied}
             \/ call[c].at' = "done" /\ call[c].result' = "access_denied"
      BY <1>17 DEF Arrive, NewCall, Keeps, Goto, TypeOK
    <2>2. UNCHANGED <<users, owner, offline, store, browser, google, history>>
      BY <1>17 DEF Arrive
    <2>3. chosen[f] \in Identity \cup {Nobody, Denied}
      BY DEF TypeOK
    <2>4. CallInv(c)'
      BY <2>1, <2>2, <2>3 DEF CallInv, Picked, HasUser, Races, Overtaking, Knows, Busy, None
    <2> QED
      BY <1>0, <2>1, <2>2, <2>4 DEF Busy
  <1>18. ASSUME NEW t \in Tab, Exchange(t) PROVE SignInInv'
    <2>1. PICK f \in SignIn : f = page[t].code
      BY <1>18 DEF Exchange, TypeOK
    <2>2. \A d \in Call : CallInv(d)'
      BY <1>18, CallsStay DEF Exchange
    <2>3. OneAtATime'
      BY <1>18 DEF Exchange, SignInInv, OneAtATime, Busy
    <2>4. handoff'[f] = "none" /\ \A g \in SignIn : g # f => handoff'[g] = handoff[g] /\ sessions'[g] = sessions[g]
      BY <1>18, <2>1 DEF Exchange, TypeOK
    <2>5. sessions'[f] = sessions[f] \/ /\ handoff[f] = "fresh" /\ page[t].nonce = f
                                        /\ sessions'[f] = sessions[f] \cup {<<t, handoffUser[f]>>}
      BY <1>18, <2>1 DEF Exchange, TypeOK
    <2>6. handoff[f] = "fresh" => sessions[f] = {} /\ made[f] # 0
      BY <2>1 DEF SignInInv, CodesOnce
    <2>7. UNCHANGED <<owner, handoffUser, made, starter, chosen, nonce>>
      BY <1>18 DEF Exchange
    <2>8. CodesOnce'
      BY <2>1, <2>4, <2>5, <2>6, <2>7 DEF SignInInv, CodesOnce
    <2>9. CodesHaveUsers'
      <3>1. page[t].nonce = f => starter[f] = t
        BY <2>1, Identities DEF SignInInv, NoncesAreOwn
      <3> QED
        BY <2>1, <2>4, <2>5, <2>7, <3>1 DEF SignInInv, CodesHaveUsers
    <2>10. NoncesAreOwn'
      BY <1>18, <2>7 DEF Exchange, Resting, SignInInv, NoncesAreOwn, TypeOK
    <2> QED
      BY <2>2, <2>3, <2>8, <2>9, <2>10 DEF SignInInv
  <1>19. ASSUME NEW t \in Tab, ExchangeLost(t) PROVE SignInInv'
    <2>1. \A d \in Call : CallInv(d)'
      BY <1>19, CallsStay DEF ExchangeLost
    <2>2. OneAtATime' /\ CodesHaveUsers'
      BY <1>19 DEF ExchangeLost, SignInInv, OneAtATime, CodesHaveUsers, Busy
    <2>3. CodesOnce'
      <3>1. \A g \in SignIn : handoff'[g] = "none" \/ handoff'[g] = handoff[g]
        BY <1>19 DEF ExchangeLost, TypeOK
      <3> QED
        BY <1>19, <3>1 DEF ExchangeLost, SignInInv, CodesOnce
    <2>4. NoncesAreOwn'
      BY <1>19 DEF ExchangeLost, Resting, SignInInv, NoncesAreOwn, TypeOK
    <2> QED
      BY <2>1, <2>2, <2>3, <2>4 DEF SignInInv
  <1>20. CASE Alarm
    <2>1. \A d \in Call : CallInv(d)'
      BY <1>20, CallsStay DEF Alarm
    <2>2. \A g \in SignIn : /\ pending'[g] = "none" \/ pending'[g] = pending[g]
                            /\ handoff'[g] = "none" \/ handoff'[g] = handoff[g]
      BY <1>20 DEF Alarm
    <2>3. \A d \in Call : Busy(d) => call[d].of \in SignIn
      BY DEF SignInInv, CallInv, Picked
    <2>4. OneAtATime'
      BY <1>20, <2>2, <2>3 DEF Alarm, SignInInv, OneAtATime, Busy
    <2>5. CodesOnce'
      BY <1>20, <2>2 DEF Alarm, SignInInv, CodesOnce
    <2>6. CodesHaveUsers' /\ NoncesAreOwn'
      BY <1>20 DEF Alarm, SignInInv, CodesHaveUsers, NoncesAreOwn
    <2> QED
      BY <2>1, <2>4, <2>5, <2>6 DEF SignInInv
  <1>21. CASE UNCHANGED vars
    <2>1. \A d \in Call : CallInv(d)'
      BY <1>21, CallsStay
    <2>2. OneAtATime' /\ CodesOnce' /\ CodesHaveUsers' /\ NoncesAreOwn'
      BY <1>21 DEF SignInInv, OneAtATime, CodesOnce, CodesHaveUsers, NoncesAreOwn, Busy
    <2> QED
      BY <2>1, <2>2 DEF SignInInv
  <1> QED
    BY <1>1, <1>2, <1>3, <1>4, <1>5, <1>6, <1>7, <1>8, <1>9, <1>10, <1>13, <1>14,
       <1>15, <1>16, <1>17, <1>18, <1>19, <1>20, <1>21
    DEF Next, Browse, handleCallback, upsertUser, exchangeHandoff

\* Types hold because no callback reads what is not there: the two invariants
\* are one induction.
THEOREM SignInInvariant == Spec => [](TypeOK /\ SignInInv)
  <1>1. Init => TypeOK /\ SignInInv
    BY InitTypes, InitInv
  <1>2. TypeOK /\ SignInInv /\ [Next]_vars => TypeOK' /\ SignInInv'
    BY StepTypes, StepInv
  <1> QED
    BY <1>1, <1>2, PTL DEF Spec

----------------------------------------------------------------------------
(* What follows *)

\* A session goes to the tab that began the sign-in, and is that of the user
\* whose account was picked in it (exchangeHandoff, handleCallback).
THEOREM RightUserRightTab == Spec => []SignedInAsChosen
  <1>1. TypeOK /\ SignInInv => SignedInAsChosen
    BY DEF SignInInv, CodesHaveUsers, CodesOnce, SignedInAsChosen
  <1> QED
    BY <1>1, SignInInvariant, PTL

\* A sign-in makes one handoff code, and a code one session, however often the
\* redirect and the link are repeated (OneTimeStore.take).
THEOREM NothingTwice == Spec => []OnceOnly
  <1>1. ASSUME TypeOK, SignInInv, NEW f \in SignIn
        PROVE  made[f] <= 1 /\ Cardinality(sessions[f]) <= 1
    <2>1. made[f] \in {0, 1} /\ \A s, r \in sessions[f] : s = r
      BY <1>1 DEF SignInInv, CodesOnce
    <2>2. CASE sessions[f] = {}
      BY <2>1, <2>2, FS_EmptySet
    <2>3. CASE sessions[f] # {}
      <3>1. PICK s \in sessions[f] : sessions[f] = {s}
        BY <2>1, <2>3
      <3> QED
        <4>1. Cardinality({s}) = 1
          BY FS_Singleton
        <4> QED
          BY <2>1, <3>1, <4>1
    <2> QED
      BY <2>2, <2>3
  <1>2. TypeOK /\ SignInInv => OnceOnly
    BY <1>1 DEF OnceOnly
  <1> QED
    BY <1>2, SignInInvariant, PTL

\* However many accounts and requests race for however many emails, no callback
\* needs a second retry (upsertUser).
THEOREM OneRetryIsEnough == Spec => []RetryIsEnough
  <1>1. SignInInv => RetryIsEnough
    BY DEF SignInInv, CallInv, Races, RetryIsEnough
  <1> QED
    BY <1>1, SignInInvariant, PTL

\* A conflict is with another account, or this account's own racing sign-in
\* overtook the request (findUserByEmail).
THEOREM ConflictsAreReal == Spec => []ConflictIsReal
  <1>1. SignInInv => ConflictIsReal
    BY DEF SignInInv, CallInv, Overtaking, ConflictIsReal
  <1> QED
    BY <1>1, SignInInvariant, PTL

\* Google's refresh token stays once a callback that brought it went through
\* (updateGoogleConnection).
THEOREM OfflineAccessStays == Spec => []RefreshTokenKept
  <1>1. SignInInv => RefreshTokenKept
    BY DEF SignInInv, CallInv, HasUser, Knows, RefreshTokenKept
  <1> QED
    BY <1>1, SignInInvariant, PTL

\* What is in the one-time store has an alarm ahead (OneTimeStore.alarm).
THEOREM NothingLeftBehind == Spec => []AbandonedIsPurged
  <1>1. Init => AbandonedIsPurged
    BY DEF Init, AbandonedIsPurged, Holds
  <1>2. TypeOK /\ AbandonedIsPurged /\ [Next]_vars => AbandonedIsPurged'
    <2> SUFFICES ASSUME TypeOK, AbandonedIsPurged, [Next]_vars PROVE AbandonedIsPurged'
      OBVIOUS
    <2>1. CASE purge' = TRUE
      BY <2>1 DEF AbandonedIsPurged
    <2>2. CASE Alarm
      BY <2>2 DEF Alarm, AbandonedIsPurged, Holds, TypeOK
    <2>3. CASE purge' = purge /\ \A f \in SignIn : /\ pending'[f] \in {"fresh", "stale"} => pending[f] \in {"fresh", "stale"}
                                                   /\ handoff'[f] \in {"fresh", "stale"} => handoff[f] \in {"fresh", "stale"}
      BY <2>3 DEF AbandonedIsPurged, Holds
    <2>4. ASSUME NEW f \in SignIn, Expire(f) PROVE AbandonedIsPurged'
      BY <2>3, <2>4 DEF Expire, TypeOK
    <2>5. ASSUME NEW f \in SignIn, Authorize(f) PROVE AbandonedIsPurged'
      BY <2>1, <2>5 DEF Authorize, Put
    <2>6. ASSUME NEW c \in Call, PutHandoff(c) PROVE AbandonedIsPurged'
      BY <2>1, <2>6 DEF PutHandoff, Put
    <2>7. ASSUME NEW c \in Call, TakeState(c) PROVE AbandonedIsPurged'
      BY <2>3, <2>7 DEF TakeState, TypeOK
    <2>8. ASSUME NEW t \in Tab, Exchange(t) \/ ExchangeLost(t) PROVE AbandonedIsPurged'
      BY <2>3, <2>8 DEF Exchange, ExchangeLost, TypeOK
    <2>9. CASE UNCHANGED store
      BY <2>3, <2>9
    <2> QED
      BY <2>2, <2>4, <2>5, <2>6, <2>7, <2>8, <2>9
      DEF Next, Browse, Start, OpenLink, Choose, handleCallback, ExchangeCode, upsertUser, FindConnection,
          UpdateConnection, FindByEmail, Link, Create, CallFails, Arrive, exchangeHandoff
  <1> QED
    BY <1>1, <1>2, SignInInvariant, PTL DEF Spec
=============================================================================
