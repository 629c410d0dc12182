------------------------------ MODULE GoogleSignIn ------------------------------
(***************************************************************************)
(* Sign-in with Google, the same protocol in the Worker (auth/google.ts,   *)
(* durable/one-time-store.ts) and in the backend (google-auth.service.ts,  *)
(* Redis): a tab of the dashboard starts a sign-in with a nonce of its     *)
(* own, Google sends the browser back to the API, the API finds, links or  *)
(* creates the user, and a tab trades a one-time code for a session.       *)
(*                                                                         *)
(* A sign-in stands for the random values made in it: its state, its       *)
(* handoff code and its nonce. A user stands for the email it was created  *)
(* with, which nothing in the code changes. What becomes of a session is   *)
(* module Sessions.                                                        *)
(***************************************************************************)
EXTENDS Naturals, FiniteSets

CONSTANTS
  Tab,
  SignIn,     \* attempts to sign in
  Call,       \* requests to /auth/google/callback: a browser may repeat one
  Identity,   \* what an ID token may say: records of a sub, an email, whether it is verified
  Known,      \* emails of users from the time of passwords: they have no connection
  MaxFaults   \* bound: failed calls of Google, the database or the store, lost requests

Sub   == {i.sub : i \in Identity}
Email == {i.email : i \in Identity}
None  == "none"   \* no sign-in, no tab, no user
Nobody == [sub |-> None, email |-> None, verified |-> FALSE]
Denied == [sub |-> "denied", email |-> None, verified |-> FALSE]   \* the user said no

ASSUME GoogleSignInAssumption ==
  /\ \A i \in Identity : i.verified \in BOOLEAN
  /\ None \notin Tab \cup SignIn \cup Email \cup Known
  /\ MaxFaults \in Nat

VARIABLES
  users,      \* emails of the users
  owner,      \* connections: the user of a Google account
  offline,    \* connections: there is a refresh token of Google's
  \* the one-time store: each sign-in's state and handoff code are "none",
  \* "fresh" or "stale", the user a handoff is for, and the purge alarm
  pending, handoff, handoffUser, purge,
  nonce,      \* each tab's sessionStorage: the sign-in it started last
  page,       \* each tab: the code and nonce it is exchanging
  starter, chosen,   \* each sign-in: the tab that began it, whom the user was at Google
  consented,  \* Google: accounts that have consented, and get no refresh token again
  call,       \* each callback request
  faults,
  \* history: handoff codes made and sessions answered
  made, sessions

database == <<users, owner, offline>>
store    == <<pending, handoff, handoffUser, purge>>
browser  == <<nonce, page>>
google   == <<starter, chosen, consented>>
history  == <<made, sessions>>
vars     == <<database, store, browser, google, call, faults, history>>

NewCall == [at |-> "new", of |-> None, attempt |-> 0, refresh |-> FALSE, user |-> None,
            result |-> None, overtaken |-> FALSE]

Init ==
  /\ users = Known
  /\ owner = [s \in Sub |-> None] /\ offline = [s \in Sub |-> FALSE]
  /\ pending = [f \in SignIn |-> "none"] /\ handoff = [f \in SignIn |-> "none"]
  /\ handoffUser = [f \in SignIn |-> None] /\ purge = FALSE
  /\ nonce = [t \in Tab |-> None]
  /\ page = [t \in Tab |-> [code |-> None, nonce |-> None]]
  /\ starter = [f \in SignIn |-> None] /\ chosen = [f \in SignIn |-> Nobody]
  /\ consented = {}
  /\ call = [c \in Call |-> NewCall]
  /\ faults = 0
  /\ made = [f \in SignIn |-> 0] /\ sessions = [f \in SignIn |-> {}]

----------------------------------------------------------------------------
(* The start of a sign-in, and Google *)

\* startGoogleSignIn: a new nonce over the tab's last one, and away.
Start(t, f) ==
  /\ starter[f] = None
  /\ starter' = [starter EXCEPT ![f] = t]
  /\ nonce' = [nonce EXCEPT ![t] = f]
  /\ UNCHANGED <<database, store, page, chosen, consented, call, faults, history>>

\* OneTimeStore.put, with the purge that will drop it if nobody takes it.
Put == purge' = TRUE

\* buildAuthorizationUrl.
Authorize(f) ==
  /\ starter[f] # None /\ chosen[f] = Nobody /\ pending[f] = "none"
  /\ pending' = [pending EXCEPT ![f] = "fresh"]
  /\ Put
  /\ UNCHANGED <<database, handoff, handoffUser, browser, google, call, faults, history>>

\* The user picks an account, or refuses and may come back to pick one: the browser
\* has a callback URL, with a state and a code or with an error.
Choose(f, i) ==
  /\ pending[f] # "none" /\ chosen[f] \in {Nobody, Denied}
  /\ chosen' = [chosen EXCEPT ![f] = i]
  /\ UNCHANGED <<database, store, browser, starter, consented, call, faults, history>>

----------------------------------------------------------------------------
(* handleCallback *)

Goto(c, from, with) ==
  /\ call[c].at = from
  /\ call' = [call EXCEPT ![c] = with]

At(c, where)    == [call[c] EXCEPT !.at = where]
Ends(c, result) == [call[c] EXCEPT !.at = "done", !.result = result]
Who(c)          == chosen[call[c].of]

\* The redirect back, or a repetition of it. One with an error leaves the state.
Arrive(c, f) ==
  /\ chosen[f] # Nobody
  /\ Goto(c, "new", IF chosen[f] = Denied
                      THEN [NewCall EXCEPT !.at = "done", !.of = f, !.result = "access_denied"]
                      ELSE [NewCall EXCEPT !.at = "take", !.of = f])
  /\ UNCHANGED <<database, store, browser, google, faults, history>>

\* Mutant: take() reads, and leaves the delete to the purge.
TakeLeaves(c) ==
  /\ Goto(c, "take", IF pending[call[c].of] = "fresh" THEN At(c, "exchange")
                                                      ELSE Ends(c, "state_expired"))
  /\ UNCHANGED <<database, store, browser, google, faults, history>>

\* take(): a state is found once, and not after its time.
TakeState(c) ==
  /\ Goto(c, "take", IF pending[call[c].of] = "fresh" THEN At(c, "exchange")
                                                      ELSE Ends(c, "state_expired"))
  /\ pending' = [pending EXCEPT ![call[c].of] = "none"]
  /\ UNCHANGED <<database, handoff, handoffUser, purge, browser, google, faults, history>>

\* exchangeCode, readIdTokenFromTokenEndpoint: a refresh token comes with the
\* first consent only.
ExchangeCode(c) ==
  /\ Goto(c, "exchange", IF Who(c).verified
                           THEN [At(c, "find") EXCEPT !.refresh = Who(c).sub \notin consented]
                           ELSE Ends(c, "email_unverified"))
  /\ consented' = consented \cup {Who(c).sub}
  /\ UNCHANGED <<database, store, browser, starter, chosen, faults, history>>

\* upsertUser: a returning account ...
FindConnection(c) ==
  /\ Goto(c, "find", [call[c] EXCEPT !.overtaken = FALSE,
                                     !.at = IF owner[Who(c).sub] # None THEN "update" ELSE "byEmail"])
  /\ UNCHANGED <<database, store, browser, google, faults, history>>

\* updateGoogleConnection keeps the refresh token it has when there is no new one.
UpdateConnection(c) ==
  /\ Goto(c, "update", [At(c, "handoff") EXCEPT !.user = owner[Who(c).sub]])
  /\ offline' = [offline EXCEPT ![Who(c).sub] = @ \/ call[c].refresh]
  /\ UNCHANGED <<users, owner, store, browser, google, faults, history>>

\* Mutant: any user with this email is a conflict.
ConflictIfKnown(c) ==
  /\ Goto(c, "byEmail", IF Who(c).email \in users THEN Ends(c, "account_conflict") ELSE At(c, "create"))
  /\ UNCHANGED <<database, store, browser, google, faults, history>>

\* ... or the user with this email ...
FindByEmail(c) ==
  /\ Goto(c, "byEmail",
          CASE Who(c).email \notin users                                        -> At(c, "create")
            [] Who(c).email \in users /\ \E s \in Sub : owner[s] = Who(c).email -> Ends(c, "account_conflict")
            [] OTHER                                                            -> At(c, "link"))
  /\ UNCHANGED <<database, store, browser, google, faults, history>>

\* The unique constraints of connections: one for an account, one for a user.
Unique(c) == owner[Who(c).sub] = None /\ \A s \in Sub : owner[s] # Who(c).email

\* The connection goes in, and overtakes the calls that found none.
Insert(c) ==
  /\ owner' = [owner EXCEPT ![Who(c).sub] = Who(c).email]
  /\ offline' = [offline EXCEPT ![Who(c).sub] = call[c].refresh]
  /\ call' = [d \in Call |->
       IF d = c THEN [At(c, "handoff") EXCEPT !.user = Who(c).email]
       ELSE IF call[d].at = "byEmail" /\ Who(d).sub = Who(c).sub
              THEN [call[d] EXCEPT !.overtaken = TRUE] ELSE call[d]]

\* Mutant: no retry.
GiveUp(c) == call' = [call EXCEPT ![c] = Ends(c, "google_failed")]

\* A violation is retried once.
Violation(c) ==
  call' = [call EXCEPT ![c] = IF @.attempt = 0 THEN [@ EXCEPT !.at = "find", !.attempt = 1]
                                               ELSE Ends(c, "google_failed")]

\* ... is linked, unless another call was faster ...
Link(c) ==
  /\ call[c].at = "link"
  /\ \/ Unique(c) /\ Insert(c)
     \/ ~Unique(c) /\ Violation(c) /\ UNCHANGED <<owner, offline>>
  /\ UNCHANGED <<users, store, browser, google, faults, history>>

\* ... or there is a new user, with its connection in one batch.
Create(c) ==
  /\ call[c].at = "create"
  /\ \/ /\ Who(c).email \notin users /\ Unique(c)
        /\ Insert(c)
        /\ users' = users \cup {Who(c).email}
     \/ /\ Who(c).email \in users \/ ~Unique(c)
        /\ Violation(c)
        /\ UNCHANGED database
  /\ UNCHANGED <<store, browser, google, faults, history>>

\* The handoff code, and the redirect with it.
PutHandoff(c) ==
  LET f == call[c].of IN
  /\ Goto(c, "handoff", Ends(c, "ok"))
  /\ handoff' = [handoff EXCEPT ![f] = "fresh"]
  /\ handoffUser' = [handoffUser EXCEPT ![f] = call[c].user]
  /\ Put
  /\ made' = [made EXCEPT ![f] = @ + 1]
  /\ UNCHANGED <<database, pending, browser, google, faults, sessions>>

\* Google, the database or the store fails, or the request dies.
CallFails(c) ==
  /\ call[c].at \notin {"new", "done"}
  /\ faults < MaxFaults
  /\ faults' = faults + 1
  /\ call' = [call EXCEPT ![c] = Ends(c, "fault")]
  /\ UNCHANGED <<database, store, browser, google, history>>

----------------------------------------------------------------------------
(* The dashboard's callback page, the exchange *)

Resting == [code |-> None, nonce |-> None]

\* completeGoogleSignIn, in the tab of the redirect or in another one the link
\* was opened in: it spends the tab's nonce; without one there is no request.
OpenLink(t, f) ==
  /\ made[f] > 0
  /\ page[t] = Resting /\ nonce[t] # None
  /\ page' = [page EXCEPT ![t] = [code |-> f, nonce |-> nonce[t]]]
  /\ nonce' = [nonce EXCEPT ![t] = None]
  /\ UNCHANGED <<database, store, google, call, faults, history>>

\* Mutant: the nonce is not compared.
ExchangeAny(t) ==
  LET f == page[t].code IN
  /\ f # None
  /\ page' = [page EXCEPT ![t] = Resting]
  /\ handoff' = [handoff EXCEPT ![f] = "none"]
  /\ sessions' = [sessions EXCEPT ![f] = IF handoff[f] = "fresh" THEN @ \cup {<<t, handoffUser[f]>>} ELSE @]
  /\ UNCHANGED <<database, pending, handoffUser, purge, nonce, google, call, faults, made>>

\* exchangeHandoff: the code is gone whatever is answered.
Exchange(t) ==
  LET f == page[t].code IN
  /\ f # None
  /\ page' = [page EXCEPT ![t] = Resting]
  /\ handoff' = [handoff EXCEPT ![f] = "none"]
  /\ sessions' = [sessions EXCEPT ![f] = IF handoff[f] = "fresh" /\ page[t].nonce = f
                                           THEN @ \cup {<<t, handoffUser[f]>>} ELSE @]
  /\ UNCHANGED <<database, pending, handoffUser, purge, nonce, google, call, faults, made>>

\* The request, or the insert of its session, is lost.
ExchangeLost(t) ==
  LET f == page[t].code IN
  /\ f # None
  /\ faults < MaxFaults
  /\ faults' = faults + 1
  /\ page' = [page EXCEPT ![t] = Resting]
  /\ \/ handoff' = [handoff EXCEPT ![f] = "none"]
     \/ UNCHANGED handoff
  /\ UNCHANGED <<database, pending, handoffUser, purge, nonce, google, call, history>>

----------------------------------------------------------------------------
(* The one-time store *)

\* Ten minutes, or one, have passed.
Expire(f) ==
  /\ \/ /\ pending[f] = "fresh"
        /\ pending' = [pending EXCEPT ![f] = "stale"]
        /\ UNCHANGED handoff
     \/ /\ handoff[f] = "fresh"
        /\ handoff' = [handoff EXCEPT ![f] = "stale"]
        /\ UNCHANGED pending
  /\ UNCHANGED <<database, handoffUser, purge, browser, google, call, faults, history>>

Holds(state) == \E f \in SignIn : pending[f] = state \/ handoff[f] = state

\* OneTimeStore.alarm: what nobody took goes; the next alarm is for the rest.
Alarm ==
  /\ purge
  /\ pending' = [f \in SignIn |-> IF pending[f] = "stale" THEN "none" ELSE pending[f]]
  /\ handoff' = [f \in SignIn |-> IF handoff[f] = "stale" THEN "none" ELSE handoff[f]]
  /\ purge' = Holds("fresh")
  /\ UNCHANGED <<database, handoffUser, browser, google, call, faults, history>>

----------------------------------------------------------------------------

upsertUser(c) ==
  FindConnection(c) \/ UpdateConnection(c) \/ FindByEmail(c) \/ Link(c) \/ Create(c)

handleCallback(c) ==
  TakeState(c) \/ ExchangeCode(c) \/ upsertUser(c) \/ PutHandoff(c)

exchangeHandoff(t) == Exchange(t) \/ ExchangeLost(t)

Browse(t, f) == Start(t, f) \/ OpenLink(t, f)

Next ==
  \/ \E t \in Tab, f \in SignIn : Browse(t, f)
  \/ \E f \in SignIn : Authorize(f) \/ Expire(f) \/ \E i \in Identity \cup {Denied} : Choose(f, i)
  \/ \E c \in Call : handleCallback(c) \/ CallFails(c) \/ \E f \in SignIn : Arrive(c, f)
  \/ \E t \in Tab : exchangeHandoff(t)
  \/ Alarm

Spec == Init /\ [][Next]_vars

----------------------------------------------------------------------------
(* Properties *)

Places  == {"new", "take", "exchange", "find", "update", "byEmail", "link", "create",
            "handoff", "done"}
Results == {None, "ok", "fault", "access_denied", "state_expired", "email_unverified",
            "account_conflict", "google_failed"}
User    == Email \cup Known

CallRecord == [at : Places, of : SignIn \cup {None}, attempt : {0, 1}, refresh : BOOLEAN,
               user : users \cup {None}, result : Results, overtaken : BOOLEAN]

TypeOK ==
  /\ users \subseteq User
  /\ owner \in [Sub -> users \cup {None}] /\ offline \in [Sub -> BOOLEAN]
  /\ pending \in [SignIn -> {"none", "fresh", "stale"}]
  /\ handoff \in [SignIn -> {"none", "fresh", "stale"}]
  /\ handoffUser \in [SignIn -> users \cup {None}] /\ purge \in BOOLEAN
  /\ nonce \in [Tab -> SignIn \cup {None}]
  /\ page \in [Tab -> [code : SignIn \cup {None}, nonce : SignIn \cup {None}]]
  /\ starter \in [SignIn -> Tab \cup {None}] /\ chosen \in [SignIn -> Identity \cup {Nobody, Denied}]
  /\ consented \subseteq Sub
  /\ call \in [Call -> CallRecord]
  /\ faults \in 0..MaxFaults
  /\ made \in [SignIn -> Nat] /\ sessions \in [SignIn -> SUBSET (Tab \X users)]

\* "The nonce must match at exchange time - that binds the whole flow to the tab
\* that started it": whoever signs in, restarts, repeats a redirect or opens a
\* link in the wrong tab, a session goes to the tab that started the sign-in,
\* and it is the session of the user whose Google account was picked in it.
SignedInAsChosen ==
  \A f \in SignIn : \A s \in sessions[f] :
    s[1] = starter[f] /\ s[2] = owner[chosen[f].sub]

\* "Returns the value once, then never again": a callback that is repeated
\* makes no second handoff code, and a code no second session.
OnceOnly == \A f \in SignIn : made[f] <= 1 /\ Cardinality(sessions[f]) <= 1

\* "A racing insert fails, and the retry sees the winner": one retry is enough,
\* whatever accounts race for whatever emails.
RetryIsEnough == \A c \in Call : call[c].result # "google_failed"

\* account_conflict says that the email "is already linked to a different Google
\* account". It is, unless a racing first sign-in of the same account committed
\* between the two queries of this one: those are no snapshot.
ConflictIsReal ==
  \A c \in Call :
    call[c].result = "account_conflict" =>
      call[c].overtaken \/ \E s \in Sub \ {Who(c).sub} : owner[s] = Who(c).email

\* "Google only returns a refresh token on first consent - keep the stored one":
\* no later, or earlier but slower, sign-in without one loses it.
RefreshTokenKept ==
  \A c \in Call : call[c].result = "ok" /\ call[c].refresh => offline[Who(c).sub]

\* What is in the store has an alarm ahead that will look at it: sign-ins that
\* are never completed are dropped.
AbandonedIsPurged == Holds("fresh") \/ Holds("stale") => purge
=============================================================================
