------------------------------ MODULE Sessions ------------------------------
(***************************************************************************)
(* Sign-in sessions: the refresh tokens the API keeps and rotates, and the *)
(* dashboard's tabs that share one of them in localStorage.  The API is    *)
(* either runtime: the Worker (auth/session.ts) spends the old token and   *)
(* then issues the new one, the backend (auth.service.ts) issues first.    *)
(*                                                                         *)
(* One user, one browser.  An access token is valid or has expired at any  *)
(* time, so a tab that holds one may get a 401 whenever it asks.  Each     *)
(* await of an API handler is a step; what a tab does between two answers  *)
(* is one.                                                                 *)
(***************************************************************************)
EXTENDS Naturals, FiniteSets

CONSTANTS
  Tab,       \* tabs of the browser
  Call,      \* requests that may be in progress at one time
  Runtime,   \* the runtimes the API may be: "worker", "backend"
  MaxToken,  \* bound: refresh tokens issued
  MaxFaults  \* bound: handlers lost, answers lost, reloads in the middle of a refresh

None  == 0
Token == 1..MaxToken

ASSUME SessionsAssumption ==
  /\ Call \subseteq Nat \ {None}
  /\ Runtime # {} /\ Runtime \subseteq {"worker", "backend"}
  /\ MaxToken \in Nat /\ MaxFaults \in Nat

VARIABLES
  runtime,
  row,        \* refresh_tokens: "none", "live" or "revoked"
  next,       \* ... the token that replaced it
  call,       \* the requests the API serves
  stored,     \* localStorage: the refresh token of all tabs
  access,     \* memory of each tab: it holds an access token
  refreshing, \* ... its refreshInFlight
  button,     \* ... the sign-in or sign-out it awaits
  faults,
  \* history: the sign-in a token descends from, the tokens whose refresh was
  \* answered, the sessions a sign-out ended (it found its token live)
  session, answered, ended

tokens  == <<row, next, session>>
browser == <<stored, access, refreshing, button>>
vars    == <<runtime, tokens, call, browser, faults, answered, ended>>

Free == [kind |-> "free", token |-> None, at |-> "free", new |-> None]

\* The request is over: nothing of it is left to do in the API.
Final == {"free", "answered", "refused", "lost"}
Awaited(c) == \E t \in Tab : refreshing[t] = c \/ button[t] = c

Init ==
  /\ runtime \in Runtime
  /\ row = [n \in Token |-> "none"]
  /\ next = [n \in Token |-> None]
  /\ session = [n \in Token |-> None]
  /\ call = [c \in Call |-> Free]
  /\ stored = None
  /\ access = [t \in Tab |-> FALSE]
  /\ refreshing = [t \in Tab |-> None]
  /\ button = [t \in Tab |-> None]
  /\ faults = 0
  /\ answered = {} /\ ended = {}

----------------------------------------------------------------------------
(* The API *)

Used == {n \in Token : row[n] # "none"}
Fresh == Cardinality(Used) + 1

\* A request that is over and that no tab awaits any more is forgotten.
Put(c, state) ==
  call' = [call EXCEPT ![c] = IF state.at \in Final /\ ~Awaited(c) THEN Free ELSE state]

CallGoto(c, from, to) ==
  /\ call[c].at = from
  /\ Put(c, [call[c] EXCEPT !.at = to])

\* The token's claims verify, and its row is neither revoked nor expired.
Live(n) == row[n] = "live"

\* refresh: the row of the token, which must be live.
Find(c) ==
  /\ call[c].kind = "refresh"
  /\ CallGoto(c, "begin", IF ~Live(call[c].token) THEN "refused"
                          ELSE IF runtime = "worker" THEN "spend" ELSE "issue")
  /\ UNCHANGED <<runtime, tokens, browser, faults, answered, ended>>

\* Mutant: the row is revoked whether or not it is still live.
SpendAlways(c) ==
  /\ CallGoto(c, "spend", "issue")
  /\ row' = [row EXCEPT ![call[c].token] = "revoked"]
  /\ UNCHANGED <<runtime, next, session, browser, faults, answered, ended>>

\* Worker: revoked only if it is still live; the loser of a race is refused.
Spend(c) ==
  /\ CallGoto(c, "spend", IF Live(call[c].token) THEN "issue" ELSE "refused")
  /\ row' = [row EXCEPT ![call[c].token] = "revoked"]
  /\ UNCHANGED <<runtime, next, session, browser, faults, answered, ended>>

\* A signed pair, whose refresh token has a row.
issueTokenPair(new, of) ==
  /\ row' = [row EXCEPT ![new] = "live"]
  /\ session' = [session EXCEPT ![new] = of]

\* A new row: of a session of its own, or of the session of the old token. The
\* Worker links the old row to it in the same batch.
Issue(c) ==
  LET old == call[c].token
      new == Fresh
      refresh == call[c].kind = "refresh"
  IN
  /\ call[c].at = "issue"
  /\ new \in Token
  /\ Put(c, [call[c] EXCEPT !.new = new,
                            !.at = IF refresh /\ runtime = "backend" THEN "revoke" ELSE "answered"])
  /\ issueTokenPair(new, IF refresh THEN session[old] ELSE new)
  /\ next' = IF refresh /\ runtime = "worker" THEN [next EXCEPT ![old] = new] ELSE next
  /\ UNCHANGED <<runtime, browser, faults, answered, ended>>

\* Mutant: the update records the replacement and forgets revoked_at.
LinkOnly(c) ==
  /\ CallGoto(c, "revoke", "answered")
  /\ next' = [next EXCEPT ![call[c].token] = call[c].new]
  /\ UNCHANGED <<runtime, row, session, browser, faults, answered, ended>>

\* Backend: the old row is revoked and linked, whatever it is by now.
RevokeOld(c) ==
  /\ CallGoto(c, "revoke", "answered")
  /\ row' = [row EXCEPT ![call[c].token] = "revoked"]
  /\ next' = [next EXCEPT ![call[c].token] = call[c].new]
  /\ UNCHANGED <<runtime, session, browser, faults, answered, ended>>

\* What a sign-out with token n ends: its session, if n is live.
Revoked(n) == IF Live(n) THEN {session[n]} ELSE {}

\* logout: the token is revoked if it is live.
EndSession(c) ==
  /\ call[c].kind = "signout"
  /\ CallGoto(c, "begin", "answered")
  /\ row' = [row EXCEPT ![call[c].token] = "revoked"]
  /\ ended' = ended \cup Revoked(call[c].token)
  /\ UNCHANGED <<runtime, next, session, browser, faults, answered>>

\* The handler dies or throws, the request never arrives or the answer does
\* not: a 5xx or nothing at all.
LoseCall(c) ==
  /\ call[c].at \notin {"free", "lost"}
  /\ faults < MaxFaults
  /\ faults' = faults + 1
  /\ Put(c, [call[c] EXCEPT !.at = "lost"])
  /\ UNCHANGED <<runtime, tokens, browser, answered, ended>>

----------------------------------------------------------------------------
(* The tabs *)

\* The first free place for a request of this kind. (A token is left for each
\* that may issue one: where the bound on tokens bites, nobody asks any more.)
FirstFree(c) == call[c] = Free /\ \A d \in Call : d < c => call[d] # Free
Issuing(d) == call[d].kind \in {"refresh", "signin"} /\ call[d].new = None /\ call[d].at \notin Final

Send(c, kind, token) ==
  /\ FirstFree(c)
  /\ kind # "signout" => Cardinality(Used) + Cardinality({d \in Call : Issuing(d)}) < MaxToken
  /\ call' = [call EXCEPT ![c] = [kind |-> kind, token |-> token, new |-> None,
                                  at |-> IF kind = "signin" THEN "issue" ELSE "begin"]]

Signed(t, token) ==
  /\ stored' = token
  /\ access' = [access EXCEPT ![t] = TRUE]

\* These are awaited no more: what is over of them is forgotten.
Forget(C) ==
  call' = [c \in Call |-> IF c \in C /\ call[c].at \in Final THEN Free ELSE call[c]]

Clear(t) ==
  /\ stored' = None
  /\ access' = [access EXCEPT ![t] = FALSE]

\* A page is opened or reloaded ("Try again" is the same): bootstrapSession
\* refreshes with what is stored.
Open(t) ==
  /\ refreshing[t] = None /\ button[t] = None
  /\ access' = [access EXCEPT ![t] = FALSE]
  /\ \/ stored = None /\ UNCHANGED <<call, refreshing>>
     \/ /\ stored # None
        /\ \E c \in Call : /\ Send(c, "refresh", stored)
                           /\ refreshing' = [refreshing EXCEPT ![t] = c]
  /\ UNCHANGED <<runtime, tokens, stored, button, faults, answered, ended>>

\* A page is left in the middle of a request: the API goes on, nobody listens.
Leave(t) ==
  /\ refreshing[t] # None \/ button[t] # None
  /\ faults < MaxFaults
  /\ faults' = faults + 1
  /\ access' = [access EXCEPT ![t] = FALSE]
  /\ refreshing' = [refreshing EXCEPT ![t] = None]
  /\ button' = [button EXCEPT ![t] = None]
  /\ Forget({refreshing[t], button[t]})
  /\ UNCHANGED <<runtime, tokens, stored, answered, ended>>

\* The page Google's redirect lands on, of a tab that is not signed in: the
\* code is exchanged for a session. (A refresh of bootstrapSession may run
\* beside it.)
SignIn(t) ==
  /\ ~access[t] /\ button[t] = None
  /\ \E c \in Call : Send(c, "signin", None) /\ button' = [button EXCEPT ![t] = c]
  /\ UNCHANGED <<runtime, tokens, stored, access, refreshing, faults, answered, ended>>

\* request() gets a 401: it starts the refresh every other 401 will share, or
\* finds nothing stored, which is a rejection.
Unauthorized(t) ==
  /\ access[t]
  /\ refreshing[t] = None
  /\ \/ /\ stored = None
        /\ Clear(t)
        /\ UNCHANGED <<call, refreshing>>
     \/ /\ stored # None
        /\ \E c \in Call : /\ Send(c, "refresh", stored)
                           /\ refreshing' = [refreshing EXCEPT ![t] = c]
        /\ UNCHANGED <<stored, access>>
  /\ UNCHANGED <<runtime, tokens, button, faults, answered, ended>>

\* Mutant: refreshInFlight is reset on success only.
KeepRejected(t) ==
  LET c == refreshing[t] IN
  /\ c # None
  /\ \/ /\ call[c].at = "answered"
        /\ Signed(t, call[c].new)
        /\ answered' = answered \cup {call[c].token}
        /\ refreshing' = [refreshing EXCEPT ![t] = None]
     \/ /\ call[c].at = "refused"
        /\ Clear(t)
        /\ UNCHANGED <<answered, refreshing>>
     \/ /\ call[c].at = "lost"
        /\ refreshing' = [refreshing EXCEPT ![t] = None]
        /\ UNCHANGED <<stored, access, answered>>
  /\ UNCHANGED <<runtime, tokens, call, button, faults, ended>>

\* Mutant: the access token is replaced, the stored refresh token is not.
KeepStored(t) ==
  LET c == refreshing[t] IN
  /\ c # None
  /\ \/ /\ call[c].at = "answered"
        /\ access' = [access EXCEPT ![t] = TRUE]
        /\ answered' = answered \cup {call[c].token}
        /\ UNCHANGED stored
     \/ call[c].at = "refused" /\ Clear(t) /\ UNCHANGED answered
     \/ call[c].at = "lost" /\ UNCHANGED <<stored, access, answered>>
  /\ refreshing' = [refreshing EXCEPT ![t] = None]
  /\ Forget({c})
  /\ UNCHANGED <<runtime, tokens, button, faults, ended>>

\* The refresh is settled: ok, rejected, or unreachable.
RefreshSettled(t) ==
  LET c == refreshing[t] IN
  /\ c # None
  /\ \/ /\ call[c].at = "answered"
        /\ Signed(t, call[c].new)
        /\ answered' = answered \cup {call[c].token}
     \/ call[c].at = "refused" /\ Clear(t) /\ UNCHANGED answered
     \/ call[c].at = "lost" /\ UNCHANGED <<stored, access, answered>>
  /\ refreshing' = [refreshing EXCEPT ![t] = None]
  /\ Forget({c})
  /\ UNCHANGED <<runtime, tokens, button, faults, ended>>

\* The connection breaks: unreachable, while the handler goes on.
ConnectionLost(t) ==
  /\ refreshing[t] # None
  /\ faults < MaxFaults
  /\ faults' = faults + 1
  /\ refreshing' = [refreshing EXCEPT ![t] = None]
  /\ Forget({refreshing[t]})
  /\ UNCHANGED <<runtime, tokens, stored, access, button, answered, ended>>

\* The guard of the routes for signed-in users finds the access token expired: a
\* 401 before the handler.
GuardRefuses(c) ==
  /\ FirstFree(c)
  /\ call' = [call EXCEPT ![c] = [Free EXCEPT !.kind = "signout", !.at = "refused"]]

\* authApi.logout: the stored token is sent. A 401 of the guard is not answered
\* with a refresh under /auth/.
SignOut(t) ==
  /\ access[t] /\ button[t] = None
  /\ \/ /\ stored = None
        /\ Clear(t)
        /\ UNCHANGED <<call, button>>
     \/ /\ stored # None
        /\ \E c \in Call : /\ Send(c, "signout", stored) \/ GuardRefuses(c)
                           /\ button' = [button EXCEPT ![t] = c]
        /\ UNCHANGED <<stored, access>>
  /\ UNCHANGED <<runtime, tokens, refreshing, faults, answered, ended>>

\* The sign-in or sign-out is answered, or is not: a sign-out clears the tab
\* either way ("finally"), a sign-in that failed changes nothing.
ButtonSettled(t) ==
  LET c == button[t] IN
  /\ c # None
  /\ call[c].at \in Final
  /\ IF call[c].kind = "signin"
     THEN IF call[c].at = "answered" THEN Signed(t, call[c].new) ELSE UNCHANGED <<stored, access>>
     ELSE Clear(t)
  /\ button' = [button EXCEPT ![t] = None]
  /\ Forget({c})
  /\ UNCHANGED <<runtime, tokens, refreshing, faults, answered, ended>>

----------------------------------------------------------------------------

Refresh(c) == Find(c) \/ Spend(c) \/ Issue(c) \/ RevokeOld(c)   \* Issue: a sign-in's as well
Serve(c)   == Refresh(c) \/ EndSession(c)
Settle(t) == RefreshSettled(t) \/ ButtonSettled(t)

Next ==
  \/ \E c \in Call : Serve(c) \/ LoseCall(c)
  \/ \E t \in Tab : \/ Settle(t) \/ ConnectionLost(t)
                    \/ Open(t) \/ Leave(t) \/ SignIn(t) \/ Unauthorized(t) \/ SignOut(t)

\* The API answers what reaches it, and a tab takes its answers. Users,
\* reloads and expiring tokens owe nothing.
Fairness ==
  /\ \A c \in Call : WF_vars(Serve(c))
  /\ \A t \in Tab : WF_vars(RefreshSettled(t)) /\ WF_vars(ButtonSettled(t))

Spec     == Init /\ [][Next]_vars
FairSpec == Spec /\ Fairness

----------------------------------------------------------------------------
(* Properties *)

TypeOK ==
  /\ runtime \in Runtime
  /\ row \in [Token -> {"none", "live", "revoked"}]
  /\ next \in [Token -> Token \cup {None}]
  /\ session \in [Token -> Token \cup {None}]
  /\ call \in [Call -> [kind : {"free", "refresh", "signin", "signout"},
                        token : Token \cup {None}, new : Token \cup {None},
                        at : Final \cup {"begin", "spend", "issue", "revoke"}]]
  /\ stored \in Token \cup {None}
  /\ access \in [Tab -> BOOLEAN]
  /\ refreshing \in [Tab -> Call \cup {None}]
  /\ button \in [Tab -> Call \cup {None}]
  /\ faults \in 0..MaxFaults
  /\ answered \subseteq Token /\ ended \subseteq Token

\* "when two refreshes race on one token, exactly one sees a change and
\* continues": the Worker never has two live tokens of one sign-in.
OneLivePerSession ==
  runtime = "worker" =>
    \A m, n \in Token : row[m] = "live" /\ row[n] = "live" /\ session[m] = session[n] => m = n

\* README: "each refresh issues a new pair and revokes the old one". Under
\* either runtime a token whose successor reached a tab is good for nothing.
NoReplay ==
  [][\A c \in Call : call[c].at = "begin" /\ call'[c].at \in {"spend", "issue"}
       => call[c].token \notin answered]_vars

\* Once a sign-out has revoked a live token, its session is over for good,
\* whatever refreshes of it are under way: with one live token a session, the
\* Worker has none that can still issue. (The backend has.)
SignOutEndsSession ==
  runtime = "worker" => \A n \in Token : session[n] \in ended => row[n] # "live"

\* "The backend rotates refresh tokens - always store the NEW one": whichever
\* tabs refresh, sign in and sign out at once, what they leave in localStorage is
\* nothing or a live token, unless an answer was lost.
StoredIsLive ==
  (/\ faults = 0
   /\ \A c \in Call : call[c].at \in Final
   /\ \A t \in Tab : refreshing[t] = None /\ button[t] = None)
    => stored = None \/ row[stored] = "live"

\* Single flight: a tab that refreshes is through with it some day, or its
\* requests would wait for that promise for ever.
RefreshSettles ==
  \A t \in Tab : refreshing[t] # None ~> refreshing[t] = None

\* RefreshOutcome: "rejected: the API answered and said no (expired, revoked,
\* already used) - the session is over".
RejectedMeansOver ==
  \A t \in Tab :
    LET c == refreshing[t] IN
    c # None /\ call[c].at = "refused"
      => ~\E n \in Token : row[n] = "live" /\ session[n] = session[call[c].token] /\ stored = n
=============================================================================
