------------------------------ MODULE Session -------------------------------
(***************************************************************************)
(* How an operator stays signed in: the tabs of one browser                *)
(* (ui/admin/src/lib/api.svelte.js, ui/admin/src/App.svelte), the endpoints *)
(* that keep the refresh token in a cookie                                 *)
(* (crates/postbud-api/src/oidc.rs), and the issuer behind them.           *)
(*                                                                         *)
(* Each tab has an id_token in memory and shares the cookie with the other *)
(* tabs.  The issuer rotates: a refresh token is spent by its first use,   *)
(* and the answer carries the next.  Nothing orders the exchanges of two   *)
(* tabs, nor the answers of the calls within one.                          *)
(*                                                                         *)
(* The issuer is external.  A refresh token and the id_token issued with   *)
(* it have the same number.                                                *)
(***************************************************************************)
EXTENDS Naturals

CONSTANTS
  Tab,              \* the tabs of the browser
  Call,             \* calls of the admin API a tab may have open at once
  MaxIssued,        \* bound: tokens the issuer hands out
  MaxSessionFaults  \* bound: answers lost or of no use, and cookies that ran out

ASSUME SessionAssumption == {MaxIssued, MaxSessionFaults} \subseteq Nat

VARIABLES
  refresh,       \* [Issued -> Life], the refresh tokens at the issuer
  good,          \* id_tokens that have not expired
  jar,           \* the refresh cookie, 0 for none
  token,         \* [Tab -> the id_token in memory], 0 for none
  exchange,      \* [Tab -> Exchange], refreshSession in flight
  open,          \* [Tab -> [Call -> ApiCall]], calls of the API in flight
  leaving,       \* tabs that are signing out
  sessionFaults  \* faults so far, at most MaxSessionFaults

sessionVars == <<refresh, good, jar, token, exchange, open, leaving,
                 sessionFaults>>

-----------------------------------------------------------------------------
(* Data.                                                                   *)

Issued == 1 .. MaxIssued

Life == {"unissued", "live", "spent", "ended"}

\* `cookie` is what the request carried, and `won` what the issuer answered
\* with.
Exchange == [at : {"none", "asking", "accepted", "refused", "resting"},
             attempt : 1 .. 2, cookie : 0 .. MaxIssued, won : 0 .. MaxIssued]

NoExchange == [at |-> "none", attempt |-> 1, cookie |-> 0, won |-> 0]

\* A call carries the token of the moment; one that met a 401 waits for the
\* exchange, and is then sent once more.
ApiCall == [at : {"none", "sent", "waiting", "resent"}, token : 0 .. MaxIssued]

NoCalls == [c \in Call |-> [at |-> "none", token |-> 0]]

\* The issuer hands out the next token, in place of `spent`.
Issues(n, spent) ==
  /\ refresh[n] = "unissued" /\ \A k \in Issued : k < n => refresh[k] # "unissued"
  /\ refresh' = [k \in Issued |-> CASE k = n -> "live" [] k \in spent -> "spent"
                                    [] OTHER -> refresh[k]]
  /\ good' = good \cup {n}

Set(t, value) == exchange' = [exchange EXCEPT ![t] = value]

\* fetch: the browser adds the cookie it has now.
Asking == [NoExchange EXCEPT !.at = "asking", !.cookie = jar]

Spent(n) == n \in Issued /\ refresh[n] = "spent"

\* No request of the tab's exchange is under way; to leave the page while
\* one is, is to lose its answer.
Quiet(t) == exchange[t].at \notin {"asking", "accepted"}

-----------------------------------------------------------------------------
(* The page.                                                               *)

\* completeLogin and exchange: a tab at the login gate comes back from the
\* issuer with a code.
Login(t) ==
  /\ token[t] = 0 /\ Quiet(t) /\ t \notin leaving
  /\ \E n \in Issued : Issues(n, {}) /\ jar' = n /\ token' = [token EXCEPT ![t] = n]
  /\ open' = [open EXCEPT ![t] = NoCalls]
  /\ Set(t, NoExchange)
  /\ UNCHANGED <<leaving, sessionFaults>>

\* The page is loaded (again): nothing is in memory, and the cookie is asked
\* whether there is a session.
Load(t) ==
  /\ Quiet(t)
  /\ token' = [token EXCEPT ![t] = 0]
  /\ open' = [open EXCEPT ![t] = NoCalls]
  /\ leaving' = leaving \ {t}
  /\ Set(t, Asking)
  /\ UNCHANGED <<refresh, good, jar, sessionFaults>>

\* signOut, up to the answer of logout it waits for.
SignOut(t) ==
  /\ token[t] # 0
  /\ token' = [token EXCEPT ![t] = 0]
  /\ leaving' = leaving \cup {t}
  /\ UNCHANGED <<refresh, good, jar, exchange, open, sessionFaults>>

\* The cookie is dropped, and the page left for the issuer, which may end
\* the session.
Leave(t) ==
  /\ t \in leaving /\ Quiet(t)
  /\ leaving' = leaving \ {t}
  /\ token' = [token EXCEPT ![t] = 0]
  /\ open' = [open EXCEPT ![t] = NoCalls]
  /\ jar' = 0
  /\ Set(t, NoExchange)
  /\ refresh' \in {refresh, [k \in Issued |-> IF refresh[k] = "live" THEN "ended"
                                                                   ELSE refresh[k]]}
  /\ UNCHANGED <<good, sessionFaults>>

-----------------------------------------------------------------------------
(* Calls: api, and OidcAdmin::verify behind it.                            *)

SendCall(t, c) ==
  /\ token[t] # 0 /\ open[t][c].at = "none"
  /\ open' = [open EXCEPT ![t][c] = [at |-> "sent", token |-> token[t]]]
  /\ UNCHANGED <<refresh, good, jar, token, exchange, leaving, sessionFaults>>

CallAnswered(t, c) ==
  /\ open[t][c].at \in {"sent", "resent"} /\ open[t][c].token \in good
  /\ open' = [open EXCEPT ![t][c] = NoCalls[c]]
  /\ UNCHANGED <<refresh, good, jar, token, exchange, leaving, sessionFaults>>

\* 401, once: an exchange is started, or the one in flight is shared.
CallRefused(t, c) ==
  /\ open[t][c].at = "sent" /\ open[t][c].token \notin good
  /\ open' = [open EXCEPT ![t][c] = [at |-> "waiting", token |-> 0]]
  /\ IF exchange[t].at = "none" THEN Set(t, Asking) ELSE UNCHANGED exchange
  /\ UNCHANGED <<refresh, good, jar, token, leaving, sessionFaults>>

\* 401 again: the token is dropped, and the tab is at the login gate.
CallRefusedAgain(t, c) ==
  /\ open[t][c].at = "resent" /\ open[t][c].token \notin good
  /\ open' = [open EXCEPT ![t][c] = NoCalls[c]]
  /\ token' = [token EXCEPT ![t] = 0]
  /\ UNCHANGED <<refresh, good, jar, exchange, leaving, sessionFaults>>

-----------------------------------------------------------------------------
(* Exchanges: refreshSession, the endpoint refresh, and the issuer.        *)

\* Mutant: the answer's new refresh token is not put into the cookie.
Rotate_KeepsNothing(t, n) ==
  /\ Issues(n, {exchange[t].cookie})
  /\ Set(t, [exchange[t] EXCEPT !.at = "accepted", !.won = exchange[t].cookie])

\* The token is spent, and the answer carries its replacement.
Rotate(t, n) ==
  /\ Issues(n, {exchange[t].cookie})
  /\ Set(t, [exchange[t] EXCEPT !.at = "accepted", !.won = n])

\* The issuer takes a token that is live, once.
Accepted(t) ==
  /\ exchange[t].at = "asking" /\ exchange[t].cookie # 0
  /\ refresh[exchange[t].cookie] = "live"
  /\ \E n \in Issued : Rotate(t, n)
  /\ UNCHANGED <<jar, token, open, leaving, sessionFaults>>

\* What becomes of the exchange without a success: a first 400 is slept on
\* for 400 ms; a second one, or a 401, fails.
TurnedAway(x) ==
  IF x.cookie # 0 /\ x.attempt = 1
  THEN [NoExchange EXCEPT !.at = "resting"]
  ELSE [NoExchange EXCEPT !.at = "refused"]

\* There is no cookie (401), or the issuer's answer is no success (400):
\* because the token is spent or ended, or though it is live - a rate limit,
\* or trouble of its own.  The cookie stays what it is.
Refused(t) ==
  /\ exchange[t].at = "asking"
  /\ Set(t, TurnedAway(exchange[t]))
  /\ UNCHANGED <<refresh, good, jar, token, open, leaving, sessionFaults>>

Resent(t, n) ==
  [c \in Call |-> IF open[t][c].at = "waiting"
                  THEN [at |-> "resent", token |-> n] ELSE open[t][c]]

\* The answer arrives, and its Set-Cookie with it; every call that waited
\* is sent again.
Arrive(t) ==
  /\ exchange[t].at = "accepted"
  /\ jar' = exchange[t].won
  /\ token' = [token EXCEPT ![t] = exchange[t].won]
  /\ open' = [open EXCEPT ![t] = Resent(t, exchange[t].won)]
  /\ Set(t, NoExchange)
  /\ UNCHANGED <<refresh, good, leaving, sessionFaults>>

\* refreshSession is false: every call that waited clears the token.
Fails(t) ==
  /\ Set(t, NoExchange)
  /\ open' = [open EXCEPT ![t] = [c \in Call |->
       IF open[t][c].at = "waiting" THEN NoCalls[c] ELSE open[t][c]]]
  /\ token' = IF \E c \in Call : open[t][c].at = "waiting"
              THEN [token EXCEPT ![t] = 0] ELSE token

GiveUp(t) ==
  /\ exchange[t].at = "refused"
  /\ Fails(t)
  /\ UNCHANGED <<refresh, good, jar, leaving, sessionFaults>>

\* The second attempt carries what is in the jar by then: nothing says that
\* another tab's answer takes less than 400 ms.
AskAgain(t) ==
  /\ exchange[t].at = "resting"
  /\ Set(t, [exchange[t] EXCEPT !.at = "asking", !.attempt = 2, !.cookie = jar])
  /\ UNCHANGED <<refresh, good, jar, token, open, leaving, sessionFaults>>

-----------------------------------------------------------------------------
(* Time and faults.                                                        *)

\* id_tokens live equally long: they expire in the order of their issue.
Expire(n) ==
  /\ n \in good /\ \A k \in good : n <= k
  /\ good' = good \ {n}
  /\ UNCHANGED <<refresh, jar, token, exchange, open, leaving, sessionFaults>>

\* The cookie reaches its Max-Age of twelve hours, whatever the issuer holds.
CookieExpires ==
  /\ sessionFaults < MaxSessionFaults
  /\ sessionFaults' = sessionFaults + 1
  /\ jar # 0
  /\ jar' = 0
  /\ UNCHANGED <<refresh, good, token, exchange, open, leaving>>

\* A refresh that answers 500, or whose answer is lost, not waited for or
\* carries no id_token; the cookie may have come with it.
LoseAnswer(t) ==
  /\ sessionFaults < MaxSessionFaults
  /\ sessionFaults' = sessionFaults + 1
  /\ exchange[t].at \in {"asking", "accepted"}
  /\ jar' \in {jar} \cup (IF exchange[t].at = "accepted" THEN {exchange[t].won} ELSE {})
  /\ Fails(t)
  /\ UNCHANGED <<refresh, good, leaving>>

\* The issuer has spent the token and fails all the same (5xx): a 400 like
\* any other.
SpentInVain(t) ==
  /\ sessionFaults < MaxSessionFaults
  /\ sessionFaults' = sessionFaults + 1
  /\ exchange[t].at = "accepted"
  /\ Set(t, TurnedAway(exchange[t]))
  /\ UNCHANGED <<refresh, good, jar, token, open, leaving>>

-----------------------------------------------------------------------------
(* The specification.                                                      *)

SessionInit ==
  /\ refresh  = [n \in Issued |-> "unissued"]
  /\ good     = {}
  /\ jar      = 0
  /\ token    = [t \in Tab |-> 0]
  /\ exchange = [t \in Tab |-> NoExchange]
  /\ open     = [t \in Tab |-> NoCalls]
  /\ leaving  = {}
  /\ sessionFaults = 0

SessionNext ==
  \/ \E t \in Tab :
       \/ Login(t) \/ Load(t) \/ SignOut(t) \/ Leave(t)
       \/ \E c \in Call : \/ SendCall(t, c) \/ CallAnswered(t, c)
                          \/ CallRefused(t, c) \/ CallRefusedAgain(t, c)
       \/ Accepted(t) \/ Refused(t) \/ Arrive(t) \/ GiveUp(t)
       \/ AskAgain(t) \/ LoseAnswer(t) \/ SpentInVain(t)
  \/ \E n \in Issued : Expire(n)
  \/ CookieExpires

SessionSpec == SessionInit /\ [][SessionNext]_sessionVars

-----------------------------------------------------------------------------
(* Properties.                                                             *)

SessionTypeOK ==
  /\ refresh \in [Issued -> Life]
  /\ good \subseteq Issued
  /\ jar \in 0 .. MaxIssued
  /\ token \in [Tab -> 0 .. MaxIssued]
  /\ exchange \in [Tab -> Exchange]
  /\ open \in [Tab -> [Call -> ApiCall]]
  /\ leaving \subseteq Tab
  /\ sessionFaults \in 0 .. MaxSessionFaults

\* Sharing one cookie loses nobody the session: however many tabs and calls
\* are at it, and in whatever order the answers come, a cookie that was spent
\* stays in the jar only while the answer to the tab that spent it is on its
\* way, and that answer alone has the token that takes its place - one the
\* issuer still honours unless somebody signed out.  A lost answer is what
\* the cookie cannot survive.
SpentIsReplaced ==
  sessionFaults = 0 /\ Spent(jar) =>
    \E t \in Tab :
      /\ exchange[t].at = "accepted" /\ exchange[t].cookie = jar
      /\ refresh[exchange[t].won] \in {"live", "ended"}
      /\ \A u \in Tab \ {t} :
           /\ exchange[u].cookie # exchange[t].won
           /\ exchange[u].at = "accepted" => exchange[u].won # exchange[t].won

=============================================================================
