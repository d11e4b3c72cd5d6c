-------------------------- MODULE AccountSessions --------------------------
(***************************************************************************)
(* Signing in, and what every request does with the session in its cookie  *)
(* (ifc_app/supabase_auth.py, the routes of ifc_app/saas.py): it is checked *)
(* with the Auth server, refreshed when its access token has run out, and  *)
(* handed back to the browser in the response.                             *)
(*                                                                         *)
(* A session has generations of tokens: refreshing it with the newest      *)
(* refresh token begins the next generation.  One browser is modelled,     *)
(* with several requests under way at a time.                              *)
(***************************************************************************)
EXTENDS Naturals, FiniteSets

CONSTANTS
  Requests,       \* bound: requests of the browser under way at a time
  MaxSignIns,     \* bound: sessions
  MaxRefreshes,   \* bound: generations of tokens of a session
  MaxHiccups      \* bound: requests to the Auth server that are not answered

ASSUME AccountBoundsAssumption ==
  MaxSignIns \in Nat /\ MaxRefreshes \in Nat \ {0} /\ MaxHiccups \in Nat

VARIABLES
  (* the Auth server *)
  generation, \* per session: its newest generation, 0: not begun
  revoked,    \* sessions the Auth server has ended
  runOut,     \* tokens <<session, generation>> whose access token has run out
  premium,    \* the account's level suffices for premium tools
  (* the browser *)
  cookie,     \* the token in the cookie; NoToken: none
  request,    \* per request: its scope in AuthSessionMiddleware
  hiccups,
  disturbed   \* history: a hiccup, two requests at a time, or a refusal

authServerVars == <<generation, revoked, runOut, premium>>
accountVars == <<authServerVars, cookie, request, hiccups, disturbed>>

NoToken == <<0, 0>>
Sessions == 1..MaxSignIns
Tokens == {NoToken} \cup (Sessions \X (1..MaxRefreshes))
Routes == {"public", "standard", "premium", "logout"}

(* path, auth_session, auth_session_dirty, and what became of the request;  *)
(* gone: the sessions that were revoked when it began.                      *)
NoRequest == [at |-> "none", route |-> "public", token |-> NoToken,
              dirty |-> FALSE, gone |-> {}]

AccountInit ==
  /\ generation = [s \in Sessions |-> 0]
  /\ revoked = {} /\ runOut = {}
  /\ premium \in BOOLEAN
  /\ cookie = NoToken
  /\ request = [r \in Requests |-> NoRequest]
  /\ hiccups = 0 /\ disturbed = FALSE

AccountTypeOK ==
  /\ generation \in [Sessions -> 0..MaxRefreshes]
  /\ revoked \subseteq Sessions
  /\ runOut \subseteq Tokens
  /\ cookie \in Tokens
  /\ request \in [Requests ->
       [at : {"none", "user", "refresh", "gate", "serve", "served", "refused",
              "leave"},
        route : Routes, token : Tokens, dirty : BOOLEAN, gone : SUBSET Sessions]]
  /\ hiccups \in 0..MaxHiccups
  /\ disturbed \in BOOLEAN /\ premium \in BOOLEAN
  (* nobody holds tokens the server did not issue *)
  /\ \A t \in {cookie} \cup {request[r].token : r \in Requests} :
       t # NoToken => t[2] \in 1..generation[t[1]]

-----------------------------------------------------------------------------
(***************************************************************************)
(* The Auth server (external), and the account.                            *)
(***************************************************************************)

(* GET user with an access token.                                           *)
Honoured(t) == t # NoToken /\ t \notin runOut /\ t[1] \notin revoked

(* A token's hour is over.                                                  *)
RunOut ==
  /\ \E s \in Sessions : \E g \in 1..generation[s] :
       /\ <<s, g>> \notin runOut
       /\ runOut' = runOut \cup {<<s, g>>}
  /\ UNCHANGED <<generation, revoked, premium, cookie, request, hiccups, disturbed>>

(* A trial ends, or a subscription begins.                                  *)
ChangeLevel ==
  /\ premium' = ~premium
  /\ UNCHANGED <<generation, revoked, runOut, cookie, request, hiccups, disturbed>>

-----------------------------------------------------------------------------
(***************************************************************************)
(* The browser.                                                            *)
(***************************************************************************)

(* login, signup or a callback with a new session: store_auth_session, and  *)
(* the response sets the cookie.                                            *)
SignIn ==
  /\ \E s \in Sessions :
       /\ generation[s] = 0
       /\ generation' = [generation EXCEPT ![s] = 1]
       /\ cookie' = <<s, 1>>
  /\ disturbed' = (disturbed \/ \E r \in Requests : request[r].at # "none")
  /\ UNCHANGED <<revoked, runOut, premium, request, hiccups>>

(* Variant: an access token that has not run out is taken at its word.      *)
FirstCheck_Trusting(t) ==
  IF t = NoToken THEN "gate" ELSE IF t \in runOut THEN "refresh" ELSE "gate"

(* validate_session: a token that runs out within 30 seconds is refreshed   *)
(* at once, any other is shown to the Auth server.                          *)
FirstCheck(t) ==
  IF t = NoToken THEN "gate" ELSE IF t \in runOut THEN "refresh" ELSE "user"

(* The cookie is decoded; logout has no requirement and checks nothing.     *)
Send(r) ==
  /\ request[r].at = "none"
  /\ \E route \in Routes :
       request' = [request EXCEPT ![r] =
         [at |-> IF route = "logout" THEN "leave" ELSE FirstCheck(cookie),
          route |-> route, token |-> cookie, dirty |-> FALSE, gone |-> revoked]]
  /\ disturbed' = (disturbed \/ \E q \in Requests \ {r} : request[q].at # "none")
  /\ UNCHANGED <<authServerVars, cookie, hiccups>>

-----------------------------------------------------------------------------
(***************************************************************************)
(* AuthSessionMiddleware and get_current_user.                             *)
(***************************************************************************)

Becomes(r, at) == request' = [request EXCEPT ![r].at = at]

(* store_auth_session.                                                      *)
Keeps(r, at, t) ==
  request' = [request EXCEPT ![r].at = at, ![r].token = t, ![r].dirty = TRUE]

GetUser(r) ==
  /\ request[r].at = "user"
  /\ Becomes(r, IF Honoured(request[r].token) THEN "gate" ELSE "refresh")
  /\ UNCHANGED <<authServerVars, cookie, hiccups, disturbed>>

Refreshed(r, t) == Keeps(r, "gate", t)

(* The newest refresh token begins a new generation.                        *)
Refresh(r) ==
  LET t == request[r].token
  IN  /\ request[r].at = "refresh"
      /\ t[1] \notin revoked /\ t[2] = generation[t[1]] /\ t[2] < MaxRefreshes
      /\ generation' = [generation EXCEPT ![t[1]] = t[2] + 1]
      /\ Refreshed(r, <<t[1], t[2] + 1>>)
      /\ UNCHANGED <<revoked, runOut, premium, cookie, hiccups, disturbed>>

(* An older one is refused, or honoured for a while with the newest tokens. *)
RefreshAgain(r) ==
  LET t == request[r].token
  IN  /\ request[r].at = "refresh"
      /\ t[1] \notin revoked /\ t[2] < generation[t[1]]
      /\ Refreshed(r, <<t[1], generation[t[1]]>>)
      /\ UNCHANGED <<authServerVars, cookie, hiccups, disturbed>>

(* A rejected session is cleared.                                           *)
RefreshRefused(r) ==
  LET t == request[r].token
  IN  /\ request[r].at = "refresh"
      /\ t[1] \in revoked \/ t[2] < generation[t[1]]
      /\ Keeps(r, "gate", NoToken)
      /\ UNCHANGED <<authServerVars, cookie, hiccups, disturbed>>

(* So is one the Auth server did not answer for: 503 is a                   *)
(* SupabaseAuthError like any other.  The refresh may have taken effect.    *)
Hiccup(r) ==
  LET t == request[r].token
  IN  /\ request[r].at \in {"user", "refresh"} /\ hiccups < MaxHiccups
      /\ hiccups' = hiccups + 1 /\ disturbed' = TRUE
      /\ Keeps(r, "gate", NoToken)
      /\ \/ UNCHANGED generation
         \/ /\ request[r].at = "refresh" /\ t[1] \notin revoked
            /\ t[2] = generation[t[1]] /\ t[2] < MaxRefreshes
            /\ generation' = [generation EXCEPT ![t[1]] = t[2] + 1]
      /\ UNCHANGED <<revoked, runOut, premium, cookie>>

(* _route_requirement and has_account_level; a profile that cannot be read  *)
(* is empty, which is standard.                                             *)
Admitted(r, readable) ==
  \/ request[r].route = "public"
  \/ /\ request[r].token # NoToken
     /\ request[r].route = "premium" => premium /\ readable

(* A refusal is sent past send_wrapper: it sets no cookie.                  *)
Gate(r) ==
  /\ request[r].at = "gate"
  /\ \E readable \in BOOLEAN :
       Becomes(r, IF Admitted(r, readable) THEN "serve" ELSE "refused")
  /\ UNCHANGED <<authServerVars, cookie, hiccups, disturbed>>

Serve(r) ==
  /\ request[r].at = "serve"
  /\ Becomes(r, "served")
  /\ UNCHANGED <<authServerVars, cookie, hiccups, disturbed>>

(* logout: sign_out ends the session of a token that is honoured.  What it   *)
(* meets is swallowed: an access token that has run out, and a request that  *)
(* is not answered, which may have taken effect.  The cookie is cleared.    *)
LogOut(r) ==
  LET t == request[r].token
      ended == IF Honoured(t) THEN revoked \cup {t[1]} ELSE revoked
  IN  /\ request[r].at = "leave"
      /\ \/ revoked' = ended /\ UNCHANGED <<hiccups, disturbed>>
         \/ /\ t # NoToken /\ hiccups < MaxHiccups
            /\ hiccups' = hiccups + 1 /\ disturbed' = TRUE
            /\ revoked' \in {revoked, ended}
      /\ Keeps(r, "served", NoToken)
      /\ UNCHANGED <<generation, runOut, premium, cookie>>

(* The browser gets a response, in any order.                               *)
Receive(r) ==
  LET answer == request[r]
  IN  /\ answer.at \in {"served", "refused"}
      /\ cookie' = IF answer.at = "served" /\ answer.dirty THEN answer.token
                   ELSE cookie
      /\ disturbed' = (disturbed \/ answer.at = "refused")
      /\ request' = [request EXCEPT ![r] = NoRequest]
      /\ UNCHANGED <<authServerVars, hiccups>>

AccountNext ==
  \/ RunOut \/ ChangeLevel \/ SignIn
  \/ \E r \in Requests :
       \/ Send(r) \/ GetUser(r) \/ Refresh(r) \/ RefreshAgain(r)
       \/ RefreshRefused(r) \/ Hiccup(r) \/ Gate(r) \/ Serve(r) \/ LogOut(r)
       \/ Receive(r)

AccountSpec == AccountInit /\ [][AccountNext]_accountVars

-----------------------------------------------------------------------------
(***************************************************************************)
(* Properties.                                                             *)
(***************************************************************************)

(* A session the Auth server has ended stays ended: no request that begins   *)
(* afterwards is served for it, whatever cookie a slower response put back.  *)
(* (Signing out always clears the cookie, and ends the session if the Auth   *)
(* server was reached with an access token it honours.)  And a browser that  *)
(* sends one request at a time, meets no outage and is refused nothing      *)
(* always holds the newest tokens of its session.                           *)
SessionsEndAndLast ==
  /\ \A r \in Requests : request[r].at \in {"serve", "served"} =>
       request[r].token = NoToken \/ request[r].token[1] \notin request[r].gone
  /\ ~disturbed /\ cookie # NoToken /\ (\A r \in Requests : request[r].at = "none") =>
       cookie[2] = generation[cookie[1]]

=============================================================================
