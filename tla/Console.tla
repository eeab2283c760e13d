------------------------------ MODULE Console ------------------------------
(***************************************************************************)
(* One tab of the web console (control-plane-ui/site) over the API and the *)
(* upstream clients: it signs in with Keycloak by redirects, keeps tokens  *)
(* for the session, shares one refresh, and does deeds in dialogs.         *)
(*                                                                         *)
(* The label of a sign-in, its state and its verifier, is who began it.  A *)
(* token is the key it is signed with, and old once it is to be refreshed. *)
(* A call of a page that is gone is finished at the server all the same;   *)
(* the next of its kind waits for that.                                    *)
(***************************************************************************)
EXTENDS ApiGuard

CONSTANT Deeds  \* the calls that are made in dialogs; others but "me" are loads

VARIABLES
  page,        \* what the tab shows, or where it has gone
  tokens,      \* in sessionStorage
  pkce,        \* in sessionStorage: the last sign-in that was begun
  nav,         \* the navigation that location.assign has begun
  code,        \* the sign-in Keycloak answers
  call,        \* each call in the tab
  refreshing,  \* whether the tab waits for a refresh
  dialog,      \* the deed whose dialog is open
  busy,        \* whether it runs
  told,        \* the deeds the user saw succeed
  sso          \* whether Keycloak knows the user

tab == <<page, tokens, pkce, nav, code, call, refreshing, dialog, busy, told, sso>>
vars == <<tab, api, upstream>>

Button == "button"
Loads == Calls \ (Deeds \cup {"me"})
SignIns == Calls \cup {Button}
NoTokens == [key |-> 0, old |-> FALSE]
Fresh == [key |-> signer, old |-> FALSE]

ASSUME ConsoleAssumption ==
  /\ "me" \in Calls /\ {Button, None, "logout"} \cap Calls = {}
  /\ Deeds \subseteq Calls \ {"me"}

Server == <<api, upstream>>
NoFault == UNCHANGED faults /\ UNCHANGED <<keys, cooling, fetching, signer, enabled>>
             /\ UNCHANGED <<up, adminToken, tokenRequest, epoch>>

-----------------------------------------------------------------------------
(* Calls: api.js, auth.js                                                  *)

\* signIn stores its verifier at once, and goes away when it has its digest.
SigningIn(c) == pkce' = c /\ call' = [call EXCEPT ![c] = "signing"]

\* fetch with a bearer token.
Sent(c, key) ==
  /\ call' = [call EXCEPT ![c] = "sent"]
  /\ serve' = [serve EXCEPT ![c] = [at |-> "verify", key |-> key]]
  /\ done' = [done EXCEPT ![c] = 0]
  /\ UNCHANGED pkce

\* request, accessToken
Request(c) ==
  /\ call[c] = "idle" /\ serve[c] = NotServed
  /\ IF tokens = NoTokens
       THEN SigningIn(c) /\ UNCHANGED <<serve, done, refreshing>>
       ELSE IF ~tokens.old
              THEN Sent(c, tokens.key) /\ UNCHANGED refreshing
              ELSE /\ call' = [call EXCEPT ![c] = "token"]
                   /\ refreshing' = TRUE
                   /\ UNCHANGED <<serve, done, pkce>>

\* All who waited for the refresh go on, with the token there is now.
Resume(token) ==
  /\ refreshing' = FALSE
  /\ LET waiting == {c \in Calls : call[c] = "token"} IN
       IF token = 0
         THEN /\ call' = [c \in SignIns |-> IF c \in waiting THEN "signing" ELSE call[c]]
              /\ IF waiting = {} THEN UNCHANGED pkce ELSE pkce' \in waiting
              /\ UNCHANGED <<serve, done>>
         ELSE /\ call' = [c \in SignIns |-> IF c \in waiting THEN "sent" ELSE call[c]]
              /\ serve' = [c \in Calls |-> IF c \in waiting THEN [at |-> "verify", key |-> token] ELSE serve[c]]
              /\ done' = [c \in Calls |-> IF c \in waiting THEN 0 ELSE done[c]]
              /\ UNCHANGED pkce

\* tokenRequest with a refresh token: saved, or refused and cleared.
RefreshAnswered ==
  /\ refreshing
  /\ tokens' = IF sso THEN Fresh ELSE NoTokens
  /\ Resume(tokens'.key)
  /\ NoFault
  /\ UNCHANGED <<page, nav, code, dialog, busy, told, sso>>

\* Nothing was cleared, but there is no token for those who waited.
RefreshLost ==
  /\ refreshing /\ Fault
  /\ Resume(0)
  /\ UNCHANGED <<page, tokens, nav, code, dialog, busy, told, sso>>
  /\ UNCHANGED <<keys, cooling, fetching, signer, enabled, up, adminToken, tokenRequest, epoch>>

-----------------------------------------------------------------------------
(* Results: app.js, ui.js                                                  *)

\* The dialog of a deed shows its error and can be submitted again.
Failed(c) ==
  /\ busy' = (busy /\ dialog # c)
  /\ UNCHANGED <<dialog, told>>

Closed == dialog' = None /\ busy' = FALSE

\* It closes, and the success is shown; not to one who has cancelled.
Succeeded(c) ==
  IF busy /\ dialog = c
    THEN Closed /\ told' = told \cup {c}
    ELSE UNCHANGED <<dialog, busy, told>>

\* start
AfterMe(answer) ==
  page' = CASE answer = "ok" -> "app" [] answer = "forbidden" -> "blocked" [] OTHER -> "fatal"

Receive(c) ==
  /\ call[c] = "sent" /\ serve[c].at \in Answers
  /\ serve' = [serve EXCEPT ![c] = NotServed]
  /\ IF serve[c].at = "unauthenticated"
       THEN SigningIn(c) /\ UNCHANGED <<page, dialog, busy, told>>
       ELSE /\ call' = [call EXCEPT ![c] = "idle"]
            /\ IF c = "me" THEN AfterMe(serve[c].at) ELSE UNCHANGED page
            /\ IF serve[c].at = "ok" THEN Succeeded(c) ELSE Failed(c)
            /\ UNCHANGED pkce
  /\ NoFault /\ UNCHANGED done
  /\ UNCHANGED <<tokens, nav, code, refreshing, sso>>

\* fetch throws; the server goes on.
NetworkError(c) ==
  /\ call[c] = "sent" /\ Fault
  /\ call' = [call EXCEPT ![c] = "idle"]
  /\ IF c = "me" THEN AfterMe("unavailable") ELSE UNCHANGED page
  /\ Failed(c)
  /\ UNCHANGED <<tokens, pkce, nav, code, refreshing, sso, api>>
  /\ UNCHANGED <<up, adminToken, tokenRequest, epoch, done>>

\* The server has an answer for nobody.
Discard(c) ==
  /\ call[c] # "sent" /\ serve[c].at \in Answers
  /\ serve' = [serve EXCEPT ![c] = NotServed]
  /\ NoFault /\ UNCHANGED <<done, tab>>

\* signIn has its digest; what follows is an error of the call.
Assign(c) ==
  /\ call[c] = "signing"
  /\ nav' = c
  /\ call' = [call EXCEPT ![c] = "idle"]
  /\ IF c = "me" THEN page' = "redirecting" ELSE UNCHANGED page
  /\ Failed(c)
  /\ UNCHANGED <<tokens, pkce, code, refreshing, sso, Server>>

-----------------------------------------------------------------------------
(* Going away and coming back: auth.js, app.js                             *)

\* Scripts run until the tab has left the page; then all they had is gone.
Unload ==
  /\ call' = [c \in SignIns |-> "idle"]
  /\ refreshing' = FALSE /\ dialog' = None /\ busy' = FALSE /\ nav' = None

Leave ==
  /\ nav # None
  /\ Unload
  /\ page' = IF nav = "logout" THEN "logout" ELSE "keycloak"
  /\ code' = IF nav = "logout" THEN None ELSE nav
  /\ UNCHANGED <<tokens, pkce, told, sso, Server>>

\* Keycloak logs the user in, asking or not, or ends the session.
Keycloak ==
  /\ page \in {"keycloak", "logout"}
  /\ page' = IF page = "keycloak" THEN "return" ELSE "start"
  /\ sso' = (page = "keycloak")
  /\ UNCHANGED <<tokens, pkce, nav, code, call, refreshing, dialog, busy, told, Server>>

\* handleRedirect up to the exchange of the code.
Return ==
  /\ page = "return"
  /\ pkce' = None
  /\ page' = IF code # None /\ code = pkce THEN "redeem" ELSE "login"
  /\ code' = None
  /\ UNCHANGED <<tokens, nav, call, refreshing, dialog, busy, told, sso, Server>>

\* save
Redeem ==
  /\ page = "redeem"
  /\ page' = "start"
  /\ tokens' = Fresh
  /\ UNCHANGED <<pkce, nav, code, call, refreshing, dialog, busy, told, sso, Server>>

\* start
Start ==
  /\ page = "start"
  /\ IF tokens = NoTokens
       THEN page' = "login" /\ UNCHANGED <<call, pkce, refreshing, serve, done>>
       ELSE page' = "loading" /\ Request("me")
  /\ NoFault
  /\ UNCHANGED <<tokens, nav, code, dialog, busy, told, sso>>

-----------------------------------------------------------------------------
(* The user                                                                *)

PressSignIn ==
  /\ page = "login" /\ call[Button] = "idle"
  /\ SigningIn(Button)
  /\ UNCHANGED <<page, tokens, nav, code, refreshing, dialog, busy, told, sso, Server>>

TryAgain ==
  /\ page = "fatal"
  /\ page' = "start"
  /\ UNCHANGED <<tokens, pkce, nav, code, call, refreshing, dialog, busy, told, sso, Server>>

\* Each deed once is enough.
Open(c) ==
  /\ page = "app" /\ dialog = None /\ c \notin told
  /\ dialog' = c
  /\ UNCHANGED <<page, tokens, pkce, nav, code, call, refreshing, busy, told, sso, Server>>

\* The button is disabled while the deed runs.
Ready(c) == dialog = c /\ ~busy

Submit(c) ==
  /\ Ready(c)
  /\ Request(c)
  /\ busy' = TRUE
  /\ NoFault
  /\ UNCHANGED <<page, tokens, nav, code, dialog, told, sso>>

\* A list is shown, refreshed or refreshes itself.
Load(c) ==
  /\ page = "app"
  /\ Request(c)
  /\ NoFault
  /\ UNCHANGED <<page, tokens, nav, code, dialog, busy, told, sso>>

\* Cancel and the cross are there while the deed runs.
Cancel ==
  /\ dialog # None /\ Fault
  /\ Closed
  /\ UNCHANGED <<page, tokens, pkce, nav, code, call, refreshing, told, sso, api>>
  /\ UNCHANGED <<up, adminToken, tokenRequest, epoch, done>>

\* A refresh that is under way saves its tokens all the same.
SignOut ==
  /\ page \in {"app", "blocked", "fatal"} /\ Fault
  /\ tokens' = NoTokens
  /\ nav' = "logout"
  /\ UNCHANGED <<page, pkce, code, call, refreshing, dialog, busy, told, sso, api>>
  /\ UNCHANGED <<up, adminToken, tokenRequest, epoch, done>>

Reload ==
  /\ page \in {"app", "blocked", "fatal", "login", "loading", "redirecting"} /\ Fault
  /\ page' = "start"
  /\ Unload
  /\ UNCHANGED <<tokens, pkce, code, told, sso, api>>
  /\ UNCHANGED <<up, adminToken, tokenRequest, epoch, done>>

-----------------------------------------------------------------------------
(* What else may happen                                                    *)

TokensAge ==
  /\ tokens # NoTokens /\ ~tokens.old /\ Fault
  /\ tokens' = [tokens EXCEPT !.old = TRUE]
  /\ UNCHANGED <<page, pkce, nav, code, call, refreshing, dialog, busy, told, sso, api>>
  /\ UNCHANGED <<up, adminToken, tokenRequest, epoch, done>>

SessionEnds ==
  /\ sso /\ Fault
  /\ sso' = FALSE
  /\ UNCHANGED <<page, tokens, pkce, nav, code, call, refreshing, dialog, busy, told, api>>
  /\ UNCHANGED <<up, adminToken, tokenRequest, epoch, done>>

\* Keycloak answers with an error, or the exchange fails: tokens are cleared
\* when it was an answer.
SignInFails ==
  /\ page \in {"keycloak", "redeem"} /\ Fault
  /\ IF page = "keycloak"
       THEN page' = "return" /\ code' = None /\ UNCHANGED tokens
       ELSE page' = "login" /\ UNCHANGED code /\ tokens' \in {tokens, NoTokens}
  /\ UNCHANGED <<pkce, nav, call, refreshing, dialog, busy, told, sso, api>>
  /\ UNCHANGED <<up, adminToken, tokenRequest, epoch, done>>

Init ==
  /\ UpstreamInit /\ ApiInit
  /\ page = "start" /\ tokens = NoTokens /\ pkce = None /\ nav = None /\ code = None
  /\ call = [c \in SignIns |-> "idle"]
  /\ refreshing = FALSE /\ dialog = None /\ busy = FALSE
  /\ told = {} /\ sso = FALSE

User == PressSignIn \/ TryAgain \/ \E c \in Deeds : Open(c) \/ Submit(c)
Redirects == Leave \/ Keycloak \/ Return \/ Redeem \/ Start
Tab(c) == Receive(c) \/ Discard(c) \/ Assign(c)
Faults ==
  \/ RefreshLost \/ \E c \in Calls : NetworkError(c)
  \/ Cancel \/ SignOut \/ Reload \/ TokensAge \/ SessionEnds \/ SignInFails
  \/ ApiFault /\ UNCHANGED tab

Served(c) == Api(c) /\ UNCHANGED tab
Elsewhere == (ApiTime \/ Cool) /\ UNCHANGED tab

Next ==
  \/ User \/ Redirects \/ RefreshAnswered \/ Assign(Button)
  \/ \E c \in Calls : Tab(c) \/ Served(c)
  \/ \E c \in Loads : Load(c)
  \/ Elsewhere \/ Faults

Spec == Init /\ [][Next]_vars

\* Requests are answered, redirects go on, MIN_REFRESH_MS pass, and the user
\* goes on where something is offered; nothing is assumed of the faults.
FairSpec ==
  /\ Spec
  /\ WF_vars(User) /\ WF_vars(Redirects) /\ WF_vars(RefreshAnswered) /\ WF_vars(Assign(Button))
  /\ \A c \in Calls : WF_vars(Tab(c)) /\ WF_vars(Served(c))
  /\ WF_vars(ApiTime /\ UNCHANGED tab) /\ WF_vars(Cool /\ UNCHANGED tab)

-----------------------------------------------------------------------------
(* Properties                                                              *)

\* Every variable has its type, a request is sent four times at most, and who
\* waits for a token, for keys or for a refresh has one under way.
TypeOK ==
  /\ ApiTypeOK
  /\ page \in {"start", "loading", "redirecting", "app", "blocked", "fatal", "login",
               "keycloak", "logout", "return", "redeem"}
  /\ tokens \in [key : {0} \cup Signers, old : BOOLEAN]
  /\ pkce \in SignIns \cup {None} /\ code \in SignIns \cup {None}
  /\ nav \in SignIns \cup {None, "logout"}
  /\ call \in [SignIns -> {"idle", "token", "sent", "signing"}]
  /\ \A c \in Calls : call[c] = "token" => refreshing
  /\ refreshing \in BOOLEAN /\ busy \in BOOLEAN /\ sso \in BOOLEAN
  /\ dialog \in Deeds \cup {None} /\ told \subseteq Deeds

\* What a call asks of Keycloak is done once at most, and asked for again only
\* after a 401; it was done when the call succeeds and was not when it is refused
\* (upstream-client.ts:31 "retry for idempotent GETs only").
DoneOnceAndTold ==
  \A c \in Calls :
    /\ done[c] <= 1
    /\ MethodOf[c] = "POST" => up[c].attempt = 0 \/ up[c].refreshed
    /\ serve[c].at = "ok" => done[c] = Effect(c)
    /\ serve[c].at \in {"unauthenticated", "forbidden"} => done[c] = 0

\* Whatever goes wrong for a while, keys and tokens that are out of date, a
\* sign-in that another one has overwritten, answers that are lost: the user who
\* goes on gets everything done, or is told that the account is disabled.
GetsThrough == <>(IF enabled THEN told = Deeds ELSE page = "blocked")
=============================================================================
