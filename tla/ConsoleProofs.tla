---------------------------- MODULE ConsoleProofs ----------------------------
(***************************************************************************)
(* Theorems about a call of the console on its whole way, through the tab, *)
(* the API and the request to Keycloak: what it asks for is done once at   *)
(* most, for any calls and any number of faults.                           *)
(***************************************************************************)
EXTENDS Console, TLAPS

-----------------------------------------------------------------------------
(* The inductive invariant                                                 *)

\* Types, and the budget that epochs and signing keys are paid from.
Requests ==
  [at : {None, "send", "token", "sent", "sleep", "ok", "failed"}, attempt : 0..(MaxRetries + 1),
   refreshed : BOOLEAN, token : {0} \cup Epochs]
Services ==
  [at : {None, "verify", "keys", "handle", "asks"} \cup Answers, key : {0} \cup Signers]

Budget ==
  /\ faults \in 0..MaxFaults /\ epoch \in Epochs /\ signer \in Signers
  /\ epoch + faults <= MaxFaults + 1 /\ signer + faults <= MaxFaults + 1
TokenTyped ==
  adminToken \in {0} \cup Epochs /\ tokenRequest \in [open : BOOLEAN, token : {0} \cup Epochs]
KeysTyped ==
  keys \subseteq Signers /\ cooling \in BOOLEAN /\ fetching \in {0} \cup Signers /\ enabled \in BOOLEAN
CallsTyped == up \in [Calls -> Requests] /\ done \in [Calls -> Nat] /\ serve \in [Calls -> Services]
TabTyped ==
  /\ page \in {"start", "loading", "redirecting", "app", "blocked", "fatal", "login",
               "keycloak", "logout", "return", "redeem"}
  /\ tokens \in [key : {0} \cup Signers, old : BOOLEAN]
  /\ pkce \in SignIns \cup {None} /\ code \in SignIns \cup {None}
  /\ nav \in SignIns \cup {None, "logout"}
  /\ call \in [SignIns -> {"idle", "token", "sent", "signing"}]
  /\ refreshing \in BOOLEAN /\ busy \in BOOLEAN /\ sso \in BOOLEAN
  /\ dialog \in Deeds \cup {None} /\ told \subseteq Deeds

Typed == Budget /\ TokenTyped /\ KeysTyped /\ CallsTyped /\ TabTyped

\* Who waits for something has it under way.
Waits(c) ==
  /\ up[c].at = "token" => tokenRequest.open
  /\ serve[c].at = "keys" => fetching # 0
  /\ call[c] = "token" => refreshing

\* Where a call is tells what was done for it: a request to Keycloak belongs to
\* a call that is being handled, and nothing is done before its end.
Stage(c) ==
  /\ up[c].at # None => serve[c].at = "asks"
  /\ call[c] = "token" => serve[c].at = None
  /\ serve[c].at \in {"verify", "keys", "handle"} => done[c] = 0
  /\ up[c].at \in {"send", "token", "sent", "sleep"} => done[c] = 0
  /\ up[c].at = "ok" => done[c] = Effect(c)

\* Only reads are tried again, but for the one time after a 401.
Tries(c) ==
  /\ up[c].at = "sleep" => MethodOf[c] = "GET" /\ up[c].attempt < MaxRetries
  /\ up[c].attempt <= MaxRetries \/ up[c].refreshed
  /\ MethodOf[c] = "POST" => up[c].attempt = 0 \/ up[c].refreshed

\* What the call is answered, DoneOnceAndTold for one call.
Answered(c) ==
  /\ done[c] <= 1
  /\ serve[c].at = "ok" => done[c] = Effect(c)
  /\ serve[c].at \in {"unauthenticated", "forbidden"} => done[c] = 0

CallInv(c) == Waits(c) /\ Stage(c) /\ Tries(c) /\ Answered(c)

Inv == Typed /\ \A c \in Calls : CallInv(c)

-----------------------------------------------------------------------------
(* Facts about the parts, and what rests                                   *)

LEMMA Facts ==
  /\ MaxFaults \in Nat /\ MaxRetries = 2 /\ None = "none"
  /\ \A c \in Calls : c \in SignIns /\ MethodOf[c] \in {"GET", "POST", None}
  /\ \A c \in Calls : Effect(c) \in {0, 1} /\ (MethodOf[c] # "POST" => Effect(c) = 0)
  /\ Deeds \subseteq Calls /\ "me" \in Calls /\ Button \in SignIns /\ None \notin Calls
  BY UpstreamAssumption, ConsoleAssumption DEF MaxRetries, None, SignIns, Effect

LEMMA NothingIs ==
  /\ NoRequest \in Requests /\ NoRequest.at = None /\ NoRequest.attempt = 0
  /\ NotServed \in Services /\ NotServed.at = None
  /\ NoTokenRequest \in [open : BOOLEAN, token : {0} \cup Epochs]
  /\ NoTokenRequest.open = FALSE /\ NoTokenRequest.token = 0
  BY DEF NoRequest, Requests, MaxRetries, NotServed, Services, NoTokenRequest

LEMMA TypeParts == Inv => TypeOK
  <1> SUFFICES ASSUME Inv
               PROVE  TypeOK
    OBVIOUS
  <1>1. UpstreamTypeOK
    BY DEF Inv, Typed, Budget, TokenTyped, CallsTyped, Requests, CallInv, Waits, UpstreamTypeOK, Waiting
  <1>2. ApiTypeOK
    BY <1>1 DEF Inv, Typed, Budget, KeysTyped, CallsTyped, Services, CallInv, Waits, ApiTypeOK
  <1> QED BY <1>2 DEF Inv, Typed, TabTyped, CallInv, Waits, TypeOK

LEMMA Known ==
  ASSUME Inv, NEW c \in Calls
  PROVE  /\ up[c] \in Requests /\ serve[c] \in Services /\ done[c] \in Nat /\ CallInv(c)
         /\ up \in [Calls -> Requests] /\ serve \in [Calls -> Services] /\ done \in [Calls -> Nat]
         /\ call \in [SignIns -> {"idle", "token", "sent", "signing"}]
         /\ up[c].attempt \in 0..3 /\ up[c].refreshed \in BOOLEAN /\ up[c].token \in {0} \cup Epochs
  <1>1. up[c] \in Requests /\ serve[c] \in Services /\ done[c] \in Nat /\ CallInv(c)
    BY DEF Inv, Typed, CallsTyped
  <1> QED BY <1>1, Facts DEF Inv, Typed, CallsTyped, TabTyped, Requests

\* A call that nothing is done for.
LEMMA CallRests ==
  ASSUME NEW c \in Calls, CallInv(c),
         up'[c] = up[c], serve'[c] = serve[c], done'[c] = done[c],
         up[c].at = "token" /\ tokenRequest.open => tokenRequest'.open,
         serve[c].at = "keys" /\ fetching # 0 => fetching' # 0,
         call'[c] = "token" => refreshing' /\ serve[c].at = None
  PROVE  CallInv(c)'
  BY DEF CallInv, Waits, Stage, Tries, Answered, Effect

\* A fault takes one from the budget, and an epoch or a key with it at most.
LEMMA Spent ==
  ASSUME Budget, faults' = faults \/ Fault
  PROVE  /\ UNCHANGED <<epoch, signer>> => Budget'
         /\ Fault /\ epoch' = epoch + 1 /\ UNCHANGED signer => Budget'
         /\ Fault /\ signer' = signer + 1 /\ UNCHANGED epoch => Budget'
  <1>1. /\ MaxFaults \in Nat /\ faults \in 0..MaxFaults
        /\ epoch \in 1..(MaxFaults + 1) /\ signer \in 1..(MaxFaults + 1)
    BY Facts DEF Budget, Epochs, Signers
  <1> QED BY <1>1 DEF Budget, Fault, Epochs, Signers

-----------------------------------------------------------------------------
(* Steps of the tab                                                        *)

\* The tab changes; at the server nothing does.
LEMMA TabMoves ==
  ASSUME Inv, UNCHANGED <<api, up, adminToken, tokenRequest, epoch, done>>,
         faults' = faults \/ Fault, TabTyped',
         \A c \in Calls : call'[c] = "token" => call[c] = "token" /\ refreshing'
  PROVE  Inv'
  <1>1. /\ serve' = serve /\ up' = up /\ done' = done /\ fetching' = fetching /\ keys' = keys
        /\ tokenRequest' = tokenRequest /\ epoch' = epoch /\ signer' = signer
        /\ cooling' = cooling /\ enabled' = enabled /\ adminToken' = adminToken
    BY DEF api
  <1>2. Typed'
    BY <1>1, Spent DEF Inv, Typed, TokenTyped, KeysTyped, CallsTyped
  <1>3. ASSUME NEW c \in Calls
        PROVE  CallInv(c)'
    <2>1. CallInv(c) /\ (call'[c] = "token" => refreshing' /\ serve[c].at = None)
      BY Known DEF CallInv, Stage
    <2> QED BY <1>1, <2>1, CallRests
  <1> QED BY <1>2, <1>3 DEF Inv

\* The user and the redirects.
LEMMA RedirectsInv ==
  ASSUME Inv, Leave \/ Keycloak \/ Return \/ Redeem \/ TryAgain \/ \E c \in Deeds : Open(c)
  PROVE  Inv'
  <1>1. UNCHANGED Server /\ TabTyped
    BY DEF Leave, Keycloak, Return, Redeem, TryAgain, Open, Inv, Typed
  <1>2. UNCHANGED <<api, up, adminToken, tokenRequest, epoch, done, faults>>
    BY <1>1 DEF Server, upstream
  <1>3. CASE Leave
    BY <1>1, <1>2, <1>3, TabMoves, Facts DEF Leave, Unload, TabTyped
  <1>4. CASE Keycloak
    BY <1>1, <1>2, <1>4, TabMoves, Known DEF Keycloak, TabTyped, CallInv, Waits
  <1>5. CASE Return
    BY <1>1, <1>2, <1>5, TabMoves, Known DEF Return, TabTyped, CallInv, Waits
  <1>6. CASE Redeem
    <2>1. tokens' \in [key : {0} \cup Signers, old : BOOLEAN]
      BY <1>6 DEF Redeem, Fresh, Inv, Typed, Budget
    <2> QED BY <1>1, <1>2, <1>6, <2>1, TabMoves, Known DEF Redeem, TabTyped, CallInv, Waits
  <1>7. CASE TryAgain
    BY <1>1, <1>2, <1>7, TabMoves, Known DEF TryAgain, TabTyped, CallInv, Waits
  <1>8. CASE \E c \in Deeds : Open(c)
    BY <1>1, <1>2, <1>8, TabMoves, Known DEF Open, TabTyped, CallInv, Waits
  <1> QED BY <1>3, <1>4, <1>5, <1>6, <1>7, <1>8

\* Faults of the tab.
LEMMA TabFaultInv ==
  ASSUME Inv, Cancel \/ SignOut \/ Reload \/ TokensAge \/ SessionEnds \/ SignInFails
  PROVE  Inv'
  <1>1. UNCHANGED <<api, up, adminToken, tokenRequest, epoch, done>> /\ Fault /\ TabTyped
    BY DEF Cancel, SignOut, Reload, TokensAge, SessionEnds, SignInFails, Inv, Typed
  <1>2. NoTokens \in [key : {0} \cup Signers, old : BOOLEAN]
    BY DEF NoTokens
  <1>3. \A c \in Calls : call[c] = "token" => refreshing
    BY Known DEF CallInv, Waits
  <1>4. ASSUME TabTyped', \A c \in Calls : call'[c] = "token" => call[c] = "token" /\ refreshing'
        PROVE  Inv'
    BY <1>1, <1>4, TabMoves
  <1>5. CASE Cancel
    <2>1. TabTyped'
      BY <1>1, <1>2, <1>5, Facts DEF Cancel, Closed, TabTyped
    <2>2. \A c \in Calls : call'[c] = "token" => call[c] = "token" /\ refreshing'
      BY <1>1, <1>3, <1>5, Facts DEF Cancel, Closed, TabTyped
    <2> QED BY <2>1, <2>2, <1>4
  <1>6. CASE SignOut
    <2>1. TabTyped'
      BY <1>1, <1>2, <1>6, Facts DEF SignOut, TabTyped
    <2>2. \A c \in Calls : call'[c] = "token" => call[c] = "token" /\ refreshing'
      BY <1>1, <1>3, <1>6, Facts DEF SignOut, TabTyped
    <2> QED BY <2>1, <2>2, <1>4
  <1>7. CASE Reload
    <2>1. TabTyped'
      BY <1>1, <1>2, <1>7, Facts DEF Reload, Unload, TabTyped
    <2>2. \A c \in Calls : call'[c] = "token" => call[c] = "token" /\ refreshing'
      BY <1>1, <1>3, <1>7, Facts DEF Reload, Unload, TabTyped
    <2> QED BY <2>1, <2>2, <1>4
  <1>8. CASE TokensAge
    <2>1. TabTyped'
      BY <1>1, <1>2, <1>8, Facts DEF TokensAge, TabTyped
    <2>2. \A c \in Calls : call'[c] = "token" => call[c] = "token" /\ refreshing'
      BY <1>1, <1>3, <1>8, Facts DEF TokensAge, TabTyped
    <2> QED BY <2>1, <2>2, <1>4
  <1>9. CASE SessionEnds
    <2>1. /\ page' = page /\ tokens' = tokens /\ pkce' = pkce /\ code' = code /\ nav' = nav /\ call' = call
          /\ refreshing' = refreshing /\ busy' = busy /\ dialog' = dialog /\ told' = told /\ sso' = FALSE
      BY <1>9 DEF SessionEnds
    <2>2. TabTyped'
      <3>1. TabTyped
        BY <1>1
      <3>2. sso' \in BOOLEAN
        BY <2>1
      <3> QED BY <2>1, <3>1, <3>2 DEF TabTyped
    <2>3. \A c \in Calls : call'[c] = "token" => call[c] = "token" /\ refreshing'
      BY <1>3, <2>1
    <2> QED BY <2>2, <2>3, <1>4
  <1>10. CASE SignInFails
    <2>1. TabTyped'
      BY <1>1, <1>2, <1>10, Facts DEF SignInFails, TabTyped
    <2>2. \A c \in Calls : call'[c] = "token" => call[c] = "token" /\ refreshing'
      BY <1>1, <1>3, <1>10, Facts DEF SignInFails, TabTyped
    <2> QED BY <2>1, <2>2, <1>4
  <1> QED BY <1>5, <1>6, <1>7, <1>8, <1>9, <1>10

-----------------------------------------------------------------------------
(* Steps of a call                                                         *)

\* A step of one call is nobody else's.
LEMMA CallMoves ==
  ASSUME Inv, NEW c \in Calls,
         NEW s \in Services, serve' = serve \/ serve' = [serve EXCEPT ![c] = s],
         NEW n \in Nat, done' = done \/ done' = [done EXCEPT ![c] = n],
         NEW r \in Requests, up' = up \/ up' = [up EXCEPT ![c] = r],
         Budget', TokenTyped', KeysTyped', TabTyped', CallInv(c)',
         \A b \in Calls \ {c} :
           /\ up[b].at = "token" /\ tokenRequest.open => tokenRequest'.open
           /\ serve[b].at = "keys" /\ fetching # 0 => fetching' # 0
           /\ call'[b] = "token" => call[b] = "token" /\ refreshing'
  PROVE  Inv'
  <1>1. CallsTyped'
    BY DEF Inv, Typed, CallsTyped
  <1>2. ASSUME NEW b \in Calls \ {c}
        PROVE  CallInv(b)'
    <2>1. up'[b] = up[b] /\ serve'[b] = serve[b] /\ done'[b] = done[b]
      BY DEF Inv, Typed, CallsTyped
    <2>2. CallInv(b) /\ (call'[b] = "token" => refreshing' /\ serve[b].at = None)
      BY Known DEF CallInv, Stage
    <2> QED BY <2>1, <2>2, CallRests
  <1> QED BY <1>1, <1>2 DEF Inv, Typed

\* A new sign-in, a call that is sent, or one that waits for a token.
LEMMA RequestInv ==
  ASSUME Inv, NEW c \in Calls, Request(c), NoFault, UNCHANGED tokens, TabTyped,
         /\ page' \in {"loading", page} /\ busy' \in {TRUE, busy}
         /\ UNCHANGED <<nav, code, dialog, told, sso>>
  PROVE  Inv'
  <1>1. /\ faults' = faults /\ up' = up /\ keys' = keys /\ cooling' = cooling /\ fetching' = fetching
        /\ signer' = signer /\ enabled' = enabled /\ adminToken' = adminToken
        /\ tokenRequest' = tokenRequest /\ epoch' = epoch
        /\ call[c] = "idle" /\ serve[c] = NotServed
    BY DEF NoFault, Request
  <1>2. Budget' /\ TokenTyped' /\ KeysTyped'
    BY <1>1 DEF Inv, Typed, Budget, TokenTyped, KeysTyped
  <1>3. /\ CallInv(c) /\ call \in [SignIns -> {"idle", "token", "sent", "signing"}]
        /\ serve \in [Calls -> Services] /\ done \in [Calls -> Nat] /\ up \in [Calls -> Requests]
        /\ c \in SignIns /\ serve[c].at = None
    BY <1>1, Known, Facts, NothingIs
  <1>4. \A b \in Calls : call[b] = "token" => refreshing
    BY Known DEF CallInv, Waits
  <1>5. busy' \in BOOLEAN /\ page' \in {"loading", page}
    BY DEF TabTyped
  <1>6. /\ call' \in [SignIns -> {"idle", "token", "sent", "signing"}]
        /\ pkce' \in SignIns \cup {None} /\ refreshing' \in BOOLEAN
        => TabTyped'
    BY <1>5 DEF TabTyped
  <1>7. CASE SigningIn(c) /\ UNCHANGED <<serve, done, refreshing>>
    <2>1. call' = [call EXCEPT ![c] = "signing"] /\ pkce' = c /\ refreshing' = refreshing
      BY <1>7 DEF SigningIn
    <2>2. TabTyped'
      BY <1>3, <1>6, <2>1 DEF TabTyped
    <2>3. /\ call'[c] = "signing" /\ serve' = serve /\ done' = done
          /\ \A b \in Calls \ {c} : call'[b] = call[b]
      BY <1>3, <1>7, <2>1, Facts
    <2>4. CallInv(c)'
      BY <1>1, <1>3, <2>3, CallRests
    <2> QED BY <1>1, <1>2, <1>3, <1>4, <2>1, <2>2, <2>3, <2>4, CallMoves, NothingIs
  <1>8. CASE Sent(c, tokens.key) /\ UNCHANGED refreshing
    <2> DEFINE s == [at |-> "verify", key |-> tokens.key]
    <2>1. /\ call' = [call EXCEPT ![c] = "sent"] /\ pkce' = pkce /\ refreshing' = refreshing
          /\ serve' = [serve EXCEPT ![c] = s] /\ done' = [done EXCEPT ![c] = 0]
      BY <1>8 DEF Sent
    <2>2. TabTyped'
      BY <1>3, <1>6, <2>1 DEF TabTyped
    <2>3. s \in Services
      BY DEF TabTyped, Services
    <2>4. /\ call'[c] = "sent" /\ serve'[c].at = "verify" /\ done'[c] = 0 /\ up'[c] = up[c]
          /\ \A b \in Calls \ {c} : call'[b] = call[b]
      BY <1>1, <1>3, <2>1, Facts
    <2>5. CallInv(c)'
      BY <1>1, <1>3, <2>4, Facts DEF CallInv, Waits, Stage, Tries, Answered, Effect
    <2> HIDE DEF s
    <2> QED BY <1>1, <1>2, <1>3, <1>4, <2>1, <2>2, <2>3, <2>4, <2>5, CallMoves, NothingIs
  <1>9. CASE /\ call' = [call EXCEPT ![c] = "token"] /\ refreshing' = TRUE
             /\ UNCHANGED <<serve, done, pkce>>
    <2>1. TabTyped'
      BY <1>3, <1>9, <1>6 DEF TabTyped
    <2>2. \A b \in Calls \ {c} : call'[b] = call[b]
      BY <1>3, <1>9, Facts
    <2>3. CallInv(c)'
      BY <1>1, <1>3, <1>9, CallRests
    <2> QED BY <1>1, <1>2, <1>3, <1>9, <2>1, <2>2, <2>3, CallMoves, NothingIs
  <1> QED BY <1>7, <1>8, <1>9 DEF Request

LEMMA StartInv ==
  ASSUME Inv, Start
  PROVE  Inv'
  <1>1. TabTyped /\ UNCHANGED <<tokens, nav, code, dialog, busy, told, sso>> /\ NoFault
    BY DEF Start, Inv, Typed
  <1>2. CASE tokens = NoTokens
    <2>1. page' = "login" /\ UNCHANGED <<call, pkce, refreshing, serve, done>>
      BY <1>2 DEF Start
    <2>2. UNCHANGED <<api, up, adminToken, tokenRequest, epoch, done>> /\ faults' = faults
      BY <1>1, <2>1 DEF NoFault, api
    <2>3. TabTyped'
      BY <1>1, <2>1 DEF TabTyped
    <2> QED BY <2>1, <2>2, <2>3, TabMoves, Known DEF CallInv, Waits
  <1>3. CASE tokens # NoTokens
    BY <1>1, <1>3, RequestInv, Facts DEF Start
  <1> QED BY <1>2, <1>3

LEMMA SubmitLoadInv ==
  ASSUME Inv, NEW c \in Calls, Submit(c) \/ Load(c)
  PROVE  Inv'
  BY RequestInv DEF Submit, Load, Inv, Typed

\* All who waited for the refresh sign in or are sent with its token.
LEMMA ResumeInv ==
  ASSUME Inv, NEW token \in {0} \cup Signers, Resume(token),
         faults' = faults \/ Fault, tokens' \in [key : {0} \cup Signers, old : BOOLEAN],
         UNCHANGED <<keys, cooling, fetching, signer, enabled, up, adminToken, tokenRequest, epoch>>,
         UNCHANGED <<page, nav, code, dialog, busy, told, sso>>
  PROVE  Inv'
  <1> DEFINE waiting == {c \in Calls : call[c] = "token"}
  <1>1. Budget' /\ TokenTyped' /\ KeysTyped'
    BY Spent DEF Inv, Typed, TokenTyped, KeysTyped
  <1>2. /\ call \in [SignIns -> {"idle", "token", "sent", "signing"}] /\ TabTyped
        /\ serve \in [Calls -> Services] /\ done \in [Calls -> Nat] /\ up \in [Calls -> Requests]
    BY DEF Inv, Typed, CallsTyped, TabTyped
  <1>3. /\ \A c \in Calls : call'[c] # "token" /\ up'[c] = up[c]
        /\ call' \in [SignIns -> {"idle", "token", "sent", "signing"}]
    BY <1>2, Facts DEF Resume
  <1>4. TabTyped'
    <2>1. refreshing' = FALSE
      BY DEF Resume
    <2>2. pkce' \in SignIns \cup {None}
      BY <1>2, Facts DEF Resume, TabTyped
    <2> QED BY <1>2, <1>3, <2>1, <2>2 DEF TabTyped
  <1>5. CallsTyped'
    BY <1>2 DEF Resume, CallsTyped, Services
  <1>6. ASSUME NEW c \in Calls
        PROVE  CallInv(c)'
    <2>1. CASE serve'[c] = serve[c] /\ done'[c] = done[c]
      BY <1>3, <2>1, CallRests, Known
    <2>2. CASE c \in waiting /\ serve'[c] = [at |-> "verify", key |-> token] /\ done'[c] = 0
      <3>1. CallInv(c) /\ serve[c].at = None /\ up[c].at = None
        BY <2>2, Known, Facts DEF CallInv, Stage
      <3> QED BY <1>3, <2>2, <3>1, Facts DEF CallInv, Waits, Stage, Tries, Answered, Effect
    <2> QED BY <2>1, <2>2, <1>2 DEF Resume
  <1> QED BY <1>1, <1>4, <1>5, <1>6 DEF Inv, Typed

LEMMA RefreshInv ==
  ASSUME Inv, RefreshAnswered \/ RefreshLost
  PROVE  Inv'
  <1>1. CASE RefreshAnswered
    <2>1. /\ NoTokens \in [key : {0} \cup Signers, old : BOOLEAN]
          /\ Fresh \in [key : {0} \cup Signers, old : BOOLEAN]
      BY DEF NoTokens, Fresh, Inv, Typed, Budget
    <2>2. PICK token : token = tokens'.key
      OBVIOUS
    <2>3. tokens' \in [key : {0} \cup Signers, old : BOOLEAN] /\ token \in {0} \cup Signers
      BY <1>1, <2>1, <2>2 DEF RefreshAnswered
    <2>4. Resume(token)
      BY <1>1, <2>2 DEF RefreshAnswered
    <2> QED BY <1>1, <2>3, <2>4, ResumeInv DEF RefreshAnswered, NoFault
  <1>2. CASE RefreshLost
    BY <1>2, ResumeInv DEF RefreshLost, Inv, Typed, TabTyped
  <1> QED BY <1>1, <1>2

\* What results, dialogs and sign-ins change in the tab.
LEMMA ResultTyped ==
  ASSUME TabTyped, NEW c \in SignIns, UNCHANGED <<tokens, code, refreshing, sso>>,
         NEW k \in {"idle", "signing"}, call' = [call EXCEPT ![c] = k],
         pkce' \in {c, pkce}, nav' \in {c, nav},
         page' = page \/ page' \in {"app", "blocked", "fatal", "redirecting"},
         UNCHANGED <<dialog, busy, told>> \/ Failed(c) \/ (c \in Calls /\ Succeeded(c))
  PROVE  /\ TabTyped' /\ call'[c] = k
         /\ \A b \in Calls : call'[b] = "token" => call[b] = "token" /\ b # c
  <1>1. /\ call' \in [SignIns -> {"idle", "token", "sent", "signing"}] /\ call'[c] = k
        /\ \A b \in SignIns : call'[b] = "token" => call[b] = "token" /\ b # c
    BY DEF TabTyped
  <1>2. busy' \in BOOLEAN
    BY DEF TabTyped, Failed, Succeeded, Closed
  <1>3. dialog' \in Deeds \cup {None} /\ told' \subseteq Deeds
    BY Facts DEF TabTyped, Failed, Succeeded, Closed
  <1> QED BY <1>1, <1>2, <1>3, Facts DEF TabTyped

LEMMA AssignInv ==
  ASSUME Inv, NEW c \in SignIns, Assign(c)
  PROVE  Inv'
  <1>1. /\ UNCHANGED <<tokens, pkce, code, refreshing, sso, Server>> /\ nav' = c /\ Failed(c)
        /\ call' = [call EXCEPT ![c] = "idle"] /\ page' \in {page, "redirecting"}
    BY DEF Assign
  <1>2. UNCHANGED <<api, up, adminToken, tokenRequest, epoch, done, faults>>
    BY <1>1 DEF Server, upstream
  <1>3. TabTyped' /\ \A b \in Calls : call'[b] = "token" => call[b] = "token"
    BY <1>1, ResultTyped DEF Inv, Typed
  <1> QED BY <1>1, <1>2, <1>3, TabMoves, Known DEF CallInv, Waits

LEMMA PressSignInInv ==
  ASSUME Inv, PressSignIn
  PROVE  Inv'
  <1>1. /\ UNCHANGED <<page, tokens, nav, code, refreshing, dialog, busy, told, sso, Server>>
        /\ call' = [call EXCEPT ![Button] = "signing"] /\ pkce' = Button
    BY DEF PressSignIn, SigningIn
  <1>2. UNCHANGED <<api, up, adminToken, tokenRequest, epoch, done, faults>>
    BY <1>1 DEF Server, upstream
  <1>3. TabTyped' /\ \A b \in Calls : call'[b] = "token" => call[b] = "token"
    BY <1>1, ResultTyped, Facts DEF Inv, Typed
  <1> QED BY <1>1, <1>2, <1>3, TabMoves, Known DEF CallInv, Waits

LEMMA NetworkErrorInv ==
  ASSUME Inv, NEW c \in Calls, NetworkError(c)
  PROVE  Inv'
  <1>1. /\ UNCHANGED <<tokens, pkce, nav, code, refreshing, sso>> /\ Failed(c)
        /\ call' = [call EXCEPT ![c] = "idle"] /\ (page' = page \/ page' \in {"app", "blocked", "fatal"})
    BY DEF NetworkError, AfterMe
  <1>2. UNCHANGED <<api, up, adminToken, tokenRequest, epoch, done>> /\ Fault
    BY DEF NetworkError
  <1>3. TabTyped' /\ \A b \in Calls : call'[b] = "token" => call[b] = "token"
    BY <1>1, ResultTyped, Facts DEF Inv, Typed
  <1> QED BY <1>1, <1>2, <1>3, TabMoves, Known DEF CallInv, Waits

\* The answer of a call is taken from the server, or is for nobody.
LEMMA AnswerTaken ==
  ASSUME Inv, NEW c \in Calls, serve[c].at \in Answers, serve' = [serve EXCEPT ![c] = NotServed],
         NoFault, UNCHANGED <<done, refreshing>>, TabTyped',
         \A b \in Calls : call'[b] = "token" => call[b] = "token" /\ b # c
  PROVE  Inv'
  <1>1. /\ faults' = faults /\ up' = up /\ keys' = keys /\ cooling' = cooling /\ fetching' = fetching
        /\ signer' = signer /\ enabled' = enabled /\ adminToken' = adminToken
        /\ tokenRequest' = tokenRequest /\ epoch' = epoch
    BY DEF NoFault
  <1>2. Budget' /\ TokenTyped' /\ KeysTyped'
    BY <1>1 DEF Inv, Typed, Budget, TokenTyped, KeysTyped
  <1>3. CallInv(c) /\ serve \in [Calls -> Services] /\ serve'[c] = NotServed /\ NotServed \in Services
    BY Known, NothingIs
  <1>4. up[c].at = None /\ serve'[c].at = None /\ call'[c] # "token"
    BY <1>3, NothingIs DEF CallInv, Stage, Answers
  <1>5. CallInv(c)'
    BY <1>1, <1>3, <1>4, Facts DEF CallInv, Waits, Stage, Tries, Answered
  <1>6. \A b \in Calls : call[b] = "token" => refreshing
    BY Known DEF CallInv, Waits
  <1> QED BY <1>1, <1>2, <1>3, <1>5, <1>6, CallMoves, NothingIs

LEMMA ReceiveInv ==
  ASSUME Inv, NEW c \in Calls, Receive(c)
  PROVE  Inv'
  <1>1. /\ serve[c].at \in Answers /\ serve' = [serve EXCEPT ![c] = NotServed]
        /\ NoFault /\ UNCHANGED <<tokens, nav, code, refreshing, sso, done>>
    BY DEF Receive
  <1>2. \E k \in {"idle", "signing"} : call' = [call EXCEPT ![c] = k]
    BY DEF Receive, SigningIn
  <1>3. /\ pkce' \in {c, pkce} /\ (page' = page \/ page' \in {"app", "blocked", "fatal"})
        /\ UNCHANGED <<dialog, busy, told>> \/ Failed(c) \/ Succeeded(c)
    BY DEF Receive, SigningIn, AfterMe
  <1>4. TabTyped' /\ \A b \in Calls : call'[b] = "token" => call[b] = "token" /\ b # c
    BY <1>1, <1>2, <1>3, ResultTyped, Facts DEF Inv, Typed
  <1> QED BY <1>1, <1>4, AnswerTaken

LEMMA DiscardInv ==
  ASSUME Inv, NEW c \in Calls, Discard(c)
  PROVE  Inv'
  <1>1. /\ serve[c].at \in Answers /\ serve' = [serve EXCEPT ![c] = NotServed]
        /\ NoFault /\ UNCHANGED <<done, tab>> /\ TabTyped
    BY DEF Discard, Inv, Typed
  <1>2. TabTyped' /\ UNCHANGED <<refreshing, call>>
    BY <1>1 DEF tab, TabTyped
  <1>3. call[c] # "token"
    BY <1>1, Known DEF CallInv, Stage, Answers, None
  <1> QED BY <1>1, <1>2, <1>3, AnswerTaken

-----------------------------------------------------------------------------
(* Steps of the API                                                        *)

LEMMA TabStays ==
  ASSUME Inv, UNCHANGED tab
  PROVE  /\ TabTyped' /\ call' = call /\ refreshing' = refreshing
         /\ \A c \in Calls : call'[c] = "token" => call[c] = "token" /\ refreshing'
  <1>1. call' = call /\ refreshing' = refreshing /\ TabTyped
    BY DEF tab, Inv, Typed
  <1>2. TabTyped'
    BY <1>1 DEF tab, TabTyped
  <1> QED BY <1>1, <1>2, Known DEF CallInv, Waits

LEMMA LookedIs ==
  ASSUME NEW c \in Calls, NEW known
  PROVE  /\ Looked(c, known) \in Services /\ Looked(c, known).at \in {"handle", "forbidden", "unauthenticated"}
         /\ Unauthenticated \in Services /\ Unauthenticated.at = "unauthenticated"
  BY DEF Looked, Admitted, Unauthenticated, Services, Answers

LEMMA VerifyInv ==
  ASSUME Inv, NEW c \in Calls, Verify(c), UNCHANGED tab
  PROVE  Inv'
  <1>1. /\ serve[c].at = "verify" /\ UNCHANGED <<keys, signer, enabled>> /\ Budget'
        /\ up' = up /\ adminToken' = adminToken /\ tokenRequest' = tokenRequest /\ done' = done
    BY DEF Verify, upstream, Inv, Typed, Budget
  <1>2. TokenTyped' /\ CallInv(c) /\ serve \in [Calls -> Services] /\ serve[c] \in Services
    BY <1>1, Known DEF Inv, Typed, TokenTyped
  <1>3. call[c] # "token" /\ up[c].at = None /\ done[c] = 0
    BY <1>1, <1>2, Facts DEF CallInv, Stage
  <1>4. CASE serve' = [serve EXCEPT ![c] = Looked(c, keys)] /\ UNCHANGED <<fetching, cooling>>
    <2>1. KeysTyped'
      BY <1>1, <1>4 DEF Inv, Typed, KeysTyped
    <2>2. PICK s \in Services : s = Looked(c, keys)
      BY LookedIs
    <2>3. serve'[c] = s /\ s.at \in {"handle", "forbidden", "unauthenticated"}
      BY <1>2, <1>4, <2>2, LookedIs
    <2>4. CallInv(c)'
      BY <1>1, <1>2, <1>3, <2>3, TabStays, Facts DEF CallInv, Waits, Stage, Tries, Answered
    <2> QED BY <1>1, <1>2, <1>4, <2>1, <2>2, <2>4, TabStays, CallMoves, NothingIs
  <1>5. CASE /\ serve' = [serve EXCEPT ![c].at = "keys"]
             /\ fetching' = IF fetching = 0 THEN signer ELSE fetching
             /\ cooling' = (fetching = 0)
    <2>1. cooling' \in BOOLEAN
      BY <1>5
    <2>2. fetching' \in Signers
      BY <1>5 DEF Inv, Typed, Budget, KeysTyped
    <2>3. KeysTyped'
      BY <1>1, <2>1, <2>2 DEF Inv, Typed, KeysTyped
    <2>4. fetching' # 0
      BY <2>2, Facts DEF Signers
    <2> DEFINE s == [serve[c] EXCEPT !.at = "keys"]
    <2>5. s \in Services /\ s.at = "keys" /\ serve' = [serve EXCEPT ![c] = s] /\ serve'[c] = s
      BY <1>2, <1>5 DEF Services
    <2> HIDE DEF s
    <2>6. CallInv(c)'
      BY <1>1, <1>2, <1>3, <2>4, <2>5, TabStays, Facts DEF CallInv, Waits, Stage, Tries, Answered
    <2> QED BY <1>1, <1>2, <2>3, <2>4, <2>5, <2>6, TabStays, CallMoves, NothingIs
  <1> QED BY <1>4, <1>5 DEF Verify

\* The keys come, or do not: who waited for them is answered or handled.
LEMMA KeysEnd ==
  ASSUME Inv, UNCHANGED tab, UNCHANGED <<up, adminToken, tokenRequest, done>>, Budget', KeysTyped',
         serve' \in [Calls -> Services],
         \A c \in Calls : IF serve[c].at = "keys"
                            THEN serve'[c].at \in {"handle", "forbidden", "unauthenticated"}
                            ELSE serve'[c] = serve[c]
  PROVE  Inv'
  <1>1. CallsTyped' /\ TokenTyped'
    BY DEF Inv, Typed, CallsTyped, TokenTyped
  <1>2. ASSUME NEW c \in Calls
        PROVE  CallInv(c)'
    <2>1. CASE serve[c].at = "keys"
      BY <2>1, Known, TabStays, Facts DEF CallInv, Waits, Stage, Tries, Answered
    <2>2. CASE serve[c].at # "keys"
      BY <2>2, Known, TabStays, CallRests DEF CallInv, Stage
    <2> QED BY <2>1, <2>2
  <1> QED BY <1>1, <1>2, TabStays DEF Inv, Typed

LEMMA KeysArriveInv ==
  ASSUME Inv, KeysArrive, UNCHANGED tab
  PROVE  Inv'
  <1>1. /\ UNCHANGED <<cooling, signer, enabled, upstream>> /\ fetching' = 0
        /\ \E newest \in fetching..signer : keys' = 1..newest
        /\ serve' = [c \in Calls |-> IF serve[c].at = "keys" THEN Looked(c, keys') ELSE serve[c]]
    BY DEF KeysArrive
  <1>2. Budget' /\ UNCHANGED <<up, adminToken, tokenRequest, done>>
    BY <1>1 DEF upstream, Inv, Typed, Budget
  <1>3. keys' \subseteq Signers
    <2>1. signer \in 1..(MaxFaults + 1) /\ fetching \in Nat
      BY Facts DEF Inv, Typed, Budget, KeysTyped, Signers
    <2> QED BY <1>1, <2>1, Facts DEF Signers
  <1>4. KeysTyped'
    BY <1>1, <1>3 DEF Inv, Typed, KeysTyped
  <1>5. PICK known : known = keys'
    OBVIOUS
  <1>6. \A c \in Calls : serve'[c] = IF serve[c].at = "keys" THEN Looked(c, known) ELSE serve[c]
    BY <1>1, <1>5
  <1>7. serve' \in [Calls -> Services]
    BY <1>1, <1>5, LookedIs, Known
  <1> QED BY <1>2, <1>4, <1>6, <1>7, LookedIs, KeysEnd

LEMMA KeysFailInv ==
  ASSUME Inv, KeysFail, UNCHANGED tab
  PROVE  Inv'
  <1>1. /\ UNCHANGED <<keys, cooling, signer, enabled, up, adminToken, tokenRequest, epoch, done>>
        /\ Fault /\ fetching' = 0
        /\ serve' = [c \in Calls |-> IF serve[c].at = "keys" THEN Unauthenticated ELSE serve[c]]
    BY DEF KeysFail
  <1>2. Budget' /\ KeysTyped'
    BY <1>1, Spent DEF Inv, Typed, KeysTyped
  <1>3. serve' \in [Calls -> Services]
    BY <1>1, LookedIs, Known
  <1> QED BY <1>1, <1>2, <1>3, LookedIs, KeysEnd

LEMMA HandleInv ==
  ASSUME Inv, NEW c \in Calls, Handle(c), UNCHANGED tab
  PROVE  Inv'
  <1>1. /\ serve[c].at = "handle" /\ UNCHANGED <<keys, cooling, fetching, signer, enabled>>
        /\ UNCHANGED <<adminToken, tokenRequest, epoch, done, faults>>
    BY DEF Handle
  <1>2. Budget' /\ TokenTyped' /\ KeysTyped'
    BY <1>1 DEF Inv, Typed, Budget, TokenTyped, KeysTyped
  <1>3. /\ CallInv(c) /\ serve \in [Calls -> Services] /\ serve[c] \in Services
        /\ up \in [Calls -> Requests]
    BY Known
  <1>4. call[c] # "token" /\ up[c].at = None /\ done[c] = 0
    BY <1>1, <1>3, Facts DEF CallInv, Stage
  <1>5. CASE MethodOf[c] = None
    <2>1. serve' = [serve EXCEPT ![c] = [at |-> "ok", key |-> 0]] /\ up' = up
      BY <1>1, <1>5 DEF Handle, Told
    <2>2. [at |-> "ok", key |-> 0] \in Services
      BY DEF Services, Answers
    <2>3. PICK s \in Services : s = [at |-> "ok", key |-> 0]
      BY <2>2
    <2>4. serve'[c] = s /\ s.at = "ok" /\ Effect(c) = 0
      BY <1>3, <1>5, <2>1, <2>3, Facts
    <2>5. CallInv(c)'
      BY <1>1, <1>3, <1>4, <2>1, <2>4, TabStays, Facts DEF CallInv, Waits, Stage, Tries, Answered, Effect
    <2> QED BY <1>1, <1>2, <2>1, <2>3, <2>5, TabStays, CallMoves, NothingIs
  <1>6. CASE serve' = [serve EXCEPT ![c].at = "asks"] /\ Begin(c)
    <2> DEFINE s == [serve[c] EXCEPT !.at = "asks"]
    <2> DEFINE r == [NoRequest EXCEPT !.at = "send"]
    <2>1. s \in Services /\ s.at = "asks" /\ serve' = [serve EXCEPT ![c] = s] /\ serve'[c] = s
      BY <1>3, <1>6 DEF Services
    <2>2. r \in Requests /\ r.at = "send" /\ r.attempt = 0
      BY NothingIs DEF Requests
    <2>3. up' = [up EXCEPT ![c] = r] /\ up'[c] = r
      BY <1>3, <1>6 DEF Begin
    <2> HIDE DEF s, r
    <2>4. CallInv(c)'
      BY <1>1, <1>3, <1>4, <2>1, <2>2, <2>3, TabStays, Facts DEF CallInv, Waits, Stage, Tries, Answered
    <2> QED BY <1>1, <1>2, <2>1, <2>2, <2>3, <2>4, TabStays, CallMoves
  <1> QED BY <1>1, <1>5, <1>6 DEF Handle

LEMMA RespondInv ==
  ASSUME Inv, NEW c \in Calls, Respond(c), UNCHANGED tab
  PROVE  Inv'
  <1>1. /\ serve[c].at = "asks" /\ UNCHANGED <<keys, cooling, fetching, signer, enabled>>
        /\ UNCHANGED <<adminToken, tokenRequest, epoch, done, faults>>
        /\ up[c].at \in {"ok", "failed"} /\ up' = [up EXCEPT ![c] = NoRequest]
        /\ Told(c, IF up[c].at = "ok" THEN "ok" ELSE "unavailable")
    BY DEF Respond, Finish
  <1>2. Budget' /\ TokenTyped' /\ KeysTyped'
    BY <1>1 DEF Inv, Typed, Budget, TokenTyped, KeysTyped
  <1>3. /\ CallInv(c) /\ serve \in [Calls -> Services] /\ up \in [Calls -> Requests]
        /\ up'[c] = NoRequest /\ call[c] # "token"
    BY <1>1, Known, Facts DEF CallInv, Stage
  <1>4. PICK answer \in {"ok", "unavailable"} : answer = IF up[c].at = "ok" THEN "ok" ELSE "unavailable"
    OBVIOUS
  <1>5. [at |-> answer, key |-> 0] \in Services
    BY DEF Services, Answers
  <1>6. PICK s \in Services : s = [at |-> answer, key |-> 0]
    BY <1>5
  <1>7. serve' = [serve EXCEPT ![c] = s] /\ serve'[c].at = answer
    BY <1>1, <1>3, <1>4, <1>6 DEF Told
  <1>8. answer = "ok" => done[c] = Effect(c)
    BY <1>3, <1>4 DEF CallInv, Stage
  <1>9. CallInv(c)'
    BY <1>1, <1>3, <1>7, <1>8, TabStays, NothingIs, Facts
       DEF CallInv, Waits, Stage, Tries, Answered, Effect
  <1> QED BY <1>1, <1>2, <1>6, <1>7, <1>9, TabStays, CallMoves, NothingIs

\* Time passes and keys change, for no call in particular.
LEMMA ServerRests ==
  ASSUME Inv, UNCHANGED tab, UNCHANGED <<up, serve, done, fetching>>,
         Budget', KeysTyped', TokenTyped', tokenRequest.open => tokenRequest'.open
  PROVE  Inv'
  <1>1. CallsTyped'
    BY DEF Inv, Typed, CallsTyped
  <1>2. \A c \in Calls : CallInv(c)'
    BY Known, TabStays, CallRests DEF CallInv, Stage
  <1> QED BY <1>1, <1>2, TabStays DEF Inv, Typed

LEMMA KeysTimeInv ==
  ASSUME Inv, Cool \/ RotateKeys, UNCHANGED tab
  PROVE  Inv'
  <1>1. CASE Cool
    <2>1. /\ UNCHANGED <<serve, keys, fetching, signer, enabled, upstream>> /\ cooling' = FALSE
      BY <1>1 DEF Cool
    <2>2. Budget' /\ KeysTyped' /\ TokenTyped' /\ UNCHANGED <<up, done, tokenRequest>>
      BY <2>1 DEF upstream, Inv, Typed, Budget, KeysTyped, TokenTyped
    <2> QED BY <2>1, <2>2, ServerRests
  <1>2. CASE RotateKeys
    <2>1. /\ UNCHANGED <<serve, keys, cooling, fetching, enabled>> /\ Fault /\ signer' = signer + 1
          /\ UNCHANGED <<up, adminToken, tokenRequest, epoch, done>>
      BY <1>2 DEF RotateKeys
    <2>2. Budget' /\ KeysTyped' /\ TokenTyped'
      BY <2>1, Spent DEF Inv, Typed, KeysTyped, TokenTyped
    <2> QED BY <2>1, <2>2, ServerRests
  <1> QED BY <1>1, <1>2

-----------------------------------------------------------------------------
(* Steps of a request to Keycloak                                          *)

LEMMA AgainIs ==
  ASSUME NEW q \in Requests, q.attempt <= MaxRetries
  PROVE  /\ Again(q) \in Requests /\ Again(q).at = "send" /\ Again(q).attempt = q.attempt + 1
         /\ Again(q).refreshed = q.refreshed
         /\ Refreshed(q) \in Requests /\ Refreshed(q).at = "send" /\ Refreshed(q).refreshed = TRUE
         /\ Refreshed(q).attempt = q.attempt + 1
  <1>1. q.attempt + 1 \in 0..(MaxRetries + 1) /\ 0 \in {0} \cup Epochs
    BY Facts DEF Requests
  <1>2. Again(q) \in Requests
    BY <1>1 DEF Again, Requests
  <1>3. /\ Again(q).at = "send" /\ Again(q).attempt = q.attempt + 1
        /\ Again(q).refreshed = q.refreshed
    BY DEF Again, Requests
  <1>4. Refreshed(q) \in Requests
    BY <1>2 DEF Refreshed, Requests
  <1>5. /\ Refreshed(q).at = "send" /\ Refreshed(q).refreshed = TRUE
        /\ Refreshed(q).attempt = q.attempt + 1
    BY <1>2, <1>3 DEF Refreshed, Requests
  <1> QED BY <1>2, <1>3, <1>4, <1>5

LEMMA UnavailableIs ==
  ASSUME Inv, NEW c \in Calls
  PROVE  /\ Unavailable(c) \in Requests /\ Unavailable(c).at \in {"sleep", "failed"}
         /\ Unavailable(c).at = "sleep" => CanRetry(c)
         /\ Unavailable(c).attempt = up[c].attempt /\ Unavailable(c).refreshed = up[c].refreshed
  <1>1. up[c] \in Requests
    BY Known
  <1> QED BY <1>1 DEF Unavailable, Requests

\* A step of one request, to which keys and tab are nothing.
LEMMA RequestMoves ==
  ASSUME Inv, UNCHANGED <<api, tab>>, NEW c \in Calls, up[c].at \in {"sleep", "send", "sent"},
         Budget', TokenTyped', NEW r \in Requests, up' = [up EXCEPT ![c] = r],
         NEW n \in Nat, done' = done \/ done' = [done EXCEPT ![c] = n],
         \A b \in Calls : b # c /\ up[b].at = "token" /\ tokenRequest.open => tokenRequest'.open,
         r.at = "token" => tokenRequest'.open,
         r.at \in {"send", "token", "sent", "sleep"} => done'[c] = 0,
         r.at = "ok" => done'[c] = Effect(c), done'[c] <= 1,
         r.at = "sleep" => MethodOf[c] = "GET" /\ r.attempt < MaxRetries,
         r.attempt <= MaxRetries \/ r.refreshed,
         MethodOf[c] = "POST" => r.attempt = 0 \/ r.refreshed
  PROVE  Inv'
  <1>1. /\ UNCHANGED <<serve, keys, cooling, fetching, enabled>> /\ KeysTyped'
    BY DEF api, Inv, Typed, KeysTyped
  <1>2. CallInv(c) /\ up'[c] = r /\ serve[c].at = "asks"
    BY Known, Facts DEF CallInv, Stage
  <1>3. call'[c] # "token"
    BY <1>2, TabStays, Facts DEF CallInv, Stage
  <1>4. CallInv(c)'
    BY <1>1, <1>2, <1>3 DEF CallInv, Waits, Stage, Tries, Answered, Effect
  <1> QED BY <1>1, <1>4, TabStays, CallMoves, NothingIs

LEMMA KnownRequest ==
  ASSUME Inv, NEW c \in Calls
  PROVE  /\ up[c] \in Requests /\ up \in [Calls -> Requests] /\ done \in [Calls -> Nat] /\ done[c] \in Nat
         /\ CallInv(c) /\ Tries(c) /\ Stage(c) /\ Waits(c)
         /\ up[c].attempt \in Nat /\ up[c].refreshed \in BOOLEAN /\ Effect(c) \in {0, 1}
         /\ MethodOf[c] = "GET" => Effect(c) = 0
         /\ Budget /\ TokenTyped /\ done[c] <= 1 /\ MaxRetries = 2 /\ 0 \in Nat
         /\ up[c].attempt <= MaxRetries \/ up[c].refreshed
         /\ MethodOf[c] = "POST" => up[c].attempt = 0 \/ up[c].refreshed
  BY Known, Facts DEF CallInv, Answered, Tries, Inv, Typed

LEMMA WakeInv ==
  ASSUME Inv, NEW c \in Calls, Wake(c), UNCHANGED <<api, tab>>
  PROVE  Inv'
  <1>1. /\ up[c].at = "sleep" /\ up' = [up EXCEPT ![c] = Again(up[c])]
        /\ UNCHANGED <<adminToken, tokenRequest, epoch, done, faults>>
    BY DEF Wake
  <1>2. PICK r : r = Again(up[c])
    OBVIOUS
  <1>3. /\ MethodOf[c] = "GET" /\ up[c].attempt < MaxRetries /\ done[c] = 0
        /\ up[c].attempt \in Nat /\ up[c] \in Requests /\ MaxRetries = 2
    BY <1>1, KnownRequest DEF Tries, Stage
  <1>4. r \in Requests /\ r.at = "send" /\ r.attempt = up[c].attempt + 1
    <2>1. up[c].attempt <= MaxRetries
      BY <1>3
    <2>2. PICK q \in Requests : q = up[c]
      BY <1>3
    <2>3. q.attempt <= MaxRetries
      BY <2>1, <2>2
    <2>4. Again(q) \in Requests /\ Again(q).at = "send" /\ Again(q).attempt = q.attempt + 1
      BY <2>3, AgainIs
    <2> QED BY <1>2, <2>2, <2>4
  <1>5. Budget' /\ TokenTyped'
    BY <1>1, KnownRequest DEF Budget, TokenTyped, api
  <1>6. r.attempt <= MaxRetries /\ done'[c] = 0 /\ done'[c] <= 1
    BY <1>1, <1>3, <1>4
  <1>7. PICK n \in Nat : n = 0
    OBVIOUS
  <1> QED BY <1>1, <1>2, <1>3, <1>4, <1>5, <1>6, <1>7, RequestMoves

LEMMA SendInv ==
  ASSUME Inv, NEW c \in Calls, Send(c), UNCHANGED <<api, tab>>
  PROVE  Inv'
  <1>1. up[c].at = "send" /\ UNCHANGED <<adminToken, epoch, done, faults>> /\ done[c] = 0
    BY KnownRequest DEF Send, Stage
  <1>2. Budget'
    BY <1>1, KnownRequest DEF Budget, api
  <1>3. CASE /\ up' = [up EXCEPT ![c].at = "sent", ![c].token = adminToken]
             /\ UNCHANGED tokenRequest
    <2> DEFINE r == [up[c] EXCEPT !.at = "sent", !.token = adminToken]
    <2>1. r \in Requests /\ r.at = "sent" /\ r.attempt = up[c].attempt /\ r.refreshed = up[c].refreshed
      BY KnownRequest DEF Requests, TokenTyped
    <2>2. up' = [up EXCEPT ![c] = r]
      BY <1>3, KnownRequest
    <2>3. TokenTyped'
      BY <1>1, <1>3, KnownRequest DEF TokenTyped
    <2> HIDE DEF r
    <2>4. /\ r.attempt <= MaxRetries \/ r.refreshed
          /\ MethodOf[c] = "POST" => r.attempt = 0 \/ r.refreshed
      BY <2>1, KnownRequest
    <2>5. done'[c] = 0 /\ done'[c] <= 1 /\ tokenRequest' = tokenRequest
      BY <1>1, <1>3
    <2>6. PICK n \in Nat : n = 0
      OBVIOUS
    <2> QED BY <1>1, <1>2, <2>1, <2>2, <2>3, <2>4, <2>5, <2>6, RequestMoves
  <1>4. CASE /\ up' = [up EXCEPT ![c].at = "token"]
             /\ tokenRequest' = [tokenRequest EXCEPT !.open = TRUE]
    <2> DEFINE r == [up[c] EXCEPT !.at = "token"]
    <2>1. r \in Requests /\ r.at = "token" /\ r.attempt = up[c].attempt /\ r.refreshed = up[c].refreshed
      BY KnownRequest DEF Requests
    <2>2. up' = [up EXCEPT ![c] = r]
      BY <1>4, KnownRequest
    <2>3. TokenTyped' /\ tokenRequest'.open
      BY <1>1, <1>4, KnownRequest DEF TokenTyped
    <2> HIDE DEF r
    <2>4. /\ r.attempt <= MaxRetries \/ r.refreshed
          /\ MethodOf[c] = "POST" => r.attempt = 0 \/ r.refreshed
      BY <2>1, KnownRequest
    <2>5. done'[c] = 0 /\ done'[c] <= 1
      BY <1>1
    <2>6. PICK n \in Nat : n = 0
      OBVIOUS
    <2> QED BY <1>1, <1>2, <2>1, <2>2, <2>3, <2>4, <2>5, <2>6, RequestMoves
  <1> QED BY <1>1, <1>3, <1>4 DEF Send

\* Keycloak does it, or refuses the token: once it is asked again with another.
LEMMA AnswerInv ==
  ASSUME Inv, NEW c \in Calls, Answer(c), UNCHANGED <<api, tab>>
  PROVE  Inv'
  <1>1. up[c].at = "sent" /\ UNCHANGED <<epoch, faults>> /\ done[c] = 0
    BY KnownRequest DEF Answer, Stage
  <1>2. Budget'
    BY <1>1, KnownRequest DEF Budget, api
  <1>3. CASE up[c].token = epoch
    <2> DEFINE r == [NoRequest EXCEPT !.at = "ok"]
    <2>1. r \in Requests /\ r.at = "ok" /\ r.attempt = 0
      BY NothingIs DEF Requests
    <2>2. /\ up' = [up EXCEPT ![c] = r] /\ done' = [done EXCEPT ![c] = @ + Effect(c)]
          /\ UNCHANGED <<adminToken, tokenRequest>>
      BY <1>3 DEF Answer
    <2> HIDE DEF r
    <2>3. PICK n \in Nat : n = Effect(c)
      BY KnownRequest
    <2>4. done' = [done EXCEPT ![c] = n] /\ done'[c] = n
      <3>1. done \in [Calls -> Nat] /\ done[c] + n = n
        BY <1>1, KnownRequest
      <3> QED BY <2>2, <2>3, <3>1
    <2>5. TokenTyped'
      BY <2>2, KnownRequest DEF TokenTyped
    <2>6. r.attempt <= MaxRetries /\ done'[c] <= 1
      BY <2>1, <2>3, <2>4, KnownRequest
    <2>7. done'[c] = Effect(c) /\ UNCHANGED tokenRequest
      BY <2>2, <2>3, <2>4
    <2> QED BY <1>1, <1>2, <2>1, <2>2, <2>3, <2>4, <2>5, <2>6, <2>7, RequestMoves
  <1>4. CASE up[c].token # epoch /\ up[c].refreshed
    <2> DEFINE r == [NoRequest EXCEPT !.at = "failed"]
    <2>1. r \in Requests /\ r.at = "failed" /\ r.attempt = 0
      BY NothingIs DEF Requests
    <2>2. up' = [up EXCEPT ![c] = r] /\ UNCHANGED <<done, adminToken, tokenRequest>>
      BY <1>4 DEF Answer
    <2> HIDE DEF r
    <2>3. TokenTyped'
      BY <2>2, KnownRequest DEF TokenTyped
    <2>4. /\ r.attempt <= MaxRetries /\ done'[c] = 0 /\ done'[c] <= 1
          /\ tokenRequest' = tokenRequest
      BY <1>1, <2>1, <2>2, KnownRequest
    <2>5. PICK n \in Nat : n = 0
      OBVIOUS
    <2> QED BY <1>1, <1>2, <2>1, <2>2, <2>3, <2>4, <2>5, RequestMoves
  <1>5. CASE up[c].token # epoch /\ ~up[c].refreshed
    <2>1. up' = [up EXCEPT ![c] = Refreshed(up[c])] /\ OnUnauthorized /\ UNCHANGED done
      BY <1>5 DEF Answer
    <2>2. PICK r : r = Refreshed(up[c])
      OBVIOUS
    <2>3. PICK q \in Requests : q = up[c] /\ q.attempt <= MaxRetries
      BY <1>5, KnownRequest
    <2>4. Refreshed(q) \in Requests /\ Refreshed(q).at = "send" /\ Refreshed(q).refreshed = TRUE
      BY <2>3, AgainIs
    <2>5. r \in Requests /\ r.at = "send" /\ r.refreshed
      BY <2>2, <2>3, <2>4
    <2>6. TokenTyped' /\ tokenRequest' = tokenRequest
      BY <2>1, KnownRequest DEF TokenTyped, OnUnauthorized
    <2>7. done'[c] = 0 /\ done'[c] <= 1
      BY <1>1, <2>1
    <2>8. PICK n \in Nat : n = 0
      OBVIOUS
    <2> QED BY <1>1, <1>2, <2>1, <2>2, <2>5, <2>6, <2>7, <2>8, RequestMoves
  <1> QED BY <1>3, <1>4, <1>5

\* What may have been done is not asked for again.
LEMMA LostInv ==
  ASSUME Inv, NEW c \in Calls, Lost(c), UNCHANGED <<api, tab>>
  PROVE  Inv'
  <1>1. /\ up[c].at = "sent" /\ Fault /\ UNCHANGED <<adminToken, tokenRequest, epoch>> /\ done[c] = 0
        /\ up' = [up EXCEPT ![c] = Unavailable(c)]
    BY KnownRequest DEF Lost, Stage
  <1>2. PICK n \in {0, Effect(c)} : done' = [done EXCEPT ![c] = @ + n]
    BY DEF Lost
  <1>3. n \in Nat /\ n <= 1 /\ (MethodOf[c] = "GET" => n = 0)
    BY KnownRequest
  <1>4. done \in [Calls -> Nat] /\ done[c] + n = n
    BY <1>1, <1>3, KnownRequest
  <1>5. done' = [done EXCEPT ![c] = n] /\ done'[c] = n
    BY <1>2, <1>4
  <1>6. PICK r : r = Unavailable(c)
    OBVIOUS
  <1>7. /\ r \in Requests /\ r.at \in {"sleep", "failed"}
        /\ r.at = "sleep" => MethodOf[c] = "GET" /\ r.attempt < MaxRetries
        /\ r.attempt = up[c].attempt /\ r.refreshed = up[c].refreshed
    BY <1>6, UnavailableIs DEF CanRetry
  <1>8. Budget' /\ TokenTyped'
    BY <1>1, KnownRequest, Spent DEF TokenTyped, api
  <1>9. /\ r.attempt <= MaxRetries \/ r.refreshed
        /\ MethodOf[c] = "POST" => r.attempt = 0 \/ r.refreshed
        /\ r.at = "sleep" => done'[c] = 0
    BY <1>3, <1>5, <1>7, KnownRequest
  <1> QED BY <1>1, <1>3, <1>5, <1>6, <1>7, <1>8, <1>9, RequestMoves

\* Who waited for a token is sent with it, or has failed with it.
LEMMA TokenEnd ==
  ASSUME Inv, UNCHANGED <<api, tab, done>>, Budget', TokenTyped',
         up' \in [Calls -> Requests],
         \A c \in Calls : IF up[c].at = "token"
                            THEN /\ up'[c].at = "sent" \/ up'[c].at = "failed"
                                    \/ (up'[c].at = "sleep" /\ CanRetry(c))
                                 /\ up'[c].attempt = up[c].attempt /\ up'[c].refreshed = up[c].refreshed
                            ELSE up'[c] = up[c]
  PROVE  Inv'
  <1>1. CallsTyped' /\ KeysTyped' /\ serve' = serve /\ fetching' = fetching
    BY DEF Inv, Typed, CallsTyped, KeysTyped, api
  <1>2. ASSUME NEW c \in Calls
        PROVE  CallInv(c)'
    <2>1. CASE up[c].at = "token"
      <3>1. serve[c].at = "asks" /\ call'[c] # "token" /\ done'[c] = 0
        BY <2>1, KnownRequest, TabStays, Facts DEF Stage
      <3> QED BY <1>1, <2>1, <3>1, KnownRequest, Facts
           DEF CallInv, Waits, Stage, Tries, Answered, Effect, CanRetry
    <2>2. CASE up[c].at # "token"
      BY <1>1, <2>2, Known, TabStays, CallRests DEF CallInv, Stage
    <2> QED BY <2>1, <2>2
  <1> QED BY <1>1, <1>2, TabStays DEF Inv, Typed

LEMMA TokenArrivesInv ==
  ASSUME Inv, TokenArrives, UNCHANGED <<api, tab>>
  PROVE  Inv'
  <1>1. /\ adminToken' = tokenRequest.token /\ tokenRequest' = NoTokenRequest
        /\ UNCHANGED <<epoch, done, faults>>
        /\ up' = [c \in Calls |-> IF c \in Waiting("token")
                                    THEN [up[c] EXCEPT !.at = "sent", !.token = tokenRequest.token]
                                    ELSE up[c]]
    BY DEF TokenArrives
  <1>2. tokenRequest.token \in {0} \cup Epochs
    BY DEF Inv, Typed, TokenTyped
  <1>3. Budget' /\ TokenTyped'
    BY <1>1, <1>2, NothingIs DEF Inv, Typed, Budget, TokenTyped, api
  <1>4. ASSUME NEW c \in Calls
        PROVE  /\ up'[c] \in Requests
               /\ IF up[c].at = "token"
                    THEN /\ up'[c].at = "sent"
                         /\ up'[c].attempt = up[c].attempt /\ up'[c].refreshed = up[c].refreshed
                    ELSE up'[c] = up[c]
    <2>1. up[c] \in Requests
      BY Known
    <2>2. CASE up[c].at = "token"
      <3>1. up'[c] = [up[c] EXCEPT !.at = "sent", !.token = tokenRequest.token]
        BY <1>1, <2>2 DEF Waiting
      <3> QED BY <1>2, <2>1, <2>2, <3>1 DEF Requests
    <2>3. CASE up[c].at # "token"
      BY <1>1, <2>1, <2>3 DEF Waiting
    <2> QED BY <2>2, <2>3
  <1>5. up' \in [Calls -> Requests]
    <2>1. up' = [c \in Calls |-> up'[c]]
      BY <1>1
    <2> QED BY <1>4, <2>1
  <1> QED BY <1>1, <1>3, <1>4, <1>5, TokenEnd

LEMMA TokenFailsInv ==
  ASSUME Inv, TokenFails, UNCHANGED <<api, tab>>
  PROVE  Inv'
  <1>1. /\ tokenRequest' = NoTokenRequest /\ Fault /\ UNCHANGED <<adminToken, epoch, done>>
        /\ up' = [c \in Calls |-> IF c \in Waiting("token") THEN Unavailable(c) ELSE up[c]]
    BY DEF TokenFails
  <1>2. Budget' /\ TokenTyped'
    BY <1>1, Spent, NothingIs DEF Inv, Typed, TokenTyped, api
  <1>3. up' \in [Calls -> Requests]
    BY <1>1, UnavailableIs, Known
  <1>4. \A c \in Calls : up'[c] = IF up[c].at = "token" THEN Unavailable(c) ELSE up[c]
    BY <1>1 DEF Waiting
  <1> QED BY <1>1, <1>2, <1>3, <1>4, UnavailableIs, TokenEnd

LEMMA TokenTimeInv ==
  ASSUME Inv, IssueToken \/ Revoke \/ TokenEnds, UNCHANGED <<api, tab>>
  PROVE  Inv'
  <1>1. UNCHANGED <<up, done, serve, keys, cooling, fetching, signer, enabled>>
    BY DEF IssueToken, Revoke, TokenEnds, api
  <1>2. KeysTyped' /\ Budget /\ TokenTyped
    BY <1>1 DEF Inv, Typed, KeysTyped
  <1>3. CASE IssueToken
    <2>1. /\ tokenRequest' = [tokenRequest EXCEPT !.token = epoch] /\ UNCHANGED <<adminToken, epoch, faults>>
      BY <1>3 DEF IssueToken
    <2>2. Budget' /\ TokenTyped' /\ tokenRequest'.open = tokenRequest.open
      BY <1>1, <1>2, <2>1 DEF Budget, TokenTyped
    <2> QED BY <1>1, <1>2, <2>2, ServerRests
  <1>4. CASE Revoke
    <2>1. Fault /\ epoch' = epoch + 1 /\ UNCHANGED <<adminToken, tokenRequest>>
      BY <1>4 DEF Revoke
    <2>2. Budget' /\ TokenTyped'
      BY <1>1, <1>2, <2>1, Spent DEF TokenTyped
    <2> QED BY <1>1, <1>2, <2>1, <2>2, ServerRests
  <1>5. CASE TokenEnds
    <2>1. Fault /\ adminToken' = 0 /\ UNCHANGED <<tokenRequest, epoch>>
      BY <1>5 DEF TokenEnds
    <2>2. Budget' /\ TokenTyped'
      BY <1>1, <1>2, <2>1, Spent DEF TokenTyped
    <2> QED BY <1>1, <1>2, <2>1, <2>2, ServerRests
  <1> QED BY <1>3, <1>4, <1>5

-----------------------------------------------------------------------------
(* All steps                                                               *)

LEMMA InitInv == Init => Inv
  <1> SUFFICES ASSUME Init
               PROVE  Inv
    OBVIOUS
  <1>1. UpstreamInit /\ ApiInit
    BY DEF Init
  <1>2. Budget /\ TokenTyped /\ KeysTyped
    <2>1. MaxFaults \in Nat /\ 1 \in 1..(MaxFaults + 1)
      BY Facts
    <2>2. Budget
      BY <1>1, <2>1 DEF UpstreamInit, ApiInit, Budget, Epochs, Signers
    <2>3. TokenTyped
      BY <1>1, NothingIs DEF UpstreamInit, TokenTyped
    <2>4. KeysTyped
      BY <1>1 DEF ApiInit, KeysTyped
    <2> QED BY <2>2, <2>3, <2>4
  <1>3. CallsTyped
    BY <1>1, NothingIs DEF UpstreamInit, ApiInit, CallsTyped
  <1>4. TabTyped
    BY DEF Init, TabTyped, NoTokens
  <1>5. ASSUME NEW c \in Calls
        PROVE  CallInv(c)
    <2>1. up[c] = NoRequest /\ serve[c] = NotServed /\ done[c] = 0 /\ call[c] = "idle"
      BY <1>1, Facts DEF UpstreamInit, ApiInit, Init
    <2> QED BY <2>1, NothingIs, Facts DEF CallInv, Waits, Stage, Tries, Answered
  <1> QED BY <1>2, <1>3, <1>4, <1>5 DEF Inv, Typed

LEMMA NextInv ==
  ASSUME Inv, [Next]_vars
  PROVE  Inv'
  <1>1. CASE User
    BY <1>1, PressSignInInv, RedirectsInv, SubmitLoadInv, Facts DEF User
  <1>2. CASE Redirects \/ RefreshAnswered \/ Assign(Button)
    BY <1>2, RedirectsInv, StartInv, RefreshInv, AssignInv, Facts DEF Redirects
  <1>3. ASSUME NEW c \in Calls, Tab(c)
        PROVE  Inv'
    BY <1>3, ReceiveInv, DiscardInv, AssignInv, Facts DEF Tab
  <1>4. ASSUME NEW c \in Calls, Served(c)
        PROVE  Inv'
    BY <1>4, VerifyInv, HandleInv, RespondInv, SendInv, WakeInv, AnswerInv DEF Served, Api, Upstream
  <1>5. ASSUME NEW c \in Loads, Load(c)
        PROVE  Inv'
    BY <1>5, SubmitLoadInv DEF Loads
  <1>6. CASE Elsewhere
    BY <1>6, KeysArriveInv, TokenTimeInv, TokenArrivesInv, KeysTimeInv DEF Elsewhere, ApiTime, TokenComes
  <1>7. CASE Faults
    <2>1. CASE ApiFault /\ UNCHANGED tab
      BY <2>1, KeysFailInv, KeysTimeInv, TokenFailsInv, TokenTimeInv, LostInv DEF ApiFault, UpstreamFault
    <2> QED BY <1>7, <2>1, RefreshInv, NetworkErrorInv, TabFaultInv DEF Faults
  <1>8. CASE UNCHANGED vars
    <2>1. UNCHANGED <<tab, api, upstream>>
      BY <1>8 DEF vars
    <2>2. /\ Budget' /\ KeysTyped' /\ TokenTyped'
          /\ UNCHANGED <<up, serve, done, fetching, tokenRequest>>
      BY <2>1 DEF api, upstream, Inv, Typed, Budget, KeysTyped, TokenTyped
    <2> QED BY <2>1, <2>2, ServerRests
  <1> QED BY <1>1, <1>2, <1>3, <1>4, <1>5, <1>6, <1>7, <1>8 DEF Next

LEMMA InvHolds == Spec => []Inv
  BY InitInv, NextInv, PTL DEF Spec

-----------------------------------------------------------------------------
(* Theorems                                                                *)

\* Every variable has its type: a request is sent four times at most, and who
\* waits for a token, for keys or for a refresh has one under way, whatever
\* fails and whoever leaves.
THEOREM TypeCorrect == Spec => []TypeOK
  BY InvHolds, TypeParts, PTL

\* What a call asks of Keycloak is done once at most; it was done when the call
\* succeeds, was not when it is refused, and is asked for again only after a
\* 401 (upstream-client.ts:31), for any calls, any faults and any number of them.
THEOREM CallsAreDoneOnce == Spec => []DoneOnceAndTold
  <1>1. Inv => DoneOnceAndTold
    BY DEF Inv, CallInv, Tries, Answered, DoneOnceAndTold
  <1> QED BY <1>1, InvHolds, PTL
=============================================================================
