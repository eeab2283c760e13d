------------------------------ MODULE ApiGuard ------------------------------
(***************************************************************************)
(* A call at control-plane's API: the access token is verified with the    *)
(* keys of the realm (common/auth/jwt-verifier.ts), the user is looked up  *)
(* (auth.guard.ts), and the handler may ask Keycloak, see UpstreamClient.  *)
(* A token is the signing key it was signed with; it is never sent near    *)
(* the end of its life, see Console.                                       *)
(***************************************************************************)
EXTENDS UpstreamClient

VARIABLES
  serve,     \* each call at the server
  keys,      \* the signing keys known
  cooling,   \* whether the last fetch of keys is less than MIN_REFRESH_MS ago
  fetching,  \* the newest key when the fetch that all wait for began; 0: none
  signer,    \* the key Keycloak signs with; older ones stay published
  enabled    \* whether the user's row is

api == <<serve, keys, cooling, fetching, signer, enabled>>

Signers == 1..(MaxFaults + 1)
NotServed == [at |-> None, key |-> 0]
Answers == {"ok", "unauthenticated", "forbidden", "unavailable"}
Told(c, answer) == serve' = [serve EXCEPT ![c] = [at |-> answer, key |-> 0]]

\* The guard after the token: the actor, its row, its role.
Admitted == IF enabled THEN [at |-> "handle", key |-> 0] ELSE [at |-> "forbidden", key |-> 0]
Unauthenticated == [at |-> "unauthenticated", key |-> 0]
Looked(c, known) == IF serve[c].key \in known THEN Admitted ELSE Unauthenticated

\* Mutant: only the first key that is unknown has the keys fetched.
MayFetchOnce == keys = {}

\* resolveKey
MayFetch == ~cooling

Verify(c) ==
  /\ serve[c].at = "verify"
  /\ IF serve[c].key \notin keys /\ MayFetch
       THEN /\ serve' = [serve EXCEPT ![c].at = "keys"]
            /\ fetching' = IF fetching = 0 THEN signer ELSE fetching
            /\ cooling' = (fetching = 0)
       ELSE /\ serve' = [serve EXCEPT ![c] = Looked(c, keys)]
            /\ UNCHANGED <<fetching, cooling>>
  /\ UNCHANGED <<keys, signer, enabled, upstream>>

\* fetchKeys: those who waited look again.
KeysArrive ==
  /\ fetching # 0
  /\ \E newest \in fetching..signer : keys' = 1..newest
  /\ fetching' = 0
  /\ serve' = [c \in Calls |-> IF serve[c].at = "keys" THEN Looked(c, keys') ELSE serve[c]]
  /\ UNCHANGED <<cooling, signer, enabled, upstream>>

KeysFail ==
  /\ fetching # 0 /\ Fault
  /\ fetching' = 0
  /\ serve' = [c \in Calls |-> IF serve[c].at = "keys" THEN Unauthenticated ELSE serve[c]]
  /\ UNCHANGED <<keys, cooling, signer, enabled>>
  /\ UNCHANGED <<up, adminToken, tokenRequest, epoch, done>>

\* MIN_REFRESH_MS are over.
Cool ==
  /\ cooling
  /\ cooling' = FALSE
  /\ UNCHANGED <<serve, keys, fetching, signer, enabled, upstream>>

Handle(c) ==
  /\ serve[c].at = "handle"
  /\ IF MethodOf[c] = None
       THEN Told(c, "ok") /\ UNCHANGED up
       ELSE serve' = [serve EXCEPT ![c].at = "asks"] /\ Begin(c)
  /\ UNCHANGED <<keys, cooling, fetching, signer, enabled>>
  /\ UNCHANGED <<adminToken, tokenRequest, epoch, done, faults>>

Respond(c) ==
  /\ serve[c].at = "asks"
  /\ Finish(c)
  /\ Told(c, IF up[c].at = "ok" THEN "ok" ELSE "unavailable")
  /\ UNCHANGED <<keys, cooling, fetching, signer, enabled>>
  /\ UNCHANGED <<adminToken, tokenRequest, epoch, done, faults>>

\* Keycloak signs with a new key.
RotateKeys ==
  /\ Fault
  /\ signer' = signer + 1
  /\ UNCHANGED <<serve, keys, cooling, fetching, enabled>>
  /\ UNCHANGED <<up, adminToken, tokenRequest, epoch, done>>

ApiInit ==
  /\ serve = [c \in Calls |-> NotServed]
  /\ keys = {} /\ cooling = FALSE /\ fetching = 0
  /\ signer = 1
  /\ enabled \in BOOLEAN

Api(c) == Verify(c) \/ Handle(c) \/ Respond(c) \/ (Upstream(c) /\ UNCHANGED api)
ApiTime == KeysArrive \/ (TokenComes /\ UNCHANGED api)
ApiFault == KeysFail \/ RotateKeys \/ (UpstreamFault /\ UNCHANGED api)

ApiTypeOK ==
  /\ UpstreamTypeOK
  /\ serve \in [Calls -> [at : {None, "verify", "keys", "handle", "asks"} \cup Answers,
                          key : {0} \cup Signers]]
  /\ \A c \in Calls : serve[c].at = "keys" => fetching # 0
  /\ keys \subseteq Signers
  /\ cooling \in BOOLEAN /\ fetching \in {0} \cup Signers /\ enabled \in BOOLEAN
  /\ signer \in Signers
=============================================================================
