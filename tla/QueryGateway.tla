---------------------------- MODULE QueryGateway ----------------------------
(***************************************************************************)
(* The query gateway (services/query-gateway): a request for OpenSearch or *)
(* VictoriaMetrics is authenticated, bound to the tenant of its user,      *)
(* rewritten and forwarded, and the answer is streamed to the client, who  *)
(* may leave at any time.                                                  *)
(*                                                                         *)
(* A query stands for the documents it matches, an aggregation for a node  *)
(* with the keys that lead to it, a path for its segments; ".." is any     *)
(* spelling of that segment, "a/b" one with an encoded slash.  Enforcing   *)
(* and the start of forwarding have no await between them and are a step.  *)
(***************************************************************************)
EXTENDS Naturals, FiniteSets, SequencesExt

CONSTANTS
  Requests,
  Inputs,     \* what the requests may be, functions on Requests
  Docs,       \* the documents in OpenSearch
  TenantOf,   \* the tenant a document names, or None
  IndexOf,    \* the index a document is in
  MaxSockets  \* sockets to a backend, maxSockets in the code

None == "none"

\* An aggregation has the keys it is found under, a search all of them.
Aggregation == [keys : Seq({"aggs", "aggregations"}), type : STRING, min : Nat]
Search == [query : SUBSET Docs, suggest : BOOLEAN, aggs : SUBSET Aggregation]
User == [roles : SUBSET STRING, groups : Seq(STRING), accounts : Seq(STRING)]
Input ==
  [valid : BOOLEAN, user : User, backend : {"opensearch", "victoriametrics"}, method : STRING,
   path : Seq(STRING), params : BOOLEAN, parses : BOOLEAN, searches : Seq(Search)]

ASSUME GatewayAssumption ==
  /\ \A in \in Inputs : DOMAIN in = Requests /\ \A q \in Requests : in[q] \in Input
  /\ DOMAIN TenantOf = Docs /\ DOMAIN IndexOf = Docs
  /\ MaxSockets \in Nat \ {0}

VARIABLES
  pc,     \* where each request is
  input,  \* what it asks for
  sent,   \* what was forwarded for it
  heard,  \* whether the gateway listens for the end of its connection
  gone,   \* where it was when its client left, or None
  answer  \* how it was answered

vars == <<pc, input, sent, heard, gone, answer>>

-----------------------------------------------------------------------------
(* Who may ask: access.ts                                                  *)

ObservabilityRoles == {"platform-admin", "tenant-admin", "viewer"}

\* The positions of the names that are not blank; the name, where there is one.
Named(names) == {i \in DOMAIN names : names[i] # ""}
OneNamed(names) == Cardinality(Named(names)) = 1
TheName(names) == names[CHOOSE i \in Named(names) : TRUE]

Admin(user) == "platform-admin" \in user.roles

\* resolveQueryAccess: one tenant, or everything.
HasAccess(user) ==
  /\ user.roles \cap ObservabilityRoles # {}
  /\ Admin(user) \/ OneNamed(user.groups)

TenantFor(user) == TheName(user.groups)

-----------------------------------------------------------------------------
(* Paths: safe-path.ts                                                     *)

\* What the URL parser of the HTTP client makes of a path.
Normalized(path) ==
  LET done[i \in 0..Len(path)] ==
        CASE i = 0 -> <<>>
          [] i > 0 /\ path[i] = ".." -> SubSeq(done[i - 1], 1, Len(done[i - 1]) - 1)
          [] i > 0 /\ path[i] = "." -> done[i - 1]
          [] OTHER -> Append(done[i - 1], path[i])
  IN done[Len(path)]

\* Mutant: the segments of the client are not looked at.
AnyPath(path) == TRUE

SafePath(path) == Range(path) \cap {".", "..", "a/b"} = {}

\* resolveDownstreamPath
Resolvable(path, prefix) == SafePath(path) /\ IsPrefix(prefix, Normalized(path))

-----------------------------------------------------------------------------
(* OpenSearch: opensearch-tenant.service.ts                                *)

ForbiddenAggregations == {"global", "significant_terms", "significant_text"}
EnumeratingAggregations == {"terms", "multi_terms"}

EndsWith(path, endpoint) == path # <<>> /\ Last(path) = endpoint
IsSearch(in) == EndsWith(in.path, "_search")
IsMsearch(in) == EndsWith(in.path, "_msearch")
IsMetadata(in) ==
  \/ EndsWith(in.path, "_field_caps")
  \/ EndsWith(in.path, "_mapping")
  \/ IsPrefix(<<"_resolve", "index">>, in.path) /\ Len(in.path) > 2

\* assertLogsIndex; no index stands for all of them.
Endpoints == {"_search", "_msearch", "_field_caps", "_mapping", "_resolve", "_cat"}
LogsIndex(path) == path # <<>> /\ Head(path) \notin Endpoints => Head(path) = "otel-logs"
Within(path) == {d \in Docs : Head(path) \in Endpoints \/ IndexOf[d] = Head(path)}

\* Mutant: the recursion follows one of the two spellings.
FollowedAggsOnly == {"aggs"}

Followed == {"aggs", "aggregations"}

\* The aggregations checkAggregations comes to: all keys above were followed.
Visited(aggs) == {n \in aggs : Range(n.keys) \subseteq Followed}

\* assertNoTenantEscape
Escapes(search) ==
  search.suggest \/ \E n \in Visited(search.aggs) : n.type \in ForbiddenAggregations

Clamped(aggs) ==
  {IF n \in Visited(aggs) /\ n.type \in EnumeratingAggregations /\ n.min = 0
     THEN [n EXCEPT !.min = 1] ELSE n : n \in aggs}

\* Mutant: the filter stands in place of the query.
FilterAlone(query, tenant) == {d \in Docs : TenantOf[d] = tenant}

\* bool: must the query, filter the tenant.
WithFilter(query, tenant) == {d \in query : TenantOf[d] = tenant}

\* applyTenantFilter
Filtered(search, tenant) ==
  [search EXCEPT !.query = WithFilter(@, tenant), !.aggs = Clamped(@)]

\* The documents an answer tells something about.
Told(search, index) ==
  (search.query \cap index) \cup
  IF \/ search.suggest
     \/ \E n \in search.aggs : \/ n.type \in ForbiddenAggregations
                               \/ n.type \in EnumeratingAggregations /\ n.min = 0
    THEN index ELSE {}

Refused(status) == [status |-> status, path |-> <<>>, searches |-> <<>>, index |-> {}]
Forwarded(path, searches, index) ==
  [status |-> "forwarded", path |-> path, searches |-> searches, index |-> index]

\* An _msearch has a header per search, whose index becomes the logs.
Rewritten(in, tenant) ==
  IF \E i \in DOMAIN in.searches : Escapes(in.searches[i])
    THEN Refused("forbidden")
    ELSE Forwarded(in.path, [i \in DOMAIN in.searches |-> Filtered(in.searches[i], tenant)],
                   IF IsMsearch(in) THEN {d \in Docs : IndexOf[d] = "otel-logs"} ELSE Within(in.path))

\* proxyRequest of the controller, with enforce.
OpenSearch(in) ==
  IF \/ ~HasAccess(in.user)
     \/ ~Resolvable(in.path, <<>>)
     \/ in.method \notin {"GET", "POST"}
     \/ ~IsSearch(in) /\ ~IsMsearch(in) /\ ~IsMetadata(in)
     \/ ~LogsIndex(in.path)
    THEN Refused("forbidden")
  ELSE IF Admin(in.user) THEN Forwarded(in.path, in.searches, Within(in.path))
  ELSE IF in.params THEN Refused("forbidden")
  ELSE IF IsMetadata(in) THEN Forwarded(in.path, <<>>, {})
  ELSE IF ~in.parses THEN Refused("invalid")
  ELSE Rewritten(in, TenantFor(in.user))

-----------------------------------------------------------------------------
(* VictoriaMetrics: victoriametrics.controller.ts                          *)

\* vmAccountIds: exactly one, after blanks are dropped.
AccountOf(user) == IF OneNamed(user.accounts) THEN TheName(user.accounts) ELSE None

Selected(user) == IF Admin(user) THEN "multitenant" ELSE AccountOf(user)
PrefixFor(user) == <<"select", Selected(user), "prometheus", "api", "v1">>
Numeric(account) == account \in {"1", "2", "multitenant"}

VictoriaMetrics(in) ==
  LET path == <<"select", Selected(in.user), "prometheus">> \o in.path
  IN IF \/ in.method \notin {"GET", "POST"}
        \/ ~IsPrefix(<<"api", "v1">>, in.path)
        \/ IsPrefix(<<"api", "v1", "admin">>, in.path)
        \/ ~HasAccess(in.user)
        \/ Selected(in.user) = None
       THEN Refused("forbidden")
     ELSE IF ~Numeric(Selected(in.user)) THEN Refused("error")
     ELSE IF ~Resolvable(path, PrefixFor(in.user)) THEN Refused("forbidden")
     ELSE Forwarded(Normalized(path), <<>>, {})

Handled(in) == IF in.backend = "opensearch" THEN OpenSearch(in) ELSE VictoriaMetrics(in)

-----------------------------------------------------------------------------
(* A request on its way                                                    *)

\* waiting: for a free socket;  asked: for the head of the backend's answer.
Places == {"authenticate", "enforce", "waiting", "asked", "streaming", "end"}
Holding(backend) ==
  {q \in Requests : pc[q] \in {"asked", "streaming"} /\ input[q].backend = backend}
SocketFree(q) == Cardinality(Holding(input[q].backend)) < MaxSockets

Ends(q, how) ==
  /\ pc' = [pc EXCEPT ![q] = "end"]
  /\ answer' = [answer EXCEPT ![q] = how]
  /\ UNCHANGED <<input, sent, gone>>

Moves(q, place) ==
  /\ pc' = [pc EXCEPT ![q] = place]
  /\ UNCHANGED <<input, gone, answer>>

\* JwtAuthGuard and JwtStrategy; the keys may have to be fetched first.
Authenticate(q) ==
  /\ pc[q] = "authenticate"
  /\ IF input[q].valid THEN Moves(q, "enforce") /\ UNCHANGED sent ELSE Ends(q, "unauthorized")
  /\ UNCHANGED heard

\* Mutant: the listener is registered only once the backend has answered.
ListensLate(q) == FALSE

\* res.on('close'): a client who has left before is never heard.
Listens(q) == gone[q] = None

Enforce(q) ==
  LET handled == Handled(input[q])
  IN /\ pc[q] = "enforce"
     /\ IF handled.status = "forwarded"
          THEN /\ Moves(q, "waiting")
               /\ sent' = [sent EXCEPT ![q] = handled]
               /\ heard' = [heard EXCEPT ![q] = Listens(q)]
          ELSE Ends(q, handled.status) /\ UNCHANGED heard

Ask(q) ==
  /\ pc[q] = "waiting"
  /\ SocketFree(q)
  /\ Moves(q, "asked")
  /\ UNCHANGED <<sent, heard>>

Responds(q) ==
  /\ pc[q] = "asked"
  /\ Moves(q, "streaming")
  /\ UNCHANGED <<sent, heard>>

\* Mutant: the listener stays.
StillHeard(q) == UNCHANGED heard

\* res.off in the finally of forward.
Unheard(q) == heard' = [heard EXCEPT ![q] = FALSE]

\* The backend refuses or says nothing for PROXY_TIMEOUT_MS: an error answer.
TimesOut(q) ==
  /\ pc[q] = "asked"
  /\ Ends(q, "error")
  /\ Unheard(q)

\* The stream ends or breaks off; for a client who is gone it ends at once.
StreamEnds(q) ==
  /\ pc[q] = "streaming"
  /\ Ends(q, IF gone[q] = None THEN "streamed" ELSE "nobody")
  /\ Unheard(q)

\* onClientClose aborts the request to the backend.
ClientLeaves(q) ==
  /\ pc[q] # "end" /\ gone[q] = None
  /\ gone' = [gone EXCEPT ![q] = pc[q]]
  /\ IF heard[q]
       THEN /\ pc' = [pc EXCEPT ![q] = "end"]
            /\ answer' = [answer EXCEPT ![q] = "nobody"]
            /\ Unheard(q)
       ELSE UNCHANGED <<pc, answer, heard>>
  /\ UNCHANGED <<input, sent>>

-----------------------------------------------------------------------------
Init ==
  /\ pc = [q \in Requests |-> "authenticate"]
  /\ input \in Inputs
  /\ sent = [q \in Requests |-> Refused("nothing")]
  /\ heard = [q \in Requests |-> FALSE]
  /\ gone = [q \in Requests |-> None]
  /\ answer = [q \in Requests |-> "nothing"]

Gateway(q) ==
  Authenticate(q) \/ Enforce(q) \/ Ask(q) \/ TimesOut(q)

Next == \E q \in Requests : Gateway(q) \/ Responds(q) \/ StreamEnds(q) \/ ClientLeaves(q)

Spec == Init /\ [][Next]_vars

\* The gateway goes on, its timeouts fire and a stream for nobody ends.  A
\* backend may be silent, or stream for ever.
FairSpec ==
  /\ Spec
  /\ \A q \in Requests : SF_vars(Gateway(q)) /\ WF_vars(gone[q] # None /\ StreamEnds(q))

-----------------------------------------------------------------------------
(* Properties                                                              *)

\* Every variable has its type; nobody listens for a request that is not
\* forwarded, or not any more.
TypeOK ==
  /\ pc \in [Requests -> Places]
  /\ input \in Inputs
  /\ heard \in [Requests -> BOOLEAN]
  /\ \A q \in Requests : heard[q] => pc[q] \in {"waiting", "asked", "streaming"}
  /\ gone \in [Requests -> Places \cup {None}]
  /\ answer \in [Requests ->
       {"nothing", "unauthorized", "forbidden", "invalid", "error", "streamed", "nobody"}]

IsForwarded(q) == sent[q].status = "forwarded"
OfOneTenant(q) == IsForwarded(q) /\ ~Admin(input[q].user)

\* What OpenSearch is asked for a user of a tenant tells nothing about documents
\* of another, wherever in the body aggregations are, whatever they count
\* (opensearch-tenant.service.ts:8-30).
AnswersStayInTenant ==
  \A q \in Requests : OfOneTenant(q) =>
    \A i \in DOMAIN sent[q].searches : \A d \in Told(sent[q].searches[i], sent[q].index) :
      TenantOf[d] = TenantFor(input[q].user)

\* The filter takes away nothing else: each search, in its place, matches what
\* it matched among the documents of the tenant.
OwnDocumentsStay ==
  \A q \in Requests : OfOneTenant(q) /\ sent[q].searches # <<>> =>
    /\ Len(sent[q].searches) = Len(input[q].searches)
    /\ \A i \in DOMAIN sent[q].searches, d \in Docs :
         TenantOf[d] = TenantFor(input[q].user) =>
           (d \in sent[q].searches[i].query <=> d \in input[q].searches[i].query)

\* The path VictoriaMetrics sees, after its URL is normalized, names the one
\* account of the user and no admin endpoint (safe-path.ts:3-14).
PathKeepsItsAccount ==
  \A q \in Requests : IsForwarded(q) /\ input[q].backend = "victoriametrics" =>
    /\ IsPrefix(PrefixFor(input[q].user), Normalized(sent[q].path))
    /\ Len(sent[q].path) > 5 => sent[q].path[6] # "admin"
    /\ OfOneTenant(q) =>
         LET accounts == input[q].user.accounts
         IN {accounts[i] : i \in Named(accounts)} = {sent[q].path[2]}

\* A client who leaves once the request is forwarded ends it, though it still
\* waits for a socket that a stream without end may hold, and though its backend
\* is silent (http-proxy.service.ts:37 "If the client disconnects, the backend
\* request is aborted").
LeavingEndsIt ==
  \A q \in Requests : gone[q] \in {"waiting", "asked", "streaming"} ~> pc[q] = "end"
=============================================================================
