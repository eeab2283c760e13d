------------------------- MODULE QueryGatewayProofs -------------------------
(***************************************************************************)
(* What the query gateway asks OpenSearch, for any documents, tenants,     *)
(* requests and bodies.                                                    *)
(***************************************************************************)
EXTENDS QueryGateway, SequenceTheorems, FiniteSetTheorems, WellFoundedInduction, TLAPS

(* checkAggregations comes to every aggregation, however deep.             *)
LEMMA AllVisited ==
  ASSUME NEW aggs \in SUBSET Aggregation
  PROVE  Visited(aggs) = aggs
  <1> SUFFICES ASSUME NEW n \in aggs PROVE Range(n.keys) \subseteq Followed
    BY DEF Visited
  <1>1. n.keys \in Seq({"aggs", "aggregations"})
    BY DEF Aggregation
  <1>2. \A i \in DOMAIN n.keys : n.keys[i] \in {"aggs", "aggregations"}
    BY <1>1
  <1> QED BY <1>2 DEF Range, Followed

(* A search that is let through and filtered tells about its tenant only.  *)
LEMMA FilteredStays ==
  ASSUME NEW s \in Search, ~Escapes(s), NEW tenant, NEW index
  PROVE  \A d \in Told(Filtered(s, tenant), index) : TenantOf[d] = tenant
  <1> DEFINE f == Filtered(s, tenant)
  <1>1. s.aggs \in SUBSET Aggregation /\ Visited(s.aggs) = s.aggs
    BY AllVisited DEF Search
  <1>2. f.suggest = FALSE /\ f.query = WithFilter(s.query, tenant) /\ f.aggs = Clamped(s.aggs)
    BY DEF Search, Filtered, Escapes
  <1>3. ASSUME NEW n \in s.aggs
        PROVE  n.type \notin ForbiddenAggregations
    BY <1>1, <1>3 DEF Escapes
  <1>4. ASSUME NEW m \in f.aggs
        PROVE  m.type \notin ForbiddenAggregations
               /\ ~(m.type \in EnumeratingAggregations /\ m.min = 0)
    <2>1. PICK n \in s.aggs :
            m = IF n \in Visited(s.aggs) /\ n.type \in EnumeratingAggregations /\ n.min = 0
                  THEN [n EXCEPT !.min = 1] ELSE n
      BY <1>2, <1>4 DEF Clamped
    <2>2. n \in Aggregation
      BY <1>1
    <2>3. m.type = n.type
      BY <2>1, <2>2 DEF Aggregation
    <2>4. CASE n.type \in EnumeratingAggregations /\ n.min = 0
      <3>1. m = [n EXCEPT !.min = 1]
        BY <1>1, <2>1, <2>4
      <3>2. m.min = 1
        BY <2>2, <3>1 DEF Aggregation
      <3> QED BY <1>3, <2>3, <3>2
    <2>5. CASE ~(n.type \in EnumeratingAggregations /\ n.min = 0)
      BY <1>3, <2>1, <2>5
    <2> QED BY <2>4, <2>5
  <1>5. Told(f, index) = f.query \cap index
    BY <1>2, <1>4 DEF Told
  <1> QED BY <1>2, <1>5 DEF WithFilter

(* The filter takes away no document of the tenant, and brings none.       *)
LEMMA FilteredKeeps ==
  ASSUME NEW s \in Search, NEW tenant, NEW d \in Docs, TenantOf[d] = tenant
  PROVE  d \in Filtered(s, tenant).query <=> d \in s.query
  BY DEF Search, Filtered, WithFilter

(* What is forwarded for a user of a tenant is a rewritten body, or none.  *)
LEMMA HandledOfOneTenant ==
  ASSUME NEW in \in Input, ~Admin(in.user), Handled(in).status = "forwarded"
  PROVE  \/ Handled(in).searches = <<>>
         \/ /\ \A i \in DOMAIN in.searches : ~Escapes(in.searches[i])
            /\ Handled(in).searches =
                 [i \in DOMAIN in.searches |-> Filtered(in.searches[i], TenantFor(in.user))]
  <1>1. CASE in.backend = "opensearch"
    <2>1. Handled(in) = OpenSearch(in)
      BY <1>1 DEF Handled
    <2>2. \/ OpenSearch(in).searches = <<>>
          \/ OpenSearch(in) = Rewritten(in, TenantFor(in.user))
      BY DEF OpenSearch, Refused, Forwarded
    <2>3. CASE OpenSearch(in) = Rewritten(in, TenantFor(in.user))
      BY <2>1, <2>3 DEF Rewritten, Refused, Forwarded
    <2> QED BY <2>1, <2>2, <2>3
  <1>2. CASE in.backend # "opensearch"
    <2>1. Handled(in) = VictoriaMetrics(in)
      BY <1>2 DEF Handled
    <2>2. VictoriaMetrics(in).searches = <<>>
      BY DEF VictoriaMetrics, Refused, Forwarded
    <2> QED BY <2>1, <2>2
  <1> QED BY <1>1, <1>2

-----------------------------------------------------------------------------
(* What is forwarded follows from what was asked; both properties follow.  *)
SentIsHandled ==
  /\ input \in Inputs
  /\ sent \in [Requests -> {sent[q] : q \in Requests}]
  /\ \A q \in Requests : sent[q] = Refused("nothing")
       \/ (sent[q] = Handled(input[q]) /\ Handled(input[q]).status = "forwarded")

LEMMA InitSent == Init => SentIsHandled
  BY DEF Init, SentIsHandled

LEMMA NextSent == SentIsHandled /\ [Next]_vars => SentIsHandled'
  <1> SUFFICES ASSUME SentIsHandled, [Next]_vars PROVE SentIsHandled'
    OBVIOUS
  <1>1. CASE UNCHANGED <<input, sent>>
    BY <1>1 DEF SentIsHandled
  <1>2. ASSUME NEW q \in Requests, Enforce(q) PROVE SentIsHandled'
    <2>1. CASE Handled(input[q]).status = "forwarded"
      <3>1. input' = input /\ sent' = [sent EXCEPT ![q] = Handled(input[q])]
        BY <1>2, <2>1 DEF Enforce, Moves
      <3> HIDE DEF Handled
      <3> QED BY <2>1, <3>1 DEF SentIsHandled
    <2>2. CASE Handled(input[q]).status # "forwarded"
      BY <1>1, <1>2, <2>2 DEF Enforce, Ends
    <2> QED BY <2>1, <2>2
  <1>3. ASSUME NEW q \in Requests, Authenticate(q) PROVE SentIsHandled'
    BY <1>1, <1>3 DEF Authenticate, Moves, Ends
  <1>4. ASSUME NEW q \in Requests, Ask(q) \/ TimesOut(q) PROVE SentIsHandled'
    BY <1>1, <1>4 DEF Ask, TimesOut, Moves, Ends
  <1>5. ASSUME NEW q \in Requests, Responds(q) \/ StreamEnds(q) PROVE SentIsHandled'
    BY <1>1, <1>5 DEF Responds, StreamEnds, Moves, Ends
  <1>6. ASSUME NEW q \in Requests, ClientLeaves(q) PROVE SentIsHandled'
    BY <1>1, <1>6 DEF ClientLeaves
  <1>7. CASE UNCHANGED vars
    BY <1>1, <1>7 DEF vars
  <1> QED BY <1>2, <1>3, <1>4, <1>5, <1>6, <1>7 DEF Next, Gateway

LEMMA SentOfOneTenant ==
  ASSUME SentIsHandled, NEW q \in Requests, OfOneTenant(q), sent[q].searches # <<>>
  PROVE  /\ input[q].searches \in Seq(Search)
         /\ \A i \in DOMAIN input[q].searches : ~Escapes(input[q].searches[i])
         /\ sent[q].searches = [i \in DOMAIN input[q].searches |->
                                 Filtered(input[q].searches[i], TenantFor(input[q].user))]
  <1>1. input[q] \in Input
    BY GatewayAssumption DEF SentIsHandled
  <1>2. sent[q] = Handled(input[q]) /\ Handled(input[q]).status = "forwarded"
    BY DEF SentIsHandled, OfOneTenant, IsForwarded, Refused
  <1>3. ~Admin(input[q].user)
    BY DEF OfOneTenant
  <1>4. input[q].searches \in Seq(Search)
    BY <1>1 DEF Input
  <1> HIDE DEF Handled
  <1> QED BY <1>1, <1>2, <1>3, <1>4, HandledOfOneTenant

LEMMA SentStays == SentIsHandled => AnswersStayInTenant
  <1> SUFFICES ASSUME SentIsHandled, NEW q \in Requests, OfOneTenant(q),
                      NEW i \in DOMAIN sent[q].searches,
                      NEW d \in Told(sent[q].searches[i], sent[q].index)
               PROVE  TenantOf[d] = TenantFor(input[q].user)
    BY DEF AnswersStayInTenant
  <1>1. sent[q].searches # <<>>
    OBVIOUS
  <1> DEFINE s == input[q].searches[i]
  <1>2. i \in DOMAIN input[q].searches /\ s \in Search /\ ~Escapes(s)
    <2>1. input[q].searches \in Seq(Search)
      BY <1>1, SentOfOneTenant
    <2>2. DOMAIN sent[q].searches = DOMAIN input[q].searches
      BY <1>1, SentOfOneTenant
    <2>3. ~Escapes(s)
      BY <1>1, <2>2, SentOfOneTenant
    <2> QED BY <2>1, <2>2, <2>3
  <1>3. sent[q].searches[i] = Filtered(s, TenantFor(input[q].user))
    BY <1>1, <1>2, SentOfOneTenant
  <1> QED BY <1>2, <1>3, FilteredStays

LEMMA SentKeeps == SentIsHandled => OwnDocumentsStay
  <1> SUFFICES ASSUME SentIsHandled, NEW q \in Requests, OfOneTenant(q), sent[q].searches # <<>>
               PROVE  /\ Len(sent[q].searches) = Len(input[q].searches)
                      /\ \A i \in DOMAIN sent[q].searches, d \in Docs :
                           TenantOf[d] = TenantFor(input[q].user) =>
                             (d \in sent[q].searches[i].query <=> d \in input[q].searches[i].query)
    BY DEF OwnDocumentsStay
  <1>1. input[q].searches \in Seq(Search) /\ DOMAIN sent[q].searches = 1..Len(input[q].searches)
    <2>1. input[q].searches \in Seq(Search)
      BY SentOfOneTenant
    <2>2. DOMAIN sent[q].searches = DOMAIN input[q].searches
      BY SentOfOneTenant
    <2> QED BY <2>1, <2>2
  <1>2. Len(input[q].searches) \in Nat
    BY <1>1
  <1>3. Len(sent[q].searches) = Len(input[q].searches)
    BY <1>1, <1>2, SentOfOneTenant
  <1>4. ASSUME NEW i \in DOMAIN sent[q].searches, NEW d \in Docs,
               TenantOf[d] = TenantFor(input[q].user)
        PROVE  d \in sent[q].searches[i].query <=> d \in input[q].searches[i].query
    <2>1. input[q].searches[i] \in Search
      BY <1>1, <1>4
    <2>2. sent[q].searches[i] = Filtered(input[q].searches[i], TenantFor(input[q].user))
      BY <1>1, <1>4, SentOfOneTenant
    <2> QED BY <1>4, <2>1, <2>2, FilteredKeeps
  <1> QED BY <1>3, <1>4

-----------------------------------------------------------------------------
\* What OpenSearch is asked for a user of a tenant tells about no document of
\* another, for any requests under way at the same time
\* (opensearch-tenant.service.ts:8-30).
THEOREM GatewayKeepsTenantsApart == Spec => []AnswersStayInTenant
  BY SentStays, InitSent, NextSent, PTL DEF Spec

\* The tenant filter leaves out no document of the tenant's own that matches what
\* the user asked for (opensearch-tenant.service.ts:8-30).
THEOREM GatewayKeepsOwnDocuments == Spec => []OwnDocumentsStay
  BY SentKeeps, InitSent, NextSent, PTL DEF Spec

-----------------------------------------------------------------------------
(* Types                                                                   *)

\* A refusal has one of three statuses.
LEMMA HandledStatus ==
  ASSUME NEW in
  PROVE  Handled(in).status \in {"forwarded", "forbidden", "invalid", "error"}
  <1>1. OpenSearch(in).status \in {"forwarded", "forbidden", "invalid"}
    <2>1. Rewritten(in, TenantFor(in.user)).status \in {"forwarded", "forbidden"}
      BY DEF Rewritten, Refused, Forwarded
    <2> QED BY <2>1 DEF OpenSearch, Refused, Forwarded
  <1>2. VictoriaMetrics(in).status \in {"forwarded", "forbidden", "error"}
    BY DEF VictoriaMetrics, Refused, Forwarded
  <1> QED BY <1>1, <1>2 DEF Handled

\* What a request's own steps change is of its type; others rest.
LEMMA RequestMoves ==
  ASSUME TypeOK, NEW q \in Requests, UNCHANGED input,
         NEW p \in Places, pc' = pc \/ pc' = [pc EXCEPT ![q] = p],
         NEW h \in BOOLEAN, heard' = heard \/ heard' = [heard EXCEPT ![q] = h],
         NEW g \in Places, gone' = gone \/ gone' = [gone EXCEPT ![q] = g],
         NEW a \in {"unauthorized", "forbidden", "invalid", "error", "streamed", "nobody"},
         answer' = answer \/ answer' = [answer EXCEPT ![q] = a],
         heard'[q] => pc'[q] \in {"waiting", "asked", "streaming"}
  PROVE  TypeOK'
  BY DEF TypeOK

\* Every variable has its type, and the gateway listens for the end of no
\* connection whose request is not forwarded yet or is over: forward takes its
\* listener away in each way it can end (http-proxy.service.ts:78-132).
THEOREM TypeCorrect == Spec => []TypeOK
  <1>1. Init => TypeOK
    BY DEF Init, TypeOK, Places
  <1>2. ASSUME TypeOK, NEW q \in Requests, Authenticate(q)
        PROVE  TypeOK'
    BY <1>2, RequestMoves DEF Authenticate, Moves, Ends, TypeOK, Places
  <1>3. ASSUME TypeOK, NEW q \in Requests, Enforce(q)
        PROVE  TypeOK'
    <2> DEFINE handled == Handled(input[q])
    <2>1. handled.status \in {"forwarded", "forbidden", "invalid", "error"}
      BY HandledStatus
    <2>2. /\ pc[q] = "enforce"
          /\ IF handled.status = "forwarded"
               THEN Moves(q, "waiting") /\ heard' = [heard EXCEPT ![q] = Listens(q)]
               ELSE Ends(q, handled.status) /\ UNCHANGED heard
      BY <1>3 DEF Enforce
    <2> HIDE DEF handled
    <2> QED BY <1>3, <2>1, <2>2, RequestMoves DEF Moves, Ends, Listens, TypeOK, Places
  <1>4. ASSUME TypeOK, NEW q \in Requests, Ask(q) \/ Responds(q)
        PROVE  TypeOK'
    BY <1>4, RequestMoves DEF Ask, Responds, Moves, TypeOK, Places
  <1>5. ASSUME TypeOK, NEW q \in Requests, TimesOut(q) \/ StreamEnds(q)
        PROVE  TypeOK'
    BY <1>5, RequestMoves DEF TimesOut, StreamEnds, Ends, Unheard, TypeOK, Places
  <1>6. ASSUME TypeOK, NEW q \in Requests, ClientLeaves(q)
        PROVE  TypeOK'
    BY <1>6, RequestMoves DEF ClientLeaves, Unheard, TypeOK, Places
  <1>7. TypeOK /\ UNCHANGED vars => TypeOK'
    BY DEF TypeOK, vars
  <1>8. TypeOK /\ [Next]_vars => TypeOK'
    BY <1>2, <1>3, <1>4, <1>5, <1>6, <1>7 DEF Next, Gateway
  <1> QED BY <1>1, <1>8, PTL DEF Spec

-----------------------------------------------------------------------------
(* Paths                                                                   *)

\* A set with 0 and, with each number, the next, holds all numbers up to n: the
\* least one it does not hold would follow one that it holds.
LEMMA UpTo ==
  ASSUME NEW n \in Nat, NEW S, 0 \in S, \A i \in 1..n : i - 1 \in S => i \in S
  PROVE  0..n \subseteq S
  <1> DEFINE Bad == (0..n) \ S
  <1>1. SUFFICES ASSUME Bad # {} PROVE FALSE
    OBVIOUS
  <1>2. PICK x \in Bad : \A y \in Bad : ~(<<y, x>> \in OpToRel(<, Nat))
    <2>1. IsWellFoundedOn(OpToRel(<, Nat), Nat)
      BY NatLessThanWellFounded
    <2>2. Bad \subseteq Nat
      OBVIOUS
    <2> QED BY <1>1, <2>1, <2>2, WFMin, Zenon
  <1>3. x \in 1..n /\ x - 1 \in 0..n
    OBVIOUS
  <1>4. <<x - 1, x>> \in OpToRel(<, Nat)
    BY <1>3 DEF OpToRel
  <1>5. x - 1 \notin Bad
    BY <1>2, <1>4
  <1> QED BY <1>3, <1>5

(* The URL parser leaves a path alone that assertSafeRelativePath lets by.  *)
LEMMA SafePathsRest ==
  ASSUME NEW S, NEW path \in Seq(S), SafePath(path)
  PROVE  Normalized(path) = path
  <1> DEFINE n == Len(path)
             Step(f, i) ==
               CASE i = 0 -> <<>>
                 [] i > 0 /\ path[i] = ".." -> SubSeq(f[i - 1], 1, Len(f[i - 1]) - 1)
                 [] i > 0 /\ path[i] = "." -> f[i - 1]
                 [] OTHER -> Append(f[i - 1], path[i])
             done == CHOOSE f : f = [i \in 0..n |-> Step(f, i)]
             read == [i \in 0..n |-> SubSeq(path, 1, i)]
  <1>1. n \in Nat /\ DOMAIN path = 1..n
    OBVIOUS
  <1>2. \A i \in 1..n : path[i] \notin {".", ".."}
    BY <1>1 DEF SafePath, Range
  <1>3. Normalized(path) = done[n]
    BY DEF Normalized
  <1>4. read[0] = <<>>
    BY <1>1
  <1>5. \A i \in 1..n : read[i] = Append(read[i - 1], path[i])
    <2> TAKE i \in 1..n
    <2>1. read[i] = SubSeq(path, 1, i) /\ read[i - 1] = SubSeq(path, 1, i - 1)
      BY <1>1
    <2>2. SubSeq(path, 1, i) = Append(SubSeq(path, 1, i - 1), path[i])
      OBVIOUS
    <2> HIDE DEF read
    <2> QED BY <2>1, <2>2
  <1>6. \A f : /\ Step(f, 0) = <<>>
               /\ \A i \in 1..n : Step(f, i) = Append(f[i - 1], path[i])
    BY <1>1, <1>2
  <1>7. read = [i \in 0..n |-> Step(read, i)]
    <2>1. \A i \in 0..n : read[i] = Step(read, i)
      <3> TAKE i \in 0..n
      <3>1. i = 0 \/ i \in 1..n
        BY <1>1
      <3> HIDE DEF Step, read
      <3> QED BY <1>4, <1>5, <1>6, <3>1
    <2> HIDE DEF Step
    <2> QED BY <2>1
  <1>8. done = [i \in 0..n |-> Step(done, i)]
    <2>1. \E f : f = [i \in 0..n |-> Step(f, i)]
      BY <1>7
    <2> HIDE DEF Step
    <2> QED BY <2>1
  <1>9. 0..n \subseteq {i \in 0..n : done[i] = read[i]}
    <2> DEFINE Same == {i \in 0..n : done[i] = read[i]}
    <2>1. \A i \in 0..n : done[i] = Step(done, i)
      <3> HIDE DEF Step
      <3> QED BY <1>8
    <2> HIDE DEF Step, read, done
    <2>2. 0 \in Same
      BY <1>1, <1>4, <1>6, <2>1
    <2>3. ASSUME NEW i \in 1..n, i - 1 \in Same PROVE i \in Same
      <3>1. i \in 0..n /\ done[i - 1] = read[i - 1]
        BY <1>1, <2>3
      <3>2. done[i] = Append(done[i - 1], path[i])
        BY <1>6, <2>1, <3>1
      <3> QED BY <1>5, <3>1, <3>2
    <2> HIDE DEF Same
    <2>4. 0..n \subseteq Same
      BY <1>1, <2>2, <2>3, UpTo
    <2> QED BY <2>4 DEF Same
  <1>10. done[n] = read[n]
    <2>1. n \in 0..n
      BY <1>1
    <2> HIDE DEF n, done, read
    <2> QED BY <1>9, <2>1
  <1>11. read[n] = path
    BY <1>1
  <1> QED BY <1>3, <1>10, <1>11

(* Where exactly one name is not blank, it is the one that is taken.        *)
LEMMA OneIsTaken ==
  ASSUME NEW names \in Seq(STRING), OneNamed(names)
  PROVE  TheName(names) \in STRING /\ {names[i] : i \in Named(names)} = {TheName(names)}
  <1>1. IsFiniteSet(Named(names))
    <2>1. IsFiniteSet(1..Len(names))
      BY FS_Interval
    <2>2. DOMAIN names = 1..Len(names)
      OBVIOUS
    <2>3. Named(names) \subseteq 1..Len(names)
      BY <2>2 DEF Named
    <2> QED BY <2>1, <2>3, FS_Subset
  <1>2. PICK i : Named(names) = {i}
    BY <1>1, FS_Singleton DEF OneNamed
  <1>3. TheName(names) = names[i]
    BY <1>2 DEF TheName
  <1>4. names[i] \in STRING
    <2>1. i \in DOMAIN names
      BY <1>2 DEF Named
    <2> QED BY <2>1
  <1> QED BY <1>2, <1>3, <1>4

(* A path that is forwarded to VictoriaMetrics keeps the place it was given. *)
LEMMA HandledPath ==
  ASSUME NEW in \in Input, in.backend = "victoriametrics", Handled(in).status = "forwarded"
  PROVE  /\ Handled(in).path = <<"select", Selected(in.user), "prometheus">> \o in.path
         /\ IsPrefix(PrefixFor(in.user), Normalized(Handled(in).path))
         /\ IsPrefix(<<"api", "v1">>, in.path) /\ ~IsPrefix(<<"api", "v1", "admin">>, in.path)
         /\ Selected(in.user) # None
  <1> DEFINE path == <<"select", Selected(in.user), "prometheus">> \o in.path
  <1>1. Handled(in) = VictoriaMetrics(in)
    BY DEF Handled
  <1>2. /\ Handled(in).path = Normalized(path)
        /\ IsPrefix(<<"api", "v1">>, in.path) /\ ~IsPrefix(<<"api", "v1", "admin">>, in.path)
        /\ Selected(in.user) # None /\ Numeric(Selected(in.user))
        /\ Resolvable(path, PrefixFor(in.user))
    <2> HIDE DEF path
    <2>1. VictoriaMetrics(in).status = "forwarded"
      BY <1>1
    <2> QED BY <1>1, <2>1 DEF VictoriaMetrics, Refused, Forwarded, path
  <1> DEFINE Segments == STRING \cup {"select", Selected(in.user), "prometheus"}
  <1>3. path \in Seq(Segments)
    <2>1. in.path \in Seq(STRING)
      BY DEF Input
    <2>2. \A i \in DOMAIN in.path : in.path[i] \in Segments
      BY <2>1
    <2>3. in.path \in Seq(Segments)
      BY <2>1, <2>2
    <2>4. \A account : <<"select", account, "prometheus">> \in Seq({"select", account, "prometheus"} \cup STRING)
      OBVIOUS
    <2>5. <<"select", Selected(in.user), "prometheus">> \in Seq(Segments)
      BY <2>4, Zenon
    <2> HIDE DEF Segments
    <2> QED BY <2>3, <2>5, ConcatProperties
  <1>4. Normalized(path) = path
    BY <1>2, <1>3, SafePathsRest DEF Resolvable
  <1> HIDE DEF path
  <1>5. Normalized(Handled(in).path) = path
    BY <1>2, <1>4
  <1> QED BY <1>2, <1>4, <1>5 DEF path, Resolvable

(* Only the account of the user is put into the path of a user of a tenant. *)
LEMMA SelectedAccount ==
  ASSUME NEW in \in Input, ~Admin(in.user), Selected(in.user) # None
  PROVE  {in.user.accounts[i] : i \in Named(in.user.accounts)} = {Selected(in.user)}
  <1>1. Selected(in.user) = AccountOf(in.user)
    BY DEF Selected
  <1>2. OneNamed(in.user.accounts) /\ Selected(in.user) = TheName(in.user.accounts)
    BY <1>1 DEF AccountOf
  <1>3. in.user.accounts \in Seq(STRING)
    BY DEF Input, User
  <1> QED BY <1>2, <1>3, OneIsTaken

LEMMA SentKeepsAccount == SentIsHandled => PathKeepsItsAccount
  <1> SUFFICES ASSUME SentIsHandled, NEW q \in Requests, IsForwarded(q),
                      input[q].backend = "victoriametrics"
               PROVE  /\ IsPrefix(PrefixFor(input[q].user), Normalized(sent[q].path))
                      /\ Len(sent[q].path) > 5 => sent[q].path[6] # "admin"
                      /\ OfOneTenant(q) =>
                           LET accounts == input[q].user.accounts
                           IN {accounts[i] : i \in Named(accounts)} = {sent[q].path[2]}
    BY DEF PathKeepsItsAccount
  <1>1. PICK in \in Input : in = input[q]
    BY GatewayAssumption DEF SentIsHandled
  <1>2. sent[q] = Handled(in) /\ Handled(in).status = "forwarded"
    BY <1>1 DEF SentIsHandled, IsForwarded, Refused
  <1> HIDE DEF Handled
  <1>3. /\ sent[q].path = <<"select", Selected(in.user), "prometheus">> \o in.path
        /\ IsPrefix(PrefixFor(in.user), Normalized(sent[q].path))
        /\ IsPrefix(<<"api", "v1">>, in.path) /\ ~IsPrefix(<<"api", "v1", "admin">>, in.path)
        /\ Selected(in.user) # None
    BY <1>1, <1>2, HandledPath
  <1>4. in.path \in Seq(STRING)
    BY DEF Input
  <1>5. /\ Len(sent[q].path) = Len(in.path) + 3
        /\ sent[q].path[2] = Selected(in.user)
        /\ \A i \in 1..Len(in.path) : sent[q].path[i + 3] = in.path[i]
    BY <1>3, <1>4
  <1>6. Len(in.path) > 2 => in.path[3] # "admin"
    <2> SUFFICES ASSUME Len(in.path) > 2, in.path[3] = "admin" PROVE FALSE
      OBVIOUS
    <2>1. in.path[1] = "api" /\ in.path[2] = "v1"
      BY <1>3, <1>4 DEF IsPrefix
    <2>2. Len(<<"api", "v1", "admin">>) <= Len(in.path)
      BY <1>4
    <2>3. SubSeq(<<"api", "v1", "admin">>, 1, 3) = SubSeq(in.path, 1, 3)
      BY <1>4, <2>1
    <2> QED BY <1>3, <2>2, <2>3 DEF IsPrefix
  <1>7. Len(sent[q].path) > 5 => sent[q].path[6] # "admin"
    BY <1>4, <1>5, <1>6
  <1>8. OfOneTenant(q) => {in.user.accounts[i] : i \in Named(in.user.accounts)} = {sent[q].path[2]}
    BY <1>1, <1>3, <1>5, SelectedAccount DEF OfOneTenant
  <1> QED BY <1>1, <1>3, <1>7, <1>8

\* The path VictoriaMetrics sees, after the HTTP client has normalized it once
\* more, is under the one account of the user and reaches no admin endpoint,
\* whatever segments the client sends (safe-path.ts:3-14, 47-61).
THEOREM PathsKeepTheirAccount == Spec => []PathKeepsItsAccount
  BY SentKeepsAccount, InitSent, NextSent, PTL DEF Spec
=============================================================================
