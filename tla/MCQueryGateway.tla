--------------------------- MODULE MCQueryGateway ---------------------------
EXTENDS QueryGateway

UserOf(roles, groups, accounts) == [roles |-> roles, groups |-> groups, accounts |-> accounts]

Viewer == UserOf({"viewer"}, <<"", "acme">>, <<"1">>)
PlatformAdmin == UserOf({"platform-admin"}, <<>>, <<>>)
Users ==
  {Viewer, PlatformAdmin,
   UserOf({"tenant-admin"}, <<"globex">>, <<"2", "", "1">>),
   UserOf({"viewer"}, <<"acme", "globex">>, <<"x">>),
   UserOf({"viewer"}, <<"acme">>, <<"x">>),
   UserOf({"viewer", "platform-admin"}, <<"acme">>, <<"1">>),
   UserOf({"agent"}, <<"acme">>, <<"1">>)}

MCDocs == {"a", "g", "n", "m"}
MCTenantOf == [d \in MCDocs |-> CASE d = "a" -> "acme" [] d = "g" -> "globex" [] d = "n" -> None [] d = "m" -> "globex"]
MCIndexOf == [d \in MCDocs |-> IF d = "m" THEN "metrics" ELSE "otel-logs"]

Plain == [valid |-> TRUE, user |-> Viewer, backend |-> "opensearch", method |-> "POST", path |-> <<"otel-logs", "_search">>,
          params |-> FALSE, parses |-> TRUE, searches |-> <<[query |-> {"a", "g"}, suggest |-> FALSE, aggs |-> {}]>>]

Keys == {<<"aggs">>, <<"aggregations">>, <<"aggs", "aggregations">>, <<"aggregations", "aggs">>}
Aggregations == [keys : Keys, type : {"avg", "global", "terms"}, min : {0, 1}]
Searches == [query : {{}, MCDocs}, suggest : BOOLEAN, aggs : {{}} \cup {{n} : n \in Aggregations}]
ClientPaths ==
  {<<"otel-logs", "_search">>, <<"_search">>, <<"metrics", "_search">>, <<"_msearch">>, <<"otel-logs", "_msearch">>, <<"otel-logs", "_mapping">>,
   <<"_resolve", "index", "x">>, <<"_cat">>, <<"otel-logs", "..", "metrics", "_search">>, <<"a/b", "_search">>, <<>>}
ApiPaths ==
  {<<"api", "v1", "query">>, <<"api", "v1", "admin", "tsdb">>, <<"api", "v2">>, <<"api", "v1", ".", "query">>,
   <<"api", "v1", "x", "..", "admin", "tsdb">>,
   <<"api", "v1", "..", "..", "..", "..", "multitenant", "prometheus", "api", "v1", "query">>}

OpenSearchInputs ==
  {[Plain EXCEPT !.user = u, !.path = p] : u \in Users, p \in ClientPaths}
  \cup {[Plain EXCEPT !.params = TRUE, !.path = p] : p \in ClientPaths}
  \cup {[Plain EXCEPT !.searches = <<s>>] : s \in Searches}
  \cup {[Plain EXCEPT !.path = <<"_msearch">>, !.searches = <<s, t>>] : s \in {Plain.searches[1]}, t \in {s \in Searches : s.query # {}}}
  \cup {[Plain EXCEPT !.method = "DELETE"], [Plain EXCEPT !.parses = FALSE], [Plain EXCEPT !.valid = FALSE]}
VictoriaMetricsInputs ==
  {[Plain EXCEPT !.backend = "victoriametrics", !.user = u, !.path = p, !.searches = <<>>] : u \in Users, p \in ApiPaths}
  \cup {[Plain EXCEPT !.backend = "victoriametrics", !.method = "PUT"]}

\* The other request is an ordinary one for the same backend.
Query == [Plain EXCEPT !.backend = "victoriametrics", !.path = <<"api", "v1", "query">>, !.searches = <<>>]
MCInputs ==
  {[any |-> in, next |-> Plain] : in \in OpenSearchInputs}
  \cup {[any |-> in, next |-> Query] : in \in VictoriaMetricsInputs}
=============================================================================
