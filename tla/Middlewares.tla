---------------------------- MODULE Middlewares ----------------------------
(***************************************************************************)
(* The middleware pipeline (middlewares/pipeline.py): in which order a     *)
(* request passes through, and which of them see an answer.                *)
(***************************************************************************)
EXTENDS Naturals, Sequences

\* The order of the request; the endpoint is innermost.
Pipeline == <<"TrustedHost", "CorrelationID", "LoggingContext", "Authentication",
              "RateLimit", "RequestSizeLimit", "Audit", "SecurityHeaders",
              "Prometheus", "Endpoint">>

\* <<m, n>>: m needs what n leaves in the request.
Dependencies == {<<"RateLimit", "Authentication">>, <<"Audit", "Authentication">>,
                 <<"LoggingContext", "CorrelationID">>}

Place(m) == CHOOSE i \in DOMAIN Pipeline : Pipeline[i] = m

\* validate_dependencies, which raises otherwise.
DependenciesHold == \A d \in Dependencies : Place(d[2]) < Place(d[1])

\* The answer of m passes through n only if n was entered before m.
Sees(n, m) == Place(n) < Place(m)
=============================================================================
