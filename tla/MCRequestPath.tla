---------------------------- MODULE MCRequestPath ----------------------------
(* Instances of RequestPath for model checking.                            *)
EXTENDS RequestPath

Route(m, n, on, sz) ==
    [method |-> m, retry |-> "on", max |-> n, nonIdempotent |-> "no", onStreaming |-> on,
     limit |-> 1, size |-> sz,
     reasons |-> {"status_code", "connect_error", "read_timeout", "pool_full"}]

Limits(max, cap, conns, waiting) ==
    [pool |-> max, queue |-> cap, queueTimeout |-> "positive",
     connections |-> conns, pending |-> waiting]

\* Without a breaker, a pool without a queue and one where both requests may
\* have to queue; a breaker of one beside a larger pool; and one of two, with
\* room enough for both requests to wait for a second permit.
MCUpstream == {Limits(1, 0, 0, 0), Limits(2, 1, 0, 0), Limits(2, 1, 1, 1), Limits(4, 0, 2, 2)}
Narrow == {Limits(2, 1, 1, 1)}

\* A route without retries, one with, and a request whose body exceeds the
\* limit and that may not be retried for its method.
MCPlan ==
    {[method |-> "idempotent", retry |-> "off", max |-> 0, nonIdempotent |-> "no",
      onStreaming |-> "go on", limit |-> 0, size |-> 0, reasons |-> {}],
     Route("idempotent", 3, "go on", 1), Route("idempotent", 2, "fail", 2),
     Route("other", 2, "fail", 2)}

=============================================================================
