---------------------------- MODULE RequestContext ----------------------------
(***************************************************************************)
(* What the proxy remembers of one request (proxy/context.rs): its id, the  *)
(* configuration it was routed by, what became of it, and the line of the   *)
(* access log made of all that (telemetry/access_log.rs).                   *)
(***************************************************************************)
EXTENDS Forwarding

CONSTANTS REQUEST_ID_MAX_LEN    \* bytes of a request id (48), scaled

(* RequestId: a buffer that drops what does not fit.                        *)
push_byte(id, b) == IF Len(id) >= REQUEST_ID_MAX_LEN THEN id ELSE Append(id, b)
push_bytes(id, bytes) ==
    IF Len(id) + Len(bytes) > REQUEST_ID_MAX_LEN THEN id ELSE id \o bytes

Digit == <<"0", "1", "2", "3", "4", "5", "6", "7", "8", "9">>
Digits[n \in Nat] ==
    IF n < 10 THEN <<Digit[n + 1]>> ELSE Append(Digits[n \div 10], Digit[(n % 10) + 1])
push_u128(id, value) == FoldLeft(push_byte, id, Digits[value])

from_parts(nanos, random) ==
    LET stamped == push_u128(push_bytes(<<>>, <<"r", "e", "q", "-">>), nanos)
    IN  push_u128(push_byte(stamped, "-"), random)

(* A clock before the epoch counts as the epoch.                            *)
request_id_timestamp(now) == IF now < 0 THEN 0 ELSE now
generate_request_id(now, random) == from_parts(request_id_timestamp(now), random)

--------------------------------------------------------------------------
(* RouterContext.  A route's pattern is its path, whatever its kind.        *)
RouterContext(request_id) ==
    [request_id |-> request_id, span |-> "disabled", runtime_state |-> None,
     client_identity |-> None, upstream_name |-> None, upstream_endpoint |-> None,
     request_headers |-> None, response_headers |-> None, sni_override |-> None,
     rbac_denied |-> FALSE, route_timeout |-> None, retry_policy |-> None,
     upstream_timing |-> "not started", route_pattern |-> None,
     rewritten_uri |-> None, rewritten_host |-> None]

attach_runtime(ctx, state, traced) ==
    [ctx EXCEPT !.runtime_state = state, !.span = IF traced THEN "active" ELSE @]

route_path(route) == route.matcher.path.path
record_route(ctx, route) == [ctx EXCEPT !.route_pattern = route_path(route)]
mark_rbac_denied(ctx) == [ctx EXCEPT !.rbac_denied = TRUE]
set_rewritten(ctx, uri, host) ==
    [ctx EXCEPT !.rewritten_uri = uri, !.rewritten_host = host]
set_upstream(ctx, name) == [ctx EXCEPT !.upstream_name = name]
set_endpoint(ctx, address) == [ctx EXCEPT !.upstream_endpoint = address]
start_upstream(ctx) == [ctx EXCEPT !.upstream_timing = "started"]

Label(name) == IF name = None THEN "-" ELSE name
RouteLabel(pattern) == IF pattern = None THEN <<"-">> ELSE pattern

--------------------------------------------------------------------------
(* AccessLog::log.  The lengths of time are left out, not whether there is  *)
(* one.                                                                     *)
LogEnabled(ctx) == ctx.runtime_state.config.telemetry.access_log.kind # "disabled"

LogEntry(req, status, ctx) ==
    [method |-> req.method, path |-> req.path,
     host |-> IF req.host = None THEN <<"-">> ELSE req.host,
     status |-> status, upstream |-> Label(ctx.upstream_name),
     request_id |-> ctx.request_id, rbac_denied |-> ctx.rbac_denied,
     route_pattern |-> RouteLabel(ctx.route_pattern),
     upstream_duration |-> ctx.upstream_timing = "started"]
==============================================================================
