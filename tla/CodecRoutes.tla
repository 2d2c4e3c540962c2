------------------------------ MODULE CodecRoutes ------------------------------
(***************************************************************************)
(* The routing section of the serde codec: matchers, retry policies,        *)
(* rewrites and actions of the document become the runtime's virtual hosts  *)
(* (to_runtime) and are rendered back (from_runtime).                       *)
(***************************************************************************)
EXTENDS CodecUpstreams

CONSTANTS HeaderPatternMax    \* bytes of a header's regex (256), scaled

ASSUME PatternAssumption == HeaderPatternMax \in Nat

parse_http_method(m) ==
    IF ToUppercase(m) \in HttpMethod THEN ToUppercase(m) ELSE Err

--------------------------------------------------------------------------
(* semantic_validate.rs: header predicates.  The document writes them in    *)
(* two ways: an operator (v2), or the flags of the first format (v1).       *)
validate_header_name(name) == name \notin {"", "x env"}

CheckedPattern(pattern) ==
    IF Len(pattern) > HeaderPatternMax \/ ~RegexNew(pattern) THEN Err
    ELSE pattern

to_runtime_header_predicate_dto(p) ==
    IF ~validate_header_name(p.name) THEN Err
    ELSE Try([name |-> ToLowercase(p.name),
              matcher |->
                  CASE p.operator \in {"present", "absent"} ->
                           [kind |-> p.operator]
                    [] p.operator = "regex" ->
                           Try([kind |-> "regex",
                                value |-> CheckedPattern(p.value)])
                    [] OTHER -> [kind |-> p.operator, value |-> p.value]])

to_runtime_header_predicate_legacy(p) ==
    IF \/ ~validate_header_name(p.name)
       \/ p.absent /\ (p.value # None \/ p.regex \/ p.prefix)
       \/ ~p.absent /\ p.value = None /\ (p.regex \/ p.prefix)
       \/ p.regex /\ p.prefix
    THEN Err
    ELSE to_runtime_header_predicate_dto(
             [name |-> p.name, value |-> p.value,
              operator |-> CASE p.absent -> "absent"
                             [] p.value = None -> "present"
                             [] p.regex -> "regex"
                             [] p.prefix -> "prefix"
                             [] OTHER -> "exact"])

to_runtime_header_predicate(p) ==
    IF "operator" \in DOMAIN p THEN to_runtime_header_predicate_dto(p)
    ELSE to_runtime_header_predicate_legacy(p)

--------------------------------------------------------------------------
(* semantic_validate.rs: convert_retry_policy.  per_try is cut to 32 bits   *)
(* (`as u32`), not checked like every other duration.                       *)
convert_per_try(per_try, timeout) ==
    IF per_try = None THEN None
    ELSE LET ms == AsMillis(per_try) % (U32Max + 1)
         IN  IF ms > OrElse(timeout, 60000) THEN Err
             ELSE IF ms = 0 THEN 1 ELSE ms

convert_retry_policy(r, timeout) ==
    IF \/ r.max_attempts \notin 1 .. 10
       \/ \E x \in Range(r.retryable_reasons) : x \notin RetryReason
       \/ /\ Contains(r.retryable_reasons, "status_code")
          /\ r.retryable_status_codes \in {None, <<>>}
    THEN Err
    ELSE Try([r EXCEPT !.per_try = convert_per_try(r.per_try, timeout)])

--------------------------------------------------------------------------
(* materialize.rs and emit.rs *)
to_runtime_matcher(m) ==
    Try([path |-> m.path,
         method |->
             Try(IF m.methods # None
                 THEN [kind |-> "list",
                       methods |-> Try(MapSeq(m.methods, parse_http_method))]
                 ELSE IF m.method # None
                 THEN [kind |-> "specific",
                       method |-> parse_http_method(m.method)]
                 ELSE [kind |-> "any"]),
         headers |-> Try(MapSeq(OrElse(m.headers, <<>>),
                                to_runtime_header_predicate))])

to_runtime_headers(h) ==
    MapSome(h, LAMBDA o : [set_headers |-> o.set_headers,
                           append_headers |-> o.append_headers,
                           add_headers |-> o.add_headers,
                           remove_headers |-> o.remove_headers])

default_matcher ==
    [path |-> [kind |-> "prefix", path |-> <<"/">>],
     method |-> None, methods |-> None, headers |-> None]

ToDestination(d) ==
    Try([upstream |-> d.upstream, weight |-> NonZero(ToU16(d.weight))])

(* A document's action is told by its fields (serde untagged).              *)
ToAction(a) ==
    IF a.kind # "forward" THEN a
    ELSE Try([kind |-> "forward",
              destinations |-> Try(MapSeq(a.destinations, ToDestination))])

(* A path rewrite replaces what the matcher matched.                        *)
ToRewrite(w, m) ==
    IF w = None THEN [path |-> None, host |-> None]
    ELSE [path |-> MapSome(w.path, LAMBDA to : [from |-> m.path.path,
                                                to |-> to]),
          host |-> w.host]

ToPrincipal(p) ==
    IF p = None THEN [kind |-> "any"]
    ELSE IF p.kind = "prefix" /\ p.prefix = <<>> THEN Err
    ELSE p

ToRoute(p) ==
    LET m == OrElse(p.matcher, default_matcher)
        timeout == MapSome(p.timeout, duration_to_required)
    IN  IF timeout = Err THEN Err
        ELSE Try([matcher |-> to_runtime_matcher(m), timeout |-> timeout,
                  retry |-> MapSome(p.retry,
                                LAMBDA r : convert_retry_policy(r, timeout)),
                  request_headers |-> to_runtime_headers(p.request_headers),
                  response_headers |-> to_runtime_headers(p.response_headers),
                  rewrite |-> ToRewrite(p.rewrite, m),
                  action |-> ToAction(p.action),
                  principal |-> ToPrincipal(p.principal)])

routes_to_runtime(vs) ==
    Try(MapSeq(vs, LAMBDA v : Try([host |-> v.host,
                                   paths |-> Try(MapSeq(v.paths, ToRoute))])))

--------------------------------------------------------------------------
(* dto_adapter.rs.  Header predicates are always rendered the first way.    *)
from_runtime_header_predicate(p) ==
    [name |-> p.name,
     value |-> IF p.matcher.kind \in {"present", "absent"} THEN None
               ELSE p.matcher.value,
     regex |-> p.matcher.kind = "regex", prefix |-> p.matcher.kind = "prefix",
     absent |-> p.matcher.kind = "absent"]

(* A list is written under its own key, also a list of one method.          *)
from_runtime_method(p) == IF p.kind = "specific" THEN p.method ELSE None
from_runtime_methods(p) == IF p.kind = "list" THEN p.methods ELSE None

from_runtime_headers(h) ==
    MapSome(h, LAMBDA r : [set_headers |-> r.set_headers,
                           append_headers |-> r.append_headers,
                           add_headers |-> r.add_headers,
                           remove_headers |-> r.remove_headers])

FromMatcher(m) ==
    [path |-> m.path, method |-> from_runtime_method(m.method),
     methods |-> from_runtime_methods(m.method),
     headers |-> IF m.headers = <<>> THEN None
                 ELSE MapSeq(m.headers, from_runtime_header_predicate)]

FromRoute(r) ==
    [matcher |-> FromMatcher(r.matcher),
     timeout |-> MapSome(r.timeout, FromMillis),
     retry |-> MapSome(r.retry,
                   LAMBDA p : [p EXCEPT
                                 !.per_try = MapSome(p.per_try, FromMillis)]),
     request_headers |-> from_runtime_headers(r.request_headers),
     response_headers |-> from_runtime_headers(r.response_headers),
     rewrite |-> IF r.rewrite = [path |-> None, host |-> None] THEN None
                 ELSE [path |-> MapSome(r.rewrite.path, LAMBDA p : p.to),
                       host |-> r.rewrite.host],
     action |-> r.action,
     principal |-> IF r.principal.kind = "any" THEN None ELSE r.principal]

routes_from_runtime(vs) ==
    MapSeq(vs, LAMBDA v : [host |-> v.host,
                           paths |-> MapSeq(v.paths, FromRoute)])
==============================================================================
