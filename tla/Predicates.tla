------------------------------ MODULE Predicates ------------------------------
(***************************************************************************)
(* Predicate trees: what the codec makes of method and header conditions    *)
(* (convert/predicates.rs) and their canonical form (core/runtime/          *)
(* matcher.rs).  The library offers them; the router evaluates a route's    *)
(* method and headers directly.                                             *)
(*                                                                         *)
(* A node is a record with a kind; Exact(m) of a method is the list <<m>>.  *)
(***************************************************************************)
EXTENDS CodecRoutes, Router

True == [kind |-> "true"]
False == [kind |-> "false"]
Node(kind, children) == [kind |-> kind, children |-> children]
MethodNode(methods) == [kind |-> "method", methods |-> methods]
HeaderNode(kind, name, value) ==
    [kind |-> "header", matcher |-> kind, name |-> name, value |-> value]

HeaderCost(matcher) ==
    IF matcher \in {"exact", "present"} THEN 1 ELSE IF matcher = "prefix" THEN 2 ELSE 10

RECURSIVE cost(_)
cost(p) ==
    CASE p.kind \in {"true", "false"} -> 0
      [] p.kind = "method" -> 1
      [] p.kind = "header" -> HeaderCost(p.matcher)
      [] p.kind = "not" -> cost(p.child)
      [] OTHER -> LET sum == FoldLeft(LAMBDA n, c : n + cost(c), 0, p.children)
                  IN  IF sum < 255 THEN sum ELSE 255

(* Vec::sort_by_key is stable, Vec::dedup drops repetitions in a row.       *)
InsertByCost(s, p) ==
    LET k == Cardinality({i \in DOMAIN s : cost(s[i]) <= cost(p)})
    IN  SubSeq(s, 1, k) \o <<p>> \o SubSeq(s, k + 1, Len(s))
SortByCost(s) == FoldLeft(InsertByCost, <<>>, s)
Dedup(s) == FoldLeft(LAMBDA t, p : IF t # <<>> /\ Last(t) = p THEN t ELSE Append(t, p),
                     <<>>, s)

Flatten(kind, children) ==
    FlattenSeq(MapSeq(children, LAMBDA p : IF p.kind = kind THEN p.children ELSE <<p>>))

(* The steps after the children are normalised.                             *)
Canonical(kind, absorbing, identity, children) ==
    LET flattened == Flatten(kind, children)
        kept == Dedup(SortByCost(SelectSeq(flattened, LAMBDA p : p # identity)))
    IN  IF Contains(flattened, absorbing) THEN absorbing
        ELSE IF kept = <<>> THEN identity
        ELSE IF Len(kept) = 1 THEN Head(kept)
        ELSE Node(kind, kept)

normalize_and(children) == Canonical("and", False, True, children)
normalize_or(children) == Canonical("or", True, False, children)
(* Of two negations one is dropped.                                         *)
normalize_not_once(child) ==
    CASE child = True -> False
      [] child = False -> True
      [] child.kind = "not" -> child
      [] OTHER -> [kind |-> "not", child |-> child]

normalize_not(child) ==
    CASE child = True -> False
      [] child = False -> True
      [] child.kind = "not" -> child.child
      [] OTHER -> [kind |-> "not", child |-> child]

RECURSIVE normalize(_)
normalize(p) ==
    CASE p.kind = "and" -> normalize_and(MapSeq(p.children, normalize))
      [] p.kind = "or" -> normalize_or(MapSeq(p.children, normalize))
      [] p.kind = "not" -> normalize_not(normalize(p.child))
      [] OTHER -> p

--------------------------------------------------------------------------
(* predicates.rs.  A converted node comes with a flag, whether it used more *)
(* than the first format had.                                               *)
Core(node, advanced) == [node |-> node, advanced |-> advanced]

predicate_method(m) ==
    IF ToUppercase(m) \in HttpMethod THEN ToUppercase(m) ELSE Err
predicate_header_name(name) == name \notin {"", "x env"}
validate_header_value(value) == ~Contains(value, "\n")

(* HeaderMatcherDTO::to_core.  Absent becomes Present.                      *)
header_to_core(h, limits) ==
    IF \/ ~predicate_header_name(h.name)
       \/ h.operator \in {"exact", "prefix"} /\ ~validate_header_value(h.value)
       \/ h.operator = "regex" /\ Len(h.value) > limits.pattern_max_bytes
    THEN Err
    ELSE Core(IF h.operator \in {"present", "absent"}
              THEN HeaderNode("present", ToLowercase(h.name), None)
              ELSE HeaderNode(h.operator, ToLowercase(h.name), h.value),
              h.operator \in {"prefix", "regex", "absent"})

(* One header of the first format.  A prefix's value is not checked.        *)
legacy_to_core(p, limits) ==
    IF \/ ~predicate_header_name(p.name)
       \/ Cardinality({f \in {"regex", "prefix", "absent"} : p[f]}) > 1
       \/ p.absent /\ p.value # None
       \/ (p.regex \/ p.prefix) /\ p.value = None
    THEN Err
    ELSE IF p.prefix
    THEN Core(HeaderNode("prefix", ToLowercase(p.name), p.value), TRUE)
    ELSE header_to_core([name |-> p.name, value |-> p.value,
                         operator |-> CASE p.absent -> "absent"
                                        [] p.regex -> "regex"
                                        [] p.value # None -> "exact"
                                        [] OTHER -> "present"], limits)

desugar_p0_headers(headers, limits) ==
    LET found == MapSeq(headers, LAMBDA p :
                     IF "operator" \in DOMAIN p THEN header_to_core(p, limits)
                     ELSE legacy_to_core(p, limits))
        nodes == MapSeq(found, LAMBDA f : f.node)
    IN  IF Contains(found, Err) THEN Err
        ELSE IF headers = <<>> THEN Core(True, FALSE)
        ELSE Core(IF Len(nodes) = 1 THEN Head(nodes) ELSE Node("and", nodes),
                  \E i \in DOMAIN found : found[i].advanced)

methods_to_core(methods) ==
    LET parsed == MapSeq(methods, predicate_method)
    IN  IF parsed = <<>> \/ Contains(parsed, Err) THEN Err
        ELSE Core(MethodNode(parsed), FALSE)

RECURSIVE to_core_recursive(_, _)
to_core_recursive(p, limits) ==
    CASE p.kind \in {"true", "false"} -> Core(p, FALSE)
      [] p.kind = "method" -> methods_to_core(<<p.method>>)
      [] p.kind = "methods" -> methods_to_core(p.methods)
      [] p.kind = "header" -> header_to_core(p.matcher, limits)
      [] p.kind = "not" ->
             LET child == to_core_recursive(p.child, limits)
             IN  IF child = Err THEN Err
                 ELSE Core([kind |-> "not", child |-> child.node], TRUE)
      [] OTHER ->
             LET found == MapSeq(p.children, LAMBDA q : to_core_recursive(q, limits))
             IN  IF found = <<>> \/ Contains(found, Err) THEN Err
                 ELSE Core(Node(p.kind, MapSeq(found, LAMBDA f : f.node)),
                           \/ p.kind = "or" \/ Len(found) > 1
                           \/ \E i \in DOMAIN found : found[i].advanced)

to_core(p, limits) ==
    LET found == to_core_recursive(p, limits)
    IN  IF found = Err THEN Err ELSE Core(normalize(found.node), found.advanced)
==============================================================================
