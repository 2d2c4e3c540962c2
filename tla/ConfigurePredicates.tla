-------------------------- MODULE ConfigurePredicates --------------------------
(* What the predicate trees of a compiled configuration must say.           *)
EXTENDS Configure, Predicates

(* What a predicate tree says of a request.                                 *)
RECURSIVE Holds(_, _, _)
Holds(p, q, known) ==
    CASE p.kind = "true" -> TRUE
      [] p.kind = "false" -> FALSE
      [] p.kind = "method" -> ToUppercase(q.method) \in Range(p.methods)
      [] p.kind = "header" ->
             matches_header_predicate([name |-> p.name,
                 matcher |-> [kind |-> p.matcher, value |-> p.value]], q.headers, known)
      [] p.kind = "not" -> ~Holds(p.child, q, known)
      [] p.kind = "and" -> \A i \in DOMAIN p.children : Holds(p.children[i], q, known)
      [] p.kind = "or" -> \E i \in DOMAIN p.children : Holds(p.children[i], q, known)

(* The conditions of a route of a document and of its compiled form, and    *)
(* the tree that says the same, twice over and under two negations.         *)
MethodTree(m) ==
    IF m.methods # None THEN [kind |-> "methods", methods |-> m.methods]
    ELSE IF m.method # None THEN [kind |-> "method", method |-> m.method]
    ELSE True
Negated(p) == [kind |-> "not", child |-> p]
RouteTree(m, headers) ==
    Node("and", <<m, Node("or", <<headers, False, Node("or", <<headers>>)>>), True,
                  Negated(Negated(Node("and", <<m, headers>>)))>>)

(* An absent header becomes a present one.                                  *)
AsPresent(p) ==
    IF p.matcher.kind = "absent" THEN [p EXCEPT !.matcher.kind = "present"] ELSE p

(* predicates.rs and core/runtime/matcher.rs: the tree the codec makes of a *)
(* route's methods and headers, in its canonical form, decides as the       *)
(* router does, except that "absent" means "present"; and the canonical     *)
(* form of a canonical tree is itself.                                      *)
PredicatesAgree ==
    stage = "compiled" =>
        LET limits == config.features.regex_limits
            known == [regex_cache |-> collect_patterns(config.routes),
                      regex_limits |-> limits]
        IN  \A i \in DOMAIN config.routes : \A j \in DOMAIN config.routes[i].paths :
                LET dto == OrElse(artifact.doc.routes[i].paths[j].matcher, default_matcher)
                    m == config.routes[i].paths[j].matcher
                    method == to_core(MethodTree(dto), limits)
                    headers == desugar_p0_headers(OrElse(dto.headers, <<>>), limits)
                    tree == RouteTree(method.node, headers.node)
                IN  Err \notin {method, headers} =>
                      /\ normalize(normalize(tree)) = normalize(tree)
                      /\ \A q \in Request :
                            Holds(normalize(tree), q, known)
                              = (/\ matches_method(m.method, q.method)
                                 /\ matches_headers(MapSeq(m.headers, AsPresent),
                                                    q.headers, known))
==============================================================================
