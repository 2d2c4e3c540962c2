----------------------------- MODULE MCProcess -----------------------------
(* Instances of Process for model checking: five boots, each with the inputs *)
(* that matter for the services it starts.                                  *)
EXTENDS Process

CONSTANTS k1, k2, k3

Off == [enabled |-> "no", endpoint |-> "", sampling |-> 0]
On(endp, rate) == [enabled |-> "yes", endpoint |-> endp, sampling |-> rate]

MCPolicies == {Off, On("a", 100), On("b", 50), On("bad", 100)}
MCPoolKey == {k1, k2, k3}

C(log, m, adm, t, routes) ==
    [log |-> log, metrics |-> m, admin |-> adm, tracing |-> t, routes |-> routes]

Logged == C("File", "Enabled", "Disabled", Off, {"/a"})
Counted == C("Disabled", "Enabled", "Disabled", Off, {"/a"})
Served == C("Disabled", "Enabled", "Enabled", Off, {"/a"})
Traced == C("Disabled", "Enabled", "Disabled", On("a", 100), {"/a"})
TracedLate == C("Stdout", "Disabled", "Disabled", On("bad", 100), {"/a"})

MCBoot == {Logged, Counted, Served, Traced, TracedLate}
MCUpdates ==
    {Served, [Traced EXCEPT !.tracing = On("b", 50)],
     [TracedLate EXCEPT !.log = "Disabled"],
     [TracedLate EXCEPT !.tracing = On("b", 50), !.routes = {"/b"}]}

Bound(r, a, u, c, t, f, s) ==
    [request |-> r, attempt |-> a, update |-> u, conn |-> c, tick |-> t, failure |-> f, stop |-> s]
MCBounds ==
    [b \in MCBoot |->
        CASE b = Logged -> Bound(3, 0, 0, 0, 0, 1, 1)
          [] b = Counted -> Bound(1, 5, 0, 0, 2, 0, 0)
          [] b = Served -> Bound(0, 0, 1, 2, 0, 0, 1)
          [] b = Traced -> Bound(2, 0, 1, 0, 0, 0, 1)
          [] OTHER -> Bound(1, 0, 2, 0, 0, 0, 1)]

=============================================================================
