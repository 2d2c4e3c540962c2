-------------------------- MODULE MCUpstreamHealth --------------------------
(* Instances of UpstreamHealth for model checking.                         *)
EXTENDS UpstreamHealth

CONSTANTS ip1, ip2, svc

MCAddress == {ip1, ip2}
MCHost == {svc}

Entry(disc, eps, chk, out) ==
    [discovery |-> disc, endpoints |-> eps, check |-> chk, outlier |-> out]

\* A list of addresses, one name looked up again and again, and a name next
\* to an address that it may also resolve to.
MCConfig ==
    {Entry("static", <<ip1, ip2>>, "on", "on"),
     Entry("strict", <<svc>>, "on", "on"),
     Entry("strict", <<ip1, svc>>, "broken", "on"),
     Entry("logical", <<svc>>, "off", "off")}

MCZoneAnswer == {<<>>, <<ip1>>, <<ip2, ip1>>}

\* An address that may be ejected, and a name that gains and loses another
\* address while its endpoints are probed.
LiveConfig == {Entry("static", <<ip1>>, "off", "on"), Entry("strict", <<svc>>, "on", "off")}
LiveZoneAnswer == {<<ip1>>, <<ip2, ip1>>}

=============================================================================
