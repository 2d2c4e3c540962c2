--------------------------- MODULE AtomicReload ---------------------------
(***************************************************************************)
(* What a runtime promises its operator about configuration changes.  One  *)
(* durable configuration survives a crash and one live configuration       *)
(* serves traffic.  A reload first commits an intact artifact that keeps   *)
(* the boot-time fields of the live one, then makes it live; at most one   *)
(* reload is between the two, and a restart completes it.                  *)
(***************************************************************************)
CONSTANTS Artifact, WellFormed, Fingerprint

VARIABLES durable, live

Init == durable \in WellFormed /\ live = durable

Commit(a) ==
    /\ live = durable
    /\ a \in WellFormed
    /\ Fingerprint[a] = Fingerprint[live]
    /\ durable' = a
    /\ UNCHANGED live

GoLive ==
    /\ live' = durable
    /\ UNCHANGED durable

Next == (\E a \in Artifact : Commit(a)) \/ GoLive

Spec == Init /\ [][Next]_<<durable, live>>

===========================================================================
