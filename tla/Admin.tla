------------------------------- MODULE Admin -------------------------------
(***************************************************************************)
(* The two small HTTP servers of the process: the admin API (admin.rs),    *)
(* which handles one connection at a time between two looks at the         *)
(* shutdown signal, and the Prometheus endpoint (telemetry/metrics.rs),    *)
(* which spawns a task for each.                                           *)
(*                                                                         *)
(* What a client does is a kind: "line" sends a request line, "bad" one    *)
(* above the limit or none before it hangs up, "silent" nothing, and       *)
(* stays.  What an answer says is left out: every answer reads the state   *)
(* once and changes nothing.  Connections are numbered in the order in     *)
(* which they arrive.                                                      *)
(***************************************************************************)
EXTENDS Integers

CONSTANT MaxConn        \* bound: connections

VARIABLES
    admin,      \* the admin API: "idle", "busy" or "stopped"
    endpoint,   \* the metrics endpoint: "idle" or "stopped"
    conn        \* each connection

Conn == 1..MaxConn

adminVars == <<admin, endpoint, conn>>

Kinds == {"line", "bad", "silent"}
Servers == {"admin", "metrics"}
NoConn == [at |-> "none", to |-> "admin", kind |-> "silent"]

\* Each listens when it is enabled (the endpoint: when the recorder could be
\* installed) and its address could be bound.
AdminInit(config, recorder) ==
    /\ admin \in IF config = "Enabled" THEN {"idle", "stopped"} ELSE {"stopped"}
    /\ endpoint \in IF recorder = "on" THEN {"idle", "stopped"} ELSE {"stopped"}
    /\ conn = [k \in Conn |-> NoConn]

-----------------------------------------------------------------------------
Connect(k, to, kind) ==
    /\ conn[k].at = "none" /\ \A j \in 1..k-1 : conn[j].at # "none"
    /\ IF to = "admin" THEN admin # "stopped" ELSE endpoint # "stopped"
    /\ conn' = [conn EXCEPT ![k] = [at |-> "waiting", to |-> to, kind |-> kind]]
    /\ UNCHANGED <<admin, endpoint>>

\* The connection is dropped, answered or not.
Close(k) == conn' = [conn EXCEPT ![k] = [NoConn EXCEPT !.at = "done"]]

-----------------------------------------------------------------------------
(* AdminApiWorker.                                                         *)

AcceptAdmin(k) ==
    /\ admin = "idle" /\ conn[k].to = "admin" /\ conn[k].at = "waiting"
    /\ admin' = "busy"
    /\ conn' = [conn EXCEPT ![k].at = "reading"]
    /\ UNCHANGED endpoint

\* handle_request answers a line; a failed read is logged.
AnswerAdmin(k) ==
    /\ admin = "busy" /\ conn[k].to = "admin" /\ conn[k].at = "reading"
    /\ conn[k].kind # "silent"
    /\ admin' = "idle"
    /\ Close(k)
    /\ UNCHANGED endpoint

\* Bug: the read waits for a line.
ReadTimesOutNever(k) ==
    /\ admin = "busy" /\ conn[k].to = "admin" /\ conn[k].at = "reading"
    /\ conn[k].kind # "silent"
    /\ admin' = "idle" /\ Close(k)
    /\ UNCHANGED endpoint

\* ADMIN_READ_TIMEOUT passes before a line has arrived.
ReadTimesOut(k) ==
    /\ admin = "busy" /\ conn[k].to = "admin" /\ conn[k].at = "reading"
    /\ admin' = "idle" /\ Close(k)
    /\ UNCHANGED endpoint

StopAdmin ==
    /\ admin = "idle"
    /\ admin' = "stopped"
    /\ UNCHANGED <<endpoint, conn>>

-----------------------------------------------------------------------------
(* PrometheusEndpoint and serve_metrics.                                   *)

AcceptMetrics(k) ==
    /\ endpoint = "idle" /\ conn[k].to = "metrics" /\ conn[k].at = "waiting"
    /\ conn' = [conn EXCEPT ![k].at = "reading"]
    /\ UNCHANGED <<admin, endpoint>>

\* The path is not looked at: any complete request is answered, a bad one is not.
ServeMetrics(k) ==
    /\ conn[k].to = "metrics" /\ conn[k].at = "reading" /\ conn[k].kind # "silent"
    /\ Close(k)
    /\ UNCHANGED <<admin, endpoint>>

MetricsTimesOut(k) ==
    /\ conn[k].to = "metrics" /\ conn[k].at = "reading"
    /\ Close(k)
    /\ UNCHANGED <<admin, endpoint>>

StopEndpoint ==
    /\ endpoint = "idle"
    /\ endpoint' = "stopped"
    /\ UNCHANGED <<admin, conn>>

=============================================================================
