----------------------------- MODULE ReadService -----------------------------
(***************************************************************************)
(* The read API in the process that serves it.  The lifespan of the        *)
(* application wires the token authentication and the client of vtaskforge *)
(* if VFOBS_VTASKFORGE_URL is set; uvicorn lets requests in, waits for     *)
(* those that are there when it is told to stop, and then runs the second  *)
(* half of the lifespan.  A crash ends a process at any moment; the next   *)
(* one, perhaps configured otherwise, starts with an empty token cache.    *)
(***************************************************************************)
EXTENDS ReadAuth

VARIABLES phase,        \* "down", "serving" or "stopping"
          configured,   \* settings.vtaskforge_url is not None
          wired,        \* app.state.read_auth is not None
          client,       \* app.state.vtf_client: "none", "open" or "closed"
          ready         \* the last probe of /readyz was answered with 200

appVars == <<phase, configured, wired, client, ready>>
serviceVars == <<vars, appVars>>

ServiceInit ==
    /\ Init
    /\ phase = "down"
    /\ configured = FALSE /\ wired = FALSE /\ client = "none"
    /\ ready = FALSE

-----------------------------------------------------------------------------
(* The process. *)

\* A wrong variant of Start: read_auth is wired outside the condition.
StartWiresAlways ==
    /\ phase = "down"
    /\ phase' = "serving"
    /\ configured' \in BOOLEAN
    /\ wired' = TRUE
    /\ client' = IF configured' THEN "open" ELSE "none"
    /\ UNCHANGED <<vars, ready>>

\* create_app, and the lifespan up to its yield.
Start ==
    /\ phase = "down"
    /\ phase' = "serving"
    /\ configured' \in BOOLEAN
    /\ wired' = configured'
    /\ client' = IF configured' THEN "open" ELSE "none"
    /\ UNCHANGED <<vars, ready>>

\* readyz asks the database, which may be away, and nothing else.
Readyz ==
    /\ phase = "serving"
    /\ ready' \in BOOLEAN
    /\ UNCHANGED <<vars, phase, configured, wired, client>>

\* SIGTERM: uvicorn lets no request in any more.
StopSignal ==
    /\ phase = "serving"
    /\ phase' = "stopping"
    /\ UNCHANGED <<vars, configured, wired, client, ready>>

\* What a process has in memory ends with it: application, cache, requests.
MemoryLost ==
    /\ cache' = [t \in Tokens |-> Never]
    /\ pc' = [r \in Requests |-> "idle"]
    /\ now' = [r \in Requests |-> 0]
    /\ configured' = FALSE /\ wired' = FALSE /\ client' = "none"
    /\ ready' = FALSE
    /\ UNCHANGED <<clock, valid, lastValid, token>>

\* uvicorn has sent every answer.
Drained == \A r \in Requests : pc[r] = "idle"

\* The lifespan after its yield: the client is closed.
CloseClient ==
    /\ phase = "stopping"
    /\ Drained
    /\ client = "open"
    /\ client' = "closed"
    /\ UNCHANGED <<vars, phase, configured, wired, ready>>

\* The engine is disposed of, or aclose has raised; the process ends.
Exit ==
    /\ phase = "stopping"
    /\ Drained
    /\ client # "open"
    /\ phase' = "down"
    /\ MemoryLost

Crash ==
    /\ phase # "down"
    /\ phase' = "down"
    /\ MemoryLost

-----------------------------------------------------------------------------
(* The requests. *)

\* get_read_principal without a read_auth: 503.
Unavailable(r) ==
    /\ pc[r] = "idle"
    /\ ~wired
    /\ pc' = [pc EXCEPT ![r] = "unavailable"]
    /\ UNCHANGED <<clock, valid, lastValid, cache, token, now>>

Admit(r) ==
    /\ phase = "serving"
    /\ \/ wired /\ Arrive(r)
       \/ Unavailable(r)
    /\ UNCHANGED appVars

\* A request that was let in goes on while the process stops.
Proceed(r) == (Judge(r) \/ Answered(r) \/ NextRequest(r)) /\ UNCHANGED appVars

ServiceNext ==
    \/ Start \/ Readyz \/ StopSignal \/ CloseClient \/ Exit \/ Crash
    \/ Environment /\ UNCHANGED appVars
    \/ \E r \in Requests : Admit(r) \/ Proceed(r)

\* The call of vtaskforge is answered or times out (vtaskforge_timeout_seconds
\* of the httpx client); handlers return; uvicorn and the lifespan go on.
Fairness ==
    /\ \A r \in Requests :
          /\ WF_serviceVars(Answered(r) /\ UNCHANGED appVars)
          /\ WF_serviceVars(NextRequest(r) /\ UNCHANGED appVars)
    /\ WF_serviceVars(CloseClient)
    /\ WF_serviceVars(Exit)

ServiceSpec == ServiceInit /\ [][ServiceNext]_serviceVars /\ Fairness

-----------------------------------------------------------------------------
\* A request that is being authenticated or served has an open client: the
\* lifespan closes it only behind the last answer, whatever vtaskforge does
\* to the requests that wait for it.
NoUseAfterClose ==
    \A r \in Requests :
        pc[r] \in {"asking", "granted", "denied", "accepted"} =>
            wired /\ client = "open"

\* A process that was told to stop does so, even if vtaskforge never answers
\* the requests it is waiting for.
StopCompletes == phase = "stopping" ~> phase = "down"

\* config.py: "an unconfigured prod app fails to start"; main.py: "/readyz
\* asserts read_auth is wired".  Either would keep a process without
\* VFOBS_VTASKFORGE_URL from being ready.
ReadyMeansConfigured == ready => configured
=============================================================================
