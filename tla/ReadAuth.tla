------------------------------ MODULE ReadAuth ------------------------------
(***************************************************************************)
(* Authentication of the read API: VtfTokenAuth asks vtaskforge whether a  *)
(* bearer token is valid and caches a yes for ttl_seconds under a hash of  *)
(* the token.  Requests are served concurrently on one event loop: a       *)
(* request stops at one await only, the call of vtaskforge, and time,      *)
(* other requests and revocations go on while it is there.                 *)
(***************************************************************************)
EXTENDS Integers

CONSTANTS Requests,     \* concurrent read requests, reused
          Tokens,       \* the tokens presented, one cache key each
          TTL,          \* ttl_seconds
          MaxTime       \* bound of the clock

ASSUME AuthAssumption ==
    /\ TTL \in Nat
    /\ MaxTime \in Nat

VARIABLES clock,        \* time.monotonic()
          valid,        \* valid[t]: vtaskforge accepts t now
          lastValid,    \* lastValid[t]: history, last time it did
          cache,        \* _cache[t]: time of the entry, Never if none
          pc,           \* pc[r]: how far request r has come, or its answer
          token,        \* token[r]: the token it carries
          now           \* now[r]: `now`, read before the await; 0 when idle

vars == <<clock, valid, lastValid, cache, pc, token, now>>

Never == -1

Init ==
    /\ clock = 0
    /\ valid \in [Tokens -> BOOLEAN]
    /\ lastValid = [t \in Tokens |-> IF valid[t] THEN 0 ELSE Never]
    /\ cache = [t \in Tokens |-> Never]
    /\ pc = [r \in Requests |-> "idle"]
    /\ token \in [Requests -> Tokens]
    /\ now = [r \in Requests |-> 0]

-----------------------------------------------------------------------------
(* vtaskforge and time. *)

Tick ==
    /\ clock < MaxTime
    /\ clock' = clock + 1
    /\ lastValid' = [t \in Tokens |->
                        IF valid[t] THEN clock + 1 ELSE lastValid[t]]
    /\ UNCHANGED <<valid, cache, pc, token, now>>

\* A token is revoked, or its user deactivated.
Revoke(t) ==
    /\ valid[t]
    /\ valid' = [valid EXCEPT ![t] = FALSE]
    /\ UNCHANGED <<clock, lastValid, cache, pc, token, now>>

\* The user is activated again.
Restore(t) ==
    /\ ~valid[t]
    /\ valid' = [valid EXCEPT ![t] = TRUE]
    /\ lastValid' = [lastValid EXCEPT ![t] = clock]
    /\ UNCHANGED <<clock, cache, pc, token, now>>

-----------------------------------------------------------------------------
(* verify. *)

\* A wrong variant of Fresh: the entry of exactly ttl_seconds still counts.
FreshInclusive(t) == cache[t] # Never /\ clock - cache[t] <= TTL

\* The entry exists and is younger than ttl_seconds.
Fresh(t) == cache[t] # Never /\ clock - cache[t] < TTL

\* No bearer token: 401 at once.
Anonymous(r) ==
    /\ pc[r] = "idle"
    /\ pc' = [pc EXCEPT ![r] = "rejected"]
    /\ UNCHANGED <<clock, valid, lastValid, cache, token, now>>

\* A cache hit answers without an await.
Hit(r) ==
    /\ pc[r] = "idle"
    /\ Fresh(token[r])
    /\ pc' = [pc EXCEPT ![r] = "accepted"]
    /\ now' = [now EXCEPT ![r] = clock]
    /\ UNCHANGED <<clock, valid, lastValid, cache, token>>

\* A miss sends the token to vtaskforge.
Miss(r) ==
    /\ pc[r] = "idle"
    /\ ~Fresh(token[r])
    /\ pc' = [pc EXCEPT ![r] = "asking"]
    /\ now' = [now EXCEPT ![r] = clock]
    /\ UNCHANGED <<clock, valid, lastValid, cache, token>>

\* vtaskforge looks the token up; its answer travels back.
Judge(r) ==
    /\ pc[r] = "asking"
    /\ pc' = [pc EXCEPT ![r] = IF valid[token[r]] THEN "granted" ELSE "denied"]
    /\ UNCHANGED <<clock, valid, lastValid, cache, token, now>>

\* A wrong variant of Grant: the entry carries the time after the await.
GrantStampsLate(r) ==
    /\ pc[r] = "granted"
    /\ cache' = [cache EXCEPT ![token[r]] = clock]
    /\ pc' = [pc EXCEPT ![r] = "accepted"]
    /\ UNCHANGED <<clock, valid, lastValid, token, now>>

\* 200: the entry is stored with the time read before the call.
Grant(r) ==
    /\ pc[r] = "granted"
    /\ cache' = [cache EXCEPT ![token[r]] = now[r]]
    /\ pc' = [pc EXCEPT ![r] = "accepted"]
    /\ UNCHANGED <<clock, valid, lastValid, token, now>>

\* Any other status: VtfAuthError, 401.  The cache is left alone.
Deny(r) ==
    /\ pc[r] = "denied"
    /\ pc' = [pc EXCEPT ![r] = "rejected"]
    /\ UNCHANGED <<clock, valid, lastValid, cache, token, now>>

\* A wrong variant of Unreachable: a client without a timeout.
UnreachablePatient(r) ==
    /\ pc[r] \in {"granted", "denied"}
    /\ pc' = [pc EXCEPT ![r] = "rejected"]
    /\ UNCHANGED <<clock, valid, lastValid, cache, token, now>>

\* No connection, no answer in time, an answer that cannot be parsed: the
\* same 401, whatever vtaskforge thought of the token.
Unreachable(r) ==
    /\ pc[r] \in {"asking", "granted", "denied"}
    /\ pc' = [pc EXCEPT ![r] = "rejected"]
    /\ UNCHANGED <<clock, valid, lastValid, cache, token, now>>

\* The answer has gone out and another request comes, with any token.
NextRequest(r) ==
    /\ pc[r] \in {"accepted", "rejected", "unavailable"}
    /\ pc' = [pc EXCEPT ![r] = "idle"]
    /\ \E t \in Tokens : token' = [token EXCEPT ![r] = t]
    /\ now' = [now EXCEPT ![r] = 0]
    /\ UNCHANGED <<clock, valid, lastValid, cache>>

\* A request comes in; vtaskforge's answer, or none, ends its wait.
Arrive(r) == Anonymous(r) \/ Hit(r) \/ Miss(r)
Answered(r) == Grant(r) \/ Deny(r) \/ Unreachable(r)

Environment == Tick \/ \E t \in Tokens : Revoke(t) \/ Restore(t)

Next ==
    \/ Environment
    \/ \E r \in Requests :
          Arrive(r) \/ Judge(r) \/ Answered(r) \/ NextRequest(r)

Spec == Init /\ [][Next]_vars

-----------------------------------------------------------------------------
Times == 0 .. MaxTime
PCs == {"idle", "asking", "granted", "denied", "accepted", "rejected",
        "unavailable"}

TypeOK ==
    /\ clock \in Times
    /\ valid \in [Tokens -> BOOLEAN]
    /\ lastValid \in [Tokens -> Times \union {Never}]
    /\ cache \in [Tokens -> Times \union {Never}]
    /\ pc \in [Requests -> PCs]
    /\ token \in [Requests -> Tokens]
    /\ now \in [Requests -> Times]

\* A cache entry is never newer than the token's last moment of validity,
\* however many requests validate the same token at once, however long
\* vtaskforge takes to answer and whatever is revoked meanwhile.
EntryWasValid == \A t \in Tokens : cache[t] <= lastValid[t]

\* The window of trust: a request is let in only if vtaskforge held its token
\* valid less than ttl_seconds before the request came, or since.
AcceptedWithinTTL ==
    \A r \in Requests :
        pc[r] = "accepted" =>
            /\ lastValid[token[r]] # Never
            /\ \/ now[r] - lastValid[token[r]] < TTL
               \/ now[r] <= lastValid[token[r]]
=============================================================================
