-------------------------- MODULE ReadServiceProofs --------------------------
(***************************************************************************)
(* The token cache in the process that serves: the window of trust and the *)
(* life of the client across starts, stops and crashes, for any number of  *)
(* requests and tokens, any ttl_seconds and any clock.                     *)
(***************************************************************************)
EXTENDS ReadService, TLAPS

(* The token cache on its own. *)

\* lastValid follows the clock while the token is valid, and a "yes" on its
\* way back was said no earlier than the time its request will be cached at.
HistoryInv ==
    /\ \A t \in Tokens :
          /\ lastValid[t] <= clock
          /\ valid[t] => lastValid[t] = clock
    /\ \A r \in Requests :
          /\ now[r] <= clock
          /\ pc[r] = "granted" => now[r] <= lastValid[token[r]]

AuthInv == TypeOK /\ HistoryInv /\ EntryWasValid /\ AcceptedWithinTTL

LEMMA AuthInvInit == Init => AuthInv
BY AuthAssumption
   DEF Init, AuthInv, TypeOK, Times, PCs, Never, HistoryInv, EntryWasValid,
       AcceptedWithinTTL

LEMMA AuthInvStep == ASSUME AuthInv, [Next]_vars PROVE AuthInv'
<1> USE AuthAssumption DEF Times, PCs, Never
<1> TypeOK
  BY DEF AuthInv
<1>1. CASE UNCHANGED vars
  BY <1>1 DEF vars, AuthInv, TypeOK, HistoryInv, EntryWasValid,
              AcceptedWithinTTL
<1>2. CASE Tick
  <2>1. TypeOK'
    BY <1>2 DEF Tick, TypeOK
  <2>2. \A t \in Tokens : lastValid[t] <= lastValid'[t]
    BY <1>2 DEF Tick, AuthInv, TypeOK, HistoryInv
  <2>3. HistoryInv'
    <3>1. \A t \in Tokens :
              lastValid'[t] <= clock' /\ (valid'[t] => lastValid'[t] = clock')
      BY <1>2 DEF Tick, AuthInv, TypeOK, HistoryInv
    <3>2. \A r \in Requests :
              /\ now'[r] <= clock'
              /\ pc'[r] = "granted" => now'[r] <= lastValid'[token'[r]]
      BY <1>2, <2>1, <2>2 DEF Tick, AuthInv, TypeOK, HistoryInv
    <3> QED
      BY <3>1, <3>2 DEF HistoryInv
  <2>4. EntryWasValid'
    BY <1>2, <2>1, <2>2 DEF Tick, AuthInv, TypeOK, EntryWasValid
  <2>5. AcceptedWithinTTL'
    BY <1>2, <2>1, <2>2 DEF Tick, AuthInv, TypeOK, AcceptedWithinTTL
  <2> QED
    BY <2>1, <2>3, <2>4, <2>5 DEF AuthInv
<1>3. ASSUME NEW t \in Tokens, Revoke(t) PROVE AuthInv'
  BY <1>3 DEF Revoke, AuthInv, TypeOK, HistoryInv, EntryWasValid,
              AcceptedWithinTTL
<1>4. ASSUME NEW t \in Tokens, Restore(t) PROVE AuthInv'
  <2>1. TypeOK'
    BY <1>4 DEF Restore, TypeOK
  <2>2. \A u \in Tokens : lastValid[u] <= lastValid'[u]
    BY <1>4 DEF Restore, AuthInv, TypeOK, HistoryInv
  <2>3. HistoryInv'
    BY <1>4, <2>1, <2>2 DEF Restore, AuthInv, TypeOK, HistoryInv
  <2>4. EntryWasValid'
    BY <1>4, <2>1, <2>2 DEF Restore, AuthInv, TypeOK, EntryWasValid
  <2>5. AcceptedWithinTTL'
    BY <1>4, <2>1, <2>2 DEF Restore, AuthInv, TypeOK, AcceptedWithinTTL
  <2> QED
    BY <2>1, <2>3, <2>4, <2>5 DEF AuthInv
<1>5. ASSUME NEW r \in Requests, Hit(r) PROVE AuthInv'
  <2>1. TypeOK'
    BY <1>5 DEF Hit, TypeOK
  <2>2. HistoryInv' /\ EntryWasValid'
    BY <1>5 DEF Hit, AuthInv, TypeOK, HistoryInv, EntryWasValid
  <2>3. AcceptedWithinTTL'
    BY <1>5 DEF Hit, Fresh, AuthInv, TypeOK, EntryWasValid, AcceptedWithinTTL
  <2> QED
    BY <2>1, <2>2, <2>3 DEF AuthInv
<1>6. ASSUME NEW r \in Requests, Grant(r) PROVE AuthInv'
  <2>1. TypeOK'
    BY <1>6 DEF Grant, TypeOK
  <2>2. HistoryInv' /\ EntryWasValid'
    BY <1>6 DEF Grant, AuthInv, TypeOK, HistoryInv, EntryWasValid
  <2>3. AcceptedWithinTTL'
    BY <1>6 DEF Grant, AuthInv, TypeOK, HistoryInv, AcceptedWithinTTL
  <2> QED
    BY <2>1, <2>2, <2>3 DEF AuthInv
<1>7. ASSUME NEW r \in Requests, Judge(r) PROVE AuthInv'
  BY <1>7 DEF Judge, AuthInv, TypeOK, HistoryInv, EntryWasValid,
              AcceptedWithinTTL
<1>8. ASSUME NEW r \in Requests,
             Anonymous(r) \/ Miss(r) \/ Deny(r) \/ Unreachable(r)
                \/ NextRequest(r)
      PROVE  AuthInv'
  <2> USE <1>8 DEF Anonymous, Miss, Deny, Unreachable, NextRequest
  <2>1. TypeOK'
    BY DEF TypeOK
  <2>2. HistoryInv' /\ EntryWasValid'
    BY DEF AuthInv, TypeOK, HistoryInv, EntryWasValid
  <2>3. AcceptedWithinTTL'
    BY DEF AuthInv, TypeOK, AcceptedWithinTTL
  <2> QED
    BY <2>1, <2>2, <2>3 DEF AuthInv
<1> QED
  BY <1>1, <1>2, <1>3, <1>4, <1>5, <1>6, <1>7, <1>8 
     DEF Next, Environment, Arrive, Answered

THEOREM AuthInvariance == Spec => []AuthInv
BY AuthInvInit, AuthInvStep, PTL DEF Spec

-----------------------------------------------------------------------------
\* Type correctness of verify's state.
THEOREM AuthTyping == Spec => []TypeOK
<1>1. AuthInv => TypeOK
  BY DEF AuthInv
<1> QED
  BY <1>1, AuthInvariance, PTL

\* No entry of VtfTokenAuth._cache claims a validity vtaskforge did not grant.
THEOREM CacheHonesty == Spec => []EntryWasValid
<1>1. AuthInv => EntryWasValid
  BY DEF AuthInv
<1> QED
  BY <1>1, AuthInvariance, PTL

\* verify returns a principal only for a token that was valid less than
\* ttl_seconds before the request came in, or later.
THEOREM TrustWindow == Spec => []AcceptedWithinTTL
<1>1. AuthInv => AcceptedWithinTTL
  BY DEF AuthInv
<1> QED
  BY <1>1, AuthInvariance, PTL

-----------------------------------------------------------------------------
(* The token cache in the process that serves. *)

ServiceTypeOK ==
    /\ phase \in {"down", "serving", "stopping"}
    /\ configured \in BOOLEAN
    /\ wired \in BOOLEAN
    /\ client \in {"none", "open", "closed"}
    /\ ready \in BOOLEAN

\* While a process serves, read_auth is wired exactly if there is an open
\* client; when it closes the client no request is left.
LifespanInv ==
    /\ phase = "serving" => (wired <=> client = "open")
    /\ phase = "serving" => client # "closed"
    /\ phase = "down" => \A r \in Requests : pc[r] = "idle"
    /\ client = "closed" => \A r \in Requests : pc[r] = "idle"

ServiceInv == AuthInv /\ ServiceTypeOK /\ LifespanInv /\ NoUseAfterClose

LEMMA ServiceInvInit == ServiceInit => ServiceInv
<1> SUFFICES ASSUME ServiceInit PROVE ServiceInv
  OBVIOUS
<1>1. AuthInv
  BY AuthInvInit DEF ServiceInit
<1>2. ServiceTypeOK /\ LifespanInv /\ NoUseAfterClose
  BY DEF ServiceInit, Init, ServiceTypeOK, LifespanInv, NoUseAfterClose
<1> QED
  BY <1>1, <1>2 DEF ServiceInv

\* The end of a process takes nothing from the authentication's invariant.
LEMMA MemoryLostInv ==
    ASSUME ServiceInv, MemoryLost, phase' = "down"
    PROVE  ServiceInv'
<1> USE DEF MemoryLost
<1>1. AuthInv'
  BY AuthAssumption DEF ServiceInv, AuthInv, TypeOK, Times, PCs, Never,
     HistoryInv, EntryWasValid, AcceptedWithinTTL
<1>2. ServiceTypeOK' /\ LifespanInv' /\ NoUseAfterClose'
  BY DEF ServiceInv, ServiceTypeOK, LifespanInv, NoUseAfterClose
<1> QED
  BY <1>1, <1>2 DEF ServiceInv

LEMMA ServiceInvStep ==
    ASSUME ServiceInv, [ServiceNext]_serviceVars PROVE ServiceInv'
<1> AuthInv /\ ServiceTypeOK /\ LifespanInv /\ NoUseAfterClose
  BY DEF ServiceInv
<1> USE DEF appVars
<1>1. ASSUME UNCHANGED vars, ServiceTypeOK', LifespanInv', NoUseAfterClose'
      PROVE  ServiceInv'
  BY <1>1, AuthInvStep DEF ServiceInv
<1>2. CASE Start
  BY <1>1, <1>2
     DEF Start, vars, ServiceTypeOK, LifespanInv, NoUseAfterClose
<1>3. CASE Readyz
  BY <1>1, <1>3
     DEF Readyz, vars, ServiceTypeOK, LifespanInv, NoUseAfterClose
<1>4. CASE StopSignal
  BY <1>1, <1>4
     DEF StopSignal, vars, ServiceTypeOK, LifespanInv, NoUseAfterClose
<1>5. CASE CloseClient
  BY <1>1, <1>5
     DEF CloseClient, Drained, vars, ServiceTypeOK, LifespanInv,
         NoUseAfterClose
<1>6. CASE Exit \/ Crash
  BY <1>6, MemoryLostInv DEF Exit, Crash
<1>7. CASE Environment /\ UNCHANGED appVars
  <2>1. AuthInv' /\ pc' = pc
    BY <1>7, AuthInvStep DEF Next, Environment, Tick, Revoke, Restore
  <2> QED
    BY <1>7, <2>1 DEF ServiceInv, ServiceTypeOK, LifespanInv, NoUseAfterClose
<1>8. ASSUME NEW r \in Requests, Admit(r) PROVE ServiceInv'
  <2>1. CASE wired /\ Arrive(r)
    <3>1. AuthInv'
      BY <2>1, AuthInvStep DEF Next
    <3>2. \A q \in Requests \ {r} : pc'[q] = pc[q]
      BY <2>1 DEF Arrive, Anonymous, Hit, Miss, AuthInv, TypeOK
    <3>3. phase = "serving" /\ wired /\ client = "open" /\ UNCHANGED appVars
      BY <1>8, <2>1 DEF Admit, LifespanInv
    <3> QED
      BY <3>1, <3>2, <3>3
         DEF ServiceInv, ServiceTypeOK, LifespanInv, NoUseAfterClose
  <2>2. CASE Unavailable(r)
    <3>1. AuthInv'
      BY <2>2, AuthAssumption
         DEF Unavailable, AuthInv, TypeOK, Times, PCs, Never, HistoryInv,
             EntryWasValid, AcceptedWithinTTL
    <3>2. pc' = [pc EXCEPT ![r] = "unavailable"] /\ UNCHANGED appVars
      BY <1>8, <2>2 DEF Admit, Unavailable
    <3>3. phase = "serving"
      BY <1>8 DEF Admit
    <3> QED
      BY <3>1, <3>2, <3>3
         DEF ServiceInv, ServiceTypeOK, LifespanInv, NoUseAfterClose, AuthInv,
             TypeOK
  <2> QED
    BY <1>8, <2>1, <2>2 DEF Admit
<1>9. ASSUME NEW r \in Requests, Proceed(r) PROVE ServiceInv'
  <2>1. AuthInv' /\ UNCHANGED appVars
    BY <1>9, AuthInvStep DEF Proceed, Next
  <2>2. pc[r] # "idle" /\ \A q \in Requests \ {r} : pc'[q] = pc[q]
    BY <1>9 DEF Proceed, Judge, Answered, Grant, Deny, Unreachable,
       NextRequest, AuthInv, TypeOK
  <2>3. pc'[r] \in {"asking", "granted", "denied", "accepted"} =>
            pc[r] \in {"asking", "granted", "denied", "accepted"}
    BY <1>9 DEF Proceed, Judge, Answered, Grant, Deny, Unreachable,
       NextRequest, AuthInv, TypeOK
  <2>4. phase # "down" /\ client # "closed"
    BY <2>2 DEF LifespanInv
  <2>5. ServiceTypeOK' /\ LifespanInv'
    BY <2>1, <2>4 DEF ServiceTypeOK, LifespanInv
  <2>6. NoUseAfterClose'
    BY <2>1, <2>2, <2>3 DEF NoUseAfterClose
  <2> QED
    BY <2>1, <2>5, <2>6 DEF ServiceInv
<1>10. CASE UNCHANGED serviceVars
  BY <1>1, <1>10
     DEF serviceVars, vars, ServiceTypeOK, LifespanInv, NoUseAfterClose
<1> QED
  BY <1>2, <1>3, <1>4, <1>5, <1>6, <1>7, <1>8, <1>9, <1>10 DEF ServiceNext

THEOREM ServiceInvariance == ServiceSpec => []ServiceInv
BY ServiceInvInit, ServiceInvStep, PTL DEF ServiceSpec

-----------------------------------------------------------------------------
\* No entry of the token cache of any process claims a validity vtaskforge
\* did not grant.
THEOREM ServiceCacheHonesty == ServiceSpec => []EntryWasValid
<1>1. ServiceInv => EntryWasValid
  BY DEF ServiceInv, AuthInv
<1> QED
  BY <1>1, ServiceInvariance, PTL

\* Across restarts, a request is let in only on a validity younger than
\* ttl_seconds.
THEOREM ServiceTrustWindow == ServiceSpec => []AcceptedWithinTTL
<1>1. ServiceInv => AcceptedWithinTTL
  BY DEF ServiceInv, AuthInv
<1> QED
  BY <1>1, ServiceInvariance, PTL

\* The lifespan never closes the client of vtaskforge under a request.
THEOREM ClientOutlivesRequests == ServiceSpec => []NoUseAfterClose
<1>1. ServiceInv => NoUseAfterClose
  BY DEF ServiceInv
<1> QED
  BY <1>1, ServiceInvariance, PTL
=============================================================================
