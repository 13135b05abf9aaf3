----------------------------- MODULE WatchProofs -----------------------------
(***************************************************************************)
(* What vfobs-watch promises, for any periods, delays, losses, missed      *)
(* reads, thresholds and number of claims: no alert without cause, and     *)
(* every cause reported in time.                                           *)
(***************************************************************************)
EXTENDS Watch, FiniteSetTheorems, TLAPS

Event == [type : {"task.claimed", "task.heartbeat", "task.workdir_changed",
                  "task.state_changed"},
          at : Nat, to : {"none", "done", "rejected"}, id : Nat]

TypeOK ==
    /\ clock \in Nat
    /\ run \in {"unclaimed", "alive", "dead", "over"}
    /\ claims \in Nat
    /\ {claimedAt, lastBeat, lastChange} \subseteq Never..clock
    /\ transit \in SUBSET Event /\ IsFiniteSet(transit)
    /\ stored \in SUBSET Event /\ IsFiniteSet(stored)
    /\ lost \in 0..MaxLost
    /\ nextPoll \in Nat
    /\ misses \in 0..MaxMisses
    /\ exit \in {"no", "clean", "CRASHED", "STALLED", "APPROACHING_TIMEOUT"}

\* When the watch last read the events, or would have before it was started.
LastRead == nextPoll - Interval * (1 + misses)

\* The last sign of life, and the last progress, of the latest run.
LastSign == Latest({claimedAt, lastBeat})
LastProgress == Latest({claimedAt, lastChange})

Progress(S) ==
    {e \in S : e.type \in {"task.claimed", "task.workdir_changed"}}

\* Nothing that is due is late.
TimeInv ==
    /\ clock <= nextPoll /\ nextPoll <= clock + Interval
    /\ run = "alive" => claimedAt # Never /\ clock - LastSign <= BeatEvery
    /\ \A e \in Surviving : e.at <= clock
    /\ \A e \in transit : clock - e.at <= MaxDelay

\* What the run has done and what its events say.
HistoryInv ==
    /\ lastBeat # Never => claimedAt # Never /\ claimedAt <= lastBeat
    /\ lastChange # Never => claimedAt # Never /\ claimedAt <= lastChange
    /\ \A e \in Of("task.heartbeat", Surviving) : e.at <= LastSign
    /\ \A e \in Progress(Surviving) : e.at <= LastProgress

\* Of the heartbeats and of the workdir changes only the newest is kept.
NewestInv ==
    \A type \in {"task.heartbeat", "task.workdir_changed"} :
        \A e, f \in Of(type, stored) : e.at = f.at

\* One claim is the first, and no other is older than it by more than the
\* delay that let it be overtaken.
FirstClaimInv ==
    /\ \A e \in transit : e.id = 0
    /\ \A e \in Of("task.claimed", Surviving) : e.to = "none"
    /\ \A e \in Of("task.claimed", stored) : e.id >= 1
    /\ Of("task.claimed", stored) # {} =>
            \E e \in Of("task.claimed", stored) : e.id = 1
    /\ \A e, f \in Of("task.claimed", stored) : e.id = 1 /\ f.id = 1 => e = f
    /\ \A e \in Of("task.claimed", stored), f \in Of("task.claimed", Surviving) :
            e.id = 1 => e.at <= f.at + MaxDelay

-----------------------------------------------------------------------------
(* A live run's heartbeats that the watch has not seen are lost or on their *)
(* way: the longer it has seen none, the more of them there are.            *)

\* The heartbeats on their way that were emitted after b and up to t.
Pending(b, t) == {e \in Of("task.heartbeat", transit) : b < e.at /\ e.at <= t}

Missing(b, t) == lost + Cardinality(Pending(b, t))

\* No heartbeat emitted after b can be read.
SilentSince(b) ==
    claimedAt <= b /\ \A e \in Of("task.heartbeat", stored) : e.at <= b

BeatInv ==
    run = "alive" =>
        \A b \in 0..clock : SilentSince(b) =>
            /\ \A t \in b..clock - 1 : t - b < BeatEvery * (1 + Missing(b, t))
            /\ b < lastBeat =>
                  lastBeat - b <= BeatEvery * Missing(b, lastBeat)

-----------------------------------------------------------------------------
(* What the last read has shown, or else there would have been an alert.    *)

StuckInv ==
    exit = "no" /\ run = "alive" /\ Progress(Surviving) # {} =>
        LastRead - LastProgress <= Latest({StallS, FirstBeat})

CrashInv ==
    exit = "no" /\ lastBeat # Never /\ Of("task.heartbeat", Surviving) # {} =>
        LastRead - lastBeat <= Latest({CrashS, MaxDelay})

OverdueInv ==
    exit = "no" /\ TimeoutAt > 0 =>
        \A e \in Of("task.claimed", Surviving) :
            LastRead - e.at <= TimeoutAt + MaxDelay

WatchInv ==
    /\ TypeOK /\ TimeInv /\ HistoryInv /\ NewestInv /\ FirstClaimInv /\ BeatInv
    /\ StuckInv /\ CrashInv /\ OverdueInv

-----------------------------------------------------------------------------
(* The operators. *)

LEMMA LatestOfTwo ==
    ASSUME NEW a \in Int, NEW b \in Int
    PROVE  Latest({a, b}) = IF a >= b THEN a ELSE b
<1>1. CASE a >= b
  BY <1>1 DEF Latest
<1>2. CASE ~(a >= b)
  BY <1>2 DEF Latest
<1> QED
  BY <1>1, <1>2

LEMMA LatestOfEqual ==
    ASSUME NEW S, NEW t, t \in S, \A u \in S : u = t, t \in Int
    PROVE  Latest(S) = t
<1>1. S = {t}
  OBVIOUS
<1>2. (CHOOSE x \in {t} : \A u \in {t} : u <= x) = t
  OBVIOUS
<1> QED
  BY <1>1, <1>2 DEF Latest

\* Multiplication by a period keeps the order.
LEMMA TimesOrder ==
    ASSUME NEW k \in Nat, NEW m \in Int, NEW n \in Int, m <= n
    PROVE  k * m <= k * n
<1>1. k * (n - m) >= 0
  BY SMT
<1>2. k * (n - m) = k * n - k * m
  BY SMT
<1>3. k * n \in Int /\ k * m \in Int
  OBVIOUS
<1> QED
  BY <1>1, <1>2, <1>3

LEMMA TimesNext ==
    ASSUME NEW k \in Nat, NEW n \in Int
    PROVE  k * (n + 1) = k * n + k
BY SMT

\* What the rules look at: a view has the type, the time and the id of its row.
LEMMA SeenTimes ==
    ASSUME TypeOK, NEW type
    PROVE  {e.at : e \in Seen(type)} = {e.at : e \in Of(type, stored)}
<1>1. \A e \in stored : View(e).at = e.at /\ View(e).type = e.type
  BY DEF View, TypeOK, Event
<1> QED
  BY <1>1 DEF Seen, Of

LEMMA SeenNewest ==
    ASSUME TypeOK, NewestInv,
           NEW type \in {"task.heartbeat", "task.workdir_changed"}
    PROVE  /\ Of(type, stored) = {} => At(type) = Never
           /\ \A e \in Of(type, stored) : At(type) = e.at
<1>1. ASSUME Of(type, stored) = {} PROVE At(type) = Never
  <2>1. {e.at : e \in Seen(type)} = {}
    BY <1>1, SeenTimes
  <2> QED
    BY <2>1 DEF At, Latest
<1>2. ASSUME NEW e \in Of(type, stored) PROVE At(type) = e.at
  <2> DEFINE S == {f.at : f \in Seen(type)}
  <2>1. S = {f.at : f \in Of(type, stored)}
    BY SeenTimes
  <2>2. e.at \in S /\ (\A u \in S : u = e.at)
    BY <1>2, <2>1 DEF NewestInv
  <2>3. e.at \in Int
    BY <1>2 DEF Of, TypeOK, Event
  <2> HIDE DEF S
  <2>4. Latest(S) = e.at
    BY <2>2, <2>3, LatestOfEqual
  <2> QED
    BY <2>4 DEF At, S
<1> QED
  BY <1>1, <1>2

LEMMA SeenFirstClaim ==
    ASSUME TypeOK, FirstClaimInv
    PROVE  /\ Of("task.claimed", stored) = {} => ClaimedAt = Never
           /\ \A e \in Of("task.claimed", stored) :
                 e.id = 1 => ClaimedAt = e.at
<1> DEFINE C == Seen("task.claimed")
           F == {e.at : e \in {x \in C : \A y \in C : x.id <= y.id}}
<1>1. \A e \in stored : /\ View(e).at = e.at /\ View(e).type = e.type
                        /\ View(e).id = e.id
  BY DEF View, TypeOK, Event
<1>2. ASSUME Of("task.claimed", stored) = {} PROVE ClaimedAt = Never
  <2>1. C = {}
    BY <1>1, <1>2 DEF Seen, Of
  <2>2. F = {}
    BY <2>1
  <2> QED
    BY <2>2 DEF ClaimedAt, Latest
<1>3. ASSUME NEW e \in Of("task.claimed", stored), e.id = 1
      PROVE  ClaimedAt = e.at
  <2>1. \A x \in C : \E r \in Of("task.claimed", stored) :
                        x.id = r.id /\ x.at = r.at
    BY <1>1 DEF Seen, Of
  <2>2. \A r \in Of("task.claimed", stored) : r.id \in Nat /\ r.id >= 1
    BY DEF Of, TypeOK, Event, FirstClaimInv
  <2>3. \A x \in C : x.id \in Nat /\ x.id >= 1
    BY <2>1, <2>2
  <2>4. View(e) \in C /\ View(e).id = 1 /\ View(e).at = e.at
    BY <1>1, <1>3 DEF Seen, Of
  <2>5. e.at \in F
    BY <2>3, <2>4
  <2>6. ASSUME NEW u \in F PROVE u = e.at
    <3>1. PICK x \in C : u = x.at /\ (\A y \in C : x.id <= y.id)
      BY <2>6
    <3>2. x.id = 1
      BY <3>1, <2>3, <2>4
    <3> QED
      BY <3>1, <3>2, <2>1, <1>3 DEF FirstClaimInv
  <2>7. e.at \in Int
    BY <1>3 DEF Of, TypeOK, Event
  <2>8. ClaimedAt = Latest(F)
    BY DEF ClaimedAt
  <2> HIDE DEF F
  <2> QED
    BY <2>5, <2>6, <2>7, <2>8, LatestOfEqual
<1> QED
  BY <1>2, <1>3

\* The envelope that the watch reads shows no terminal state.
LEMMA NeverTerminal == ASSUME TypeOK PROVE ~WatchState.terminal
<1>1. \A e \in stored : View(e).to = "none"
  BY DEF View, TypeOK, Event
<1> QED
  BY <1>1 DEF WatchState, Seen, Of, Terminal

LEMMA ConstantTypes ==
    /\ MaxTime \in Nat /\ MaxClaims \in Nat /\ MaxDelay \in Nat
    /\ MaxLost \in Nat /\ MaxMisses \in Nat
    /\ StallS \in Nat /\ CrashS \in Nat /\ TimeoutAt \in Nat
    /\ BeatEvery \in Nat \ {0} /\ Interval \in Nat \ {0}
BY WatchAssumption

-----------------------------------------------------------------------------
(* Type correctness. *)

LEMMA TypeInit == Init => TypeOK
BY ConstantTypes, FS_EmptySet DEF Init, TypeOK, Never

LEMMA EventTyped ==
    ASSUME TypeOK,
           NEW type \in {"task.claimed", "task.heartbeat",
                         "task.workdir_changed", "task.state_changed"},
           NEW status \in {"none", "done", "rejected"},
           Emits(type, status)
    PROVE  /\ transit' \in SUBSET Event /\ IsFiniteSet(transit')
           /\ UNCHANGED <<clock, lost, stored, nextPoll, misses, exit>>
<1>1. [type |-> type, at |-> clock, to |-> status, id |-> 0] \in Event
  BY DEF TypeOK, Event
<1> QED
  BY <1>1, FS_AddElement DEF Emits, TypeOK, watchVars

LEMMA TypeStep == ASSUME TypeOK, Next PROVE TypeOK'
<1> USE ConstantTypes DEF Never
<1>1. CASE Tick
  BY <1>1 DEF Tick, TypeOK, hostVars, wayVars, watchVars
<1>2. CASE Claim
  <2>1. /\ transit' \in SUBSET Event /\ IsFiniteSet(transit')
        /\ UNCHANGED <<clock, lost, stored, nextPoll, misses, exit>>
    BY <1>2, EventTyped DEF Claim
  <2> QED
    BY <1>2, <2>1 DEF Claim, TypeOK
<1>3. CASE Heartbeat
  <2>1. /\ transit' \in SUBSET Event /\ IsFiniteSet(transit')
        /\ UNCHANGED <<clock, lost, stored, nextPoll, misses, exit>>
    BY <1>3, EventTyped DEF Heartbeat
  <2> QED
    BY <1>3, <2>1 DEF Heartbeat, TypeOK
<1>4. CASE WorkdirChanged
  <2>1. /\ transit' \in SUBSET Event /\ IsFiniteSet(transit')
        /\ UNCHANGED <<clock, lost, stored, nextPoll, misses, exit>>
    BY <1>4, EventTyped DEF WorkdirChanged
  <2> QED
    BY <1>4, <2>1 DEF WorkdirChanged, TypeOK
<1>5. CASE Die
  BY <1>5 DEF Die, TypeOK, wayVars, watchVars
<1>6. CASE Complete \/ Reject
  <2>1. /\ transit' \in SUBSET Event /\ IsFiniteSet(transit')
        /\ UNCHANGED <<clock, lost, stored, nextPoll, misses, exit>>
    BY <1>6, EventTyped DEF Complete, Reject, Ends
  <2> QED
    BY <1>6, <2>1 DEF Complete, Reject, Ends, TypeOK
<1>7. ASSUME NEW e \in transit, Arrive(e) PROVE TypeOK'
  <2> DEFINE n == IF e.type = "task.claimed"
                  THEN Cardinality(Of("task.claimed", stored)) + 1 ELSE 0
             row == [e EXCEPT !.id = n]
             S == stored \union {row}
  <2>1. Cardinality(Of("task.claimed", stored)) \in Nat
    BY FS_Subset, FS_CardinalityType DEF Of, TypeOK
  <2>2. row \in Event
    <3>1. n \in Nat
      BY <2>1
    <3>2. e \in Event
      BY DEF TypeOK
    <3> HIDE DEF n
    <3> QED
      BY <3>1, <3>2 DEF Event
  <2>3. S \in SUBSET Event /\ IsFiniteSet(S)
    BY <2>2, FS_AddElement DEF TypeOK
  <2>4. /\ transit' = transit \ {e} /\ stored' = S \ Superseded(S)
        /\ UNCHANGED <<clock, hostVars, lost, watchVars>>
    BY <1>7 DEF Arrive
  <2> HIDE DEF S
  <2>5. stored' \in SUBSET Event /\ IsFiniteSet(stored')
    BY <2>3, <2>4, FS_Subset
  <2>6. transit' \in SUBSET Event /\ IsFiniteSet(transit')
    BY <2>4, FS_Subset DEF TypeOK
  <2> QED
    BY <2>4, <2>5, <2>6 DEF TypeOK, hostVars, watchVars
<1>8. ASSUME NEW e \in transit, Lose(e) PROVE TypeOK'
  <2>1. transit' \in SUBSET Event /\ IsFiniteSet(transit')
    BY <1>8, FS_Subset DEF Lose, TypeOK
  <2> QED
    BY <1>8, <2>1 DEF Lose, TypeOK, hostVars, watchVars
<1>9. CASE Poll
  <2>1. Verdict(WatchState) \in
          {"OK", "CRASHED", "STALLED", "APPROACHING_TIMEOUT"}
    BY DEF Verdict
  <2> QED
    BY <1>9, <2>1 DEF Poll, Sleep, TypeOK, hostVars, wayVars
<1>10. CASE PollUnavailable
  BY <1>10 DEF PollUnavailable, Sleep, TypeOK, hostVars, wayVars
<1> QED
  BY <1>1, <1>2, <1>3, <1>4, <1>5, <1>6, <1>7, <1>8, <1>9, <1>10 DEF Next

-----------------------------------------------------------------------------
(* Time, and what the run has done. *)

LEMMA SignAndProgress ==
    ASSUME TypeOK
    PROVE  /\ LastSign = IF claimedAt >= lastBeat THEN claimedAt ELSE lastBeat
           /\ LastProgress = IF claimedAt >= lastChange
                             THEN claimedAt ELSE lastChange
BY LatestOfTwo DEF TypeOK, Never, LastSign, LastProgress

LEMMA SignAndProgressNext ==
    ASSUME TypeOK'
    PROVE  /\ LastSign' = IF claimedAt' >= lastBeat'
                          THEN claimedAt' ELSE lastBeat'
           /\ LastProgress' = IF claimedAt' >= lastChange'
                              THEN claimedAt' ELSE lastChange'
BY LatestOfTwo DEF TypeOK, Never, LastSign, LastProgress

\* An event that arrives keeps what it says and supersedes others at most.
LEMMA ArriveKeeps ==
    ASSUME TypeOK, NEW e \in transit, Arrive(e)
    PROVE  /\ transit' \subseteq transit
           /\ \A x \in Surviving' : \E y \in Surviving :
                 y.type = x.type /\ y.at = x.at /\ y.to = x.to
           /\ UNCHANGED <<clock, run, claims, claimedAt, lastBeat, lastChange,
                          lost, nextPoll, misses, exit>>
<1> DEFINE row == [e EXCEPT !.id = IF e.type = "task.claimed"
                       THEN Cardinality(Of("task.claimed", stored)) + 1 ELSE 0]
<1>1. row.type = e.type /\ row.at = e.at /\ row.to = e.to
  BY DEF TypeOK, Event
<1>2. transit' = transit \ {e} /\ stored' \subseteq stored \union {row}
  BY DEF Arrive
<1> HIDE DEF row
<1>3. \A x \in Surviving' : \E y \in Surviving :
            y.type = x.type /\ y.at = x.at /\ y.to = x.to
  BY <1>1, <1>2 DEF Surviving
<1>4. UNCHANGED <<clock, run, claims, claimedAt, lastBeat, lastChange,
                  lost, nextPoll, misses, exit>>
  BY DEF Arrive, hostVars, watchVars
<1> QED
  BY <1>2, <1>3, <1>4

\* An emitted event is on its way.
LEMMA EmitAdds ==
    ASSUME NEW type, NEW status, Emits(type, status)
    PROVE  LET new == [type |-> type, at |-> clock, to |-> status, id |-> 0]
           IN  /\ transit' = transit \union {new}
               /\ Surviving' = Surviving \union {new}
               /\ new.type = type /\ new.at = clock
               /\ new.to = status /\ new.id = 0
               /\ UNCHANGED <<clock, lost, stored, nextPoll, misses, exit>>
BY DEF Emits, watchVars, Surviving

LEMMA TimeStep ==
    ASSUME TypeOK, TypeOK', TimeInv, HistoryInv, Next
    PROVE  TimeInv'
<1> USE ConstantTypes, SignAndProgress, SignAndProgressNext DEF Never
<1>1. CASE Tick
  <2>1. /\ UNCHANGED <<run, claimedAt, lastBeat, transit, Surviving, nextPoll>>
        /\ clock' = clock + 1 /\ clock < nextPoll
        /\ \A e \in transit : clock - e.at < MaxDelay
    BY <1>1 DEF Tick, hostVars, wayVars, watchVars, Surviving
  <2>2. run = "alive" => clock - LastSign < BeatEvery
    BY <1>1 DEF Tick, LastSign
  <2>3. \A e \in Surviving : e.at \in Nat
    BY DEF TypeOK, Event, Surviving
  <2>4. transit \subseteq Surviving
    BY DEF Surviving
  <2>5. run' = "alive" => claimedAt' # Never /\ clock' - LastSign' <= BeatEvery
    BY <2>1, <2>2 DEF TimeInv, TypeOK
  <2>6. /\ \A e \in Surviving' : e.at <= clock'
        /\ \A e \in transit' : clock' - e.at <= MaxDelay
    BY <2>1, <2>3, <2>4 DEF TimeInv, TypeOK
  <2> QED
    BY <2>1, <2>5, <2>6 DEF TimeInv, TypeOK
<1>2. ASSUME NEW type, NEW status, Emits(type, status),
             run' = "alive" => \/ claimedAt' = clock
                               \/ /\ run = "alive" /\ claimedAt' = claimedAt
                                  /\ lastBeat' \in {lastBeat, clock}
      PROVE  TimeInv'
  <2>1. /\ \A e \in transit' : e \in transit \/ e.at = clock
        /\ \A e \in Surviving' : e \in Surviving \/ e.at = clock
        /\ UNCHANGED <<clock, nextPoll>>
    BY <1>2, EmitAdds
  <2>2. /\ \A e \in Surviving' : e.at <= clock'
        /\ \A e \in transit' : clock' - e.at <= MaxDelay
    BY <2>1 DEF TimeInv, TypeOK
  <2>3. run' = "alive" => claimedAt' # Never /\ clock' - LastSign' <= BeatEvery
    BY <1>2, <2>1 DEF TimeInv, TypeOK
  <2> QED
    BY <2>1, <2>2, <2>3 DEF TimeInv
<1>3. CASE Claim
  BY <1>2, <1>3 DEF Claim
<1>4. CASE Heartbeat \/ WorkdirChanged
  BY <1>2, <1>4 DEF Heartbeat, WorkdirChanged
<1>5. CASE Die
  BY <1>5 DEF Die, wayVars, watchVars, TimeInv, TypeOK, Surviving
<1>6. CASE Complete \/ Reject
  BY <1>2, <1>6 DEF Complete, Reject, Ends
<1>7. ASSUME NEW e \in transit, Arrive(e) PROVE TimeInv'
  <2>1. transit' \subseteq transit
    BY <1>7, ArriveKeeps
  <2>2. \A x \in Surviving' : \E y \in Surviving : y.at = x.at
    BY <1>7, ArriveKeeps
  <2>3. UNCHANGED <<clock, run, claimedAt, lastBeat, nextPoll>>
    BY <1>7, ArriveKeeps
  <2> QED
    BY <2>1, <2>2, <2>3 DEF TimeInv, TypeOK
<1>8. ASSUME NEW e \in transit, Lose(e) PROVE TimeInv'
  BY <1>8 DEF Lose, hostVars, watchVars, TimeInv, TypeOK, Surviving
<1>9. CASE Poll \/ PollUnavailable
  <2>1. /\ UNCHANGED <<clock, run, claimedAt, lastBeat, transit, stored>>
        /\ clock = nextPoll /\ nextPoll' = clock + Interval
    BY <1>9 DEF Poll, PollUnavailable, Sleep, Due, hostVars, wayVars
  <2> QED
    BY <2>1 DEF TimeInv, TypeOK, Surviving
<1> QED
  BY <1>1, <1>2, <1>3, <1>4, <1>5, <1>6, <1>7, <1>8, <1>9 DEF Next

LEMMA HistoryStep ==
    ASSUME TypeOK, TypeOK', TimeInv, HistoryInv, Next
    PROVE  HistoryInv'
<1> USE ConstantTypes, SignAndProgress, SignAndProgressNext DEF Never
<1> DEFINE T == <<claimedAt, lastBeat, lastChange>>
<1>0. /\ \A e \in Surviving : e.at \in Nat
      /\ \A e \in Surviving' : e.at \in Nat
  BY DEF TypeOK, Event, Surviving
<1>1. ASSUME UNCHANGED T, \A x \in Surviving' : \E y \in Surviving :
                              y.type = x.type /\ y.at = x.at
      PROVE  HistoryInv'
  BY <1>0, <1>1 DEF HistoryInv, Of, Progress
<1>2. CASE Tick \/ Die \/ Poll \/ PollUnavailable
  <2>1. UNCHANGED <<T, transit, stored>>
    BY <1>2 DEF Tick, Die, Poll, PollUnavailable, hostVars, wayVars
  <2> QED
    BY <1>1, <2>1 DEF Surviving
<1>3. ASSUME NEW e \in transit, Arrive(e) PROVE HistoryInv'
  BY <1>1, <1>3, ArriveKeeps
<1>4. ASSUME NEW e \in transit, Lose(e) PROVE HistoryInv'
  <2>1. UNCHANGED T /\ Surviving' \subseteq Surviving
    BY <1>4 DEF Lose, hostVars, Surviving
  <2> QED
    BY <1>1, <2>1
<1>5. ASSUME NEW type, NEW status, Emits(type, status),
             UNCHANGED claimedAt,
             claimedAt # Never,
             lastBeat' \in {lastBeat, clock},
             lastChange' \in {lastChange, clock},
             type = "task.heartbeat" => lastBeat' = clock,
             type \in {"task.claimed", "task.workdir_changed"} =>
                lastChange' = clock
      PROVE  HistoryInv'
  <2>1. \A e \in Surviving' : e \in Surviving \/ (e.at = clock /\ e.type = type)
    BY <1>5, EmitAdds
  <2>2. UNCHANGED clock
    BY <1>5, EmitAdds
  <2>3. LastSign <= LastSign' /\ LastProgress <= LastProgress'
    BY <1>5, <2>2 DEF TypeOK
  <2>4. \A e \in Of("task.heartbeat", Surviving') : e.at <= LastSign'
    BY <1>0, <1>5, <2>1, <2>3 DEF HistoryInv, Of, TypeOK
  <2>5. \A e \in Progress(Surviving') : e.at <= LastProgress'
    BY <1>0, <1>5, <2>1, <2>3 DEF HistoryInv, Progress, TypeOK
  <2>6. /\ lastBeat' # Never => claimedAt' # Never /\ claimedAt' <= lastBeat'
        /\ lastChange' # Never => claimedAt' # Never /\ claimedAt' <= lastChange'
    BY <1>5, <2>2 DEF HistoryInv, TypeOK
  <2> QED
    BY <2>4, <2>5, <2>6 DEF HistoryInv, Of, Progress
<1>6. CASE Claim
  <2>1. \A e \in Surviving' : e.at <= clock
    <3>1. \A e \in Surviving' : e \in Surviving \/ e.at = clock
      BY <1>6, EmitAdds DEF Claim
    <3> QED
      BY <3>1 DEF TimeInv, TypeOK
  <2> QED
    BY <1>6, <2>1 DEF Claim, HistoryInv, TypeOK, Of, Progress
<1>7. CASE Heartbeat
  BY <1>5, <1>7 DEF Heartbeat, TimeInv
<1>8. CASE WorkdirChanged
  BY <1>5, <1>8 DEF WorkdirChanged, TimeInv
<1>9. CASE Complete \/ Reject
  BY <1>5, <1>9 DEF Complete, Reject, Ends, TimeInv
<1> HIDE DEF T
<1> QED
  BY <1>2, <1>3, <1>4, <1>6, <1>7, <1>8, <1>9 DEF Next

-----------------------------------------------------------------------------
(* What is kept of the events that have arrived. *)

\* A stored claim is never superseded, and its id is its place in the order of
\* arrival.
LEMMA ArriveStores ==
    ASSUME TypeOK, NEW e \in transit, Arrive(e)
    PROVE  \E row \in Event :
              /\ row.type = e.type /\ row.at = e.at /\ row.to = e.to
              /\ row.type = "task.claimed" =>
                    row.id = Cardinality(Of("task.claimed", stored)) + 1
              /\ transit' = transit \ {e}
              /\ stored' = (stored \union {row})
                               \ Superseded(stored \union {row})
              /\ Of("task.claimed", stored') =
                    Of("task.claimed", stored \union {row})
<1> DEFINE n == IF e.type = "task.claimed"
                THEN Cardinality(Of("task.claimed", stored)) + 1 ELSE 0
           row == [e EXCEPT !.id = n]
           S == stored \union {row}
<1>1. n \in Nat
  BY FS_Subset, FS_CardinalityType DEF Of, TypeOK
<1>2. e \in Event
  BY DEF TypeOK
<1>3. e.type = "task.claimed" =>
          n = Cardinality(Of("task.claimed", stored)) + 1
  OBVIOUS
<1>4. stored' = S \ Superseded(S) /\ transit' = transit \ {e}
  BY DEF Arrive
<1> HIDE DEF n
<1>5. /\ row \in Event
      /\ row.type = e.type /\ row.at = e.at /\ row.to = e.to /\ row.id = n
  BY <1>1, <1>2 DEF Event
<1> HIDE DEF row
<1>6. Of("task.claimed", stored') = Of("task.claimed", S)
  BY <1>4 DEF Superseded, Of
<1> QED
  BY <1>3, <1>4, <1>5, <1>6

LEMMA NewestStep ==
    ASSUME TypeOK, TypeOK', NewestInv, Next
    PROVE  NewestInv'
<1>1. ASSUME NEW e \in transit, Arrive(e) PROVE NewestInv'
  <2>1. PICK row \in Event :
           stored' = (stored \union {row}) \ Superseded(stored \union {row})
    BY <1>1, ArriveStores
  <2>2. ASSUME NEW type \in {"task.heartbeat", "task.workdir_changed"},
               NEW x \in Of(type, stored'), NEW y \in Of(type, stored')
        PROVE  ~(x.at < y.at)
    BY <2>1 DEF Superseded, Of
  <2>3. \A x \in stored' : x.at \in Nat
    BY DEF TypeOK, Event
  <2>4. ASSUME NEW type \in {"task.heartbeat", "task.workdir_changed"},
               NEW x \in Of(type, stored'), NEW y \in Of(type, stored')
        PROVE  x.at = y.at
    <3>1. ~(x.at < y.at) /\ ~(y.at < x.at)
      BY <2>2
    <3>2. x.at \in Nat /\ y.at \in Nat
      BY <2>3 DEF Of
    <3> QED
      BY <3>1, <3>2
  <2> QED
    BY <2>4 DEF NewestInv, Of
<1>2. CASE UNCHANGED stored
  BY <1>2 DEF NewestInv, Of
<1>3. \/ UNCHANGED stored
      \/ \E e \in transit : Arrive(e)
  BY DEF Next, Tick, Claim, Heartbeat, WorkdirChanged, Die, Complete, Reject,
         Ends, Emits, Lose, Poll, PollUnavailable, wayVars
<1> QED
  BY <1>1, <1>2, <1>3

LEMMA FirstClaimStep ==
    ASSUME TypeOK, TypeOK', TimeInv, FirstClaimInv, Next
    PROVE  FirstClaimInv'
<1> USE ConstantTypes
<1>0. /\ \A e \in Surviving : e.at \in Nat /\ e.id \in Nat
      /\ \A e \in Surviving' : e.at \in Nat /\ e.id \in Nat
      /\ transit \subseteq Surviving /\ stored \subseteq Surviving
  BY DEF TypeOK, Event, Surviving
<1>1. CASE transit' \subseteq transit /\ UNCHANGED stored
  BY <1>1 DEF FirstClaimInv, Of, Surviving
<1>2. ASSUME NEW type, NEW status, Emits(type, status),
             type = "task.claimed" => status = "none"
      PROVE  FirstClaimInv'
  <2>1. /\ \A f \in transit' : f.id = 0
        /\ \A f \in Of("task.claimed", Surviving') : f.to = "none"
    BY <1>2, EmitAdds DEF FirstClaimInv, Of
  <2>2. UNCHANGED stored
    BY <1>2, EmitAdds
  <2>3. \A f \in Surviving' : f \in Surviving \/ f.at = clock
    BY <1>2, EmitAdds
  <2>4. ASSUME NEW x \in Of("task.claimed", stored), x.id = 1,
               NEW f \in Of("task.claimed", Surviving')
        PROVE  x.at <= f.at + MaxDelay
    <3>1. CASE f \in Surviving
      BY <2>4, <3>1 DEF FirstClaimInv, Of
    <3>2. CASE f.at = clock
      <4>1. x.at \in Nat /\ x.at <= clock /\ clock \in Nat
        BY <1>0 DEF TimeInv, TypeOK, Of
      <4> QED
        BY <3>2, <4>1
    <3> QED
      BY <2>3, <3>1, <3>2 DEF Of
  <2> QED
    BY <2>1, <2>2, <2>4 DEF FirstClaimInv, Of
<1>3. ASSUME NEW e \in transit, Arrive(e) PROVE FirstClaimInv'
  <2>1. PICK row \in Event :
           /\ row.type = e.type /\ row.at = e.at /\ row.to = e.to
           /\ row.type = "task.claimed" =>
                 row.id = Cardinality(Of("task.claimed", stored)) + 1
           /\ transit' = transit \ {e}
           /\ Of("task.claimed", stored') =
                 Of("task.claimed", stored \union {row})
    BY <1>3, ArriveStores
  <2> DEFINE C == Of("task.claimed", stored)
  <2>2. /\ IsFiniteSet(C) /\ Cardinality(C) \in Nat
        /\ Cardinality(C) = 0 <=> C = {}
    BY FS_Subset, FS_CardinalityType, FS_EmptySet DEF Of, TypeOK
  <2>3. \A x \in Of("task.claimed", Surviving') :
           \E y \in Of("task.claimed", Surviving) : y.at = x.at /\ y.to = x.to
    BY <1>3, ArriveKeeps DEF Of
  <2>4. /\ \A f \in transit' : f.id = 0
        /\ \A f \in Of("task.claimed", Surviving') : f.to = "none"
    BY <2>1, <2>3 DEF FirstClaimInv
  <2>5. CASE e.type # "task.claimed"
    <3>1. Of("task.claimed", stored') = C
      BY <2>1, <2>5 DEF Of
    <3>2. \A x \in C, f \in Of("task.claimed", Surviving') :
              x.id = 1 => x.at <= f.at + MaxDelay
      BY <2>3 DEF FirstClaimInv
    <3> QED
      BY <2>4, <3>1, <3>2 DEF FirstClaimInv
  <2>6. CASE e.type = "task.claimed"
    <3>1. /\ Of("task.claimed", stored') = C \union {row}
          /\ row.id = Cardinality(C) + 1
      BY <2>1, <2>6 DEF Of
    <3>2. CASE C = {}
      <4>1. Of("task.claimed", stored') = {row} /\ row.id = 1
        BY <2>2, <3>1, <3>2
      <4>2. \A f \in Of("task.claimed", Surviving') :
                f = row \/ f \in transit
        BY <2>1, <4>1 DEF Of, Surviving
      <4>3. \A f \in transit : row.at <= f.at + MaxDelay
        BY <1>0, <2>1 DEF TimeInv, TypeOK
      <4>4. row.at <= row.at + MaxDelay
        BY <1>0, <2>1
      <4>5. \A f \in Of("task.claimed", Surviving') : row.at <= f.at + MaxDelay
        BY <4>2, <4>3, <4>4
      <4> QED
        BY <2>4, <4>1, <4>5 DEF FirstClaimInv
    <3>3. CASE C # {}
      <4>1. row.id \in Nat /\ row.id > 1
        BY <2>2, <3>1, <3>3
      <4>2. \A x \in C, f \in Of("task.claimed", Surviving') :
                x.id = 1 => x.at <= f.at + MaxDelay
        BY <2>3 DEF FirstClaimInv
      <4> QED
        BY <2>4, <3>1, <3>3, <4>1, <4>2 DEF FirstClaimInv
    <3> QED
      BY <3>2, <3>3
  <2> QED
    BY <2>5, <2>6
<1>4. CASE Claim
  BY <1>2, <1>4 DEF Claim
<1>5. CASE Heartbeat
  BY <1>2, <1>5 DEF Heartbeat
<1>6. CASE WorkdirChanged
  BY <1>2, <1>6 DEF WorkdirChanged
<1>7. CASE Complete \/ Reject
  BY <1>2, <1>7 DEF Complete, Reject, Ends
<1>8. CASE Tick \/ Die \/ Poll \/ PollUnavailable
  BY <1>1, <1>8 DEF Tick, Die, Poll, PollUnavailable, wayVars
<1>9. ASSUME NEW e \in transit, Lose(e) PROVE FirstClaimInv'
  BY <1>1, <1>9 DEF Lose
<1> QED
  BY <1>3, <1>4, <1>5, <1>6, <1>7, <1>8, <1>9 DEF Next

-----------------------------------------------------------------------------
(* The heartbeats that the watch has not seen. *)

LEMMA PendingFinite ==
    ASSUME TypeOK, NEW b \in Int, NEW t \in Int
    PROVE  /\ IsFiniteSet(Pending(b, t)) /\ Cardinality(Pending(b, t)) \in Nat
           /\ Missing(b, t) \in Nat /\ lost \in Nat
<1>1. Pending(b, t) \in SUBSET transit
  BY DEF Pending, Of
<1>2. IsFiniteSet(Pending(b, t)) /\ Cardinality(Pending(b, t)) \in Nat
  BY <1>1, FS_Subset, FS_CardinalityType DEF TypeOK
<1> QED
  BY <1>2, ConstantTypes DEF Missing, TypeOK

LEMMA PendingFiniteNext ==
    ASSUME TypeOK', NEW b \in Int, NEW t \in Int
    PROVE  /\ IsFiniteSet(Pending(b, t)') /\ Cardinality(Pending(b, t)') \in Nat
           /\ Missing(b, t)' \in Nat /\ lost' \in Nat
<1>1. Pending(b, t)' \in SUBSET transit'
  BY DEF Pending, Of
<1>2. IsFiniteSet(Pending(b, t)') /\ Cardinality(Pending(b, t)') \in Nat
  BY <1>1, FS_Subset, FS_CardinalityType DEF TypeOK
<1> QED
  BY <1>2, ConstantTypes DEF Missing, TypeOK

\* A step that shows the watch no new heartbeat of the run and takes none away
\* without counting it as lost.
LEMMA BeatKept ==
    ASSUME TypeOK, TypeOK', BeatInv,
           run' = "alive" => run = "alive",
           UNCHANGED <<clock, claimedAt, lastBeat>>,
           \A b \in 0..clock : SilentSince(b)' =>
              /\ SilentSince(b)
              /\ \A t \in Int : Missing(b, t) <= Missing(b, t)'
    PROVE  BeatInv'
<1> USE ConstantTypes
<1> SUFFICES ASSUME run' = "alive", NEW b \in 0..clock, SilentSince(b)'
             PROVE  /\ \A t \in b..clock - 1 :
                          t - b < BeatEvery * (1 + Missing(b, t)')
                    /\ b < lastBeat =>
                          lastBeat - b <= BeatEvery * Missing(b, lastBeat)'
  BY DEF BeatInv, Missing, Pending
<1>1. SilentSince(b) /\ (\A t \in Int : Missing(b, t) <= Missing(b, t)')
  OBVIOUS
<1>2. b \in Int /\ clock \in Int /\ lastBeat \in Int
  BY DEF TypeOK, Never
<1>3. ASSUME NEW t \in b..clock - 1
      PROVE  t - b < BeatEvery * (1 + Missing(b, t)')
  <2>1. t - b < BeatEvery * (1 + Missing(b, t))
    BY <1>1 DEF BeatInv
  <2>0. t \in Int
    BY <1>2
  <2>2. /\ Missing(b, t) \in Nat /\ Missing(b, t)' \in Nat
        /\ Missing(b, t) <= Missing(b, t)'
    <3>1. Missing(b, t) \in Nat
      BY <1>2, <2>0, PendingFinite
    <3>2. Missing(b, t)' \in Nat
      BY <1>2, <2>0, PendingFiniteNext
    <3>3. Missing(b, t) <= Missing(b, t)'
      BY <1>1, <2>0
    <3> QED
      BY <3>1, <3>2, <3>3
  <2>3. BeatEvery * (1 + Missing(b, t)) <= BeatEvery * (1 + Missing(b, t)')
    BY <2>2, TimesOrder
  <2> QED
    BY <1>2, <2>1, <2>2, <2>3
<1>4. ASSUME b < lastBeat
      PROVE  lastBeat - b <= BeatEvery * Missing(b, lastBeat)'
  <2>1. lastBeat - b <= BeatEvery * Missing(b, lastBeat)
    BY <1>1, <1>4 DEF BeatInv
  <2>2. /\ Missing(b, lastBeat) \in Nat
        /\ Missing(b, lastBeat) <= Missing(b, lastBeat)'
    BY <1>1, <1>2, PendingFinite
  <2>3. Missing(b, lastBeat)' \in Nat
    BY <1>2, PendingFiniteNext DEF Missing, Pending
  <2>4. BeatEvery * Missing(b, lastBeat) <= BeatEvery * Missing(b, lastBeat)'
    BY <2>2, <2>3, TimesOrder
  <2> QED
    BY <1>2, <2>1, <2>2, <2>3, <2>4
<1> QED
  BY <1>3, <1>4

\* The clock ticks: the last heartbeat before it is near, or near is b.
LEMMA BeatTick ==
    ASSUME TypeOK, TypeOK', BeatInv, Tick
    PROVE  BeatInv'
<1> USE ConstantTypes
<1>1. /\ UNCHANGED <<run, claimedAt, lastBeat, transit, lost, stored>>
      /\ clock' = clock + 1
      /\ run = "alive" => clock - LastSign < BeatEvery
  BY DEF Tick, hostVars, wayVars, LastSign
<1> SUFFICES ASSUME run = "alive", NEW b \in 0..clock + 1, SilentSince(b)
             PROVE  /\ \A t \in b..clock :
                          t - b < BeatEvery * (1 + Missing(b, t))
                    /\ b < lastBeat =>
                          lastBeat - b <= BeatEvery * Missing(b, lastBeat)
  BY <1>1 DEF BeatInv, SilentSince, Missing, Pending, TypeOK
<1>2. /\ b \in Int /\ clock \in Int /\ lastBeat \in Int /\ claimedAt \in Int
      /\ claimedAt <= b /\ lastBeat <= clock
  BY DEF TypeOK, Never, SilentSince
<1>3. ASSUME b < lastBeat
      PROVE  lastBeat - b <= BeatEvery * Missing(b, lastBeat)
  BY <1>2, <1>3 DEF BeatInv
<1>4. ASSUME NEW t \in b..clock, t < clock
      PROVE  t - b < BeatEvery * (1 + Missing(b, t))
  BY <1>2, <1>4 DEF BeatInv
<1>5. clock - b < BeatEvery * (1 + Missing(b, clock))
  <2>1. Missing(b, clock) \in Nat /\ Missing(b, lastBeat) \in Nat
    BY <1>2, PendingFinite
  <2>2. BeatEvery * (1 + Missing(b, clock)) =
            BeatEvery * Missing(b, clock) + BeatEvery
    BY <2>1, TimesNext
  <2>3. BeatEvery * Missing(b, clock) \in Nat
    BY <2>1
  <2>4. clock - LastSign < BeatEvery
    BY <1>1
  <2>5. CASE b < lastBeat
    <3>1. LastSign = lastBeat
      BY <1>2, <2>5, SignAndProgress
    <3>2. /\ Pending(b, lastBeat) \in SUBSET Pending(b, clock)
          /\ IsFiniteSet(Pending(b, clock))
      <4>1. \A e \in Of("task.heartbeat", transit) : e.at \in Nat
        BY DEF TypeOK, Event, Of
      <4>2. Pending(b, lastBeat) \subseteq Pending(b, clock)
        BY <1>2, <4>1 DEF Pending
      <4> QED
        BY <1>2, <4>2, PendingFinite
    <3>3. Cardinality(Pending(b, lastBeat)) <= Cardinality(Pending(b, clock))
      BY <3>2, FS_Subset
    <3>4. Missing(b, lastBeat) <= Missing(b, clock)
      BY <1>2, <3>3, PendingFinite DEF Missing
    <3>5. BeatEvery * Missing(b, lastBeat) <= BeatEvery * Missing(b, clock)
      BY <2>1, <3>4, TimesOrder
    <3>6. lastBeat - b <= BeatEvery * Missing(b, lastBeat)
      BY <1>3, <2>5
    <3>7. BeatEvery * Missing(b, lastBeat) \in Nat
      BY <2>1
    <3> QED
      BY <1>2, <2>2, <2>3, <2>4, <3>1, <3>5, <3>6, <3>7
  <2>6. CASE ~(b < lastBeat)
    <3>1. LastSign \in Int /\ LastSign <= b
      BY <1>2, <2>6, SignAndProgress
    <3> QED
      BY <1>2, <2>2, <2>3, <2>4, <3>1
  <2> QED
    BY <2>5, <2>6
<1> QED
  BY <1>2, <1>3, <1>4, <1>5

\* A heartbeat is one more on its way.
LEMMA BeatEmitted ==
    ASSUME TypeOK, TypeOK', BeatInv, Heartbeat
    PROVE  BeatInv'
<1> USE ConstantTypes
<1> DEFINE new == [type |-> "task.heartbeat", at |-> clock, to |-> "none",
                   id |-> 0]
<1>1. /\ transit' = transit \union {new}
      /\ new.type = "task.heartbeat" /\ new.at = clock
      /\ UNCHANGED <<clock, run, claimedAt, lost, stored>>
      /\ lastBeat' = clock /\ run = "alive"
  BY EmitAdds DEF Heartbeat
<1> HIDE DEF new
<1> SUFFICES ASSUME NEW b \in 0..clock, SilentSince(b)
             PROVE  /\ \A t \in b..clock - 1 :
                          t - b < BeatEvery * (1 + Missing(b, t)')
                    /\ b < clock =>
                          clock - b <= BeatEvery * Missing(b, clock)'
  BY <1>1 DEF BeatInv, SilentSince, Missing, Pending, TypeOK
<1>2. b \in Int /\ clock \in Int /\ clock - 1 \in Int
  BY DEF TypeOK
<1>3. ASSUME NEW t \in b..clock - 1
      PROVE  /\ Missing(b, t)' = Missing(b, t)
             /\ t - b < BeatEvery * (1 + Missing(b, t))
  <2>1. Pending(b, t)' = Pending(b, t)
    <3>1. ~(new.at <= t)
      BY <1>1, <1>2
    <3> QED
      BY <1>1, <3>1 DEF Pending, Of
  <2>2. Missing(b, t)' = Missing(b, t)
    BY <1>1, <2>1 DEF Missing
  <2> QED
    BY <1>1, <2>2 DEF BeatInv
<1>4. ASSUME b < clock
      PROVE  clock - b <= BeatEvery * Missing(b, clock)'
  <2> DEFINE P == Pending(b, clock - 1)
             Q == Pending(b, clock)'
  <2>1. clock - 1 - b < BeatEvery * (1 + Missing(b, clock - 1))
    <3>1. clock - 1 \in b..clock - 1
      BY <1>2, <1>4
    <3> QED
      BY <1>3, <3>1
  <2>2. P \union {new} \in SUBSET Q /\ new \notin P
    <3>1. \A e \in Of("task.heartbeat", transit) : e.at \in Nat
      BY DEF TypeOK, Event, Of
    <3>2. P \subseteq Q
      BY <1>1, <1>2, <3>1 DEF Pending, Of
    <3>3. new \in Q
      BY <1>1, <1>2, <1>4 DEF Pending, Of
    <3>4. new \notin P
      BY <1>1, <1>2 DEF Pending
    <3> QED
      BY <3>2, <3>3, <3>4
  <2>3. IsFiniteSet(P) /\ Cardinality(P) \in Nat
    BY <1>2, PendingFinite
  <2>4. IsFiniteSet(Q) /\ Cardinality(Q) \in Nat
    BY <1>1, <1>2, PendingFiniteNext DEF Pending
  <2> HIDE DEF P, Q
  <2>5. Cardinality(P \union {new}) = Cardinality(P) + 1
    BY <2>2, <2>3, FS_AddElement
  <2>6. Cardinality(P \union {new}) <= Cardinality(Q)
    BY <2>2, <2>4, FS_Subset
  <2>7. 1 + Missing(b, clock - 1) <= Missing(b, clock)'
    <3>1. Missing(b, clock - 1) = lost + Cardinality(P)
      BY DEF Missing, P
    <3>2. Missing(b, clock)' = lost + Cardinality(Q)
      BY <1>1 DEF Missing, Q
    <3>3. lost \in Nat
      BY <1>2, PendingFinite
    <3> QED
      BY <2>3, <2>4, <2>5, <2>6, <3>1, <3>2, <3>3
  <2>8. Missing(b, clock - 1) \in Nat /\ Missing(b, clock)' \in Nat
    <3>1. Missing(b, clock - 1) \in Nat
      BY <1>2, PendingFinite
    <3>2. Missing(b, clock)' \in Nat
      BY <1>1, <1>2, PendingFiniteNext DEF Missing, Pending
    <3> QED
      BY <3>1, <3>2
  <2>9. BeatEvery * (1 + Missing(b, clock - 1)) <= BeatEvery * Missing(b, clock)'
    BY <2>7, <2>8, TimesOrder
  <2>10. /\ BeatEvery * (1 + Missing(b, clock - 1)) \in Int
         /\ BeatEvery * Missing(b, clock)' \in Int
    BY <2>8
  <2> QED
    BY <1>2, <2>1, <2>9, <2>10
<1> QED
  BY <1>3, <1>4

LEMMA BeatStep ==
    ASSUME TypeOK, TypeOK', NewestInv, BeatInv, Next
    PROVE  BeatInv'
<1> USE ConstantTypes
<1>0. clock \in Nat /\ (\A b \in 0..clock : b \in Int)
  BY DEF TypeOK
<1>1. ASSUME run' = "alive" => run = "alive",
             UNCHANGED <<clock, claimedAt, lastBeat, lost, stored>>,
             Of("task.heartbeat", transit') = Of("task.heartbeat", transit)
      PROVE  BeatInv'
  <2>1. \A b \in 0..clock : SilentSince(b)' =>
            /\ SilentSince(b)
            /\ \A t \in Int : Missing(b, t) <= Missing(b, t)'
    <3> SUFFICES ASSUME NEW b \in 0..clock, SilentSince(b)'
                 PROVE  /\ SilentSince(b)
                        /\ \A t \in Int : Missing(b, t) <= Missing(b, t)'
      OBVIOUS
    <3>1. SilentSince(b)
      BY <1>1 DEF SilentSince
    <3>2. ASSUME NEW t \in Int PROVE Missing(b, t) <= Missing(b, t)'
      <4>1. Missing(b, t)' = Missing(b, t)
        BY <1>1 DEF Missing, Pending
      <4>2. Missing(b, t) \in Nat
        BY <1>0, PendingFinite
      <4> QED
        BY <4>1, <4>2
    <3> QED
      BY <3>1, <3>2
  <2> QED
    BY <1>1, <2>1, BeatKept
<1>2. CASE Claim
  <2>1. clock' = clock /\ claimedAt' = clock /\ lastBeat' = -1
    BY <1>2, EmitAdds DEF Claim, Never
  <2>2. ASSUME NEW b \in 0..clock', SilentSince(b)'
        PROVE  /\ \A t \in b..clock' - 1 : FALSE
               /\ ~(b < lastBeat')
    <3>1. claimedAt' <= b
      BY <2>2 DEF SilentSince
    <3> QED
      BY <1>0, <2>1, <3>1
  <2> QED
    BY <2>2 DEF BeatInv
<1>3. CASE Die \/ Complete \/ Reject
  <2>1. run' # "alive"
    BY <1>3 DEF Die, Complete, Reject, Ends
  <2> QED
    BY <2>1 DEF BeatInv
<1>4. CASE WorkdirChanged
  <2>1. Of("task.heartbeat", transit') = Of("task.heartbeat", transit)
    BY <1>4, EmitAdds DEF WorkdirChanged, Of
  <2> QED
    BY <1>1, <1>4, <2>1, EmitAdds DEF WorkdirChanged
<1>5. CASE Poll \/ PollUnavailable
  BY <1>1, <1>5 DEF Poll, PollUnavailable, hostVars, wayVars
<1>6. ASSUME NEW e \in transit, Arrive(e) PROVE BeatInv'
  <2>1. UNCHANGED <<clock, run, claimedAt, lastBeat, lost>>
    BY <1>6, ArriveKeeps
  <2>2. PICK row \in Event :
           /\ row.type = e.type /\ row.at = e.at
           /\ transit' = transit \ {e}
           /\ stored' = (stored \union {row}) \ Superseded(stored \union {row})
    BY <1>6, ArriveStores
  <2> DEFINE S == stored \union {row}
  <2>3. \A x \in S : x.at \in Nat
    BY DEF TypeOK, Event
  <2>4. ASSUME NEW b \in 0..clock, SilentSince(b)'
        PROVE  \A x \in Of("task.heartbeat", S) : x.at <= b
    <3>1. \A x \in Of("task.heartbeat", S) :
              x \in stored' \/ (\E y \in Of("task.heartbeat", S) : y.at > x.at)
      BY <2>2 DEF Superseded, Of
    <3>2. \A x, y \in Of("task.heartbeat", stored) : x.at = y.at
      BY DEF NewestInv
    <3>3. \A x \in Of("task.heartbeat", stored') : x.at <= b
      BY <2>4 DEF SilentSince
    <3>4. ASSUME NEW x \in Of("task.heartbeat", S),
                 NEW y \in Of("task.heartbeat", S), y.at > x.at
          PROVE  y \in stored'
      <4>1. ASSUME NEW z \in Of("task.heartbeat", S) PROVE ~(z.at > y.at)
        <5>1. x.at \in Nat /\ y.at \in Nat /\ z.at \in Nat
          BY <2>3 DEF Of
        <5>2. /\ x \in Of("task.heartbeat", stored) \/ x = row
              /\ y \in Of("task.heartbeat", stored) \/ y = row
              /\ z \in Of("task.heartbeat", stored) \/ z = row
          BY DEF Of
        <5> QED
          BY <3>2, <3>4, <5>1, <5>2
      <4> QED
        BY <3>1, <4>1
    <3>5. ASSUME NEW x \in Of("task.heartbeat", S) PROVE x.at <= b
      <4>1. CASE x \in stored'
        BY <3>3, <4>1 DEF Of
      <4>2. CASE x \notin stored'
        <5>1. PICK y \in Of("task.heartbeat", S) : y.at > x.at
          BY <3>1, <4>2
        <5>2. y \in Of("task.heartbeat", stored')
          BY <3>4, <5>1 DEF Of
        <5>3. x.at \in Nat /\ y.at \in Nat /\ b \in Nat /\ y.at <= b
          BY <2>3, <3>3, <5>2, <1>0 DEF Of
        <5> QED
          BY <5>1, <5>3
      <4> QED
        BY <4>1, <4>2
    <3> QED
      BY <3>5
  <2>5. ASSUME NEW b \in 0..clock, SilentSince(b)'
        PROVE  /\ SilentSince(b)
               /\ \A t \in Int : Missing(b, t) <= Missing(b, t)'
    <3>1. SilentSince(b)
      BY <2>1, <2>4, <2>5 DEF SilentSince, Of
    <3>2. ASSUME NEW t \in Int PROVE Missing(b, t) <= Missing(b, t)'
      <4>1. e \notin Pending(b, t)
        <5>1. row.type = "task.heartbeat" => row.at <= b
          BY <2>4, <2>5 DEF Of
        <5>2. row.at \in Nat /\ b \in Int
          BY <1>0, <2>3
        <5> QED
          BY <2>2, <5>1, <5>2 DEF Pending, Of
      <4>2. Pending(b, t)' = Pending(b, t)
        BY <2>2, <4>1 DEF Pending, Of
      <4>3. Missing(b, t)' = Missing(b, t)
        BY <2>1, <4>2 DEF Missing
      <4>4. Missing(b, t) \in Nat
        BY <1>0, PendingFinite
      <4> QED
        BY <4>3, <4>4
    <3> QED
      BY <3>1, <3>2
  <2> QED
    BY <2>1, <2>5, BeatKept
<1>7. ASSUME NEW e \in transit, Lose(e) PROVE BeatInv'
  <2>1. /\ UNCHANGED <<clock, run, claimedAt, lastBeat, stored>>
        /\ transit' = transit \ {e} /\ lost' = lost + 1
    BY <1>7 DEF Lose, hostVars
  <2>2. ASSUME NEW b \in 0..clock, SilentSince(b)'
        PROVE  /\ SilentSince(b)
               /\ \A t \in Int : Missing(b, t) <= Missing(b, t)'
    <3>1. SilentSince(b)
      BY <2>1, <2>2 DEF SilentSince
    <3>2. ASSUME NEW t \in Int PROVE Missing(b, t) <= Missing(b, t)'
      <4>1. Pending(b, t)' = Pending(b, t) \ {e}
        BY <2>1 DEF Pending, Of
      <4>2. IsFiniteSet(Pending(b, t)) /\ Cardinality(Pending(b, t)) \in Nat
        BY <1>0, PendingFinite
      <4>3. Cardinality(Pending(b, t)) <= Cardinality(Pending(b, t) \ {e}) + 1
        <5>1. Cardinality(Pending(b, t) \ {e}) =
                 IF e \in Pending(b, t) THEN Cardinality(Pending(b, t)) - 1
                                       ELSE Cardinality(Pending(b, t))
          BY <4>2, FS_RemoveElement
        <5> QED
          BY <4>2, <5>1
      <4>4. Missing(b, t)' = lost + 1 + Cardinality(Pending(b, t) \ {e})
        BY <2>1, <4>1 DEF Missing
      <4>5. lost \in Nat /\ Cardinality(Pending(b, t) \ {e}) \in Nat
        BY <1>0, <4>2, PendingFinite, FS_RemoveElement, FS_CardinalityType
      <4> QED
        BY <4>2, <4>3, <4>4, <4>5 DEF Missing
    <3> QED
      BY <3>1, <3>2
  <2> QED
    BY <2>1, <2>2, BeatKept
<1> QED
  BY <1>2, <1>3, <1>4, <1>5, <1>6, <1>7, BeatTick, BeatEmitted DEF Next

-----------------------------------------------------------------------------
(* What a poll concludes. *)

\* The bounds of the properties.
LEMMA Bounds ==
    /\ Blind \in Nat /\ FirstBeat \in Nat
    /\ BeatEvery * (1 + MaxLost) \in Nat
    /\ FirstBeat = BeatEvery * (1 + MaxLost) + MaxDelay
    /\ Latest({StallS, FirstBeat}) =
          IF StallS >= FirstBeat THEN StallS ELSE FirstBeat
    /\ Latest({CrashS, MaxDelay}) =
          IF CrashS >= MaxDelay THEN CrashS ELSE MaxDelay
<1> USE ConstantTypes
<1>1. Blind \in Nat
  BY DEF Blind
<1>2. BeatEvery * (1 + MaxLost) \in Nat
  OBVIOUS
<1>3. FirstBeat \in Nat /\ FirstBeat = BeatEvery * (1 + MaxLost) + MaxDelay
  BY <1>2 DEF FirstBeat
<1> QED
  BY <1>1, <1>2, <1>3, LatestOfTwo

LEMMA LastReadBounds ==
    ASSUME TypeOK, TimeInv
    PROVE  LastRead \in Int /\ LastRead <= clock /\ clock <= LastRead + Blind
<1> USE ConstantTypes
<1>1. /\ misses \in Nat /\ misses <= MaxMisses
      /\ clock \in Nat /\ nextPoll \in Nat
      /\ clock <= nextPoll /\ nextPoll <= clock + Interval
  BY DEF TypeOK, TimeInv
<1>2. Interval * (1 + misses) <= Blind
  BY <1>1, TimesOrder DEF Blind
<1>3. Interval <= Interval * (1 + misses)
  <2>1. Interval * 1 <= Interval * (1 + misses)
    BY <1>1, TimesOrder
  <2> QED
    BY <2>1
<1>4. Interval * (1 + misses) \in Int
  BY <1>1
<1> QED
  BY <1>1, <1>2, <1>3, <1>4, Bounds DEF LastRead

LEMMA LastReadNext ==
    ASSUME TypeOK, Next
    PROVE  LastRead' = IF Poll THEN clock ELSE LastRead
<1> USE ConstantTypes
<1>0. misses \in Nat /\ clock \in Nat /\ nextPoll \in Nat
  BY DEF TypeOK
<1>1. CASE Poll
  <2>1. misses' = 0 /\ nextPoll' = clock + Interval
    BY <1>1 DEF Poll, Sleep
  <2> QED
    BY <1>0, <1>1, <2>1 DEF LastRead
<1>2. CASE ~Poll /\ PollUnavailable
  <2>1. misses' = misses + 1 /\ clock = nextPoll /\ nextPoll' = clock + Interval
    BY <1>2 DEF PollUnavailable, Sleep, Due
  <2>2. Interval * (1 + misses') = Interval * (1 + misses) + Interval
    BY <1>0, <2>1, TimesNext
  <2>3. Interval * (1 + misses) \in Int
    BY <1>0
  <2> QED
    BY <1>0, <1>2, <2>1, <2>2, <2>3 DEF LastRead
<1>3. CASE ~Poll /\ ~PollUnavailable
  <2>1. UNCHANGED <<nextPoll, misses>>
    BY <1>3 DEF Next, Tick, Claim, Heartbeat, WorkdirChanged, Die, Complete,
                Reject, Ends, Emits, Arrive, Lose, watchVars
  <2> QED
    BY <1>3, <2>1 DEF LastRead
<1> QED
  BY <1>1, <1>2, <1>3

\* If it does not exit, no rule has fired.
LEMMA QuietPoll ==
    ASSUME Poll, exit' = "no"
    PROVE  /\ ~Crashed(WatchState) /\ ~Stall(WatchState)
           /\ ~ApproachingTimeout(WatchState)
<1>1. Verdict(WatchState) = "OK"
  <2>1. CASE Verdict(WatchState) # "OK"
    BY <2>1 DEF Poll, Verdict
  <2> QED
    BY <2>1
<1> QED
  BY <1>1 DEF Verdict

LEMMA StateSeen ==
    /\ WatchState.claimed_at = ClaimedAt
    /\ WatchState.last_heartbeat_at = At("task.heartbeat")
    /\ WatchState.last_workdir_change_at = At("task.workdir_changed")
BY DEF WatchState

\* What is older than the delay can be read.
LEMMA OldIsStored ==
    ASSUME TypeOK, TimeInv, NEW e \in Surviving, clock - e.at > MaxDelay
    PROVE  e \in stored
<1>1. \A f \in transit : f.at \in Nat /\ clock - f.at <= MaxDelay
  BY DEF TypeOK, Event, TimeInv
<1>2. clock \in Nat /\ MaxDelay \in Nat
  BY ConstantTypes DEF TypeOK
<1>3. e \notin transit
  BY <1>1, <1>2
<1> QED
  BY <1>3 DEF Surviving

\* The run of a task is silent for no longer than FirstBeat.
LEMMA SilenceIsShort ==
    ASSUME TypeOK, TimeInv, BeatInv, run = "alive",
           NEW b \in 0..clock, SilentSince(b)
    PROVE  clock - b <= FirstBeat
<1> USE ConstantTypes
<1> DEFINE t == b + BeatEvery * (1 + MaxLost)
<1>1. b \in Nat /\ clock \in Nat /\ lost \in Nat /\ lost <= MaxLost
  BY DEF TypeOK
<1> SUFFICES ASSUME clock - b > FirstBeat PROVE FALSE
  BY <1>1, Bounds
<1>2. t \in Int /\ b <= t /\ t < clock - MaxDelay /\ t \in b..clock - 1
  BY <1>1, Bounds
<1>3. t - b < BeatEvery * (1 + Missing(b, t))
  BY <1>2 DEF BeatInv
<1>4. t - b = BeatEvery * (1 + MaxLost)
  BY <1>1, Bounds
<1> HIDE DEF t
<1>5. Pending(b, t) = {}
  <2>1. \A e \in transit : e.at \in Nat /\ clock - e.at <= MaxDelay
    BY DEF TypeOK, Event, TimeInv
  <2>2. \A e \in transit : ~(e.at <= t)
    BY <1>1, <1>2, <2>1
  <2> QED
    BY <2>2 DEF Pending, Of
<1>6. Missing(b, t) = lost
  BY <1>1, <1>5, FS_EmptySet DEF Missing
<1>7. BeatEvery * (1 + lost) <= BeatEvery * (1 + MaxLost)
  BY <1>1, TimesOrder
<1>8. BeatEvery * (1 + lost) \in Int
  BY <1>1
<1> QED
  BY <1>3, <1>4, <1>6, <1>7, <1>8, Bounds

LEMMA CrashPoll ==
    ASSUME TypeOK, TimeInv, HistoryInv, NewestInv, Poll, exit' = "no",
           lastBeat # Never, Of("task.heartbeat", Surviving) # {}
    PROVE  clock - lastBeat <= Latest({CrashS, MaxDelay})
<1> USE ConstantTypes
<1>1. PICK e \in Of("task.heartbeat", Surviving) : TRUE
  OBVIOUS
<1>2. /\ clock \in Nat /\ lastBeat \in Nat /\ e.at \in Nat
      /\ e.at <= lastBeat
  <2>1. e.at \in Nat
    BY DEF Of, Surviving, TypeOK, Event
  <2> QED
    BY <2>1, SignAndProgress DEF HistoryInv, TypeOK, Never
<1> SUFFICES ASSUME clock - e.at > CrashS, clock - e.at > MaxDelay PROVE FALSE
  BY <1>2, Bounds
<1>3. e \in Of("task.heartbeat", stored)
  BY OldIsStored DEF Of
<1>4. WatchState.last_heartbeat_at = e.at
  BY <1>3, SeenNewest, StateSeen
<1>5. Crashed(WatchState)
  BY <1>2, <1>4, NeverTerminal DEF Crashed, Never
<1> QED
  BY <1>5, QuietPoll

LEMMA StuckPoll ==
    ASSUME TypeOK, TimeInv, HistoryInv, NewestInv, FirstClaimInv, BeatInv,
           Poll, exit' = "no", run = "alive", Progress(Surviving) # {}
    PROVE  clock - LastProgress <= Latest({StallS, FirstBeat})
<1> USE ConstantTypes
<1>1. PICK e \in Progress(Surviving) : TRUE
  OBVIOUS
<1>2. /\ clock \in Nat /\ claimedAt \in 0..clock /\ LastProgress \in 0..clock
      /\ claimedAt <= LastProgress
  BY SignAndProgress DEF TypeOK, Never, TimeInv
<1> SUFFICES ASSUME clock - LastProgress > StallS,
                    clock - LastProgress > FirstBeat
             PROVE  FALSE
  BY <1>2, Bounds
<1>3. ASSUME NEW x \in Progress(Surviving)
      PROVE  x \in stored /\ x.at \in Nat /\ clock - x.at > StallS
  <2>1. x \in Surviving /\ x.at \in Nat
    BY DEF Progress, Surviving, TypeOK, Event
  <2>2. x.at <= LastProgress
    BY <1>3 DEF HistoryInv
  <2>3. clock - x.at > MaxDelay
    BY <1>2, <2>1, <2>2, Bounds
  <2> QED
    BY <1>2, <2>1, <2>2, <2>3, OldIsStored
<1>4. WatchState.last_heartbeat_at # Never
  <2>1. CASE Of("task.heartbeat", stored) = {}
    <3>1. SilentSince(claimedAt)
      BY <1>2, <2>1 DEF SilentSince
    <3>2. clock - claimedAt <= FirstBeat
      BY <1>2, <3>1, SilenceIsShort
    <3> QED
      BY <1>2, <3>2, Bounds
  <2>2. CASE Of("task.heartbeat", stored) # {}
    <3>1. PICK h \in Of("task.heartbeat", stored) : TRUE
      BY <2>2
    <3>2. h.at \in Nat
      BY DEF Of, TypeOK, Event
    <3> QED
      BY <3>1, <3>2, SeenNewest, StateSeen DEF Never
  <2> QED
    BY <2>1, <2>2
<1> DEFINE p == IF WatchState.last_workdir_change_at # Never
                THEN WatchState.last_workdir_change_at ELSE WatchState.claimed_at
<1>5. p \in Nat /\ clock - p > StallS
  <2>1. ASSUME NEW w \in Of("task.workdir_changed", stored)
        PROVE  p \in Nat /\ clock - p > StallS
    <3>1. w \in Progress(Surviving)
      BY DEF Progress, Of, Surviving
    <3>2. WatchState.last_workdir_change_at = w.at
      BY SeenNewest, StateSeen
    <3> QED
      BY <1>3, <3>1, <3>2 DEF Never
  <2>2. CASE Of("task.workdir_changed", stored) = {}
    <3>1. WatchState.last_workdir_change_at = Never
      BY <2>2, SeenNewest, StateSeen
    <3>2. e \in Of("task.claimed", stored)
      BY <1>3, <2>2 DEF Progress, Of
    <3>3. PICK f \in Of("task.claimed", stored) : f.id = 1
      BY <3>2 DEF FirstClaimInv
    <3>4. WatchState.claimed_at = f.at
      BY <3>3, SeenFirstClaim, StateSeen
    <3>5. f \in Progress(Surviving)
      BY DEF Progress, Of, Surviving
    <3> QED
      BY <1>3, <3>1, <3>4, <3>5
  <2> QED
    BY <2>1, <2>2
<1>6. Crashed(WatchState) \/ Stall(WatchState)
  <2>1. WatchState.last_heartbeat_at \in Nat
    <3>1. PICK h \in Of("task.heartbeat", stored) : TRUE
      BY <1>4, SeenNewest, StateSeen
    <3>2. h.at \in Nat
      BY DEF Of, TypeOK, Event
    <3> QED
      BY <3>1, <3>2, SeenNewest, StateSeen
  <2>2. p # Never
    BY <1>5 DEF Never
  <2> QED
    BY <1>2, <1>4, <1>5, <2>1, <2>2, NeverTerminal DEF Crashed, Stall
<1> QED
  BY <1>6, QuietPoll

LEMMA OverduePoll ==
    ASSUME TypeOK, TimeInv, FirstClaimInv, Poll, exit' = "no", TimeoutAt > 0,
           NEW e \in Of("task.claimed", Surviving)
    PROVE  clock - e.at <= TimeoutAt + MaxDelay
<1> USE ConstantTypes
<1>1. clock \in Nat /\ e.at \in Nat /\ e \in Surviving
  BY DEF TypeOK, Event, Of, Surviving
<1>2. CASE clock - e.at <= MaxDelay
  BY <1>1, <1>2
<1>3. CASE clock - e.at > MaxDelay
  <2>1. e \in Of("task.claimed", stored)
    BY <1>1, <1>3, OldIsStored DEF Of
  <2>2. PICK f \in Of("task.claimed", stored) : f.id = 1
    BY <2>1 DEF FirstClaimInv
  <2>3. f.at \in Nat /\ f.at <= e.at + MaxDelay
    BY <2>2 DEF FirstClaimInv, Of, TypeOK, Event
  <2>4. WatchState.claimed_at = f.at
    BY <2>2, SeenFirstClaim, StateSeen
  <2>5. clock - f.at <= TimeoutAt
    <3>1. ~ApproachingTimeout(WatchState)
      BY QuietPoll
    <3> QED
      BY <1>1, <2>3, <2>4, <3>1, NeverTerminal DEF ApproachingTimeout, Never
  <2> QED
    BY <1>1, <2>3, <2>5
<1> QED
  BY <1>1, <1>2, <1>3

-----------------------------------------------------------------------------
(* The steps between two reads. *)

\* What a step but a poll can do to the evidence.
LEMMA EvidenceKept ==
    ASSUME TypeOK, Next, ~Poll
    PROVE  /\ UNCHANGED exit
           /\ \A x \in Surviving' :
                 \/ \E y \in Surviving : y.type = x.type /\ y.at = x.at
                 \/ x.at = clock /\ x.type = "task.claimed" /\ Claim
                 \/ x.at = clock /\ x.type = "task.heartbeat" /\ Heartbeat
                 \/ x.at = clock /\ x.type = "task.workdir_changed"
                                /\ WorkdirChanged
                 \/ x.type = "task.state_changed"
<1> DEFINE Kept == \A x \in Surviving' :
                      \E y \in Surviving : y.type = x.type /\ y.at = x.at
<1>1. CASE Tick \/ Die \/ PollUnavailable
  BY <1>1 DEF Tick, Die, PollUnavailable, wayVars, watchVars, Surviving
<1>2. ASSUME NEW e \in transit, Arrive(e) PROVE Kept /\ UNCHANGED exit
  BY <1>2, ArriveKeeps
<1>3. ASSUME NEW e \in transit, Lose(e) PROVE Kept /\ UNCHANGED exit
  BY <1>3 DEF Lose, watchVars, Surviving
<1>4. CASE Claim
  BY <1>4, EmitAdds DEF Claim
<1>5. CASE Heartbeat
  BY <1>5, EmitAdds DEF Heartbeat
<1>6. CASE WorkdirChanged
  BY <1>6, EmitAdds DEF WorkdirChanged
<1>7. CASE Complete \/ Reject
  BY <1>7, EmitAdds DEF Complete, Reject, Ends
<1> QED
  BY <1>1, <1>2, <1>3, <1>4, <1>5, <1>6, <1>7 DEF Next

LEMMA StuckStep ==
    ASSUME TypeOK, TypeOK', TimeInv, HistoryInv, NewestInv, FirstClaimInv,
           BeatInv, StuckInv, Next
    PROVE  StuckInv'
<1> USE ConstantTypes
<1> SUFFICES ASSUME exit' = "no", run' = "alive", Progress(Surviving') # {}
             PROVE  LastRead' - LastProgress' <= Latest({StallS, FirstBeat})
  BY DEF StuckInv, Progress
<1> DEFINE B == Latest({StallS, FirstBeat})
<1>1. /\ LastRead \in Int /\ LastRead <= clock /\ clock \in Nat
      /\ LastProgress \in Int /\ B \in Nat
  BY LastReadBounds, SignAndProgress, Bounds DEF TypeOK, Never
<1>2. CASE Poll
  <2>1. UNCHANGED <<run, LastProgress, Surviving>>
    BY <1>2 DEF Poll, hostVars, wayVars, LastProgress, Surviving
  <2>2. clock - LastProgress <= B
    BY <1>2, <2>1, StuckPoll
  <2> QED
    BY <1>1, <1>2, <2>1, <2>2, LastReadNext
<1>3. CASE Claim \/ WorkdirChanged
  <2>1. UNCHANGED <<clock, nextPoll, misses>>
    BY <1>3, EmitAdds DEF Claim, WorkdirChanged
  <2>2. LastProgress' = clock
    BY <1>1, <1>3, <2>1, SignAndProgressNext
       DEF Claim, WorkdirChanged, Never, TypeOK
  <2>3. LastRead' = LastRead
    BY <2>1 DEF LastRead
  <2> QED
    BY <1>1, <2>2, <2>3
<1>4. CASE ~Poll /\ ~Claim /\ ~WorkdirChanged
  <2>1. /\ run = "alive" /\ exit = "no"
        /\ UNCHANGED <<claimedAt, lastChange>>
    <3>1. CASE Tick \/ Heartbeat \/ Die \/ Complete \/ Reject \/ PollUnavailable
      BY <3>1 DEF Tick, Heartbeat, Die, Complete, Reject, Ends, Emits,
                  PollUnavailable, hostVars, watchVars
    <3>2. CASE \E e \in transit : Arrive(e) \/ Lose(e)
      BY <3>2 DEF Arrive, Lose, hostVars, watchVars
    <3> QED
      BY <1>4, <3>1, <3>2 DEF Next
  <2>2. Progress(Surviving) # {}
    BY <1>4, EvidenceKept DEF Progress
  <2>3. LastRead' = LastRead
    BY <1>4, LastReadNext
  <2>4. LastProgress' = LastProgress
    BY <2>1 DEF LastProgress
  <2> QED
    BY <2>1, <2>2, <2>3, <2>4 DEF StuckInv
<1> QED
  BY <1>2, <1>3, <1>4

LEMMA CrashStep ==
    ASSUME TypeOK, TypeOK', TimeInv, HistoryInv, NewestInv, CrashInv, Next
    PROVE  CrashInv'
<1> USE ConstantTypes
<1> SUFFICES ASSUME exit' = "no", lastBeat' # Never,
                    Of("task.heartbeat", Surviving') # {}
             PROVE  LastRead' - lastBeat' <= Latest({CrashS, MaxDelay})
  BY DEF CrashInv, Of
<1> DEFINE B == Latest({CrashS, MaxDelay})
<1>1. LastRead \in Int /\ LastRead <= clock /\ clock \in Nat /\ B \in Nat
  BY LastReadBounds, Bounds DEF TypeOK
<1>2. CASE Poll
  <2>1. UNCHANGED <<lastBeat, Surviving>>
    BY <1>2 DEF Poll, hostVars, wayVars, Surviving
  <2>2. clock - lastBeat <= B
    BY <1>2, <2>1, CrashPoll
  <2> QED
    BY <1>2, <2>1, <2>2, LastReadNext
<1>3. CASE Heartbeat
  <2>1. LastRead' = LastRead /\ lastBeat' = clock
    BY <1>3, EmitAdds DEF Heartbeat, LastRead
  <2> QED
    BY <1>1, <2>1
<1>4. CASE ~Poll /\ ~Heartbeat
  <2>1. exit = "no" /\ lastBeat' = lastBeat
    <3>1. CASE Tick \/ Claim \/ WorkdirChanged \/ Die \/ Complete \/ Reject
                 \/ PollUnavailable
      BY <3>1 DEF Tick, Claim, WorkdirChanged, Die, Complete, Reject, Ends,
                  Emits, PollUnavailable, hostVars, watchVars
    <3>2. CASE \E e \in transit : Arrive(e) \/ Lose(e)
      BY <3>2 DEF Arrive, Lose, hostVars, watchVars
    <3> QED
      BY <1>4, <3>1, <3>2 DEF Next
  <2>2. Of("task.heartbeat", Surviving) # {}
    BY <1>4, EvidenceKept DEF Of
  <2>3. LastRead' = LastRead
    BY <1>4, LastReadNext
  <2> QED
    BY <2>1, <2>2, <2>3 DEF CrashInv
<1> QED
  BY <1>2, <1>3, <1>4

LEMMA OverdueStep ==
    ASSUME TypeOK, TypeOK', TimeInv, FirstClaimInv, OverdueInv, Next
    PROVE  OverdueInv'
<1> USE ConstantTypes
<1> SUFFICES ASSUME exit' = "no", TimeoutAt > 0,
                    NEW x \in Of("task.claimed", Surviving')
             PROVE  LastRead' - x.at <= TimeoutAt + MaxDelay
  BY DEF OverdueInv, Of
<1>1. LastRead \in Int /\ LastRead <= clock /\ clock \in Nat
  BY LastReadBounds DEF TypeOK
<1>2. CASE Poll
  <2>1. UNCHANGED Surviving
    BY <1>2 DEF Poll, wayVars, Surviving
  <2>2. clock - x.at <= TimeoutAt + MaxDelay
    BY <1>2, <2>1, OverduePoll DEF Of
  <2> QED
    BY <1>2, <2>2, LastReadNext
<1>3. CASE ~Poll
  <2>1. LastRead' = LastRead /\ exit = "no"
    BY <1>3, LastReadNext, EvidenceKept
  <2>2. CASE x.at = clock
    BY <1>1, <2>1, <2>2
  <2>3. CASE \E y \in Surviving : y.type = x.type /\ y.at = x.at
    <3>1. PICK y \in Of("task.claimed", Surviving) : y.at = x.at
      BY <2>3 DEF Of
    <3> QED
      BY <2>1, <3>1 DEF OverdueInv
  <2> QED
    BY <1>3, <2>2, <2>3, EvidenceKept DEF Of
<1> QED
  BY <1>2, <1>3

-----------------------------------------------------------------------------
(* The theorems. *)

LEMMA WatchInvInit == Init => WatchInv
<1> SUFFICES ASSUME Init PROVE WatchInv
  OBVIOUS
<1> USE ConstantTypes DEF Init, Never
<1>1. TypeOK
  BY TypeInit
<1>2. TimeInv /\ HistoryInv
  BY DEF TimeInv, HistoryInv, Surviving, Of, Progress
<1>3. NewestInv /\ FirstClaimInv /\ BeatInv
  BY DEF NewestInv, FirstClaimInv, BeatInv, Surviving, Of
<1>4. StuckInv /\ CrashInv /\ OverdueInv
  BY DEF StuckInv, CrashInv, OverdueInv, Surviving, Of
<1> QED
  BY <1>1, <1>2, <1>3, <1>4 DEF WatchInv

LEMMA WatchInvStep ==
    ASSUME WatchInv, [exit = "no" /\ Next]_vars
    PROVE  WatchInv'
<1>1. CASE UNCHANGED vars
  BY <1>1 DEF vars, hostVars, wayVars, watchVars, WatchInv, TypeOK, TimeInv,
              HistoryInv, NewestInv, FirstClaimInv, BeatInv, StuckInv, CrashInv,
              OverdueInv, LastRead, LastSign, LastProgress, Progress, Surviving,
              SilentSince, Missing, Pending, Of
<1>2. CASE Next
  <2>1. TypeOK'
    BY <1>2, TypeStep DEF WatchInv
  <2>2. TimeInv' /\ HistoryInv'
    BY <1>2, <2>1, TimeStep, HistoryStep DEF WatchInv
  <2>3. NewestInv' /\ FirstClaimInv'
    BY <1>2, <2>1, NewestStep, FirstClaimStep DEF WatchInv
  <2>4. BeatInv'
    BY <1>2, <2>1, BeatStep DEF WatchInv
  <2>5. StuckInv' /\ CrashInv' /\ OverdueInv'
    BY <1>2, <2>1, StuckStep, CrashStep, OverdueStep DEF WatchInv
  <2> QED
    BY <2>1, <2>2, <2>3, <2>4, <2>5 DEF WatchInv
<1> QED
  BY <1>1, <1>2

\* The inductive invariant of the watched task, its events and the watch loop.
THEOREM WatchInvariance == Spec => []WatchInv
BY WatchInvInit, WatchInvStep, PTL DEF Spec

\* A live run without progress is reported within stall_seconds and the time
\* the watch may be blind, as soon as a heartbeat can be read.
THEOREM StuckReported == Spec => []StuckIsCaught
<1>1. WatchInv => StuckIsCaught
  <2> SUFFICES ASSUME WatchInv, exit = "no", run = "alive",
                      \E e \in Surviving :
                          e.type \in {"task.claimed", "task.workdir_changed"}
               PROVE  clock - LastProgress
                          <= Latest({StallS, FirstBeat}) + Blind
    BY DEF StuckIsCaught, LastProgress
  <2>1. LastRead - LastProgress <= Latest({StallS, FirstBeat})
    BY DEF WatchInv, StuckInv, Progress
  <2>2. /\ LastRead \in Int /\ clock \in Int /\ LastProgress \in Int
        /\ clock <= LastRead + Blind
    BY LastReadBounds, SignAndProgress DEF WatchInv, TypeOK, Never
  <2>3. Blind \in Nat /\ Latest({StallS, FirstBeat}) \in Nat
    BY Bounds, ConstantTypes
  <2> QED
    BY <2>1, <2>2, <2>3
<1> QED
  BY <1>1, WatchInvariance, PTL

\* A run that died is reported within crash_seconds and that time, measured
\* from its last heartbeat whether or not that one arrived.
THEOREM CrashReported == Spec => []CrashIsCaught
<1>1. WatchInv => CrashIsCaught
  <2> SUFFICES ASSUME WatchInv, exit = "no", lastBeat # Never,
                      Of("task.heartbeat", Surviving) # {}
               PROVE  clock - lastBeat <= Latest({CrashS, MaxDelay}) + Blind
    BY DEF CrashIsCaught
  <2>1. LastRead - lastBeat <= Latest({CrashS, MaxDelay})
    BY DEF WatchInv, CrashInv
  <2>2. /\ LastRead \in Int /\ clock \in Int /\ lastBeat \in Int
        /\ clock <= LastRead + Blind
    BY LastReadBounds DEF WatchInv, TypeOK, Never
  <2>3. Blind \in Nat /\ Latest({CrashS, MaxDelay}) \in Nat
    BY Bounds, ConstantTypes
  <2> QED
    BY <2>1, <2>2, <2>3
<1> QED
  BY <1>1, WatchInvariance, PTL

\* A task is reported when the time since its first claim is nearly up,
\* however often it has been claimed since.
THEOREM OverdueReported == Spec => []OverdueIsCaught
<1>1. WatchInv => OverdueIsCaught
  <2> SUFFICES ASSUME WatchInv, TimeoutAt > 0, exit = "no",
                      NEW e \in Of("task.claimed", Surviving)
               PROVE  clock - e.at <= TimeoutAt + Blind + MaxDelay
    BY DEF OverdueIsCaught
  <2>1. LastRead - e.at <= TimeoutAt + MaxDelay
    BY DEF WatchInv, OverdueInv
  <2>2. /\ LastRead \in Int /\ clock \in Int /\ e.at \in Int
        /\ clock <= LastRead + Blind
    BY LastReadBounds DEF WatchInv, TypeOK, Event, Of, Surviving
  <2> QED
    BY <2>1, <2>2, Bounds, ConstantTypes
<1> QED
  BY <1>1, WatchInvariance, PTL

\* Only a poll raises an alert, and the rule it names has fired.
LEMMA AlertRule ==
    ASSUME TypeOK, Next, exit = "no"
    PROVE  /\ exit' = "CRASHED" => Poll /\ Crashed(WatchState)
           /\ exit' = "STALLED" => Poll /\ Stall(WatchState)
<1>1. ASSUME exit' # "no" PROVE Poll
  BY <1>1, EvidenceKept
<1>2. ASSUME Poll, exit' \in {"CRASHED", "STALLED"}
      PROVE  Verdict(WatchState) = exit'
  BY <1>2 DEF Poll
<1>3. Verdict(WatchState) = "CRASHED" => Crashed(WatchState)
  BY DEF Verdict
<1>4. Verdict(WatchState) = "STALLED" => Stall(WatchState)
  BY DEF Verdict
<1> QED
  BY <1>1, <1>2, <1>3, <1>4

\* If crash_seconds covers the silence that losses and delay can cause, a live
\* run is never reported CRASHED on the evidence of its own heartbeats.
THEOREM CrashedForCause == Spec => NoFalseCrash
<1>1. ASSUME WatchInv, [exit = "no" /\ Next]_vars, FirstBeat <= CrashS,
             exit = "no", exit' = "CRASHED", run = "alive"
      PROVE  /\ Of("task.heartbeat", stored) # {}
             /\ \A e \in Of("task.heartbeat", stored) : e.at < claimedAt
  <2> USE ConstantTypes
  <2> TypeOK /\ TimeInv /\ NewestInv /\ BeatInv
    BY <1>1 DEF WatchInv
  <2>1. Next
    BY <1>1 DEF vars, watchVars
  <2>2. Crashed(WatchState)
    BY <1>1, <2>1, AlertRule
  <2>3. Of("task.heartbeat", stored) # {}
    BY <2>2, SeenNewest, StateSeen DEF Crashed
  <2>4. ASSUME NEW e \in Of("task.heartbeat", stored), ~(e.at < claimedAt)
        PROVE  FALSE
    <3>1. WatchState.last_heartbeat_at = e.at
      BY SeenNewest, StateSeen
    <3>2. clock - e.at > CrashS
      BY <2>2, <3>1 DEF Crashed
    <3>3. /\ e.at \in Nat /\ e.at <= clock /\ clock \in Nat
          /\ claimedAt \in Int
      BY DEF TypeOK, TimeInv, Event, Of, Surviving, Never
    <3>4. \A f \in Of("task.heartbeat", stored) : f.at <= e.at
      BY <3>3 DEF NewestInv
    <3>5. SilentSince(e.at)
      BY <2>4, <3>3, <3>4 DEF SilentSince
    <3>6. clock - e.at <= FirstBeat
      BY <1>1, <3>3, <3>5, SilenceIsShort
    <3> QED
      BY <1>1, <3>2, <3>3, <3>6, Bounds
  <2> QED
    BY <2>3, <2>4
<1>2. WatchInv /\ [exit = "no" /\ Next]_vars =>
        [FirstBeat <= CrashS /\ exit = "no" /\ exit' = "CRASHED"
            /\ run = "alive" =>
              /\ Of("task.heartbeat", stored) # {}
              /\ \A e \in Of("task.heartbeat", stored) : e.at < claimedAt]_vars
  BY <1>1
<1> QED
  BY <1>2, WatchInvariance, PTL DEF Spec, NoFalseCrash

\* STALLED is said only on readable evidence older than stall_seconds, which
\* no workdir change contradicts that had the time to arrive.
THEOREM StalledForCause == Spec => NoFalseStall
<1>1. ASSUME WatchInv, [exit = "no" /\ Next]_vars,
             exit = "no", exit' = "STALLED"
      PROVE  /\ \E e \in stored :
                   /\ e.type \in {"task.claimed", "task.workdir_changed"}
                   /\ clock - e.at > StallS
             /\ \A e \in Of("task.workdir_changed", Surviving) :
                   clock - e.at > StallS \/ clock - e.at <= MaxDelay
  <2> USE ConstantTypes
  <2> TypeOK /\ TimeInv /\ NewestInv /\ FirstClaimInv
    BY <1>1 DEF WatchInv
  <2>1. Next
    BY <1>1 DEF vars, watchVars
  <2>2. Stall(WatchState)
    BY <1>1, <2>1, AlertRule
  <2>3. ASSUME NEW w \in Of("task.workdir_changed", stored)
        PROVE  clock - w.at > StallS
    <3>1. WatchState.last_workdir_change_at = w.at /\ w.at # Never
      <4>1. w.at \in Nat
        BY DEF TypeOK, Event, Of
      <4> QED
        BY <4>1, SeenNewest, StateSeen DEF Never
    <3> QED
      BY <2>2, <3>1 DEF Stall
  <2>4. \E e \in stored :
           /\ e.type \in {"task.claimed", "task.workdir_changed"}
           /\ clock - e.at > StallS
    <3>1. CASE Of("task.workdir_changed", stored) # {}
      BY <2>3, <3>1 DEF Of
    <3>2. CASE Of("task.workdir_changed", stored) = {}
      <4>1. WatchState.last_workdir_change_at = Never
        BY <3>2, SeenNewest, StateSeen
      <4>2. WatchState.claimed_at # Never /\ clock - WatchState.claimed_at > StallS
        BY <2>2, <4>1 DEF Stall
      <4>3. PICK f \in Of("task.claimed", stored) : f.id = 1
        BY <4>2, SeenFirstClaim, StateSeen DEF FirstClaimInv
      <4>4. WatchState.claimed_at = f.at
        BY <4>3, SeenFirstClaim, StateSeen
      <4> QED
        BY <4>2, <4>4 DEF Of
    <3> QED
      BY <3>1, <3>2
  <2>5. ASSUME NEW e \in Of("task.workdir_changed", Surviving)
        PROVE  clock - e.at > StallS \/ clock - e.at <= MaxDelay
    BY <2>3 DEF TimeInv, Surviving, Of
  <2> QED
    BY <2>4, <2>5
<1> QED
  BY <1>1, WatchInvariance, PTL DEF Spec, NoFalseStall
=============================================================================
