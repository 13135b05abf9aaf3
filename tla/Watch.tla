-------------------------------- MODULE Watch --------------------------------
(***************************************************************************)
(* vfobs-watch: every interval it reads the task's events through          *)
(* ReadClient, folds them into a WatchState, asks the anomaly rules for a  *)
(* verdict and exits on the first alert.  Here it watches a task that is   *)
(* claimed, heartbeats, changes its workdir, and dies, is done, or is      *)
(* rejected and claimed again, while its events take time to become        *)
(* readable, some are lost on the way and some reads fail.                 *)
(*                                                                         *)
(* Time is counted in ticks by one clock, from the moment of the first     *)
(* claim: the watch was started before it, and is in any phase of its loop.*)
(***************************************************************************)
EXTENDS Integers, FiniteSets

CONSTANTS
    MaxTime,    \* bound of the clock
    MaxClaims,  \* how often the task is claimed
    BeatEvery,  \* a live run's heartbeat period
    MaxDelay,   \* from an event's timestamp to its being readable
    MaxLost,    \* how many events the emitter and the network lose
    Interval,   \* --interval
    MaxMisses,  \* reads that may fail in a row
    StallS,     \* --stall-seconds
    CrashS,     \* --crash-seconds
    TimeoutAt   \* --fraction times --task-timeout

ASSUME WatchAssumption ==
    /\ {MaxTime, MaxClaims, MaxDelay, MaxLost, MaxMisses} \subseteq Nat
    /\ {StallS, CrashS, TimeoutAt} \subseteq Nat
    /\ {BeatEvery, Interval} \subseteq Nat \ {0}

VARIABLES
    clock,
    run,        \* "unclaimed", "alive", "dead" or "over"
    claims,     \* how often the task has been claimed
    claimedAt,  \* when the run was claimed, Never before
    lastBeat,   \* the run's last heartbeat
    lastChange, \* the run's last workdir change
    transit,    \* events emitted and not yet readable
    lost,       \* how many were lost
    stored,     \* the task's readable events, but for those superseded
    nextPoll,   \* when the watch loop wakes up
    misses,     \* reads that failed in a row
    exit        \* "no", "clean" (status 0) or an alert (status 2)

hostVars == <<run, claims, claimedAt, lastBeat, lastChange>>
wayVars == <<transit, lost, stored>>
watchVars == <<nextPoll, misses, exit>>
vars == <<clock, hostVars, wayVars, watchVars>>

Never == -1
Latest(S) == IF S = {} THEN Never ELSE CHOOSE t \in S : \A u \in S : u <= t
Of(type, S) == {e \in S : e.type = type}

Init ==
    /\ clock = 0
    /\ run = "unclaimed" /\ claims = 0
    /\ claimedAt = Never /\ lastBeat = Never /\ lastChange = Never
    /\ transit = {} /\ lost = 0 /\ stored = {}
    /\ nextPoll \in 0..Interval /\ misses \in 0..MaxMisses
    /\ exit = "no"

-----------------------------------------------------------------------------
(* The run and the way of its events. *)

\* Nothing that is due may be late: the next poll of a running watch, the
\* next heartbeat of a live run, an event's arrival.
Tick ==
    /\ clock < MaxTime
    /\ claims > 0
    /\ clock < nextPoll
    /\ run = "alive" => clock - Latest({claimedAt, lastBeat}) < BeatEvery
    /\ \A e \in transit : clock - e.at < MaxDelay
    /\ clock' = clock + 1
    /\ UNCHANGED <<hostVars, wayVars, watchVars>>

\* The id of an event is settled when it is stored.
Emits(type, status) ==
    /\ transit' = transit \union
                    {[type |-> type, at |-> clock, to |-> status, id |-> 0]}
    /\ UNCHANGED <<clock, lost, stored, watchVars>>

Claim ==
    /\ run = "unclaimed"
    /\ claims < MaxClaims
    /\ run' = "alive"
    /\ claims' = claims + 1
    /\ claimedAt' = clock
    /\ lastBeat' = Never /\ lastChange' = Never
    /\ Emits("task.claimed", "none")

Heartbeat ==
    /\ run = "alive"
    /\ lastBeat # clock
    /\ lastBeat' = clock
    /\ Emits("task.heartbeat", "none")
    /\ UNCHANGED <<run, claims, claimedAt, lastChange>>

WorkdirChanged ==
    /\ run = "alive"
    /\ lastChange # clock
    /\ lastChange' = clock
    /\ Emits("task.workdir_changed", "none")
    /\ UNCHANGED <<run, claims, claimedAt, lastBeat>>

\* The host process dies: nothing more is emitted.
Die ==
    /\ run = "alive"
    /\ run' = "dead"
    /\ UNCHANGED <<clock, claims, claimedAt, lastBeat, lastChange, wayVars,
                   watchVars>>

Ends(as, status) ==
    /\ run = "alive"
    /\ run' = as
    /\ Emits("task.state_changed", status)
    /\ UNCHANGED <<claims, claimedAt, lastBeat, lastChange>>

Complete == Ends("over", "done")

\* The judge rejects the work: the task can be claimed again.
Reject == Ends("unclaimed", "rejected")

\* from_events looks at the newest heartbeat and workdir change only.
Superseded(S) ==
    {e \in S : /\ e.type \in {"task.heartbeat", "task.workdir_changed"}
               /\ \E f \in Of(e.type, S) : f.at > e.at}

\* The event is readable.  Ids are compared among claims only.
Arrive(e) ==
    LET row == [e EXCEPT !.id = IF e.type = "task.claimed"
                                THEN Cardinality(Of(e.type, stored)) + 1 ELSE 0]
        S == stored \union {row}
    IN  /\ transit' = transit \ {e}
        /\ stored' = S \ Superseded(S)
        /\ UNCHANGED <<clock, hostVars, lost, watchVars>>

\* Dropped by a full queue, or its POST failed.
Lose(e) ==
    /\ lost < MaxLost
    /\ lost' = lost + 1
    /\ transit' = transit \ {e}
    /\ UNCHANGED <<clock, hostVars, stored, watchVars>>

-----------------------------------------------------------------------------
(* What one poll sees. *)

Terminal == {"done", "failed", "cancelled", "rejected"}

\* StoredEvent declares its event as the base class Event, so the answer of
\* GET /tasks/{id}/events carries the envelope only, and ReadClient fills in
\* an empty dict for the missing data: no view has a to_status.
View(e) == [e EXCEPT !.to = "none"]

Seen(type) == Of(type, {View(x) : x \in stored})
At(type) == Latest({e.at : e \in Seen(type)})

\* A wrong variant of ClaimedAt: the last claim.
ClaimedAtLast == At("task.claimed")

\* The first claim in the order of the list, which is that of the ids.
ClaimedAt ==
    Latest({e.at : e \in {x \in Seen("task.claimed") :
                             \A y \in Seen("task.claimed") : x.id <= y.id}})

\* WatchState.from_events; Never is None.
WatchState ==
    [claimed_at |-> ClaimedAt,
     last_heartbeat_at |-> At("task.heartbeat"),
     last_workdir_change_at |-> At("task.workdir_changed"),
     terminal |-> \E e \in Seen("task.state_changed") : e.to \in Terminal]

\* Wrong variants of Crashed: the operands swapped; the claim stands in for
\* a heartbeat that has not been seen.
CrashedSwapped(s) ==
    /\ ~s.terminal
    /\ s.last_heartbeat_at # Never
    /\ s.last_heartbeat_at - clock > CrashS

CrashedFromClaim(s) ==
    /\ ~s.terminal
    /\ s.claimed_at # Never
    /\ clock - Latest({s.claimed_at, s.last_heartbeat_at}) > CrashS

Crashed(s) ==
    /\ ~s.terminal
    /\ s.last_heartbeat_at # Never
    /\ clock - s.last_heartbeat_at > CrashS

\* Wrong variants of Stall: a heartbeat is taken for progress; workdir changes
\* are not looked at.
StallFromHeartbeat(s) ==
    /\ ~s.terminal
    /\ s.last_heartbeat_at # Never
    /\ clock - s.last_heartbeat_at <= CrashS
    /\ clock - s.last_heartbeat_at > StallS

StallFromClaim(s) ==
    /\ ~s.terminal
    /\ s.last_heartbeat_at # Never
    /\ clock - s.last_heartbeat_at <= CrashS
    /\ s.claimed_at # Never
    /\ clock - s.claimed_at > StallS

\* Progress is the last workdir change or, before any, the claim.
Stall(s) ==
    LET progressed_at == IF s.last_workdir_change_at # Never
                         THEN s.last_workdir_change_at ELSE s.claimed_at
    IN  /\ ~s.terminal
        /\ s.last_heartbeat_at # Never
        /\ clock - s.last_heartbeat_at <= CrashS
        /\ progressed_at # Never
        /\ clock - progressed_at > StallS

ApproachingTimeout(s) ==
    /\ ~s.terminal
    /\ s.claimed_at # Never
    /\ TimeoutAt > 0
    /\ clock - s.claimed_at > TimeoutAt

\* evaluate with default_rules: the first rule that fires decides.
Verdict(s) ==
    CASE Crashed(s) -> "CRASHED"
      [] ~Crashed(s) /\ Stall(s) -> "STALLED"
      [] ~Crashed(s) /\ ~Stall(s) /\ ApproachingTimeout(s)
           -> "APPROACHING_TIMEOUT"
      [] OTHER -> "OK"

-----------------------------------------------------------------------------
(* The watch loop. *)

Due == clock = nextPoll

Sleep == nextPoll' = clock + Interval

\* The read succeeds: exit 2 on an alert, 0 on a terminal task, else sleep.
Poll ==
    /\ Due
    /\ exit' = IF Verdict(WatchState) # "OK" THEN Verdict(WatchState)
               ELSE IF WatchState.terminal THEN "clean" ELSE "no"
    /\ misses' = 0
    /\ Sleep
    /\ UNCHANGED <<clock, hostVars, wayVars>>

\* ReadUnavailable: an OK for this tick, and on it goes.
PollUnavailable ==
    /\ Due
    /\ misses < MaxMisses
    /\ misses' = misses + 1
    /\ Sleep
    /\ UNCHANGED <<clock, hostVars, wayVars, exit>>

Next ==
    \/ Tick
    \/ Claim \/ Heartbeat \/ WorkdirChanged \/ Die \/ Complete \/ Reject
    \/ \E e \in transit : Arrive(e) \/ Lose(e)
    \/ Poll \/ PollUnavailable

\* What happens to the task after the watch has exited concerns nobody here.
Spec == Init /\ [][exit = "no" /\ Next]_vars

-----------------------------------------------------------------------------
\* The events that are readable or will be.
Surviving == transit \union stored

\* The longest time between two reads that succeed, and the longest time until
\* a heartbeat of a live run can be read.
Blind == Interval * (1 + MaxMisses)
FirstBeat == BeatEvery * (1 + MaxLost) + MaxDelay

\* If crash_seconds covers the loss of MaxLost heartbeats and the delay of the
\* next, a live run that heartbeats in time is reported CRASHED only on the
\* evidence of an earlier run, before a heartbeat of its own can be read.
NoFalseCrash ==
    [][FirstBeat <= CrashS /\ exit = "no" /\ exit' = "CRASHED" /\ run = "alive" =>
          /\ Of("task.heartbeat", stored) # {}
          /\ \A e \in Of("task.heartbeat", stored) : e.at < claimedAt]_vars

\* STALLED is said only if something readable is older than stall_seconds and
\* no workdir change has survived since then, but for changes so recent that
\* they may not have arrived.
NoFalseStall ==
    [][exit = "no" /\ exit' = "STALLED" =>
          /\ \E e \in stored :
                /\ e.type \in {"task.claimed", "task.workdir_changed"}
                /\ clock - e.at > StallS
          /\ \A e \in Of("task.workdir_changed", Surviving) :
                clock - e.at > StallS \/ clock - e.at <= MaxDelay]_vars

\* The pi-hang: a live run without progress is reported within stall_seconds
\* and the time the watch may be blind, as soon as a heartbeat can be read,
\* unless every sign of progress was lost, the claim too.
StuckIsCaught ==
    /\ exit = "no"
    /\ run = "alive"
    /\ \E e \in Surviving : e.type \in {"task.claimed", "task.workdir_changed"}
    => clock - Latest({claimedAt, lastChange})
            <= Latest({StallS, FirstBeat}) + Blind

\* A run that died is reported within crash_seconds (or, where they are less,
\* the delay of an event) and that time, measured from its last heartbeat even
\* if that one was lost, provided any heartbeat of the task survived.
CrashIsCaught ==
    /\ exit = "no"
    /\ run = "dead" /\ lastBeat # Never
    /\ Of("task.heartbeat", Surviving) # {}
    => clock - lastBeat <= Latest({CrashS, MaxDelay}) + Blind

\* A task that is not over is reported when the time since its first claim is
\* nearly up, whether it heartbeats or not and however often it was claimed
\* since.  A lost claim is no claim, and without a time budget there is no rule.
OverdueIsCaught ==
    TimeoutAt > 0 /\ exit = "no" /\ run # "over" =>
        \A e \in Of("task.claimed", Surviving) :
            clock - e.at <= TimeoutAt + Blind + MaxDelay

\* test_no_rule_fires_when_terminal: a task whose terminal state change can be
\* read raises no alert.  On the wire the status is not there to be read.
FinishedIsNotAlerted ==
    [][exit = "no" /\ exit' \in {"CRASHED", "STALLED", "APPROACHING_TIMEOUT"} =>
          ~(run = "over" /\ \E e \in stored : e.to = "done")]_vars
=============================================================================
