--------------------------- MODULE AlertEvaluator ---------------------------
(***************************************************************************)
(* AlertEvaluator: twelve detectors, evaluated one after the other after    *)
(* every tick, each a small machine that arms, fires and recovers, with the *)
(* alerts table as its memory over restarts.  With it the below-floor timer *)
(* that one of the detectors reads, which the tick persists.                *)
(*                                                                          *)
(* A pass is over before the next tick begins: it waits for at most a few   *)
(* POSTs with a timeout of seconds.  Time is counted in ticks.              *)
(***************************************************************************)
EXTENDS Daemon, Sequences, SequencesExt

CONSTANTS
    Views,          \* what a tick may find
    Patience,       \* minutes a condition lasts before its alert
    StreakTicks,    \* MUTATION_FAILED_STREAK_TICKS
    FloorDebounce,  \* FLOOR_DEBOUNCE_TICKS
    MaxRows         \* bound on the rows written: no tick begins beyond it

ASSUME EvaluatorAssumption ==
    /\ Patience \in Nat
    /\ StreakTicks \in Nat \ {0}
    /\ FloorDebounce \in Nat \ {0}
    /\ MaxRows \in Nat

Detectors ==
    <<"datum_unreachable", "hashrate_below_floor", "zero_hashrate",
      "api_unreachable", "unknown_bid", "sustained_paused", "beta_exit",
      "wallet_runway", "marketplace_empty", "mutation_failed",
      "bid_churn_hold", "target_blacklisted">>

Classes == Range(Detectors)

\* Those that wait for their condition to last; the others fire at once.
Timed == {"datum_unreachable", "hashrate_below_floor", "zero_hashrate",
          "api_unreachable", "sustained_paused", "marketplace_empty"}
Threshold(c) == IF c \in Timed THEN Patience ELSE 0

VARIABLES
    memory,      \* per class: how long bad, and the alert it has open
    streak,      \* mutationFailedStreak
    floor,       \* belowFloorSince # null, aboveFloorTicks
    savedFloor,  \* the same in runtime_state
    notices,     \* the alerts table: class, and the alert a recovery pairs with
    noticeIds,   \* ids handed out
    disabled,    \* notification_disabled_event_classes
    pass,        \* the tick under way and the detectors still to run
    dropped,     \* history: open alerts the evaluator let go of on purpose
    lastWork,    \* history: what became of the last calls to Braiins
    aboveRun     \* history: ticks above the floor in a row, as completed

evaluatorVars == <<memory, streak, floor, savedFloor, notices, noticeIds,
                   disabled, pass, dropped, lastWork, aboveRun, crashes>>

Initial == [since |-> Null, active |-> Null]
NoFloor == [below |-> FALSE, above |-> 0]
NoTick == [at |-> "idle", left |-> <<>>]

EvaluatorInit ==
    /\ memory = [c \in Classes |-> Initial]
    /\ streak = 0
    /\ floor = NoFloor
    /\ savedFloor = NoFloor
    /\ notices = <<>>
    /\ noticeIds = 0
    /\ disabled = {}
    /\ pass = NoTick
    /\ dropped = {}
    /\ lastWork = "none"
    /\ aboveRun = 0
    /\ crashes = 0

-----------------------------------------------------------------------------
(* What a tick found *)

\* computeBelowFloorSince(): above the floor only after some ticks in a row,
\* and no change on a tick that cannot tell.
CanTell(v) == v.market /\ v.poolUp

\* Mutation of FloorAfter: one tick above the floor clears the timer.
FloorAfterOnce(f, v) ==
    IF ~CanTell(v) THEN f
    ELSE IF v.delivered # "ok" THEN [below |-> TRUE, above |-> 0]
    ELSE [below |-> FALSE, above |-> FloorDebounce]

FloorAfter(f, v) ==
    LET above == Older(f.above, FloorDebounce)
    IN  IF ~CanTell(v) THEN f
        ELSE IF v.delivered # "ok" THEN [below |-> TRUE, above |-> 0]
        ELSE [below |-> f.below /\ above < FloorDebounce, above |-> above]

\* The reading of a detector: the condition is there, it is there but must
\* not fire, it is not, the detector is off, or this tick cannot say.
Bad(condition) == IF condition THEN "bad" ELSE "good"

DatumReading(v) == IF v.datum = "none" THEN "off" ELSE Bad(v.datum = "down")

FloorReading(v) ==
    IF floor.below THEN (IF v.delivered = "ok" THEN "vetoed" ELSE "bad") ELSE "good"

ZeroReading(v) == Bad(v.delivered = "zero")
ApiReading(v) == Bad(~v.market)
UnknownReading(v) == Bad(v.unknown)
PausedReading(v) == Bad(v.paused)
BetaReading(v) == Bad(v.fee)

RunwayReading(v) ==
    IF v.runway = "off" THEN "off"
    ELSE IF v.runway = "unknown" THEN "skip" ELSE Bad(v.runway = "short")

MarketReading(v) == Bad(~v.fillable /\ v.delivered = "zero" /\ v.market)

\* The count of ticks in a row whose calls failed; ticks without are neutral.
StreakAfter(v) ==
    IF v.executed = "failed" THEN Older(streak, StreakTicks)
    ELSE IF v.executed = "worked" THEN 0 ELSE streak

MutationReading(v) == Bad(StreakAfter(v) = StreakTicks)
ChurnReading(v) == Bad(v.hold = "churn")
BlacklistReading(v) == Bad(v.hold = "blacklist")

Readings(v) ==
    [datum_unreachable |-> DatumReading(v), hashrate_below_floor |-> FloorReading(v),
     zero_hashrate |-> ZeroReading(v), api_unreachable |-> ApiReading(v),
     unknown_bid |-> UnknownReading(v), sustained_paused |-> PausedReading(v),
     beta_exit |-> BetaReading(v), wallet_runway |-> RunwayReading(v),
     marketplace_empty |-> MarketReading(v), mutation_failed |-> MutationReading(v),
     bid_churn_hold |-> ChurnReading(v), target_blacklisted |-> BlacklistReading(v)]

-----------------------------------------------------------------------------
(* A tick, then its pass *)

\* observe() computes the floor timer; the clock has moved by one tick.
Observe(v) ==
    /\ pass.at = "idle"
    /\ noticeIds < MaxRows
    /\ floor' = FloorAfter(floor, v)
    /\ memory' = [c \in Classes |->
                    [memory[c] EXCEPT !.since = Older(@, Threshold(c))]]
    /\ pass' = [at |-> "tick", left |-> Detectors, view |-> v, off |-> disabled]
    /\ UNCHANGED <<streak, savedFloor, notices, noticeIds, disabled, dropped,
                   lastWork, aboveRun, crashes>>

\* The tick made its calls and persists the timer; onTick starts the pass.
EndTick ==
    /\ pass.at = "tick"
    /\ pass' = [pass EXCEPT !.at = "alerts"]
    /\ savedFloor' = floor
    /\ lastWork' = IF pass.view.executed = "none" THEN lastWork ELSE pass.view.executed
    /\ aboveRun' = IF ~CanTell(pass.view) THEN aboveRun
                   ELSE IF pass.view.delivered = "ok" THEN Older(aboveRun, FloorDebounce)
                   ELSE 0
    /\ UNCHANGED <<memory, streak, floor, notices, noticeIds, disabled, dropped, crashes>>

Here == Head(pass.left)
Reading == Readings(pass.view)[Here]
Muted == Here \in pass.off
Armed == IF memory[Here].since = Null THEN 0 ELSE memory[Here].since

Fires ==
    /\ Reading = "bad"
    /\ ~Muted
    /\ memory[Here].active = Null
    /\ Armed >= Threshold(Here)

Recovers == Reading = "good" /\ ~Muted /\ memory[Here].active # Null

\* The next detector, or the end of the pass.
Onward ==
    pass' = IF Len(pass.left) = 1 THEN NoTick ELSE [pass EXCEPT !.left = Tail(@)]

\* The streak, which only its own detector touches.
CountStreak ==
    streak' = IF Here # "mutation_failed" THEN streak
              ELSE IF Muted THEN 0 ELSE StreakAfter(pass.view)

Write(notice) ==
    /\ noticeIds' = noticeIds + 1
    /\ notices' = [i \in DOMAIN notices \cup {noticeIds'} |->
                     IF i = noticeIds' THEN notice ELSE notices[i]]

\* The pass is at a detector.
Detecting == pass.at = "alerts" /\ UNCHANGED <<floor, savedFloor, disabled, lastWork,
                                              aboveRun, crashes>>

\* recordAlert(), and what the detector remembers of it.
Fire ==
    /\ Detecting
    /\ Fires
    /\ Write([class |-> Here, pairs |-> Null])
    /\ memory' = [memory EXCEPT ![Here] = [since |-> Armed, active |-> noticeIds']]
    /\ CountStreak
    /\ Onward
    /\ UNCHANGED dropped

\* The recovery row refers to the alert it closes; the table has foreign keys.
Recover ==
    /\ Detecting
    /\ Recovers
    /\ memory[Here].active \in DOMAIN notices
    /\ Write([class |-> Here, pairs |-> memory[Here].active])
    /\ memory' = [memory EXCEPT ![Here] = Initial]
    /\ CountStreak
    /\ Onward
    /\ UNCHANGED dropped

\* That alert is gone: the insert fails and with it the rest of the pass.
FailToRecover ==
    /\ Detecting
    /\ Recovers
    /\ memory[Here].active \notin DOMAIN notices
    /\ streak' = IF Here = "mutation_failed" THEN StreakAfter(pass.view) ELSE streak
    /\ pass' = NoTick
    /\ UNCHANGED <<memory, notices, noticeIds, dropped>>

\* Nothing to write.
StaySilent ==
    /\ Detecting
    /\ ~Fires
    /\ ~Recovers
    /\ memory' =
         [memory EXCEPT ![Here] =
            IF Reading = "skip" THEN @
            ELSE IF Reading \in {"off", "good"} \/ Muted THEN Initial
            ELSE [@ EXCEPT !.since = Armed]]
    /\ dropped' = dropped \cup ({memory[Here].active} \ {memory'[Here].active})
    /\ CountStreak
    /\ Onward
    /\ UNCHANGED <<notices, noticeIds>>

Detect == Fire \/ Recover \/ FailToRecover \/ StaySilent

-----------------------------------------------------------------------------
(* The operator, the retention, crashes *)

ToggleClass(c) ==
    /\ disabled' = IF c \in disabled THEN disabled \ {c} ELSE disabled \cup {c}
    /\ UNCHANGED <<memory, streak, floor, savedFloor, notices, noticeIds, pass,
                   dropped, lastWork, aboveRun, crashes>>

\* One DELETE of the rows behind the cut-off, which by then have been sent or
\* given up on; it fails as a whole when a row that stays refers to one that
\* goes.
PruneNotices(cutoff) ==
    /\ \A i \in DOMAIN notices : i > cutoff => notices[i].pairs \notin 1..cutoff
    /\ notices' = [i \in {j \in DOMAIN notices : j > cutoff} |-> notices[i]]
    /\ UNCHANGED <<memory, streak, floor, savedFloor, noticeIds, disabled, pass,
                   dropped, lastWork, aboveRun, crashes>>

\* findOpenAlert(): the latest alert of the class with no recovery.
Unpaired(c) == {i \in DOMAIN notices :
                  /\ notices[i].class = c
                  /\ notices[i].pairs = Null
                  /\ \A j \in DOMAIN notices : notices[j].pairs # i}
Latest(ids) == CHOOSE i \in ids : \A j \in ids : j <= i

\* Mutation of Hydrated: the table is not looked at.
HydratedNever(c) == Initial

Hydrated(c) == IF Unpaired(c) = {} THEN Initial
               ELSE [since |-> Threshold(c), active |-> Latest(Unpaired(c))]

\* Mutation of StreakRestored: the count starts from nothing.
StreakFromZero == 0

\* hydrate() also restores the count behind an open alert, so that only a
\* call that works closes it.
StreakRestored == IF Unpaired("mutation_failed") = {} THEN 0 ELSE StreakTicks

\* A crash at any await, and hydrate() of the evaluator and of the tick.
RestartEvaluator ==
    /\ Dies
    /\ memory' = [c \in Classes |-> Hydrated(c)]
    /\ streak' = StreakRestored
    /\ floor' = savedFloor
    /\ pass' = NoTick
    /\ dropped' = dropped \ {memory'[c].active : c \in Classes}
    /\ UNCHANGED <<savedFloor, notices, noticeIds, disabled, lastWork, aboveRun>>

EvaluatorNext ==
    \/ \E v \in Views : Observe(v)
    \/ EndTick
    \/ Detect
    \/ \E c \in Classes : ToggleClass(c)
    \/ \E cutoff \in 0..noticeIds : PruneNotices(cutoff)
    \/ RestartEvaluator

EvaluatorSpec == EvaluatorInit /\ [][EvaluatorNext]_evaluatorVars

-----------------------------------------------------------------------------
(* Properties *)

EvaluatorType ==
    /\ \A c \in Classes :
          /\ memory[c].since \in 0..Threshold(c) \cup {Null}
          /\ memory[c].active \in 1..noticeIds \cup {Null}
    /\ streak \in 0..StreakTicks
    /\ {floor, savedFloor} \subseteq [below : BOOLEAN, above : 0..FloorDebounce]
    /\ noticeIds \in 0..(MaxRows + Len(Detectors))
    /\ \A i \in DOMAIN notices : /\ i \in 1..noticeIds
                                 /\ notices[i].class \in Classes
                                 /\ notices[i].pairs \in 1..(i - 1) \cup {Null}

\* An outage is one alert: apart from alerts let go of when the operator
\* switched the class or the service off, a class has no two open at once,
\* restarts included (alert-evaluator.ts:325-345, alerts.ts:329-341).
OneOpenAlert ==
    \A c \in Classes : \A i, j \in Unpaired(c) \ dropped : i = j

Written(c, recovery) ==
    /\ noticeIds' > noticeIds
    /\ notices'[noticeIds'].class = c
    /\ (notices'[noticeIds'].pairs # Null) = recovery

\* "Bids go through again" is said only if the last calls made did go
\* through, restarts and quiet ticks notwithstanding
\* (alert-evaluator.ts:366-374, 780-796).
MutationRecoveryEarned ==
    [][Written("mutation_failed", TRUE) => lastWork = "worked"]_evaluatorVars

\* A below-floor alert is closed only after that many ticks in a row above
\* the floor, by the record of completed ticks, restarts and outages of the
\* API or the pool in between (observe.ts:689-706).
FloorRecoveryEarned ==
    [][Written("hashrate_below_floor", TRUE) => aboveRun = FloorDebounce]_evaluatorVars

\* A condition that stays is reported, whatever the other detectors do.
Persists(c) == pass.at = "alerts" => Readings(pass.view)[c] = "bad" /\ c \notin pass.off
Reported(c) == memory[c].active # Null \/ noticeIds >= MaxRows
OutageReported == \A c \in Classes : <>[]Persists(c) => []<>Reported(c)

\* Ticks and passes follow each other.
EvaluatorFairness ==
    /\ WF_evaluatorVars(\E v \in Views : Observe(v))
    /\ WF_evaluatorVars(EndTick)
    /\ WF_evaluatorVars(Detect)
=============================================================================
