--------------------------- MODULE AlertDelivery ----------------------------
(***************************************************************************)
(* AlertManager over the alerts table: an alert is written first and sent   *)
(* second; every tick a run of processDueRetries() sends again what is due. *)
(* main.ts waits for neither, so first deliveries and runs of several ticks *)
(* go on side by side, each suspended in its own POST.  The operator marks  *)
(* alerts as seen, from the dashboard or from the chat, and mutes Telegram; *)
(* the hourly retention deletes old rows; the daemon may crash anywhere.    *)
(*                                                                          *)
(* Time is relative: an alert has a delay until its next attempt, a worker  *)
(* the time since it read the clock.                                        *)
(***************************************************************************)
EXTENDS Daemon, Sequences, SequencesExt

CONSTANTS
    Alerts,         \* ids the table hands out, each once
    Runs,           \* retry runs that may be going on at a time
    MaxAttempts,    \* MAX_TOTAL_ATTEMPTS
    RetryInterval,  \* notification_retry_interval_minutes
    TickPeriod,     \* time between two ticks
    SendMax,        \* the sink's timeout
    Mutes           \* settings of notifications_muted the operator uses

ASSUME DeliveryAssumption ==
    /\ Alerts \subseteq Int
    /\ IsFiniteSet(Alerts)
    /\ MaxAttempts \in Nat \ {0}
    /\ RetryInterval \in Nat \ {0}
    /\ TickPeriod \in Nat \ {0}
    /\ SendMax \in Nat \ {0}
    /\ Mutes \subseteq BOOLEAN

VARIABLES
    alertRows,      \* the alerts table
    alertIds,    \* ids handed out
    muted,     \* notifications_muted
    couriers,   \* the calls of attemptDelivery() under way and what they wait for
    sinceTick, \* time since the last tick
    told,      \* history: copies of the alert that reached the chat
    sends      \* history: attempts to send

deliveryVars == <<alertRows, alertIds, muted, couriers, sinceTick, told, sends, crashes>>

\* A worker is the first delivery of an alert or a retry run.
Firsts == {<<"first", a>> : a \in Alerts}
Retries == {<<"retry", r>> : r \in Runs}
Workers == Firsts \cup Retries

Present == DOMAIN alertRows
IdleWorker == [at |-> "idle", queue |-> <<>>, muted |-> FALSE, read |-> 0,
               verdict |-> Null, age |-> 0, wait |-> 0]
Current(w) == Head(couriers[w].queue)
Busy == {w \in Workers : couriers[w].at # "idle"}
Sending(w) == couriers[w].at \in {"sending", "farewell"}

DeliveryInit ==
    /\ alertRows = <<>>
    /\ alertIds = {}
    /\ muted \in Mutes
    /\ couriers = [w \in Workers |-> IdleWorker]
    /\ sinceTick = 0
    /\ told = [a \in Alerts |-> 0]
    /\ sends = [a \in Alerts |-> 0]
    /\ crashes = 0

-----------------------------------------------------------------------------
(* Raising an alert and starting a run *)

\* A row on the retry schedule falls due one interval after its attempt, and
\* never again after the last one.
\* Mutation of NextRetry: no attempt is the last.
NextRetryForever(attempts) == RetryInterval

NextRetry(attempts) ==
    IF attempts >= MaxAttempts THEN Null ELSE RetryInterval

\* computeNextRetry counts from the clock the worker read when it began.
Later(delay, age) ==
    IF delay = Null THEN Null
    ELSE IF delay > age THEN delay - age ELSE 0

\* Mutation of NewRow: the row is due at once.
NewRowDue == [status |-> "pending", attempts |-> 0, due |-> 0, acked |-> FALSE]

NewRow == [status |-> "pending", attempts |-> 0,
           due |-> IF NextRetry(1) = Null THEN TickPeriod ELSE NextRetry(1),
           acked |-> FALSE]

\* recordAlert() up to its first attempt.
RecordAlert(a) ==
    /\ a \in Alerts \ alertIds
    /\ \A b \in Alerts \ alertIds : a <= b
    /\ alertIds' = alertIds \cup {a}
    /\ alertRows' = [b \in Present \cup {a} |-> IF b = a THEN NewRow ELSE alertRows[b]]
    /\ couriers' = [couriers EXCEPT ![<<"first", a>>] =
                      [IdleWorker EXCEPT !.at = "read", !.queue = <<a>>,
                                         !.muted = muted]]
    /\ UNCHANGED <<muted, sinceTick, told, sends, crashes>>

\* Mutation of Due: rows the operator has seen are retried too.
DueSeen == {a \in Present : /\ alertRows[a].due = 0
                            /\ alertRows[a].status \in {"pending", "failed", "muted"}}

Due == {a \in Present : /\ alertRows[a].due = 0
                        /\ alertRows[a].status \in {"pending", "failed", "muted"}
                        /\ ~alertRows[a].acked}

\* The tick: processDueRetries() reads the list of what is due and then walks
\* it.  All that is due carries the same delay here, so any order.
StartRetries(r) ==
    /\ sinceTick = TickPeriod
    /\ sinceTick' = 0
    /\ couriers[<<"retry", r>>].at = "idle"
    /\ \E queue \in SetToSeqs(Due) :
          couriers' = IF queue = <<>> THEN couriers
                     ELSE [couriers EXCEPT ![<<"retry", r>>] =
                              [IdleWorker EXCEPT !.at = "read", !.queue = queue,
                                                 !.muted = muted]]
    /\ UNCHANGED <<alertRows, alertIds, muted, told, sends, crashes>>

-----------------------------------------------------------------------------
(* attemptDelivery(), split at its awaits *)

\* The row is done with: the next one of the run, or the end.
After(w) ==
    LET rest == Tail(couriers[w].queue)
    IN  IF rest = <<>> THEN IdleWorker
        ELSE [couriers[w] EXCEPT !.at = "read", !.queue = rest, !.read = 0,
                                !.verdict = Null, !.wait = 0]

\* The row is read again; a deleted one is skipped, a mute counts as an
\* attempt, anything else is sent.
Read(w) ==
    /\ couriers[w].at = "read"
    /\ LET a == Current(w)
           reading(at, verdict) ==
               [couriers EXCEPT ![w].at = at, ![w].read = alertRows[a].attempts,
                               ![w].verdict = verdict]
       IN  \/ /\ a \notin Present
              /\ couriers' = [couriers EXCEPT ![w] = After(w)]
              /\ UNCHANGED sends
           \/ /\ a \in Present
              /\ couriers[w].muted
              /\ couriers' = reading("store", "muted")
              /\ UNCHANGED sends
           \/ /\ a \in Present
              /\ ~couriers[w].muted
              /\ couriers' = reading("sending", Null)
              /\ sends' = [sends EXCEPT ![a] = @ + 1]
    /\ UNCHANGED <<alertRows, alertIds, muted, sinceTick, told, crashes>>

\* The POST is answered, refused, or times out.
Answered(w) ==
    /\ couriers[w].at = "sending"
    /\ couriers' = [couriers EXCEPT ![w].at = "store", ![w].verdict = "sent",
                                  ![w].wait = 0]
    /\ told' = [told EXCEPT ![Current(w)] = @ + 1]
    /\ UNCHANGED <<alertRows, alertIds, muted, sinceTick, sends, crashes>>

Unanswered(w) ==
    /\ couriers[w].at = "sending"
    /\ couriers' = [couriers EXCEPT ![w].at = "store", ![w].wait = 0,
          ![w].verdict = IF couriers[w].read + 1 >= MaxAttempts
                         THEN "gave_up" ELSE "failed"]
    /\ UNCHANGED <<alertRows, alertIds, muted, sinceTick, told, sends, crashes>>

\* markDelivered, markFailed and markMuted, without the attempts counter.
Outcome(row, worker) ==
    [row EXCEPT
        !.status = worker.verdict,
        !.due = IF worker.verdict \in {"sent", "gave_up"} THEN Null
                ELSE Later(NextRetry(worker.read + 1), worker.age)]

Store(w) ==
    /\ couriers[w].at = "store"
    /\ alertRows' = [a \in Present |-> IF a = Current(w)
                                  THEN Outcome(alertRows[a], couriers[w]) ELSE alertRows[a]]
    /\ couriers' = [couriers EXCEPT ![w].at = "count"]
    /\ UNCHANGED <<alertIds, muted, sinceTick, told, sends, crashes>>

\* incrementAttempts() is a statement of its own.
\* Mutation of Counted: a mute is not an attempt.
CountedUnlessMuted(row, worker) ==
    IF worker.verdict = "muted" THEN row ELSE [row EXCEPT !.attempts = @ + 1]

Counted(row, worker) == [row EXCEPT !.attempts = @ + 1]

Count(w) ==
    /\ couriers[w].at = "count"
    /\ alertRows' = [a \in Present |-> IF a = Current(w)
                                  THEN Counted(alertRows[a], couriers[w]) ELSE alertRows[a]]
    /\ couriers' = IF couriers[w].verdict = "gave_up"
                  THEN [couriers EXCEPT ![w].at = "farewell"]
                  ELSE [couriers EXCEPT ![w] = After(w)]
    /\ UNCHANGED <<alertIds, muted, sinceTick, told, sends, crashes>>

\* The "giving up" message, whatever becomes of it.
Farewell(w) ==
    /\ couriers[w].at = "farewell"
    /\ couriers' = [couriers EXCEPT ![w] = After(w)]
    /\ UNCHANGED <<alertRows, alertIds, muted, sinceTick, told, sends, crashes>>

-----------------------------------------------------------------------------
(* The operator, the receiver, the retention, the clock *)

Seen(a) == [alertRows EXCEPT ![a].acked = TRUE]

\* POST /api/alerts/:id/acknowledge.
Acknowledge(a) ==
    /\ a \in Present
    /\ ~alertRows[a].acked
    /\ alertRows' = Seen(a)
    /\ UNCHANGED <<alertIds, muted, couriers, sinceTick, told, sends, crashes>>

AcknowledgeAll ==
    /\ \E a \in Present : ~alertRows[a].acked
    /\ alertRows' = [a \in Present |-> [alertRows[a] EXCEPT !.acked = TRUE]]
    /\ UNCHANGED <<alertIds, muted, couriers, sinceTick, told, sends, crashes>>

\* TelegramReceiver.handle(), for the button under a message that arrived.
\* Telegram holds the tap until the receiver polls, which it does not while
\* muted.
ReceiveTap(a) ==
    /\ told[a] > 0
    /\ ~muted
    /\ a \in Present
    /\ alertRows' = Seen(a)
    /\ UNCHANGED <<alertIds, muted, couriers, sinceTick, told, sends, crashes>>

ToggleMute ==
    /\ muted' \in Mutes \ {muted}
    /\ UNCHANGED <<alertRows, alertIds, couriers, sinceTick, told, sends, crashes>>

\* RetentionService: the cut-off is days back, any row may be behind it.
Prunable ==
    {a \in Present : alertRows[a].status \in {"sent", "failed", "gave_up", "muted"}}

PruneAlerts ==
    \E old \in SUBSET Prunable \ {{}} :
        /\ alertRows' = [a \in Present \ old |-> alertRows[a]]
        /\ UNCHANGED <<alertIds, muted, couriers, sinceTick, told, sends, crashes>>

\* Everything in memory is gone; the table stays.
CrashDelivery ==
    /\ Dies
    /\ couriers' = [w \in Workers |-> IdleWorker]
    /\ UNCHANGED <<alertRows, alertIds, muted, sinceTick, told, sends>>

\* Database statements take no time and a send at most SendMax; a tick, or
\* the daemon after a crash, may be late.
AdvanceDelivery ==
    /\ \A w \in Busy : Sending(w) /\ couriers[w].wait < SendMax
    /\ sinceTick' = Older(sinceTick, TickPeriod)
    /\ alertRows' = [a \in Present |-> [alertRows[a] EXCEPT !.due = Sooner(@)]]
    /\ couriers' = [w \in Workers |->
          IF w \notin Busy THEN couriers[w]
          ELSE [couriers[w] EXCEPT !.wait = @ + 1,
                                  !.age = Older(@, RetryInterval)]]
    /\ UNCHANGED <<alertIds, muted, told, sends, crashes>>

Work(w) ==
    Read(w) \/ Answered(w) \/ Unanswered(w) \/ Store(w) \/ Count(w) \/ Farewell(w)

DeliveryNext ==
    \/ \E a \in Alerts : RecordAlert(a) \/ Acknowledge(a) \/ ReceiveTap(a)
    \/ \E r \in Runs : StartRetries(r)
    \/ \E w \in Workers : Work(w)
    \/ AcknowledgeAll
    \/ ToggleMute
    \/ PruneAlerts
    \/ CrashDelivery
    \/ AdvanceDelivery

\* The event loop runs, the timer fires, the clock goes on; nobody has to
\* raise, acknowledge, mute, prune or crash anything.
DeliveryFairness ==
    /\ \A w \in Workers : WF_deliveryVars(Work(w))
    /\ WF_deliveryVars(\E r \in Runs : StartRetries(r))
    /\ WF_deliveryVars(AdvanceDelivery)

DeliverySpec == DeliveryInit /\ [][DeliveryNext]_deliveryVars /\ DeliveryFairness

-----------------------------------------------------------------------------
(* Properties *)

Holds(w, a) == w \in Busy /\ a \in Range(couriers[w].queue)
Held(a) == \E w \in Workers : Holds(w, a)

DeliveryType ==
    /\ alertIds \subseteq Alerts
    /\ Present \subseteq alertIds
    /\ \A a \in Present :
          alertRows[a] \in [status : {"pending", "sent", "failed", "muted", "gave_up"},
                      attempts : 0..MaxAttempts,
                      due : 0..(RetryInterval + TickPeriod) \cup {Null},
                      acked : BOOLEAN]
    /\ muted \in BOOLEAN
    /\ sinceTick \in 0..TickPeriod
    /\ crashes \in 0..MaxCrashes

\* The sends of a run that time out fit between two ticks, its giving up
\* included, and a first delivery is over before its row falls due.
RunsFit ==
    /\ 2 * SendMax * Cardinality(Alerts) <= TickPeriod
    /\ SendMax < RetryInterval

\* Five attempts, however often the mute is switched, the alert is retried
\* or the daemon dies; a crash between a send and its counter costs one more.
\* And a copy is sent twice only if a crash forgot that it was: first
\* deliveries and the runs of several ticks never have a row in their hands
\* together, as long as RunsFit (alert-manager.ts:96-100, 123-137, 139-201,
\* alerts.ts:259-302).
AttemptBudget ==
    \A a \in Alerts : /\ sends[a] <= MaxAttempts + crashes
                      /\ told[a] <= 1 + crashes

\* What is owed: rows on the schedule that the operator has not seen, and
\* those a worker has in its hands.
OnSchedule(a) == a \in Present /\ alertRows[a].due # Null
Owed ==
    {a \in alertIds :
        \/ OnSchedule(a) /\ (~alertRows[a].acked \/ Held(a))
        \/ \E w \in Busy : couriers[w].at \in {"sending", "store"} /\ Current(w) = a}

\* The table and its couriers keep the courier's promise: delivered, given up
\* on, seen or deleted means not sent again, across races of retries with
\* taps and the retention, mutes and crashes (alerts.ts:304-327).
Promise == INSTANCE Courier WITH owed <- Owed, closed <- alertIds \ Owed
CourierSpec == Promise!Spec

\* Every alert raised is settled in the end: delivered, seen, given up on
\* after the last attempt or deleted, never retried for ever and never
\* forgotten on the schedule (alert-manager.ts:123-137, 203-210).
Settles == \A a \in Alerts : a \in alertIds ~> a \notin Owed
=============================================================================
