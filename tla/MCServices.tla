----------------------------- MODULE MCServices -----------------------------
(* Instances of the services beside the control loop, each run by itself    *)
(* while the others rest, in the stories that bring out what is hard about  *)
(* it.                                                                      *)
EXTENDS AlertDelivery, AlertEvaluator, DepositWatcher, PayoutLedger,
        BlockCredits, Ddns, AccountSpend

VARIABLES service, story    \* chosen once

-----------------------------------------------------------------------------
(* What the ticks of the evaluator find: three families of views. *)

Quiet ==
    [datum |-> "up", delivered |-> "ok", market |-> TRUE, poolUp |-> TRUE,
     fillable |-> TRUE, unknown |-> FALSE, paused |-> FALSE, fee |-> FALSE,
     runway |-> "long", hold |-> "none", executed |-> "none"]

Fleet ==
    {Quiet, [Quiet EXCEPT !.delivered = "low"],
     [Quiet EXCEPT !.delivered = "zero", !.fillable = FALSE],
     [Quiet EXCEPT !.market = FALSE, !.fillable = FALSE]}

Calls ==
    {Quiet, [Quiet EXCEPT !.executed = "failed"], [Quiet EXCEPT !.executed = "worked"],
     [Quiet EXCEPT !.executed = "failed", !.datum = "down"],
     [Quiet EXCEPT !.unknown = TRUE]}

Trading ==
    {Quiet, [Quiet EXCEPT !.unknown = TRUE, !.runway = "short"],
     [Quiet EXCEPT !.paused = TRUE, !.runway = "unknown"],
     [Quiet EXCEPT !.fee = TRUE, !.datum = "none", !.runway = "off"],
     [Quiet EXCEPT !.hold = "churn"], [Quiet EXCEPT !.hold = "blacklist"],
     [Quiet EXCEPT !.datum = "down"]}

Family == [fleet |-> Fleet, calls |-> Calls, trading |-> Trading]
MCViews == UNION {Family[f] : f \in DOMAIN Family}

-----------------------------------------------------------------------------
(* Each service in its stories *)

ofDelivery == <<alertRows, alertIds, muted, couriers, sinceTick, told, sends>>
ofEvaluator == <<memory, streak, floor, savedFloor, notices, noticeIds, disabled,
                 pass, dropped, lastWork, aboveRun>>
ofDeposits == <<account, flags, loud, unwanted, hydrated, walks, announced,
                overlaps, quieted, backlog>>
ofPayouts == <<settled, surfaced, rows, note, sync, forceFull, forceReset, healDue,
               wanted, baselined, confirming, confirmed, joined>>
ofBlocks == <<mined, balance, uncredited, poolBlocks, walk, watermark, pending,
              round, prevUnpaid, following, praised, initiated, payouts, failures,
              blankPass>>
ofDdns == <<address, ipSnapshot, hostname, lastPush, outbox, dns, wrongFor>>
ofSpend == <<bids, closedCache, paging, spend, spendFresh, torn>>

servicesVars == <<ofDelivery, ofEvaluator, ofDeposits, ofPayouts, ofBlocks, ofDdns, ofSpend,
                  crashes, service, story>>

\* One alert and mutes, or two and a crash.
DeliveryStory ==
    /\ service = "delivery"
    /\ DeliveryNext
    /\ story = "crash" => muted' = FALSE
    /\ story = "mutes" => crashes' = 0 /\ alertIds' \subseteq {1}
    /\ UNCHANGED <<ofEvaluator, ofDeposits, ofPayouts, ofBlocks, ofDdns, ofSpend>>

\* One family of views with a crash, a class switched off, or the retention.
Switched == {{}, {"datum_unreachable"}, {"mutation_failed"}, {"hashrate_below_floor"}}

EvaluatorStory ==
    /\ service = "evaluator"
    /\ EvaluatorNext
    /\ pass'.at # "idle" => pass'.view \in Family[story[2]]
    /\ story[1] # "crash" => crashes' = 0
    /\ disabled' # disabled => story[1] = "toggle" /\ disabled' \in Switched
    /\ story[1] # "prune" => DOMAIN notices \subseteq DOMAIN notices'
    /\ UNCHANGED <<ofDelivery, ofDeposits, ofPayouts, ofBlocks, ofDdns, ofSpend>>

\* One deposit with two polls at once, or with the switches, or two deposits
\* and a crash.
DepositsStory ==
    /\ service = "deposits"
    /\ WatcherNext
    /\ story # "overlap" => walks'[2].at = "idle"
    /\ story # "crash" => DOMAIN account' \subseteq {1}
    /\ IF story = "toggle" THEN crashes' = 0 /\ unwanted' \subseteq {"available"}
       ELSE quieted' = {}
    /\ UNCHANGED <<ofDelivery, ofEvaluator, ofPayouts, ofBlocks, ofDdns, ofSpend>>

\* Notes, or a reset joined to a sync, or the switch.
PayoutsStory ==
    /\ service = "payouts"
    /\ LedgerNext
    /\ story # "notes" => note' = Null
    /\ story # "reset" => joined' = 0
    /\ IF story = "toggle" THEN crashes' = 0 ELSE wanted'
    /\ UNCHANGED <<ofDelivery, ofEvaluator, ofDeposits, ofBlocks, ofDdns, ofSpend>>

\* Crashes while the table fills; payouts and readings that fail, with the
\* switch or with alerts that fail.
BlocksStory ==
    /\ service = "blocks"
    /\ CreditNext
    /\ IF story = "fill"
       THEN payouts' = 0 /\ (round' # Null => round'.reading # Null)
       ELSE crashes' = 0 /\ walk' = Null
    /\ story # "toggle" => following'
    /\ story # "fail" => failures' = 0
    /\ UNCHANGED <<ofDelivery, ofEvaluator, ofDeposits, ofPayouts, ofDdns, ofSpend>>

DdnsStory ==
    /\ service = "ddns"
    /\ DdnsNext
    /\ UNCHANGED <<ofDelivery, ofEvaluator, ofDeposits, ofPayouts, ofBlocks, ofSpend>>

SpendStory ==
    /\ service = "spend"
    /\ SpendNext
    /\ UNCHANGED <<ofDelivery, ofEvaluator, ofDeposits, ofPayouts, ofBlocks, ofDdns>>

Stories ==
    [delivery  |-> {"mutes", "crash"},
     evaluator |-> {"crash", "toggle", "prune"} \X DOMAIN Family,
     deposits  |-> {"overlap", "crash", "toggle"},
     payouts   |-> {"notes", "reset", "toggle"},
     blocks    |-> {"fill", "toggle", "fail"},
     ddns      |-> {"any"},
     spend     |-> {"any"}]

ServicesInit ==
    /\ service \in DOMAIN Stories
    /\ story \in Stories[service]
    /\ DeliveryInit /\ (muted => service = "delivery" /\ story = "mutes")
    /\ EvaluatorInit
    /\ WatcherInit
    /\ LedgerInit
    /\ CreditInit
    /\ DdnsInit /\ (service # "ddns" => address = CHOOSE a \in Addresses : TRUE)
    /\ SpendInit

ServicesNext ==
    /\ \/ DeliveryStory \/ EvaluatorStory \/ DepositsStory \/ PayoutsStory
       \/ BlocksStory \/ DdnsStory \/ SpendStory
    /\ UNCHANGED <<service, story>>

ServicesSpec == ServicesInit /\ [][ServicesNext]_servicesVars

\* The services whose promises take time, the payouts without their detector.
LiveInit ==
    /\ ServicesInit
    /\ \/ service \in {"delivery", "blocks"}
       \/ <<service, story>> \in {<<"deposits", "overlap">>, <<"payouts", "reset">>}

\* The fairness of each service, while it is the one that runs.
Fair(s, steps) == service = s /\ steps

LiveSpec ==
    /\ LiveInit
    /\ [][ServicesNext /\ ~baselined']_servicesVars
    /\ \A w \in Workers : WF_deliveryVars(Fair("delivery", Work(w)))
    /\ WF_deliveryVars(Fair("delivery", \E r \in Runs : StartRetries(r)))
    /\ WF_deliveryVars(Fair("delivery", AdvanceDelivery))
    /\ WF_watcherVars(Fair("deposits", \E p \in Polls : StartPoll(p)))
    /\ \A p \in Polls :
          /\ SF_watcherVars(Fair("deposits", Polled(p)))
          /\ WF_watcherVars(Fair("deposits", Walk(p) \/ TellFails(p)))
          /\ SF_watcherVars(Fair("deposits", Tells(p)))
    /\ WF_ledgerVars(Fair("payouts", StartSync))
    /\ SF_ledgerVars(Fair("payouts", ADayLater))
    /\ WF_ledgerVars(Fair("payouts", SyncStep))
    /\ SF_ledgerVars(Fair("payouts", Fetched))
    /\ WF_creditVars(Fair("blocks", \E reading \in {Null, balance} : BeginPass(reading)))
    /\ WF_creditVars(Fair("blocks", Pass))

\* The retention deletes an alert that is still open.
SilencedSpec ==
    /\ ServicesInit
    /\ service = "evaluator"
    /\ story = <<"prune", "calls">>
    /\ [][ServicesNext]_servicesVars
    /\ EvaluatorFairness

\* The walk over the bids of the account, and what may break it off.
SpendingSpec ==
    /\ ServicesInit
    /\ service = "spend"
    /\ [][ServicesNext]_servicesVars

\* The types of all services.
ServicesType ==
    /\ DeliveryType /\ EvaluatorType /\ WatcherType /\ LedgerType /\ CreditType
    /\ DdnsType /\ SpendType
=============================================================================
