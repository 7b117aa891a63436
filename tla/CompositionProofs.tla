------------------------- MODULE CompositionProofs -------------------------
(* The services side by side, each in its stories: the types of all of them *)
(* hold whichever runs, because no step of a service touches another's      *)
(* state, and each keeps an invariant of its own.                           *)
EXTENDS MCServices, ServiceProofs, EvaluatorProofs, LedgerProofs

\* The service that runs keeps its invariant, the others their types.
ServicesInvariant ==
    /\ ServicesType
    /\ service = "delivery" => DeliveryTyping
    /\ service = "evaluator" => EvaluatorTypes
    /\ service = "deposits" => WatcherTypes
    /\ service = "payouts" => LedgerTypes
    /\ service = "blocks" => CreditTyping
    /\ service = "ddns" => DdnsTyping
    /\ service = "spend" => SpendTypes

-----------------------------------------------------------------------------
(* What a service that rests keeps *)

LEMMA EvaluatorTypeRests == EvaluatorType /\ UNCHANGED ofEvaluator => EvaluatorType'
BY DEF ofEvaluator, EvaluatorType

LEMMA WatcherTypeRests == WatcherType /\ UNCHANGED ofDeposits => WatcherType'
BY DEF ofDeposits, WatcherType, UnderWay

LEMMA LedgerTypeRests == LedgerType /\ UNCHANGED ofPayouts => LedgerType'
BY DEF ofPayouts, LedgerType, Stored

LEMMA CreditTypeRests == CreditType /\ UNCHANGED ofBlocks => CreditType'
BY DEF ofBlocks, CreditType

LEMMA DdnsTypeRests == DdnsType /\ UNCHANGED ofDdns => DdnsType'
BY DEF ofDdns, DdnsType

LEMMA SpendTypeRests == SpendType /\ UNCHANGED ofSpend => SpendType'
BY DEF ofSpend, SpendType, Terminal

\* The table of alerts is typed together with the count of crashes.
LEMMA DeliveryTypeRests ==
    ASSUME DeliveryType, UNCHANGED ofDelivery, crashes' \in 0..MaxCrashes
    PROVE  DeliveryType'
BY DEF ofDelivery, DeliveryType, Present

\* The process dies or it does not, whoever runs.
LEMMA Mortal ==
    ASSUME crashes \in 0..MaxCrashes, crashes' = crashes \/ Dies
    PROVE  crashes' \in 0..MaxCrashes
<1>1. crashes \in Nat /\ crashes <= MaxCrashes /\ MaxCrashes \in Nat
  BY CrashAssumption
<1>2. CASE Dies
  <2>1. crashes < MaxCrashes /\ crashes' = crashes + 1
    BY <1>2 DEF Dies
  <2> QED
    BY <1>1, <2>1
<1>3. CASE crashes' = crashes
  BY <1>3
<1> QED
  BY <1>2, <1>3

-----------------------------------------------------------------------------
(* What the service that runs does to the count of crashes *)

LEMMA EvaluatorMortal == [EvaluatorNext]_evaluatorVars => crashes' = crashes \/ Dies
BY DEF evaluatorVars, EvaluatorNext, Observe, EndTick, Detect, Detecting, Fire, Recover,
   FailToRecover, StaySilent, ToggleClass, PruneNotices, RestartEvaluator

LEMMA DepositsMortal == [WatcherNext]_watcherVars => crashes' = crashes \/ Dies
BY DEF watcherVars, WatcherNext, Deposit, MoveOn, ToggleDeposits, ToggleKind, StartPoll,
   PollFails, Polled, Walk, UpsertSeen, Absorb, Announce, Flag, AnnounceFails,
   CrashWatcher

LEMMA PayoutsMortal == [LedgerNext]_ledgerVars => crashes' = crashes \/ Dies
BY DEF ledgerVars, LedgerNext, Settle, Surface, GrowOlder, ADayLater, Annotate,
   ToggleConfirm, StartSync, RequestFull, HardReset, FetchFails, Fetched, SyncStep,
   Wipe, StoreRows, DeduceRows, RekeyNote, DropRows, Reattach, BaselinePayouts,
   BeginConfirm, MarkConfirmed, Confirm, CrashLedger

LEMMA BlocksMortal == [CreditNext]_creditVars => crashes' = crashes \/ Dies
BY DEF creditVars, CreditNext, MineBlock, CreditBlock, PayOut, StoreNewest,
   BackfillPage, BackfillFails, ToggleCredits, BeginPass, SkipPass, Pass, AnnounceBlock,
   AnnouncementFails, EndPass, bounds, CrashCredits

LEMMA DdnsMortal == [DdnsNext]_ddnsVars => crashes' = crashes \/ Dies
BY DEF ddnsVars, DdnsNext, Rotate, RefreshIp, EditDdns, DdnsTimer, RecordExternalPush,
   Accept, PushAnswered, PushFails, CrashDdns

LEMMA SpendMortal == [SpendNext]_spendVars => crashes' = crashes \/ Dies
BY DEF spendVars, SpendNext, PlaceBid, Consume, EndBid, SpendExpires, GetLifetimeSpend,
   PageListed, PageFails, StoreTerminal, NextPage, FinishSpend, RebuildSpend, CrashSpend

-----------------------------------------------------------------------------
(* Every service in its stories keeps the types of all *)

LEMMA DeliveryRuns ==
    ASSUME ServicesInvariant, service = "delivery", service' = service, [DeliveryNext]_deliveryVars, RunsFit,
           UNCHANGED <<ofEvaluator, ofDeposits, ofPayouts, ofBlocks, ofDdns, ofSpend>>
    PROVE  ServicesInvariant'
<1>1. DeliveryTyping /\ ServicesType
  BY DEF ServicesInvariant
<1>2. DeliveryTyping'
  BY <1>1, DeliveryTypingNext
<1>3. DeliveryType'
  BY <1>2, DeliveryTyped, PTL
<1>4. ServicesType'
  BY <1>1, <1>3, EvaluatorTypeRests, WatcherTypeRests, LedgerTypeRests, CreditTypeRests,
     DdnsTypeRests, SpendTypeRests DEF ServicesType
<1> QED
  BY <1>2, <1>4 DEF ServicesInvariant

LEMMA EvaluatorRuns ==
    ASSUME ServicesInvariant, service = "evaluator", service' = service, [EvaluatorNext]_evaluatorVars,
           UNCHANGED <<ofDelivery, ofDeposits, ofPayouts, ofBlocks, ofDdns, ofSpend>>
    PROVE  ServicesInvariant'
<1>1. EvaluatorTypes /\ ServicesType
  BY DEF ServicesInvariant
<1>2. EvaluatorTypes'
  BY <1>1, EvaluatorTypesNext
<1>3. EvaluatorType'
  BY <1>2, EvaluatorTyped, PTL
<1>4. crashes' \in 0..MaxCrashes
  BY <1>1, EvaluatorMortal, Mortal DEF ServicesType, DeliveryType
<1>5. ServicesType'
  BY <1>1, <1>3, <1>4, DeliveryTypeRests, WatcherTypeRests, LedgerTypeRests,
     CreditTypeRests, DdnsTypeRests, SpendTypeRests DEF ServicesType
<1> QED
  BY <1>2, <1>5 DEF ServicesInvariant

LEMMA DepositsRuns ==
    ASSUME ServicesInvariant, service = "deposits", service' = service, [WatcherNext]_watcherVars,
           UNCHANGED <<ofDelivery, ofEvaluator, ofPayouts, ofBlocks, ofDdns, ofSpend>>
    PROVE  ServicesInvariant'
<1>1. WatcherTypes /\ ServicesType
  BY DEF ServicesInvariant
<1>2. WatcherTypes'
  BY <1>1, WatcherTypesNext
<1>3. WatcherType'
  BY <1>2, WatcherTyped, PTL
<1>4. crashes' \in 0..MaxCrashes
  BY <1>1, DepositsMortal, Mortal DEF ServicesType, DeliveryType
<1>5. ServicesType'
  BY <1>1, <1>3, <1>4, DeliveryTypeRests, EvaluatorTypeRests, LedgerTypeRests,
     CreditTypeRests, DdnsTypeRests, SpendTypeRests DEF ServicesType
<1> QED
  BY <1>2, <1>5 DEF ServicesInvariant

LEMMA PayoutsRuns ==
    ASSUME ServicesInvariant, service = "payouts", service' = service, [LedgerNext]_ledgerVars,
           UNCHANGED <<ofDelivery, ofEvaluator, ofDeposits, ofBlocks, ofDdns, ofSpend>>
    PROVE  ServicesInvariant'
<1>1. LedgerTypes /\ ServicesType
  BY DEF ServicesInvariant
<1>2. LedgerTypes'
  BY <1>1, LedgerTypesNext
<1>3. LedgerType'
  BY <1>2, LedgerTyped, PTL
<1>4. crashes' \in 0..MaxCrashes
  BY <1>1, PayoutsMortal, Mortal DEF ServicesType, DeliveryType
<1>5. ServicesType'
  BY <1>1, <1>3, <1>4, DeliveryTypeRests, EvaluatorTypeRests, WatcherTypeRests,
     CreditTypeRests, DdnsTypeRests, SpendTypeRests DEF ServicesType
<1> QED
  BY <1>2, <1>5 DEF ServicesInvariant

LEMMA BlocksRuns ==
    ASSUME ServicesInvariant, service = "blocks", service' = service, [CreditNext]_creditVars,
           UNCHANGED <<ofDelivery, ofEvaluator, ofDeposits, ofPayouts, ofDdns, ofSpend>>
    PROVE  ServicesInvariant'
<1>1. CreditTyping /\ ServicesType
  BY DEF ServicesInvariant
<1>2. CreditTyping'
  BY <1>1, CreditTypingNext
<1>3. CreditType'
  BY <1>2, CreditTyped, PTL
<1>4. crashes' \in 0..MaxCrashes
  BY <1>1, BlocksMortal, Mortal DEF ServicesType, DeliveryType
<1>5. ServicesType'
  BY <1>1, <1>3, <1>4, DeliveryTypeRests, EvaluatorTypeRests, WatcherTypeRests,
     LedgerTypeRests, DdnsTypeRests, SpendTypeRests DEF ServicesType
<1> QED
  BY <1>2, <1>5 DEF ServicesInvariant

LEMMA DdnsRuns ==
    ASSUME ServicesInvariant, service = "ddns", service' = service, [DdnsNext]_ddnsVars,
           UNCHANGED <<ofDelivery, ofEvaluator, ofDeposits, ofPayouts, ofBlocks, ofSpend>>
    PROVE  ServicesInvariant'
<1>1. DdnsTyping /\ ServicesType
  BY DEF ServicesInvariant
<1>2. DdnsTyping'
  BY <1>1, DdnsTypingNext
<1>3. DdnsType'
  BY <1>2, DdnsTyped, PTL
<1>4. crashes' \in 0..MaxCrashes
  BY <1>1, DdnsMortal, Mortal DEF ServicesType, DeliveryType
<1>5. ServicesType'
  BY <1>1, <1>3, <1>4, DeliveryTypeRests, EvaluatorTypeRests, WatcherTypeRests,
     LedgerTypeRests, CreditTypeRests, SpendTypeRests DEF ServicesType
<1> QED
  BY <1>2, <1>5 DEF ServicesInvariant

LEMMA SpendRuns ==
    ASSUME ServicesInvariant, service = "spend", service' = service, [SpendNext]_spendVars,
           UNCHANGED <<ofDelivery, ofEvaluator, ofDeposits, ofPayouts, ofBlocks, ofDdns>>
    PROVE  ServicesInvariant'
<1>1. SpendTypes /\ ServicesType
  BY DEF ServicesInvariant
<1>2. SpendTypes'
  BY <1>1, SpendTypesNext
<1>3. SpendType'
  BY <1>2, SpendTyped, PTL
<1>4. crashes' \in 0..MaxCrashes
  BY <1>1, SpendMortal, Mortal DEF ServicesType, DeliveryType
<1>5. ServicesType'
  BY <1>1, <1>3, <1>4, DeliveryTypeRests, EvaluatorTypeRests, WatcherTypeRests,
     LedgerTypeRests, CreditTypeRests, DdnsTypeRests DEF ServicesType
<1> QED
  BY <1>2, <1>5 DEF ServicesInvariant

-----------------------------------------------------------------------------
(* The services in their stories *)

LEMMA ServicesInvariantNext ==
    ASSUME ServicesInvariant, RunsFit, [ServicesNext]_servicesVars
    PROVE  ServicesInvariant'
<1>1. service' = service
  BY DEF ServicesNext, servicesVars
<1>2. CASE DeliveryStory
  BY <1>1, <1>2, DeliveryRuns DEF DeliveryStory
<1>3. CASE EvaluatorStory
  BY <1>1, <1>3, EvaluatorRuns DEF EvaluatorStory
<1>4. CASE DepositsStory
  BY <1>1, <1>4, DepositsRuns DEF DepositsStory
<1>5. CASE PayoutsStory
  BY <1>1, <1>5, PayoutsRuns DEF PayoutsStory
<1>6. CASE BlocksStory
  BY <1>1, <1>6, BlocksRuns DEF BlocksStory
<1>7. CASE DdnsStory
  BY <1>1, <1>7, DdnsRuns DEF DdnsStory
<1>8. CASE SpendStory
  BY <1>1, <1>8, SpendRuns DEF SpendStory
<1>9. CASE UNCHANGED servicesVars
  <2>1. UNCHANGED <<ofDelivery, ofEvaluator, ofDeposits, ofPayouts, ofBlocks, ofDdns, ofSpend, crashes>>
    BY <1>9 DEF servicesVars
  <2>2. UNCHANGED <<deliveryVars, evaluatorVars, watcherVars, ledgerVars, creditVars, ddnsVars, spendVars>>
    BY <2>1 DEF ofDelivery, ofEvaluator, ofDeposits, ofPayouts, ofBlocks, ofDdns, ofSpend,
       deliveryVars, evaluatorVars, watcherVars, ledgerVars, creditVars, ddnsVars, spendVars
  <2>3. crashes' \in 0..MaxCrashes
    BY <2>1 DEF ServicesInvariant, ServicesType, DeliveryType
  <2>4. ServicesType'
    BY <2>1, <2>3, DeliveryTypeRests, EvaluatorTypeRests, WatcherTypeRests, LedgerTypeRests, CreditTypeRests, DdnsTypeRests, SpendTypeRests
       DEF ServicesInvariant, ServicesType
  <2> QED
    BY <1>1, <2>2, <2>4, DeliveryTypingNext, EvaluatorTypesNext, WatcherTypesNext,
       LedgerTypesNext, CreditTypingNext, DdnsTypingNext, SpendTypesNext
       DEF ServicesInvariant
<1> QED
  BY <1>2, <1>3, <1>4, <1>5, <1>6, <1>7, <1>8, <1>9 DEF ServicesNext

LEMMA ServicesInvariantInit == ServicesInit => ServicesInvariant
<1> SUFFICES ASSUME ServicesInit PROVE ServicesInvariant
  OBVIOUS
<1>1. /\ DeliveryTyping /\ EvaluatorTypes /\ WatcherTypes /\ LedgerTypes
      /\ CreditTyping /\ DdnsTyping /\ SpendTypes
  BY DeliveryTypingInit, EvaluatorTypesInit, WatcherTypesInit, LedgerTypesInit,
     CreditTypingInit, DdnsTypingInit, SpendTypesInit DEF ServicesInit
<1> QED
  BY <1>1, DeliveryTyped, EvaluatorTyped, WatcherTyped, LedgerTyped, CreditTyped,
     DdnsTyped, SpendTyped DEF ServicesInvariant, ServicesType

\* Whichever service runs, in whichever story and however often the daemon
\* dies, the state of all of them stays typed: the indices of the evaluator's
\* memory, the stages of polls, syncs, passes, pushes and walks, the counters
\* of attempts, ages and crashes.  The sends of a run must fit between two
\* ticks: with more of them two runs meet over a row and count past the last
\* attempt (alert-manager.ts:123-137).
THEOREM ServicesTypeHolds == RunsFit => (ServicesSpec => []ServicesType)
<1> SUFFICES ASSUME RunsFit PROVE ServicesSpec => []ServicesType
  OBVIOUS
<1>1. ServicesInvariant /\ [ServicesNext]_servicesVars => ServicesInvariant'
  BY ServicesInvariantNext
<1>2. ServicesInvariant => ServicesType
  BY DEF ServicesInvariant
<1> QED
  BY <1>1, <1>2, ServicesInvariantInit, PTL DEF ServicesSpec
=============================================================================
