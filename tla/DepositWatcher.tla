--------------------------- MODULE DepositWatcher ---------------------------
(***************************************************************************)
(* BraiinsDepositWatcherService: every minute it reads the account's         *)
(* deposits from Braiins and walks them, telling the operator of each        *)
(* deposit once that it was seen, once that it may be spent, or else once    *)
(* that it was sent back.  What was told is flagged in braiins_deposits, in   *)
(* a statement of its own after the alert.  Nothing keeps a poll from        *)
(* starting while the walk of an earlier one still waits for Telegram.       *)
(***************************************************************************)
EXTENDS Daemon

CONSTANTS
    Deposits,     \* transactions to the account
    Polls,        \* polls that may be under way at a time
    MaxOverlaps   \* bound on polls started during another

ASSUME WatcherAssumption == MaxOverlaps \in Nat

Kinds == {"detected", "available", "returned"}
Nothing == [k \in Kinds |-> 0]

VARIABLES
    account,    \* Braiins: deposit_status of each transaction there is
    flags,      \* braiins_deposits: the notified_* columns set
    loud,       \* notify_on_braiins_deposit
    unwanted,   \* notification_disabled_event_classes
    hydrated,   \* the first poll since boot went through
    walks,      \* the polls under way
    announced,  \* history: alerts per deposit and kind
    overlaps,   \* history: polls started during another
    quieted,    \* history: kinds that were switched off at some time
    backlog     \* history: deposits absorbed by a first poll of an empty table

watcherVars == <<account, flags, loud, unwanted, hydrated, walks, announced,
                 overlaps, quieted, backlog, crashes>>

NoWalk == [at |-> "idle", left |-> {}, found |-> <<>>, loud |-> FALSE, d |-> Null,
           untold |-> {}]

WatcherInit ==
    /\ account = <<>>
    /\ flags = <<>>
    /\ loud = TRUE
    /\ unwanted = {}
    /\ hydrated = FALSE
    /\ walks = [p \in Polls |-> NoWalk]
    /\ announced = [d \in Deposits |-> Nothing]
    /\ overlaps = 0
    /\ quieted = {}
    /\ backlog = {}
    /\ crashes = 0

-----------------------------------------------------------------------------
(* Braiins and the operator *)

\* A deposit is seen, then credited or sent back; a credited one may still be
\* sent back.
Deposit(d) ==
    /\ d \notin DOMAIN account
    /\ account' = [e \in DOMAIN account \cup {d} |->
                      IF e = d THEN "pending" ELSE account[e]]
    /\ UNCHANGED <<flags, loud, unwanted, hydrated, walks, announced, overlaps,
                   quieted, backlog, crashes>>

MoveOn(d, status) ==
    /\ d \in DOMAIN account
    /\ <<account[d], status>> \in {<<"pending", "credited">>, <<"pending", "returned">>,
                                   <<"credited", "returned">>}
    /\ account' = [account EXCEPT ![d] = status]
    /\ UNCHANGED <<flags, loud, unwanted, hydrated, walks, announced, overlaps,
                   quieted, backlog, crashes>>

ToggleDeposits ==
    /\ loud' = ~loud
    /\ quieted' = Kinds
    /\ UNCHANGED <<account, flags, unwanted, hydrated, walks, announced, overlaps,
                   backlog, crashes>>

ToggleKind(k) ==
    /\ unwanted' = IF k \in unwanted THEN unwanted \ {k} ELSE unwanted \cup {k}
    /\ quieted' = quieted \cup {k}
    /\ UNCHANGED <<account, flags, loud, hydrated, walks, announced, overlaps,
                   backlog, crashes>>

-----------------------------------------------------------------------------
(* tick() *)

UnderWay == {p \in Polls : walks[p].at # "idle"}

\* The timer; it does not look whether the last poll is over.
StartPoll(p) ==
    /\ walks[p].at = "idle"
    /\ UnderWay # {} => overlaps < MaxOverlaps
    /\ overlaps' = overlaps + (IF UnderWay = {} THEN 0 ELSE 1)
    /\ walks' = [walks EXCEPT ![p].at = "fetch"]
    /\ UNCHANGED <<account, flags, loud, unwanted, hydrated, announced, quieted,
                   backlog, crashes>>

\* The call to Braiins fails: next minute.
PollFails(p) ==
    /\ walks[p].at = "fetch"
    /\ walks' = [walks EXCEPT ![p] = NoWalk]
    /\ UNCHANGED <<account, flags, loud, unwanted, hydrated, announced, overlaps,
                   quieted, backlog, crashes>>

\* The first poll since boot of an empty table takes what it finds as history.
Baseline(response) == ~hydrated /\ DOMAIN flags = {} /\ response # <<>>

\* The answer, and the start of the walk over it.  The switch is read once,
\* here, for the whole walk.
Polled(p) ==
    /\ walks[p].at = "fetch"
    /\ walks' = [walks EXCEPT ![p] =
                    IF account = <<>> THEN NoWalk
                    ELSE [NoWalk EXCEPT !.at = "row", !.left = DOMAIN account,
                                        !.found = account,
                                        !.loud = loud /\ ~Baseline(account)]]
    /\ hydrated' = TRUE
    /\ backlog' = IF Baseline(account) THEN DOMAIN account ELSE backlog
    /\ UNCHANGED <<account, flags, loud, unwanted, announced, overlaps, quieted, crashes>>

\* Mutation of Untold: the status alone decides.
UntoldAgain(status, seen) ==
    {"detected"} \cup (IF status = "returned" THEN {"returned"}
                       ELSE IF status = "credited" THEN {"available"} ELSE {})

\* Mutation of Untold: a deposit once told of is done with.
UntoldWhenNew(status, seen) ==
    IF seen # {} THEN {}
    ELSE {"detected"} \cup (IF status = "returned" THEN {"returned"}
                            ELSE IF status = "credited" THEN {"available"} ELSE {})

\* What is left to tell of a deposit, by the flags its row had.  A deposit
\* sent back is not announced as spendable any more.
Untold(status, seen) ==
    ({"detected"} \cup (IF status = "returned" THEN {"returned"}
                        ELSE IF status = "credited" THEN {"available"} ELSE {})) \ seen

\* Where the walk goes once these are left to tell of deposit d: the next
\* deposit, or the end.
Onto(p, d, untold) ==
    IF untold # {} THEN [walks[p] EXCEPT !.at = "tell", !.d = d, !.untold = untold]
    ELSE IF walks[p].left = {d} THEN NoWalk
    ELSE [walks[p] EXCEPT !.at = "row", !.left = @ \ {d}, !.d = Null, !.untold = {}]

\* upsertSeen(): the row, with the flags it has.  The list comes in any order.
UpsertSeen(p) ==
    /\ walks[p].at = "row"
    /\ \E d \in walks[p].left :
          LET seen == IF d \in DOMAIN flags THEN flags[d] ELSE {}
          IN  /\ flags' = [e \in DOMAIN flags \cup {d} |->
                              IF e = d THEN seen ELSE flags[e]]
              /\ walks' = [walks EXCEPT ![p] =
                              Onto(p, d, Untold(walks[p].found[d], seen))]
    /\ UNCHANGED <<account, loud, unwanted, hydrated, announced, overlaps, quieted,
                   backlog, crashes>>

\* The message due, of the deposit the walk is at; "detected" comes first.
Telling(p, k) ==
    /\ k \in walks[p].untold
    /\ "detected" \in walks[p].untold => k = "detected"

Told(p, k) == [walks EXCEPT ![p] = Onto(p, @.d, @.untold \ {k})]

\* markNotified(): the flag, and for a deposit sent back the flag that keeps
\* it from being announced as spendable.
Flagged(d, k) ==
    [flags EXCEPT ![d] = @ \cup (IF k = "returned" THEN {k, "available"} ELSE {k})]

\* handleEvent() with a switch off: flagged without a word.
Absorb(p, k) ==
    /\ walks[p].at = "tell"
    /\ Telling(p, k)
    /\ ~walks[p].loud \/ k \in unwanted
    /\ flags' = Flagged(walks[p].d, k)
    /\ walks' = Told(p, k)
    /\ UNCHANGED <<account, loud, unwanted, hydrated, announced, overlaps, quieted,
                   backlog, crashes>>

\* Otherwise the alert is recorded and sent ...
Announce(p, k) ==
    /\ walks[p].at = "tell"
    /\ Telling(p, k)
    /\ walks[p].loud
    /\ k \notin unwanted
    /\ announced' = [announced EXCEPT ![walks[p].d][k] = @ + 1]
    /\ walks' = [walks EXCEPT ![p].at = "flag"]
    /\ UNCHANGED <<account, flags, loud, unwanted, hydrated, overlaps, quieted,
                   backlog, crashes>>

\* ... and then flagged.
Flag(p, k) ==
    /\ walks[p].at = "flag"
    /\ Telling(p, k)
    /\ flags' = Flagged(walks[p].d, k)
    /\ walks' = Told(p, k)
    /\ UNCHANGED <<account, loud, unwanted, hydrated, announced, overlaps, quieted,
                   backlog, crashes>>

\* The alert could not be recorded: the next poll tries again, but a deposit
\* sent back is flagged as not spendable all the same.
\* Mutation of FlaggedAfterFailure: what could not be told is flagged too.
FlaggedAnyway(d, k) == Flagged(d, k)

FlaggedAfterFailure(d, k) ==
    IF k = "returned" THEN [flags EXCEPT ![d] = @ \cup {"available"}] ELSE flags

AnnounceFails(p, k) ==
    /\ walks[p].at = "tell"
    /\ Telling(p, k)
    /\ walks[p].loud
    /\ k \notin unwanted
    /\ flags' = FlaggedAfterFailure(walks[p].d, k)
    /\ walks' = Told(p, k)
    /\ UNCHANGED <<account, loud, unwanted, hydrated, announced, overlaps, quieted,
                   backlog, crashes>>

CrashWatcher ==
    /\ Dies
    /\ walks' = [p \in Polls |-> NoWalk]
    /\ hydrated' = FALSE
    /\ UNCHANGED <<account, flags, loud, unwanted, announced, overlaps, quieted, backlog>>

Walk(p) == UpsertSeen(p) \/ \E k \in Kinds : Absorb(p, k) \/ Announce(p, k) \/ Flag(p, k)

WatcherNext ==
    \/ \E d \in Deposits : Deposit(d) \/ \E s \in {"credited", "returned"} : MoveOn(d, s)
    \/ ToggleDeposits
    \/ \E k \in Kinds : ToggleKind(k)
    \/ \E p \in Polls : \/ StartPoll(p) \/ PollFails(p) \/ Polled(p) \/ Walk(p)
                        \/ \E k \in Kinds : AnnounceFails(p, k)
    \/ CrashWatcher

WatcherSpec == WatcherInit /\ [][WatcherNext]_watcherVars

-----------------------------------------------------------------------------
(* Properties *)

WatcherType ==
    /\ DOMAIN account \subseteq Deposits
    /\ DOMAIN flags \subseteq DOMAIN account
    /\ \A d \in DOMAIN flags : flags[d] \subseteq Kinds
    /\ unwanted \subseteq quieted
    /\ overlaps \in 0..MaxOverlaps
    /\ \A p \in UnderWay : walks[p].at \in {"fetch", "row", "tell", "flag"}

\* Each message is sent exactly once per deposit
\* (braiins-deposit-watcher.ts:19-20), except that a crash between alert and
\* flag costs one more, and so does every poll that overlaps another.
DepositOnce ==
    \A d \in Deposits : \A k \in Kinds : announced[d][k] <= 1 + crashes + overlaps

\* At least once, across crashes, failures and overlapping polls: an event is
\* flagged without a message only for a reason the operator knows of, that
\* the deposit is older than the table, was sent back, or was switched off.
NothingLost ==
    \A d \in DOMAIN flags : \A k \in flags[d] :
        \/ announced[d][k] > 0
        \/ d \in backlog
        \/ k \in quieted
        \/ k = "available" /\ account[d] = "returned"

\* Every deposit is in the end flagged as what became of it.
Accounted(d) ==
    /\ d \in DOMAIN flags
    /\ "detected" \in flags[d]
    /\ account[d] = "credited" => "available" \in flags[d]
    /\ account[d] = "returned" => "returned" \in flags[d]

DepositsSettle == \A d \in Deposits : d \in DOMAIN account ~> Accounted(d)

\* The timer fires, the walk goes on, and now and then Braiins answers and
\* the alert can be recorded.
Tells(p) == \E k \in Kinds : Announce(p, k) \/ Absorb(p, k)
TellFails(p) == \E k \in Kinds : AnnounceFails(p, k)

WatcherFairness ==
    /\ WF_watcherVars(\E p \in Polls : StartPoll(p))
    /\ \A p \in Polls : /\ SF_watcherVars(Polled(p))
                        /\ WF_watcherVars((Walk(p) \/ TellFails(p)))
                        /\ SF_watcherVars(Tells(p))
=============================================================================
