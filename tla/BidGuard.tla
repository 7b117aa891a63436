------------------------------ MODULE BidGuard ------------------------------
(***************************************************************************)
(* The bid guard: a breaker that holds CREATEs after too many orders in a   *)
(* row came and went without delivering, and a hold for as long as Braiins  *)
(* has the pool on its blacklist.  It is fed once per loop tick with the    *)
(* orders the tick saw and with what it executed.                           *)
(*                                                                         *)
(* The guard is a record:                                                   *)
(*   hold     [kind |-> "none" | "churn" | "blacklist", left |-> minutes]   *)
(*            (left is 0 for a hold without an end)                         *)
(*   streak   consecutive churn cycles                                      *)
(*   tracked  the orders seen last, in the order of the code's Map, each    *)
(*            with whether it ever delivered hashrate                       *)
(*   cancels  minutes since the daemon cancelled an order, or NoCancel      *)
(***************************************************************************)
EXTENDS Integers, SequencesExt

CONSTANTS
    GuardedIds,           \* order ids
    ChurnStreakThreshold, \* cycles that trip the breaker
    OwnCancelMemory,      \* minutes a cancel of ours excuses a disappearance
    BlacklistMargin,      \* minutes added to a blacklist expiry
    BlacklistFallback     \* minutes, when the expiry cannot be read

NoCancel == -1
NoHold == [kind |-> "none", left |-> 0]
ChurnHold == [kind |-> "churn", left |-> 0]
BlacklistHold(minutes) == [kind |-> "blacklist", left |-> minutes]

NewGuard == [hold |-> NoHold, streak |-> 0, tracked |-> <<>>,
             cancels |-> [o \in GuardedIds |-> NoCancel]]

\* hydrate(): only the hold survives a restart.
Hydrated(hold) == [NewGuard EXCEPT !.hold = hold]

\* Mutation of Refreshed: a blacklist hold has to be cleared by hand.
NeverRefreshed(g) == g

\* getHold(): a blacklist hold whose time has come is dropped when it is read.
Refreshed(g) ==
    IF g.hold.kind = "blacklist" /\ g.hold.left = 0
    THEN [g EXCEPT !.hold = NoHold] ELSE g

\* clearHold()
Cleared(g) ==
    IF g.hold.kind # "none"
    THEN [g EXCEPT !.hold = NoHold, !.streak = 0] ELSE g

-----------------------------------------------------------------------------
(* observeBids() *)

IsTracked(g, o) == \E i \in DOMAIN g.tracked : g.tracked[i].order = o

\* Present orders: known ones keep their place, new ones go to the end.
Tracking(g, present, delivering) ==
    LET new == SetToSeq({o \in present : ~IsTracked(g, o)})
    IN  [g EXCEPT !.tracked =
           [i \in 1..Len(g.tracked) |->
              LET bid == g.tracked[i]
              IN  [order |-> bid.order,
                   delivered |-> \/ bid.delivered
                                 \/ bid.order \in present \cap delivering]]
           \o [i \in 1..Len(new) |->
                 [order |-> new[i], delivered |-> new[i] \in delivering]]]

Excused(g, o) == g.cancels[o] # NoCancel /\ g.cancels[o] <= OwnCancelMemory

Untracked(bids, o) ==
    RemoveAt(bids, CHOOSE i \in 1..Len(bids) : bids[i].order = o)

\* Mutation of Departed: one cycle too many.
DepartedLate(g, bid) ==
    LET o == bid.order
        forgotten == [g EXCEPT !.tracked = Untracked(@, o),
                               !.cancels[o] = NoCancel]
        counted == [forgotten EXCEPT !.streak = @ + 1]
    IN  IF Excused(g, o) THEN forgotten
        ELSE IF bid.delivered THEN [forgotten EXCEPT !.streak = 0]
        ELSE IF counted.streak > ChurnStreakThreshold /\ g.hold = NoHold
        THEN [counted EXCEPT !.hold = ChurnHold]
        ELSE counted

\* One order that is no longer in the list.
Departed(g, bid) ==
    LET o == bid.order
        forgotten == [g EXCEPT !.tracked = Untracked(@, o),
                               !.cancels[o] = NoCancel]
        counted == [forgotten EXCEPT !.streak = @ + 1]
    IN  IF Excused(g, o) THEN forgotten
        ELSE IF bid.delivered THEN [forgotten EXCEPT !.streak = 0]
        ELSE IF counted.streak >= ChurnStreakThreshold /\ g.hold = NoHold
        THEN [counted EXCEPT !.hold = ChurnHold]
        ELSE counted

Forgetting(g) ==
    [g EXCEPT !.cancels = [o \in GuardedIds |->
                             IF @[o] > OwnCancelMemory THEN NoCancel ELSE @[o]]]

\* The walk over the orders that are tracked: the guard after the first i.
Walk(g, present) ==
    LET after[i \in 0..Len(g.tracked)] ==
          IF i = 0 THEN g
          ELSE IF g.tracked[i].order \in present THEN after[i - 1]
          ELSE Departed(after[i - 1], g.tracked[i])
    IN  after

\* Mutation of Observed: a list that did not arrive counts as an empty one.
ObservedUnchecked(g, present, delivering, ok) ==
    LET now == Tracking(g, present, delivering)
    IN  Forgetting(Walk(now, present)[Len(now.tracked)])

Observed(g, present, delivering, ok) ==
    LET now == Tracking(g, present, delivering)
    IN  IF ok THEN Forgetting(Walk(now, present)[Len(now.tracked)]) ELSE g

-----------------------------------------------------------------------------
(* observeExecuted() *)

WithCancels(g, cancelled) ==
    [g EXCEPT !.cancels = [o \in GuardedIds |->
                             IF o \in cancelled THEN 0 ELSE @[o]]]

\* A refusal that names the blacklist: expiry is the minutes it gives, 0 when
\* they cannot be read or are over.
HoldUntil(expiry) ==
    IF expiry > 0 THEN expiry + BlacklistMargin ELSE BlacklistFallback

Blacklisted(g, expiry) == [g EXCEPT !.hold = BlacklistHold(HoldUntil(expiry))]

\* refusals: the expiries named by the refused CREATEs of the tick, at most one.
Executed(g, cancelled, refusals) ==
    LET h == WithCancels(g, cancelled)
    IN  IF refusals = {} THEN h
        ELSE Blacklisted(h, CHOOSE e \in refusals : TRUE)

-----------------------------------------------------------------------------
(* The clock *)

\* Mutation of NextMinute: counts on after the end.
NextMinuteUnbounded(hold) == [hold EXCEPT !.left = @ - 1]

NextMinute(hold) ==
    [hold EXCEPT !.left = IF @ = 0 THEN 0 ELSE @ - 1]

MinuteOn(g) ==
    [g EXCEPT
       !.hold = NextMinute(@),
       !.cancels = [o \in GuardedIds |->
          IF @[o] = NoCancel \/ @[o] > OwnCancelMemory THEN @[o] ELSE @[o] + 1]]
=============================================================================
