----------------------------- MODULE DecideTick -----------------------------
(***************************************************************************)
(* Consecutive ticks over the decision rules of module Decide, for every   *)
(* configuration and view of two bounded sets: a tick decides, the         *)
(* marketplace does all it is asked, and the next tick decides again with  *)
(* nothing else changed.                                                   *)
(***************************************************************************)
EXTENDS Decide

CONSTANTS
    Configs,    \* configuration rows to try
    Views,      \* views to try
    NewOrder    \* the id Braiins gives to a created order

ASSUME TryAssumption ==
    /\ Configs \subseteq ConfigType
    /\ \A v \in Views : Listed(v) \subseteq Nat /\ v \in ViewType(Listed(v))
    /\ NewOrder \in Nat

VARIABLES
    cfg,        \* the configuration row
    view,       \* what the tick observes
    plan,       \* what is left of what the tick dispatched
    phase,      \* "observed" or "acting"
    ticks       \* how many ticks have decided

decideVars == <<cfg, view, plan, phase, ticks>>

MaxTicks == 3   \* bound on ticks

-----------------------------------------------------------------------------
(* What executeLive() leaves behind when every call succeeds. *)

Placed(p) == [status |-> "ACTIVE", price |-> p.price, speed |-> p.speed,
              feePct |-> Null]

Edited(o, bid, p) ==
    IF p.kind = "PAUSE" \/ p.kind = "CREATE_BID" THEN bid
    ELSE IF p.order # o THEN bid
    ELSE CASE p.kind = "CANCEL_BID" -> [bid EXCEPT !.status = "PENDING_CANCEL"]
           [] p.kind = "EDIT_PRICE" -> [bid EXCEPT !.price = p.price]
           [] p.kind = "EDIT_SPEED" -> [bid EXCEPT !.speed = p.speed]

Effect(v, p) ==
    CASE p.kind = "PAUSE" -> [v EXCEPT !.runMode = "PAUSED"]
      [] p.kind = "CREATE_BID" ->
            [v EXCEPT !.owned = [o \in {NewOrder} |-> Placed(p)],
                      !.activeRows = @ + 1]
      [] OTHER ->
            [v EXCEPT !.owned = [o \in Listed(v) |-> Edited(o, v.owned[o], p)],
                      !.cooling = IF p.kind = "EDIT_PRICE" /\ p.price < p.old
                                  THEN @ \cup {p.order} ELSE @]

-----------------------------------------------------------------------------

DecideInit ==
    /\ cfg \in Configs
    /\ view \in Views
    /\ plan = {}
    /\ phase = "observed"
    /\ ticks = 0

DecideAgain ==
    /\ phase = "observed"
    /\ ticks < MaxTicks
    /\ plan' = Dispatched(cfg, view)
    /\ phase' = "acting"
    /\ ticks' = ticks + 1
    /\ UNCHANGED <<cfg, view>>

Apply ==
    /\ phase = "acting"
    /\ \E p \in plan :
          /\ IsNext(p, plan)
          /\ view' = Effect(view, p)
          /\ plan' = plan \ {p}
    /\ UNCHANGED <<cfg, phase, ticks>>

EndDecision ==
    /\ phase = "acting"
    /\ plan = {}
    /\ phase' = "observed"
    /\ UNCHANGED <<cfg, view, plan, ticks>>

DecideNext == DecideAgain \/ Apply \/ EndDecision

DecideSpec == DecideInit /\ [][DecideNext]_decideVars

-----------------------------------------------------------------------------
(* Properties *)

\* decide() guards every price it posts: no CREATE or EDIT_PRICE goes above
\* the operator's max_bid, nor, on a chain that has a hashprice, above
\* hashprice + max_overpay_vs_hashprice; and with that second ceiling
\* configured an unknown hashprice stops all pricing (decide.ts:113-138).
CapRespected ==
    \A p \in plan :
        p.kind \in {"CREATE_BID", "EDIT_PRICE"} =>
            /\ p.price <= cfg.maxBid
            /\ cfg.maxOverpay = Null \/ cfg.bip110
                 \/ (/\ view.hashprice # Null
                     /\ p.price <= view.hashprice * 1000 + cfg.maxOverpay)

\* Two ticks are enough: when nothing else moves, the third sends nothing.
\* No edit oscillates, no cancel is repeated on an order Braiins is already
\* unwinding, no second order follows a CREATE.  One tick is not: cancelling
\* the extra that carries too high a fee lifts the fee halt, and the edits
\* it held back go out with the second (decide.ts:57-65, 195-211,
\* gate.ts:32-41).
TwoTicksSettle == ticks = MaxTicks => plan = {}

\* The stratum-down and stale-node protections stop spending in one LIVE
\* tick whatever else is wrong: no market, no hashprice, a fee halt or a
\* price-decrease cooldown does not keep an order alive (decide.ts:69-103,
\* gate.ts:32-41).
BailsOut ==
    /\ phase = "observed"
    /\ ticks > 0
    /\ view.runMode = "LIVE"
    /\ view.unknown = {}
    /\ PoolUnusable(view)
    => Actionable(view) = {}

\* Two LIVE ticks that can price leave the lowest-numbered order, alone, and
\* within the deadband of the target unless the cooldown or the fee halt
\* keeps its price where it is (decide.ts:271-305, gate.ts:32-48).
KeepsOneOnTarget ==
    /\ phase = "observed"
    /\ ticks = 2
    /\ view.runMode = "LIVE"
    /\ view.unknown = {}
    /\ ~PoolUnusable(view)
    /\ Priceable(cfg, view)
    => \A o \in Actionable(view) :
          /\ Actionable(view) = {o}
          /\ \A other \in Listed(view) :
                view.owned[other].status = "PENDING_CANCEL" \/ o <= other
          /\ \/ Distance(view.owned[o].price, TargetPrice(cfg, view))
                  < EditDeadband(cfg, view)
             \/ IsFeeThresholdExceeded(cfg, view)
             \/ o \in view.cooling /\ view.owned[o].price > TargetPrice(cfg, view)
=============================================================================
