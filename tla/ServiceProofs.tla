---------------------------- MODULE ServiceProofs ---------------------------
(* What the services beside the control loop promise, for every number of   *)
(* deposits, polls, blocks, pushes, alerts and workers, every setting and   *)
(* every number of crashes.                                                 *)
EXTENDS DepositWatcher, Ddns, BlockCredits, AlertDelivery, FiniteSetTheorems,
        WellFoundedInduction, TLAPS

-----------------------------------------------------------------------------
(* The deposit watcher: its state *)

Stages == {"idle", "fetch", "row", "tell", "flag"}

WalkShape(turn) ==
    /\ DOMAIN turn = {"at", "left", "found", "loud", "d", "untold"}
    /\ turn.at \in Stages
    /\ turn.loud \in BOOLEAN
    /\ \/ turn.untold \subseteq {"detected", "available"}
       \/ turn.untold \subseteq {"detected", "returned"}

\* What a walk is about is a deposit there is, and once it is told about, a
\* row of the table.
WalkOf(p) ==
    /\ WalkShape(walks[p])
    /\ walks[p].at = "row" => walks[p].left \subseteq DOMAIN account
    /\ walks[p].at \in {"tell", "flag"} =>
          /\ walks[p].left \subseteq DOMAIN account
          /\ walks[p].d \in DOMAIN flags

DepositTypes ==
    /\ DOMAIN account \subseteq Deposits
    /\ DOMAIN flags \subseteq DOMAIN account
    /\ announced \in [Deposits -> [Kinds -> Nat]]
    /\ overlaps \in Nat /\ crashes \in Nat
    /\ DOMAIN walks = Polls
    /\ \A p \in Polls : WalkOf(p)
    /\ IsFiniteSet(UnderWay)

-----------------------------------------------------------------------------
(* The deposit watcher: at most once, but for crashes and overlaps *)

Known(d, k) == d \in DOMAIN flags /\ k \in flags[d]

\* The walk has told the operator and not flagged it yet.
Flagging(d, k) ==
    {p \in Polls : walks[p].at = "flag" /\ walks[p].d = d /\ Telling(p, k)}

\* The walk read the row before it had the flag, and has not told.
Holding(d, k) ==
    {p \in Polls : /\ walks[p].at \in {"tell", "flag"}
                   /\ walks[p].d = d
                   /\ k \in walks[p].untold} \ Flagging(d, k)

\* The walks that may yet tell.
Open(d, k) == IF Known(d, k) THEN Holding(d, k) ELSE UnderWay \ Flagging(d, k)

Quota == 1 + crashes + overlaps

\* What was told and what may yet be told by the walks under way stay within
\* the quota; and as long as nobody has told, a fresh poll has room.
WithinQuota(d, k) ==
    /\ announced[d][k] + Cardinality(Open(d, k)) <= Quota
    /\ ~Known(d, k) /\ Flagging(d, k) = {} => announced[d][k] < Quota

AllWithinQuota == \A d \in Deposits : \A k \in Kinds : WithinQuota(d, k)

DepositBudget == DepositTypes /\ AllWithinQuota

-----------------------------------------------------------------------------
(* The deposit watcher: at least once *)

\* A walk without a voice is over deposits of the backlog, or the operator
\* switched everything off.
MuteWalk(p) ==
    walks[p].at \in {"row", "tell", "flag"} /\ ~walks[p].loud =>
        \/ Kinds \subseteq quieted
        \/ /\ walks[p].left \subseteq backlog
           /\ walks[p].at # "row" => walks[p].d \in backlog

\* What is about to be flagged was told, and only what was sent back is told
\* of as sent back.
ToldFirst(p) ==
    /\ walks[p].at = "flag" =>
          \A k \in Kinds : Telling(p, k) => announced[walks[p].d][k] > 0
    /\ walks[p].at \in {"tell", "flag"} /\ "returned" \in walks[p].untold =>
          account[walks[p].d] = "returned"
    /\ walks[p].at \in {"row", "tell", "flag"} =>
          \A e \in walks[p].left :
              walks[p].found[e] = "returned" => account[e] = "returned"

Excuses ==
    /\ backlog \subseteq DOMAIN account
    /\ unwanted \subseteq quieted /\ quieted \subseteq Kinds
    /\ ~loud => Kinds \subseteq quieted
    /\ \A p \in Polls : MuteWalk(p) /\ ToldFirst(p)
    /\ \A d \in DOMAIN flags : flags[d] \subseteq Kinds
    /\ NothingLost

-----------------------------------------------------------------------------
(* The deposit watcher: the walks *)

\* One message at a time is due.
LEMMA OneDue ==
    ASSUME NEW p, WalkShape(walks[p]), NEW k, NEW l, Telling(p, k), Telling(p, l)
    PROVE  k = l
BY DEF WalkShape, Telling

LEMMA NoWalkShape == WalkShape(NoWalk)
BY DEF WalkShape, NoWalk, Stages

\* A walk that begins.
NewWalk(list, voice) ==
    [NoWalk EXCEPT !.at = "row", !.left = DOMAIN list, !.found = list,
                   !.loud = voice]

LEMMA NewWalkShape ==
    ASSUME NEW list, NEW voice \in BOOLEAN
    PROVE  /\ WalkShape(NewWalk(list, voice))
           /\ NewWalk(list, voice).at = "row"
           /\ NewWalk(list, voice).left = DOMAIN list
           /\ NewWalk(list, voice).found = list
           /\ NewWalk(list, voice).loud = voice
<1> DEFINE new == NewWalk(list, voice)
<1>1. /\ DOMAIN NoWalk = {"at", "left", "found", "loud", "d", "untold"}
      /\ NoWalk.untold = {}
  BY DEF NoWalk
<1>2. DOMAIN new = {"at", "left", "found", "loud", "d", "untold"}
  BY <1>1 DEF NewWalk
<1>3. /\ new.at = "row" /\ new.left = DOMAIN list /\ new.found = list
      /\ new.untold = {}
  BY <1>1 DEF NewWalk
<1>4. new.loud = voice
  BY <1>1 DEF NewWalk
<1> HIDE DEF new
<1>5. WalkShape(new)
  BY <1>2, <1>3, <1>4 DEF WalkShape, Stages
<1> QED
  BY <1>3, <1>4, <1>5 DEF new

\* Where Onto leads: back to the list, to the next message, or to the end.
LEMMA OntoShape ==
    ASSUME NEW p, WalkShape(walks[p]), NEW d, NEW untold,
           \/ untold \subseteq {"detected", "available"}
           \/ untold \subseteq {"detected", "returned"}
    PROVE  /\ WalkShape(Onto(p, d, untold))
           /\ Onto(p, d, untold).at \in {"idle", "row", "tell"}
           /\ Onto(p, d, untold).at = "tell" =>
                 /\ Onto(p, d, untold).untold = untold /\ untold # {}
                 /\ Onto(p, d, untold).d = d
                 /\ Onto(p, d, untold).left = walks[p].left
                 /\ Onto(p, d, untold).found = walks[p].found
                 /\ Onto(p, d, untold).loud = walks[p].loud
           /\ Onto(p, d, untold).at = "row" =>
                 /\ Onto(p, d, untold).left = walks[p].left \ {d}
                 /\ Onto(p, d, untold).found = walks[p].found
                 /\ Onto(p, d, untold).loud = walks[p].loud
<1>1. CASE untold # {}
  <2>1. Onto(p, d, untold) =
           [walks[p] EXCEPT !.at = "tell", !.d = d, !.untold = untold]
    BY <1>1 DEF Onto
  <2> QED
    BY <1>1, <2>1 DEF WalkShape, Stages
<1>2. CASE untold = {} /\ walks[p].left = {d}
  <2>1. Onto(p, d, untold) = NoWalk
    BY <1>2 DEF Onto
  <2> QED
    BY <2>1, NoWalkShape DEF NoWalk
<1>3. CASE untold = {} /\ walks[p].left # {d}
  <2>1. Onto(p, d, untold) =
           [walks[p] EXCEPT !.at = "row", !.left = walks[p].left \ {d},
                            !.d = Null, !.untold = {}]
    BY <1>3 DEF Onto, WalkShape
  <2> QED
    BY <2>1 DEF WalkShape, Stages
<1> QED
  BY <1>1, <1>2, <1>3

LEMMA UntoldShape ==
    ASSUME NEW status, NEW seen
    PROVE  \/ Untold(status, seen) \subseteq {"detected", "available"}
           \/ Untold(status, seen) \subseteq {"detected", "returned"}
BY DEF Untold

\* Polls under way.
LEMMA UnderWayOf ==
    ASSUME NEW p \in Polls, DOMAIN walks = Polls, IsFiniteSet(UnderWay),
           \A q \in Polls \ {p} : walks'[q] = walks[q]
    PROVE  IsFiniteSet(UnderWay')
<1>1. UnderWay' \subseteq UnderWay \cup {p}
  BY DEF UnderWay
<1>2. IsFiniteSet(UnderWay \cup {p})
  BY FS_AddElement
<1> QED
  BY <1>1, <1>2, FS_Subset

LEMMA DepositTypesInit == WatcherInit => DepositTypes
<1> SUFFICES ASSUME WatcherInit PROVE DepositTypes
  OBVIOUS
<1>1. DOMAIN account = {} /\ DOMAIN flags = {}
  BY DEF WatcherInit
<1>2. announced \in [Deposits -> [Kinds -> Nat]]
  BY DEF WatcherInit, Nothing, Kinds
<1>3. DOMAIN walks = Polls /\ (\A p \in Polls : walks[p] = NoWalk)
  BY DEF WatcherInit
<1>4. \A p \in Polls : WalkOf(p)
  <2>1. NoWalk.at = "idle"
    BY DEF NoWalk
  <2> QED
    BY <1>3, <2>1, NoWalkShape DEF WalkOf
<1>5. UnderWay = {}
  BY <1>3 DEF UnderWay, NoWalk
<1> QED
  BY <1>1, <1>2, <1>3, <1>4, <1>5, FS_EmptySet DEF DepositTypes, WatcherInit

\* A step of one walk, or of none, over rows and accounts that only grow.
LEMMA WalkStepTypes ==
    ASSUME DepositTypes, NEW p \in Polls,
           DOMAIN walks' = Polls,
           \A q \in Polls \ {p} : walks'[q] = walks[q],
           WalkOf(p)',
           DOMAIN account \subseteq DOMAIN account', DOMAIN account' \subseteq Deposits,
           DOMAIN flags \subseteq DOMAIN flags', DOMAIN flags' \subseteq DOMAIN account',
           announced' \in [Deposits -> [Kinds -> Nat]],
           overlaps' \in Nat, crashes' \in Nat
    PROVE  DepositTypes'
<1>1. \A q \in Polls : WalkOf(q)'
  <2> SUFFICES ASSUME NEW q \in Polls, q # p PROVE WalkOf(q)'
    OBVIOUS
  <2>1. walks'[q] = walks[q] /\ WalkOf(q)
    BY DEF DepositTypes
  <2> QED
    BY <2>1 DEF WalkOf
<1>2. IsFiniteSet(UnderWay')
  BY UnderWayOf DEF DepositTypes
<1> QED
  BY <1>1, <1>2 DEF DepositTypes

\* What the steps that move one walk on to its next message have in common:
\* a message told, absorbed or given up on.
MovesOn(p, k) ==
    /\ p \in Polls /\ k \in Kinds
    /\ walks[p].at \in {"tell", "flag"}
    /\ Telling(p, k)
    /\ walks' = Told(p, k)
    /\ DOMAIN flags' = DOMAIN flags
    /\ \A d \in DOMAIN flags :
          /\ flags[d] \subseteq flags'[d]
          /\ d # walks[p].d => flags'[d] = flags[d]
    /\ walks[p].at = "flag" => k \in flags'[walks[p].d]
    /\ UNCHANGED <<account, announced, overlaps, crashes, backlog>>

LEMMA StepsMoveOn ==
    ASSUME DepositTypes, NEW p \in Polls, NEW k \in Kinds,
           Absorb(p, k) \/ Flag(p, k) \/ AnnounceFails(p, k)
    PROVE  MovesOn(p, k)
<1>1. walks[p].at \in {"tell", "flag"} => walks[p].d \in DOMAIN flags
  BY DEF DepositTypes, WalkOf
<1>2. CASE Absorb(p, k)
  BY <1>1, <1>2 DEF Absorb, Flagged, MovesOn
<1>3. CASE Flag(p, k)
  BY <1>1, <1>3 DEF Flag, Flagged, MovesOn
<1>4. CASE AnnounceFails(p, k)
  BY <1>1, <1>4 DEF AnnounceFails, FlaggedAfterFailure, MovesOn
<1> QED
  BY <1>2, <1>3, <1>4

LEMMA MovesOnWalk ==
    ASSUME DepositTypes, NEW p, NEW k, MovesOn(p, k)
    PROVE  /\ DOMAIN walks' = Polls
           /\ \A q \in Polls \ {p} : walks'[q] = walks[q]
           /\ walks'[p] = Onto(p, walks[p].d, walks[p].untold \ {k})
           /\ WalkOf(p)'
           /\ walks'[p].at \in {"idle", "row", "tell"}
           /\ walks'[p].at = "tell" =>
                 /\ walks'[p].d = walks[p].d
                 /\ walks'[p].untold = walks[p].untold \ {k}
                 /\ walks'[p].left = walks[p].left
           /\ walks'[p].at = "row" =>
                 walks'[p].left = walks[p].left \ {walks[p].d}
           /\ walks'[p].at # "idle" =>
                 /\ walks'[p].found = walks[p].found
                 /\ walks'[p].loud = walks[p].loud
<1>1. /\ p \in Polls /\ DOMAIN walks = Polls /\ WalkOf(p)
      /\ DOMAIN flags' = DOMAIN flags /\ account' = account
      /\ walks[p].at \in {"tell", "flag"}
  BY DEF DepositTypes, MovesOn
<1>2. walks' = [walks EXCEPT ![p] = Onto(p, walks[p].d, walks[p].untold \ {k})]
  BY <1>1 DEF MovesOn, Told
<1>3. /\ DOMAIN walks' = Polls
      /\ \A q \in Polls \ {p} : walks'[q] = walks[q]
      /\ walks'[p] = Onto(p, walks[p].d, walks[p].untold \ {k})
  BY <1>1, <1>2
<1> DEFINE untold == walks[p].untold \ {k}
           d == walks[p].d
           turn == Onto(p, d, untold)
<1>4. \/ untold \subseteq {"detected", "available"}
      \/ untold \subseteq {"detected", "returned"}
  BY <1>1 DEF WalkOf, WalkShape
<1>5. walks'[p] = turn /\ d = walks[p].d /\ untold = walks[p].untold \ {k}
  BY <1>3
<1>6. WalkShape(walks[p])
  BY <1>1 DEF WalkOf
<1> HIDE DEF untold, d
<1>7. /\ WalkShape(turn)
      /\ turn.at \in {"idle", "row", "tell"}
      /\ turn.at = "tell" =>
            /\ turn.untold = untold /\ turn.d = d
            /\ turn.left = walks[p].left
            /\ turn.found = walks[p].found /\ turn.loud = walks[p].loud
      /\ turn.at = "row" =>
            /\ turn.left = walks[p].left \ {d}
            /\ turn.found = walks[p].found /\ turn.loud = walks[p].loud
  BY <1>4, <1>6, OntoShape
<1> HIDE DEF turn
<1>8. WalkOf(p)'
  <2>1. WalkShape(walks[p])'
    BY <1>7, <1>5 DEF WalkShape
  <2>2. walks[p].left \subseteq DOMAIN account /\ walks[p].d \in DOMAIN flags
    BY <1>1 DEF WalkOf
  <2> QED
    BY <1>1, <1>7, <1>5, <2>1, <2>2 DEF WalkOf
<1> QED
  BY <1>3, <1>7, <1>5, <1>8

-----------------------------------------------------------------------------
(* The deposit watcher: the quota *)

LEMMA OpenFinite ==
    ASSUME DepositTypes, NEW d, NEW k
    PROVE  /\ Open(d, k) \subseteq UnderWay
           /\ IsFiniteSet(Open(d, k)) /\ Cardinality(Open(d, k)) \in Nat
           /\ Flagging(d, k) \subseteq UnderWay
           /\ Holding(d, k) \subseteq UnderWay \ Flagging(d, k)
<1>1. Flagging(d, k) \subseteq UnderWay
  BY DEF Flagging, UnderWay
<1>2. Holding(d, k) \subseteq UnderWay \ Flagging(d, k)
  BY DEF Holding, UnderWay
<1>3. Open(d, k) \subseteq UnderWay
  BY <1>2 DEF Open
<1> QED
  BY <1>1, <1>2, <1>3, FS_Subset, FS_CardinalityType DEF DepositTypes

\* Nobody new may tell, and nothing was told.
LEMMA QuotaStays ==
    ASSUME DepositTypes, NEW d \in Deposits, NEW k \in Kinds, WithinQuota(d, k),
           announced'[d][k] = announced[d][k],
           crashes' = crashes, overlaps' = overlaps,
           Open(d, k)' \subseteq Open(d, k),
           ~Known(d, k)' => ~Known(d, k) /\ Flagging(d, k)' = Flagging(d, k)
    PROVE  WithinQuota(d, k)'
<1>1. Cardinality(Open(d, k)') <= Cardinality(Open(d, k))
      /\ Cardinality(Open(d, k)') \in Nat /\ Cardinality(Open(d, k)) \in Nat
  BY OpenFinite, FS_Subset, FS_CardinalityType
<1>2. announced[d][k] \in Nat
  BY DEF DepositTypes
<1>3. Quota' = Quota /\ Quota \in Nat
  BY DEF Quota, DepositTypes
<1> QED
  BY <1>1, <1>2, <1>3 DEF WithinQuota

LEMMA MovesOnQuota ==
    ASSUME DepositTypes, NEW p, NEW j, MovesOn(p, j),
           NEW d \in Deposits, NEW k \in Kinds, WithinQuota(d, k)
    PROVE  WithinQuota(d, k)'
<1>1. /\ p \in Polls /\ WalkShape(walks[p]) /\ Telling(p, j)
      /\ walks[p].at \in {"tell", "flag"} /\ walks[p].d \in DOMAIN flags
      /\ p \in UnderWay
  BY DEF MovesOn, DepositTypes, WalkOf, UnderWay
<1>2. /\ \A q \in Polls \ {p} : walks'[q] = walks[q]
      /\ walks'[p].at \in {"idle", "row", "tell"}
      /\ walks'[p].at = "tell" =>
            walks'[p].d = walks[p].d /\ walks'[p].untold = walks[p].untold \ {j}
  BY MovesOnWalk
<1>3. Known(d, k) => Known(d, k)'
  BY DEF MovesOn, Known
<1>4. p \in Flagging(d, k) => Known(d, k)' /\ k = j
  BY <1>1, OneDue DEF Flagging, MovesOn, Known
<1>5. Flagging(d, k)' = Flagging(d, k) \ {p}
  <2>1. \A q \in Polls \ {p} : q \in Flagging(d, k)' <=> q \in Flagging(d, k)
    BY <1>2 DEF Flagging, Telling
  <2>2. p \notin Flagging(d, k)'
    BY <1>2 DEF Flagging
  <2> QED
    BY <2>1, <2>2 DEF Flagging
<1>6. Holding(d, k)' \subseteq Holding(d, k)
  <2>1. \A q \in Polls \ {p} : q \in Holding(d, k)' => q \in Holding(d, k)
    BY <1>2, <1>5 DEF Holding
  <2>2. p \in Holding(d, k)' => p \in Holding(d, k)
    <3> SUFFICES ASSUME p \in Holding(d, k)' PROVE p \in Holding(d, k)
      OBVIOUS
    <3>1. walks'[p].at = "tell" /\ walks'[p].d = d /\ k \in walks'[p].untold
      BY <1>2 DEF Holding
    <3>2. k # j /\ walks[p].d = d /\ k \in walks[p].untold
      BY <1>2, <3>1
    <3>3. p \notin Flagging(d, k)
      BY <1>4, <3>2
    <3> QED
      BY <1>1, <3>2, <3>3 DEF Holding
  <2> QED
    BY <2>1, <2>2 DEF Holding
<1>7. UnderWay' \subseteq UnderWay
  BY <1>1, <1>2 DEF UnderWay
<1>8. Holding(d, k) \subseteq UnderWay \ Flagging(d, k)
  BY OpenFinite
<1>9. Open(d, k)' \subseteq Open(d, k)
  <2>1. CASE Known(d, k)
    BY <1>3, <1>6, <2>1 DEF Open
  <2>2. CASE ~Known(d, k) /\ Known(d, k)'
    BY <1>6, <1>8, <2>2 DEF Open
  <2>3. CASE ~Known(d, k)'
    BY <1>3, <1>4, <1>5, <1>7, <2>3 DEF Open
  <2> QED
    BY <2>1, <2>2, <2>3
<1>10. ~Known(d, k)' => ~Known(d, k) /\ Flagging(d, k)' = Flagging(d, k)
  BY <1>3, <1>4, <1>5
<1>11. announced' = announced /\ crashes' = crashes /\ overlaps' = overlaps
  BY DEF MovesOn
<1> QED
  BY <1>9, <1>10, <1>11, QuotaStays

\* A step of one walk before its first message, or of none: nobody holds more
\* than before, and the flags are the same.
LEMMA QuietQuota ==
    ASSUME DepositTypes, NEW p \in Polls,
           \A q \in Polls \ {p} : walks'[q] = walks[q],
           walks[p].at \in {"fetch", "row"},
           walks'[p].at \in {"idle", "row", "tell"},
           \A e, l : Known(e, l)' <=> Known(e, l),
           UNCHANGED <<announced, crashes, overlaps>>,
           NEW d \in Deposits, NEW k \in Kinds, WithinQuota(d, k),
           Known(d, k) => p \notin Holding(d, k)'
    PROVE  WithinQuota(d, k)'
<1>1. Flagging(d, k)' = Flagging(d, k)
  <2>1. \A q \in Polls \ {p} : q \in Flagging(d, k)' <=> q \in Flagging(d, k)
    BY DEF Flagging, Telling
  <2>2. p \notin Flagging(d, k)' /\ p \notin Flagging(d, k)
    BY DEF Flagging
  <2> QED
    BY <2>1, <2>2 DEF Flagging
<1>2. UnderWay' \subseteq UnderWay
  BY DEF UnderWay
<1>3. Known(d, k) => Holding(d, k)' \subseteq Holding(d, k)
  <2>1. \A q \in Polls \ {p} : q \in Holding(d, k)' => q \in Holding(d, k)
    BY <1>1 DEF Holding
  <2> QED
    BY <2>1 DEF Holding
<1>4. Known(d, k)' <=> Known(d, k)
  OBVIOUS
<1>5. Open(d, k)' \subseteq Open(d, k)
  <2>1. CASE Known(d, k)
    BY <1>3, <1>4, <2>1 DEF Open
  <2>2. CASE ~Known(d, k)
    BY <1>1, <1>2, <1>4, <2>2 DEF Open
  <2> QED
    BY <2>1, <2>2
<1>6. announced'[d][k] = announced[d][k]
  OBVIOUS
<1> QED
  BY <1>1, <1>4, <1>5, <1>6, QuotaStays

LEMMA PollEndsKeeps ==
    ASSUME DepositBudget, NEW p \in Polls, PollFails(p) \/ Polled(p)
    PROVE  DepositBudget'
<1>1. /\ walks[p].at = "fetch" /\ DOMAIN walks = Polls /\ WalkShape(walks[p])
      /\ DepositTypes
  BY DEF PollFails, Polled, DepositBudget, DepositTypes, WalkOf
<1>2. /\ DOMAIN walks' = Polls
      /\ \A q \in Polls \ {p} : walks'[q] = walks[q]
      /\ WalkShape(walks'[p]) /\ walks'[p].at \in {"idle", "row"}
      /\ walks'[p].at = "row" => walks'[p].left = DOMAIN account
  <2>1. CASE PollFails(p)
    <3>1. walks'[p] = NoWalk
      BY <1>1, <2>1 DEF PollFails
    <3>2. NoWalk.at = "idle"
      BY DEF NoWalk
    <3> QED
      BY <1>1, <2>1, <3>1, <3>2, NoWalkShape DEF PollFails
  <2>2. CASE Polled(p) /\ account = <<>>
    <3>1. walks' = [walks EXCEPT ![p] = NoWalk]
      BY <2>2 DEF Polled
    <3>2. NoWalk.at = "idle"
      BY DEF NoWalk
    <3> QED
      BY <1>1, <3>1, <3>2, NoWalkShape
  <2>3. CASE Polled(p) /\ account # <<>>
    <3> DEFINE voice == loud /\ ~Baseline(account)
               turn == NewWalk(account, voice)
    <3>1. walks' = [walks EXCEPT ![p] = turn]
      BY <2>3 DEF Polled, NewWalk
    <3>2. voice \in BOOLEAN
      OBVIOUS
    <3> HIDE DEF voice
    <3>3. WalkShape(turn) /\ turn.at = "row" /\ turn.left = DOMAIN account
      BY <3>2, NewWalkShape
    <3> HIDE DEF turn
    <3> QED
      BY <1>1, <3>1, <3>3
  <2> QED
    BY <2>1, <2>2, <2>3
<1>3. UNCHANGED <<account, flags, announced, overlaps, crashes>>
  BY DEF PollFails, Polled
<1>4. WalkOf(p)'
  <2>1. WalkShape(walks[p])'
    BY <1>2 DEF WalkShape
  <2> QED
    BY <1>2, <1>3, <2>1 DEF WalkOf
<1>5. DepositTypes'
  BY <1>1, <1>2, <1>3, <1>4, WalkStepTypes DEF DepositTypes
<1>6. ASSUME NEW d \in Deposits, NEW k \in Kinds
      PROVE  WithinQuota(d, k)'
  <2>1. \A e, l : Known(e, l)' <=> Known(e, l)
    BY <1>3 DEF Known
  <2>2. p \notin Holding(d, k)'
    BY <1>2 DEF Holding
  <2>3. WithinQuota(d, k)
    BY DEF DepositBudget, AllWithinQuota
  <2> QED
    BY <1>1, <1>2, <1>3, <2>1, <2>2, <2>3, QuietQuota
<1> QED
  BY <1>5, <1>6 DEF DepositBudget, AllWithinQuota

LEMMA UpsertSeenKeeps ==
    ASSUME DepositBudget, NEW p \in Polls, UpsertSeen(p)
    PROVE  DepositBudget'
<1>1. /\ walks[p].at = "row" /\ DOMAIN walks = Polls /\ WalkShape(walks[p])
      /\ DepositTypes /\ walks[p].left \subseteq DOMAIN account
  BY DEF UpsertSeen, DepositBudget, DepositTypes, WalkOf
<1> DEFINE seen(e) == IF e \in DOMAIN flags THEN flags[e] ELSE {}
<1>2. PICK d \in walks[p].left :
        /\ flags' = [e \in DOMAIN flags \cup {d} |->
                       IF e = d THEN seen(d) ELSE flags[e]]
        /\ walks' = [walks EXCEPT ![p] =
                       Onto(p, d, Untold(walks[p].found[d], seen(d)))]
  BY DEF UpsertSeen
<1> DEFINE untold == Untold(walks[p].found[d], seen(d))
           turn == Onto(p, d, untold)
<1>3. /\ DOMAIN walks' = Polls
      /\ \A q \in Polls \ {p} : walks'[q] = walks[q]
      /\ walks'[p] = turn
  BY <1>1, <1>2
<1>4. \/ untold \subseteq {"detected", "available"}
      \/ untold \subseteq {"detected", "returned"}
  BY UntoldShape
<1>5. untold \cap seen(d) = {}
  BY DEF Untold
<1>6. UNCHANGED <<account, announced, overlaps, crashes>>
  BY DEF UpsertSeen
<1>7. /\ DOMAIN flags' = DOMAIN flags \cup {d}
      /\ \A e, l : Known(e, l)' <=> Known(e, l)
      /\ \A l : Known(d, l) <=> l \in seen(d)
  BY <1>2 DEF Known
<1> HIDE DEF seen, untold
<1>8. /\ WalkShape(turn)
      /\ turn.at \in {"idle", "row", "tell"}
      /\ turn.at = "tell" =>
            turn.untold = untold /\ turn.d = d /\ turn.left = walks[p].left
      /\ turn.at = "row" => turn.left = walks[p].left \ {d}
  BY <1>1, <1>4, OntoShape
<1> HIDE DEF turn
<1>9. WalkOf(p)'
  <2>1. WalkShape(walks[p])'
    BY <1>3, <1>8 DEF WalkShape
  <2> QED
    BY <1>1, <1>3, <1>6, <1>7, <1>8, <2>1 DEF WalkOf
<1>10. DepositTypes'
  BY <1>1, <1>3, <1>6, <1>7, <1>9, WalkStepTypes DEF DepositTypes
<1>11. ASSUME NEW e \in Deposits, NEW k \in Kinds
       PROVE  WithinQuota(e, k)'
  <2>1. Known(e, k) => p \notin Holding(e, k)'
    BY <1>3, <1>5, <1>7, <1>8 DEF Holding
  <2>2. WithinQuota(e, k)
    BY DEF DepositBudget, AllWithinQuota
  <2> QED
    BY <1>1, <1>3, <1>6, <1>7, <1>8, <2>1, <2>2, QuietQuota
<1> QED
  BY <1>10, <1>11 DEF DepositBudget, AllWithinQuota

LEMMA MovesOnKeeps ==
    ASSUME DepositBudget, NEW p \in Polls, NEW k \in Kinds,
           Absorb(p, k) \/ Flag(p, k) \/ AnnounceFails(p, k)
    PROVE  DepositBudget'
<1>1. DepositTypes /\ MovesOn(p, k)
  BY StepsMoveOn DEF DepositBudget
<1>2. DepositTypes'
  BY <1>1, MovesOnWalk, WalkStepTypes DEF MovesOn, DepositTypes
<1>3. \A d \in Deposits : \A l \in Kinds : WithinQuota(d, l)'
  BY <1>1, MovesOnQuota DEF DepositBudget, AllWithinQuota
<1> QED
  BY <1>2, <1>3 DEF DepositBudget, AllWithinQuota

\* A poll beside another raises the quota; one that is alone still finds room
\* in it, unless the message is flagged already.
LEMMA StartPollKeeps ==
    ASSUME DepositBudget, NEW p \in Polls, StartPoll(p)
    PROVE  DepositBudget'
<1>1. /\ walks[p].at = "idle" /\ DOMAIN walks = Polls /\ WalkOf(p)
      /\ DepositTypes /\ IsFiniteSet(UnderWay) /\ p \notin UnderWay
  BY DEF StartPoll, DepositBudget, DepositTypes, UnderWay
<1>2. /\ walks' = [walks EXCEPT ![p].at = "fetch"]
      /\ overlaps' = overlaps + (IF UnderWay = {} THEN 0 ELSE 1)
      /\ UNCHANGED <<account, flags, announced, crashes>>
  BY DEF StartPoll
<1>3. /\ DOMAIN walks' = Polls
      /\ \A q \in Polls \ {p} : walks'[q] = walks[q]
      /\ WalkShape(walks'[p]) /\ walks'[p].at = "fetch"
  BY <1>1, <1>2 DEF WalkOf, WalkShape, Stages
<1>4. WalkOf(p)'
  <2>1. WalkShape(walks[p])'
    BY <1>3 DEF WalkShape
  <2> QED
    BY <1>3, <2>1 DEF WalkOf
<1>5. overlaps' \in Nat
  BY <1>1, <1>2 DEF DepositTypes
<1>6. DepositTypes'
  BY <1>1, <1>2, <1>3, <1>4, <1>5, WalkStepTypes DEF DepositTypes
<1>7. UnderWay' = UnderWay \cup {p}
  BY <1>1, <1>3 DEF UnderWay
<1>8. ASSUME NEW d \in Deposits, NEW k \in Kinds
      PROVE  WithinQuota(d, k)'
  <2>1. Flagging(d, k)' = Flagging(d, k) /\ Holding(d, k)' = Holding(d, k)
    <3>1. \A q \in Polls : q \in Flagging(d, k)' <=> q \in Flagging(d, k)
      BY <1>1, <1>3 DEF Flagging, Telling
    <3>2. Flagging(d, k)' = Flagging(d, k)
      BY <3>1 DEF Flagging
    <3>3. \A q \in Polls : q \in Holding(d, k)' <=> q \in Holding(d, k)
      BY <1>1, <1>3, <3>2 DEF Holding
    <3> QED
      BY <3>2, <3>3 DEF Holding
  <2>2. Known(d, k)' <=> Known(d, k)
    BY <1>2 DEF Known
  <2>3. /\ announced'[d][k] = announced[d][k] /\ announced[d][k] \in Nat
        /\ Quota \in Nat
        /\ UnderWay = {} => Quota' = Quota
        /\ UnderWay # {} => Quota' = Quota + 1
    <3>1. /\ announced'[d][k] = announced[d][k] /\ announced[d][k] \in Nat
          /\ overlaps \in Nat /\ crashes \in Nat
      BY <1>1, <1>2 DEF DepositTypes
    <3>2. /\ UnderWay = {} => overlaps' = overlaps
          /\ UnderWay # {} => overlaps' = overlaps + 1
      BY <1>2, <3>1
    <3> QED
      BY <1>2, <3>1, <3>2 DEF Quota
  <2>4. WithinQuota(d, k) /\ p \notin Flagging(d, k)
    BY <1>1 DEF DepositBudget, AllWithinQuota, Flagging
  <2>5. /\ IsFiniteSet(Open(d, k)) /\ Cardinality(Open(d, k)) \in Nat
        /\ Open(d, k) \subseteq UnderWay /\ Flagging(d, k) \subseteq UnderWay
    BY <1>1, OpenFinite
  <2>6. CASE Known(d, k)
    <3>1. Open(d, k)' = Open(d, k)
      BY <2>1, <2>2, <2>6 DEF Open
    <3> QED
      BY <2>1, <2>2, <2>3, <2>4, <2>5, <2>6, <3>1 DEF WithinQuota
  <2>7. CASE ~Known(d, k)
    <3>1. Open(d, k)' = Open(d, k) \cup {p} /\ p \notin Open(d, k)
      BY <1>1, <1>7, <2>1, <2>2, <2>4, <2>5, <2>7 DEF Open
    <3>2. Cardinality(Open(d, k)') = Cardinality(Open(d, k)) + 1
      BY <2>5, <3>1, FS_AddElement
    <3>3. CASE UnderWay = {}
      <4>1. Open(d, k) = {} /\ Flagging(d, k) = {}
        BY <2>5, <3>3
      <4>2. Cardinality(Open(d, k)) = 0
        BY <4>1, FS_EmptySet
      <4> QED
        BY <2>1, <2>2, <2>3, <2>4, <2>7, <3>2, <3>3, <4>1, <4>2 DEF WithinQuota
    <3>4. CASE UnderWay # {}
      BY <2>1, <2>2, <2>3, <2>4, <2>5, <2>7, <3>2, <3>4 DEF WithinQuota
    <3> QED
      BY <3>3, <3>4
  <2> QED
    BY <2>6, <2>7
<1> QED
  BY <1>6, <1>8 DEF DepositBudget, AllWithinQuota

\* Who tells gives up the right to tell again.
LEMMA AnnounceKeeps ==
    ASSUME DepositBudget, NEW p \in Polls, NEW j \in Kinds, Announce(p, j)
    PROVE  DepositBudget'
<1>1. /\ walks[p].at = "tell" /\ DOMAIN walks = Polls /\ WalkOf(p)
      /\ DepositTypes /\ Telling(p, j) /\ p \in UnderWay
      /\ walks[p].d \in DOMAIN flags /\ walks[p].d \in Deposits
  BY DEF Announce, DepositBudget, DepositTypes, UnderWay, WalkOf
<1>2. /\ walks' = [walks EXCEPT ![p].at = "flag"]
      /\ announced' = [announced EXCEPT ![walks[p].d][j] = announced[walks[p].d][j] + 1]
      /\ UNCHANGED <<account, flags, overlaps, crashes>>
  BY DEF Announce
<1>3. /\ DOMAIN walks' = Polls
      /\ \A q \in Polls \ {p} : walks'[q] = walks[q]
      /\ WalkShape(walks'[p]) /\ walks'[p].at = "flag"
      /\ walks'[p].d = walks[p].d /\ walks'[p].untold = walks[p].untold
      /\ walks'[p].left = walks[p].left
  BY <1>1, <1>2 DEF WalkOf, WalkShape, Stages
<1>4. WalkOf(p)'
  <2>1. WalkShape(walks[p])'
    BY <1>3 DEF WalkShape
  <2> QED
    BY <1>1, <1>2, <1>3, <2>1 DEF WalkOf
<1>5. announced' \in [Deposits -> [Kinds -> Nat]]
  BY <1>1, <1>2 DEF DepositTypes
<1>6. DepositTypes'
  BY <1>1, <1>2, <1>3, <1>4, <1>5, WalkStepTypes DEF DepositTypes
<1>7. UnderWay' = UnderWay
  BY <1>1, <1>3 DEF UnderWay
<1>8. ASSUME NEW d \in Deposits, NEW k \in Kinds
      PROVE  WithinQuota(d, k)'
  <2>1. Known(d, k)' <=> Known(d, k)
    BY <1>2 DEF Known
  <2>2. Quota' = Quota /\ Quota \in Nat /\ announced[d][k] \in Nat
    BY <1>1, <1>2 DEF DepositTypes, Quota
  <2>3. WithinQuota(d, k) /\ p \notin Flagging(d, k)
    BY <1>1 DEF DepositBudget, AllWithinQuota, Flagging
  <2>4. IsFiniteSet(Open(d, k)) /\ Cardinality(Open(d, k)) \in Nat
    BY <1>1, OpenFinite
  <2>5. \A q \in Polls \ {p} : /\ q \in Flagging(d, k)' <=> q \in Flagging(d, k)
                               /\ q \in Holding(d, k)' <=> q \in Holding(d, k)
    <3>1. \A q \in Polls \ {p} : q \in Flagging(d, k)' <=> q \in Flagging(d, k)
      BY <1>3 DEF Flagging, Telling
    <3> QED
      BY <1>3, <3>1 DEF Holding
  <2>6. CASE d = walks[p].d /\ k = j
    <3>1. announced'[d][k] = announced[d][k] + 1
      BY <1>2, <2>6, <1>1 DEF DepositTypes
    <3>2. p \in Flagging(d, k)'
      BY <1>1, <1>3, <2>6 DEF Flagging, Telling
    <3>3. p \in Open(d, k)
      BY <1>1, <2>3, <2>6 DEF Open, Holding, Telling
    <3>4. Open(d, k)' = Open(d, k) \ {p}
      <4>1. CASE Known(d, k)
        BY <2>1, <2>5, <3>2, <4>1 DEF Open, Holding
      <4>2. CASE ~Known(d, k)
        BY <1>7, <2>1, <2>5, <3>2, <4>2 DEF Open, UnderWay, Flagging
      <4> QED
        BY <4>1, <4>2
    <3>5. Cardinality(Open(d, k)') = Cardinality(Open(d, k)) - 1
      BY <2>4, <3>3, <3>4, FS_RemoveElement
    <3> QED
      BY <2>2, <2>3, <2>4, <3>1, <3>2, <3>5 DEF WithinQuota
  <2>7. CASE ~(d = walks[p].d /\ k = j)
    <3>1. announced'[d][k] = announced[d][k]
      BY <1>1, <1>2, <2>7 DEF DepositTypes
    <3>2. p \notin Flagging(d, k)'
      <4> SUFFICES ASSUME p \in Flagging(d, k)' PROVE FALSE
        OBVIOUS
      <4>1. walks[p].d = d /\ Telling(p, k)
        BY <1>3 DEF Flagging, Telling
      <4> QED
        BY <1>1, <2>7, <4>1, OneDue DEF WalkOf
    <3>3. Flagging(d, k)' = Flagging(d, k)
      BY <2>3, <2>5, <3>2 DEF Flagging
    <3>4. Holding(d, k)' = Holding(d, k)
      <4>1. p \in Holding(d, k)' <=> p \in Holding(d, k)
        BY <1>1, <1>3, <2>3, <3>2 DEF Holding
      <4> QED
        BY <2>5, <4>1 DEF Holding
    <3>5. Open(d, k)' = Open(d, k)
      BY <1>7, <2>1, <3>3, <3>4 DEF Open
    <3> QED
      BY <1>2, <2>1, <2>3, <3>1, <3>3, <3>5, <1>1, QuotaStays
  <2> QED
    BY <2>6, <2>7
<1> QED
  BY <1>6, <1>8 DEF DepositBudget, AllWithinQuota

\* A crash ends every walk and raises the quota for what was told and not
\* flagged.
LEMMA CrashWatcherKeeps ==
    ASSUME DepositBudget, CrashWatcher
    PROVE  DepositBudget'
<1>1. /\ DepositTypes /\ walks' = [p \in Polls |-> NoWalk]
      /\ crashes' = crashes + 1
      /\ UNCHANGED <<account, flags, announced, overlaps>>
  BY DEF DepositBudget, CrashWatcher, Dies
<1>2. NoWalk.at = "idle"
  BY DEF NoWalk
<1>3. \A p \in Polls : walks'[p] = NoWalk /\ walks'[p].at = "idle"
  BY <1>1, <1>2
<1>4. UnderWay' = {}
  BY <1>3 DEF UnderWay
<1>5. \A p \in Polls : WalkOf(p)'
  <2> SUFFICES ASSUME NEW p \in Polls PROVE WalkOf(p)'
    OBVIOUS
  <2>1. WalkShape(walks[p])'
    BY <1>3, NoWalkShape DEF WalkShape
  <2> QED
    BY <1>3, <2>1 DEF WalkOf
<1>6. DepositTypes'
  BY <1>1, <1>4, <1>5, FS_EmptySet DEF DepositTypes
<1>7. ASSUME NEW d \in Deposits, NEW k \in Kinds
      PROVE  WithinQuota(d, k)'
  <2>1. Open(d, k)' = {}
    BY <1>3, <1>4 DEF Open, Holding
  <2>2. Cardinality(Open(d, k)') = 0
    BY <2>1, FS_EmptySet
  <2>3. /\ announced'[d][k] = announced[d][k] /\ announced[d][k] \in Nat
        /\ Quota \in Nat /\ Quota' = Quota + 1
    BY <1>1 DEF DepositTypes, Quota
  <2>4. announced[d][k] <= Quota
    BY <1>1, <2>3, OpenFinite DEF DepositBudget, AllWithinQuota, WithinQuota
  <2> QED
    BY <2>2, <2>3, <2>4 DEF WithinQuota
<1> QED
  BY <1>6, <1>7 DEF DepositBudget, AllWithinQuota

\* Braiins and the operator: no walk, no flag and no count changes.
LEMMA OutsideKeeps ==
    ASSUME DepositBudget,
           UNCHANGED <<flags, walks, announced, overlaps, crashes>>,
           DOMAIN account \subseteq DOMAIN account', DOMAIN account' \subseteq Deposits
    PROVE  DepositBudget'
<1>1. DepositTypes'
  <2>1. \A p \in Polls : WalkOf(p)'
    BY DEF DepositBudget, DepositTypes, WalkOf
  <2>2. UnderWay' = UnderWay
    BY DEF UnderWay
  <2> QED
    BY <2>1, <2>2 DEF DepositBudget, DepositTypes
<1>2. \A d \in Deposits : \A k \in Kinds : WithinQuota(d, k)'
  <2> SUFFICES ASSUME NEW d \in Deposits, NEW k \in Kinds
               PROVE  WithinQuota(d, k)'
    OBVIOUS
  <2>1. /\ Flagging(d, k)' = Flagging(d, k) /\ Holding(d, k)' = Holding(d, k)
        /\ UnderWay' = UnderWay /\ (Known(d, k)' <=> Known(d, k))
    BY DEF Flagging, Holding, Telling, UnderWay, Known
  <2>2. Open(d, k)' = Open(d, k)
    BY <2>1 DEF Open
  <2>3. WithinQuota(d, k)
    BY DEF DepositBudget, AllWithinQuota
  <2> QED
    BY <2>1, <2>2, <2>3, QuotaStays DEF DepositBudget
<1> QED
  BY <1>1, <1>2 DEF DepositBudget, AllWithinQuota

LEMMA DepositBudgetNext ==
    ASSUME DepositBudget, [WatcherNext]_watcherVars
    PROVE  DepositBudget'
<1>1. CASE \E d \in Deposits : Deposit(d) \/ \E s \in {"credited", "returned"} : MoveOn(d, s)
  BY <1>1, OutsideKeeps DEF Deposit, MoveOn, DepositBudget, DepositTypes
<1>2. CASE ToggleDeposits \/ \E k \in Kinds : ToggleKind(k)
  BY <1>2, OutsideKeeps DEF ToggleDeposits, ToggleKind, DepositBudget, DepositTypes
<1>3. CASE \E p \in Polls : StartPoll(p)
  BY <1>3, StartPollKeeps
<1>4. CASE \E p \in Polls : PollFails(p) \/ Polled(p)
  BY <1>4, PollEndsKeeps
<1>5. CASE \E p \in Polls : UpsertSeen(p)
  BY <1>5, UpsertSeenKeeps
<1>6. CASE \E p \in Polls : \E k \in Kinds :
              Absorb(p, k) \/ Flag(p, k) \/ AnnounceFails(p, k)
  BY <1>6, MovesOnKeeps
<1>7. CASE \E p \in Polls : \E k \in Kinds : Announce(p, k)
  BY <1>7, AnnounceKeeps
<1>8. CASE CrashWatcher
  BY <1>8, CrashWatcherKeeps
<1>9. CASE UNCHANGED watcherVars
  BY <1>9, OutsideKeeps DEF watcherVars, DepositBudget, DepositTypes
<1> QED
  BY <1>1, <1>2, <1>3, <1>4, <1>5, <1>6, <1>7, <1>8, <1>9 DEF WatcherNext, Walk

LEMMA DepositBudgetInit == WatcherInit => DepositBudget
<1> SUFFICES ASSUME WatcherInit PROVE DepositBudget
  OBVIOUS
<1>1. DepositTypes
  BY DepositTypesInit
<1>2. ASSUME NEW d \in Deposits, NEW k \in Kinds
      PROVE  WithinQuota(d, k)
  <2>1. \A p \in Polls : walks[p].at = "idle"
    BY DEF WatcherInit, NoWalk
  <2>2. UnderWay = {}
    BY <2>1 DEF UnderWay
  <2>3. Open(d, k) = {}
    BY <1>1, <2>2, OpenFinite
  <2>4. Cardinality(Open(d, k)) = 0
    BY <2>3, FS_EmptySet
  <2>5. announced[d][k] = 0
    BY DEF WatcherInit, Nothing, Kinds
  <2>6. Quota = 1
    BY DEF Quota, WatcherInit
  <2> QED
    BY <2>4, <2>5, <2>6 DEF WithinQuota
<1> QED
  BY <1>1, <1>2 DEF DepositBudget, AllWithinQuota

\* No message of a deposit is sent more than once, but for one more for each
\* crash and each poll started during another
\* (braiins-deposit-watcher.ts:19-20).
THEOREM DepositOnceHolds == WatcherSpec => []DepositOnce
<1>1. DepositBudget /\ [WatcherNext]_watcherVars => DepositBudget'
  BY DepositBudgetNext
<1>2. DepositBudget => DepositOnce
  <2> SUFFICES ASSUME DepositBudget, NEW d \in Deposits, NEW k \in Kinds
               PROVE  announced[d][k] <= 1 + crashes + overlaps
    BY DEF DepositOnce
  <2>1. announced[d][k] \in Nat /\ Cardinality(Open(d, k)) \in Nat /\ Quota \in Nat
    BY OpenFinite DEF DepositBudget, DepositTypes, Quota
  <2>2. announced[d][k] + Cardinality(Open(d, k)) <= Quota
    BY DEF DepositBudget, AllWithinQuota, WithinQuota
  <2> QED
    BY <2>1, <2>2 DEF Quota
<1> QED
  BY <1>1, <1>2, DepositBudgetInit, PTL DEF WatcherSpec

-----------------------------------------------------------------------------
(* The deposit watcher: nothing is lost *)

\* Why message k of deposit d may be flagged without having been sent.
Excused(d, k) ==
    \/ announced[d][k] > 0
    \/ d \in backlog
    \/ k \in quieted
    \/ k = "available" /\ account[d] = "returned"

\* Excuses never expire.
Enduring ==
    /\ DOMAIN account \subseteq DOMAIN account'
    /\ \A d \in DOMAIN account : account[d] = "returned" => account'[d] = "returned"
    /\ backlog \subseteq backlog' /\ backlog' \subseteq DOMAIN account'
    /\ quieted \subseteq quieted' /\ quieted' \subseteq Kinds
    /\ unwanted' \subseteq quieted'
    /\ ~loud' => Kinds \subseteq quieted'
    /\ \A d \in Deposits : \A k \in Kinds : announced[d][k] > 0 => announced'[d][k] > 0

LEMMA StillExcused ==
    ASSUME Enduring, NEW d \in Deposits, d \in DOMAIN account, NEW k \in Kinds,
           Excused(d, k)
    PROVE  Excused(d, k)'
BY DEF Enduring, Excused

LEMMA ExcusedFlags ==
    ASSUME DepositTypes
    PROVE  NothingLost <=>
             \A d \in DOMAIN flags : \A k \in flags[d] : Excused(d, k)
BY DEF NothingLost, Excused

\* A walk that rests keeps its excuses.
LEMMA RestingWalk ==
    ASSUME DepositTypes, Enduring, NEW q \in Polls, walks'[q] = walks[q],
           MuteWalk(q), ToldFirst(q)
    PROVE  MuteWalk(q)' /\ ToldFirst(q)'
<1>1. WalkOf(q) /\ DOMAIN flags \subseteq DOMAIN account
      /\ DOMAIN account \subseteq Deposits
  BY DEF DepositTypes
<1>2. walks[q].at \in {"row", "tell", "flag"} => walks[q].left \subseteq DOMAIN account
  BY <1>1 DEF WalkOf
<1>3. walks[q].at \in {"tell", "flag"} => walks[q].d \in DOMAIN account
  BY <1>1 DEF WalkOf
<1>4. MuteWalk(q)'
  BY DEF MuteWalk, Enduring
<1>5. ToldFirst(q)'
  <2>1. walks[q].at = "flag" =>
          \A k \in Kinds : Telling(q, k) => announced'[walks[q].d][k] > 0
    BY <1>1, <1>3 DEF ToldFirst, Enduring
  <2>2. walks[q].at \in {"tell", "flag"} /\ "returned" \in walks[q].untold =>
          account'[walks[q].d] = "returned"
    BY <1>3 DEF ToldFirst, Enduring
  <2>3. walks[q].at \in {"row", "tell", "flag"} =>
          \A e \in walks[q].left :
              walks[q].found[e] = "returned" => account'[e] = "returned"
    BY <1>2 DEF ToldFirst, Enduring
  <2> QED
    BY <2>1, <2>2, <2>3 DEF ToldFirst, Telling
<1> QED
  BY <1>4, <1>5

\* One walk moves, and what it flags is excused.
LEMMA ExcusesStep ==
    ASSUME DepositTypes, DepositTypes', Excuses, Enduring, NEW p \in Polls,
           \A q \in Polls \ {p} : walks'[q] = walks[q],
           MuteWalk(p)', ToldFirst(p)',
           \A d \in DOMAIN flags' : \A k \in flags'[d] :
              \/ d \in DOMAIN flags /\ k \in flags[d]
              \/ k \in Kinds /\ Excused(d, k)'
    PROVE  Excuses'
<1>1. \A q \in Polls : MuteWalk(q)' /\ ToldFirst(q)'
  BY RestingWalk DEF Excuses
<1>2. \A d \in DOMAIN flags' : \A k \in flags'[d] : Excused(d, k)'
  <2> SUFFICES ASSUME NEW d \in DOMAIN flags, NEW k \in flags[d]
               PROVE  Excused(d, k)'
    OBVIOUS
  <2>1. Excused(d, k)
    BY ExcusedFlags DEF Excuses
  <2>2. d \in DOMAIN account /\ d \in Deposits /\ k \in Kinds
    BY DEF DepositTypes, Excuses
  <2> QED
    BY <2>1, <2>2, StillExcused
<1>3. NothingLost'
  BY <1>2 DEF NothingLost, Excused
<1>4. \A d \in DOMAIN flags' : flags'[d] \subseteq Kinds
  BY DEF Excuses
<1> QED
  BY <1>1, <1>3, <1>4 DEF Excuses, Enduring

\* Most steps leave every excuse as it is.
LEMMA PlainEnduring ==
    ASSUME Excuses, UNCHANGED <<account, backlog, quieted, unwanted, loud, announced>>
    PROVE  Enduring
BY DEF Excuses, Enduring

LEMMA OutsideExcuses ==
    ASSUME DepositTypes, Excuses,
           \/ \E d \in Deposits : Deposit(d) \/ \E s \in {"credited", "returned"} : MoveOn(d, s)
           \/ ToggleDeposits
           \/ \E k \in Kinds : ToggleKind(k)
           \/ UNCHANGED watcherVars
    PROVE  Excuses'
<1>1. Enduring
  <2>1. CASE \E d \in Deposits : Deposit(d)
    BY <2>1 DEF Deposit, Enduring, Excuses
  <2>2. CASE \E d \in Deposits : \E s \in {"credited", "returned"} : MoveOn(d, s)
    BY <2>2 DEF MoveOn, Enduring, Excuses
  <2>3. CASE ToggleDeposits
    BY <2>3 DEF ToggleDeposits, Enduring, Excuses
  <2>4. CASE \E k \in Kinds : ToggleKind(k)
    BY <2>4 DEF ToggleKind, Enduring, Excuses
  <2>5. CASE UNCHANGED watcherVars
    BY <2>5, PlainEnduring DEF watcherVars
  <2> QED
    BY <2>1, <2>2, <2>3, <2>4, <2>5
<1>2. walks' = walks /\ flags' = flags
  BY DEF Deposit, MoveOn, ToggleDeposits, ToggleKind, watcherVars
<1>3. \A q \in Polls : MuteWalk(q)' /\ ToldFirst(q)'
  BY <1>1, <1>2, RestingWalk DEF Excuses
<1>4. \A d \in DOMAIN flags' : \A k \in flags'[d] : Excused(d, k)'
  <2> SUFFICES ASSUME NEW d \in DOMAIN flags, NEW k \in flags[d]
               PROVE  Excused(d, k)'
    BY <1>2
  <2>1. Excused(d, k)
    BY ExcusedFlags DEF Excuses
  <2>2. d \in DOMAIN account /\ d \in Deposits /\ k \in Kinds
    BY DEF DepositTypes, Excuses
  <2> QED
    BY <1>1, <2>1, <2>2, StillExcused
<1>5. NothingLost'
  BY <1>4 DEF NothingLost, Excused
<1> QED
  BY <1>1, <1>2, <1>3, <1>5 DEF Excuses, Enduring

\* A poll that starts, fails or ends without a list.
LEMMA IdleExcuses ==
    ASSUME DepositTypes, DepositTypes', Excuses, Enduring, NEW p \in Polls,
           \A q \in Polls \ {p} : walks'[q] = walks[q],
           walks'[p].at \in {"idle", "fetch"}, flags' = flags
    PROVE  Excuses'
<1>1. MuteWalk(p)' /\ ToldFirst(p)'
  BY DEF MuteWalk, ToldFirst
<1> QED
  BY <1>1, ExcusesStep

LEMMA PolledExcuses ==
    ASSUME DepositTypes, DepositTypes', Excuses, NEW p \in Polls, Polled(p)
    PROVE  Excuses'
<1>1. DOMAIN walks = Polls /\ flags' = flags /\ DOMAIN account \subseteq Deposits
  BY DEF Polled, DepositTypes
<1>2. backlog' = IF Baseline(account) THEN DOMAIN account ELSE backlog
  BY DEF Polled
<1>3. Enduring
  <2>1. UNCHANGED <<account, quieted, unwanted, loud, announced>>
    BY DEF Polled
  <2>2. backlog \subseteq backlog' /\ backlog' \subseteq DOMAIN account
    BY <1>2 DEF Excuses
  <2> QED
    BY <2>1, <2>2 DEF Excuses, Enduring
<1>4. CASE account = <<>>
  <2>1. walks' = [walks EXCEPT ![p] = NoWalk]
    BY <1>4 DEF Polled
  <2>2. NoWalk.at = "idle"
    BY DEF NoWalk
  <2>3. \A q \in Polls \ {p} : walks'[q] = walks[q]
    BY <1>1, <2>1
  <2>4. walks'[p].at = "idle"
    BY <1>1, <2>1, <2>2
  <2> QED
    BY <1>1, <1>3, <2>3, <2>4, IdleExcuses
<1>5. CASE account # <<>>
  <2> DEFINE voice == loud /\ ~Baseline(account)
             turn == NewWalk(account, voice)
  <2>1. walks' = [walks EXCEPT ![p] = turn]
    BY <1>5 DEF Polled, NewWalk
  <2>2. voice \in BOOLEAN /\ (voice <=> loud /\ ~Baseline(account))
    OBVIOUS
  <2> HIDE DEF voice
  <2>3. /\ turn.at = "row" /\ turn.left = DOMAIN account
        /\ turn.found = account /\ turn.loud = voice
    BY <2>2, NewWalkShape
  <2> HIDE DEF turn
  <2>4. (\A q \in Polls \ {p} : walks'[q] = walks[q]) /\ walks'[p] = turn
    BY <1>1, <2>1
  <2>5. account' = account /\ loud' = loud /\ quieted' = quieted
    BY DEF Polled
  <2>6. ~voice => Kinds \subseteq quieted \/ DOMAIN account \subseteq backlog'
    BY <1>2, <2>2 DEF Excuses
  <2>7. MuteWalk(p)'
    BY <2>3, <2>4, <2>5, <2>6 DEF MuteWalk
  <2>8. ToldFirst(p)'
    BY <2>3, <2>4, <2>5 DEF ToldFirst
  <2> QED
    BY <1>1, <1>3, <2>4, <2>7, <2>8, ExcusesStep
<1> QED
  BY <1>4, <1>5

LEMMA UpsertSeenExcuses ==
    ASSUME DepositTypes, DepositTypes', Excuses, NEW p \in Polls, UpsertSeen(p)
    PROVE  Excuses'
<1>1. /\ walks[p].at = "row" /\ DOMAIN walks = Polls /\ WalkShape(walks[p])
      /\ walks[p].left \subseteq DOMAIN account
      /\ MuteWalk(p) /\ ToldFirst(p)
  BY DEF UpsertSeen, DepositTypes, WalkOf, Excuses
<1> DEFINE seen(e) == IF e \in DOMAIN flags THEN flags[e] ELSE {}
<1>2. PICK d \in walks[p].left :
        /\ flags' = [e \in DOMAIN flags \cup {d} |->
                       IF e = d THEN seen(d) ELSE flags[e]]
        /\ walks' = [walks EXCEPT ![p] =
                       Onto(p, d, Untold(walks[p].found[d], seen(d)))]
  BY DEF UpsertSeen
<1> DEFINE untold == Untold(walks[p].found[d], seen(d))
           turn == Onto(p, d, untold)
<1>3. (\A q \in Polls \ {p} : walks'[q] = walks[q]) /\ walks'[p] = turn
  BY <1>1, <1>2
<1>4. \/ untold \subseteq {"detected", "available"}
      \/ untold \subseteq {"detected", "returned"}
  BY UntoldShape
<1>5. "returned" \in untold => walks[p].found[d] = "returned"
  BY DEF Untold
<1>6. UNCHANGED <<account, backlog, quieted, unwanted, loud, announced>>
  BY <1>2 DEF UpsertSeen
<1>7. \A e \in DOMAIN flags' : \A k \in flags'[e] :
         e \in DOMAIN flags /\ k \in flags[e]
  BY <1>2
<1> HIDE DEF seen, untold
<1>8. /\ turn.at \in {"idle", "row", "tell"}
      /\ turn.at = "tell" =>
            /\ turn.untold = untold /\ turn.d = d
            /\ turn.left = walks[p].left
      /\ turn.at = "row" => turn.left = walks[p].left \ {d}
      /\ turn.at # "idle" =>
            turn.found = walks[p].found /\ turn.loud = walks[p].loud
  BY <1>1, <1>4, OntoShape
<1> HIDE DEF turn
<1>9. MuteWalk(p)'
  BY <1>1, <1>2, <1>3, <1>6, <1>8 DEF MuteWalk
<1>10. ToldFirst(p)'
  <2>1. turn.at = "tell" /\ "returned" \in turn.untold => account[turn.d] = "returned"
    BY <1>1, <1>2, <1>5, <1>8 DEF ToldFirst
  <2>2. turn.at \in {"row", "tell"} =>
          \A e \in turn.left : turn.found[e] = "returned" => account[e] = "returned"
    BY <1>1, <1>8 DEF ToldFirst
  <2> QED
    BY <1>3, <1>6, <1>8, <2>1, <2>2 DEF ToldFirst
<1> QED
  BY <1>3, <1>6, <1>7, <1>9, <1>10, PlainEnduring, ExcusesStep

LEMMA AnnounceExcuses ==
    ASSUME DepositTypes, DepositTypes', Excuses, NEW p \in Polls, NEW j \in Kinds,
           Announce(p, j)
    PROVE  Excuses'
<1>1. /\ walks[p].at = "tell" /\ DOMAIN walks = Polls /\ WalkShape(walks[p])
      /\ Telling(p, j) /\ MuteWalk(p) /\ ToldFirst(p)
      /\ walks[p].d \in Deposits
  BY DEF Announce, DepositTypes, WalkOf, Excuses
<1>2. /\ walks' = [walks EXCEPT ![p].at = "flag"]
      /\ announced' = [announced EXCEPT ![walks[p].d][j] = announced[walks[p].d][j] + 1]
      /\ UNCHANGED <<account, flags, backlog, quieted, unwanted, loud>>
  BY DEF Announce
<1>3. /\ \A q \in Polls \ {p} : walks'[q] = walks[q]
      /\ walks'[p].at = "flag" /\ walks'[p].d = walks[p].d
      /\ walks'[p].untold = walks[p].untold /\ walks'[p].left = walks[p].left
      /\ walks'[p].found = walks[p].found /\ walks'[p].loud = walks[p].loud
  BY <1>1, <1>2 DEF WalkShape
<1>4. /\ \A d \in Deposits : \A k \in Kinds : announced[d][k] > 0 => announced'[d][k] > 0
      /\ announced'[walks[p].d][j] > 0
  <2>1. announced \in [Deposits -> [Kinds -> Nat]]
    BY DEF DepositTypes
  <2> QED
    BY <1>1, <1>2, <2>1
<1>5. Enduring
  BY <1>2, <1>4 DEF Excuses, Enduring
<1>6. MuteWalk(p)'
  BY <1>1, <1>2, <1>3 DEF MuteWalk
<1>7. \A k \in Kinds : Telling(p, k)' => k = j
  <2> SUFFICES ASSUME NEW k \in Kinds, Telling(p, k)' PROVE k = j
    OBVIOUS
  <2>1. Telling(p, k)
    BY <1>3 DEF Telling
  <2> QED
    BY <1>1, <2>1, OneDue
<1>8. ToldFirst(p)'
  BY <1>1, <1>2, <1>3, <1>4, <1>7 DEF ToldFirst
<1> QED
  BY <1>2, <1>3, <1>5, <1>6, <1>8, ExcusesStep

\* The one flag set without a word on a loud walk is "available" of a deposit
\* that was sent back.
LEMMA MovesOnExcuses ==
    ASSUME DepositTypes, DepositTypes', Excuses, NEW p \in Polls, NEW k \in Kinds,
           Absorb(p, k) \/ Flag(p, k) \/ AnnounceFails(p, k)
    PROVE  Excuses'
<1>1. /\ MovesOn(p, k) /\ MuteWalk(p) /\ ToldFirst(p) /\ Telling(p, k)
      /\ walks[p].at \in {"tell", "flag"}
      /\ walks[p].d \in DOMAIN flags /\ walks[p].d \in Deposits
      /\ walks[p].left \subseteq DOMAIN account
  BY StepsMoveOn DEF Excuses, MovesOn, DepositTypes, WalkOf
<1>2. UNCHANGED <<account, backlog, quieted, unwanted, loud, announced>>
  BY DEF Absorb, Flag, AnnounceFails
<1>3. /\ \A q \in Polls \ {p} : walks'[q] = walks[q]
      /\ walks'[p].at \in {"idle", "row", "tell"}
      /\ walks'[p].at = "tell" =>
            /\ walks'[p].d = walks[p].d
            /\ walks'[p].untold = walks[p].untold \ {k}
            /\ walks'[p].left = walks[p].left
      /\ walks'[p].at = "row" => walks'[p].left = walks[p].left \ {walks[p].d}
      /\ walks'[p].at # "idle" =>
            walks'[p].found = walks[p].found /\ walks'[p].loud = walks[p].loud
  BY <1>1, MovesOnWalk
<1>4. MuteWalk(p)'
  BY <1>1, <1>2, <1>3 DEF MuteWalk
<1>5. ToldFirst(p)'
  BY <1>1, <1>2, <1>3 DEF ToldFirst
<1>6. k = "returned" => account[walks[p].d] = "returned"
  BY <1>1 DEF ToldFirst, Telling
<1>7. ~AnnounceFails(p, k) => Excused(walks[p].d, k)
  <2>1. CASE Absorb(p, k)
    BY <1>1, <2>1 DEF Absorb, MuteWalk, Excuses, Excused
  <2>2. CASE Flag(p, k)
    BY <1>1, <2>2 DEF Flag, ToldFirst, Excused
  <2> QED
    BY <2>1, <2>2
<1>8. \A d \in DOMAIN flags' : \A l \in flags'[d] :
         \/ d \in DOMAIN flags /\ l \in flags[d]
         \/ d = walks[p].d /\ l = k /\ ~AnnounceFails(p, k)
         \/ d = walks[p].d /\ l = "available" /\ k = "returned"
  <2>1. CASE Absorb(p, k) /\ ~AnnounceFails(p, k)
    BY <1>1, <2>1 DEF Absorb, Flagged
  <2>2. CASE Flag(p, k) /\ ~AnnounceFails(p, k)
    BY <1>1, <2>2 DEF Flag, Flagged
  <2>3. CASE AnnounceFails(p, k)
    BY <1>1, <2>3 DEF AnnounceFails, FlaggedAfterFailure
  <2> QED
    BY <2>1, <2>2, <2>3
<1>9. \A d \in DOMAIN flags' : \A l \in flags'[d] :
         \/ d \in DOMAIN flags /\ l \in flags[d]
         \/ l \in Kinds /\ Excused(d, l)'
  BY <1>2, <1>6, <1>7, <1>8 DEF Excused, Kinds
<1> QED
  BY <1>2, <1>3, <1>4, <1>5, <1>9, PlainEnduring, ExcusesStep

LEMMA CrashWatcherExcuses ==
    ASSUME DepositTypes, Excuses, CrashWatcher
    PROVE  Excuses'
<1>1. /\ walks' = [p \in Polls |-> NoWalk]
      /\ UNCHANGED <<account, flags, backlog, quieted, unwanted, loud, announced>>
  BY DEF CrashWatcher
<1>2. NoWalk.at = "idle"
  BY DEF NoWalk
<1>3. \A p \in Polls : walks'[p].at = "idle"
  BY <1>1, <1>2
<1>4. \A p \in Polls : MuteWalk(p)' /\ ToldFirst(p)'
  BY <1>3 DEF MuteWalk, ToldFirst
<1>5. NothingLost'
  BY <1>1 DEF Excuses, NothingLost
<1> QED
  BY <1>1, <1>4, <1>5 DEF Excuses

LEMMA ExcusesNext ==
    ASSUME DepositTypes, DepositTypes', Excuses, [WatcherNext]_watcherVars
    PROVE  Excuses'
<1>1. CASE \/ \E d \in Deposits : Deposit(d) \/ \E s \in {"credited", "returned"} : MoveOn(d, s)
           \/ ToggleDeposits
           \/ \E k \in Kinds : ToggleKind(k)
           \/ UNCHANGED watcherVars
  BY <1>1, OutsideExcuses
<1>2. CASE \E p \in Polls : StartPoll(p) \/ PollFails(p)
  <2> SUFFICES ASSUME NEW p \in Polls, StartPoll(p) \/ PollFails(p)
               PROVE  Excuses'
    BY <1>2
  <2>1. DOMAIN walks = Polls /\ WalkShape(walks[p])
    BY DEF DepositTypes, WalkOf
  <2>2. /\ UNCHANGED <<account, backlog, quieted, unwanted, loud, announced>>
        /\ flags' = flags
    BY DEF StartPoll, PollFails
  <2>3. NoWalk.at = "idle"
    BY DEF NoWalk
  <2>4. /\ \A q \in Polls \ {p} : walks'[q] = walks[q]
        /\ walks'[p].at \in {"idle", "fetch"}
    BY <2>1, <2>3 DEF StartPoll, PollFails, WalkShape
  <2> QED
    BY <2>2, <2>4, PlainEnduring, IdleExcuses
<1>3. CASE \E p \in Polls : Polled(p)
  BY <1>3, PolledExcuses
<1>4. CASE \E p \in Polls : UpsertSeen(p)
  BY <1>4, UpsertSeenExcuses
<1>5. CASE \E p \in Polls : \E k \in Kinds :
              Absorb(p, k) \/ Flag(p, k) \/ AnnounceFails(p, k)
  BY <1>5, MovesOnExcuses
<1>6. CASE \E p \in Polls : \E k \in Kinds : Announce(p, k)
  BY <1>6, AnnounceExcuses
<1>7. CASE CrashWatcher
  BY <1>7, CrashWatcherExcuses
<1> QED
  BY <1>1, <1>2, <1>3, <1>4, <1>5, <1>6, <1>7 DEF WatcherNext, Walk

LEMMA ExcusesInit == WatcherInit => Excuses
<1> SUFFICES ASSUME WatcherInit PROVE Excuses
  OBVIOUS
<1>1. \A p \in Polls : walks[p].at = "idle"
  BY DEF WatcherInit, NoWalk
<1>2. \A p \in Polls : MuteWalk(p) /\ ToldFirst(p)
  BY <1>1 DEF MuteWalk, ToldFirst
<1>3. DOMAIN flags = {}
  BY DEF WatcherInit
<1>4. NothingLost
  BY <1>3 DEF NothingLost
<1> QED
  BY <1>2, <1>3, <1>4 DEF Excuses, WatcherInit

\* Whatever is flagged was told, or the operator knows why it was not, over
\* crashes, failures and polls that overlap (braiins-deposit-watcher.ts:248).
THEOREM NothingLostHolds == WatcherSpec => []NothingLost
<1>1. DepositBudget /\ Excuses /\ [WatcherNext]_watcherVars
        => (DepositBudget /\ Excuses)'
  BY DepositBudgetNext, ExcusesNext DEF DepositBudget
<1>2. WatcherInit => DepositBudget /\ Excuses
  BY DepositBudgetInit, ExcusesInit
<1>3. DepositBudget /\ Excuses => NothingLost
  BY DEF Excuses
<1> QED
  BY <1>1, <1>2, <1>3, PTL DEF WatcherSpec

-----------------------------------------------------------------------------
(* Dynamic DNS: a name is wrong for an hour at most *)

Idle(p) == outbox[p].at = "idle"

\* A push that is under way carries a name and an address.
PushShape(push) ==
    /\ push.at \in {"idle", "out", "accepted"}
    /\ push.at # "idle" =>
          /\ DOMAIN push = {"at", "name", "ip"}
          /\ push.name \in Names
          /\ push.ip \in Addresses

DdnsTypes ==
    /\ address \in Addresses
    /\ ipSnapshot \in Addresses \cup {Null}
    /\ hostname \in Names \cup {Null}
    /\ DOMAIN lastPush = {"ip", "age"}
    /\ lastPush.age \in 0..Heartbeat
    /\ DOMAIN outbox = Pushes
    /\ \A p \in Pushes : PushShape(outbox[p])
    /\ DOMAIN dns = Names
    /\ wrongFor \in Nat

\* What keeps a wrong name from staying so: the hour since the address was
\* pushed is running, ...
HourRunning ==
    /\ \A p \in Pushes : Idle(p)
    /\ lastPush.ip = address
    /\ lastPush.age < Heartbeat
    /\ wrongFor <= lastPush.age

\* ... or a push of the right address to the right name is the only one under
\* way, ...
Pushing ==
    \E p \in Pushes :
        /\ ~Idle(p)
        /\ \A q \in Pushes \ {p} : Idle(q)
        /\ outbox[p].name = hostname
        /\ outbox[p].ip = address
        /\ outbox[p].at = "accepted" => dns[hostname] = address

\* ... or it is over.
Corrected ==
    /\ \A p \in Pushes : Idle(p)
    /\ dns[hostname] = address

DdnsInvariant ==
    /\ DdnsTypes
    /\ wrongFor <= Heartbeat
    /\ wrongFor > 0 =>
          /\ ipSnapshot = address
          /\ hostname # Null
          /\ HourRunning \/ Pushing \/ Corrected

LEMMA OlderAge ==
    ASSUME NEW age \in 0..Heartbeat
    PROVE  /\ Older(age, Heartbeat) \in 0..Heartbeat
           /\ Older(age, Heartbeat) < Heartbeat => Older(age, Heartbeat) = age + 1
           /\ Older(age, Heartbeat) > 0
<1>1. age # Null
  BY NullAssumption
<1> QED
  BY <1>1, DdnsAssumption DEF Older

\* What tick() does to the outbox: nothing, or one push.
LEMMA TickPushes ==
    ASSUME DdnsTypes, NEW name \in Names \cup {Null}, NEW ip \in Addresses \cup {Null},
           NEW last, Tick(name, ip, last)
    PROVE  /\ DOMAIN outbox' = Pushes
           /\ \A p \in Pushes : PushShape(outbox'[p])
           /\ \/ outbox' = outbox /\ (name = Null \/ ip = Null \/ Skips(ip, last))
              \/ \E p \in Pushes :
                    /\ Idle(p)
                    /\ outbox'[p] = [at |-> "out", name |-> name, ip |-> ip]
                    /\ \A q \in Pushes \ {p} : outbox'[q] = outbox[q]
<1>1. CASE name = Null \/ ip = Null \/ Skips(ip, last)
  BY <1>1 DEF Tick, DdnsTypes
<1>2. CASE ~(name = Null \/ ip = Null \/ Skips(ip, last))
  <2>1. PICK p \in Pushes :
            /\ Idle(p)
            /\ outbox' = [outbox EXCEPT ![p] = [at |-> "out", name |-> name, ip |-> ip]]
    BY <1>2 DEF Tick, Idle
  <2>2. /\ DOMAIN outbox' = Pushes
        /\ outbox'[p] = [at |-> "out", name |-> name, ip |-> ip]
        /\ \A q \in Pushes \ {p} : outbox'[q] = outbox[q]
    BY <2>1 DEF DdnsTypes
  <2>3. name \in Names /\ ip \in Addresses
    BY <1>2
  <2>4. PushShape(outbox'[p])
    BY <2>2, <2>3 DEF PushShape
  <2> QED
    BY <2>1, <2>2, <2>4 DEF DdnsTypes
<1> QED
  BY <1>1, <1>2

\* Every step keeps the types.
LEMMA DdnsTypesNext ==
    ASSUME DdnsTypes, DdnsNext
    PROVE  DdnsTypes'
<1>1. CASE Rotate
  BY <1>1 DEF Rotate, DdnsTypes
<1>2. CASE RefreshIp
  <2>1. UNCHANGED <<address, hostname, lastPush, dns, wrongFor>> /\ ipSnapshot' = address
    BY <1>2 DEF RefreshIp
  <2>2. outbox' = outbox \/ Tick(hostname, address, lastPush)
    BY <1>2 DEF RefreshIp
  <2>3. DOMAIN outbox' = Pushes /\ \A p \in Pushes : PushShape(outbox'[p])
    BY <2>2, TickPushes DEF DdnsTypes
  <2> QED
    BY <2>1, <2>3 DEF DdnsTypes
<1>3. CASE EditDdns
  <2>1. /\ UNCHANGED <<address, ipSnapshot, lastPush, dns>> /\ wrongFor' = 0
        /\ hostname' \in Names \cup {Null}
        /\ Tick(hostname', ipSnapshot, lastPush)
    BY <1>3 DEF EditDdns
  <2>2. DOMAIN outbox' = Pushes /\ \A p \in Pushes : PushShape(outbox'[p])
    BY <2>1, TickPushes DEF DdnsTypes
  <2> QED
    BY <2>1, <2>2 DEF DdnsTypes
<1>4. CASE DdnsTimer
  <2>1. /\ UNCHANGED <<address, ipSnapshot, hostname, dns>>
        /\ lastPush' = [lastPush EXCEPT !.age = Older(@, Heartbeat)]
        /\ Tick(hostname, ipSnapshot, lastPush')
        /\ wrongFor' \in {0, Older(wrongFor, Heartbeat + 2)}
    BY <1>4 DEF DdnsTimer
  <2>2. DOMAIN lastPush' = {"ip", "age"} /\ lastPush'.age \in 0..Heartbeat
    BY <2>1, OlderAge DEF DdnsTypes
  <2>3. DOMAIN outbox' = Pushes /\ \A p \in Pushes : PushShape(outbox'[p])
    BY <2>1, TickPushes DEF DdnsTypes
  <2>4. wrongFor' \in Nat
    BY <2>1 DEF Older, DdnsTypes
  <2> QED
    BY <2>1, <2>2, <2>3, <2>4 DEF DdnsTypes
<1>5. CASE \E n \in Names : RecordExternalPush(n)
  <2> PICK n \in Names : RecordExternalPush(n)
    BY <1>5
  <2>1. /\ UNCHANGED <<address, ipSnapshot, hostname, outbox>> /\ wrongFor' = 0
        /\ lastPush' = [ip |-> ipSnapshot, age |-> 0]
        /\ dns' = [dns EXCEPT ![n] = ipSnapshot]
    BY DEF RecordExternalPush
  <2>2. DOMAIN lastPush' = {"ip", "age"} /\ lastPush'.age \in 0..Heartbeat
    BY <2>1, DdnsAssumption
  <2> QED
    BY <2>1, <2>2 DEF DdnsTypes
<1>6. CASE \E p \in Pushes : Accept(p)
  <2> PICK p \in Pushes : Accept(p)
    BY <1>6
  <2>1. /\ UNCHANGED <<address, ipSnapshot, hostname, lastPush, wrongFor>>
        /\ outbox[p].at = "out"
        /\ outbox' = [outbox EXCEPT ![p].at = "accepted"]
        /\ DOMAIN dns' = Names
    BY DEF Accept, DdnsTypes
  <2>2. PushShape(outbox[p])
    BY DEF DdnsTypes
  <2>3. /\ DOMAIN outbox' = Pushes
        /\ outbox'[p] = [outbox[p] EXCEPT !.at = "accepted"]
        /\ \A q \in Pushes \ {p} : outbox'[q] = outbox[q]
    BY <2>1 DEF DdnsTypes
  <2>4. PushShape(outbox'[p])
    BY <2>1, <2>2, <2>3 DEF PushShape
  <2> QED
    BY <2>1, <2>3, <2>4 DEF DdnsTypes
<1>7. CASE \E p \in Pushes : PushAnswered(p) \/ PushFails(p)
  <2> PICK p \in Pushes : PushAnswered(p) \/ PushFails(p)
    BY <1>7
  <2>1. /\ UNCHANGED <<address, ipSnapshot, hostname, dns>>
        /\ outbox' = [outbox EXCEPT ![p] = NoPush]
        /\ wrongFor' \in {0, wrongFor}
    BY DEF PushAnswered, PushFails
  <2>2. lastPush' = lastPush \/ \E ip : lastPush' = [ip |-> ip, age |-> 0]
    BY DEF PushAnswered, PushFails, Recorded
  <2>3. DOMAIN lastPush' = {"ip", "age"} /\ lastPush'.age \in 0..Heartbeat
    BY <2>2, DdnsAssumption DEF DdnsTypes
  <2>4. PushShape(NoPush)
    BY DEF PushShape, NoPush
  <2>5. DOMAIN outbox' = Pushes /\ \A q \in Pushes : PushShape(outbox'[q])
    BY <2>1, <2>4 DEF DdnsTypes
  <2> QED
    BY <2>1, <2>3, <2>5 DEF DdnsTypes
<1>8. CASE CrashDdns
  <2>1. DOMAIN Never = {"ip", "age"} /\ Never.age \in 0..Heartbeat
    BY DdnsAssumption DEF Never
  <2>2. PushShape(NoPush)
    BY DEF PushShape, NoPush
  <2> QED
    BY <1>8, <2>1, <2>2 DEF CrashDdns, DdnsTypes
<1> QED
  BY <1>1, <1>2, <1>3, <1>4, <1>5, <1>6, <1>7, <1>8 DEF DdnsNext

\* The timer counts a period only while a push of the address is less than an
\* hour old, and sends one as soon as it is not.
LEMMA TimerKeepsWatch ==
    ASSUME DdnsInvariant, DdnsTimer
    PROVE  /\ wrongFor' <= Heartbeat
           /\ wrongFor' > 0 =>
                 /\ ipSnapshot' = address'
                 /\ hostname' # Null
                 /\ (HourRunning \/ Pushing \/ Corrected)'
<1>1. /\ UNCHANGED <<address, ipSnapshot, hostname, dns>>
      /\ \A p \in Pushes : Idle(p)
      /\ lastPush' = [lastPush EXCEPT !.age = Older(@, Heartbeat)]
      /\ Tick(hostname, ipSnapshot, lastPush')
      /\ Wrong => wrongFor' = Older(wrongFor, Heartbeat + 2)
      /\ ~Wrong => wrongFor' = 0
  BY DEF DdnsTimer, Idle
<1>2. CASE ~Wrong
  BY <1>1, <1>2, DdnsAssumption
<1>3. CASE Wrong
  <2>1. hostname # Null /\ ipSnapshot = address /\ dns[hostname] # address
    BY <1>3 DEF Wrong
  <2>2. /\ lastPush'.ip = lastPush.ip
        /\ lastPush'.age = Older(lastPush.age, Heartbeat)
    BY <1>1 DEF DdnsInvariant, DdnsTypes
  <2>3. /\ lastPush.age \in 0..Heartbeat
        /\ wrongFor \in Nat /\ wrongFor <= Heartbeat /\ Heartbeat \in Nat \ {0}
    BY DdnsAssumption DEF DdnsInvariant, DdnsTypes
  <2>4. wrongFor' = wrongFor + 1
    BY <1>1, <1>3, <2>3, NullAssumption DEF Older
  <2>5. wrongFor > 0 => /\ lastPush.ip = address
                        /\ lastPush.age < Heartbeat
                        /\ wrongFor <= lastPush.age
    BY <1>1, <2>1 DEF DdnsInvariant, HourRunning, Pushing, Corrected
  <2>6. wrongFor' <= Heartbeat
    BY <2>3, <2>4, <2>5
  <2>7. CASE Skips(ipSnapshot, lastPush')
    <3>1. lastPush'.ip = address' /\ lastPush'.age < Heartbeat
      BY <1>1, <2>1, <2>7 DEF Skips
    <3>2. lastPush'.age = lastPush.age + 1
      BY <2>2, <2>3, <3>1, OlderAge
    <3>3. wrongFor' <= lastPush'.age
      BY <2>3, <2>4, <2>5, <3>2
    <3>4. outbox' = outbox
      BY <1>1, <2>7 DEF Tick
    <3>5. HourRunning'
      BY <1>1, <3>1, <3>3, <3>4 DEF HourRunning, Idle
    <3> QED
      BY <1>1, <2>1, <2>6, <3>5
  <2>8. CASE ~Skips(ipSnapshot, lastPush')
    <3>1. hostname \in Names /\ ipSnapshot \in Addresses /\ Null \notin Addresses
      BY <2>1, DdnsAssumption DEF DdnsInvariant, DdnsTypes
    <3>2. ipSnapshot # Null
      BY <3>1
    <3>3. PICK p \in Pushes :
              /\ outbox'[p] = [at |-> "out", name |-> hostname, ip |-> ipSnapshot]
              /\ \A q \in Pushes \ {p} : outbox'[q] = outbox[q]
      <4>1. PICK p \in Pushes :
              outbox' = [outbox EXCEPT ![p] = [at |-> "out", name |-> hostname,
                                               ip |-> ipSnapshot]]
        BY <1>1, <2>1, <2>8, <3>2 DEF Tick
      <4> QED
        BY <4>1 DEF DdnsInvariant, DdnsTypes
    <3>4. ~Idle(p)' /\ \A q \in Pushes \ {p} : Idle(q)'
      BY <1>1, <3>3 DEF Idle
    <3>5. /\ outbox'[p].name = hostname' /\ outbox'[p].ip = address'
          /\ outbox'[p].at # "accepted"
      BY <1>1, <2>1, <3>3
    <3>6. Pushing'
      BY <3>4, <3>5 DEF Pushing
    <3> QED
      BY <1>1, <2>1, <2>6, <3>6
  <2> QED
    BY <2>7, <2>8
<1> QED
  BY <1>2, <1>3

\* The provider takes the push that is under way, which is the right one.
LEMMA AcceptKeepsWatch ==
    ASSUME DdnsInvariant, NEW p \in Pushes, Accept(p), wrongFor > 0
    PROVE  Pushing'
<1>1. /\ outbox[p].at = "out"
      /\ dns' = [dns EXCEPT ![outbox[p].name] = outbox[p].ip]
      /\ outbox' = [outbox EXCEPT ![p].at = "accepted"]
      /\ UNCHANGED <<address, hostname>>
  BY DEF Accept
<1>2. Pushing
  BY <1>1 DEF DdnsInvariant, HourRunning, Corrected, Idle
<1>3. /\ \A q \in Pushes \ {p} : Idle(q)
      /\ outbox[p].name = hostname /\ outbox[p].ip = address
  BY <1>1, <1>2 DEF Pushing, Idle
<1>4. PushShape(outbox[p]) /\ DOMAIN outbox = Pushes /\ DOMAIN dns = Names
  BY DEF DdnsInvariant, DdnsTypes
<1>5. /\ outbox'[p] = [outbox[p] EXCEPT !.at = "accepted"]
      /\ \A q \in Pushes \ {p} : outbox'[q] = outbox[q]
  BY <1>1, <1>4
<1>6. /\ outbox'[p].at = "accepted" /\ outbox'[p].name = hostname
      /\ outbox'[p].ip = address
  BY <1>1, <1>3, <1>4, <1>5 DEF PushShape
<1>7. dns'[hostname] = address
  BY <1>1, <1>3, <1>4 DEF PushShape
<1>8. ~Idle(p)' /\ \A q \in Pushes \ {p} : Idle(q)'
  BY <1>3, <1>5, <1>6 DEF Idle
<1> QED
  BY <1>1, <1>6, <1>7, <1>8 DEF Pushing

\* Its answer comes when the name is right.
LEMMA AnswerKeepsWatch ==
    ASSUME DdnsInvariant, NEW p \in Pushes, PushAnswered(p), wrongFor > 0
    PROVE  Corrected'
<1>1. /\ outbox[p].at = "accepted"
      /\ outbox' = [outbox EXCEPT ![p] = NoPush]
      /\ UNCHANGED <<address, hostname, dns>>
  BY DEF PushAnswered
<1>2. Pushing
  BY <1>1 DEF DdnsInvariant, HourRunning, Corrected, Idle
<1>3. /\ \A q \in Pushes \ {p} : Idle(q)
      /\ dns[hostname] = address
  BY <1>1, <1>2 DEF Pushing, Idle
<1>4. DOMAIN outbox = Pushes
  BY DEF DdnsInvariant, DdnsTypes
<1>5. \A q \in Pushes : Idle(q)'
  BY <1>1, <1>3, <1>4 DEF Idle, NoPush
<1> QED
  BY <1>1, <1>3, <1>5 DEF Corrected

LEMMA DdnsInvariantNext ==
    ASSUME DdnsInvariant, [DdnsNext]_ddnsVars
    PROVE  DdnsInvariant'
<1>1. CASE UNCHANGED ddnsVars
  <2> USE <1>1 DEF ddnsVars
  <2>1. DdnsTypes'
    BY DEF DdnsInvariant, DdnsTypes
  <2>2. /\ HourRunning => HourRunning'
        /\ Pushing => Pushing'
        /\ Corrected => Corrected'
    BY DEF HourRunning, Pushing, Corrected, Idle
  <2> QED
    BY <2>1, <2>2 DEF DdnsInvariant
<1>2. CASE DdnsNext
  <2>1. DdnsTypes'
    BY <1>2, DdnsTypesNext DEF DdnsInvariant
  <2>2. CASE \/ Rotate \/ EditDdns \/ CrashDdns
             \/ \E n \in Names : RecordExternalPush(n)
             \/ \E p \in Pushes : PushFails(p)
    <3>1. wrongFor' = 0
      BY <2>2 DEF Rotate, EditDdns, CrashDdns, RecordExternalPush, PushFails
    <3> QED
      BY <2>1, <3>1, DdnsAssumption DEF DdnsInvariant
  <2>3. CASE RefreshIp
    <3>1. /\ UNCHANGED <<address, hostname, lastPush, dns, wrongFor>>
          /\ ipSnapshot' = address
      BY <2>3 DEF RefreshIp
    <3>2. wrongFor > 0 => outbox' = outbox
      BY <2>3 DEF RefreshIp, DdnsInvariant
    <3>3. wrongFor > 0 => /\ HourRunning => HourRunning'
                          /\ Pushing => Pushing'
                          /\ Corrected => Corrected'
      BY <3>1, <3>2 DEF HourRunning, Pushing, Corrected, Idle
    <3> QED
      BY <2>1, <3>1, <3>3 DEF DdnsInvariant
  <2>4. CASE DdnsTimer
    BY <2>1, <2>4, TimerKeepsWatch DEF DdnsInvariant
  <2>5. CASE \E p \in Pushes : Accept(p)
    <3> PICK p \in Pushes : Accept(p)
      BY <2>5
    <3>1. UNCHANGED <<address, ipSnapshot, hostname, wrongFor>>
      BY DEF Accept
    <3> QED
      BY <2>1, <3>1, AcceptKeepsWatch DEF DdnsInvariant
  <2>6. CASE \E p \in Pushes : PushAnswered(p)
    <3> PICK p \in Pushes : PushAnswered(p)
      BY <2>6
    <3>1. UNCHANGED <<address, ipSnapshot, hostname, wrongFor>>
      BY DEF PushAnswered
    <3> QED
      BY <2>1, <3>1, AnswerKeepsWatch DEF DdnsInvariant
  <2> QED
    BY <1>2, <2>2, <2>3, <2>4, <2>5, <2>6 DEF DdnsNext
<1> QED
  BY <1>1, <1>2

LEMMA DdnsInvariantInit == DdnsInit => DdnsInvariant
<1> SUFFICES ASSUME DdnsInit PROVE DdnsInvariant
  OBVIOUS
<1>1. DOMAIN lastPush = {"ip", "age"} /\ lastPush.age \in 0..Heartbeat
  BY DdnsAssumption DEF DdnsInit, Never
<1>2. DOMAIN outbox = Pushes /\ \A p \in Pushes : PushShape(outbox[p])
  BY DEF DdnsInit, NoPush, PushShape
<1>3. DdnsTypes
  BY <1>1, <1>2 DEF DdnsInit, DdnsTypes
<1> QED
  BY <1>3, DdnsAssumption DEF DdnsInvariant, DdnsInit

\* Whatever overtakes what, and whatever name the operator tests or saves, a
\* name is wrong for an hour at most once the address is known, pushes that
\* fail apart (ddns-updater.ts:10-13).
THEOREM WrongForAnHourHolds == DdnsSpec => []WrongForAnHour
<1>1. DdnsInvariant => WrongForAnHour
  BY DEF DdnsInvariant, WrongForAnHour
<1> QED
  BY <1>1, DdnsInvariantInit, DdnsInvariantNext, PTL DEF DdnsSpec

-----------------------------------------------------------------------------
(* Blocks and payouts: the newest and the oldest of some blocks *)

LEMMA NewestBlock ==
    ASSUME NEW heights \in SUBSET Blocks, heights # {}
    PROVE  Max(heights) \in heights /\ \A h \in heights : h <= Max(heights)
<1>1. PICK top \in Blocks : \A h \in Blocks : h <= top
  BY BlocksAssumption
<1>2. top \in Nat /\ heights \subseteq Nat /\ \A h \in heights : h <= top
  BY <1>1, BlocksAssumption
<1> DEFINE distances == {top - h : h \in heights}
<1>3. distances \subseteq Nat /\ distances # {}
  <2>1. \A h \in heights : top - h \in Nat
    BY <1>2
  <2>2. distances \subseteq Nat
    BY <2>1
  <2>3. distances # {}
    OBVIOUS
  <2> QED
    BY <2>2, <2>3
<1>4. PICK d \in distances : \A e \in distances : ~(<<e, d>> \in OpToRel(<, Nat))
  <2> HIDE DEF distances
  <2> QED
    BY <1>3, NatLessThanWellFounded, WFMin
<1>5. \A e \in distances : ~(e < d)
  <2>1. d \in Nat /\ \A e \in distances : e \in Nat
    BY <1>3
  <2> HIDE DEF distances
  <2> QED
    BY <1>4, <2>1 DEF OpToRel
<1>6. PICK m \in heights : d = top - m
  OBVIOUS
<1>7. \A h \in heights : m >= h
  <2> SUFFICES ASSUME NEW h \in heights PROVE m >= h
    OBVIOUS
  <2>1. top - h \in distances
    OBVIOUS
  <2>2. ~(top - h < top - m)
    BY <1>5, <1>6, <2>1
  <2> QED
    BY <1>2, <2>2
<1>8. Max(heights) \in heights /\ \A h \in heights : Max(heights) >= h
  BY <1>7 DEF Max
<1> QED
  BY <1>2, <1>8

LEMMA OldestBlock ==
    ASSUME NEW heights \in SUBSET Blocks, heights # {}
    PROVE  Min(heights) \in heights
<1>1. heights \subseteq Nat
  BY BlocksAssumption
<1>2. PICK m \in heights : \A h \in heights : ~(<<h, m>> \in OpToRel(<, Nat))
  BY <1>1, NatLessThanWellFounded, WFMin
<1>3. \A h \in heights : m <= h
  <2>1. m \in Nat /\ \A h \in heights : h \in Nat
    BY <1>1
  <2>2. \A h \in heights : ~(h < m)
    BY <1>2, <2>1 DEF OpToRel
  <2> QED
    BY <2>1, <2>2
<1> QED
  BY <1>3 DEF Min

LEMMA LaterOfTwo ==
    ASSUME NEW a \in Int, NEW b \in Int
    PROVE  Max({a, b}) \in {a, b} /\ Max({a, b}) >= a /\ Max({a, b}) >= b
<1>1. \E m \in {a, b} : \A x \in {a, b} : m >= x
  BY a >= b \/ b >= a
<1> QED
  BY <1>1 DEF Max

LEMMA TopOfAll == \A h \in Blocks : h < Top
<1>1. Blocks # {} /\ Blocks \subseteq Nat
  BY BlocksAssumption DEF Blocks
<1>2. Blocks \in SUBSET Blocks
  OBVIOUS
<1>3. Max(Blocks) \in Blocks /\ \A h \in Blocks : h <= Max(Blocks)
  BY <1>1, <1>2, NewestBlock
<1>4. ASSUME NEW m \in Nat, NEW h \in Nat, h <= m PROVE h < 1 + m
  BY <1>4
<1> QED
  BY <1>1, <1>3, <1>4 DEF Top

-----------------------------------------------------------------------------
(* A block is announced once *)

PassShape ==
    round # Null =>
        /\ round \in Passes
        /\ round.left \subseteq DOMAIN pending
        /\ round.done \subseteq DOMAIN pending
        /\ round.left \cap round.done = {}
        /\ watermark # Null

CreditTypes ==
    /\ PastBlocks \subseteq mined
    /\ mined \subseteq Blocks
    /\ poolBlocks \subseteq mined
    /\ balance \in Nat
    /\ watermark \in {Null, -1} \cup Blocks
    /\ DOMAIN pending \subseteq poolBlocks
    /\ DOMAIN praised = Blocks
    /\ \A h \in Blocks : praised[h] \in Nat
    /\ failures \in Nat
    /\ blankPass \in BOOLEAN
    /\ PassShape

\* The table has a block that none of before the install is above.
Covers(heights) == \E g \in heights : \A p \in PastBlocks : p <= g

\* However the table fills, the first block in it is such a one.
Filling ==
    /\ poolBlocks = {} \/ Covers(poolBlocks)
    /\ walk \in {Null, Top} \/ Covers(poolBlocks)

\* A block in the queue that the pass under way has not announced.
Waits(h) == h \in DOMAIN pending /\ ~(round # Null /\ h \in round.done)

\* A block that waits has an announcement left, and one that was announced is
\* below the watermark and in the table that a restart reads.
WithinCredit(h) ==
    /\ praised[h] <= 1 + failures
    /\ Waits(h) => praised[h] <= failures
    /\ praised[h] > 0 => /\ watermark # Null
                         /\ h <= watermark
                         /\ h \in poolBlocks

\* A block of before the install is below the watermark from the first.
OutOfReach(h) ==
    /\ praised[h] = 0
    /\ h \notin DOMAIN pending
    /\ watermark # Null => h <= watermark

CreditInvariant ==
    /\ CreditTypes
    /\ Filling
    /\ \A h \in Blocks : WithinCredit(h)
    /\ ~blankPass => \A h \in PastBlocks : OutOfReach(h)

\* What the daemon knows at boot.
LEMMA HydrationKnows ==
    ASSUME NEW heights \in SUBSET Blocks
    PROVE  /\ Hydration(heights) \in {Null} \cup Blocks
           /\ heights # {} => /\ Hydration(heights) # Null
                              /\ \A h \in heights : h <= Hydration(heights)
<1>1. Blocks \subseteq Nat /\ Null \notin Nat
  BY BlocksAssumption, NullAssumption
<1> QED
  BY <1>1, NewestBlock DEF Hydration

LEMMA CoveredAbove ==
    ASSUME NEW heights \in SUBSET Blocks, Covers(heights),
           NEW top \in Int, \A h \in heights : h <= top
    PROVE  \A p \in PastBlocks : p <= top
<1>1. PICK g \in heights : \A p \in PastBlocks : p <= g
  BY DEF Covers
<1>2. g \in Nat /\ PastBlocks \subseteq Nat
  BY BlocksAssumption DEF Blocks
<1> QED
  BY <1>1, <1>2

LEMMA WatermarkIsInt == CreditTypes /\ watermark # Null => watermark \in Int
<1>1. -1 \in Int /\ \A h \in Blocks : h \in Int
  BY BlocksAssumption
<1>2. CreditTypes /\ watermark # Null => watermark = -1 \/ watermark \in Blocks
  BY DEF CreditTypes
<1> QED
  BY <1>1, <1>2

\* Ocean, the table and the operator: the detector's memory stays.
LEMMA TableGrows ==
    ASSUME CreditInvariant,
           UNCHANGED <<watermark, round, praised, failures, blankPass>>,
           DOMAIN pending' = DOMAIN pending,
           poolBlocks \subseteq poolBlocks', poolBlocks' \subseteq mined',
           mined \subseteq mined', mined' \subseteq Blocks,
           balance' \in Nat,
           Filling'
    PROVE  CreditInvariant'
<1>1. CreditTypes'
  BY DEF CreditInvariant, CreditTypes, PassShape
<1>2. \A h \in Blocks : WithinCredit(h)'
  BY DEF CreditInvariant, WithinCredit, Waits
<1>3. ~blankPass' => \A h \in PastBlocks : OutOfReach(h)'
  BY DEF CreditInvariant, OutOfReach
<1> QED
  BY <1>1, <1>2, <1>3 DEF CreditInvariant

\* The newest blocks are the newest of all, if there is room for any.
LEMMA NewestCovers ==
    ASSUME CreditTypes, Newest # {}
    PROVE  Covers(Newest)
<1>1. mined \in SUBSET Blocks /\ PastBlocks \subseteq mined /\ PastBlocks # {}
  BY BlocksAssumption DEF CreditTypes
<1>2. Max(mined) \in mined /\ \A h \in mined : h <= Max(mined)
  BY <1>1, NewestBlock
<1>3. Slice \in Nat /\ Slice > 0
  <2>1. PICK h \in mined : Cardinality({g \in mined : g > h}) < Slice
    BY DEF Newest
  <2>2. PICK top \in Nat : \A g \in mined : g <= top
    BY <1>1, BlocksAssumption
  <2>3. {g \in mined : g > h} \subseteq Nat /\ \A g \in {g \in mined : g > h} : g <= top
    BY <1>1, <2>2, BlocksAssumption
  <2>4. IsFiniteSet({g \in mined : g > h})
    BY <2>2, <2>3, FS_BoundedSetOfNaturals
  <2>5. Cardinality({g \in mined : g > h}) \in Nat
    BY <2>4, FS_CardinalityType
  <2> QED
    BY <2>1, <2>5, BlocksAssumption
<1>4. {g \in mined : g > Max(mined)} = {}
  <2> DEFINE m == Max(mined)
  <2>1. m \in Nat /\ \A h \in mined : h \in Nat /\ h <= m
    BY <1>1, <1>2, BlocksAssumption
  <2> HIDE DEF m
  <2>2. {g \in mined : g > m} = {}
    BY <2>1
  <2> QED
    BY <2>2 DEF m
<1>5. Cardinality({g \in mined : g > Max(mined)}) < Slice
  BY <1>3, <1>4, FS_EmptySet
<1>6. Max(mined) \in Newest
  BY <1>2, <1>5 DEF Newest
<1> QED
  BY <1>1, <1>2, <1>6 DEF Covers

LEMMA OutsideCredit ==
    ASSUME CreditInvariant,
           \/ \E h \in Blocks : MineBlock(h) \/ CreditBlock(h)
           \/ PayOut \/ StoreNewest \/ BackfillPage \/ BackfillFails
           \/ ToggleCredits \/ SkipPass
           \/ UNCHANGED creditVars
    PROVE  CreditInvariant'
<1>1. CreditTypes /\ Filling
  BY DEF CreditInvariant
<1>2. CASE StoreNewest
  <2>1. /\ ~(Newest \subseteq poolBlocks)
        /\ poolBlocks' = poolBlocks \cup Newest
        /\ UNCHANGED <<mined, balance, walk, pending, watermark, round, praised,
                       failures, blankPass>>
    BY <1>2 DEF StoreNewest, ocean, memoryOf, history, bounds
  <2>2. Covers(Newest)
    BY <1>1, <2>1, NewestCovers
  <2>3. Covers(poolBlocks')
    BY <2>1, <2>2 DEF Covers
  <2>4. Filling'
    BY <2>3 DEF Filling
  <2>5. poolBlocks' \subseteq mined'
    BY <1>1, <2>1 DEF CreditTypes, Newest
  <2> QED
    BY <1>1, <2>1, <2>4, <2>5, TableGrows DEF CreditTypes
<1>3. CASE BackfillPage
  <2> DEFINE below == {h \in mined : h < walk}
  <2>1. /\ walk # Null
        /\ poolBlocks' = IF below = {} THEN poolBlocks ELSE poolBlocks \cup {Max(below)}
        /\ UNCHANGED <<mined, balance, pending, watermark, round, praised, failures,
                       blankPass>>
    BY <1>3 DEF BackfillPage, ocean, memoryOf, history, bounds
  <2>2. below \in SUBSET Blocks /\ below \subseteq mined
    BY <1>1 DEF CreditTypes
  <2>3. below # {} => Max(below) \in below /\ \A h \in below : h <= Max(below)
    BY <2>2, NewestBlock
  <2>4. poolBlocks \subseteq poolBlocks' /\ poolBlocks' \subseteq mined'
    BY <1>1, <2>1, <2>2, <2>3 DEF CreditTypes
  <2>5. Covers(poolBlocks')
    <3>1. CASE Covers(poolBlocks)
      BY <2>4, <3>1 DEF Covers
    <3>2. CASE walk = Top
      <4>1. below = mined
        BY <1>1, <3>2, TopOfAll DEF CreditTypes
      <4>2. mined # {} /\ PastBlocks \subseteq mined
        BY <1>1, BlocksAssumption DEF CreditTypes
      <4>3. Max(below) \in poolBlocks' /\ \A h \in PastBlocks : h <= Max(below)
        BY <2>1, <2>3, <4>1, <4>2
      <4> QED
        BY <4>3 DEF Covers
    <3> QED
      BY <1>1, <2>1, <3>1, <3>2 DEF Filling
  <2>6. Filling'
    BY <2>5 DEF Filling
  <2> QED
    BY <1>1, <2>1, <2>4, <2>6, TableGrows DEF CreditTypes
<1>4. CASE \E h \in Blocks : MineBlock(h)
  <2> PICK h \in Blocks : MineBlock(h)
    BY <1>4
  <2>1. /\ mined' = mined \cup {h}
        /\ UNCHANGED <<balance, poolBlocks, walk, pending, watermark, round, praised,
                       failures, blankPass>>
    BY DEF MineBlock, memoryOf, history, bounds
  <2>2. Filling'
    BY <1>1, <2>1 DEF Filling, Covers
  <2> QED
    BY <1>1, <2>1, <2>2, TableGrows DEF CreditTypes
<1>5. CASE \/ \E h \in Blocks : CreditBlock(h)
           \/ PayOut \/ BackfillFails \/ ToggleCredits \/ SkipPass
           \/ UNCHANGED creditVars
  <2>1. /\ UNCHANGED <<mined, poolBlocks, watermark, round, praised, failures, blankPass>>
        /\ DOMAIN pending' = DOMAIN pending
        /\ walk' \in {walk, Null}
        /\ balance' \in {balance, balance + 1, 0}
    BY <1>5 DEF CreditBlock, PayOut, BackfillFails, ToggleCredits, SkipPass, creditVars,
                ocean, memoryOf, history, bounds
  <2>2. Filling'
    BY <1>1, <2>1 DEF Filling, Covers
  <2> QED
    BY <1>1, <2>1, <2>2, TableGrows DEF CreditTypes
<1> QED
  BY <1>2, <1>3, <1>4, <1>5

\* The detector: the table stays.
LEMMA FillingStays ==
    ASSUME Filling, UNCHANGED <<poolBlocks, walk>>
    PROVE  Filling'
BY DEF Filling, Covers

\* A first pass sets the watermark to the newest block of the table.
LEMMA FirstPassCredit ==
    ASSUME CreditInvariant, NEW reading \in {Null, balance}, BeginPass(reading), watermark = Null
    PROVE  CreditInvariant'
<1>1. /\ watermark' = IF poolBlocks = {} THEN -1 ELSE Max(poolBlocks)
      /\ blankPass' = (blankPass \/ poolBlocks = {})
      /\ round' = [left |-> {}, done |-> {}, reading |-> reading]
      /\ UNCHANGED <<mined, balance, poolBlocks, walk, pending, praised, failures>>
  BY DEF BeginPass, ocean, history
<1>2. CreditTypes /\ Filling /\ poolBlocks \in SUBSET Blocks /\ Blocks \subseteq Nat
  BY BlocksAssumption DEF CreditInvariant, CreditTypes
<1>3. poolBlocks # {} => watermark' \in Blocks /\ watermark' \in Int
  <2>1. poolBlocks # {} => watermark' = Max(poolBlocks) /\ Max(poolBlocks) \in Blocks
    BY <1>1, <1>2, NewestBlock
  <2>2. \A h \in Blocks : h \in Int
    BY <1>2
  <2> QED
    BY <2>1, <2>2
<1>9. poolBlocks # {} => \A h \in poolBlocks : h <= watermark'
  BY <1>1, <1>2, NewestBlock
<1>4. watermark' # Null /\ watermark' \in {-1} \cup Blocks
  <2>1. poolBlocks = {} => watermark' = -1
    BY <1>1
  <2>2. -1 \in Int /\ \A h \in Blocks : h \in Int
    BY <1>2
  <2>3. watermark' \in {-1} \cup Blocks
    BY <1>3, <2>1
  <2> QED
    BY <2>2, <2>3, NullAssumption
<1>5. /\ round' \in Passes
      /\ round'.left = {} /\ round'.done = {}
  BY <1>1, <1>2 DEF Passes, CreditTypes
<1>6. CreditTypes'
  BY <1>1, <1>2, <1>4, <1>5 DEF CreditTypes, PassShape
<1>7. ASSUME NEW h \in Blocks PROVE WithinCredit(h)'
  <2>1. praised[h] = 0
    BY DEF CreditInvariant, CreditTypes, WithinCredit
  <2>2. praised'[h] = 0 /\ 0 <= failures' /\ 0 <= 1 + failures'
    BY <1>1, <1>2, <2>1 DEF CreditTypes
  <2>3. ~(praised'[h] > 0)
    BY <2>2
  <2> QED
    BY <2>2, <2>3 DEF WithinCredit
<1>8. ~blankPass' => \A h \in PastBlocks : OutOfReach(h)'
  <2> SUFFICES ASSUME ~blankPass', NEW h \in PastBlocks PROVE OutOfReach(h)'
    OBVIOUS
  <2>1. ~blankPass /\ poolBlocks # {}
    BY <1>1, <1>2 DEF CreditTypes
  <2>2. OutOfReach(h)
    BY <2>1 DEF CreditInvariant
  <2>3. watermark' \in Int
    BY <1>3, <2>1
  <2>4. h <= watermark'
    BY <1>2, <1>9, <2>1, <2>3, CoveredAbove DEF Filling
  <2> QED
    BY <1>1, <2>2, <2>4 DEF OutOfReach
<1> QED
  BY <1>1, <1>2, <1>6, <1>7, <1>8, FillingStays DEF CreditInvariant

\* What enters the queue is above the watermark: it was not announced.
LEMMA LaterPassCredit ==
    ASSUME CreditInvariant, NEW reading \in {Null, balance}, BeginPass(reading), watermark # Null
    PROVE  CreditInvariant'
<1>1. /\ round = Null
      /\ pending' = Queue(reading)
      /\ round' = [left |-> {h \in DOMAIN pending' : Ready(pending'[h], reading)},
                   done |-> {}, reading |-> reading]
      /\ UNCHANGED <<mined, balance, poolBlocks, walk, watermark, praised, failures,
                     blankPass>>
  BY DEF BeginPass, ocean, history
<1>2. /\ CreditTypes /\ Filling /\ Blocks \subseteq Nat
      /\ PastBlocks \subseteq Blocks
  BY BlocksAssumption DEF CreditInvariant, Blocks
<1>3. DOMAIN pending' = DOMAIN pending \cup Unnoticed
  BY <1>1 DEF Queue
<1>5. Unnoticed \subseteq poolBlocks
  BY DEF Unnoticed
<1>4. /\ round' \in Passes
      /\ round'.left \subseteq DOMAIN pending' /\ round'.done = {}
  <2>1. DOMAIN pending' \subseteq Blocks
    BY <1>2, <1>3, <1>5 DEF CreditTypes
  <2> QED
    BY <1>1, <1>2, <2>1 DEF Passes, CreditTypes
<1>6. CreditTypes'
  BY <1>1, <1>2, <1>3, <1>4, <1>5 DEF CreditTypes, PassShape
<1>7. watermark \in Int
  BY <1>2, WatermarkIsInt
<1>8. \A h \in Unnoticed : h \in Blocks /\ watermark < h
  BY <1>2 DEF Unnoticed, CreditTypes
<1>9. ASSUME NEW h \in Blocks PROVE WithinCredit(h)'
  <2>1. WithinCredit(h) /\ praised[h] \in Nat /\ failures \in Nat /\ h \in Nat
    BY <1>2 DEF CreditInvariant, CreditTypes
  <2>2. CASE h \in Unnoticed
    <3>1. watermark < h
      BY <1>8, <2>2
    <3>2. ~(praised[h] > 0)
      BY <1>7, <2>1, <3>1 DEF WithinCredit
    <3>3. praised[h] <= failures /\ praised[h] <= 1 + failures
      BY <2>1, <3>2
    <3> QED
      BY <1>1, <3>2, <3>3 DEF WithinCredit
  <2>3. CASE h \notin Unnoticed
    <3>1. Waits(h)' => Waits(h)
      BY <1>1, <1>3, <2>3 DEF Waits
    <3> QED
      BY <1>1, <2>1, <3>1 DEF WithinCredit
  <2> QED
    BY <2>2, <2>3
<1>10. ~blankPass' => \A h \in PastBlocks : OutOfReach(h)'
  <2> SUFFICES ASSUME ~blankPass', NEW h \in PastBlocks PROVE OutOfReach(h)'
    OBVIOUS
  <2>1. OutOfReach(h) /\ h \in Nat
    BY <1>1, <1>2 DEF CreditInvariant
  <2>2. h \notin Unnoticed
    <3>1. h <= watermark
      BY <2>1 DEF OutOfReach
    <3>2. ~(watermark < h)
      BY <1>7, <2>1, <3>1
    <3> QED
      BY <1>8, <3>2
  <2> QED
    BY <1>1, <1>3, <2>1, <2>2 DEF OutOfReach
<1> QED
  BY <1>1, <1>2, <1>6, <1>9, <1>10, FillingStays DEF CreditInvariant

\* An announcement uses up the block's place in the queue.
LEMMA AnnounceBlockCredit ==
    ASSUME CreditInvariant, AnnounceBlock
    PROVE  CreditInvariant'
<1> DEFINE h == Min(round.left)
<1>1. /\ round # Null /\ round.left # {}
      /\ praised' = [praised EXCEPT ![h] = @ + 1]
      /\ watermark' = Max({h, watermark})
      /\ round' = [round EXCEPT !.left = @ \ {h}, !.done = @ \cup {h}]
      /\ UNCHANGED <<mined, balance, poolBlocks, walk, pending, failures, blankPass>>
  BY DEF AnnounceBlock, ocean, bounds
<1>2. /\ CreditTypes /\ Filling /\ Blocks \subseteq Nat
      /\ PastBlocks \subseteq Blocks
  BY BlocksAssumption DEF CreditInvariant, Blocks
<1>3. /\ round \in Passes
      /\ round.left \subseteq DOMAIN pending
      /\ round.done \subseteq DOMAIN pending
      /\ round.left \cap round.done = {}
      /\ watermark # Null
      /\ DOMAIN pending \subseteq poolBlocks
      /\ poolBlocks \subseteq Blocks
  BY <1>1, <1>2 DEF CreditTypes, PassShape
<1>4. round.left \in SUBSET Blocks
  BY <1>3
<1>5. h \in round.left
  BY <1>1, <1>4, OldestBlock
<1> HIDE DEF h
<1>6. /\ h \in DOMAIN pending /\ h \notin round.done
      /\ h \in poolBlocks /\ h \in Blocks
      /\ h \in Int
  <2>1. /\ h \in DOMAIN pending /\ h \notin round.done
        /\ h \in poolBlocks /\ h \in Blocks
    BY <1>3, <1>5
  <2>2. \A g \in Blocks : g \in Int
    BY <1>2
  <2> QED
    BY <2>1, <2>2
<1>7. watermark \in Int
  BY <1>2, <1>3, WatermarkIsInt
<1>8. watermark' \in {h, watermark} /\ watermark' >= h /\ watermark' >= watermark
  BY <1>1, <1>6, <1>7, LaterOfTwo
<1>9. watermark' \in Int /\ watermark' # Null
  BY <1>6, <1>7, <1>8, NullAssumption
<1>10. /\ round'.left = round.left \ {h}
       /\ round'.done = round.done \cup {h}
       /\ round'.left \cap round'.done = {}
       /\ round' \in Passes
       /\ round' # Null
  <2>1. round' \in Passes
    BY <1>1, <1>3, <1>6 DEF Passes
  <2> QED
    BY <1>1, <1>3, <2>1, BlocksAssumption DEF Passes
<1>11. /\ DOMAIN praised' = Blocks
       /\ praised'[h] = praised[h] + 1
       /\ \A g \in Blocks \ {h} : praised'[g] = praised[g]
       /\ \A g \in Blocks : praised'[g] \in Nat
  BY <1>1, <1>2, <1>6 DEF CreditTypes
<1>12. watermark' \in {Null, -1} \cup Blocks
  BY <1>2, <1>6, <1>8 DEF CreditTypes
<1>13. CreditTypes'
  BY <1>1, <1>2, <1>3, <1>5, <1>9, <1>10, <1>11, <1>12 DEF CreditTypes, PassShape
<1>14. ASSUME NEW g \in Blocks PROVE WithinCredit(g)'
  <2>1. /\ WithinCredit(g) /\ praised[g] \in Nat /\ failures \in Nat /\ g \in Int
    BY <1>2 DEF CreditInvariant, CreditTypes
  <2>2. CASE g = h
    <3>1. praised[g] <= failures
      BY <1>6, <2>1, <2>2 DEF WithinCredit, Waits
    <3>2. praised'[g] <= 1 + failures
      BY <1>11, <2>1, <2>2, <3>1
    <3>3. ~Waits(g)'
      <4>1. g \in round'.done
        BY <1>10, <2>2
      <4>2. round' # Null
        BY <1>10
      <4> QED
        BY <4>1, <4>2 DEF Waits
    <3>4. watermark' # Null /\ g <= watermark' /\ g \in poolBlocks'
      BY <1>1, <1>6, <1>8, <1>9, <2>2
    <3> QED
      BY <1>1, <3>2, <3>3, <3>4 DEF WithinCredit
  <2>3. CASE g # h
    <3>1. praised'[g] = praised[g]
      BY <1>11, <2>3
    <3>2. Waits(g)' => Waits(g)
      BY <1>1, <1>10, <2>3 DEF Waits
    <3>3. g <= watermark => g <= watermark'
      BY <1>7, <1>8, <1>9, <2>1
    <3> QED
      BY <1>1, <1>9, <2>1, <3>1, <3>2, <3>3 DEF WithinCredit
  <2> QED
    BY <2>2, <2>3
<1>15. ~blankPass' => \A g \in PastBlocks : OutOfReach(g)'
  <2> SUFFICES ASSUME ~blankPass', NEW g \in PastBlocks PROVE OutOfReach(g)'
    OBVIOUS
  <2>1. OutOfReach(g) /\ g \in Blocks /\ g \in Int
    BY <1>1, <1>2 DEF CreditInvariant
  <2>2. g # h
    BY <1>6, <2>1 DEF OutOfReach
  <2>3. praised'[g] = 0
    BY <1>11, <2>1, <2>2 DEF OutOfReach
  <2>4. g <= watermark
    BY <1>3, <2>1 DEF OutOfReach
  <2>5. g <= watermark'
    BY <1>7, <1>8, <1>9, <2>1, <2>4
  <2> QED
    BY <1>1, <2>1, <2>3, <2>5 DEF OutOfReach
<1> QED
  BY <1>1, <1>2, <1>13, <1>14, <1>15, FillingStays DEF CreditInvariant

\* A failed alert puts what the pass announced back in the queue: there is one
\* announcement more.
LEMMA AnnouncementFailsCredit ==
    ASSUME CreditInvariant, AnnouncementFails
    PROVE  CreditInvariant'
<1>1. /\ failures' = failures + 1 /\ round' = Null
      /\ UNCHANGED <<mined, balance, poolBlocks, walk, watermark, pending, praised,
                     blankPass>>
  BY DEF AnnouncementFails, ocean, history
<1>2. CreditTypes /\ Filling
  BY DEF CreditInvariant
<1>3. CreditTypes'
  BY <1>1, <1>2 DEF CreditTypes, PassShape
<1>4. ASSUME NEW h \in Blocks PROVE WithinCredit(h)'
  <2>1. WithinCredit(h) /\ praised[h] \in Nat /\ failures \in Nat
    BY <1>2 DEF CreditInvariant, CreditTypes
  <2>2. praised[h] <= failures' /\ praised[h] <= 1 + failures'
    BY <1>1, <2>1 DEF WithinCredit
  <2> QED
    BY <1>1, <2>1, <2>2 DEF WithinCredit
<1>5. ~blankPass' => \A h \in PastBlocks : OutOfReach(h)'
  BY <1>1 DEF CreditInvariant, OutOfReach
<1> QED
  BY <1>1, <1>2, <1>3, <1>4, <1>5, FillingStays DEF CreditInvariant

LEMMA EndPassCredit ==
    ASSUME CreditInvariant, EndPass
    PROVE  CreditInvariant'
<1>1. /\ pending' = Kept /\ round' = Null /\ round # Null
      /\ UNCHANGED <<mined, balance, poolBlocks, walk, watermark, praised, failures,
                     blankPass>>
  BY DEF EndPass, ocean, bounds
<1>2. CreditTypes /\ Filling
  BY DEF CreditInvariant
<1>3. DOMAIN pending' = DOMAIN pending \ round.done
  BY <1>1 DEF Kept
<1>4. CreditTypes'
  BY <1>1, <1>2, <1>3 DEF CreditTypes, PassShape
<1>5. \A h \in Blocks : WithinCredit(h)'
  BY <1>1, <1>3 DEF CreditInvariant, WithinCredit, Waits
<1>6. ~blankPass' => \A h \in PastBlocks : OutOfReach(h)'
  BY <1>1, <1>3 DEF CreditInvariant, OutOfReach
<1> QED
  BY <1>1, <1>2, <1>4, <1>5, <1>6, FillingStays DEF CreditInvariant

\* A restart takes all that is in the table for announced, which is more.
LEMMA CrashCreditsCredit ==
    ASSUME CreditInvariant, CrashCredits
    PROVE  CreditInvariant'
<1>1. /\ watermark' = Hydration(poolBlocks)
      /\ pending' = <<>> /\ round' = Null
      /\ walk' = Backfill(poolBlocks)
      /\ UNCHANGED <<mined, balance, poolBlocks, praised, failures, blankPass>>
  BY DEF CrashCredits, ocean, history
<1>2. /\ CreditTypes /\ Filling /\ poolBlocks \in SUBSET Blocks
      /\ \A h \in Blocks : h \in Int
      /\ PastBlocks \subseteq Blocks
  BY BlocksAssumption DEF CreditInvariant, CreditTypes, Blocks
<1>3. DOMAIN pending' = {}
  BY <1>1
<1>4. /\ watermark' \in {Null} \cup Blocks
      /\ poolBlocks # {} => watermark' # Null /\ \A h \in poolBlocks : h <= watermark'
      /\ poolBlocks = {} => watermark' = Null
  BY <1>1, <1>2, HydrationKnows DEF Hydration
<1>5. CreditTypes'
  BY <1>1, <1>2, <1>3, <1>4 DEF CreditTypes, PassShape
<1>6. walk' \in {Null, Top}
  BY <1>1 DEF Backfill
<1>7. Filling'
  BY <1>1, <1>2, <1>6 DEF Filling, Covers
<1>8. ASSUME NEW h \in Blocks PROVE WithinCredit(h)'
  <2>1. WithinCredit(h)
    BY DEF CreditInvariant
  <2>2. h \in poolBlocks => watermark' # Null /\ h <= watermark'
    BY <1>4
  <2> QED
    BY <1>1, <1>3, <2>1, <2>2 DEF WithinCredit, Waits
<1>9. ~blankPass' => \A h \in PastBlocks : OutOfReach(h)'
  <2> SUFFICES ASSUME ~blankPass', NEW h \in PastBlocks PROVE OutOfReach(h)'
    OBVIOUS
  <2>1. OutOfReach(h)
    BY <1>1 DEF CreditInvariant
  <2>2. watermark' # Null => h <= watermark'
    <3> SUFFICES ASSUME watermark' # Null PROVE h <= watermark'
      OBVIOUS
    <3>1. poolBlocks # {} /\ watermark' \in Int
      BY <1>2, <1>4
    <3> QED
      BY <1>2, <1>4, <3>1, CoveredAbove DEF Filling
  <2> QED
    BY <1>1, <1>3, <2>1, <2>2 DEF OutOfReach
<1> QED
  BY <1>5, <1>7, <1>8, <1>9 DEF CreditInvariant

LEMMA CreditInvariantNext ==
    ASSUME CreditInvariant, [CreditNext]_creditVars
    PROVE  CreditInvariant'
<1>1. CASE \/ \E h \in Blocks : MineBlock(h) \/ CreditBlock(h)
           \/ PayOut \/ StoreNewest \/ BackfillPage \/ BackfillFails
           \/ ToggleCredits \/ SkipPass
           \/ UNCHANGED creditVars
  BY <1>1, OutsideCredit
<1>2. CASE \E reading \in {Null, balance} : BeginPass(reading)
  BY <1>2, FirstPassCredit, LaterPassCredit
<1>3. CASE AnnounceBlock
  BY <1>3, AnnounceBlockCredit
<1>4. CASE AnnouncementFails
  BY <1>4, AnnouncementFailsCredit
<1>5. CASE EndPass
  BY <1>5, EndPassCredit
<1>6. CASE CrashCredits
  BY <1>6, CrashCreditsCredit
<1> QED
  BY <1>1, <1>2, <1>3, <1>4, <1>5, <1>6 DEF CreditNext, Pass

LEMMA CreditInvariantInit == CreditInit => CreditInvariant
<1> SUFFICES ASSUME CreditInit PROVE CreditInvariant
  OBVIOUS
<1>1. /\ mined = PastBlocks /\ poolBlocks = {} /\ balance = 0
      /\ watermark = Null /\ round = Null /\ blankPass = FALSE
      /\ DOMAIN pending = {} /\ failures = 0
      /\ praised = [h \in Blocks |-> 0]
      /\ walk \in {Null, Top}
  BY DEF CreditInit, Backfill
<1>2. CreditTypes
  BY <1>1 DEF CreditTypes, PassShape, Blocks
<1>3. Filling
  BY <1>1 DEF Filling
<1>4. \A h \in Blocks : praised[h] = 0
  BY <1>1
<1>5. \A h \in Blocks : WithinCredit(h)
  BY <1>1, <1>4 DEF WithinCredit, Waits
<1>6. \A h \in PastBlocks : OutOfReach(h)
  BY <1>1, <1>4 DEF OutOfReach, Blocks
<1> QED
  BY <1>2, <1>3, <1>5, <1>6 DEF CreditInvariant

\* A block is announced once, over restarts, toggles and payouts, but for the
\* alerts that could not be recorded; and one of before the install is not, in
\* whatever order the ticks, the backfill and restarts fill the table, unless
\* the first pass ran before anything was in it (alert-evaluator.ts:902-941,
\* pool_blocks.ts:140-145).
THEOREM BlockOnceHolds == CreditSpec => []BlockOnce
<1>1. CreditInvariant => BlockOnce
  <2> SUFFICES ASSUME CreditInvariant, NEW h \in Blocks
               PROVE  praised[h] <= IF h \in PastBlocks /\ ~blankPass THEN 0
                                    ELSE 1 + failures
    BY DEF BlockOnce
  <2>1. praised[h] <= 1 + failures
    BY DEF CreditInvariant, WithinCredit
  <2>2. h \in PastBlocks /\ ~blankPass => praised[h] = 0
    BY DEF CreditInvariant, OutOfReach
  <2> QED
    BY <2>1, <2>2
<1> QED
  BY <1>1, CreditInvariantInit, CreditInvariantNext, PTL DEF CreditSpec

-----------------------------------------------------------------------------
(* A payout is announced once *)

\* The balance was seen to fall.
Fell(from, to) == from # Null /\ to # Null /\ from > to

\* Falls that are not announced yet have a payout each: the one since the last
\* pass, and, while a pass is under way, those before and after its reading.
LEMMA DroppedFell ==
    ASSUME NEW from \in {Null} \cup Nat, NEW to \in {Null} \cup Nat, Dropped(from, to)
    PROVE  Fell(from, to)
<1>1. from \in Nat /\ to \in Nat /\ from # Null /\ to # Null
  BY DEF Dropped
<1>2. 10 * (from - to) > 3 * from
  BY DEF Dropped
<1>3. from > to
  BY <1>1, <1>2
<1> QED
  BY <1>1, <1>3 DEF Fell

PayoutTypes ==
    /\ initiated \in Nat /\ payouts \in Nat /\ balance \in Nat
    /\ prevUnpaid \in {Null} \cup Nat
    /\ round # Null => round.reading \in {Null} \cup Nat

PayoutInvariant ==
    /\ PayoutTypes
    /\ initiated <= payouts
    /\ Fell(prevUnpaid, balance) => initiated + 1 <= payouts
    /\ round # Null /\ round.reading # Null =>
          /\ Fell(prevUnpaid, round.reading) => initiated + 1 <= payouts
          /\ Fell(round.reading, balance) => initiated + 1 <= payouts
          /\ Fell(prevUnpaid, round.reading) /\ Fell(round.reading, balance)
                => initiated + 2 <= payouts

\* The balance moves: it only falls with a payout.
LEMMA BalancePayouts ==
    ASSUME PayoutInvariant,
           UNCHANGED <<initiated, prevUnpaid, round>>,
           balance' \in Nat, payouts' \in Nat,
           \/ balance' >= balance /\ payouts' = payouts
           \/ payouts' = payouts + 1
    PROVE  PayoutInvariant'
<1>1. PayoutTypes /\ PayoutTypes'
  BY DEF PayoutInvariant, PayoutTypes
<1>2. CASE balance' >= balance /\ payouts' = payouts
  <2>1. ASSUME NEW from \in {Null} \cup Nat, Fell(from, balance')
        PROVE  Fell(from, balance)
    <3>1. from \in Nat /\ balance \in Nat /\ balance' \in Nat /\ from > balance'
          /\ balance # Null
      BY <1>1, <2>1, NullAssumption DEF Fell, PayoutTypes
    <3>2. from > balance
      BY <1>2, <3>1
    <3> QED
      BY <2>1, <3>1, <3>2 DEF Fell
  <2>2. Fell(prevUnpaid, balance)' => Fell(prevUnpaid, balance)
    BY <1>1, <2>1 DEF PayoutTypes
  <2>3. round # Null => (Fell(round.reading, balance)' => Fell(round.reading, balance))
    BY <1>1, <2>1 DEF PayoutTypes
  <2>4. Fell(prevUnpaid, round.reading)' <=> Fell(prevUnpaid, round.reading)
    BY DEF Fell
  <2> QED
    BY <1>1, <1>2, <2>2, <2>3, <2>4 DEF PayoutInvariant
<1>3. CASE payouts' = payouts + 1
  <2>1. initiated \in Nat /\ payouts \in Nat
    BY <1>1 DEF PayoutTypes
  <2>2. /\ initiated <= payouts => initiated <= payouts' /\ initiated + 1 <= payouts'
        /\ initiated + 1 <= payouts => initiated + 2 <= payouts'
    BY <1>3, <2>1
  <2>3. Fell(prevUnpaid, round.reading)' <=> Fell(prevUnpaid, round.reading)
    BY DEF Fell
  <2> QED
    BY <1>1, <2>2, <2>3 DEF PayoutInvariant
<1> QED
  BY <1>2, <1>3

LEMMA PayoutRounds ==
    ASSUME CreditInvariant, PayoutInvariant,
           \/ \E reading \in {Null, balance} : BeginPass(reading)
           \/ AnnounceBlock \/ AnnouncementFails \/ CrashCredits
    PROVE  PayoutInvariant'
<1>1. PayoutTypes /\ initiated <= payouts
  BY DEF PayoutInvariant
<1>2. CASE \E reading \in {Null, balance} : BeginPass(reading)
  <2> PICK reading \in {Null, balance} : BeginPass(reading)
    BY <1>2
  <2>1. /\ UNCHANGED <<balance, payouts, initiated, prevUnpaid>>
        /\ round'.reading = reading
    BY DEF BeginPass, ocean, history
  <2>2. PayoutTypes'
    BY <1>1, <2>1 DEF PayoutTypes
  <2>3. ~Fell(balance, balance)
    BY <1>1 DEF Fell, PayoutTypes
  <2>4. reading # Null => /\ Fell(prevUnpaid, round.reading)' => Fell(prevUnpaid, balance)
                          /\ ~Fell(round.reading, balance)'
    BY <2>1, <2>3 DEF Fell
  <2>5. Fell(prevUnpaid, balance)' => Fell(prevUnpaid, balance)
    BY <2>1 DEF Fell
  <2> QED
    BY <2>1, <2>2, <2>4, <2>5 DEF PayoutInvariant
<1>3. CASE AnnounceBlock
  <2>1. /\ UNCHANGED <<balance, payouts, initiated, prevUnpaid>>
        /\ round # Null
        /\ round' = [round EXCEPT !.left = @ \ {Min(round.left)},
                                  !.done = @ \cup {Min(round.left)}]
    BY <1>3 DEF AnnounceBlock, ocean, bounds
  <2>2. round \in Passes
    BY <2>1 DEF CreditInvariant, CreditTypes, PassShape
  <2>3. round'.reading = round.reading
    BY <2>1, <2>2 DEF Passes
  <2>4. PayoutTypes'
    BY <1>1, <2>1, <2>3 DEF PayoutTypes
  <2>5. /\ Fell(prevUnpaid, balance)' <=> Fell(prevUnpaid, balance)
        /\ Fell(prevUnpaid, round.reading)' <=> Fell(prevUnpaid, round.reading)
        /\ Fell(round.reading, balance)' <=> Fell(round.reading, balance)
    BY <2>1, <2>3 DEF Fell
  <2> QED
    BY <2>1, <2>3, <2>4, <2>5 DEF PayoutInvariant
<1>4. CASE AnnouncementFails
  <2>1. UNCHANGED <<balance, payouts, initiated, prevUnpaid>> /\ round' = Null
    BY <1>4 DEF AnnouncementFails, ocean, history
  <2>2. PayoutTypes' /\ (Fell(prevUnpaid, balance)' <=> Fell(prevUnpaid, balance))
    BY <1>1, <2>1 DEF PayoutTypes, Fell
  <2> QED
    BY <2>1, <2>2 DEF PayoutInvariant
<1>5. CASE CrashCredits
  <2>1. UNCHANGED <<balance, payouts, initiated>> /\ round' = Null /\ prevUnpaid' = Null
    BY <1>5 DEF CrashCredits, ocean, history
  <2>2. PayoutTypes' /\ ~Fell(prevUnpaid, balance)'
    BY <1>1, <2>1 DEF PayoutTypes, Fell
  <2> QED
    BY <1>1, <2>1, <2>2 DEF PayoutInvariant
<1> QED
  BY <1>2, <1>3, <1>4, <1>5

\* The detector announces a fall that has a payout, and no other.
LEMMA PayoutEndPass ==
    ASSUME CreditInvariant, PayoutInvariant, EndPass
    PROVE  PayoutInvariant'
<1> DEFINE reading == round.reading
<1>1. /\ UNCHANGED <<balance, payouts>>
      /\ round # Null /\ round' = Null
      /\ Dropped(prevUnpaid, reading) => initiated' = initiated + 1
      /\ ~Dropped(prevUnpaid, reading) => initiated' = initiated
      /\ prevUnpaid' = reading
  <2>1. initiated' = initiated + (IF Dropped(prevUnpaid, reading) THEN 1 ELSE 0)
    BY DEF EndPass
  <2>2. initiated \in Nat
    BY DEF PayoutInvariant, PayoutTypes
  <2>3. /\ Dropped(prevUnpaid, reading) => initiated' = initiated + 1
        /\ ~Dropped(prevUnpaid, reading) => initiated' = initiated
    BY <2>1, <2>2
  <2> QED
    BY <2>3 DEF EndPass, Remembered, ocean, bounds
<1>2. /\ PayoutTypes /\ initiated <= payouts
      /\ initiated \in Nat /\ payouts \in Nat
      /\ prevUnpaid \in {Null} \cup Nat /\ reading \in {Null} \cup Nat
  BY <1>1 DEF PayoutInvariant, PayoutTypes
<1>3. Dropped(prevUnpaid, reading) => Fell(prevUnpaid, reading) /\ reading # Null
  BY <1>2, DroppedFell DEF Dropped
<1>4. /\ reading # Null /\ Fell(prevUnpaid, reading) => initiated + 1 <= payouts
      /\ reading # Null /\ Fell(reading, balance) => initiated + 1 <= payouts
      /\ reading # Null /\ Fell(prevUnpaid, reading) /\ Fell(reading, balance)
            => initiated + 2 <= payouts
  BY <1>1 DEF PayoutInvariant
<1> HIDE DEF reading
<1>5. initiated' \in Nat /\ initiated' <= payouts
  BY <1>1, <1>2, <1>3, <1>4
<1>6. Fell(prevUnpaid, balance)' => Fell(reading, balance) /\ reading # Null
  BY <1>1 DEF Fell
<1>7. Fell(prevUnpaid, balance)' => initiated' + 1 <= payouts
  BY <1>1, <1>2, <1>3, <1>4, <1>6
<1>8. PayoutTypes'
  BY <1>1, <1>2, <1>5 DEF PayoutTypes
<1> QED
  BY <1>1, <1>5, <1>7, <1>8 DEF PayoutInvariant

LEMMA PayoutInvariantNext ==
    ASSUME CreditInvariant, PayoutInvariant, [CreditNext]_creditVars
    PROVE  PayoutInvariant'
<1>1. PayoutTypes
  BY DEF PayoutInvariant
<1>2. CASE \/ \E h \in Blocks : MineBlock(h) \/ CreditBlock(h)
           \/ StoreNewest \/ BackfillPage \/ BackfillFails
           \/ ToggleCredits \/ SkipPass
           \/ UNCHANGED creditVars
  <2>1. /\ UNCHANGED <<initiated, prevUnpaid, round, payouts>>
        /\ balance' \in {balance, balance + 1}
    BY <1>2 DEF MineBlock, CreditBlock, StoreNewest, BackfillPage, BackfillFails,
                ToggleCredits, SkipPass, creditVars, ocean, memoryOf, history, bounds
  <2>2. balance' \in Nat /\ payouts' \in Nat /\ balance' >= balance
    BY <1>1, <2>1 DEF PayoutTypes
  <2> QED
    BY <2>1, <2>2, BalancePayouts
<1>3. CASE PayOut
  <2>1. /\ UNCHANGED <<initiated, prevUnpaid, round>>
        /\ balance' = 0 /\ payouts' = payouts + 1
    BY <1>3 DEF PayOut, memoryOf, history
  <2>2. balance' \in Nat /\ payouts' \in Nat
    BY <1>1, <2>1 DEF PayoutTypes
  <2> QED
    BY <2>1, <2>2, BalancePayouts
<1>4. CASE \/ \E reading \in {Null, balance} : BeginPass(reading)
           \/ AnnounceBlock \/ AnnouncementFails \/ CrashCredits
  BY <1>4, PayoutRounds
<1>5. CASE EndPass
  BY <1>5, PayoutEndPass
<1> QED
  BY <1>2, <1>3, <1>4, <1>5 DEF CreditNext, Pass

LEMMA PayoutInvariantInit == CreditInit => PayoutInvariant
BY DEF CreditInit, PayoutInvariant, PayoutTypes, Fell

\* There are no more alerts of a payout than payouts, through toggles, restarts
\* and readings that fail (alert-evaluator.ts:1114-1124).
THEOREM InitiatedOnceHolds == CreditSpec => []InitiatedOnce
<1>1. CreditInit => CreditInvariant /\ PayoutInvariant
  BY CreditInvariantInit, PayoutInvariantInit
<1>2. CreditInvariant /\ PayoutInvariant /\ [CreditNext]_creditVars
        => (CreditInvariant /\ PayoutInvariant)'
  BY CreditInvariantNext, PayoutInvariantNext
<1>3. PayoutInvariant => InitiatedOnce
  BY DEF PayoutInvariant, InitiatedOnce
<1> QED
  BY <1>1, <1>2, <1>3, PTL DEF CreditSpec

-----------------------------------------------------------------------------
(* Alert delivery: its state *)

WorkerStages == {"idle", "read", "sending", "store", "count", "farewell"}
Verdicts == {"sent", "failed", "gave_up", "muted"}

InQueue(w) == Range(couriers[w].queue)

\* What a worker has in its hands behind the alert it is about.
Rest(w) == InQueue(w) \ {Current(w)}

WorkerShape(c) ==
    /\ DOMAIN c = {"at", "queue", "muted", "read", "verdict", "age", "wait"}
    /\ c.at \in WorkerStages
    /\ c.queue \in Seq(Alerts)
    /\ IsInjective(c.queue)
    /\ c.read \in Nat /\ c.age \in Nat
    /\ c.wait \in Nat /\ c.wait <= SendMax
    /\ c.at # "idle" => c.queue # <<>>
    /\ c.at = "idle" => c.queue = <<>>
    /\ c.at \in {"store", "count"} => c.verdict \in Verdicts

RowShape(row) ==
    /\ DOMAIN row = {"status", "attempts", "due", "acked"}
    /\ row.attempts \in Nat
    /\ row.due \in Nat \cup {Null}

DeliveryTypes ==
    /\ alertIds \subseteq Alerts
    /\ Present \subseteq alertIds
    /\ \A a \in Present : RowShape(alertRows[a])
    /\ DOMAIN couriers = Workers
    /\ \A w \in Workers : WorkerShape(couriers[w]) /\ InQueue(w) \subseteq alertIds
    /\ \A a \in Alerts :
          LET w == <<"first", a>>
          IN  couriers[w].at # "idle" => couriers[w].queue = <<a>>
    /\ sinceTick \in Nat
    /\ crashes \in Nat
    /\ told \in [Alerts -> Nat]
    /\ sends \in [Alerts -> Nat]

\* Sequences without repetition.
LEMMA TailOfQueue ==
    ASSUME NEW S, NEW q \in Seq(S), q # <<>>, IsInjective(q)
    PROVE  /\ Head(q) \in S /\ Head(q) \in Range(q)
           /\ Tail(q) \in Seq(S)
           /\ Len(q) \in Nat /\ Len(q) >= 1 /\ Len(Tail(q)) = Len(q) - 1
           /\ IsInjective(Tail(q))
           /\ Range(Tail(q)) = Range(q) \ {Head(q)}
<1>1. /\ Len(q) \in Nat /\ Len(q) >= 1 /\ DOMAIN q = 1..Len(q)
      /\ Head(q) = q[1]
      /\ Tail(q) \in Seq(S) /\ Len(Tail(q)) = Len(q) - 1
  OBVIOUS
<1>2. DOMAIN Tail(q) = 1..(Len(q) - 1)
  BY <1>1
<1>3. \A i \in 1..(Len(q) - 1) : Tail(q)[i] = q[i + 1]
  OBVIOUS
<1>4. Head(q) \in Range(q) /\ Head(q) \in S
  BY <1>1 DEF Range
<1>5. IsInjective(Tail(q))
  <2> SUFFICES ASSUME NEW i \in 1..(Len(q) - 1), NEW j \in 1..(Len(q) - 1),
                      Tail(q)[i] = Tail(q)[j]
               PROVE  i = j
    BY <1>2 DEF IsInjective
  <2>1. q[i + 1] = q[j + 1] /\ i + 1 \in DOMAIN q /\ j + 1 \in DOMAIN q
    BY <1>1, <1>3
  <2>2. i + 1 = j + 1
    BY <2>1 DEF IsInjective
  <2> QED
    BY <2>2
<1>6. ASSUME NEW x \in Range(Tail(q)) PROVE x \in Range(q) /\ x # Head(q)
  <2>1. PICK i \in 1..(Len(q) - 1) : x = q[i + 1]
    BY <1>2, <1>3 DEF Range
  <2>2. i + 1 \in DOMAIN q /\ 1 \in DOMAIN q /\ i + 1 # 1
    BY <1>1
  <2>3. q[i + 1] # q[1]
    BY <2>2 DEF IsInjective
  <2> QED
    BY <1>1, <2>1, <2>2, <2>3 DEF Range
<1>7. ASSUME NEW x \in Range(q), x # Head(q) PROVE x \in Range(Tail(q))
  <2>1. PICK i \in DOMAIN q : x = q[i]
    BY DEF Range
  <2>2. i \in 1..Len(q) /\ i # 1
    BY <1>1, <1>7, <2>1
  <2>3. i - 1 \in 1..(Len(q) - 1) /\ i = (i - 1) + 1
    BY <1>1, <2>2
  <2>4. Tail(q)[i - 1] = q[i]
    BY <1>3, <2>3
  <2> QED
    BY <1>2, <2>1, <2>3, <2>4 DEF Range
<1> QED
  BY <1>1, <1>4, <1>5, <1>6, <1>7

LEMMA EmptyQueue == Range(<<>>) = {} /\ IsInjective(<<>>)
BY DEF Range, IsInjective

LEMMA IdleShape ==
    /\ WorkerShape(IdleWorker)
    /\ IdleWorker.at = "idle" /\ IdleWorker.queue = <<>>
<1>1. IdleWorker = [at |-> "idle", queue |-> <<>>, muted |-> FALSE, read |-> 0,
                    verdict |-> Null, age |-> 0, wait |-> 0]
  BY DEF IdleWorker
<1>2. /\ DOMAIN IdleWorker = {"at", "queue", "muted", "read", "verdict", "age", "wait"}
      /\ IdleWorker.at = "idle" /\ IdleWorker.queue = <<>>
      /\ IdleWorker.read = 0 /\ IdleWorker.age = 0 /\ IdleWorker.wait = 0
  BY <1>1
<1> QED
  BY <1>2, EmptyQueue, DeliveryAssumption DEF WorkerShape, WorkerStages

\* A worker that is about an alert.
LEMMA BusyWorker ==
    ASSUME DeliveryTypes, NEW w \in Workers, couriers[w].at # "idle"
    PROVE  /\ Current(w) \in InQueue(w)
           /\ Current(w) \in alertIds /\ Current(w) \in Alerts
           /\ InQueue(w) = {Current(w)} \cup Rest(w)
           /\ InQueue(w) \subseteq Alerts
<1>1. /\ WorkerShape(couriers[w]) /\ InQueue(w) \subseteq alertIds
      /\ alertIds \subseteq Alerts
  BY DEF DeliveryTypes
<1>2. Current(w) \in InQueue(w)
  BY <1>1, TailOfQueue DEF WorkerShape, Current, InQueue
<1> QED
  BY <1>1, <1>2 DEF Rest

\* What is left in a worker's hands when it is done with an alert.
LEMMA AfterLeaves ==
    ASSUME DeliveryTypes, NEW w \in Workers, couriers[w].at # "idle"
    PROVE  /\ WorkerShape(After(w))
           /\ Range(After(w).queue) = Rest(w)
           /\ \/ After(w).at = "idle"
              \/ After(w).at = "read" /\ After(w).wait = 0
           /\ After(w).at # "idle" =>
                 /\ Len(After(w).queue) = Len(couriers[w].queue) - 1
                 /\ Len(couriers[w].queue) \in Nat
                 /\ Len(couriers[w].queue) >= 2
                 /\ Head(After(w).queue) \in Rest(w)
<1> DEFINE q == couriers[w].queue
<1>1. /\ WorkerShape(couriers[w])
      /\ q \in Seq(Alerts) /\ q # <<>> /\ IsInjective(q)
  BY DEF DeliveryTypes, WorkerShape
<1>2. /\ Tail(q) \in Seq(Alerts) /\ IsInjective(Tail(q))
      /\ Len(q) \in Nat /\ Len(q) >= 1 /\ Len(Tail(q)) = Len(q) - 1
      /\ Range(Tail(q)) = Rest(w)
  BY <1>1, TailOfQueue DEF Rest, InQueue, Current
<1>3. CASE Tail(q) = <<>>
  <2>1. After(w) = IdleWorker
    BY <1>3 DEF After
  <2> QED
    BY <1>2, <1>3, <2>1, IdleShape
<1>4. CASE Tail(q) # <<>>
  <2>1. After(w) = [couriers[w] EXCEPT !.at = "read", !.queue = Tail(q), !.read = 0,
                                       !.verdict = Null, !.wait = 0]
    BY <1>4 DEF After
  <2>2. /\ DOMAIN After(w) = DOMAIN couriers[w]
        /\ After(w).at = "read" /\ After(w).queue = Tail(q)
        /\ After(w).read = 0 /\ After(w).wait = 0
        /\ After(w).age = couriers[w].age
    BY <1>1, <2>1 DEF WorkerShape
  <2>3. WorkerShape(After(w))
    BY <1>1, <1>2, <1>4, <2>2, DeliveryAssumption DEF WorkerShape, WorkerStages
  <2>4. Head(Tail(q)) \in Range(Tail(q)) /\ Len(Tail(q)) >= 1
    BY <1>2, <1>4, TailOfQueue
  <2>5. Len(q) >= 2
    BY <1>2, <2>4
  <2> HIDE DEF q
  <2>6. Head(After(w).queue) \in Rest(w) /\ Range(After(w).queue) = Rest(w)
    BY <1>2, <2>2, <2>4
  <2>7. Len(After(w).queue) = Len(q) - 1
    BY <1>2, <2>2
  <2> QED
    BY <1>2, <2>2, <2>3, <2>5, <2>6, <2>7 DEF q
<1> QED
  BY <1>3, <1>4

-----------------------------------------------------------------------------
(* Alert delivery: attempts within the budget, one worker at a time *)

\* The alert has an attempt left, what was sent is accounted for, and no copy
\* arrived that a crash did not forget.
Chance(a) ==
    /\ alertRows[a].attempts < MaxAttempts
    /\ sends[a] <= alertRows[a].attempts + crashes
    /\ told[a] <= crashes

\* An alert nobody has taken in hand, and one that waits in a worker's hands.
OnPlan(a) == a \in Present /\ alertRows[a].due # Null => Chance(a)
Fresh(a) == a \in Present => alertRows[a].due # Null /\ Chance(a)

\* The send under way, or just over, is the one attempt not counted yet.
SentOnce(w) ==
    /\ alertRows[Current(w)].attempts = couriers[w].read
    /\ sends[Current(w)] <= couriers[w].read + 1 + crashes

\* What a worker may rely on, stage by stage.
AtRead(w) == Fresh(Current(w)) /\ couriers[w].wait = 0

AtSending(w) ==
    /\ couriers[w].read < MaxAttempts
    /\ told[Current(w)] <= crashes
    /\ Current(w) \in Present => SentOnce(w) /\ alertRows[Current(w)].due # Null

AtStore(w) ==
    /\ couriers[w].read < MaxAttempts
    /\ couriers[w].verdict = "failed" => couriers[w].read + 1 < MaxAttempts
    /\ couriers[w].verdict # "sent" => told[Current(w)] <= crashes
    /\ Current(w) \in Present => SentOnce(w) /\ alertRows[Current(w)].due # Null

AtCount(w) ==
    Current(w) \in Present =>
        /\ SentOnce(w)
        /\ alertRows[Current(w)].due # Null =>
              /\ couriers[w].read + 1 < MaxAttempts
              /\ couriers[w].verdict # "gave_up"
              /\ told[Current(w)] <= crashes

AtFarewell(w) == Current(w) \in Present => alertRows[Current(w)].due = Null

Hand(w) ==
    couriers[w].at # "idle" =>
        /\ \A a \in Rest(w) : Fresh(a)
        /\ couriers[w].at = "read" => AtRead(w)
        /\ couriers[w].at = "sending" => AtSending(w)
        /\ couriers[w].at = "store" => AtStore(w)
        /\ couriers[w].at = "count" => AtCount(w)
        /\ couriers[w].at = "farewell" => AtFarewell(w)

\* The time a run may take for so many alerts: a send and a farewell each.
Room(n) == 2 * SendMax * n

\* A run is over when the next tick comes.
RunOnTime(w) ==
    couriers[w].at # "idle" =>
        LET ends == sinceTick + Room(Len(couriers[w].queue))
        IN  /\ couriers[w].at = "read" => ends <= TickPeriod
            /\ couriers[w].at = "sending" => ends <= TickPeriod + couriers[w].wait
            /\ couriers[w].at \in {"store", "count"} => ends <= TickPeriod + SendMax
            /\ couriers[w].at = "farewell" =>
                  ends <= TickPeriod + SendMax + couriers[w].wait

\* A first delivery is over before its row falls due.
FirstOnTime(w) ==
    couriers[w].at # "idle" =>
        LET there == Current(w) \in Present /\ alertRows[Current(w)].due # Null
            due == alertRows[Current(w)].due
        IN  /\ couriers[w].at = "read" =>
                  couriers[w].age = 0 /\ (there => due > SendMax)
            /\ couriers[w].at = "sending" =>
                  /\ couriers[w].age <= couriers[w].wait
                  /\ there => due + couriers[w].wait > SendMax
            /\ couriers[w].at = "store" =>
                  couriers[w].age <= SendMax /\ (there => due > 0)
            /\ couriers[w].at = "count" => (there => due > 0)

OnTime(w) ==
    /\ w \in Retries => RunOnTime(w)
    /\ w \in Firsts => FirstOnTime(w)

\* No two workers have the same alert in their hands.
Exclusive ==
    \A v \in Workers, w \in Workers : v # w => InQueue(v) \cap InQueue(w) = {}

\* An alert that is not raised yet has left no trace.
Unraised(a) ==
    /\ sends[a] = 0 /\ told[a] = 0
    /\ couriers[<<"first", a>>].at = "idle"

Budget(a) == sends[a] <= MaxAttempts + crashes /\ told[a] <= 1 + crashes

DeliveryInvariant ==
    /\ DeliveryTypes
    /\ Exclusive
    /\ \A w \in Workers : Hand(w) /\ OnTime(w)
    /\ \A a \in Alerts : (\A w \in Workers : a \notin InQueue(w)) => OnPlan(a)
    /\ \A a \in Alerts : Budget(a) /\ (a \notin alertIds => Unraised(a))

\* A step does to an alert nothing a worker would notice; its row may go.
Untouched(b) ==
    /\ told'[b] = told[b] /\ sends'[b] = sends[b]
    /\ b \in Present' =>
          /\ b \in Present
          /\ alertRows'[b].attempts = alertRows[b].attempts
          /\ alertRows'[b].due = Null <=> alertRows[b].due = Null

SameDue(b) == b \in Present' => b \in Present /\ alertRows'[b].due = alertRows[b].due

\* A worker whose stage stays.
Stays(w) ==
    /\ couriers'[w].at = couriers[w].at
    /\ couriers'[w].queue = couriers[w].queue
    /\ couriers'[w].read = couriers[w].read
    /\ couriers'[w].verdict = couriers[w].verdict
    /\ couriers[w].at = "read" => couriers'[w].wait = couriers[w].wait

LEMMA KeptPlan ==
    ASSUME NEW b, Untouched(b), crashes' = crashes
    PROVE  (Fresh(b) => Fresh(b)') /\ (OnPlan(b) => OnPlan(b)')
BY DEF Untouched, Fresh, OnPlan, Chance

LEMMA HandKept ==
    ASSUME DeliveryTypes, NEW w \in Workers, Hand(w), Stays(w), crashes' = crashes,
           \A b \in InQueue(w) : Untouched(b)
    PROVE  Hand(w)'
<1>1. CASE couriers[w].at = "idle"
  BY <1>1 DEF Hand, Stays
<1>2. CASE couriers[w].at # "idle"
  <2>1. Current(w) \in InQueue(w) /\ Rest(w) \subseteq InQueue(w)
    BY <1>2, BusyWorker
  <2>2. Current(w)' = Current(w) /\ Rest(w)' = Rest(w)
    BY DEF Stays, Current, Rest, InQueue
  <2>3. \A a \in Rest(w)' : Fresh(a)'
    BY <1>2, <2>1, <2>2, KeptPlan DEF Hand
  <2>4. Untouched(Current(w))
    BY <2>1
  <2>5. couriers[w].at = "read" => AtRead(w)'
    BY <1>2, <2>2, <2>4, KeptPlan DEF Hand, AtRead, Stays
  <2>6. couriers[w].at = "sending" => AtSending(w)'
    BY <1>2, <2>2, <2>4 DEF Hand, AtSending, Stays, Untouched, SentOnce
  <2>7. couriers[w].at = "store" => AtStore(w)'
    BY <1>2, <2>2, <2>4 DEF Hand, AtStore, Stays, Untouched, SentOnce
  <2>8. couriers[w].at = "count" => AtCount(w)'
    BY <1>2, <2>2, <2>4 DEF Hand, AtCount, Stays, Untouched, SentOnce
  <2>9. couriers[w].at = "farewell" => AtFarewell(w)'
    BY <1>2, <2>2, <2>4 DEF Hand, AtFarewell, Stays, Untouched
  <2> QED
    BY <2>3, <2>5, <2>6, <2>7, <2>8, <2>9 DEF Hand, Stays
<1> QED
  BY <1>1, <1>2

LEMMA OnTimeKept ==
    ASSUME DeliveryTypes, NEW w \in Workers, OnTime(w),
           couriers'[w] = couriers[w], sinceTick' = sinceTick,
           \A b \in InQueue(w) : SameDue(b)
    PROVE  OnTime(w)'
<1>1. RunOnTime(w) => RunOnTime(w)'
  BY DEF RunOnTime
<1>2. CASE couriers[w].at = "idle"
  BY <1>1, <1>2 DEF OnTime, RunOnTime, FirstOnTime
<1>3. CASE couriers[w].at # "idle"
  <2>1. Current(w) \in InQueue(w)
    BY <1>3, BusyWorker
  <2>2. Current(w)' = Current(w)
    BY DEF Current
  <2>3. SameDue(Current(w))
    BY <2>1
  <2>4. FirstOnTime(w) => FirstOnTime(w)'
    BY <1>3, <2>2, <2>3 DEF FirstOnTime, SameDue
  <2> QED
    BY <1>1, <2>4 DEF OnTime
<1> QED
  BY <1>2, <1>3

\* A step of one worker that keeps what it has in its hands, or lays down what
\* is on its plan.
LEMMA WorkerSteps ==
    ASSUME DeliveryInvariant, NEW w \in Workers, couriers[w].at # "idle",
           DOMAIN couriers' = Workers,
           \A v \in Workers \ {w} : couriers'[v] = couriers[v],
           WorkerShape(couriers'[w]), InQueue(w)' \subseteq InQueue(w),
           w \in Firsts /\ couriers'[w].at # "idle"
               => couriers'[w].queue = couriers[w].queue,
           UNCHANGED <<alertIds, sinceTick, crashes>>,
           told' \in [Alerts -> Nat], sends' \in [Alerts -> Nat],
           DOMAIN alertRows' = Present, \A a \in Present : RowShape(alertRows'[a]),
           \A b \in Alerts \ {Current(w)} : Untouched(b) /\ SameDue(b),
           Hand(w)', OnTime(w)',
           NEW c \in Alerts, c = Current(w), Budget(c)',
           \A a \in InQueue(w) : a \notin InQueue(w)' => OnPlan(a)'
    PROVE  DeliveryInvariant'
<1>1. DeliveryTypes /\ Exclusive /\ Current(w) \in InQueue(w)
      /\ Current(w) \in alertIds /\ InQueue(w) \subseteq Alerts
  BY BusyWorker DEF DeliveryInvariant
<1>2. /\ DOMAIN couriers' = Workers
      /\ \A v \in Workers \ {w} : couriers'[v] = couriers[v]
  OBVIOUS
<1>3. \A v \in Workers \ {w} : InQueue(v)' = InQueue(v)
  BY <1>2 DEF InQueue
<1>4. DeliveryTypes'
  <2>1. \A v \in Workers : WorkerShape(couriers'[v]) /\ InQueue(v)' \subseteq alertIds'
    BY <1>1, <1>2, <1>3 DEF DeliveryTypes
  <2>2. ASSUME NEW a \in Alerts
        PROVE  LET v == <<"first", a>>
               IN  couriers'[v].at # "idle" => couriers'[v].queue = <<a>>
    <3>1. <<"first", a>> \in Firsts /\ <<"first", a>> \in Workers
      BY DEF Firsts, Workers
    <3>2. couriers[<<"first", a>>].at # "idle" => couriers[<<"first", a>>].queue = <<a>>
      BY <1>1 DEF DeliveryTypes
    <3> QED
      BY <1>2, <3>1, <3>2
  <2>3. Present' \subseteq alertIds' /\ \A a \in Present' : RowShape(alertRows'[a])
    BY <1>1 DEF DeliveryTypes, Present
  <2> QED
    BY <1>1, <1>2, <2>1, <2>2, <2>3 DEF DeliveryTypes
<1>5. Exclusive'
  BY <1>1, <1>3 DEF Exclusive
<1>6. ASSUME NEW v \in Workers PROVE Hand(v)' /\ OnTime(v)'
  <2>1. CASE v = w
    BY <2>1
  <2>2. CASE v # w
    <3>1. \A b \in InQueue(v) : b \in Alerts \ {Current(w)}
      <4>1. InQueue(v) \subseteq Alerts
        BY <1>1 DEF DeliveryTypes
      <4> QED
        BY <1>1, <2>2, <4>1 DEF Exclusive
    <3>2. Stays(v) /\ couriers'[v] = couriers[v]
      BY <1>2, <2>2 DEF Stays
    <3> QED
      BY <1>1, <3>1, <3>2, HandKept, OnTimeKept DEF DeliveryInvariant
  <2> QED
    BY <2>1, <2>2
<1>7. ASSUME NEW a \in Alerts, \A v \in Workers : a \notin InQueue(v)' PROVE OnPlan(a)'
  <2>1. CASE a \in InQueue(w)
    BY <1>3, <1>7, <2>1
  <2>2. CASE a \notin InQueue(w)
    <3>1. \A v \in Workers : a \notin InQueue(v)
      BY <1>3, <1>7, <2>2
    <3>2. a \in Alerts \ {Current(w)}
      BY <1>1, <2>2
    <3> QED
      BY <3>1, <3>2, KeptPlan DEF DeliveryInvariant
  <2> QED
    BY <2>1, <2>2
<1>8. ASSUME NEW a \in Alerts PROVE Budget(a)' /\ (a \notin alertIds' => Unraised(a)')
  <2>1. CASE a = Current(w)
    BY <1>1, <2>1
  <2>2. CASE a # Current(w)
    <3>1. told'[a] = told[a] /\ sends'[a] = sends[a]
      BY <2>2 DEF Untouched
    <3>2. Budget(a) /\ (a \notin alertIds => Unraised(a))
      BY DEF DeliveryInvariant
    <3>3. <<"first", a>> \in Workers
      BY DEF Firsts, Workers
    <3>4. a \notin alertIds => couriers'[<<"first", a>>].at = "idle"
      BY <1>2, <3>2, <3>3 DEF Unraised
    <3> QED
      BY <3>1, <3>2, <3>4 DEF Budget, Unraised
  <2> QED
    BY <2>1, <2>2
<1> QED
  BY <1>4, <1>5, <1>6, <1>7, <1>8 DEF DeliveryInvariant

LEMMA RoomLess ==
    ASSUME NEW n \in Nat, n >= 1
    PROVE  /\ Room(n) \in Nat /\ Room(n - 1) \in Nat
           /\ Room(n) = Room(n - 1) + 2 * SendMax
<1>1. SendMax \in Nat
  BY DeliveryAssumption
<1>2. 2 * SendMax * n = 2 * SendMax * (n - 1) + 2 * SendMax
  BY <1>1
<1>3. n - 1 \in Nat /\ (\A k \in Nat : 2 * SendMax * k \in Nat)
  BY <1>1
<1> QED
  BY <1>2, <1>3 DEF Room

\* A first delivery has one alert in its hands, and is no retry.
LEMMA FirstHasOne ==
    ASSUME DeliveryTypes, NEW w \in Firsts, couriers[w].at # "idle"
    PROVE  Len(couriers[w].queue) = 1 /\ Rest(w) = {} /\ w \notin Retries
<1>1. PICK a \in Alerts : w = <<"first", a>>
  BY DEF Firsts
<1>2. couriers[w].queue = <<a>>
  BY <1>1 DEF DeliveryTypes
<1>3. Len(<<a>>) = 1 /\ Head(<<a>>) = a /\ Range(<<a>>) = {a}
  BY DEF Range
<1>4. w \notin Retries
  BY <1>1 DEF Retries
<1> QED
  BY <1>2, <1>3, <1>4 DEF Rest, InQueue, Current

\* The worker is done with its alert, which is on its plan again.
LEMMA DoneWithAlert ==
    ASSUME DeliveryInvariant, NEW w \in Workers, couriers[w].at # "idle",
           couriers' = [couriers EXCEPT ![w] = After(w)],
           UNCHANGED <<alertIds, sinceTick, crashes, told, sends>>,
           DOMAIN alertRows' = Present, \A a \in Present : RowShape(alertRows'[a]),
           \A b \in Alerts \ {Current(w)} : Untouched(b) /\ SameDue(b),
           NEW c \in Alerts, c = Current(w), OnPlan(c)'
    PROVE  DeliveryInvariant'
<1>1. DeliveryTypes /\ Current(w) \in InQueue(w) /\ InQueue(w) \subseteq Alerts
      /\ InQueue(w) = {Current(w)} \cup Rest(w)
      /\ Current(w) \in Alerts
  BY BusyWorker DEF DeliveryInvariant
<1>2. /\ WorkerShape(After(w))
      /\ Range(After(w).queue) = Rest(w)
      /\ \/ After(w).at = "idle"
         \/ After(w).at = "read" /\ After(w).wait = 0
      /\ After(w).at # "idle" =>
            /\ Len(After(w).queue) = Len(couriers[w].queue) - 1
            /\ Len(couriers[w].queue) \in Nat
            /\ Len(couriers[w].queue) >= 2
            /\ Head(After(w).queue) \in Rest(w)
  BY <1>1, AfterLeaves
<1>3. /\ couriers'[w] = After(w)
      /\ DOMAIN couriers' = Workers
      /\ \A v \in Workers \ {w} : couriers'[v] = couriers[v]
      /\ InQueue(w)' = Range(After(w).queue)
  BY <1>1 DEF DeliveryTypes, InQueue
<1>4. \A a \in Rest(w) : a \in Alerts \ {Current(w)}
  BY <1>1 DEF Rest
<1>5. \A a \in Rest(w) : Fresh(a)'
  BY <1>4, KeptPlan DEF DeliveryInvariant, Hand
<1>6. w \in Firsts => After(w).at = "idle"
  BY <1>1, <1>2, FirstHasOne
<1>7. Hand(w)'
  <2>1. Rest(w)' \subseteq Rest(w)
    BY <1>2, <1>3 DEF Rest, InQueue
  <2>2. After(w).at # "idle" => Current(w)' \in Rest(w)
    BY <1>2, <1>3 DEF Current
  <2>3. After(w).at # "idle" => AtRead(w)'
    BY <1>2, <1>3, <1>5, <2>2 DEF AtRead
  <2> QED
    BY <1>2, <1>3, <1>5, <2>1, <2>3 DEF Hand
<1>8. OnTime(w)'
  <2>1. After(w).at # "idle" /\ w \in Retries
          => sinceTick + Room(Len(After(w).queue)) <= TickPeriod
    <3> SUFFICES ASSUME After(w).at # "idle", w \in Retries
                 PROVE  sinceTick + Room(Len(After(w).queue)) <= TickPeriod
      OBVIOUS
    <3> DEFINE n == Len(couriers[w].queue)
    <3>1. n \in Nat /\ n >= 1 /\ Len(After(w).queue) = n - 1
      BY <1>2
    <3>2. Room(n) \in Nat /\ Room(n - 1) \in Nat /\ Room(n) = Room(n - 1) + 2 * SendMax
      BY <3>1, RoomLess
    <3>3. /\ RunOnTime(w)
          /\ couriers[w].wait \in Nat /\ couriers[w].wait <= SendMax
          /\ couriers[w].at \in WorkerStages
          /\ sinceTick \in Nat
      BY <1>1 DEF DeliveryInvariant, OnTime, DeliveryTypes, WorkerShape
    <3>4. \/ sinceTick + Room(n) <= TickPeriod
          \/ sinceTick + Room(n) <= TickPeriod + couriers[w].wait
          \/ sinceTick + Room(n) <= TickPeriod + SendMax
          \/ sinceTick + Room(n) <= TickPeriod + SendMax + couriers[w].wait
      BY <3>3 DEF RunOnTime, WorkerStages
    <3> HIDE DEF n
    <3>5. sinceTick + Room(n - 1) <= TickPeriod
      BY <3>2, <3>3, <3>4, DeliveryAssumption
    <3> QED
      BY <3>1, <3>5
  <2>2. RunOnTime(w)' \/ w \notin Retries
    BY <1>2, <1>3, <2>1 DEF RunOnTime
  <2>3. w \in Firsts => FirstOnTime(w)'
    BY <1>3, <1>6 DEF FirstOnTime
  <2> QED
    BY <2>2, <2>3 DEF OnTime
<1>9. Budget(c)'
  BY <1>1 DEF DeliveryInvariant, Budget
<1>10. \A a \in InQueue(w) : a \notin InQueue(w)' => OnPlan(a)'
  BY <1>1, <1>2, <1>3
<1>11. told' \in [Alerts -> Nat] /\ sends' \in [Alerts -> Nat]
  BY <1>1 DEF DeliveryTypes
<1>12. InQueue(w)' \subseteq InQueue(w) /\ WorkerShape(couriers'[w])
  BY <1>1, <1>2, <1>3
<1>13. w \in Firsts => couriers'[w].at = "idle"
  BY <1>3, <1>6
<1> QED
  BY <1>3, <1>7, <1>8, <1>9, <1>10, <1>11, <1>12, <1>13, WorkerSteps

\* Rows that stay.
LEMMA RowsStay ==
    ASSUME DeliveryTypes, UNCHANGED alertRows
    PROVE  /\ DOMAIN alertRows' = Present
           /\ \A a \in Present : RowShape(alertRows'[a])
           /\ \A b : told'[b] = told[b] /\ sends'[b] = sends[b] => Untouched(b)
           /\ \A b : SameDue(b)
BY DEF DeliveryTypes, Untouched, SameDue, Present

LEMMA ReadKeeps ==
    ASSUME DeliveryInvariant, RunsFit, NEW w \in Workers, Read(w)
    PROVE  DeliveryInvariant'
<1>1. /\ DeliveryTypes /\ couriers[w].at = "read"
      /\ UNCHANGED <<alertRows, alertIds, sinceTick, crashes, told>>
      /\ DOMAIN couriers = Workers /\ WorkerShape(couriers[w])
  BY DEF Read, DeliveryInvariant, DeliveryTypes
<1>2. /\ Hand(w) /\ OnTime(w) /\ AtRead(w)
      /\ \A a \in Rest(w) : Fresh(a)
      /\ Current(w) \in InQueue(w) /\ InQueue(w) \subseteq Alerts
      /\ Current(w) \in Alerts
  BY <1>1, BusyWorker DEF DeliveryInvariant, Hand
<1> PICK a \in Alerts : a = Current(w)
  BY <1>2
<1>3. CASE a \notin Present
  <2>1. couriers' = [couriers EXCEPT ![w] = After(w)] /\ UNCHANGED sends
    BY <1>3 DEF Read
  <2>2. OnPlan(a)'
    BY <1>1, <1>3 DEF OnPlan, Present
  <2> QED
    BY <1>1, <2>1, <2>2, RowsStay, DoneWithAlert
<1>4. CASE a \in Present
  <2>1. PICK at \in {"store", "sending"}, verdict \in {"muted", Null} :
            /\ couriers' = [couriers EXCEPT ![w].at = at,
                                            ![w].read = alertRows[a].attempts,
                                            ![w].verdict = verdict]
            /\ at = "store" => verdict = "muted" /\ UNCHANGED sends
            /\ at = "sending" => sends' = [sends EXCEPT ![a] = @ + 1]
    BY <1>4 DEF Read
  <2> DEFINE next == [couriers[w] EXCEPT !.at = at, !.read = alertRows[a].attempts,
                                         !.verdict = verdict]
  <2>2. couriers' = [couriers EXCEPT ![w] = next]
    BY <1>1, <2>1
  <2>3. /\ DOMAIN next = DOMAIN couriers[w]
        /\ next.at = at /\ next.read = alertRows[a].attempts /\ next.verdict = verdict
        /\ next.queue = couriers[w].queue /\ next.wait = couriers[w].wait
        /\ next.age = couriers[w].age
    BY <1>1 DEF WorkerShape
  <2> HIDE DEF next
  <2>4. couriers'[w] = next
    BY <1>1, <2>2
  <2>5. RowShape(alertRows[a])
    BY <1>1, <1>4 DEF DeliveryTypes
  <2>6. WorkerShape(next)
    BY <1>1, <2>1, <2>3, <2>5 DEF WorkerShape, WorkerStages, Verdicts, RowShape
  <2>7. Current(w)' = a /\ Rest(w)' = Rest(w)
    BY <2>3, <2>4 DEF Current, Rest, InQueue
  <2>8. /\ sends' \in [Alerts -> Nat]
        /\ \A b \in Alerts \ {a} : sends'[b] = sends[b]
        /\ sends'[a] = sends[a] \/ sends'[a] = sends[a] + 1
    BY <1>1, <1>2, <2>1 DEF DeliveryTypes
  <2>9. \A b \in Alerts \ {a} : Untouched(b) /\ SameDue(b)
    BY <1>1, <2>8, RowsStay
  <2>10. /\ Fresh(a) /\ couriers[w].wait = 0
         /\ alertRows[a].due # Null /\ Chance(a)
         /\ alertRows[a].attempts \in Nat
         /\ sends[a] \in Nat /\ crashes \in Nat /\ told[a] \in Nat
    BY <1>1, <1>2, <1>4, <2>5 DEF AtRead, Fresh, DeliveryTypes, RowShape
  <2>11. /\ SentOnce(w)'
         /\ told'[a] <= crashes' /\ next.read < MaxAttempts
         /\ alertRows'[a].due # Null
    BY <1>1, <2>3, <2>4, <2>7, <2>8, <2>10 DEF SentOnce, Chance
  <2>12. \A b \in Rest(w)' : Fresh(b)'
    <3>1. \A b \in Rest(w) : b \in Alerts \ {a}
      BY <1>2 DEF Rest
    <3> QED
      BY <1>1, <1>2, <2>7, <2>9, <3>1, KeptPlan
  <2>13. AtStore(w)' \/ at # "store"
    BY <2>1, <2>3, <2>4, <2>7, <2>11 DEF AtStore
  <2>14. AtSending(w)'
    BY <2>4, <2>7, <2>11 DEF AtSending
  <2>15. Hand(w)'
    BY <2>1, <2>3, <2>4, <2>12, <2>13, <2>14 DEF Hand
  <2>16. OnTime(w)'
    <3>1. w \in Retries => RunOnTime(w)'
      <4>1. sinceTick + Room(Len(couriers[w].queue)) <= TickPeriod \/ w \notin Retries
        BY <1>1, <1>2 DEF OnTime, RunOnTime
      <4>2. /\ Len(couriers[w].queue) \in Nat /\ Len(couriers[w].queue) >= 1
        BY <1>1, TailOfQueue DEF WorkerShape
      <4>3. Room(Len(couriers[w].queue)) \in Nat /\ sinceTick \in Nat
        BY <1>1, <4>2, RoomLess DEF DeliveryTypes
      <4> DEFINE room == Room(Len(couriers[w].queue))
      <4> HIDE DEF room
      <4>4. w \in Retries => /\ sinceTick + room <= TickPeriod + couriers[w].wait
                             /\ sinceTick + room <= TickPeriod + SendMax
        BY <2>10, <4>1, <4>3, DeliveryAssumption DEF room
      <4> QED
        BY <1>1, <2>1, <2>3, <2>4, <4>4 DEF RunOnTime, room
    <3>2. w \in Firsts => FirstOnTime(w)'
      <4> SUFFICES ASSUME w \in Firsts PROVE FirstOnTime(w)'
        OBVIOUS
      <4>1. couriers[w].age = 0 /\ alertRows[a].due > SendMax
        BY <1>1, <1>2, <1>4, <2>10 DEF OnTime, FirstOnTime
      <4>2. /\ couriers[w].age <= SendMax /\ couriers[w].age <= couriers[w].wait
            /\ alertRows[a].due > 0 /\ alertRows[a].due + couriers[w].wait > SendMax
        BY <2>5, <2>10, <4>1, DeliveryAssumption DEF RowShape
      <4> QED
        BY <1>1, <2>1, <2>3, <2>4, <2>7, <4>2 DEF FirstOnTime
    <3> QED
      BY <3>1, <3>2 DEF OnTime
  <2>17. Budget(a)'
    <3>1. Budget(a)
      BY <1>2 DEF DeliveryInvariant
    <3>2. sends'[a] <= MaxAttempts + crashes
      BY <2>8, <2>10, DeliveryAssumption DEF Chance
    <3> QED
      BY <1>1, <3>1, <3>2 DEF Budget
  <2>18. /\ DOMAIN couriers' = Workers
         /\ \A v \in Workers \ {w} : couriers'[v] = couriers[v]
         /\ couriers'[w].queue = couriers[w].queue
         /\ InQueue(w)' = InQueue(w)
         /\ WorkerShape(couriers'[w])
    BY <1>1, <2>2, <2>3, <2>4, <2>6 DEF InQueue
  <2>19. told' \in [Alerts -> Nat]
    BY <1>1 DEF DeliveryTypes
  <2>20. DOMAIN alertRows' = Present /\ \A b \in Present : RowShape(alertRows'[b])
    BY <1>1, RowsStay
  <2> QED
    BY <1>1, <2>8, <2>9, <2>15, <2>16, <2>17, <2>18, <2>19, <2>20, WorkerSteps
<1> QED
  BY <1>3, <1>4

\* A worker goes on to its next stage with the same alerts in its hands.
LEMMA StageSteps ==
    ASSUME DeliveryInvariant, NEW w \in Workers, couriers[w].at # "idle",
           DOMAIN couriers' = Workers,
           \A v \in Workers \ {w} : couriers'[v] = couriers[v],
           WorkerShape(couriers'[w]), couriers'[w].queue = couriers[w].queue,
           UNCHANGED <<alertIds, sinceTick, crashes>>,
           told' \in [Alerts -> Nat], sends' \in [Alerts -> Nat],
           DOMAIN alertRows' = Present, \A a \in Present : RowShape(alertRows'[a]),
           NEW c \in Alerts, c = Current(w),
           \A b \in Alerts \ {c} : Untouched(b) /\ SameDue(b),
           couriers'[w].at \in {"store", "count", "farewell"},
           couriers'[w].at = "store" => AtStore(w)',
           couriers'[w].at = "count" => AtCount(w)',
           couriers'[w].at = "farewell" => AtFarewell(w)',
           OnTime(w)', Budget(c)'
    PROVE  DeliveryInvariant'
<1>1. DeliveryTypes /\ Hand(w) /\ InQueue(w) \subseteq Alerts
  BY BusyWorker DEF DeliveryInvariant
<1>2. InQueue(w)' = InQueue(w) /\ Current(w)' = c /\ Rest(w)' = Rest(w)
  BY DEF InQueue, Current, Rest
<1>3. \A b \in Rest(w) : b \in Alerts \ {c} /\ Fresh(b)
  BY <1>1 DEF Rest, Hand
<1>4. \A b \in Rest(w) : Fresh(b)'
  BY <1>3, KeptPlan
<1>5. Hand(w)'
  BY <1>2, <1>4 DEF Hand
<1> QED
  BY <1>2, <1>5, WorkerSteps

\* What a busy worker counts with.
LEMMA WorkerNumbers ==
    ASSUME DeliveryInvariant, NEW w \in Workers, couriers[w].at # "idle"
    PROVE  /\ Room(Len(couriers[w].queue)) \in Nat
           /\ sinceTick \in Nat /\ TickPeriod \in Nat /\ SendMax \in Nat
           /\ couriers[w].wait \in Nat /\ couriers[w].wait <= SendMax
           /\ couriers[w].age \in Nat /\ couriers[w].read \in Nat
           /\ crashes \in Nat /\ MaxAttempts \in Nat
           /\ \A a \in Alerts : told[a] \in Nat /\ sends[a] \in Nat
           /\ DOMAIN couriers = Workers
           /\ WorkerShape(couriers[w])
<1>1. WorkerShape(couriers[w]) /\ DOMAIN couriers = Workers
      /\ sinceTick \in Nat /\ crashes \in Nat
      /\ \A a \in Alerts : told[a] \in Nat /\ sends[a] \in Nat
  BY DEF DeliveryInvariant, DeliveryTypes
<1>2. /\ Len(couriers[w].queue) \in Nat /\ Len(couriers[w].queue) >= 1
  BY <1>1, TailOfQueue DEF WorkerShape
<1>3. Room(Len(couriers[w].queue)) \in Nat
  BY <1>2, RoomLess
<1> QED
  BY <1>1, <1>3, DeliveryAssumption DEF WorkerShape

\* The POST is over: a copy arrived, or it is known that none did.
LEMMA SendKeeps ==
    ASSUME DeliveryInvariant, NEW w \in Workers, Answered(w) \/ Unanswered(w)
    PROVE  DeliveryInvariant'
<1>1. couriers[w].at = "sending" /\ UNCHANGED <<alertRows, alertIds, sinceTick, sends, crashes>>
  BY DEF Answered, Unanswered
<1>2. /\ DeliveryTypes /\ Hand(w) /\ OnTime(w) /\ AtSending(w)
      /\ Current(w) \in Alerts
  BY <1>1, BusyWorker DEF DeliveryInvariant, Hand
<1> PICK c \in Alerts : c = Current(w)
  BY <1>2
<1>3. /\ Room(Len(couriers[w].queue)) \in Nat
      /\ sinceTick \in Nat /\ TickPeriod \in Nat /\ SendMax \in Nat
      /\ couriers[w].wait \in Nat /\ couriers[w].wait <= SendMax
      /\ couriers[w].age \in Nat /\ couriers[w].read \in Nat
      /\ crashes \in Nat /\ MaxAttempts \in Nat
      /\ \A a \in Alerts : told[a] \in Nat /\ sends[a] \in Nat
      /\ DOMAIN couriers = Workers
      /\ WorkerShape(couriers[w])
  BY <1>1, WorkerNumbers
<1>4. PICK verdict \in {"sent", "failed", "gave_up"} :
          /\ couriers' = [couriers EXCEPT ![w].at = "store", ![w].verdict = verdict,
                                          ![w].wait = 0]
          /\ verdict = "failed" => couriers[w].read + 1 < MaxAttempts
          /\ verdict = "sent" => told' = [told EXCEPT ![c] = @ + 1]
          /\ verdict # "sent" => told' = told
  <2>1. CASE Answered(w)
    <3>1. /\ couriers' = [couriers EXCEPT ![w].at = "store", ![w].verdict = "sent",
                                          ![w].wait = 0]
          /\ told' = [told EXCEPT ![c] = @ + 1]
      BY <2>1 DEF Answered
    <3> QED
      BY <3>1
  <2>2. CASE Unanswered(w)
    <3>1. PICK verdict \in {"failed", "gave_up"} :
              /\ couriers' = [couriers EXCEPT ![w].at = "store", ![w].wait = 0,
                                              ![w].verdict = verdict]
              /\ verdict = "failed" => ~(couriers[w].read + 1 >= MaxAttempts)
              /\ told' = told
      BY <2>2 DEF Unanswered
    <3>2. verdict = "failed" => couriers[w].read + 1 < MaxAttempts
      BY <1>3, <3>1
    <3>3. couriers' = [couriers EXCEPT ![w].at = "store", ![w].verdict = verdict,
                                       ![w].wait = 0]
      BY <1>3, <3>1 DEF WorkerShape
    <3> QED
      BY <3>1, <3>2, <3>3
  <2> QED
    BY <2>1, <2>2
<1> DEFINE next == [couriers[w] EXCEPT !.at = "store", !.verdict = verdict, !.wait = 0]
<1>5. couriers' = [couriers EXCEPT ![w] = next]
  BY <1>3, <1>4
<1>6. /\ DOMAIN next = DOMAIN couriers[w]
      /\ next.at = "store" /\ next.verdict = verdict /\ next.wait = 0
      /\ next.queue = couriers[w].queue /\ next.read = couriers[w].read
      /\ next.age = couriers[w].age
  BY <1>3 DEF WorkerShape
<1> HIDE DEF next
<1>7. /\ couriers'[w] = next
      /\ DOMAIN couriers' = Workers
      /\ \A v \in Workers \ {w} : couriers'[v] = couriers[v]
      /\ Current(w)' = c
  BY <1>3, <1>5, <1>6 DEF Current
<1>8. WorkerShape(next)
  BY <1>1, <1>3, <1>4, <1>6 DEF WorkerShape, WorkerStages, Verdicts
<1>9. /\ told' \in [Alerts -> Nat] /\ sends' \in [Alerts -> Nat]
      /\ \A b \in Alerts \ {c} : told'[b] = told[b]
      /\ verdict # "sent" => told'[c] = told[c]
      /\ verdict = "sent" => told'[c] = told[c] + 1
  BY <1>1, <1>2, <1>4 DEF DeliveryTypes
<1>10. AtStore(w)'
  <2>1. SentOnce(w) => SentOnce(w)'
    BY <1>1, <1>6, <1>7 DEF SentOnce
  <2> QED
    BY <1>1, <1>2, <1>4, <1>6, <1>7, <1>9, <2>1 DEF AtStore, AtSending, Present
<1>11. Budget(c)'
  <2>1. Budget(c) /\ told[c] <= crashes
    BY <1>2 DEF DeliveryInvariant, AtSending
  <2>2. told'[c] <= 1 + crashes
    BY <1>3, <1>9, <2>1
  <2> QED
    BY <1>1, <2>1, <2>2 DEF Budget
<1>12. OnTime(w)'
  <2>1. w \in Retries => RunOnTime(w)'
    <3> DEFINE room == Room(Len(couriers[w].queue))
    <3>1. w \in Retries => sinceTick + room <= TickPeriod + couriers[w].wait
      BY <1>1, <1>2 DEF OnTime, RunOnTime
    <3>2. room \in Nat
      BY <1>3
    <3> HIDE DEF room
    <3>3. w \in Retries => sinceTick + room <= TickPeriod + SendMax
      BY <1>3, <3>1, <3>2
    <3> QED
      BY <1>1, <1>6, <1>7, <3>3 DEF RunOnTime, room
  <2>2. w \in Firsts => FirstOnTime(w)'
    <3> SUFFICES ASSUME w \in Firsts PROVE FirstOnTime(w)'
      OBVIOUS
    <3>1. /\ couriers[w].age <= couriers[w].wait
          /\ c \in Present /\ alertRows[c].due # Null
                => alertRows[c].due + couriers[w].wait > SendMax
      BY <1>1, <1>2 DEF OnTime, FirstOnTime
    <3>2. c \in Present /\ alertRows[c].due # Null => alertRows[c].due \in Nat
      BY <1>2 DEF DeliveryTypes, RowShape
    <3>3. /\ couriers[w].age <= SendMax
          /\ c \in Present /\ alertRows[c].due # Null => alertRows[c].due > 0
      BY <1>3, <3>1, <3>2
    <3> QED
      BY <1>1, <1>6, <1>7, <3>3 DEF FirstOnTime, Present
  <2> QED
    BY <2>1, <2>2 DEF OnTime
<1>13. /\ DOMAIN alertRows' = Present /\ \A b \in Present : RowShape(alertRows'[b])
       /\ \A b \in Alerts \ {c} : Untouched(b) /\ SameDue(b)
  BY <1>1, <1>2, <1>9, RowsStay
<1>14. WorkerShape(couriers'[w]) /\ couriers'[w].queue = couriers[w].queue
       /\ couriers'[w].at = "store"
  BY <1>6, <1>7, <1>8
<1> QED
  BY <1>1, <1>7, <1>9, <1>10, <1>11, <1>12, <1>13, <1>14, StageSteps

\* A step that writes the row of one alert.
LEMMA RowWritten ==
    ASSUME DeliveryTypes, NEW c \in Alerts, NEW row, c \in Present => RowShape(row),
           alertRows' = [a \in Present |-> IF a = c THEN row ELSE alertRows[a]],
           UNCHANGED <<told, sends>>
    PROVE  /\ Present' = Present /\ DOMAIN alertRows' = Present
           /\ c \in Present => alertRows'[c] = row
           /\ \A a \in Present : RowShape(alertRows'[a])
           /\ \A b \in Alerts \ {c} : Untouched(b) /\ SameDue(b)
<1>1. DOMAIN alertRows' = Present /\ Present' = Present
  BY DEF Present
<1>2. \A a \in Present : alertRows'[a] = IF a = c THEN row ELSE alertRows[a]
  OBVIOUS
<1>3. \A a \in Present : RowShape(alertRows'[a])
  BY <1>2 DEF DeliveryTypes
<1>4. \A b \in Alerts \ {c} : Untouched(b) /\ SameDue(b)
  BY <1>1, <1>2 DEF Untouched, SameDue
<1> QED
  BY <1>1, <1>2, <1>3, <1>4

\* The row an outcome leaves behind: it is due again only when the attempt
\* failed or was muted and is not the last, and not before the worker is gone.
LEMMA OutcomeRow ==
    ASSUME NEW row, RowShape(row), NEW worker, WorkerShape(worker),
           worker.verdict \in Verdicts
    PROVE  /\ RowShape(Outcome(row, worker))
           /\ Outcome(row, worker).attempts = row.attempts
           /\ Outcome(row, worker).due # Null =>
                 /\ worker.verdict \in {"failed", "muted"}
                 /\ worker.read + 1 < MaxAttempts
                 /\ worker.age < RetryInterval => Outcome(row, worker).due > 0
<1> DEFINE due == IF worker.verdict \in {"sent", "gave_up"} THEN Null
                  ELSE Later(NextRetry(worker.read + 1), worker.age)
<1>1. /\ DOMAIN row = {"status", "attempts", "due", "acked"}
      /\ row.attempts \in Nat
  BY DEF RowShape
<1>2. Outcome(row, worker) = [row EXCEPT !.status = worker.verdict, !.due = due]
  BY DEF Outcome
<1> HIDE DEF due
<1>3. /\ DOMAIN Outcome(row, worker) = {"status", "attempts", "due", "acked"}
      /\ Outcome(row, worker).attempts = row.attempts
      /\ Outcome(row, worker).due = due
  BY <1>1, <1>2
<1>4. /\ worker.age \in Nat /\ worker.read \in Nat
      /\ MaxAttempts \in Nat /\ RetryInterval \in Nat
  BY DeliveryAssumption DEF WorkerShape
<1>5. CASE worker.verdict \in {"sent", "gave_up"}
  <2>1. due = Null
    BY <1>5 DEF due
  <2> QED
    BY <1>1, <1>3, <2>1 DEF RowShape
<1>6. CASE worker.verdict \notin {"sent", "gave_up"}
  <2>1. due = Later(NextRetry(worker.read + 1), worker.age)
        /\ worker.verdict \in {"failed", "muted"}
    BY <1>6 DEF due, Verdicts
  <2>2. CASE worker.read + 1 >= MaxAttempts
    <3>1. due = Null
      BY <2>1, <2>2 DEF Later, NextRetry
    <3> QED
      BY <1>1, <1>3, <3>1 DEF RowShape
  <2>3. CASE ~(worker.read + 1 >= MaxAttempts)
    <3>1. due = Later(RetryInterval, worker.age) /\ worker.read + 1 < MaxAttempts
      BY <1>4, <2>1, <2>3 DEF NextRetry
    <3>2. RetryInterval # Null
      BY <1>4, NullAssumption
    <3>3. RetryInterval > worker.age => due = RetryInterval - worker.age
      BY <3>1, <3>2 DEF Later
    <3>4. ~(RetryInterval > worker.age) => due = 0
      BY <3>1, <3>2 DEF Later
    <3>5. due \in Nat /\ (worker.age < RetryInterval => due > 0)
      BY <1>4, <3>3, <3>4
    <3> QED
      BY <1>1, <1>3, <2>1, <3>1, <3>5 DEF RowShape
  <2> QED
    BY <2>2, <2>3
<1> QED
  BY <1>5, <1>6

LEMMA StoreKeeps ==
    ASSUME DeliveryInvariant, RunsFit, NEW w \in Workers, Store(w)
    PROVE  DeliveryInvariant'
<1>1. /\ couriers[w].at = "store"
      /\ UNCHANGED <<alertIds, sinceTick, sends, told, crashes>>
  BY DEF Store
<1>2. /\ DeliveryTypes /\ Hand(w) /\ OnTime(w) /\ AtStore(w)
      /\ Current(w) \in Alerts
  BY <1>1, BusyWorker DEF DeliveryInvariant, Hand
<1> PICK c \in Alerts : c = Current(w)
  BY <1>2
<1>3. /\ couriers[w].age \in Nat /\ SendMax \in Nat /\ RetryInterval \in Nat
      /\ sinceTick \in Nat
      /\ DOMAIN couriers = Workers
      /\ WorkerShape(couriers[w])
  BY <1>1, WorkerNumbers, DeliveryAssumption
<1> DEFINE next == [couriers[w] EXCEPT !.at = "count"]
           row == Outcome(alertRows[c], couriers[w])
<1>4. /\ couriers' = [couriers EXCEPT ![w] = next]
      /\ alertRows' = [a \in Present |-> IF a = c THEN row ELSE alertRows[a]]
  <2>1. alertRows' = [a \in Present |-> IF a = Current(w)
                        THEN Outcome(alertRows[a], couriers[w]) ELSE alertRows[a]]
    BY DEF Store
  <2> QED
    BY <2>1 DEF Store
<1>5. /\ DOMAIN next = DOMAIN couriers[w]
      /\ next.at = "count" /\ next.verdict = couriers[w].verdict
      /\ next.queue = couriers[w].queue /\ next.read = couriers[w].read
      /\ next.age = couriers[w].age /\ next.wait = couriers[w].wait
  BY <1>3 DEF WorkerShape
<1>6. couriers[w].verdict \in Verdicts
  BY <1>1, <1>3 DEF WorkerShape
<1>7. c \in Present =>
        /\ RowShape(row)
        /\ row.attempts = alertRows[c].attempts
        /\ row.due # Null =>
              /\ couriers[w].verdict \in {"failed", "muted"}
              /\ couriers[w].read + 1 < MaxAttempts
              /\ couriers[w].age < RetryInterval => row.due > 0
  BY <1>2, <1>3, <1>6, OutcomeRow DEF DeliveryTypes
<1> HIDE DEF next, row
<1>8. /\ couriers'[w] = next
      /\ DOMAIN couriers' = Workers
      /\ \A v \in Workers \ {w} : couriers'[v] = couriers[v]
      /\ Current(w)' = c
  BY <1>3, <1>4, <1>5 DEF Current
<1>9. WorkerShape(next)
  BY <1>1, <1>3, <1>5 DEF WorkerShape, WorkerStages
<1>10. /\ Present' = Present /\ DOMAIN alertRows' = Present
       /\ c \in Present => alertRows'[c] = row
       /\ \A a \in Present : RowShape(alertRows'[a])
       /\ \A b \in Alerts \ {c} : Untouched(b) /\ SameDue(b)
  BY <1>1, <1>2, <1>4, <1>7, RowWritten
<1>11. AtCount(w)'
  <2>1. c \in Present => SentOnce(w)'
    BY <1>1, <1>2, <1>5, <1>7, <1>8, <1>10 DEF AtStore, SentOnce
  <2>2. c \in Present /\ row.due # Null =>
          /\ couriers[w].read + 1 < MaxAttempts
          /\ couriers[w].verdict # "gave_up"
          /\ told[c] <= crashes
    BY <1>2, <1>7 DEF AtStore
  <2> QED
    BY <1>1, <1>5, <1>8, <1>10, <2>1, <2>2 DEF AtCount
<1>12. OnTime(w)'
  <2>1. w \in Retries => RunOnTime(w)'
    BY <1>1, <1>2, <1>5, <1>8 DEF OnTime, RunOnTime
  <2>2. w \in Firsts => FirstOnTime(w)'
    <3> SUFFICES ASSUME w \in Firsts PROVE FirstOnTime(w)'
      OBVIOUS
    <3>1. couriers[w].age < RetryInterval
      BY <1>1, <1>2, <1>3 DEF OnTime, FirstOnTime, RunsFit
    <3> QED
      BY <1>5, <1>7, <1>8, <1>10, <3>1 DEF FirstOnTime
  <2> QED
    BY <2>1, <2>2 DEF OnTime
<1>13. Budget(c)'
  BY <1>1 DEF DeliveryInvariant, Budget
<1>14. told' \in [Alerts -> Nat] /\ sends' \in [Alerts -> Nat]
  BY <1>1, <1>2 DEF DeliveryTypes
<1>15. WorkerShape(couriers'[w]) /\ couriers'[w].queue = couriers[w].queue
       /\ couriers'[w].at = "count"
  BY <1>5, <1>8, <1>9
<1> QED
  BY <1>1, <1>8, <1>10, <1>11, <1>12, <1>13, <1>14, <1>15, StageSteps

LEMMA CountKeeps ==
    ASSUME DeliveryInvariant, NEW w \in Workers, Count(w)
    PROVE  DeliveryInvariant'
<1>1. /\ couriers[w].at = "count"
      /\ UNCHANGED <<alertIds, sinceTick, sends, told, crashes>>
  BY DEF Count
<1>2. /\ DeliveryTypes /\ Hand(w) /\ OnTime(w) /\ AtCount(w)
      /\ Current(w) \in Alerts
  BY <1>1, BusyWorker DEF DeliveryInvariant, Hand
<1> PICK c \in Alerts : c = Current(w)
  BY <1>2
<1>3. /\ Room(Len(couriers[w].queue)) \in Nat
      /\ sinceTick \in Nat /\ TickPeriod \in Nat /\ SendMax \in Nat
      /\ couriers[w].wait \in Nat
      /\ couriers[w].read \in Nat /\ crashes \in Nat /\ MaxAttempts \in Nat
      /\ DOMAIN couriers = Workers
      /\ WorkerShape(couriers[w])
  BY <1>1, WorkerNumbers
<1> DEFINE row == Counted(alertRows[c], couriers[w])
<1>4. /\ alertRows' = [a \in Present |-> IF a = c THEN row ELSE alertRows[a]]
      /\ couriers[w].verdict = "gave_up"
            => couriers' = [couriers EXCEPT ![w].at = "farewell"]
      /\ couriers[w].verdict # "gave_up"
            => couriers' = [couriers EXCEPT ![w] = After(w)]
  <2>1. alertRows' = [a \in Present |-> IF a = Current(w)
                        THEN Counted(alertRows[a], couriers[w]) ELSE alertRows[a]]
    BY DEF Count
  <2> QED
    BY <2>1 DEF Count
<1>5. c \in Present =>
        /\ RowShape(row)
        /\ row.attempts = alertRows[c].attempts + 1
        /\ row.due = alertRows[c].due
  <2> SUFFICES ASSUME c \in Present
               PROVE  /\ RowShape(row)
                      /\ row.attempts = alertRows[c].attempts + 1
                      /\ row.due = alertRows[c].due
    OBVIOUS
  <2>1. RowShape(alertRows[c])
    BY <1>2 DEF DeliveryTypes
  <2>2. /\ DOMAIN row = {"status", "attempts", "due", "acked"}
        /\ row.attempts = alertRows[c].attempts + 1
        /\ row.due = alertRows[c].due
    BY <2>1 DEF Counted, RowShape
  <2>3. row.attempts \in Nat
    BY <2>1, <2>2 DEF RowShape
  <2> QED
    BY <2>1, <2>2, <2>3 DEF RowShape
<1> HIDE DEF row
<1>6. /\ Present' = Present /\ DOMAIN alertRows' = Present
      /\ c \in Present => alertRows'[c] = row
      /\ \A a \in Present : RowShape(alertRows'[a])
      /\ \A b \in Alerts \ {c} : Untouched(b) /\ SameDue(b)
  BY <1>1, <1>2, <1>4, <1>5, RowWritten
<1>7. CASE couriers[w].verdict = "gave_up"
  <2> DEFINE next == [couriers[w] EXCEPT !.at = "farewell"]
  <2>1. couriers' = [couriers EXCEPT ![w] = next]
    BY <1>4, <1>7
  <2>2. /\ DOMAIN next = DOMAIN couriers[w]
        /\ next.at = "farewell" /\ next.verdict = couriers[w].verdict
        /\ next.queue = couriers[w].queue /\ next.read = couriers[w].read
        /\ next.age = couriers[w].age /\ next.wait = couriers[w].wait
    BY <1>3 DEF WorkerShape
  <2> HIDE DEF next
  <2>3. /\ couriers'[w] = next
        /\ DOMAIN couriers' = Workers
        /\ \A v \in Workers \ {w} : couriers'[v] = couriers[v]
        /\ Current(w)' = c
    BY <1>3, <2>1, <2>2 DEF Current
  <2>4. WorkerShape(next)
    BY <1>1, <1>3, <2>2 DEF WorkerShape, WorkerStages
  <2>5. AtFarewell(w)'
    BY <1>2, <1>5, <1>6, <1>7, <2>3 DEF AtFarewell, AtCount
  <2>6. OnTime(w)'
    <3> DEFINE room == Room(Len(couriers[w].queue))
    <3>1. w \in Retries => sinceTick + room <= TickPeriod + SendMax
      BY <1>1, <1>2 DEF OnTime, RunOnTime
    <3>2. room \in Nat
      BY <1>3
    <3> HIDE DEF room
    <3>3. w \in Retries => sinceTick + room <= TickPeriod + SendMax + couriers[w].wait
      BY <1>3, <3>1, <3>2
    <3>4. w \in Retries => RunOnTime(w)'
      BY <1>1, <2>2, <2>3, <3>3 DEF RunOnTime, room
    <3>5. w \in Firsts => FirstOnTime(w)'
      BY <2>2, <2>3 DEF FirstOnTime
    <3> QED
      BY <3>4, <3>5 DEF OnTime
  <2>7. Budget(c)'
    BY <1>1 DEF DeliveryInvariant, Budget
  <2>8. told' \in [Alerts -> Nat] /\ sends' \in [Alerts -> Nat]
    BY <1>1, <1>2 DEF DeliveryTypes
  <2>9. WorkerShape(couriers'[w]) /\ couriers'[w].queue = couriers[w].queue
        /\ couriers'[w].at = "farewell"
    BY <2>2, <2>3, <2>4
  <2> QED
    BY <1>1, <1>6, <2>3, <2>5, <2>6, <2>7, <2>8, <2>9, StageSteps
<1>8. CASE couriers[w].verdict # "gave_up"
  <2>1. OnPlan(c)'
    <3> SUFFICES ASSUME c \in Present, alertRows[c].due # Null
                 PROVE  Chance(c)'
      BY <1>5, <1>6 DEF OnPlan
    <3>1. /\ alertRows[c].attempts = couriers[w].read
          /\ sends[c] <= couriers[w].read + 1 + crashes
          /\ couriers[w].read + 1 < MaxAttempts
          /\ told[c] <= crashes
      BY <1>2 DEF AtCount, SentOnce
    <3>2. alertRows'[c].attempts = couriers[w].read + 1
      BY <1>5, <1>6, <3>1
    <3> QED
      BY <1>1, <1>3, <3>1, <3>2 DEF Chance
  <2> QED
    BY <1>1, <1>4, <1>6, <1>8, <2>1, DoneWithAlert
<1> QED
  BY <1>7, <1>8

LEMMA FarewellKeeps ==
    ASSUME DeliveryInvariant, NEW w \in Workers, Farewell(w)
    PROVE  DeliveryInvariant'
<1>1. /\ couriers[w].at = "farewell"
      /\ couriers' = [couriers EXCEPT ![w] = After(w)]
      /\ UNCHANGED <<alertRows, alertIds, sinceTick, sends, told, crashes>>
  BY DEF Farewell
<1>2. DeliveryTypes /\ AtFarewell(w) /\ Current(w) \in Alerts
  BY <1>1, BusyWorker DEF DeliveryInvariant, Hand
<1> PICK c \in Alerts : c = Current(w)
  BY <1>2
<1>3. OnPlan(c)'
  BY <1>1, <1>2 DEF OnPlan, AtFarewell, Present
<1>4. /\ DOMAIN alertRows' = Present /\ \A b \in Present : RowShape(alertRows'[b])
      /\ \A b \in Alerts \ {c} : Untouched(b) /\ SameDue(b)
  BY <1>1, <1>2, RowsStay
<1> QED
  BY <1>1, <1>3, <1>4, DoneWithAlert

\* A step that leaves the workers alone, and of the rows their schedule.
LEMMA TableSteps ==
    ASSUME DeliveryInvariant,
           UNCHANGED <<couriers, alertIds, sinceTick, told, sends, crashes>>,
           Present' \subseteq Present, \A a \in Present' : RowShape(alertRows'[a]),
           \A a \in Present' : /\ alertRows'[a].attempts = alertRows[a].attempts
                               /\ alertRows'[a].due = alertRows[a].due
    PROVE  DeliveryInvariant'
<1>1. DeliveryTypes
  BY DEF DeliveryInvariant
<1>2. \A b : Untouched(b) /\ SameDue(b)
  BY DEF Untouched, SameDue
<1>3. \A w \in Workers : InQueue(w)' = InQueue(w)
  BY DEF InQueue
<1>4. DeliveryTypes'
  BY <1>1, <1>3 DEF DeliveryTypes
<1>5. Exclusive'
  BY <1>3 DEF DeliveryInvariant, Exclusive
<1>6. \A w \in Workers : Hand(w)' /\ OnTime(w)'
  <2> TAKE w \in Workers
  <2>1. Hand(w) /\ OnTime(w)
    BY DEF DeliveryInvariant
  <2>2. Stays(w)
    BY DEF Stays
  <2> QED
    BY <1>1, <1>2, <2>1, <2>2, HandKept, OnTimeKept
<1>7. \A a \in Alerts : (\A w \in Workers : a \notin InQueue(w)') => OnPlan(a)'
  BY <1>2, <1>3, KeptPlan DEF DeliveryInvariant
<1>8. \A a \in Alerts : Budget(a)' /\ (a \notin alertIds' => Unraised(a)')
  BY DEF DeliveryInvariant, Budget, Unraised
<1> QED
  BY <1>4, <1>5, <1>6, <1>7, <1>8 DEF DeliveryInvariant

\* Marking a row as seen changes nothing else of it.
LEMMA AckedRow ==
    ASSUME NEW row, RowShape(row)
    PROVE  /\ RowShape([row EXCEPT !.acked = TRUE])
           /\ [row EXCEPT !.acked = TRUE].attempts = row.attempts
           /\ [row EXCEPT !.acked = TRUE].due = row.due
BY DEF RowShape

LEMMA OperatorKeeps ==
    ASSUME DeliveryInvariant,
           \/ \E a \in Alerts : Acknowledge(a) \/ ReceiveTap(a)
           \/ AcknowledgeAll \/ ToggleMute \/ PruneAlerts
           \/ UNCHANGED deliveryVars
    PROVE  DeliveryInvariant'
<1>1. \A a \in Present : RowShape(alertRows[a])
  BY DEF DeliveryInvariant, DeliveryTypes
<1>2. CASE \E a \in Alerts : Acknowledge(a) \/ ReceiveTap(a)
  <2> PICK a \in Alerts : Acknowledge(a) \/ ReceiveTap(a)
    BY <1>2
  <2>1. /\ a \in Present
        /\ alertRows' = [alertRows EXCEPT ![a] = [alertRows[a] EXCEPT !.acked = TRUE]]
        /\ UNCHANGED <<couriers, alertIds, sinceTick, told, sends, crashes>>
    BY DEF Acknowledge, ReceiveTap, Seen
  <2> DEFINE row == [alertRows[a] EXCEPT !.acked = TRUE]
  <2>2. RowShape(row) /\ row.attempts = alertRows[a].attempts /\ row.due = alertRows[a].due
    BY <1>1, <2>1, AckedRow
  <2>3. alertRows' = [alertRows EXCEPT ![a] = row]
    BY <2>1
  <2> HIDE DEF row
  <2>4. /\ Present' = Present
        /\ alertRows'[a] = row /\ \A b \in Present \ {a} : alertRows'[b] = alertRows[b]
    BY <2>1, <2>3 DEF Present
  <2> QED
    BY <1>1, <2>1, <2>2, <2>4, TableSteps
<1>3. CASE AcknowledgeAll
  <2>1. /\ Present' = Present
        /\ \A b \in Present : alertRows'[b] = [alertRows[b] EXCEPT !.acked = TRUE]
    BY <1>3 DEF AcknowledgeAll, Present
  <2>2. UNCHANGED <<couriers, alertIds, sinceTick, told, sends, crashes>>
    BY <1>3 DEF AcknowledgeAll
  <2>3. \A b \in Present :
          /\ RowShape(alertRows'[b])
          /\ alertRows'[b].attempts = alertRows[b].attempts
          /\ alertRows'[b].due = alertRows[b].due
    BY <1>1, <2>1, AckedRow
  <2> QED
    BY <2>1, <2>2, <2>3, TableSteps
<1>4. CASE ToggleMute \/ UNCHANGED deliveryVars
  <2>1. UNCHANGED <<alertRows, couriers, alertIds, sinceTick, told, sends, crashes>>
    BY <1>4 DEF ToggleMute, deliveryVars
  <2> QED
    BY <1>1, <2>1, TableSteps DEF Present
<1>5. CASE PruneAlerts
  <2>1. PICK old : alertRows' = [a \in Present \ old |-> alertRows[a]]
    BY <1>5 DEF PruneAlerts
  <2>2. Present' = Present \ old /\ \A a \in Present' : alertRows'[a] = alertRows[a]
    BY <2>1 DEF Present
  <2>3. UNCHANGED <<couriers, alertIds, sinceTick, told, sends, crashes>>
    BY <1>5 DEF PruneAlerts
  <2> QED
    BY <1>1, <2>2, <2>3, TableSteps
<1> QED
  BY <1>2, <1>3, <1>4, <1>5

\* After a crash nobody has anything in hand, and what was under way is
\* forgotten once.
LEMMA CrashKeeps ==
    ASSUME DeliveryInvariant, CrashDelivery
    PROVE  DeliveryInvariant'
<1>1. /\ couriers' = [w \in Workers |-> IdleWorker]
      /\ crashes' = crashes + 1
      /\ UNCHANGED <<alertRows, alertIds, sinceTick, told, sends>>
      /\ Present' = Present
  BY DEF CrashDelivery, Dies, Present
<1>2. /\ DeliveryTypes /\ crashes \in Nat
      /\ \A a \in Alerts : told[a] \in Nat /\ sends[a] \in Nat
      /\ MaxAttempts \in Nat
  BY DeliveryAssumption DEF DeliveryInvariant, DeliveryTypes
<1>3. \A w \in Workers : couriers'[w].at = "idle" /\ couriers'[w].queue = <<>>
                         /\ WorkerShape(couriers'[w]) /\ InQueue(w)' = {}
  BY <1>1, IdleShape, EmptyQueue DEF InQueue
<1>4. DeliveryTypes'
  <2>1. ASSUME NEW a \in Alerts
        PROVE  LET v == <<"first", a>>
               IN  couriers'[v].at # "idle" => couriers'[v].queue = <<a>>
    <3>1. <<"first", a>> \in Workers
      BY DEF Workers, Firsts
    <3> QED
      BY <1>3, <3>1
  <2>2. DOMAIN couriers' = Workers
    BY <1>1
  <2>3. \A w \in Workers : WorkerShape(couriers'[w]) /\ InQueue(w)' \subseteq alertIds'
    BY <1>3
  <2> QED
    BY <1>1, <1>2, <2>1, <2>2, <2>3 DEF DeliveryTypes
<1>5. Exclusive'
  BY <1>3 DEF Exclusive
<1>6. \A w \in Workers : Hand(w)' /\ OnTime(w)'
  BY <1>3 DEF Hand, OnTime, RunOnTime, FirstOnTime
<1>7. ASSUME NEW a \in Alerts PROVE OnPlan(a)'
  <2> SUFFICES ASSUME a \in Present, alertRows[a].due # Null
               PROVE  Chance(a)'
    BY <1>1 DEF OnPlan
  <2>1. alertRows[a].attempts \in Nat
    BY <1>2 DEF DeliveryTypes, RowShape
  <2>2. CASE \A w \in Workers : a \notin InQueue(w)
    <3>1. Chance(a)
      BY <2>2 DEF DeliveryInvariant, OnPlan
    <3> QED
      BY <1>1, <1>2, <2>1, <3>1 DEF Chance
  <2>3. CASE \E w \in Workers : a \in InQueue(w)
    <3> PICK w \in Workers : a \in InQueue(w)
      BY <2>3
    <3>1. couriers[w].at # "idle"
      BY <1>2, EmptyQueue DEF DeliveryTypes, WorkerShape, InQueue
    <3>2. Hand(w) /\ (a \in Rest(w) \/ a = Current(w))
          /\ couriers[w].at \in WorkerStages /\ couriers[w].read \in Nat
      BY <1>2, <3>1, BusyWorker DEF DeliveryInvariant, DeliveryTypes, WorkerShape
    <3>3. CASE Chance(a)
      BY <1>1, <1>2, <2>1, <3>3 DEF Chance
    <3>4. CASE ~Chance(a)
      <4>1. a = Current(w) /\ couriers[w].at \in {"sending", "store", "count"}
        BY <3>1, <3>2, <3>4 DEF Hand, Fresh, AtRead, AtFarewell, WorkerStages
      <4>2. SentOnce(w) /\ couriers[w].read < MaxAttempts
        BY <1>2, <3>1, <3>2, <4>1 DEF Hand, AtSending, AtStore, AtCount
      <4>3. told[a] <= 1 + crashes
        BY DEF DeliveryInvariant, Budget
      <4> QED
        BY <1>1, <1>2, <2>1, <4>1, <4>2, <4>3 DEF Chance, SentOnce
    <3> QED
      BY <3>3, <3>4
  <2> QED
    BY <2>2, <2>3
<1>8. ASSUME NEW a \in Alerts PROVE Budget(a)' /\ (a \notin alertIds' => Unraised(a)')
  <2>1. Budget(a) /\ (a \notin alertIds => Unraised(a))
    BY DEF DeliveryInvariant
  <2>2. Budget(a)'
    BY <1>1, <1>2, <2>1 DEF Budget
  <2>3. <<"first", a>> \in Workers
    BY DEF Workers, Firsts
  <2> QED
    BY <1>1, <1>3, <2>1, <2>2, <2>3 DEF Unraised
<1> QED
  BY <1>4, <1>5, <1>6, <1>7, <1>8 DEF DeliveryInvariant

LEMMA EarlierFits ==
    ASSUME NEW before \in Nat, NEW after \in Nat, after <= before, NEW room \in Nat
    PROVE  \A top \in Nat : before + room <= top => after + room <= top
OBVIOUS

\* A run that no tick of the timer has made late.
LEMMA OnTimeEarlier ==
    ASSUME DeliveryTypes, NEW w \in Workers, OnTime(w),
           couriers'[w] = couriers[w], sinceTick' \in Nat, sinceTick' <= sinceTick,
           \A b \in InQueue(w) : SameDue(b)
    PROVE  OnTime(w)'
<1>1. CASE couriers[w].at = "idle"
  BY <1>1 DEF OnTime, RunOnTime, FirstOnTime
<1>2. CASE couriers[w].at # "idle"
  <2>1. Current(w) \in InQueue(w) /\ Current(w)' = Current(w)
    BY <1>2, BusyWorker DEF Current
  <2>2. SameDue(Current(w))
    BY <2>1
  <2>3. FirstOnTime(w) => FirstOnTime(w)'
    BY <1>2, <2>1, <2>2 DEF FirstOnTime, SameDue
  <2> DEFINE room == Room(Len(couriers[w].queue))
  <2>4. /\ room \in Nat /\ couriers[w].wait \in Nat
        /\ TickPeriod \in Nat /\ SendMax \in Nat /\ sinceTick \in Nat
    <3>1. /\ Len(couriers[w].queue) \in Nat /\ Len(couriers[w].queue) >= 1
      BY <1>2, TailOfQueue DEF DeliveryTypes, WorkerShape
    <3> QED
      BY <3>1, RoomLess, DeliveryAssumption DEF DeliveryTypes, WorkerShape
  <2>5. room' = room
    BY DEF Room
  <2> HIDE DEF room
  <2>6. \A top \in Nat : sinceTick + room <= top => sinceTick' + room <= top
    BY <2>4, EarlierFits
  <2>7. /\ TickPeriod + couriers[w].wait \in Nat
        /\ TickPeriod + SendMax \in Nat
        /\ TickPeriod + SendMax + couriers[w].wait \in Nat
    BY <2>4
  <2>8. RunOnTime(w) => RunOnTime(w)'
    BY <1>2, <2>4, <2>5, <2>6, <2>7 DEF RunOnTime, room
  <2> QED
    BY <2>3, <2>8 DEF OnTime
<1> QED
  BY <1>1, <1>2

\* An idle worker takes fresh alerts in hand that nobody else has.
LEMMA TakesInHand ==
    ASSUME DeliveryInvariant, NEW w \in Workers, couriers[w].at = "idle",
           DOMAIN couriers' = Workers,
           \A v \in Workers \ {w} : couriers'[v] = couriers[v],
           WorkerShape(couriers'[w]), couriers'[w].at = "read", couriers'[w].wait = 0,
           \A a : w = <<"first", a>> => couriers'[w].queue = <<a>>,
           alertIds \subseteq alertIds', alertIds' \subseteq Alerts,
           InQueue(w)' \subseteq alertIds', alertIds' \ alertIds \subseteq InQueue(w)',
           \A a \in Alerts \ alertIds' : w # <<"first", a>>,
           Present' \subseteq alertIds', \A a \in Present' : RowShape(alertRows'[a]),
           \A b \in alertIds : Untouched(b) /\ SameDue(b),
           \A b \in InQueue(w)' : Fresh(b)' /\ (\A v \in Workers : b \notin InQueue(v)),
           UNCHANGED <<told, sends, crashes>>,
           sinceTick' \in Nat, sinceTick' <= sinceTick,
           OnTime(w)'
    PROVE  DeliveryInvariant'
<1>1. DeliveryTypes /\ Exclusive
  BY DEF DeliveryInvariant
<1>2. InQueue(w) = {}
  BY <1>1, EmptyQueue DEF DeliveryTypes, WorkerShape, InQueue
<1>3. \A v \in Workers \ {w} : couriers'[v] = couriers[v] /\ InQueue(v)' = InQueue(v)
                               /\ InQueue(v) \subseteq alertIds
  BY <1>1 DEF InQueue, DeliveryTypes
<1>4. DeliveryTypes'
  <2>1. ASSUME NEW a \in Alerts
        PROVE  LET v == <<"first", a>>
               IN  couriers'[v].at # "idle" => couriers'[v].queue = <<a>>
    <3>1. <<"first", a>> \in Workers
      BY DEF Workers, Firsts
    <3> QED
      BY <1>1, <3>1 DEF DeliveryTypes
  <2>2. \A v \in Workers : WorkerShape(couriers'[v]) /\ InQueue(v)' \subseteq alertIds'
    BY <1>1, <1>3 DEF DeliveryTypes
  <2> QED
    BY <1>1, <2>1, <2>2 DEF DeliveryTypes
<1>5. Exclusive'
  BY <1>1, <1>3 DEF Exclusive
<1>6. Hand(w)'
  <2>1. couriers'[w].queue # <<>> /\ couriers'[w].queue \in Seq(Alerts)
        /\ IsInjective(couriers'[w].queue)
    BY DEF WorkerShape
  <2>2. Current(w)' \in InQueue(w)' /\ Rest(w)' \subseteq InQueue(w)'
    BY <2>1, TailOfQueue DEF Current, InQueue, Rest
  <2>3. AtRead(w)' /\ \A a \in Rest(w)' : Fresh(a)'
    BY <2>2 DEF AtRead
  <2> QED
    BY <2>3 DEF Hand
<1>7. ASSUME NEW v \in Workers \ {w} PROVE Hand(v)' /\ OnTime(v)'
  <2>1. Hand(v) /\ OnTime(v) /\ v \in Workers
    BY DEF DeliveryInvariant
  <2>2. \A b \in InQueue(v) : Untouched(b) /\ SameDue(b)
    BY <1>3
  <2>3. Stays(v) /\ couriers'[v] = couriers[v]
    BY DEF Stays
  <2> QED
    BY <1>1, <2>1, <2>2, <2>3, HandKept, OnTimeEarlier
<1>8. ASSUME NEW a \in Alerts, \A v \in Workers : a \notin InQueue(v)'
      PROVE  OnPlan(a)'
  <2>1. CASE a \notin alertIds'
    BY <2>1 DEF OnPlan
  <2>2. CASE a \in alertIds'
    <3>1. a \in alertIds /\ \A v \in Workers : a \notin InQueue(v)
      BY <1>2, <1>3, <1>8, <2>2
    <3> QED
      BY <3>1, KeptPlan DEF DeliveryInvariant
  <2> QED
    BY <2>1, <2>2
<1>9. ASSUME NEW a \in Alerts PROVE Budget(a)' /\ (a \notin alertIds' => Unraised(a)')
  <2>1. Budget(a) /\ (a \notin alertIds => Unraised(a))
    BY DEF DeliveryInvariant
  <2>2. <<"first", a>> \in Workers
    BY DEF Workers, Firsts
  <2> QED
    BY <2>1, <2>2 DEF Budget, Unraised
<1> QED
  BY <1>4, <1>5, <1>6, <1>7, <1>8, <1>9 DEF DeliveryInvariant

\* The worker that was given a queue.
LEMMA StartedWorker ==
    ASSUME NEW queue \in Seq(Alerts), queue # <<>>, IsInjective(queue), NEW quiet
    PROVE  LET next == [IdleWorker EXCEPT !.at = "read", !.queue = queue, !.muted = quiet]
           IN  /\ WorkerShape(next)
               /\ next.at = "read" /\ next.queue = queue
               /\ next.age = 0 /\ next.wait = 0
<1> DEFINE next == [IdleWorker EXCEPT !.at = "read", !.queue = queue, !.muted = quiet]
<1>1. /\ DOMAIN next = {"at", "queue", "muted", "read", "verdict", "age", "wait"}
      /\ next.at = "read" /\ next.queue = queue
      /\ next.read = 0 /\ next.age = 0 /\ next.wait = 0
  BY DEF IdleWorker
<1> HIDE DEF next
<1>2. WorkerShape(next)
  BY <1>1, DeliveryAssumption DEF WorkerShape, WorkerStages
<1> QED
  BY <1>1, <1>2 DEF next

LEMMA RecordKeeps ==
    ASSUME DeliveryInvariant, RunsFit, NEW a \in Alerts, RecordAlert(a)
    PROVE  DeliveryInvariant'
<1> DEFINE w == <<"first", a>>
           next == [IdleWorker EXCEPT !.at = "read", !.queue = <<a>>, !.muted = muted]
<1>1. /\ a \notin alertIds /\ alertIds' = alertIds \cup {a}
      /\ alertRows' = [b \in Present \cup {a} |-> IF b = a THEN NewRow ELSE alertRows[b]]
      /\ couriers' = [couriers EXCEPT ![w] = next]
      /\ UNCHANGED <<sinceTick, told, sends, crashes>>
  BY DEF RecordAlert
<1>2. /\ DeliveryTypes /\ Unraised(a) /\ w \in Workers /\ w \in Firsts /\ w \notin Retries
  BY <1>1 DEF DeliveryInvariant, Workers, Firsts, Retries
<1>3. /\ <<a>> \in Seq(Alerts) /\ <<a>> # <<>> /\ IsInjective(<<a>>)
      /\ Range(<<a>>) = {a} /\ Head(<<a>>) = a
  BY DEF IsInjective, Range
<1>4. /\ WorkerShape(next) /\ next.at = "read" /\ next.queue = <<a>>
      /\ next.age = 0 /\ next.wait = 0
  BY <1>3, StartedWorker
<1> HIDE DEF next
<1>5. /\ DOMAIN couriers' = Workers
      /\ \A v \in Workers \ {w} : couriers'[v] = couriers[v]
      /\ couriers'[w] = next
      /\ couriers[w].at = "idle"
  BY <1>1, <1>2 DEF DeliveryTypes, Unraised
<1>6. InQueue(w)' = {a} /\ Current(w)' = a
  BY <1>3, <1>4, <1>5 DEF InQueue, Current
<1>7. /\ DOMAIN NewRow = {"status", "attempts", "due", "acked"}
      /\ NewRow.attempts = 0 /\ NewRow.due \in Nat /\ NewRow.due > SendMax
  <2> DEFINE due == IF NextRetry(1) = Null THEN TickPeriod ELSE NextRetry(1)
  <2>1. NewRow = [status |-> "pending", attempts |-> 0, due |-> due, acked |-> FALSE]
    BY DEF NewRow
  <2>2. due \in {TickPeriod, RetryInterval}
    BY DEF NextRetry
  <2>3. TickPeriod > SendMax
    <3> DEFINE k == Cardinality(Alerts)
    <3>1. k \in Nat /\ k # 0
      BY DeliveryAssumption, FS_CardinalityType, FS_EmptySet
    <3>2. 2 * SendMax * k <= TickPeriod
      BY DEF RunsFit
    <3> HIDE DEF k
    <3>3. Room(k) \in Nat /\ Room(k - 1) \in Nat /\ Room(k) = Room(k - 1) + 2 * SendMax
      BY <3>1, RoomLess
    <3>4. Room(k) <= TickPeriod
      BY <3>2 DEF Room
    <3> QED
      BY <3>3, <3>4, DeliveryAssumption
  <2>4. RetryInterval > SendMax
    BY DeliveryAssumption DEF RunsFit
  <2> HIDE DEF due
  <2>5. due \in Nat /\ due > SendMax
    BY <2>2, <2>3, <2>4, DeliveryAssumption
  <2> QED
    BY <2>1, <2>5
<1>8. /\ Present' = Present \cup {a} /\ alertRows'[a] = NewRow
      /\ \A b \in Present \ {a} : alertRows'[b] = alertRows[b]
      /\ Present \subseteq alertIds /\ alertIds \subseteq Alerts
  BY <1>1, <1>2 DEF Present, DeliveryTypes
<1>9. RowShape(NewRow) /\ NewRow.due # Null
  BY <1>7, NullAssumption DEF RowShape
<1>10. \A b \in Present' : RowShape(alertRows'[b])
  BY <1>2, <1>8, <1>9 DEF DeliveryTypes
<1>11. \A b \in alertIds : Untouched(b) /\ SameDue(b)
  BY <1>1, <1>8 DEF Untouched, SameDue
<1>12. Fresh(a)'
  <2>1. sends[a] = 0 /\ told[a] = 0 /\ crashes \in Nat
    BY <1>2 DEF Unraised, DeliveryTypes
  <2> QED
    BY <1>1, <1>7, <1>8, <1>9, <2>1, DeliveryAssumption DEF Fresh, Chance
<1>13. \A v \in Workers : a \notin InQueue(v)
  BY <1>1, <1>2 DEF DeliveryTypes
<1>14. OnTime(w)'
  BY <1>2, <1>4, <1>5, <1>6, <1>7, <1>8 DEF OnTime, FirstOnTime
<1>15. \A b : w = <<"first", b>> => couriers'[w].queue = <<b>>
  BY <1>4, <1>5
<1>16. \A b \in Alerts \ alertIds' : w # <<"first", b>>
  BY <1>1
<1>17. sinceTick' \in Nat /\ sinceTick' <= sinceTick
  BY <1>1, <1>2 DEF DeliveryTypes
<1>18. /\ alertIds \subseteq alertIds' /\ alertIds' \subseteq Alerts
       /\ InQueue(w)' \subseteq alertIds' /\ alertIds' \ alertIds \subseteq InQueue(w)'
       /\ Present' \subseteq alertIds'
  BY <1>1, <1>6, <1>8
<1>19. \A b \in InQueue(w)' : Fresh(b)' /\ (\A v \in Workers : b \notin InQueue(v))
  BY <1>6, <1>12, <1>13
<1>20. WorkerShape(couriers'[w]) /\ couriers'[w].at = "read" /\ couriers'[w].wait = 0
  BY <1>4, <1>5
<1> HIDE DEF w
<1> QED
  BY <1>1, <1>2, <1>5, <1>10, <1>11, <1>14, <1>15, <1>16, <1>17, <1>18, <1>19, <1>20,
     TakesInHand

LEMMA NoneLong ==
    ASSUME NEW S, NEW q \in Seq(S), Len(q) = 0
    PROVE  Range(q) = {}
BY DEF Range

\* When the next tick comes, nothing that is due is in anybody's hands.
LEMMA NothingDueHeld ==
    ASSUME DeliveryInvariant, RunsFit, sinceTick = TickPeriod,
           NEW w \in Workers, NEW a \in InQueue(w)
    PROVE  a \notin Due
<1>1. DeliveryTypes /\ Hand(w) /\ OnTime(w)
  BY DEF DeliveryInvariant
<1>2. couriers[w].at # "idle"
  BY <1>1, EmptyQueue DEF DeliveryTypes, WorkerShape, InQueue
<1>3. SUFFICES ASSUME a \in Present, alertRows[a].due = 0 PROVE FALSE
  BY DEF Due
<1>4. alertRows[a].due # Null
  BY <1>3, NullAssumption
<1>5. /\ couriers[w].at \in WorkerStages \ {"idle"}
      /\ couriers[w].wait \in Nat /\ couriers[w].wait <= SendMax
      /\ SendMax \in Nat \ {0} /\ TickPeriod \in Nat
  BY <1>1, <1>2, DeliveryAssumption DEF DeliveryTypes, WorkerShape
<1>6. CASE w \in Firsts
  <2>1. a = Current(w)
    BY <1>1, <1>2, <1>6, BusyWorker, FirstHasOne
  <2>2. couriers[w].at = "farewell" => alertRows[a].due = Null
    BY <1>1, <1>2, <1>3, <2>1 DEF Hand, AtFarewell
  <2>3. /\ couriers[w].at = "read" => 0 > SendMax
        /\ couriers[w].at = "sending" => 0 + couriers[w].wait > SendMax
        /\ couriers[w].at \in {"store", "count"} => 0 > 0
    BY <1>1, <1>2, <1>3, <1>4, <1>6, <2>1 DEF OnTime, FirstOnTime
  <2> QED
    BY <1>4, <1>5, <2>2, <2>3 DEF WorkerStages
<1>7. CASE w \in Retries
  <2> DEFINE n == Len(couriers[w].queue)
             q == couriers[w].queue
  <2>1. q \in Seq(Alerts) /\ q # <<>> /\ IsInjective(q)
    BY <1>1, <1>2 DEF DeliveryTypes, WorkerShape
  <2>2. n \in Nat /\ n >= 1 /\ Len(Tail(q)) = n - 1 /\ Range(Tail(q)) = Rest(w)
        /\ Tail(q) \in Seq(Alerts)
    BY <2>1, TailOfQueue DEF Rest, InQueue, Current
  <2>3. Room(n) \in Nat /\ Room(n - 1) \in Nat /\ Room(n) = Room(n - 1) + 2 * SendMax
    BY <2>2, RoomLess
  <2>4. /\ couriers[w].at = "read" => TickPeriod + Room(n) <= TickPeriod
        /\ couriers[w].at = "sending" => TickPeriod + Room(n) <= TickPeriod + couriers[w].wait
        /\ couriers[w].at \in {"store", "count"} => TickPeriod + Room(n) <= TickPeriod + SendMax
        /\ couriers[w].at = "farewell" =>
              TickPeriod + Room(n) <= TickPeriod + SendMax + couriers[w].wait
    BY <1>1, <1>2, <1>7 DEF OnTime, RunOnTime
  <2>5. n = 1
    <3>1. Room(n - 1) = 0
      <4> DEFINE most == Room(n)
                 less == Room(n - 1)
      <4>1. most \in Nat /\ less \in Nat /\ most = less + 2 * SendMax
        BY <2>3
      <4>2. \/ TickPeriod + most <= TickPeriod
            \/ TickPeriod + most <= TickPeriod + couriers[w].wait
            \/ TickPeriod + most <= TickPeriod + SendMax
            \/ TickPeriod + most <= TickPeriod + SendMax + couriers[w].wait
        BY <1>5, <2>4 DEF WorkerStages
      <4> HIDE DEF most, less
      <4>3. less = 0
        BY <1>5, <4>1, <4>2
      <4> QED
        BY <4>3 DEF less
    <3>2. ~(n - 1 >= 1)
      <4> SUFFICES ASSUME n - 1 >= 1 PROVE FALSE
        OBVIOUS
      <4>1. n - 1 \in Nat
        BY <2>2
      <4> DEFINE m == n - 1
      <4> HIDE DEF m
      <4>2. Room(m) = Room(m - 1) + 2 * SendMax /\ Room(m - 1) \in Nat
        BY <4>1, RoomLess DEF m
      <4>3. Room(m) = 0
        BY <3>1 DEF m
      <4> QED
        BY <1>5, <4>2, <4>3
    <3>3. \A k \in Nat : k >= 1 /\ ~(k - 1 >= 1) => k = 1
      OBVIOUS
    <3>4. n \in Nat /\ n >= 1
      BY <2>2
    <3> HIDE DEF n
    <3> QED
      BY <3>2, <3>3, <3>4
  <2>6. couriers[w].at = "farewell"
    <3> DEFINE most == Room(n)
               less == Room(n - 1)
    <3>1. most \in Nat /\ less \in Nat /\ most = less + 2 * SendMax
      BY <2>3
    <3>2. \/ couriers[w].at = "farewell"
          \/ TickPeriod + most <= TickPeriod
          \/ TickPeriod + most <= TickPeriod + couriers[w].wait
          \/ TickPeriod + most <= TickPeriod + SendMax
      BY <1>5, <2>4 DEF WorkerStages
    <3> HIDE DEF most, less
    <3> QED
      BY <1>5, <3>1, <3>2
  <2>7. Rest(w) = {}
    <3>1. Len(Tail(q)) = 0
      BY <2>2, <2>5
    <3>2. Range(Tail(q)) = {}
      BY <2>2, <3>1, NoneLong
    <3> QED
      BY <2>2, <3>2
  <2>8. a = Current(w)
    BY <1>1, <1>2, <2>7, BusyWorker
  <2>9. alertRows[a].due = Null
    BY <1>1, <1>2, <1>3, <2>6, <2>8 DEF Hand, AtFarewell
  <2> QED
    BY <1>4, <2>9
<1> QED
  BY <1>6, <1>7 DEF Workers

\* The list a run walks names each due alert once.
LEMMA QueueOfDue ==
    ASSUME IsFiniteSet(Alerts), Due \subseteq Alerts, NEW queue \in SetToSeqs(Due)
    PROVE  /\ queue \in Seq(Alerts) /\ IsInjective(queue)
           /\ Range(queue) \subseteq Due
           /\ Len(queue) \in Nat /\ Len(queue) <= Cardinality(Alerts)
           /\ Cardinality(Alerts) \in Nat
<1>1. /\ IsFiniteSet(Due) /\ Cardinality(Due) \in Nat /\ Cardinality(Alerts) \in Nat
      /\ Cardinality(Due) <= Cardinality(Alerts)
  BY FS_Subset, FS_CardinalityType
<1> DEFINE n == Cardinality(Due)
<1>2. /\ queue \in [1..n -> Due]
      /\ \A i, j \in 1..n : i # j => queue[i] # queue[j]
  BY DEF SetToSeqs
<1> HIDE DEF n
<1>3. n \in Nat
  BY <1>1 DEF n
<1>4. queue \in Seq(Due) /\ Len(queue) = n
  BY <1>2, <1>3
<1>5. queue \in Seq(Alerts)
  BY <1>4
<1>6. IsInjective(queue) /\ Range(queue) \subseteq Due
  BY <1>2 DEF IsInjective, Range
<1> QED
  BY <1>1, <1>4, <1>5, <1>6 DEF n

LEMMA RoomGrows ==
    ASSUME NEW n \in Nat, NEW m \in Nat, n <= m
    PROVE  Room(n) \in Nat /\ Room(m) \in Nat /\ Room(n) <= Room(m)
<1>1. PICK d \in Nat : m = n + d
  <2>1. m - n \in Nat /\ m = n + (m - n)
    OBVIOUS
  <2> QED
    BY <2>1
<1>2. 2 * SendMax \in Nat
  BY DeliveryAssumption
<1> DEFINE k == 2 * SendMax
<1> HIDE DEF k
<1>3. k \in Nat
  BY <1>2 DEF k
<1>4. k * (n + d) = k * n + k * d /\ k * n \in Nat /\ k * d \in Nat
  BY <1>3
<1>5. k * n <= k * m /\ k * m \in Nat
  BY <1>1, <1>4
<1> QED
  BY <1>4, <1>5 DEF Room, k

LEMMA StartKeeps ==
    ASSUME DeliveryInvariant, RunsFit, NEW r \in Runs, StartRetries(r)
    PROVE  DeliveryInvariant'
<1> DEFINE w == <<"retry", r>>
<1>1. /\ sinceTick = TickPeriod /\ sinceTick' = 0
      /\ couriers[w].at = "idle"
      /\ UNCHANGED <<alertRows, alertIds, told, sends, crashes>>
  BY DEF StartRetries
<1>2. PICK queue \in SetToSeqs(Due) :
          couriers' = IF queue = <<>> THEN couriers
                      ELSE [couriers EXCEPT ![w] =
                               [IdleWorker EXCEPT !.at = "read", !.queue = queue,
                                                  !.muted = muted]]
  BY DEF StartRetries
<1>3. /\ DeliveryTypes /\ w \in Workers /\ w \in Retries /\ w \notin Firsts
      /\ IsFiniteSet(Alerts) /\ TickPeriod \in Nat
      /\ Due \subseteq Present /\ Present \subseteq alertIds /\ alertIds \subseteq Alerts
  BY DeliveryAssumption DEF DeliveryInvariant, DeliveryTypes, Workers, Firsts, Retries, Due
<1>4. /\ queue \in Seq(Alerts) /\ IsInjective(queue)
      /\ Range(queue) \subseteq Due
      /\ Len(queue) \in Nat /\ Len(queue) <= Cardinality(Alerts)
      /\ Cardinality(Alerts) \in Nat
  BY <1>3, QueueOfDue
<1>5. sinceTick' \in Nat /\ sinceTick' <= sinceTick
  BY <1>1, <1>3
<1>6. Present' = Present /\ (\A a \in Present : RowShape(alertRows'[a]))
      /\ \A b : Untouched(b) /\ SameDue(b)
  BY <1>1, <1>3, RowsStay DEF Present
<1>7. CASE queue = <<>>
  <2>1. couriers' = couriers
    BY <1>2, <1>7
  <2>2. \A v \in Workers : Hand(v)' /\ OnTime(v)'
    <3> TAKE v \in Workers
    <3>1. Hand(v) /\ OnTime(v)
      BY DEF DeliveryInvariant
    <3>2. Stays(v) /\ couriers'[v] = couriers[v]
      BY <2>1 DEF Stays
    <3> QED
      BY <1>1, <1>3, <1>5, <1>6, <3>1, <3>2, HandKept, OnTimeEarlier
  <2>3. \A v \in Workers : InQueue(v)' = InQueue(v)
    BY <2>1 DEF InQueue
  <2>4. DeliveryTypes'
    BY <1>1, <1>3, <1>5, <1>6, <2>1, <2>3 DEF DeliveryTypes
  <2>5. Exclusive'
    BY <2>3 DEF DeliveryInvariant, Exclusive
  <2>6. \A a \in Alerts : (\A v \in Workers : a \notin InQueue(v)') => OnPlan(a)'
    BY <1>1, <1>6, <2>3, KeptPlan DEF DeliveryInvariant
  <2>7. \A a \in Alerts : Budget(a)' /\ (a \notin alertIds' => Unraised(a)')
    BY <1>1, <2>1 DEF DeliveryInvariant, Budget, Unraised
  <2> QED
    BY <2>2, <2>4, <2>5, <2>6, <2>7 DEF DeliveryInvariant
<1>8. CASE queue # <<>>
  <2> DEFINE next == [IdleWorker EXCEPT !.at = "read", !.queue = queue, !.muted = muted]
  <2>1. couriers' = [couriers EXCEPT ![w] = next]
    BY <1>2, <1>8
  <2>2. /\ WorkerShape(next) /\ next.at = "read" /\ next.queue = queue
        /\ next.age = 0 /\ next.wait = 0
    BY <1>4, <1>8, StartedWorker
  <2> HIDE DEF next
  <2>3. /\ DOMAIN couriers' = Workers
        /\ \A v \in Workers \ {w} : couriers'[v] = couriers[v]
        /\ couriers'[w] = next
    BY <1>3, <2>1 DEF DeliveryTypes
  <2>4. InQueue(w)' = Range(queue)
    BY <2>2, <2>3 DEF InQueue
  <2>5. \A b \in Range(queue) :
          /\ Fresh(b)'
          /\ \A v \in Workers : b \notin InQueue(v)
    <3> TAKE b \in Range(queue)
    <3>1. b \in Due /\ b \in Alerts /\ b \in Present
      BY <1>3, <1>4
    <3>2. \A v \in Workers : b \notin InQueue(v)
      BY <1>1, <3>1, NothingDueHeld
    <3>3. alertRows[b].due # Null
      BY <3>1, NullAssumption DEF Due
    <3>4. Fresh(b)
      BY <3>1, <3>2, <3>3 DEF DeliveryInvariant, OnPlan, Fresh
    <3> QED
      BY <1>1, <1>6, <3>2, <3>4, KeptPlan
  <2>6. OnTime(w)'
    <3> DEFINE n == Len(queue)
               k == Cardinality(Alerts)
    <3>1. n \in Nat /\ k \in Nat /\ n <= k
      BY <1>4
    <3>2. Room(k) <= TickPeriod
      BY DEF RunsFit, Room
    <3> HIDE DEF n, k
    <3>3. Room(n) \in Nat /\ Room(k) \in Nat /\ Room(n) <= Room(k)
      BY <3>1, RoomGrows
    <3>4. 0 + Room(n) <= TickPeriod
      BY <1>3, <3>2, <3>3
    <3>5. RunOnTime(w)'
      BY <1>1, <2>2, <2>3, <3>4 DEF RunOnTime, n
    <3> QED
      BY <1>3, <3>5 DEF OnTime
  <2>7. \A b : w = <<"first", b>> => couriers'[w].queue = <<b>>
    OBVIOUS
  <2>8. \A b \in Alerts \ alertIds' : w # <<"first", b>>
    OBVIOUS
  <2>9. /\ alertIds \subseteq alertIds' /\ alertIds' \subseteq Alerts
        /\ InQueue(w)' \subseteq alertIds' /\ alertIds' \ alertIds \subseteq InQueue(w)'
        /\ Present' \subseteq alertIds' /\ \A a \in Present' : RowShape(alertRows'[a])
    BY <1>1, <1>3, <1>4, <1>6, <2>4
  <2>10. WorkerShape(couriers'[w]) /\ couriers'[w].at = "read" /\ couriers'[w].wait = 0
    BY <2>2, <2>3
  <2>11. \A b \in InQueue(w)' : Fresh(b)' /\ (\A v \in Workers : b \notin InQueue(v))
    BY <2>4, <2>5
  <2> HIDE DEF w
  <2> QED
    BY <1>1, <1>3, <1>5, <1>6, <2>3, <2>6, <2>7, <2>8, <2>9, <2>10, <2>11, TakesInHand
<1> QED
  BY <1>7, <1>8

\* The clock goes on while every busy worker waits for an answer.
LEMMA RowAges ==
    ASSUME NEW row, RowShape(row)
    PROVE  LET next == [row EXCEPT !.due = Sooner(@)]
           IN  /\ RowShape(next) /\ next.attempts = row.attempts
               /\ next.due = Null <=> row.due = Null
               /\ row.due # Null => next.due \in Nat /\ row.due \in Nat
                                    /\ next.due + 1 >= row.due
<1> DEFINE next == [row EXCEPT !.due = Sooner(row.due)]
<1>1. /\ DOMAIN next = {"status", "attempts", "due", "acked"}
      /\ next.attempts = row.attempts /\ next.due = Sooner(row.due)
  BY DEF RowShape
<1>2. /\ row.due = Null => Sooner(row.due) = Null
      /\ row.due # Null => /\ Sooner(row.due) \in Nat /\ row.due \in Nat
                           /\ Sooner(row.due) + 1 >= row.due
  BY DEF RowShape, Sooner
<1>3. row.due # Null => Sooner(row.due) # Null
  BY <1>2, NullAssumption
<1>4. [row EXCEPT !.due = Sooner(@)] = next
  OBVIOUS
<1> HIDE DEF next
<1>5. RowShape(next)
  BY <1>1, <1>2 DEF RowShape
<1> QED
  BY <1>1, <1>2, <1>3, <1>4, <1>5

LEMMA AdvanceKeeps ==
    ASSUME DeliveryInvariant, AdvanceDelivery
    PROVE  DeliveryInvariant'
<1>1. /\ DeliveryTypes
      /\ DOMAIN couriers = Workers
      /\ \A w \in Workers : WorkerShape(couriers[w])
      /\ sinceTick \in Nat /\ RetryInterval \in Nat /\ TickPeriod \in Nat
      /\ SendMax \in Nat
  BY DeliveryAssumption DEF DeliveryInvariant, DeliveryTypes
<1>2. /\ UNCHANGED <<alertIds, told, sends, crashes>>
      /\ alertRows' = [a \in Present |-> [alertRows[a] EXCEPT !.due = Sooner(@)]]
      /\ sinceTick' = Older(sinceTick, TickPeriod)
  BY DEF AdvanceDelivery
<1>3. /\ Present' = Present
      /\ \A a \in Present : alertRows'[a] = [alertRows[a] EXCEPT !.due = Sooner(@)]
  BY <1>2 DEF Present
<1>4. \A a \in Present :
        /\ RowShape(alertRows'[a]) /\ alertRows'[a].attempts = alertRows[a].attempts
        /\ alertRows'[a].due = Null <=> alertRows[a].due = Null
        /\ alertRows[a].due # Null => alertRows'[a].due \in Nat /\ alertRows[a].due \in Nat
                                      /\ alertRows'[a].due + 1 >= alertRows[a].due
  <2> TAKE a \in Present
  <2>1. RowShape(alertRows[a])
    BY <1>1 DEF DeliveryTypes
  <2> QED
    BY <1>3, <2>1, RowAges
<1>5. \A b : Untouched(b)
  BY <1>2, <1>3, <1>4 DEF Untouched
<1>6. sinceTick' \in Nat /\ sinceTick' <= sinceTick + 1
  <2>1. sinceTick # Null
    BY <1>1, NullAssumption
  <2> QED
    BY <1>1, <1>2, <2>1 DEF Older
<1>7. ASSUME NEW w \in Workers
      PROVE  /\ WorkerShape(couriers'[w])
             /\ Stays(w)
             /\ couriers[w].at # "idle" =>
                   /\ couriers[w].at \in {"sending", "farewell"}
                   /\ couriers'[w].wait = couriers[w].wait + 1
                   /\ couriers'[w].age <= couriers[w].age + 1
                   /\ couriers'[w].age \in Nat
  <2>1. CASE couriers[w].at = "idle"
    <3>1. w \notin Busy
      BY <2>1 DEF Busy
    <3>2. couriers'[w] = couriers[w]
      BY <3>1 DEF AdvanceDelivery
    <3> QED
      BY <1>1, <2>1, <3>2 DEF Stays
  <2>2. CASE couriers[w].at # "idle"
    <3> DEFINE age == Older(couriers[w].age, RetryInterval)
               wait == couriers[w].wait + 1
               next == [couriers[w] EXCEPT !.wait = wait, !.age = age]
    <3>1. w \in Busy
      BY <2>2 DEF Busy
    <3>2. couriers'[w] = next
      BY <3>1 DEF AdvanceDelivery
    <3>3. couriers[w].at \in {"sending", "farewell"} /\ couriers[w].wait < SendMax
      BY <3>1 DEF AdvanceDelivery, Sending
    <3>4. couriers[w].age \in Nat /\ couriers[w].wait \in Nat
      BY <1>1 DEF WorkerShape
    <3>5. age \in Nat /\ age <= couriers[w].age + 1
      <4>1. couriers[w].age # Null
        BY <3>4, NullAssumption
      <4> QED
        BY <1>1, <3>4, <4>1 DEF Older
    <3>6. wait \in Nat /\ wait <= SendMax
      BY <1>1, <3>3, <3>4
    <3> HIDE DEF age, wait
    <3>7. /\ DOMAIN next = DOMAIN couriers[w]
          /\ next.at = couriers[w].at /\ next.verdict = couriers[w].verdict
          /\ next.queue = couriers[w].queue /\ next.read = couriers[w].read
          /\ next.age = age /\ next.wait = wait
      BY <1>1 DEF WorkerShape
    <3> HIDE DEF next
    <3>8. WorkerShape(next)
      BY <1>1, <3>3, <3>5, <3>6, <3>7 DEF WorkerShape
    <3>9. Stays(w)
      BY <3>2, <3>3, <3>7 DEF Stays
    <3> QED
      BY <3>2, <3>3, <3>5, <3>7, <3>8, <3>9 DEF wait
  <2> QED
    BY <2>1, <2>2
<1>8. DOMAIN couriers' = Workers /\ \A w \in Workers : InQueue(w)' = InQueue(w)
  BY <1>7 DEF AdvanceDelivery, InQueue, Stays
<1>9. DeliveryTypes'
  <2>1. ASSUME NEW a \in Alerts
        PROVE  LET v == <<"first", a>>
               IN  couriers'[v].at # "idle" => couriers'[v].queue = <<a>>
    <3>1. <<"first", a>> \in Workers
      BY DEF Workers, Firsts
    <3> QED
      BY <1>1, <1>7, <3>1 DEF DeliveryTypes, Stays
  <2>2. \A w \in Workers : WorkerShape(couriers'[w]) /\ InQueue(w)' \subseteq alertIds'
    BY <1>1, <1>2, <1>7, <1>8 DEF DeliveryTypes
  <2> QED
    BY <1>1, <1>2, <1>3, <1>4, <1>6, <1>8, <2>1, <2>2 DEF DeliveryTypes
<1>10. Exclusive'
  BY <1>8 DEF DeliveryInvariant, Exclusive
<1>11. ASSUME NEW w \in Workers PROVE Hand(w)' /\ OnTime(w)'
  <2>1. Hand(w) /\ OnTime(w)
    BY DEF DeliveryInvariant
  <2>2. Hand(w)'
    <3>1. Stays(w) /\ crashes' = crashes
      BY <1>2, <1>7
    <3>2. DeliveryTypes /\ \A b \in InQueue(w) : Untouched(b)
      BY <1>1, <1>5
    <3> QED
      BY <2>1, <3>1, <3>2, HandKept
  <2>3. CASE couriers[w].at = "idle"
    BY <1>7, <2>2, <2>3 DEF OnTime, RunOnTime, FirstOnTime, Stays
  <2>4. CASE couriers[w].at # "idle"
    <3>1. /\ couriers[w].at \in {"sending", "farewell"}
          /\ couriers'[w].at = couriers[w].at /\ couriers'[w].queue = couriers[w].queue
          /\ couriers'[w].wait = couriers[w].wait + 1
          /\ couriers'[w].age <= couriers[w].age + 1
          /\ couriers'[w].age \in Nat /\ couriers[w].wait \in Nat /\ couriers[w].age \in Nat
      BY <1>1, <1>7, <2>4 DEF Stays, WorkerShape
    <3>2. w \in Retries => RunOnTime(w)'
      <4> DEFINE room == Room(Len(couriers[w].queue))
      <4>1. room \in Nat
        <5>1. /\ Len(couriers[w].queue) \in Nat /\ Len(couriers[w].queue) >= 1
          BY <1>1, <2>4, TailOfQueue DEF WorkerShape
        <5> QED
          BY <5>1, RoomLess
      <4>2. w \in Retries =>
              /\ couriers[w].at = "sending" =>
                    sinceTick + room <= TickPeriod + couriers[w].wait
              /\ couriers[w].at = "farewell" =>
                    sinceTick + room <= TickPeriod + SendMax + couriers[w].wait
        BY <2>1, <2>4 DEF OnTime, RunOnTime
      <4> HIDE DEF room
      <4>3. w \in Retries =>
              /\ couriers[w].at = "sending" =>
                    sinceTick' + room <= TickPeriod + (couriers[w].wait + 1)
              /\ couriers[w].at = "farewell" =>
                    sinceTick' + room <= TickPeriod + SendMax + (couriers[w].wait + 1)
        BY <1>1, <1>6, <3>1, <4>1, <4>2
      <4> QED
        BY <3>1, <4>3 DEF RunOnTime, room
    <3>3. w \in Firsts => FirstOnTime(w)'
      <4> SUFFICES ASSUME w \in Firsts PROVE FirstOnTime(w)'
        OBVIOUS
      <4>1. Current(w)' = Current(w)
        BY <3>1 DEF Current
      <4> DEFINE c == Current(w)
      <4>2. couriers[w].at = "sending" =>
              /\ couriers[w].age <= couriers[w].wait
              /\ c \in Present /\ alertRows[c].due # Null
                    => alertRows[c].due + couriers[w].wait > SendMax
        BY <2>1, <2>4 DEF OnTime, FirstOnTime
      <4> HIDE DEF c
      <4>3. couriers[w].at = "sending" =>
              /\ couriers'[w].age <= couriers'[w].wait
              /\ c \in Present /\ alertRows'[c].due # Null
                    => alertRows'[c].due + couriers'[w].wait > SendMax
        BY <1>1, <1>4, <3>1, <4>2
      <4>4. couriers[w].at = "sending" =>
              /\ couriers'[w].age <= couriers'[w].wait
              /\ Current(w)' \in Present' /\ alertRows'[Current(w)'].due # Null
                    => alertRows'[Current(w)'].due + couriers'[w].wait > SendMax
        BY <1>3, <4>1, <4>3 DEF c
      <4> QED
        BY <3>1, <4>4 DEF FirstOnTime
    <3> QED
      BY <2>2, <3>2, <3>3 DEF OnTime
  <2> QED
    BY <2>2, <2>3, <2>4
<1>12. \A a \in Alerts : (\A w \in Workers : a \notin InQueue(w)') => OnPlan(a)'
  BY <1>2, <1>5, <1>8, KeptPlan DEF DeliveryInvariant
<1>13. ASSUME NEW a \in Alerts PROVE Budget(a)' /\ (a \notin alertIds' => Unraised(a)')
  <2>1. Budget(a) /\ (a \notin alertIds => Unraised(a))
    BY DEF DeliveryInvariant
  <2>2. <<"first", a>> \in Workers
    BY DEF Workers, Firsts
  <2> QED
    BY <1>2, <1>7, <2>1, <2>2 DEF Budget, Unraised, Stays
<1> QED
  BY <1>9, <1>10, <1>11, <1>12, <1>13 DEF DeliveryInvariant

LEMMA DeliveryInvariantNext ==
    ASSUME DeliveryInvariant, RunsFit, [DeliveryNext]_deliveryVars
    PROVE  DeliveryInvariant'
<1>1. CASE \E a \in Alerts : RecordAlert(a)
  BY <1>1, RecordKeeps
<1>2. CASE \E a \in Alerts : Acknowledge(a) \/ ReceiveTap(a)
  BY <1>2, OperatorKeeps
<1>3. CASE \E r \in Runs : StartRetries(r)
  BY <1>3, StartKeeps
<1>4. CASE \E w \in Workers : Work(w)
  <2> PICK w \in Workers : Work(w)
    BY <1>4
  <2>1. CASE Read(w)
    BY <2>1, ReadKeeps
  <2>2. CASE Answered(w) \/ Unanswered(w)
    BY <2>2, SendKeeps
  <2>3. CASE Store(w)
    BY <2>3, StoreKeeps
  <2>4. CASE Count(w)
    BY <2>4, CountKeeps
  <2>5. CASE Farewell(w)
    BY <2>5, FarewellKeeps
  <2> QED
    BY <2>1, <2>2, <2>3, <2>4, <2>5 DEF Work
<1>5. CASE AcknowledgeAll \/ ToggleMute \/ PruneAlerts \/ UNCHANGED deliveryVars
  BY <1>5, OperatorKeeps
<1>6. CASE CrashDelivery
  BY <1>6, CrashKeeps
<1>7. CASE AdvanceDelivery
  BY <1>7, AdvanceKeeps
<1> QED
  BY <1>1, <1>2, <1>3, <1>4, <1>5, <1>6, <1>7 DEF DeliveryNext

LEMMA DeliveryInvariantInit == DeliveryInit => DeliveryInvariant
<1> SUFFICES ASSUME DeliveryInit PROVE DeliveryInvariant
  OBVIOUS
<1>1. /\ alertRows = <<>> /\ alertIds = {} /\ sinceTick = 0 /\ crashes = 0
      /\ couriers = [w \in Workers |-> IdleWorker]
      /\ told = [a \in Alerts |-> 0] /\ sends = [a \in Alerts |-> 0]
  BY DEF DeliveryInit
<1>2. Present = {}
  BY <1>1 DEF Present
<1>3. \A w \in Workers : couriers[w].at = "idle" /\ couriers[w].queue = <<>>
                         /\ WorkerShape(couriers[w]) /\ InQueue(w) = {}
  BY <1>1, IdleShape, EmptyQueue DEF InQueue
<1>4. \A a \in Alerts : <<"first", a>> \in Workers
  BY DEF Workers, Firsts
<1>5. DOMAIN couriers = Workers
  BY <1>1
<1>6. told \in [Alerts -> Nat] /\ sends \in [Alerts -> Nat]
  BY <1>1
<1>7. DeliveryTypes
  BY <1>1, <1>2, <1>3, <1>4, <1>5, <1>6 DEF DeliveryTypes
<1>8. Exclusive /\ \A w \in Workers : Hand(w) /\ OnTime(w)
  BY <1>3 DEF Exclusive, Hand, OnTime, RunOnTime, FirstOnTime
<1>9. \A a \in Alerts : OnPlan(a)
  BY <1>2 DEF OnPlan
<1>10. \A a \in Alerts : Budget(a) /\ Unraised(a)
  <2> TAKE a \in Alerts
  <2>1. /\ told[a] = 0 /\ sends[a] = 0 /\ crashes = 0
        /\ couriers[<<"first", a>>].at = "idle"
    BY <1>1, <1>3, <1>4
  <2>2. MaxAttempts \in Nat
    BY DeliveryAssumption
  <2> QED
    BY <2>1, <2>2 DEF Budget, Unraised
<1> QED
  BY <1>7, <1>8, <1>9, <1>10 DEF DeliveryInvariant

LEMMA DeliveryInvariantHolds ==
    ASSUME RunsFit
    PROVE  DeliverySpec => []DeliveryInvariant
<1>1. DeliveryInvariant /\ [DeliveryNext]_deliveryVars => DeliveryInvariant'
  BY DeliveryInvariantNext
<1> QED
  BY <1>1, DeliveryInvariantInit, PTL DEF DeliverySpec

\* Five attempts and one per crash, and a copy arrives twice only if a crash
\* forgot the first, for every number of alerts and of runs side by side, as
\* long as the sends of a run fit between two ticks (alert-manager.ts:96-100,
\* 123-137, 139-201, alerts.ts:259-302).
THEOREM AttemptBudgetHolds == RunsFit => (DeliverySpec => []AttemptBudget)
<1> SUFFICES ASSUME RunsFit PROVE DeliverySpec => []AttemptBudget
  OBVIOUS
<1>1. DeliveryInvariant => AttemptBudget
  BY DEF DeliveryInvariant, Budget, AttemptBudget
<1>2. DeliverySpec => []DeliveryInvariant
  BY DeliveryInvariantHolds
<1> QED
  BY <1>1, <1>2, PTL

-----------------------------------------------------------------------------
(* Alert delivery keeps the courier's promise *)

\* What a busy worker sends or stores is owed.
LEMMA SentIsOwed ==
    ASSUME DeliveryTypes, NEW w \in Workers, couriers[w].at \in {"sending", "store"}
    PROVE  Current(w) \in Owed
<1>1. couriers[w].at # "idle" /\ Current(w) \in alertIds
  BY BusyWorker
<1> QED
  BY <1>1 DEF Owed, Busy

\* A step that puts nothing on the schedule, in anybody's hands or on its way
\* that was not owed.
LEMMA OwedShrinks ==
    ASSUME UNCHANGED <<alertIds, told>>,
           \A a \in Present' : alertRows'[a].due # Null =>
              \/ a \in Owed
              \/ /\ OnSchedule(a)
                 /\ ~alertRows'[a].acked => ~alertRows[a].acked,
           \A a \in alertIds : Held(a)' => Held(a) \/ a \in Owed,
           \A w \in Workers :
              couriers'[w].at \in {"sending", "store"} => Current(w)' \in Owed
    PROVE  Owed' \subseteq Owed /\ Promise!Next
<1>1. ASSUME NEW a \in Owed' PROVE a \in Owed
  <2>1. a \in alertIds
    BY DEF Owed
  <2>2. CASE OnSchedule(a)' /\ (~alertRows'[a].acked \/ Held(a)')
    <3>1. a \in Present' /\ alertRows'[a].due # Null
      BY <2>2 DEF OnSchedule
    <3> QED
      BY <2>1, <2>2, <3>1 DEF Owed
  <2>3. CASE \E w \in Busy' : couriers'[w].at \in {"sending", "store"} /\ Current(w)' = a
    BY <2>3 DEF Busy
  <2> QED
    BY <2>2, <2>3 DEF Owed
<1>2. Owed \subseteq alertIds
  BY DEF Owed
<1> DEFINE gone == Owed \ Owed'
<1>3. Promise!Close(gone)
  BY <1>1, <1>2 DEF Promise!Close
<1>4. gone \in SUBSET Owed
  OBVIOUS
<1> HIDE DEF gone
<1> QED
  BY <1>1, <1>3, <1>4 DEF Promise!Next

\* A step of one worker that takes nothing more in its hands.
LEMMA HeldByOne ==
    ASSUME NEW w \in Workers, couriers[w].at # "idle",
           \A v \in Workers \ {w} : couriers'[v] = couriers[v],
           couriers'[w].at # "idle" => InQueue(w)' \subseteq InQueue(w)
    PROVE  \A a : Held(a)' => Held(a)
<1> SUFFICES ASSUME NEW a, Held(a)' PROVE Held(a)
  OBVIOUS
<1>1. PICK v \in Workers : v \in Busy' /\ a \in InQueue(v)'
  BY DEF Held, Holds, InQueue
<1>2. couriers'[v].at # "idle"
  BY <1>1 DEF Busy
<1>3. v \in Busy /\ a \in InQueue(v)
  BY <1>1, <1>2 DEF Busy, InQueue
<1> QED
  BY <1>3 DEF Held, Holds, InQueue

\* A worker goes on: nothing new in its hands, and what it sends is owed.
LEMMA WorkerOwes ==
    ASSUME DeliveryTypes, NEW w \in Workers, couriers[w].at # "idle",
           UNCHANGED <<alertIds, told>>, Present' = Present,
           \A v \in Workers \ {w} : couriers'[v] = couriers[v],
           couriers'[w].at # "idle" => InQueue(w)' \subseteq InQueue(w),
           couriers'[w].at \in {"sending", "store"} => Current(w)' \in Owed,
           \A a \in Present :
              \/ a \in Owed
              \/ /\ alertRows'[a].due = alertRows[a].due
                 /\ alertRows'[a].acked = alertRows[a].acked
    PROVE  Promise!Next
<1>1. \A a : Held(a)' => Held(a)
  BY HeldByOne
<1>2. \A v \in Workers :
        couriers'[v].at \in {"sending", "store"} => Current(v)' \in Owed
  <2> TAKE v \in Workers
  <2>1. CASE v = w
    BY <2>1
  <2>2. CASE v # w
    <3>1. couriers'[v] = couriers[v] /\ Current(v)' = Current(v)
      BY <2>2 DEF Current
    <3> QED
      BY <3>1, SentIsOwed
  <2> QED
    BY <2>1, <2>2
<1>3. \A a \in Present' : alertRows'[a].due # Null =>
              \/ a \in Owed
              \/ /\ OnSchedule(a)
                 /\ ~alertRows'[a].acked => ~alertRows[a].acked
  BY DEF OnSchedule
<1> QED
  BY <1>1, <1>2, <1>3, OwedShrinks

\* Done with an alert, a worker holds less.
LEMMA DoneOwes ==
    ASSUME DeliveryTypes, NEW w \in Workers, couriers[w].at # "idle",
           UNCHANGED <<alertIds, told>>, Present' = Present,
           couriers' = [couriers EXCEPT ![w] = After(w)],
           \A a \in Present :
              /\ alertRows'[a].due = alertRows[a].due
              /\ alertRows'[a].acked = alertRows[a].acked
    PROVE  Promise!Next
<1>1. /\ couriers'[w] = After(w)
      /\ \A v \in Workers \ {w} : couriers'[v] = couriers[v]
  BY DEF DeliveryTypes
<1>2. /\ Range(After(w).queue) = Rest(w) /\ Rest(w) \subseteq InQueue(w)
      /\ After(w).at \notin {"sending", "store"}
  BY AfterLeaves DEF Rest
<1>3. InQueue(w)' \subseteq InQueue(w)
  BY <1>1, <1>2 DEF InQueue
<1> QED
  BY <1>1, <1>2, <1>3, WorkerOwes

LEMMA RecordOwes ==
    ASSUME DeliveryInvariant, NEW a \in Alerts, RecordAlert(a)
    PROVE  Promise!Next
<1> DEFINE w == <<"first", a>>
<1>1. /\ DeliveryTypes /\ a \notin alertIds /\ alertIds' = alertIds \cup {a}
      /\ alertRows' = [b \in Present \cup {a} |-> IF b = a THEN NewRow ELSE alertRows[b]]
      /\ couriers' = [couriers EXCEPT ![w] =
                        [IdleWorker EXCEPT !.at = "read", !.queue = <<a>>,
                                           !.muted = muted]]
      /\ UNCHANGED told
      /\ w \in Workers /\ couriers[w].at = "idle"
  BY DEF RecordAlert, DeliveryInvariant, Unraised, Workers, Firsts
<1>2. /\ DOMAIN couriers' = Workers
      /\ \A v \in Workers \ {w} : couriers'[v] = couriers[v]
      /\ couriers'[w].at = "read" /\ couriers'[w].queue = <<a>>
  BY <1>1 DEF DeliveryTypes, IdleWorker
<1>3. /\ Present' = Present \cup {a} /\ alertRows'[a] = NewRow
      /\ \A b \in Present \ {a} : alertRows'[b] = alertRows[b]
      /\ Present \subseteq alertIds
  BY <1>1 DEF Present, DeliveryTypes
<1>4. NewRow.due # Null /\ NewRow.acked = FALSE
  <2>1. NewRow.due = (IF NextRetry(1) = Null THEN TickPeriod ELSE NextRetry(1))
        /\ NewRow.acked = FALSE
    BY DEF NewRow
  <2>2. NewRow.due \in {TickPeriod, RetryInterval}
    BY <2>1 DEF NextRetry
  <2> QED
    BY <2>1, <2>2, DeliveryAssumption, NullAssumption
<1> HIDE DEF w
<1>5. Range(<<a>>) = {a}
  BY DEF Range
<1>6. ASSUME NEW b \in alertIds PROVE (b \in Owed)' <=> b \in Owed
  <2>1. OnSchedule(b)' <=> OnSchedule(b)
    BY <1>1, <1>3 DEF OnSchedule
  <2>2. OnSchedule(b) => alertRows'[b] = alertRows[b]
    BY <1>1, <1>3 DEF OnSchedule
  <2>3. \A v \in Workers : Holds(v, b)' <=> Holds(v, b)
    <3> TAKE v \in Workers
    <3>1. CASE v = w
      <4>1. ~Holds(w, b)
        BY <1>1 DEF Holds, Busy
      <4>2. ~Holds(w, b)'
        BY <1>1, <1>2, <1>5 DEF Holds
      <4> QED
        BY <3>1, <4>1, <4>2
    <3>2. CASE v # w
      BY <1>2, <3>2 DEF Holds, Busy
    <3> QED
      BY <3>1, <3>2
  <2>4. Held(b)' <=> Held(b)
    BY <2>3 DEF Held
  <2>5. ASSUME NEW v \in Workers
        PROVE  (v \in Busy' /\ couriers'[v].at \in {"sending", "store"} /\ Current(v)' = b)
                  <=> (v \in Busy /\ couriers[v].at \in {"sending", "store"} /\ Current(v) = b)
    BY <1>1, <1>2 DEF Busy, Current
  <2>6. (\E v \in Busy' : couriers'[v].at \in {"sending", "store"} /\ Current(v)' = b)
           <=> (\E v \in Busy : couriers[v].at \in {"sending", "store"} /\ Current(v) = b)
    BY <2>5 DEF Busy
  <2> QED
    BY <1>1, <2>1, <2>2, <2>4, <2>6 DEF Owed
<1>7. a \in Owed'
  BY <1>1, <1>3, <1>4 DEF Owed, OnSchedule
<1>8. Owed \subseteq alertIds /\ Owed' \subseteq alertIds'
  BY DEF Owed
<1>9. Owed' = Owed \cup {a}
  BY <1>1, <1>6, <1>7, <1>8
<1>10. Promise!Raise(a)
  BY <1>1, <1>8, <1>9 DEF Promise!Raise
<1> QED
  BY <1>10 DEF Promise!Next

LEMMA StartOwes ==
    ASSUME DeliveryInvariant, NEW r \in Runs, StartRetries(r)
    PROVE  Promise!Next
<1> DEFINE w == <<"retry", r>>
<1>1. /\ DeliveryTypes /\ w \in Workers /\ DOMAIN couriers = Workers
      /\ Due \subseteq alertIds /\ alertIds \subseteq Alerts /\ IsFiniteSet(Alerts)
      /\ UNCHANGED <<alertRows, alertIds, told>> /\ Present' = Present
  BY DeliveryAssumption
     DEF StartRetries, DeliveryInvariant, DeliveryTypes, Workers, Retries, Due, Present
<1>2. PICK queue \in SetToSeqs(Due) :
          couriers' = IF queue = <<>> THEN couriers
                      ELSE [couriers EXCEPT ![w] =
                               [IdleWorker EXCEPT !.at = "read", !.queue = queue,
                                                  !.muted = muted]]
  BY DEF StartRetries
<1>3. Range(queue) \subseteq Due
  BY <1>1, QueueOfDue
<1>4. Due \subseteq Owed
  <2>1. \A a \in Due : a \in Present /\ alertRows[a].due # Null /\ ~alertRows[a].acked
    BY NullAssumption DEF Due
  <2> QED
    BY <1>1, <2>1 DEF Owed, OnSchedule
<1>5. /\ \A v \in Workers \ {w} : couriers'[v] = couriers[v]
      /\ \/ couriers'[w] = couriers[w]
         \/ couriers'[w].at = "read" /\ couriers'[w].queue = queue
  BY <1>1, <1>2 DEF IdleWorker
<1> HIDE DEF w
<1>6. ASSUME NEW a \in alertIds, Held(a)' PROVE Held(a) \/ a \in Owed
  <2>1. PICK v \in Workers : v \in Busy' /\ a \in Range(couriers'[v].queue)
    BY <1>6 DEF Held, Holds
  <2>2. CASE couriers'[v] = couriers[v]
    BY <2>1, <2>2 DEF Held, Holds, Busy
  <2>3. CASE couriers'[v].queue = queue
    BY <1>3, <1>4, <2>1, <2>3
  <2> QED
    BY <1>5, <2>2, <2>3
<1>7. ASSUME NEW v \in Workers, couriers'[v].at \in {"sending", "store"}
      PROVE  Current(v)' \in Owed
  <2>1. couriers'[v] = couriers[v] /\ Current(v)' = Current(v)
    BY <1>5, <1>7 DEF Current
  <2> QED
    BY <1>1, <1>7, <2>1, SentIsOwed
<1>8. \A a \in Present' : alertRows'[a].due # Null =>
              \/ a \in Owed
              \/ /\ OnSchedule(a)
                 /\ ~alertRows'[a].acked => ~alertRows[a].acked
  BY <1>1 DEF OnSchedule
<1> QED
  BY <1>1, <1>6, <1>7, <1>8, OwedShrinks

\* The operator, the retention and a crash only close alerts.
LEMMA QuietOwes ==
    ASSUME DeliveryTypes, UNCHANGED <<alertIds, told>>, Present' \subseteq Present,
           \A a \in Present' : /\ alertRows'[a].due # Null => alertRows[a].due # Null
                               /\ ~alertRows'[a].acked => ~alertRows[a].acked,
           \A w \in Workers : \/ couriers'[w].at = "idle"
                              \/ /\ couriers'[w].at = couriers[w].at
                                 /\ couriers'[w].queue = couriers[w].queue
    PROVE  Promise!Next
<1>1. ASSUME NEW a, Held(a)' PROVE Held(a)
  <2>1. PICK v \in Workers : v \in Busy' /\ a \in Range(couriers'[v].queue)
    BY <1>1 DEF Held, Holds
  <2> QED
    BY <2>1 DEF Held, Holds, Busy
<1>2. ASSUME NEW w \in Workers, couriers'[w].at \in {"sending", "store"}
      PROVE  Current(w)' \in Owed
  <2>1. couriers[w].at \in {"sending", "store"} /\ Current(w)' = Current(w)
    BY <1>2 DEF Current
  <2> QED
    BY <2>1, SentIsOwed
<1>3. \A a \in Present' : alertRows'[a].due # Null =>
              /\ OnSchedule(a)
              /\ ~alertRows'[a].acked => ~alertRows[a].acked
  BY DEF OnSchedule
<1> QED
  BY <1>1, <1>2, <1>3, OwedShrinks

\* A copy arrives while the alert is owed, and leaves it owed.
LEMMA AnswerTells ==
    ASSUME DeliveryInvariant, NEW w \in Workers, Answered(w)
    PROVE  Promise!Next
<1>1. /\ couriers[w].at = "sending"
      /\ couriers' = [couriers EXCEPT ![w].at = "store", ![w].verdict = "sent",
                                      ![w].wait = 0]
      /\ told' = [told EXCEPT ![Current(w)] = @ + 1]
      /\ UNCHANGED <<alertRows, alertIds>>
  BY DEF Answered
<1>2. /\ DeliveryTypes /\ DOMAIN couriers = Workers /\ WorkerShape(couriers[w])
      /\ Current(w) \in Alerts /\ Current(w) \in Owed
  BY <1>1, BusyWorker, SentIsOwed DEF DeliveryInvariant, DeliveryTypes
<1>3. \A v \in Workers :
        /\ couriers'[v].queue = couriers[v].queue
        /\ \/ couriers'[v].at = couriers[v].at
           \/ couriers'[v].at = "store" /\ couriers[v].at = "sending"
  <2>1. couriers'[w].queue = couriers[w].queue /\ couriers'[w].at = "store"
    BY <1>1, <1>2 DEF WorkerShape
  <2>2. \A v \in Workers \ {w} : couriers'[v] = couriers[v]
    BY <1>1, <1>2
  <2> QED
    BY <1>1, <2>1, <2>2
<1>4. \A v \in Workers : /\ v \in Busy' <=> v \in Busy
                         /\ Current(v)' = Current(v)
                         /\ couriers'[v].at \in {"sending", "store"}
                               <=> couriers[v].at \in {"sending", "store"}
  <2> TAKE v \in Workers
  <2>1. /\ couriers'[v].queue = couriers[v].queue
        /\ couriers'[v].at = "idle" <=> couriers[v].at = "idle"
        /\ couriers'[v].at \in {"sending", "store"}
              <=> couriers[v].at \in {"sending", "store"}
    BY <1>3
  <2> QED
    BY <2>1 DEF Busy, Current
<1>5. \A a : Held(a)' <=> Held(a)
  BY <1>3, <1>4 DEF Held, Holds
<1>6. \A a : OnSchedule(a)' <=> OnSchedule(a)
  BY <1>1 DEF OnSchedule, Present
<1>7. \A a : (\E v \in Busy' : couriers'[v].at \in {"sending", "store"} /\ Current(v)' = a)
                <=> (\E v \in Busy : couriers[v].at \in {"sending", "store"} /\ Current(v) = a)
  BY <1>4 DEF Busy
<1>8. \A a : a \in Owed' <=> a \in Owed
  BY <1>1, <1>5, <1>6, <1>7 DEF Owed
<1>9. Owed' = Owed
  BY <1>8
<1> PICK c \in Alerts : c = Current(w)
  BY <1>2
<1>10. Promise!Tell(c)
  BY <1>1, <1>2, <1>9 DEF Promise!Tell
<1> QED
  BY <1>10 DEF Promise!Next

LEMMA WorkOwes ==
    ASSUME DeliveryInvariant, NEW w \in Workers, Work(w)
    PROVE  Promise!Next
<1>1. DeliveryTypes /\ Hand(w) /\ DOMAIN couriers = Workers /\ WorkerShape(couriers[w])
  BY DEF DeliveryInvariant, DeliveryTypes
<1>2. CASE Read(w)
  <2>1. /\ couriers[w].at = "read" /\ UNCHANGED <<alertRows, alertIds, told>>
        /\ Present' = Present
    BY <1>2 DEF Read, Present
  <2>2. CASE Current(w) \notin Present
    <3>1. couriers' = [couriers EXCEPT ![w] = After(w)]
      BY <1>2, <2>2 DEF Read
    <3> QED
      BY <1>1, <2>1, <3>1, DoneOwes
  <2>3. CASE Current(w) \in Present
    <3>1. /\ couriers'[w].queue = couriers[w].queue
          /\ \A v \in Workers \ {w} : couriers'[v] = couriers[v]
      BY <1>1, <1>2, <2>3 DEF Read, WorkerShape
    <3>2. Current(w) \in Owed
      <4>1. Fresh(Current(w)) /\ Current(w) \in alertIds /\ Current(w) \in InQueue(w)
        BY <1>1, <2>1, BusyWorker DEF Hand, AtRead
      <4>2. w \in Busy /\ Held(Current(w))
        BY <2>1, <4>1 DEF Held, Holds, Busy, InQueue
      <4> QED
        BY <2>3, <4>1, <4>2 DEF Owed, OnSchedule, Fresh
    <3>3. InQueue(w)' = InQueue(w) /\ Current(w)' = Current(w)
      BY <3>1 DEF InQueue, Current
    <3> QED
      BY <1>1, <2>1, <3>1, <3>2, <3>3, WorkerOwes
  <2> QED
    BY <2>2, <2>3
<1>3. CASE Answered(w)
  BY <1>3, AnswerTells
<1>4. CASE Unanswered(w)
  <2>1. /\ couriers[w].at = "sending" /\ UNCHANGED <<alertRows, alertIds, told>>
        /\ Present' = Present
    BY <1>4 DEF Unanswered, Present
  <2>2. /\ couriers'[w].queue = couriers[w].queue
        /\ \A v \in Workers \ {w} : couriers'[v] = couriers[v]
    BY <1>1, <1>4 DEF Unanswered, WorkerShape
  <2>3. InQueue(w)' = InQueue(w) /\ Current(w)' = Current(w)
    BY <2>2 DEF InQueue, Current
  <2>4. Current(w) \in Owed
    BY <1>1, <2>1, SentIsOwed
  <2> QED
    BY <1>1, <2>1, <2>2, <2>3, <2>4, WorkerOwes
<1>5. CASE Store(w)
  <2>1. /\ couriers[w].at = "store" /\ UNCHANGED <<alertIds, told>>
        /\ Present' = Present
        /\ \A a \in Present \ {Current(w)} : alertRows'[a] = alertRows[a]
    BY <1>5 DEF Store, Present
  <2>2. /\ couriers'[w].queue = couriers[w].queue
        /\ couriers'[w].at = "count"
        /\ \A v \in Workers \ {w} : couriers'[v] = couriers[v]
    BY <1>1, <1>5 DEF Store, WorkerShape
  <2>3. InQueue(w)' = InQueue(w)
    BY <2>2 DEF InQueue
  <2>4. Current(w) \in Owed
    BY <1>1, <2>1, SentIsOwed
  <2> QED
    BY <1>1, <2>1, <2>2, <2>3, <2>4, WorkerOwes
<1>6. CASE Count(w)
  <2>1. /\ couriers[w].at = "count" /\ UNCHANGED <<alertIds, told>>
        /\ Present' = Present
    BY <1>6 DEF Count, Present
  <2>2. \A a \in Present : /\ alertRows'[a].due = alertRows[a].due
                           /\ alertRows'[a].acked = alertRows[a].acked
    <3> TAKE a \in Present
    <3>1. RowShape(alertRows[a])
      BY <1>1 DEF DeliveryTypes
    <3>2. alertRows'[a] = alertRows[a]
          \/ alertRows'[a] = [alertRows[a] EXCEPT !.attempts = @ + 1]
      BY <1>6 DEF Count, Counted
    <3> QED
      BY <3>1, <3>2 DEF RowShape
  <2>3. CASE couriers[w].verdict = "gave_up"
    <3>1. /\ couriers'[w].queue = couriers[w].queue
          /\ couriers'[w].at = "farewell"
          /\ \A v \in Workers \ {w} : couriers'[v] = couriers[v]
      BY <1>1, <1>6, <2>3 DEF Count, WorkerShape
    <3>2. InQueue(w)' = InQueue(w)
      BY <3>1 DEF InQueue
    <3> QED
      BY <1>1, <2>1, <2>2, <3>1, <3>2, WorkerOwes
  <2>4. CASE couriers[w].verdict # "gave_up"
    <3>1. couriers' = [couriers EXCEPT ![w] = After(w)]
      BY <1>6, <2>4 DEF Count
    <3> QED
      BY <1>1, <2>1, <2>2, <3>1, DoneOwes
  <2> QED
    BY <2>3, <2>4
<1>7. CASE Farewell(w)
  <2>1. /\ couriers[w].at = "farewell" /\ UNCHANGED <<alertRows, alertIds, told>>
        /\ Present' = Present
        /\ couriers' = [couriers EXCEPT ![w] = After(w)]
    BY <1>7 DEF Farewell, Present
  <2> QED
    BY <1>1, <2>1, DoneOwes
<1> QED
  BY <1>2, <1>3, <1>4, <1>5, <1>6, <1>7 DEF Work

\* The remaining steps: somebody looks, deletes, dies or waits.
LEMMA RestOwes ==
    ASSUME DeliveryInvariant,
           \/ \E a \in Alerts : Acknowledge(a) \/ ReceiveTap(a)
           \/ AcknowledgeAll \/ ToggleMute \/ PruneAlerts
           \/ CrashDelivery \/ AdvanceDelivery
    PROVE  Promise!Next
<1>1. DeliveryTypes /\ \A a \in Present : RowShape(alertRows[a])
  BY DEF DeliveryInvariant, DeliveryTypes
<1>2. UNCHANGED <<alertIds, told>>
  BY DEF Acknowledge, ReceiveTap, AcknowledgeAll, ToggleMute, PruneAlerts,
         CrashDelivery, AdvanceDelivery
<1>3. /\ Present' \subseteq Present
      /\ \A a \in Present' :
            \/ alertRows'[a] = alertRows[a]
            \/ alertRows'[a] = [alertRows[a] EXCEPT !.acked = TRUE]
            \/ alertRows'[a] = [alertRows[a] EXCEPT !.due = Sooner(@)]
  <2>1. CASE \E a \in Alerts : Acknowledge(a) \/ ReceiveTap(a)
    <3> PICK a \in Present :
          alertRows' = [alertRows EXCEPT ![a] = [alertRows[a] EXCEPT !.acked = TRUE]]
      BY <2>1 DEF Acknowledge, ReceiveTap, Seen
    <3> QED
      BY DEF Present
  <2>2. CASE AcknowledgeAll \/ ToggleMute \/ CrashDelivery \/ AdvanceDelivery
    BY <2>2 DEF AcknowledgeAll, ToggleMute, CrashDelivery, AdvanceDelivery, Present
  <2>3. CASE PruneAlerts
    <3>1. PICK old : alertRows' = [a \in Present \ old |-> alertRows[a]]
      BY <2>3 DEF PruneAlerts
    <3> QED
      BY <3>1 DEF Present
  <2> QED
    BY <2>1, <2>2, <2>3
<1>4. \A a \in Present' : /\ alertRows'[a].due # Null => alertRows[a].due # Null
                          /\ ~alertRows'[a].acked => ~alertRows[a].acked
  <2> TAKE a \in Present'
  <2>1. RowShape(alertRows[a])
    BY <1>1, <1>3
  <2>2. CASE alertRows'[a] = alertRows[a]
    BY <2>2
  <2>3. CASE alertRows'[a] = [alertRows[a] EXCEPT !.acked = TRUE]
    BY <2>1, <2>3 DEF RowShape
  <2>4. CASE alertRows'[a] = [alertRows[a] EXCEPT !.due = Sooner(@)]
    BY <2>1, <2>4 DEF RowShape, Sooner
  <2> QED
    BY <1>3, <2>2, <2>3, <2>4
<1>5. \A w \in Workers : \/ couriers'[w].at = "idle"
                         \/ /\ couriers'[w].at = couriers[w].at
                            /\ couriers'[w].queue = couriers[w].queue
  <2> TAKE w \in Workers
  <2>1. CASE CrashDelivery
    BY <2>1, IdleShape DEF CrashDelivery
  <2>2. CASE AdvanceDelivery
    <3>1. WorkerShape(couriers[w])
      BY <1>1 DEF DeliveryTypes
    <3>2. couriers'[w] = couriers[w]
          \/ couriers'[w] = [couriers[w] EXCEPT !.wait = @ + 1,
                                                !.age = Older(@, RetryInterval)]
      BY <2>2 DEF AdvanceDelivery
    <3> QED
      BY <3>1, <3>2 DEF WorkerShape
  <2>3. CASE ~CrashDelivery /\ ~AdvanceDelivery
    <3>1. UNCHANGED couriers
      BY <2>3 DEF Acknowledge, ReceiveTap, AcknowledgeAll, ToggleMute, PruneAlerts
    <3> QED
      BY <3>1
  <2> QED
    BY <2>1, <2>2, <2>3
<1> QED
  BY <1>1, <1>2, <1>3, <1>4, <1>5, QuietOwes

LEMMA PromiseStep ==
    ASSUME DeliveryInvariant, [DeliveryNext]_deliveryVars
    PROVE  [Promise!Next]_Promise!vars
<1>1. CASE UNCHANGED deliveryVars
  BY <1>1 DEF deliveryVars, Promise!vars, Owed, OnSchedule, Held, Holds, Busy,
              Present, Current
<1>2. CASE \E a \in Alerts : RecordAlert(a)
  BY <1>2, RecordOwes
<1>3. CASE \E r \in Runs : StartRetries(r)
  BY <1>3, StartOwes
<1>4. CASE \E w \in Workers : Work(w)
  BY <1>4, WorkOwes
<1>5. CASE \/ \E a \in Alerts : Acknowledge(a) \/ ReceiveTap(a)
           \/ AcknowledgeAll \/ ToggleMute \/ PruneAlerts
           \/ CrashDelivery \/ AdvanceDelivery
  BY <1>5, RestOwes
<1> QED
  BY <1>1, <1>2, <1>3, <1>4, <1>5 DEF DeliveryNext

\* The alerts table and the workers of any number of alerts and runs implement
\* the courier: delivered, given up on, seen or deleted means not sent again,
\* across retries, taps, the retention, mutes and crashes (alerts.ts:304-327).
THEOREM KeepsCouriersPromise == RunsFit => (DeliverySpec => CourierSpec)
<1> SUFFICES ASSUME RunsFit PROVE DeliverySpec => CourierSpec
  OBVIOUS
<1>1. DeliveryInit => Promise!Init
  <2> SUFFICES ASSUME DeliveryInit PROVE Promise!Init
    OBVIOUS
  <2>1. alertIds = {} /\ told = [a \in Alerts |-> 0]
    BY DEF DeliveryInit
  <2>2. Owed = {}
    BY <2>1 DEF Owed
  <2> QED
    BY <2>1, <2>2 DEF Promise!Init
<1>2. DeliveryInvariant /\ [DeliveryNext]_deliveryVars => [Promise!Next]_Promise!vars
  BY PromiseStep
<1>3. DeliverySpec => []DeliveryInvariant
  BY DeliveryInvariantHolds
<1> QED
  BY <1>1, <1>2, <1>3, PTL DEF DeliverySpec, CourierSpec, Promise!Spec

-----------------------------------------------------------------------------
(* Dynamic DNS: types *)

DdnsTyping ==
    /\ DdnsTypes
    /\ lastPush \in [ip : Addresses \cup {Null}, age : 0..Heartbeat]
    /\ \A n \in Names : dns[n] \in Addresses \cup {Null}

\* What is remembered of a push is an address, and so is what a name resolves to.
LEMMA DdnsTypingNext ==
    ASSUME DdnsTyping, [DdnsNext]_ddnsVars
    PROVE  DdnsTyping'
<1>1. DdnsTypes
  BY DEF DdnsTyping
<1>2. DdnsTypes'
  <2>1. CASE DdnsNext
    BY <1>1, <2>1, DdnsTypesNext
  <2>2. CASE UNCHANGED ddnsVars
    BY <1>1, <2>2 DEF ddnsVars, DdnsTypes
  <2> QED
    BY <2>1, <2>2
<1>3. CASE \E n \in Names : RecordExternalPush(n)
  <2> PICK n \in Names : RecordExternalPush(n)
    BY <1>3
  <2>1. /\ lastPush' = [ip |-> ipSnapshot, age |-> 0]
        /\ dns' = [dns EXCEPT ![n] = ipSnapshot]
        /\ ipSnapshot \in Addresses \cup {Null}
        /\ DOMAIN dns = Names
    BY <1>1 DEF RecordExternalPush, DdnsTypes
  <2> QED
    BY <1>2, <2>1, DdnsAssumption DEF DdnsTyping
<1>4. CASE \E p \in Pushes : Accept(p)
  <2> PICK p \in Pushes : Accept(p)
    BY <1>4
  <2>1. /\ lastPush' = lastPush
        /\ dns' = [dns EXCEPT ![outbox[p].name] = outbox[p].ip]
        /\ outbox[p].at = "out"
    BY DEF Accept
  <2>2. outbox[p].ip \in Addresses
    BY <1>1, <2>1 DEF DdnsTypes, PushShape
  <2> QED
    BY <1>1, <1>2, <2>1, <2>2 DEF DdnsTyping, DdnsTypes
<1>5. CASE \E p \in Pushes : PushAnswered(p) \/ PushFails(p)
  <2> PICK p \in Pushes : PushAnswered(p) \/ PushFails(p)
    BY <1>5
  <2>1. dns' = dns
    BY DEF PushAnswered, PushFails
  <2>2. CASE PushAnswered(p)
    <3>1. outbox[p].at = "accepted" /\ lastPush' = [ip |-> outbox[p].ip, age |-> 0]
      BY <2>2 DEF PushAnswered, Recorded
    <3>2. outbox[p].ip \in Addresses
      BY <1>1, <3>1 DEF DdnsTypes, PushShape
    <3> QED
      BY <1>2, <2>1, <3>1, <3>2, DdnsAssumption DEF DdnsTyping
  <2>3. CASE PushFails(p)
    <3>1. outbox[p].at # "idle"
      BY <2>3 DEF PushFails
    <3>2. PushShape(outbox[p])
      BY <1>1 DEF DdnsTypes
    <3>3. [outbox[p] EXCEPT !.at = "failed"].at = "failed"
      BY <3>1, <3>2 DEF PushShape
    <3>4. lastPush' = lastPush
      BY <2>3, <3>3 DEF PushFails, Recorded
    <3> QED
      BY <1>2, <2>1, <3>4 DEF DdnsTyping
  <2> QED
    BY <2>2, <2>3
<1>6. CASE CrashDdns
  BY <1>2, <1>6, DdnsAssumption DEF CrashDdns, Never, DdnsTyping
<1>7. CASE Rotate \/ RefreshIp \/ EditDdns \/ DdnsTimer \/ UNCHANGED ddnsVars
  <2>1. dns' = dns
    BY <1>7 DEF Rotate, RefreshIp, EditDdns, DdnsTimer, ddnsVars
  <2>2. lastPush' \in [ip : Addresses \cup {Null}, age : 0..Heartbeat]
    <3>1. CASE DdnsTimer
      BY <3>1, OlderAge DEF DdnsTimer, DdnsTyping
    <3>2. CASE lastPush' = lastPush
      BY <3>2 DEF DdnsTyping
    <3> QED
      BY <1>7, <3>1, <3>2 DEF Rotate, RefreshIp, EditDdns, ddnsVars
  <2> QED
    BY <1>2, <2>1, <2>2 DEF DdnsTyping
<1> QED
  BY <1>3, <1>4, <1>5, <1>6, <1>7 DEF DdnsNext

LEMMA DdnsTypingInit == DdnsInit => DdnsTyping
BY DdnsInvariantInit, DdnsAssumption DEF DdnsInit, DdnsInvariant, DdnsTyping, Never

LEMMA DdnsTyped ==
    ASSUME DdnsTyping
    PROVE  DdnsType
<1>1. DdnsTypes
  BY DEF DdnsTyping
<1>2. \A p \in Pushes : outbox[p].at \in {"idle", "out", "accepted"}
  BY <1>1 DEF DdnsTypes, PushShape
<1> QED
  BY <1>1, <1>2 DEF DdnsType, DdnsTyping, DdnsTypes

\* Names resolve to addresses the line has had, and what the updater remembers
\* of its last push is never older than the heartbeat (ddns-updater.ts:10-13).
THEOREM DdnsTypeHolds == DdnsSpec => []DdnsType
<1> QED
  BY DdnsTypingInit, DdnsTypingNext, DdnsTyped, PTL DEF DdnsSpec

-----------------------------------------------------------------------------
(* Deposits: types *)

WatcherTypes ==
    /\ DepositBudget
    /\ Excuses
    /\ overlaps <= MaxOverlaps

LEMMA WatcherTypesNext ==
    ASSUME WatcherTypes, [WatcherNext]_watcherVars
    PROVE  WatcherTypes'
<1>1. DepositBudget' /\ Excuses'
  BY DepositBudgetNext, ExcusesNext DEF WatcherTypes, DepositBudget
<1>2. overlaps \in Nat /\ MaxOverlaps \in Nat
  BY WatcherAssumption DEF WatcherTypes, DepositBudget, DepositTypes
<1>3. overlaps' = overlaps \/ (overlaps < MaxOverlaps /\ overlaps' = overlaps + 1)
  <2>1. CASE \E p \in Polls : StartPoll(p)
    BY <1>2, <2>1 DEF StartPoll
  <2>2. CASE overlaps' = overlaps
    BY <2>2
  <2> QED
    BY <2>1, <2>2 DEF WatcherNext, Deposit, MoveOn, ToggleDeposits, ToggleKind, PollFails,
       Polled, Walk, UpsertSeen, Absorb, Announce, Flag, AnnounceFails, CrashWatcher,
       watcherVars
<1>4. overlaps' <= MaxOverlaps
  BY <1>2, <1>3 DEF WatcherTypes
<1> QED
  BY <1>1, <1>4 DEF WatcherTypes

LEMMA WatcherTypesInit == WatcherInit => WatcherTypes
BY DepositBudgetInit, ExcusesInit, WatcherAssumption DEF WatcherInit, WatcherTypes

LEMMA WatcherTyped ==
    ASSUME WatcherTypes
    PROVE  WatcherType
<1>1. DepositTypes /\ Excuses
  BY DEF WatcherTypes, DepositBudget
<1>2. overlaps \in 0..MaxOverlaps
  BY <1>1, WatcherAssumption DEF WatcherTypes, DepositTypes
<1>3. \A p \in UnderWay : walks[p].at \in {"fetch", "row", "tell", "flag"}
  BY <1>1 DEF DepositTypes, WalkOf, WalkShape, Stages, UnderWay
<1> QED
  BY <1>1, <1>2, <1>3 DEF WatcherType, DepositTypes, Excuses

\* However polls overlap and crash, only deposits of the account get rows, and
\* a kind is unwanted only if the operator has switched it off
\* (braiins-deposit-watcher.ts:19-20).
THEOREM WatcherTypeHolds == WatcherSpec => []WatcherType
<1> QED
  BY WatcherTypesInit, WatcherTypesNext, WatcherTyped, PTL DEF WatcherSpec

-----------------------------------------------------------------------------
(* Blocks: types *)

\* Every block in the queue has an age, and every balance is within bounds.
CreditTyping ==
    /\ CreditInvariant
    /\ balance <= MaxBalance
    /\ \A h \in DOMAIN pending : /\ DOMAIN pending[h] = {"owed", "age"}
                                 /\ pending[h].age \in 0..Failsafe

LEMMA OlderEntry ==
    ASSUME NEW entry, DOMAIN entry = {"owed", "age"}, entry.age \in 0..Failsafe
    PROVE  /\ DOMAIN [entry EXCEPT !.age = Older(@, Failsafe)] = {"owed", "age"}
           /\ [entry EXCEPT !.age = Older(@, Failsafe)].age \in 0..Failsafe
<1>1. Older(entry.age, Failsafe) \in 0..Failsafe
  <2>1. entry.age # Null /\ Failsafe \in Nat
    BY NullAssumption, BlocksAssumption
  <2> QED
    BY <2>1 DEF Older
<1> QED
  BY <1>1

LEMMA PendingAges ==
    ASSUME CreditTyping, [CreditNext]_creditVars
    PROVE  \A h \in DOMAIN pending' : /\ DOMAIN pending'[h] = {"owed", "age"}
                                      /\ pending'[h].age \in 0..Failsafe
<1>1. CASE SkipPass
  <2>1. pending' = [h \in DOMAIN pending |->
                      [pending[h] EXCEPT !.age = Older(@, Failsafe)]]
    BY <1>1 DEF SkipPass
  <2> QED
    BY <2>1, OlderEntry DEF CreditTyping
<1>2. ASSUME NEW reading, BeginPass(reading)
      PROVE  \A h \in DOMAIN pending' : /\ DOMAIN pending'[h] = {"owed", "age"}
                                        /\ pending'[h].age \in 0..Failsafe
  <2>1. CASE pending' = pending
    BY <2>1 DEF CreditTyping
  <2>2. CASE pending' = Queue(reading)
    <3> SUFFICES ASSUME NEW h \in DOMAIN pending'
                 PROVE  /\ DOMAIN pending'[h] = {"owed", "age"}
                        /\ pending'[h].age \in 0..Failsafe
      OBVIOUS
    <3>1. Failsafe \in Nat
      BY BlocksAssumption
    <3>2. CASE h \in Unnoticed
      <4>1. pending'[h] = [owed |-> reading, age |-> 0]
        BY <2>2, <3>2 DEF Queue
      <4> QED
        BY <3>1, <4>1
    <3>3. CASE h \notin Unnoticed
      <4>1. h \in DOMAIN pending
            /\ pending'[h] = [pending[h] EXCEPT !.age = Older(@, Failsafe)]
        BY <2>2, <3>3 DEF Queue
      <4> QED
        BY <4>1, OlderEntry DEF CreditTyping
    <3> QED
      BY <3>2, <3>3
  <2> QED
    BY <1>2, <2>1, <2>2 DEF BeginPass
<1>3. CASE EndPass
  BY <1>3 DEF EndPass, Kept, CreditTyping
<1>4. CASE CrashCredits
  <2>1. DOMAIN pending' = {}
    BY <1>4 DEF CrashCredits
  <2> QED
    BY <2>1
<1>5. CASE pending' = pending
  BY <1>5 DEF CreditTyping
<1> QED
  BY <1>1, <1>2, <1>3, <1>4, <1>5 DEF CreditNext, Pass, MineBlock, CreditBlock, PayOut,
     StoreNewest, BackfillPage, BackfillFails, ToggleCredits, AnnounceBlock,
     AnnouncementFails, memoryOf, creditVars

LEMMA BalanceBound ==
    ASSUME CreditTyping, [CreditNext]_creditVars
    PROVE  balance' <= MaxBalance
<1>1. balance \in Nat /\ MaxBalance \in Nat /\ balance <= MaxBalance
  BY BlocksAssumption DEF CreditTyping, CreditInvariant, CreditTypes
<1>2. \/ balance' = balance \/ balance' = 0
      \/ balance < MaxBalance /\ balance' = balance + 1
  BY DEF CreditNext, Pass, MineBlock, CreditBlock, PayOut, StoreNewest, BackfillPage,
         BackfillFails, ToggleCredits, BeginPass, SkipPass, AnnounceBlock,
         AnnouncementFails, EndPass, CrashCredits, ocean, creditVars
<1> QED
  BY <1>1, <1>2

LEMMA CreditTypingNext ==
    ASSUME CreditTyping, [CreditNext]_creditVars
    PROVE  CreditTyping'
<1>1. CreditInvariant'
  BY CreditInvariantNext DEF CreditTyping
<1> QED
  BY <1>1, PendingAges, BalanceBound DEF CreditTyping

LEMMA CreditTypingInit == CreditInit => CreditTyping
<1> SUFFICES ASSUME CreditInit PROVE CreditTyping
  OBVIOUS
<1>1. DOMAIN pending = {} /\ balance = 0 /\ MaxBalance \in Nat
  BY BlocksAssumption DEF CreditInit
<1> QED
  BY <1>1, CreditInvariantInit DEF CreditTyping

LEMMA CreditTyped ==
    ASSUME CreditTyping
    PROVE  CreditType
<1>1. CreditTypes
  BY DEF CreditTyping, CreditInvariant
<1>2. balance \in 0..MaxBalance
  BY <1>1, BlocksAssumption DEF CreditTyping, CreditTypes
<1>3. round # Null => round.left \cup round.done \subseteq DOMAIN pending
  BY <1>1 DEF CreditTypes, PassShape
<1> QED
  BY <1>1, <1>2, <1>3 DEF CreditType, CreditTyping, CreditTypes

\* Blocks wait for their credit only once the table has them, for no longer
\* than the failsafe, and a pass goes over such blocks alone, for any chain
\* and any bound on the balance (alert-evaluator.ts:902-973).
THEOREM CreditTypeHolds == CreditSpec => []CreditType
<1> QED
  BY CreditTypingInit, CreditTypingNext, CreditTyped, PTL DEF CreditSpec

-----------------------------------------------------------------------------
(* Alert delivery: types *)

Dues == 0..(RetryInterval + TickPeriod) \cup {Null}

Rows == [status : {"pending", "sent", "failed", "muted", "gave_up"},
         attempts : 0..MaxAttempts, due : Dues, acked : BOOLEAN]

DeliveryTyping ==
    /\ DeliveryInvariant
    /\ \A a \in Present : alertRows[a] \in Rows
    /\ \A w \in Workers : couriers[w].at = "count" => couriers[w].read < MaxAttempts
    /\ muted \in BOOLEAN
    /\ sinceTick <= TickPeriod
    /\ crashes <= MaxCrashes

LEMMA DueSooner ==
    ASSUME NEW due \in Dues
    PROVE  Sooner(due) \in Dues
<1>1. CASE due = Null \/ due = 0
  BY <1>1 DEF Sooner
<1>2. CASE ~(due = Null \/ due = 0)
  <2>1. Sooner(due) = due - 1 /\ due \in 0..(RetryInterval + TickPeriod)
    BY <1>2 DEF Sooner, Dues
  <2>2. due \in Int /\ due > 0 /\ due <= RetryInterval + TickPeriod
    BY <1>2, <2>1
  <2>3. RetryInterval + TickPeriod \in Int
    BY DeliveryAssumption
  <2>4. due - 1 \in 0..(RetryInterval + TickPeriod)
    BY <2>2, <2>3
  <2> QED
    BY <2>1, <2>4 DEF Dues
<1> QED
  BY <1>1, <1>2

LEMMA DueLater ==
    ASSUME NEW attempts \in Nat, NEW age \in Nat
    PROVE  Later(NextRetry(attempts), age) \in Dues
<1>1. RetryInterval \in Nat /\ TickPeriod \in Nat
  BY DeliveryAssumption
<1>2. CASE NextRetry(attempts) = Null
  BY <1>2 DEF Later, Dues
<1>3. CASE NextRetry(attempts) # Null
  <2>1. NextRetry(attempts) = RetryInterval
    BY <1>3 DEF NextRetry
  <2>2. Later(NextRetry(attempts), age) =
           IF RetryInterval > age THEN RetryInterval - age ELSE 0
    BY <1>3, <2>1 DEF Later
  <2>3. Later(NextRetry(attempts), age) \in 0..(RetryInterval + TickPeriod)
    BY <1>1, <2>2
  <2> QED
    BY <2>3 DEF Dues
<1> QED
  BY <1>2, <1>3

\* A row the operator has seen, one whose time goes by, one that is new.
LEMMA RowStays ==
    ASSUME NEW row \in Rows
    PROVE  /\ [row EXCEPT !.acked = TRUE] \in Rows
           /\ [row EXCEPT !.due = Sooner(@)] \in Rows
<1>1. Sooner(row.due) \in Dues
  BY DueSooner DEF Rows
<1> QED
  BY <1>1 DEF Rows

LEMMA NewRowTyped == NewRow \in Rows
<1>1. RetryInterval \in Nat /\ TickPeriod \in Nat /\ MaxAttempts \in Nat
  BY DeliveryAssumption
<1>2. RetryInterval \in Dues /\ TickPeriod \in Dues
  BY <1>1 DEF Dues
<1>3. NextRetry(1) \in {Null, RetryInterval}
  BY DEF NextRetry
<1>4. (IF NextRetry(1) = Null THEN TickPeriod ELSE NextRetry(1)) \in Dues
  BY <1>2, <1>3
<1> QED
  BY <1>1, <1>4 DEF NewRow, Rows

LEMMA OutcomeTyped ==
    ASSUME NEW row \in Rows, NEW worker, WorkerShape(worker), worker.verdict \in Verdicts
    PROVE  Outcome(row, worker) \in Rows
<1>1. worker.read + 1 \in Nat /\ worker.age \in Nat
  BY DEF WorkerShape
<1>2. Later(NextRetry(worker.read + 1), worker.age) \in Dues /\ Null \in Dues
  BY <1>1, DueLater DEF Dues
<1>3. PICK due \in Dues : Outcome(row, worker) = [row EXCEPT !.status = worker.verdict, !.due = due]
  BY <1>2 DEF Outcome
<1> QED
  BY <1>3 DEF Rows, Verdicts

LEMMA RowsTyped ==
    ASSUME DeliveryTyping, [DeliveryNext]_deliveryVars
    PROVE  \A a \in Present' : alertRows'[a] \in Rows
<1>1. /\ DeliveryTypes /\ \A a \in Present : alertRows[a] \in Rows
      /\ Present = DOMAIN alertRows /\ Present' = DOMAIN alertRows'
  BY DEF DeliveryTyping, DeliveryInvariant, Present
<1>2. CASE \E a \in Alerts : RecordAlert(a)
  <2>1. PICK a \in Alerts :
          alertRows' = [b \in Present \cup {a} |-> IF b = a THEN NewRow ELSE alertRows[b]]
    BY <1>2 DEF RecordAlert
  <2> QED
    BY <1>1, <2>1, NewRowTyped
<1>3. CASE \E a \in Alerts : Acknowledge(a) \/ ReceiveTap(a)
  <2>1. PICK a \in Present : alertRows' = [alertRows EXCEPT ![a].acked = TRUE]
    BY <1>3 DEF Acknowledge, ReceiveTap, Seen
  <2>2. /\ DOMAIN alertRows' = Present
        /\ alertRows'[a] = [alertRows[a] EXCEPT !.acked = TRUE]
        /\ \A b \in Present \ {a} : alertRows'[b] = alertRows[b]
    BY <1>1, <2>1
  <2> QED
    BY <1>1, <2>2, RowStays
<1>4. ASSUME NEW w \in Workers, Store(w)
      PROVE  \A a \in Present' : alertRows'[a] \in Rows
  <2>1. /\ alertRows' = [a \in Present |-> IF a = Current(w)
                              THEN Outcome(alertRows[a], couriers[w]) ELSE alertRows[a]]
        /\ couriers[w].at = "store"
    BY <1>4 DEF Store
  <2>2. WorkerShape(couriers[w]) /\ couriers[w].verdict \in Verdicts
    BY <1>1, <2>1 DEF DeliveryTypes, WorkerShape
  <2> QED
    BY <1>1, <2>1, <2>2, OutcomeTyped
<1>5. ASSUME NEW w \in Workers, Count(w)
      PROVE  \A a \in Present' : alertRows'[a] \in Rows
  <2>1. /\ alertRows' = [a \in Present |-> IF a = Current(w)
                              THEN Counted(alertRows[a], couriers[w]) ELSE alertRows[a]]
        /\ couriers[w].at = "count"
    BY <1>5 DEF Count
  <2>2. Current(w) \in Present =>
           alertRows[Current(w)].attempts = couriers[w].read /\ couriers[w].read < MaxAttempts
    BY <2>1 DEF DeliveryTyping, DeliveryInvariant, Hand, AtCount, SentOnce
  <2>3. ASSUME Current(w) \in Present
        PROVE  Counted(alertRows[Current(w)], couriers[w]) \in Rows
    <3> DEFINE row == alertRows[Current(w)]
    <3>1. row \in Rows /\ row.attempts < MaxAttempts /\ MaxAttempts \in Nat
      BY <1>1, <2>2, <2>3, DeliveryAssumption
    <3>2. Counted(row, couriers[w]) = [row EXCEPT !.attempts = row.attempts + 1]
      BY DEF Counted
    <3> HIDE DEF row
    <3>3. row.attempts + 1 \in 0..MaxAttempts
      BY <3>1 DEF Rows
    <3>4. Counted(row, couriers[w]) \in Rows
      BY <3>1, <3>2, <3>3 DEF Rows
    <3> QED
      BY <3>4 DEF row
  <2> QED
    BY <1>1, <2>1, <2>3
<1>6. CASE AcknowledgeAll
  <2>1. alertRows' = [a \in Present |-> [alertRows[a] EXCEPT !.acked = TRUE]]
    BY <1>6 DEF AcknowledgeAll
  <2> QED
    BY <1>1, <2>1, RowStays
<1>7. CASE AdvanceDelivery
  <2>1. alertRows' = [a \in Present |-> [alertRows[a] EXCEPT !.due = Sooner(@)]]
    BY <1>7 DEF AdvanceDelivery
  <2> QED
    BY <1>1, <2>1, RowStays
<1>8. CASE PruneAlerts
  BY <1>1, <1>8 DEF PruneAlerts
<1>9. CASE alertRows' = alertRows
  BY <1>1, <1>9
<1> QED
  BY <1>2, <1>3, <1>4, <1>5, <1>6, <1>7, <1>8, <1>9 DEF DeliveryNext, StartRetries, Work,
     Read, Answered, Unanswered, Farewell, ToggleMute, CrashDelivery, deliveryVars

\* A worker that counts has just stored an outcome.
LEMMA CountsBelow ==
    ASSUME DeliveryTyping, [DeliveryNext]_deliveryVars
    PROVE  \A w \in Workers : couriers'[w].at = "count" => couriers'[w].read < MaxAttempts
<1> SUFFICES ASSUME NEW w \in Workers, couriers'[w].at = "count"
             PROVE  couriers'[w].read < MaxAttempts
  OBVIOUS
<1>1. DeliveryTypes /\ DOMAIN couriers = Workers /\ WorkerShape(couriers[w])
  BY DEF DeliveryTyping, DeliveryInvariant, DeliveryTypes
<1>2. couriers'[w].read = couriers[w].read /\ couriers[w].at \in {"store", "count"}
  <2>1. CASE couriers'[w] = couriers[w]
    BY <2>1
  <2>2. ASSUME NEW v \in Workers, Work(v)
        PROVE  couriers'[w].read = couriers[w].read /\ couriers[w].at \in {"store", "count"}
    <3>1. CASE v # w
      <4>1. couriers'[w] = couriers[w]
        BY <2>2, <3>1, <1>1 DEF Work, Read, Answered, Unanswered, Store, Count, Farewell
      <4> QED
        BY <4>1
    <3>2. CASE v = w /\ Store(w)
      BY <3>2, <1>1 DEF Store, WorkerShape
    <3>3. CASE v = w /\ ~Store(w)
      <4>1. couriers[w].at # "idle"
        BY <2>2, <3>3 DEF Work, Read, Answered, Unanswered, Count, Farewell
      <4> After(w).at # "count"
        BY <1>1, <4>1, AfterLeaves
      <4>2. FALSE
        BY <2>2, <3>3, <1>1 DEF Work, Read, Answered, Unanswered, Count, Farewell, WorkerShape
      <4> QED
        BY <4>2
    <3> QED
      BY <3>1, <3>2, <3>3
  <2>3. CASE AdvanceDelivery
    BY <2>3, <1>1 DEF AdvanceDelivery, WorkerShape
  <2>4. CASE CrashDelivery
    BY <2>4 DEF CrashDelivery, IdleWorker
  <2>5. CASE \E a \in Alerts : RecordAlert(a)
    BY <2>5, <1>1 DEF RecordAlert, IdleWorker
  <2>6. CASE \E r \in Runs : StartRetries(r)
    BY <2>6, <1>1 DEF StartRetries, IdleWorker
  <2> QED
    BY <2>1, <2>2, <2>3, <2>4, <2>5, <2>6 DEF DeliveryNext, Acknowledge, ReceiveTap,
       AcknowledgeAll, ToggleMute, PruneAlerts, deliveryVars
<1> QED
  BY <1>2 DEF DeliveryTyping, DeliveryInvariant, Hand, AtStore

LEMMA DeliveryTypingNext ==
    ASSUME DeliveryTyping, RunsFit, [DeliveryNext]_deliveryVars
    PROVE  DeliveryTyping'
<1>1. DeliveryInvariant' /\ \A a \in Present' : alertRows'[a] \in Rows
  BY DeliveryInvariantNext, RowsTyped DEF DeliveryTyping
<1>2. \A w \in Workers : couriers'[w].at = "count" => couriers'[w].read < MaxAttempts
  BY CountsBelow
<1>3. muted' \in BOOLEAN
  <2>1. CASE ToggleMute
    BY <2>1, DeliveryAssumption DEF ToggleMute
  <2>2. CASE muted' = muted
    BY <2>2 DEF DeliveryTyping
  <2> QED
    BY <2>1, <2>2 DEF DeliveryNext, RecordAlert, Acknowledge, ReceiveTap, StartRetries, Work,
       Read, Answered, Unanswered, Store, Count, Farewell, AcknowledgeAll, PruneAlerts,
       CrashDelivery, AdvanceDelivery, deliveryVars
<1>4. sinceTick' <= TickPeriod
  <2>1. CASE AdvanceDelivery
    <3>1. sinceTick \in Nat /\ sinceTick <= TickPeriod /\ TickPeriod \in Nat
      BY DeliveryAssumption DEF DeliveryTyping, DeliveryInvariant, DeliveryTypes
    <3>2. sinceTick' = Older(sinceTick, TickPeriod)
      BY <2>1 DEF AdvanceDelivery
    <3>3. CASE sinceTick = Null \/ sinceTick >= TickPeriod
      BY <3>1, <3>2, <3>3 DEF Older
    <3>4. CASE ~(sinceTick = Null \/ sinceTick >= TickPeriod)
      <4>1. sinceTick' = sinceTick + 1
        BY <3>2, <3>4 DEF Older
      <4>2. ASSUME NEW n \in Nat, NEW m \in Nat, ~(n >= m) PROVE n + 1 <= m
        BY <4>2
      <4> QED
        BY <3>1, <3>4, <4>1, <4>2
    <3> QED
      BY <3>3, <3>4
  <2>2. CASE sinceTick' \in {sinceTick, 0}
    BY <2>2, DeliveryAssumption DEF DeliveryTyping
  <2> QED
    BY <2>1, <2>2 DEF DeliveryNext, RecordAlert, Acknowledge, ReceiveTap, StartRetries, Work,
       Read, Answered, Unanswered, Store, Count, Farewell, AcknowledgeAll, ToggleMute,
       PruneAlerts, CrashDelivery, deliveryVars
<1>5. crashes' <= MaxCrashes
  <2>1. CASE CrashDelivery
    <3>1. crashes \in Nat /\ crashes < MaxCrashes /\ crashes' = crashes + 1
      BY <2>1 DEF CrashDelivery, Dies, DeliveryTyping, DeliveryInvariant, DeliveryTypes
    <3> QED
      BY <3>1, CrashAssumption
  <2>2. CASE crashes' = crashes
    BY <2>2 DEF DeliveryTyping
  <2> QED
    BY <2>1, <2>2 DEF DeliveryNext, RecordAlert, Acknowledge, ReceiveTap, StartRetries, Work,
       Read, Answered, Unanswered, Store, Count, Farewell, AcknowledgeAll, ToggleMute,
       PruneAlerts, AdvanceDelivery, deliveryVars
<1> QED
  BY <1>1, <1>2, <1>3, <1>4, <1>5 DEF DeliveryTyping

LEMMA DeliveryTypingInit == DeliveryInit => DeliveryTyping
<1> SUFFICES ASSUME DeliveryInit PROVE DeliveryTyping
  OBVIOUS
<1>1. DeliveryInvariant
  BY DeliveryInvariantInit
<1>2. \A w \in Workers : couriers[w].at # "count"
  BY DEF DeliveryInit, IdleWorker
<1> QED
  BY <1>1, <1>2, DeliveryAssumption, CrashAssumption DEF DeliveryInit, DeliveryTyping, Present

LEMMA DeliveryTyped == DeliveryTyping => DeliveryType
<1> SUFFICES ASSUME DeliveryTyping PROVE DeliveryType
  OBVIOUS
<1>1. /\ alertIds \subseteq Alerts /\ Present \subseteq alertIds
      /\ sinceTick \in Nat /\ crashes \in Nat
  BY DEF DeliveryTyping, DeliveryInvariant, DeliveryTypes
<1>2. sinceTick \in 0..TickPeriod /\ crashes \in 0..MaxCrashes
  BY <1>1, DeliveryAssumption, CrashAssumption DEF DeliveryTyping
<1> QED
  BY <1>1, <1>2 DEF DeliveryTyping, DeliveryType, Rows, Dues

\* The counters of an alert and its due time keep their bounds: nobody counts
\* a sixth attempt, whichever worker stores an outcome late, and no delay to
\* the next attempt outgrows the interval (alert-manager.ts:96-100, 139-201).
THEOREM DeliveryTypeHolds == RunsFit => (DeliverySpec => []DeliveryType)
<1> SUFFICES ASSUME RunsFit PROVE DeliverySpec => []DeliveryType
  OBVIOUS
<1>1. DeliveryTyping /\ [DeliveryNext]_deliveryVars => DeliveryTyping'
  BY DeliveryTypingNext
<1> QED
  BY <1>1, DeliveryTypingInit, DeliveryTyped, PTL DEF DeliverySpec
=============================================================================
