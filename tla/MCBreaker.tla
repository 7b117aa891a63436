------------------------------ MODULE MCBreaker ------------------------------
(* Two instances in one: orders that churn, and an operator who resumes.     *)
EXTENDS MCGuarded

VARIABLE story    \* chosen once

guardedVars == <<allVars, story>>

\* Orders that churn, with a fault: nobody resumes and the pool answers.
Churning ==
    /\ story = "churn"
    /\ poolFails' = 0
    /\ ~ClearHold

\* An outage of the pool and an operator who resumes at will: nothing else
\* goes wrong, and two orders are enough.
Resuming ==
    /\ story = "resume"
    /\ faults' = 0
    /\ delivered' = {}
    /\ orders'[3].status = "NONE"

StoriesNext == GuardedNext /\ (Churning \/ Resuming) /\ UNCHANGED story

StoriesInit == GuardedInit /\ story \in {"churn", "resume"}

\* Where the operator resumes, the loop's timer, the marketplace and the clock
\* are as fair as in Controller, and a write that was started completes.
Fair(step) == story = "resume" /\ step

StoriesSpec ==
    /\ StoriesInit
    /\ [][StoriesNext]_guardedVars
    /\ WF_allVars(Fair(tick["loop"].pc # "idle" /\ GuardedStep("loop")))
    /\ WF_allVars(Fair(Begin("loop") /\ UNCHANGED guardVars))
    /\ WF_allVars(Fair(StoreHold))
    /\ WF_allVars(Fair(GuardedMinute))
    /\ \A o \in Orders :
          /\ WF_allVars(Fair(Surface(o) /\ UNCHANGED guardVars))
          /\ WF_allVars(Fair(/\ orders[o].status = "PENDING_CANCEL"
                             /\ Leave(o) /\ UNCHANGED guardVars))

\* There, every blacklist hold ends by itself (bid-guard.ts:111-126).
BlacklistEnds == story = "resume" => BlacklistReleased
=============================================================================
