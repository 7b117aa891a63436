---------------------------- MODULE AccountSpend ----------------------------
(***************************************************************************)
(* AccountSpendService: what the account has paid for all its bids.  The    *)
(* list at Braiins is read page by page, newest bid first; ended bids are    *)
(* kept in closed_bids_cache, and a page without a new one ends the walk, on *)
(* the ground that all older ones are in the cache.  A request that finds    *)
(* the last result too old starts a walk or joins the one under way.         *)
(*                                                                          *)
(* A walk waits for Braiins at each page.  Between a page and the next       *)
(* request it waits for SQLite only, so nothing but a crash comes between.  *)
(***************************************************************************)
EXTENDS Daemon, Sequences, FiniteSets, FiniteSetsExt

CONSTANTS
    MaxBids,      \* bids the account will have, numbered as they are placed
    PageSize,     \* PAGE_SIZE
    MaxConsumed   \* bound on what a bid consumes

ASSUME SpendAssumption ==
    /\ MaxBids \in Nat
    /\ PageSize \in Nat \ {0}
    /\ MaxConsumed \in Nat \ {0}

VARIABLES
    bids,         \* Braiins: is_current and amount_consumed_sat of each bid
    closedCache,  \* closed_bids_cache: ids; their amounts are final
    paging,       \* the walk under way
    spend,        \* snapshotCache
    spendFresh,   \* it is not older than the TTL
    torn          \* history: a walk broke off with a part stored, a rebuild met one

spendVars == <<bids, closedCache, paging, spend, spendFresh, torn, crashes>>

Spent(ids) == MapThenSumSet(LAMBDA b : bids[b].consumed, ids)
Terminal == {b \in DOMAIN bids : ~bids[b].current}

NoPaging == [at |-> "idle"]

SpendInit ==
    /\ bids = <<>>
    /\ closedCache = {}
    /\ paging = NoPaging
    /\ spend = Null
    /\ spendFresh = FALSE
    /\ torn = FALSE
    /\ crashes = 0

\* Only then does anything but the walk get to run.
Waiting == paging.at \in {"idle", "list"}

-----------------------------------------------------------------------------
(* The account *)

\* Bids that a walk does not count as new although it sees them first: those
\* that run or consumed nothing, and those placed since it began, which push
\* older ones onto its next page again.  A page is longer than that.
Uncounted ==
    Cardinality({b \in DOMAIN bids : bids[b].current \/ bids[b].consumed = 0})
    + (IF paging.at = "idle" THEN 0 ELSE Len(bids) - paging.started)

\* One bid runs at a time.
PlaceBid ==
    /\ Waiting
    /\ Len(bids) < MaxBids
    /\ \A b \in DOMAIN bids : ~bids[b].current
    /\ Uncounted + (IF paging.at = "idle" THEN 1 ELSE 2) < PageSize
    /\ bids' = Append(bids, [current |-> TRUE, consumed |-> 0])
    /\ UNCHANGED <<closedCache, paging, spend, spendFresh, torn, crashes>>

Consume(b) ==
    /\ Waiting
    /\ bids[b].current
    /\ bids[b].consumed < MaxConsumed
    /\ bids' = [bids EXCEPT ![b].consumed = @ + 1]
    /\ UNCHANGED <<closedCache, paging, spend, spendFresh, torn, crashes>>

EndBid(b) ==
    /\ Waiting
    /\ bids[b].current
    /\ bids' = [bids EXCEPT ![b].current = FALSE]
    /\ UNCHANGED <<closedCache, paging, spend, spendFresh, torn, crashes>>

\* The result is five minutes old.
SpendExpires ==
    /\ Waiting
    /\ spendFresh
    /\ spendFresh' = FALSE
    /\ UNCHANGED <<bids, closedCache, paging, spend, torn, crashes>>

-----------------------------------------------------------------------------
(* getLifetimeSpend() and fetchAndSum() *)

\* A request for the figure; one that joins a walk changes nothing.
GetLifetimeSpend ==
    /\ paging.at = "idle"
    /\ ~spendFresh
    /\ paging' = [at |-> "list", cached |-> Spent(closedCache), known |-> closedCache,
                  new |-> 0, active |-> 0, offset |-> 0, page |-> <<>>, stored |-> 0,
                  started |-> Len(bids), due |-> Spent(Terminal)]
    /\ UNCHANGED <<bids, closedCache, spend, spendFresh, torn, crashes>>

Earlier(n, m) == IF n < m THEN n ELSE m

\* The ids of a page, newest first.
Page(offset) ==
    [i \in 1..Earlier(PageSize, Len(bids) - offset) |-> Len(bids) + 1 - offset - i]

\* What the page shows of bids still running is counted as it stands.
Running(page) == Spent({page[i] : i \in DOMAIN page} \ Terminal)

PageListed ==
    /\ paging.at = "list"
    /\ LET page == Page(paging.offset)
       IN  paging' = [paging EXCEPT !.at = "store", !.page = page, !.stored = 0,
                                    !.active = @ + Running(page)]
    /\ UNCHANGED <<bids, closedCache, spend, spendFresh, torn, crashes>>

\* The walk gives up without a result; what it stored stays.
PageFails ==
    /\ paging.at = "list"
    /\ paging' = NoPaging
    /\ torn' = (torn \/ paging.new > 0)
    /\ UNCHANGED <<bids, closedCache, spend, spendFresh, crashes>>

\* The ended bids of the page that are not known yet, one by one.
ToStore ==
    {i \in DOMAIN paging.page :
        LET b == paging.page[i]
        IN  b \in Terminal \ paging.known /\ bids[b].consumed > 0}

StoreTerminal ==
    /\ paging.at = "store"
    /\ ToStore # {}
    /\ LET b == paging.page[Min(ToStore)]
       IN  /\ closedCache' = closedCache \cup {b}
           /\ paging' = [paging EXCEPT !.known = @ \cup {b}, !.stored = @ + 1,
                                       !.new = @ + bids[b].consumed]
    /\ UNCHANGED <<bids, spend, spendFresh, torn, crashes>>

\* Mutation of LastPage: a page has to be new throughout.
LastPageUnlessNew(page, stored) == stored < Len(page) \/ Len(page) < PageSize

\* A page with nothing new, or one that is not full, is the last.
LastPage(page, stored) == stored = 0 \/ Len(page) < PageSize

NextPage ==
    /\ paging.at = "store"
    /\ ToStore = {}
    /\ ~LastPage(paging.page, paging.stored)
    /\ paging' = [paging EXCEPT !.at = "list", !.offset = @ + Len(paging.page)]
    /\ UNCHANGED <<bids, closedCache, spend, spendFresh, torn, crashes>>

\* The result.  Its age counts from the start of the walk, which may be longer
\* ago than the TTL.
FinishSpend ==
    /\ paging.at = "store"
    /\ ToStore = {}
    /\ LastPage(paging.page, paging.stored)
    /\ spend' = [closed |-> paging.cached + paging.new, active |-> paging.active,
                 due |-> paging.due]
    /\ spendFresh' \in BOOLEAN
    /\ paging' = NoPaging
    /\ UNCHANGED <<bids, closedCache, torn, crashes>>

\* The operator's rebuild button, which does not stop a walk.
RebuildSpend ==
    /\ Waiting
    /\ closedCache' = {}
    /\ spend' = Null
    /\ spendFresh' = FALSE
    /\ torn' = (paging.at # "idle")
    /\ UNCHANGED <<bids, paging, crashes>>

CrashSpend ==
    /\ Dies
    /\ paging' = NoPaging
    /\ spend' = Null
    /\ spendFresh' = FALSE
    /\ torn' = (torn \/ (paging.at # "idle" /\ paging.new > 0))
    /\ UNCHANGED <<bids, closedCache>>

SpendNext ==
    \/ PlaceBid
    \/ \E b \in DOMAIN bids : Consume(b) \/ EndBid(b)
    \/ SpendExpires
    \/ GetLifetimeSpend
    \/ PageListed \/ PageFails \/ StoreTerminal \/ NextPage \/ FinishSpend
    \/ RebuildSpend
    \/ CrashSpend

SpendSpec == SpendInit /\ [][SpendNext]_spendVars

-----------------------------------------------------------------------------
(* Properties *)

SpendType ==
    /\ \A b \in DOMAIN bids : bids[b] \in [current : BOOLEAN, consumed : 0..MaxConsumed]
    /\ closedCache \subseteq Terminal
    /\ paging.at \in {"idle", "list", "store"}
    /\ spend # Null => spend.closed \in Nat
    /\ {spendFresh, torn} \subseteq BOOLEAN

\* The figure has every bid that had ended when its walk began, each once,
\* whatever is placed, consumed and ended meanwhile, unless a walk broke off
\* after it had stored something or a rebuild met a walk; the next rebuild
\* puts that right (account-spend.ts:18-28, 95-101).
SpendComplete ==
    spend # Null =>
        /\ spend.closed <= Spent(Terminal)
        /\ ~torn => spend.closed >= spend.due

\* "Once a page produces zero new terminal bids, every older terminal is
\* already cached" (account-spend.ts:25-27): no result falls short of what had
\* been paid, walks that broke off included.
TailCached == spend # Null => spend.closed >= spend.due
=============================================================================
