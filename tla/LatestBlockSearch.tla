------------------------- MODULE LatestBlockSearch -------------------------
(***************************************************************************)
(* findLatestBtcBlock (scripts/bitcoin-awareness.ts, and a copy of it in   *)
(* scripts/demo-flow.ts): the height of the latest Bitcoin block known to  *)
(* the light client of the L2, found with getBlockHash alone.  The upper   *)
(* bound is doubled until it is unknown, then the interval is halved.      *)
(* Each probe is a call of its own, and blocks arrive between them.        *)
(***************************************************************************)
EXTENDS Integers

CONSTANTS
  FirstLow,     \* 100_000n in the code
  FirstHigh,    \* 200_000n in the code
  MaxTip        \* bound: height of the Bitcoin chain

ASSUME SearchAssumption ==
  /\ FirstLow \in Nat /\ FirstHigh \in Nat /\ MaxTip \in Nat
  /\ 0 < FirstHigh
  /\ FirstLow <= FirstHigh

VARIABLES
  tip,          \* the light client knows the blocks up to this one (external)
  stage,        \* "expanding", "halving" or "done"
  low, high,
  tipAtStart    \* history: tip when the search began

searchVars == <<stage, low, high, tipAtStart>>
latestVars == <<tip, searchVars>>

SearchTypeOK ==
  /\ tip  \in 0..MaxTip
  /\ stage \in {"expanding", "halving", "done"}
  /\ low  \in Nat
  /\ high \in Nat
  /\ tipAtStart \in 0..MaxTip

\* The search is only right on a chain that has FirstLow already: the code never
\* probes it.
SearchInit ==
  /\ tip \in FirstLow..MaxTip
  /\ stage = "expanding"
  /\ low = FirstLow
  /\ high = FirstHigh
  /\ tipAtStart = tip

\* getBtcBlockHash(h) !== ZERO_HASH
Known(h) == h <= tip

Middle == (low + high + 1) \div 2

-----------------------------------------------------------------------------
\* A Bitcoin block reaches the light client.
NewBlock ==
  /\ tip < MaxTip
  /\ tip' = tip + 1
  /\ UNCHANGED searchVars

\* Mutant: the first upper bound is taken for an unknown block.
ExpandNever ==
  /\ stage = "expanding"
  /\ stage' = "halving"
  /\ UNCHANGED <<tip, low, high, tipAtStart>>

\* One round of the first loop.
Expand ==
  /\ stage = "expanding"
  /\ IF Known(high)
     THEN high' = high * 2 /\ UNCHANGED stage
     ELSE stage' = "halving" /\ UNCHANGED high
  /\ UNCHANGED <<tip, low, tipAtStart>>

\* Mutant: the middle is not rounded up.
HalveDown ==
  /\ stage = "halving" /\ low < high
  /\ LET mid == (low + high) \div 2 IN
       IF Known(mid)
       THEN low' = mid /\ UNCHANGED high
       ELSE high' = mid - 1 /\ UNCHANGED low
  /\ UNCHANGED <<tip, stage, tipAtStart>>

\* Mutant: a round that finds an unknown block keeps it inside the interval.
HalveAbove ==
  /\ stage = "halving" /\ low < high
  /\ IF Known(Middle)
     THEN low' = Middle /\ UNCHANGED high
     ELSE high' = Middle + 1 /\ UNCHANGED low
  /\ UNCHANGED <<tip, stage, tipAtStart>>

\* One round of the second loop.
Halve ==
  /\ stage = "halving" /\ low < high
  /\ IF Known(Middle)
     THEN low' = Middle /\ UNCHANGED high
     ELSE high' = Middle - 1 /\ UNCHANGED low
  /\ UNCHANGED <<tip, stage, tipAtStart>>

Return ==
  /\ stage = "halving" /\ low >= high
  /\ stage' = "done"
  /\ UNCHANGED <<tip, low, high, tipAtStart>>

Search == Expand \/ Halve \/ Return

SearchNext == NewBlock \/ Search

SearchSpec == SearchInit /\ [][SearchNext]_latestVars

\* Every probe is answered; nothing is assumed of the blocks.
FairSearchSpec == SearchSpec /\ WF_latestVars(Search)

-----------------------------------------------------------------------------
\* The block returned is known, and no older than the latest one when the search
\* began, wherever blocks arrived between the probes that led to it.
ResultIsCurrent ==
  stage = "done" => low <= tip /\ tipAtStart <= low

\* The second loop keeps the answer between its two bounds: the lower one is
\* known, and what lies above the upper one was unknown when the search began.
BoundsHoldTheAnswer ==
  /\ low <= tip
  /\ stage # "expanding" => low <= high /\ tipAtStart <= high

\* Every round of the second loop makes the interval smaller, so that no arrival
\* of blocks can make it loop for ever.
IntervalShrinks ==
  [][stage = "halving" /\ stage' = "halving" /\ UNCHANGED tip
       => high' - low' < high - low]_latestVars

\* The search ends once the chain stops outrunning the doubled bound.
SearchEnds == <>(stage = "done")
=============================================================================
