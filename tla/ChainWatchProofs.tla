-------------------------- MODULE ChainWatchProofs --------------------------
(***************************************************************************)
(* Theorems about the two scripts that read a chain which goes on growing  *)
(* between their calls.  What the finality monitor says is true for any    *)
(* watched block; what the search for the latest block returns is current  *)
(* for any first bounds, and any length of the Bitcoin chain: TLC can only *)
(* try small ones, the code starts with 100,000 and 200,000.               *)
(***************************************************************************)
EXTENDS FinalityMonitor, LatestBlockSearch, SequenceTheorems, TLAPS

-----------------------------------------------------------------------------
\* The inductive invariant: answers are behind the node, which only grows; what was
\* announced is what the flags say, and so is the end of the process.

Behind ==
  /\ lastProven <= lastCommitted
  /\ committedRaw <= lastCommitted
  /\ provenRaw <= lastProven

Grounded ==
  /\ wasCommitted => lastCommitted >= WatchL2
  /\ wasProven => lastProven >= WatchL2

Announced ==
  /\ ~wasCommitted /\ ~wasProven => events = <<>>
  /\ wasCommitted /\ ~wasProven => Len(events) = 1 /\ events[1].event = "committed"
  /\ wasProven => \/ Len(events) = 1 /\ events[1].event = "proven"
                  \/ /\ Len(events) = 2 /\ wasCommitted
                     /\ events[1].event = "committed" /\ events[2].event = "proven"
  /\ phase = "exited" <=> wasProven

IInv == TypeOK /\ Behind /\ Grounded /\ Announced

\* What a report adds to the events.
LEMMA ReportAdds ==
  ASSUME TypeOK, NEW e \in {"committed", "proven"}, NEW b \in BOOLEAN
  PROVE  /\ b => Milestone(e, b) = <<StatusOf(e)>>
         /\ ~b => Milestone(e, b) = <<>>
         /\ StatusOf(e) \in Event /\ StatusOf(e).event = e
BY DEF Milestone, StatusOf, Event, IsCommitted, IsProven

\* Nothing, one event or two at the end of a sequence.
LEMMA AddedEvents ==
  ASSUME NEW S, NEW s \in Seq(S), NEW a \in S, NEW b \in S
  PROVE  /\ (s \o <<>>) \o <<>> = s
         /\ (s \o <<a>>) \o <<>> = Append(s, a)
         /\ (s \o <<>>) \o <<b>> = Append(s, b)
         /\ (s \o <<a>>) \o <<b>> = Append(Append(s, a), b)
OBVIOUS

LEMMA SecondEvent ==
  ASSUME NEW S, NEW s \in Seq(S), Len(s) = 1, NEW b \in S
  PROVE  /\ Append(s, b) \in Seq(S) /\ Len(Append(s, b)) = 2
         /\ Append(s, b)[1] = s[1] /\ Append(s, b)[2] = b
<1>1. Append(s, b) \in Seq(S) /\ Len(Append(s, b)) = 2
  OBVIOUS
<1>2. Append(s, b)[1] = s[1] /\ Append(s, b)[2] = b
  BY AppendProperties
<1> QED BY <1>1, <1>2

LEMMA ReportKeeps ==
  ASSUME IInv, MonitorAssumption, Report
  PROVE  IInv'
<1> DEFINE c == IsCommitted /\ ~wasCommitted
           p == IsProven /\ ~wasProven
<1>1. /\ TypeOK /\ Behind /\ Grounded /\ Announced
      /\ ~wasProven /\ c \in BOOLEAN /\ p \in BOOLEAN
  BY DEF IInv, Announced, Report
<1>2. /\ events' = events \o Milestone("committed", c) \o Milestone("proven", p)
      /\ wasCommitted' = (wasCommitted \/ IsCommitted)
      /\ wasProven' = (wasProven \/ IsProven)
      /\ phase' = IF wasProven' THEN "exited" ELSE "sleeping"
      /\ UNCHANGED <<lastCommitted, lastProven, committedRaw, provenRaw, failures>>
  BY DEF Report, nodeVars
<1>3. PICK a, b \in Event :
        /\ a = StatusOf("committed") /\ a.event = "committed"
        /\ b = StatusOf("proven") /\ b.event = "proven"
  BY <1>1, ReportAdds
<1>4. /\ Milestone("committed", c) = IF c THEN <<a>> ELSE <<>>
      /\ Milestone("proven", p) = IF p THEN <<b>> ELSE <<>>
  BY <1>1, <1>3, ReportAdds
<1>5. /\ c => ~wasCommitted /\ wasCommitted'
      /\ ~c => (wasCommitted' <=> wasCommitted)
      /\ wasProven' <=> p
      /\ phase' = "exited" <=> wasProven'
      /\ events \in Seq(Event)
  BY <1>1, <1>2 DEF TypeOK
<1> HIDE DEF c, p
<1>6. /\ (events \o <<>>) \o <<>> = events
      /\ (events \o <<a>>) \o <<>> = Append(events, a)
      /\ (events \o <<>>) \o <<b>> = Append(events, b)
      /\ (events \o <<a>>) \o <<b>> = Append(Append(events, a), b)
  <2>1. a \in Event /\ b \in Event /\ events \in Seq(Event)
    BY <1>5
  <2> QED BY ONLY <2>1, AddedEvents
<1>7. events' \in Seq(Event) /\ Announced'
  <2>1. CASE c /\ p
    <3>1. events = <<>>
      BY <1>1, <1>5, <2>1 DEF Announced
    <3>2. events' = (events \o <<a>>) \o <<b>>
      BY <1>2, <1>4, <2>1
    <3>3. events' = Append(Append(events, a), b)
      BY <3>2, <1>6
    <3>4. /\ events' \in Seq(Event) /\ Len(events') = 2 /\ events'[1] = a /\ events'[2] = b
      BY <3>1, <3>3
    <3> QED BY <1>3, <1>5, <2>1, <3>4 DEF Announced
  <2>2. CASE c /\ ~p
    <3>1. events = <<>>
      BY <1>1, <1>5, <2>2 DEF Announced
    <3>2. events' = (events \o <<a>>) \o <<>>
      BY <1>2, <1>4, <2>2
    <3>3. events' = Append(events, a)
      BY <3>2, <1>6
    <3>4. events' \in Seq(Event) /\ Len(events') = 1 /\ events'[1] = a
      BY <3>1, <3>3
    <3> QED BY <1>3, <1>5, <2>2, <3>4 DEF Announced
  <2>3. CASE ~c /\ p
    <3>1. events' = (events \o <<>>) \o <<b>>
      BY <1>2, <1>4, <2>3
    <3>2. events' = Append(events, b)
      BY <3>1, <1>6
    <3>3. CASE wasCommitted
      <4>1. Len(events) = 1 /\ events[1].event = "committed"
        BY <1>1, <3>3 DEF Announced
      <4>2. /\ events' \in Seq(Event) /\ Len(events') = 2
            /\ events'[1] = events[1] /\ events'[2] = b
        <5>1. b \in Event /\ events \in Seq(Event) /\ Len(events) = 1
          BY <1>5, <4>1
        <5> QED BY ONLY <5>1, <3>2, SecondEvent
      <4> QED BY <1>3, <1>5, <2>3, <3>3, <4>1, <4>2 DEF Announced
    <3>4. CASE ~wasCommitted
      <4>1. events = <<>>
        BY <1>1, <3>4 DEF Announced
      <4>2. events' \in Seq(Event) /\ Len(events') = 1 /\ events'[1] = b
        BY <3>2, <4>1
      <4> QED BY <1>3, <1>5, <2>3, <4>2 DEF Announced
    <3> QED BY <3>3, <3>4
  <2>4. CASE ~c /\ ~p
    <3>1. events' = (events \o <<>>) \o <<>>
      BY <1>2, <1>4, <2>4
    <3>2. events' = events
      BY <3>1, <1>6
    <3> QED BY <1>1, <1>5, <2>4, <3>2 DEF Announced
  <2> QED BY <2>1, <2>2, <2>3, <2>4
<1>8. Behind' /\ Grounded'
  BY <1>1, <1>2 DEF Behind, Grounded, IsCommitted, IsProven, TypeOK, Heights, Pending,
                    MonitorAssumption
<1>9. TypeOK'
  <2>1. phase' \in {"polling", "sleeping", "exited"}
    BY <1>2
  <2>2. wasCommitted' \in BOOLEAN /\ wasProven' \in BOOLEAN
    BY <1>1, <1>2 DEF TypeOK
  <2> QED BY <1>1, <1>2, <1>7, <2>1, <2>2 DEF TypeOK
<1> QED BY <1>7, <1>8, <1>9 DEF IInv

\* A step that announces nothing leaves the flags as they are.
LEMMA QuietStep ==
  ASSUME Announced, events' = events, wasCommitted' = wasCommitted, wasProven' = wasProven,
         phase' = "exited" <=> phase = "exited"
  PROVE  Announced'
BY DEF Announced

LEMMA NodeKeeps ==
  ASSUME IInv, MonitorAssumption, Commit \/ Prove
  PROVE  IInv'
<1>1. /\ TypeOK /\ Behind /\ Grounded /\ Announced
      /\ UNCHANGED monitorVars
      /\ lastCommitted' \in Heights /\ lastProven' \in Heights
      /\ lastCommitted <= lastCommitted' /\ lastProven <= lastProven'
      /\ lastProven' <= lastCommitted'
  BY DEF IInv, Commit, Prove, TypeOK, Behind, Heights, MonitorAssumption
<1>2. Announced'
  BY <1>1, QuietStep DEF monitorVars
<1>3. TypeOK'
  BY <1>1 DEF TypeOK, monitorVars
<1>4. Behind' /\ Grounded'
  BY <1>1 DEF TypeOK, Behind, Grounded, monitorVars, Heights, Pending, MonitorAssumption
<1> QED BY <1>2, <1>3, <1>4 DEF IInv

LEMMA QuietKeeps ==
  ASSUME IInv, MonitorAssumption, AnswerCommitted \/ AnswerProven \/ Poll \/ Fail
  PROVE  IInv'
<1>1. /\ TypeOK /\ Behind /\ Grounded /\ Announced
      /\ UNCHANGED <<nodeVars, wasCommitted, wasProven, events>>
      /\ phase' \in {"polling", "sleeping"} /\ phase # "exited"
  BY DEF IInv, AnswerCommitted, AnswerProven, Poll, Fail, TypeOK
<1>2. Announced'
  BY <1>1, QuietStep
<1>3. committedRaw' \in {committedRaw, lastCommitted, Pending}
  BY DEF AnswerCommitted, AnswerProven, Poll, Fail
<1>4. provenRaw' \in {provenRaw, lastProven, Pending}
  BY DEF AnswerCommitted, AnswerProven, Poll, Fail
<1>5. failures' \in 0..MaxFailures
  BY <1>1 DEF AnswerCommitted, AnswerProven, Poll, Fail, TypeOK, MonitorAssumption
<1>6. TypeOK'
  BY <1>1, <1>3, <1>4, <1>5 DEF TypeOK, nodeVars
<1>7. Behind' /\ Grounded'
  BY <1>1, <1>3, <1>4 DEF TypeOK, Behind, Grounded, nodeVars, Heights, Pending, MonitorAssumption
<1> QED BY <1>2, <1>6, <1>7 DEF IInv

-----------------------------------------------------------------------------
\* The invariant, which is inductive.
THEOREM MonitorInductive == Spec => []IInv
<1>1. Init => IInv
  <2> SUFFICES ASSUME Init PROVE IInv
    OBVIOUS
  <2>1. TypeOK
    <3>1. lastCommitted \in Heights /\ lastProven \in Heights
      BY MonitorAssumption DEF Init, Heights, MonitorAssumption
    <3>2. events \in Seq(Event) /\ failures \in 0..MaxFailures
      BY MonitorAssumption DEF Init, MonitorAssumption
    <3> QED BY <3>1, <3>2 DEF Init, TypeOK
  <2>2. Behind /\ Grounded /\ Announced
    BY MonitorAssumption DEF Init, Behind, Grounded, Announced, Heights, Pending,
                             MonitorAssumption
  <2> QED BY <2>1, <2>2 DEF IInv
<1>2. IInv /\ [Next]_vars => IInv'
  <2> SUFFICES ASSUME IInv, [Next]_vars PROVE IInv'
    OBVIOUS
  <2>1. CASE Commit \/ Prove
    BY <2>1, NodeKeeps, MonitorAssumption
  <2>2. CASE AnswerCommitted \/ AnswerProven \/ Poll \/ Fail
    BY <2>2, QuietKeeps, MonitorAssumption
  <2>3. CASE Report
    BY <2>3, ReportKeeps, MonitorAssumption
  <2>4. CASE UNCHANGED vars
    BY <2>4 DEF vars, nodeVars, monitorVars, IInv, TypeOK, Behind, Grounded, Announced
  <2> QED BY <2>1, <2>2, <2>3, <2>4 DEF Next, Monitor
<1> QED BY <1>1, <1>2, PTL DEF Spec

\* No event announces a milestone that the chain has not reached, whatever block is
\* watched and however the two calls and the chain interleave.
THEOREM EventsAreAlwaysTrue == Spec => []EventsAreTrue
<1>1. IInv => EventsAreTrue
  <2> SUFFICES ASSUME IInv PROVE EventsAreTrue
    OBVIOUS
  <2>1. TypeOK /\ Grounded /\ Announced
    BY DEF IInv
  <2>2. ASSUME NEW k \in 1..Len(events)
        PROVE  /\ events[k].event = "committed" => wasCommitted
               /\ events[k].event = "proven" => wasProven
    BY <2>1, <2>2 DEF Announced
  <2> QED BY <2>1, <2>2 DEF EventsAreTrue, Grounded
<1> QED BY <1>1, MonitorInductive, PTL

\* Each milestone is announced once at most, proven after committed, and the process
\* has ended exactly when it has announced the proof.
THEOREM MilestonesOnceThenAlwaysExit == Spec => []MilestonesOnceThenExit
<1>1. IInv => MilestonesOnceThenExit
  <2> SUFFICES ASSUME IInv PROVE MilestonesOnceThenExit
    OBVIOUS
  <2>1. Announced /\ events \in Seq(Event)
    BY DEF IInv, TypeOK
  <2>2. CASE Len(events) = 0
    BY <2>1, <2>2 DEF Announced, MilestonesOnceThenExit
  <2>3. CASE Len(events) = 1
    BY <2>1, <2>3 DEF Announced, MilestonesOnceThenExit
  <2>4. CASE Len(events) = 2
    BY <2>1, <2>4 DEF Announced, MilestonesOnceThenExit
  <2>5. Len(events) \in {0, 1, 2}
    BY <2>1 DEF Announced
  <2> QED BY <2>2, <2>3, <2>4, <2>5
<1> QED BY <1>1, MonitorInductive, PTL

-----------------------------------------------------------------------------
\* The middle, rounded up, lies above the lower bound and within the upper one:
\* each of the two outcomes of a probe makes the interval smaller.
LEMMA MiddleIsInside ==
  ASSUME NEW a \in Int, NEW b \in Int, a < b
  PROVE  /\ (a + b + 1) \div 2 \in Int
         /\ a < (a + b + 1) \div 2
         /\ (a + b + 1) \div 2 <= b
OBVIOUS

(***************************************************************************)
(* The inductive invariant.  BoundsHoldTheAnswer says nothing of the upper *)
(* bound before the first loop has found an unknown block: what is needed  *)
(* there is that the bounds are in order and that the chain did not        *)
(* shrink.                                                                 *)
(***************************************************************************)
SearchInv ==
  /\ SearchTypeOK
  /\ low <= high
  /\ tipAtStart <= tip
  /\ stage = "done" => low = high
  /\ BoundsHoldTheAnswer

LEMMA SearchBegins == SearchInit => SearchInv
BY SearchAssumption DEF SearchInit, SearchInv, SearchTypeOK, BoundsHoldTheAnswer

LEMMA HalveKeepsInv ==
  ASSUME SearchInv, Halve
  PROVE  SearchInv'
<1>1. /\ Middle \in Int /\ low < Middle /\ Middle <= high
      /\ low \in Nat /\ high \in Nat /\ tip \in Nat /\ tipAtStart \in Nat
  BY MiddleIsInside, SearchAssumption DEF SearchInv, SearchTypeOK, Halve, Middle
<1>2. CASE Known(Middle)
  BY <1>1, <1>2 DEF SearchInv, SearchTypeOK, BoundsHoldTheAnswer, Halve, Known
<1>3. CASE ~Known(Middle)
  BY <1>1, <1>3 DEF SearchInv, SearchTypeOK, BoundsHoldTheAnswer, Halve, Known
<1>4. QED
  BY <1>2, <1>3

LEMMA SearchNextKeepsInv == SearchInv /\ [SearchNext]_latestVars => SearchInv'
<1> SUFFICES ASSUME SearchInv, [SearchNext]_latestVars
             PROVE  SearchInv'
  OBVIOUS
<1> USE SearchAssumption
<1>1. CASE UNCHANGED latestVars
  BY <1>1 DEF SearchInv, SearchTypeOK, BoundsHoldTheAnswer, latestVars, searchVars
<1>2. CASE NewBlock
  BY <1>2 DEF SearchInv, SearchTypeOK, BoundsHoldTheAnswer, NewBlock, searchVars
<1>3. CASE Expand
  BY <1>3 DEF SearchInv, SearchTypeOK, BoundsHoldTheAnswer, Expand, Known
<1>4. CASE Halve
  BY <1>4, HalveKeepsInv
<1>5. CASE Return
  BY <1>5 DEF SearchInv, SearchTypeOK, BoundsHoldTheAnswer, Return
<1>6. QED
  BY <1>1, <1>2, <1>3, <1>4, <1>5 DEF SearchNext, Search

\* The inductive invariant holds in every reachable state.
THEOREM SearchInductive == SearchSpec => []SearchInv
BY SearchBegins, SearchNextKeepsInv, PTL DEF SearchSpec

\* Whatever blocks arrive between the probes, the block returned is known to the
\* light client, and it was at least the latest one when the search began.
THEOREM ResultIsAlwaysCurrent == SearchSpec => []ResultIsCurrent
<1>1. SearchInv => ResultIsCurrent
  BY DEF SearchInv, SearchTypeOK, BoundsHoldTheAnswer, ResultIsCurrent
<1>2. QED
  BY <1>1, SearchInductive, PTL

\* The answer is always between the two bounds of the second loop.
THEOREM BoundsAlwaysHoldTheAnswer == SearchSpec => []BoundsHoldTheAnswer
<1>1. SearchInv => BoundsHoldTheAnswer
  BY DEF SearchInv
<1>2. QED
  BY <1>1, SearchInductive, PTL

\* Every round of the second loop shrinks the interval, whatever it starts from:
\* with high - low as a variant, the loop ends.
THEOREM IntervalAlwaysShrinks == SearchSpec => IntervalShrinks
<1> DEFINE Shrinks == stage = "halving" /\ stage' = "halving" /\ UNCHANGED tip
                        => high' - low' < high - low
<1>1. ASSUME SearchInv, SearchNext
      PROVE  Shrinks
  <2>1. CASE Halve
    <3>1. /\ Middle \in Int /\ low < Middle /\ Middle <= high
          /\ low \in Nat /\ high \in Nat
      BY <1>1, <2>1, MiddleIsInside DEF SearchInv, SearchTypeOK, Halve, Middle
    <3>2. QED
      BY <2>1, <3>1 DEF Halve
  <2>2. CASE NewBlock
    BY <1>1, <2>2, SearchAssumption DEF SearchInv, SearchTypeOK, NewBlock
  <2>3. CASE Expand \/ Return
    BY <2>3 DEF Expand, Return
  <2>4. QED
    BY <1>1, <2>1, <2>2, <2>3 DEF SearchNext, Search
<1>2. SearchInv /\ [SearchNext]_latestVars => [Shrinks]_latestVars
  BY <1>1
<1>3. QED
  BY <1>2, SearchInductive, PTL DEF SearchSpec, IntervalShrinks
=============================================================================
