-------------------------- MODULE FinalityMonitor --------------------------
(***************************************************************************)
(* scripts/finality-monitor.ts: a process that polls a Citrea node for the *)
(* last committed and the last proven L2 height, prints one event when the *)
(* watched block reaches each of the two milestones, and exits after the   *)
(* second.  The two heights are asked for together, by two calls that the  *)
(* node answers at two different moments.                                  *)
(***************************************************************************)
EXTENDS Arrays

CONSTANTS
  WatchL2,        \* WATCH_L2, the watched block
  MaxHeight,      \* bound: height of the L2 chain
  MaxFailures     \* bound: calls that fail or cannot be parsed

ASSUME MonitorAssumption ==
  WatchL2 \in Nat /\ MaxHeight \in Nat /\ MaxFailures \in Nat

VARIABLES
  lastCommitted, lastProven,          \* the node (external)
  phase,                              \* "polling", "sleeping" or "exited"
  committedRaw, provenRaw,            \* the answers of this poll, Pending at first
  wasCommitted, wasProven,
  events,                             \* the events printed, in order
  failures                            \* history: failed polls

nodeVars    == <<lastCommitted, lastProven>>
monitorVars == <<phase, committedRaw, provenRaw, wasCommitted, wasProven, events, failures>>
vars        == <<nodeVars, monitorVars>>

Pending == -1
Heights == 0..MaxHeight
Event   == [event : {"committed", "proven"}, committed : BOOLEAN, proven : BOOLEAN]

TypeOK ==
  /\ lastCommitted \in Heights
  /\ lastProven    \in Heights
  /\ phase         \in {"polling", "sleeping", "exited"}
  /\ committedRaw  \in Heights \cup {Pending}
  /\ provenRaw     \in Heights \cup {Pending}
  /\ wasCommitted  \in BOOLEAN
  /\ wasProven     \in BOOLEAN
  /\ events        \in Seq(Event)
  /\ failures      \in 0..MaxFailures

Init ==
  /\ lastCommitted \in Heights
  /\ lastProven \in 0..lastCommitted
  /\ phase = "polling"
  /\ committedRaw = Pending
  /\ provenRaw = Pending
  /\ wasCommitted = FALSE
  /\ wasProven = FALSE
  /\ events = <<>>
  /\ failures = 0

-----------------------------------------------------------------------------
\* The node: heights only grow, and only committed blocks are proven.
Commit ==
  /\ lastCommitted < MaxHeight
  /\ lastCommitted' = lastCommitted + 1
  /\ UNCHANGED <<lastProven, monitorVars>>

Prove ==
  /\ lastProven < lastCommitted
  /\ lastProven' = lastProven + 1
  /\ UNCHANGED <<lastCommitted, monitorVars>>

\* The two calls of Promise.all, each answered with the height of its moment.
AnswerCommitted ==
  /\ phase = "polling" /\ committedRaw = Pending
  /\ committedRaw' = lastCommitted
  /\ UNCHANGED <<nodeVars, phase, provenRaw, wasCommitted, wasProven, events, failures>>

AnswerProven ==
  /\ phase = "polling" /\ provenRaw = Pending
  /\ provenRaw' = lastProven
  /\ UNCHANGED <<nodeVars, phase, committedRaw, wasCommitted, wasProven, events, failures>>

\* Mutant: a failed poll leaves the loop without another timer.
FailForGood ==
  /\ phase = "polling"
  /\ committedRaw = Pending \/ provenRaw = Pending
  /\ failures < MaxFailures
  /\ failures' = failures + 1
  /\ phase' = "exited"
  /\ UNCHANGED <<nodeVars, committedRaw, provenRaw, wasCommitted, wasProven, events>>

\* One of them fails: the poll is given up, with the other's answer.
Fail ==
  /\ phase = "polling"
  /\ committedRaw = Pending \/ provenRaw = Pending
  /\ failures < MaxFailures
  /\ failures' = failures + 1
  /\ phase' = "sleeping"
  /\ UNCHANGED <<nodeVars, committedRaw, provenRaw, wasCommitted, wasProven, events>>

\* The status of this poll, and an event that carries it.
IsCommitted  == committedRaw >= WatchL2
IsProven     == provenRaw >= WatchL2

StatusOf(e)  == [event |-> e, committed |-> IsCommitted, proven |-> IsProven]
Milestone(e, reached) == IF reached THEN <<StatusOf(e)>> ELSE <<>>

\* Mutant: the block before the watched one is taken for it.
ReportEarly ==
  /\ phase = "polling" /\ committedRaw # Pending /\ provenRaw # Pending
  /\ events' = events
       \o Milestone("committed", committedRaw + 1 >= WatchL2 /\ ~wasCommitted)
       \o Milestone("proven", provenRaw + 1 >= WatchL2 /\ ~wasProven)
  /\ wasCommitted' = (wasCommitted \/ committedRaw + 1 >= WatchL2)
  /\ wasProven' = (wasProven \/ provenRaw + 1 >= WatchL2)
  /\ phase' = IF wasProven' THEN "exited" ELSE "sleeping"
  /\ UNCHANGED <<nodeVars, committedRaw, provenRaw, failures>>

\* Both answers are there: the milestones reached for the first time are
\* printed, committed before proven, and the proven one ends the process.
Report ==
  /\ phase = "polling" /\ committedRaw # Pending /\ provenRaw # Pending
  /\ events' = events \o Milestone("committed", IsCommitted /\ ~wasCommitted)
                      \o Milestone("proven", IsProven /\ ~wasProven)
  /\ wasCommitted' = (wasCommitted \/ IsCommitted)
  /\ wasProven' = (wasProven \/ IsProven)
  /\ phase' = IF wasProven' THEN "exited" ELSE "sleeping"
  /\ UNCHANGED <<nodeVars, committedRaw, provenRaw, failures>>

\* Mutant: the answers of the last poll are used again.
PollKeepsAnswers ==
  /\ phase = "sleeping"
  /\ phase' = "polling"
  /\ UNCHANGED <<nodeVars, committedRaw, provenRaw, wasCommitted, wasProven, events, failures>>

\* POLL_INTERVAL is over: two new calls.
Poll ==
  /\ phase = "sleeping"
  /\ phase' = "polling"
  /\ committedRaw' = Pending
  /\ provenRaw' = Pending
  /\ UNCHANGED <<nodeVars, wasCommitted, wasProven, events, failures>>

Monitor == AnswerCommitted \/ AnswerProven \/ Report \/ Poll

Next == Commit \/ Prove \/ Monitor \/ Fail

Spec == Init /\ [][Next]_vars

\* Calls are answered or fail, the timer fires and the loop goes on: the process
\* is not stuck anywhere.  Nothing is assumed of the chain.
FairSpec == Spec /\ WF_vars(Monitor)

-----------------------------------------------------------------------------
\* All values are of their types, and no event announces a milestone the chain has
\* not reached, however the answers and failures of the polls interleave with the
\* growth of the chain.
EventsAreTrue ==
  /\ TypeOK
  /\ \A k \in 1..Len(events) :
       /\ events[k].event = "committed" => lastCommitted >= WatchL2
       /\ events[k].event = "proven" => lastProven >= WatchL2

\* Each milestone is announced at most once and proven comes last: the monitor
\* exits exactly when it has announced the proof, whatever failed before.
MilestonesOnceThenExit ==
  /\ \A j, k \in 1..Len(events) :
       j < k => events[j].event = "committed" /\ events[k].event = "proven"
  /\ (phase = "exited") <=> \E k \in 1..Len(events) : events[k].event = "proven"

\* Once the watched block is proven the monitor says so and exits, if only
\* finitely many polls fail.
ProofIsReported == lastProven >= WatchL2 ~> phase = "exited"

\* What the head of the script says: "Outputs JSON status to stdout when each
\* milestone is reached" (scripts/finality-monitor.ts:7).  A monitor that is
\* done has announced both, as a proven block is a committed one.
EachMilestoneIsReported ==
  phase = "exited" => \E k \in 1..Len(events) : events[k].event = "committed"
=============================================================================
