------------------------------- MODULE StepLog -------------------------------
(***************************************************************************)
(* What a ProcessInstance promises: a process of n steps is a log to which *)
(* signed-off steps are appended, at most n of them, never rewritten, each *)
(* with its actor and a time not earlier than the one before; the process  *)
(* is closed when the n-th is appended and not before.  Rejections do not  *)
(* exist at this level.                                                    *)
(*                                                                         *)
(* ProcessInstance.tla is shown to implement this specification.           *)
(***************************************************************************)
EXTENDS Integers, Sequences

CONSTANTS Instances, Accounts, MaxSteps, MaxTime

VARIABLES
  log,      \* instance -> the completed steps, in order
  size,     \* instance -> number of steps of the process, 0 before it exists
  closed    \* instance -> no step is left

logVars == <<log, size, closed>>

Init ==
  /\ log    = [p \in Instances |-> <<>>]
  /\ size   = [p \in Instances |-> 0]
  /\ closed = [p \in Instances |-> FALSE]

Open(p, n) ==
  /\ size[p] = 0
  /\ size' = [size EXCEPT ![p] = n]
  /\ UNCHANGED <<log, closed>>

SignOff(p, e) ==
  /\ Len(log[p]) < size[p]
  /\ \A k \in 1..Len(log[p]) : log[p][k].timestamp <= e.timestamp
  /\ log'    = [log EXCEPT ![p] = Append(@, e)]
  /\ closed' = [closed EXCEPT ![p] = (Len(log[p]) + 1 = size[p])]
  /\ UNCHANGED size

Next ==
  \E p \in Instances :
    \/ \E n \in 1..MaxSteps : Open(p, n)
    \/ \E a \in Accounts, time \in 0..MaxTime : SignOff(p, [actor |-> a, timestamp |-> time])

Spec == Init /\ [][Next]_logVars
=============================================================================
