------------------------------- MODULE Roster -------------------------------
(***************************************************************************)
(* What an Institution contract promises about membership, without the     *)
(* members array, the isMember mapping or the swap-and-pop that keep it:   *)
(* each institution is one set of accounts with one administrator in it,   *)
(* and whoever publishes a process is in the set at that moment.           *)
(*                                                                         *)
(* Institution.tla is shown to implement this specification.               *)
(***************************************************************************)
CONSTANTS Institutions, Accounts, Templates, ZeroAddress

VARIABLES
  admin,      \* institution -> its administrator, ZeroAddress before it exists
  roster,     \* institution -> the set of its members
  createdBy   \* template -> the member who published it, or ZeroAddress

rosterVars == <<admin, roster, createdBy>>

Init ==
  /\ admin     = [i \in Institutions |-> ZeroAddress]
  /\ roster    = [i \in Institutions |-> {}]
  /\ createdBy = [t \in Templates |-> ZeroAddress]

\* An institution is founded by its first administrator, who is its only member.
Found(i, a) ==
  /\ admin[i] = ZeroAddress
  /\ admin'  = [admin EXCEPT ![i] = a]
  /\ roster' = [roster EXCEPT ![i] = {a}]
  /\ UNCHANGED createdBy

Admit(i, m) ==
  /\ admin[i] # ZeroAddress
  /\ m \notin roster[i]
  /\ roster' = [roster EXCEPT ![i] = @ \cup {m}]
  /\ UNCHANGED <<admin, createdBy>>

\* Anyone but the administrator can be expelled, and nobody else leaves with them.
Expel(i, m) ==
  /\ m \in roster[i] \ {admin[i]}
  /\ roster' = [roster EXCEPT ![i] = @ \ {m}]
  /\ UNCHANGED <<admin, createdBy>>

\* The new administrator is a member from then on; the old one stays a member.
HandOver(i, a) ==
  /\ admin[i] # ZeroAddress
  /\ admin'  = [admin EXCEPT ![i] = a]
  /\ roster' = [roster EXCEPT ![i] = @ \cup {a}]
  /\ UNCHANGED createdBy

Publish(i, m, t) ==
  /\ m \in roster[i]
  /\ createdBy[t] = ZeroAddress
  /\ createdBy' = [createdBy EXCEPT ![t] = m]
  /\ UNCHANGED <<admin, roster>>

Next ==
  \E i \in Institutions, a \in Accounts :
    \/ Found(i, a)
    \/ Admit(i, a)
    \/ Expel(i, a)
    \/ HandOver(i, a)
    \/ \E t \in Templates : Publish(i, a, t)

Spec == Init /\ [][Next]_rosterVars
=============================================================================
