------------------------------ MODULE Custody ------------------------------
(***************************************************************************)
(* What a vault promises for the inscriptions in it, without transactions, *)
(* outputs or satoshis: each inscription is under one policy, and leaves   *)
(* it for another with the signature of its administrator, once it has     *)
(* been there for the policy's delay, or of two members of the committee,  *)
(* at any time.  It never leaves the vaults.                               *)
(*                                                                         *)
(* Vault.tla is shown to implement this specification.                     *)
(***************************************************************************)
EXTENDS Integers

CONSTANTS Keys, Policies, Inscriptions, Nobody

VARIABLES
  height,     \* of the Bitcoin chain
  holder,     \* inscription -> its policy, Nobody before it is inscribed
  since,      \* inscription -> height at which it came there
  by          \* inscription -> the keys that signed for it

custodyVars == <<height, holder, since, by>>

Init ==
  /\ height = 0
  /\ holder = [x \in Inscriptions |-> Nobody]
  /\ since  = [x \in Inscriptions |-> 0]
  /\ by     = [x \in Inscriptions |-> {}]

\* Two members of the committee are as good as all three.
CommitteeSigned(p, signers) ==
  \E a, b \in p.committee \cap signers : a # b

AdministratorMay(x, signers) ==
  holder[x].admin \in signers /\ height >= since[x] + holder[x].csv_delay

\* The inscriptions of S come under policy p, now.
Put(S, p) ==
  /\ holder' = [x \in Inscriptions |-> IF x \in S THEN p ELSE holder[x]]
  /\ since'  = [x \in Inscriptions |-> IF x \in S THEN height ELSE since[x]]
  /\ UNCHANGED height

Inscribe(x, p) == holder[x] = Nobody /\ Put({x}, p) /\ UNCHANGED by

\* All the inscriptions of one transfer go to the same vault, at once.
Move(S, p) ==
  /\ \A x \in S : holder[x] # Nobody
  /\ Put(S, p)
  /\ \E signers \in SUBSET Keys :
       /\ by' = [x \in Inscriptions |-> IF x \in S THEN signers ELSE by[x]]
       /\ \A x \in S :
            AdministratorMay(x, signers) \/ CommitteeSigned(holder[x], signers)

NewBlock == height' = height + 1 /\ UNCHANGED <<holder, since, by>>

Next ==
  \/ \E x \in Inscriptions, p \in Policies : Inscribe(x, p)
  \/ \E S \in SUBSET Inscriptions, p \in Policies : Move(S, p)
  \/ NewBlock

Spec == Init /\ [][Next]_custodyVars
=============================================================================
