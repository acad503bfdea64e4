------------------------------- MODULE Vault -------------------------------
(***************************************************************************)
(* Vaults of inscriptions on Bitcoin: the spending policy that vault.rs    *)
(* compiles (taproot-reader/crates/binst-decoder), the transfers that      *)
(* scripts/psbt-transfer.ts drafts, and inscriptions made into a vault by  *)
(* the command of scripts/inscribe-binst.ts.  Bitcoin is external: a       *)
(* transaction is taken up if its inputs are unspent, old enough and       *)
(* signed for; satoshis, and inscriptions with them, go from inputs to     *)
(* outputs in order.  A draft names outputs, which never change, so that   *)
(* it is the same transaction whenever it was made, and fails if another   *)
(* was first: drafting, signing and broadcasting are one action.           *)
(***************************************************************************)
EXTENDS Integers, Sequences, FiniteSets

CONSTANTS
  Keys,             \* x-only public keys
  Signers,          \* the sets of keys whose owners sign something together
  Policies,         \* VaultPolicy: [admin, committee, csv_delay]
  Wallet,           \* lock of an output that pays fees or takes the change
  Inscriptions,
  Nobody,
  WalletFunds,      \* sequence of the satoshis in the outputs that can pay fees
  FeeRates,
  LeafZeroSequence, \* nSequence of a vault input for leaf 0, 144 in the code
  MaxHeight,        \* bound: blocks
  MaxTransfers      \* bound: transfers

\* A policy whose delay is zero, or that names a key twice, does not compile.
Compiles(p) ==
  /\ p.admin \in Keys
  /\ p.committee \subseteq Keys /\ Cardinality(p.committee) = 3
  /\ p.admin \notin p.committee
  /\ p.csv_delay \in Nat \ {0}

ASSUME VaultAssumption ==
  /\ \A p \in Policies : Compiles(p)
  /\ Signers \subseteq SUBSET Keys
  /\ Wallet \notin Policies /\ Nobody \notin Policies
  /\ WalletFunds \in Seq(Nat) /\ FeeRates \subseteq Nat
  /\ LeafZeroSequence \in Nat
  /\ MaxHeight \in Nat /\ MaxTransfers \in Nat

VARIABLES
  height,       \* of the Bitcoin chain
  outputs,      \* every transaction output ever made, in order
  transfers     \* number of transfers mined

vaultVars == <<height, outputs, transfers>>

Dust == 546

\* An output, made by a transaction with these signers, and the inscriptions in
\* it, each with the offset of its satoshi.
Output(lock, sats, signers, items) ==
  [lock |-> lock, sats |-> sats, born |-> height, by |-> signers, items |-> items,
   spent |-> FALSE]

VaultInit ==
  /\ height = 0
  /\ outputs = [k \in DOMAIN WalletFunds |->
                  [lock |-> Wallet, sats |-> WalletFunds[k], born |-> 0, by |-> {},
                   items |-> {}, spent |-> FALSE]]
  /\ transfers = 0

Unspent == {k \in DOMAIN outputs : ~outputs[k].spent}
Vaults  == {k \in Unspent : outputs[k].lock \in Policies}
Purses  == {k \in Unspent : outputs[k].lock = Wallet}

Holds(k, x)   == \E item \in outputs[k].items : item.of = x
Inscribed(x)  == \E k \in DOMAIN outputs : Holds(k, x)

-----------------------------------------------------------------------------
\* Mutant: the administrator's leaf has no timelock.
PathsWithoutTimelock(p) ==
  {[quorums |-> {{p.admin}}, timelock |-> 0],
   [quorums |-> {{a, b} : a, b \in p.committee} \ {{a} : a \in p.committee},
    timelock |-> 0]}

\* Mutant: thresh(1,...).
PathsOfAnyMember(p) ==
  {[quorums |-> {{p.admin}}, timelock |-> p.csv_delay],
   [quorums |-> {{a} : a \in p.committee}, timelock |-> 0]}

\* The two leaves of the compiled policy:
\* or(and(pk(admin),older(csv_delay)),thresh(2,pk(A),pk(B),pk(C))).
Paths(p) ==
  {[quorums |-> {{p.admin}}, timelock |-> p.csv_delay],
   [quorums |-> {{a, b} : a, b \in p.committee} \ {{a} : a \in p.committee},
    timelock |-> 0]}

\* Bitcoin's rules for an input: its leaf's keys have signed, its sequence is not
\* below the leaf's timelock, and the output is as old as the sequence says.  The
\* owner of a wallet signs what the wallet pays for.
CanSpend(k, sequence, signers) ==
  outputs[k].lock \in Policies =>
    /\ height >= outputs[k].born + sequence
    /\ \E path \in Paths(outputs[k].lock) :
         sequence >= path.timelock /\ \E q \in path.quorums : q \subseteq signers

-----------------------------------------------------------------------------
\* ord wallet inscribe --postage 546sat --destination <vault>
Inscribe(x, p) ==
  /\ ~Inscribed(x)
  /\ outputs' = Append(outputs, Output(p, Dust, {}, {[of |-> x, offset |-> 0]}))
  /\ UNCHANGED <<height, transfers>>

\* estimateTxSize and estimateFee, for as many inputs as outputs.
Fee(n, feeRate) == (58 + n * 100 + n * 43) * feeRate

\* Mutant: the input that pays the fee comes first.
PurseFirst(vaults, purse, to, feeRate, leaf) ==
  [inputs  |-> <<[output |-> purse, sequence |-> 0]>> \o
                 [k \in DOMAIN vaults |->
                   [output |-> vaults[k],
                    sequence |-> IF leaf = 0 THEN LeafZeroSequence ELSE 0]],
   outputs |-> Append([k \in DOMAIN vaults |-> [lock |-> to, sats |-> outputs[vaults[k]].sats]],
                      [lock |-> Wallet,
                       sats |-> outputs[purse].sats - Fee(Len(vaults) + 1, feeRate)])]

\* The PSBT: one input and one output of the same value for each vault, in the
\* order of the file, then the input that pays the fee and the change.
Psbt(vaults, purse, to, feeRate, leaf) ==
  [inputs  |-> Append([k \in DOMAIN vaults |->
                        [output |-> vaults[k],
                         sequence |-> IF leaf = 0 THEN LeafZeroSequence ELSE 0]],
                      [output |-> purse, sequence |-> 0]),
   outputs |-> Append([k \in DOMAIN vaults |-> [lock |-> to, sats |-> outputs[vaults[k]].sats]],
                      [lock |-> Wallet,
                       sats |-> outputs[purse].sats - Fee(Len(vaults) + 1, feeRate)])]

-----------------------------------------------------------------------------
\* The sums of the first amounts: of none of them, one, two and so on.
Sums(amounts) ==
  LET sum[n \in 0..Len(amounts)] == IF n = 0 THEN 0 ELSE sum[n - 1] + amounts[n]
  IN  sum

\* The position of the first satoshi of the k-th of these amounts.
Before(amounts, k) == Sums(amounts)[k - 1]

\* What goes into a transaction and comes out of it, and the inscriptions in it,
\* each with the position of its satoshi.
Paid(tx) == [k \in DOMAIN tx.inputs |-> outputs[tx.inputs[k].output].sats]
Made(tx) == [k \in DOMAIN tx.outputs |-> tx.outputs[k].sats]

Travellers(tx) ==
  UNION {{[of |-> item.of, at |-> Before(Paid(tx), k) + item.offset] :
            item \in outputs[tx.inputs[k].output].items} : k \in DOMAIN tx.inputs}

\* The inscriptions that end in output m of a transaction: first in, first out.
Arrivals(tx, m) ==
  LET start == Before(Made(tx), m)
  IN  {[of |-> x.of, offset |-> x.at - start] :
         x \in {y \in Travellers(tx) : start <= y.at /\ y.at < start + Made(tx)[m]}}

\* Bitcoin takes the transaction up, with these signatures.
Broadcast(tx, signers) ==
  /\ transfers < MaxTransfers
  /\ \A k \in DOMAIN tx.inputs :
       /\ tx.inputs[k].output \in Unspent
       /\ CanSpend(tx.inputs[k].output, tx.inputs[k].sequence, signers)
  /\ outputs' =
       [k \in DOMAIN outputs |->
          IF \E j \in DOMAIN tx.inputs : tx.inputs[j].output = k
          THEN [outputs[k] EXCEPT !.spent = TRUE] ELSE outputs[k]]
       \o [m \in DOMAIN tx.outputs |->
             Output(tx.outputs[m].lock, tx.outputs[m].sats, signers, Arrivals(tx, m))]
  /\ transfers' = transfers + 1
  /\ UNCHANGED height

\* The files the script can be given: any vaults, of any age, in any order.
VaultLists == {s \in UNION {[1..n -> Vaults] : n \in 1..Cardinality(Vaults)} :
                 \A j, k \in DOMAIN s : j # k => s[j] # s[k]}

\* Mutant: the change is not looked at.
TransferAtAnyFee(vaults, purse, to, feeRate, leaf, signers) ==
  Broadcast(Psbt(vaults, purse, to, feeRate, leaf), signers)

\* generatePsbtCommands, whose output is signed and broadcast; the change must be
\* worth an output.
Transfer(vaults, purse, to, feeRate, leaf, signers) ==
  /\ outputs[purse].sats - Fee(Len(vaults) + 1, feeRate) >= Dust
  /\ Broadcast(Psbt(vaults, purse, to, feeRate, leaf), signers)

NewBlock ==
  /\ height < MaxHeight
  /\ height' = height + 1
  /\ UNCHANGED <<outputs, transfers>>

VaultNext ==
  \/ \E x \in Inscriptions, p \in Policies : Inscribe(x, p)
  \/ \E vaults \in VaultLists, purse \in Purses, to \in Policies, feeRate \in FeeRates,
        leaf \in {0, 1}, signers \in Signers :
       Transfer(vaults, purse, to, feeRate, leaf, signers)
  \/ NewBlock

VaultSpec == VaultInit /\ [][VaultNext]_vaultVars

-----------------------------------------------------------------------------
VaultTypeOK ==
  /\ height \in 0..MaxHeight
  /\ outputs \in Seq([lock : Policies \cup {Wallet}, sats : Nat, born : 0..height,
                       by : SUBSET Keys, items : SUBSET [of : Inscriptions, offset : Nat],
                       spent : BOOLEAN])
  /\ transfers \in 0..MaxTransfers

\* No transfer, whatever vaults it takes in whatever order, lets two inscriptions
\* meet in an output or one of them slip into the change or the fee: each is the
\* first satoshi of a vault output of its own, in which nothing else is inscribed.
InscriptionsStayIsolated ==
  \A x \in Inscriptions : Inscribed(x) =>
    \E k \in Vaults : outputs[k].items = {[of |-> x, offset |-> 0]}

\* Output k is where inscription x went from output j.
Moved(x, j, k) ==
  /\ j < k /\ Holds(j, x) /\ Holds(k, x)
  /\ \A i \in (j + 1)..(k - 1) : ~Holds(i, x)

\* An administrator alone, or whoever has the key, moves no inscription that has
\* been in the vault for less than the delay: each move restarts the timer, and
\* until it runs out the committee can always be first.
AdministratorWaits ==
  \A x \in Inscriptions : \A j, k \in DOMAIN outputs : Moved(x, j, k) =>
    \/ \E a, b \in outputs[j].lock.committee \cap outputs[k].by : a # b
    \/ /\ outputs[j].lock.admin \in outputs[k].by
       /\ outputs[k].born >= outputs[j].born + outputs[j].lock.csv_delay

\* The output that has inscription x now.
Seat(x) == CHOOSE k \in Unspent : Holds(k, x)

\* Drafts, outputs and the flow of satoshis implement the custody of inscriptions.
CustodyView == INSTANCE Custody WITH
  holder <- [x \in Inscriptions |-> IF Inscribed(x) THEN outputs[Seat(x)].lock ELSE Nobody],
  since  <- [x \in Inscriptions |-> IF Inscribed(x) THEN outputs[Seat(x)].born ELSE 0],
  by     <- [x \in Inscriptions |-> IF Inscribed(x) THEN outputs[Seat(x)].by ELSE {}]

ImplementsCustody == CustodyView!Spec
=============================================================================
