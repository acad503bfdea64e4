-------------------------- MODULE DiscoveryProofs --------------------------
(***************************************************************************)
(* What a crawl finds, for any contracts, any growth of the chain between  *)
(* its calls and any calls that fail.                                      *)
(***************************************************************************)
EXTENDS Discovery, FiniteSetTheorems, WellFoundedInduction, TLAPS

-----------------------------------------------------------------------------
\* Arrays.

LEMMA EmptyArray ==
  ASSUME NEW S
  PROVE  <<>> \in Seq(S) /\ Listed(<<>>) = {} /\ Distinct(<<>>)
BY DEF Listed, Distinct

LEMMA AppendLists ==
  ASSUME NEW S, NEW s \in Seq(S), NEW e \in S
  PROVE  /\ Append(s, e) \in Seq(S)
         /\ Listed(Append(s, e)) = Listed(s) \cup {e}
         /\ Extends(s, Append(s, e))
         /\ Distinct(s) /\ e \notin Listed(s) => Distinct(Append(s, e))
BY DEF Listed, Distinct, Extends

LEMMA ConcatLists ==
  ASSUME NEW S, NEW s \in Seq(S), NEW t \in Seq(S)
  PROVE  /\ s \o t \in Seq(S)
         /\ Listed(s \o t) = Listed(s) \cup Listed(t)
         /\ Distinct(s) /\ Distinct(t) /\ Listed(s) \cap Listed(t) = {} => Distinct(s \o t)
<1> DEFINE c == s \o t
<1>1. /\ c \in Seq(S) /\ Len(c) = Len(s) + Len(t)
      /\ \A k \in 1..Len(s) : c[k] = s[k]
      /\ \A k \in 1..Len(t) : c[Len(s) + k] = t[k]
      /\ Len(s) \in Nat /\ Len(t) \in Nat
  OBVIOUS
<1> HIDE DEF c
<1>2. ASSUME NEW k \in 1..Len(c)
      PROVE  \/ k \in 1..Len(s) /\ c[k] = s[k]
             \/ (k - Len(s)) \in 1..Len(t) /\ c[k] = t[k - Len(s)]
  <2>1. CASE k <= Len(s)
    BY <2>1, <1>1
  <2>2. CASE k > Len(s)
    <3>1. k - Len(s) \in 1..Len(t) /\ Len(s) + (k - Len(s)) = k
      BY <2>2, <1>1
    <3> QED BY <3>1, <1>1
  <2> QED BY <1>1, <2>1, <2>2
<1>3. Listed(c) = Listed(s) \cup Listed(t)
  <2>1. Listed(c) \subseteq Listed(s) \cup Listed(t)
    BY <1>2 DEF Listed
  <2>2. ASSUME NEW k \in 1..Len(s) PROVE s[k] \in Listed(c)
    <3>1. k \in 1..Len(c) /\ c[k] = s[k]
      BY <1>1
    <3> QED BY <3>1 DEF Listed
  <2>3. ASSUME NEW k \in 1..Len(t) PROVE t[k] \in Listed(c)
    <3>1. Len(s) + k \in 1..Len(c) /\ c[Len(s) + k] = t[k]
      BY <1>1
    <3> QED BY <3>1 DEF Listed
  <2> QED BY <2>1, <2>2, <2>3 DEF Listed
<1>4. ASSUME Distinct(s), Distinct(t), Listed(s) \cap Listed(t) = {}
      PROVE  Distinct(c)
  <2> SUFFICES ASSUME NEW j \in 1..Len(c), NEW k \in 1..Len(c), c[j] = c[k]
               PROVE  j = k
    BY DEF Distinct
  <2>1. j \in Int /\ k \in Int
    BY <1>1
  <2>2. CASE j \in 1..Len(s) /\ c[j] = s[j] /\ k \in 1..Len(s) /\ c[k] = s[k]
    BY <2>2, <1>4 DEF Distinct
  <2>3. CASE /\ (j - Len(s)) \in 1..Len(t) /\ c[j] = t[j - Len(s)]
             /\ (k - Len(s)) \in 1..Len(t) /\ c[k] = t[k - Len(s)]
    <3>1. j - Len(s) = k - Len(s)
      BY <2>3, <1>4 DEF Distinct
    <3> QED BY <3>1, <2>1, <1>1
  <2>4. \A m \in 1..Len(s), n \in 1..Len(t) : s[m] # t[n]
    BY <1>4 DEF Listed
  <2> QED BY <1>2, <2>2, <2>3, <2>4
<1> QED BY <1>1, <1>3, <1>4 DEF c

LEMMA ExtendsLists ==
  ASSUME NEW S, NEW s \in Seq(S), NEW t \in Seq(S), NEW u \in Seq(S), Extends(s, t)
  PROVE  /\ Listed(s) \subseteq Listed(t)
         /\ Distinct(t) => Distinct(s)
         /\ Extends(t, u) => Extends(s, u)
BY DEF Listed, Distinct, Extends

-----------------------------------------------------------------------------
\* The loop over the standalone templates.

\* A set of natural numbers has a smallest one.
LEMMA NatMin ==
  ASSUME NEW S \in SUBSET Nat, S # {}
  PROVE  \E n \in S : \A m \in S : n <= m
<1> DEFINE T == {1..n : n \in S}
<1>1. T \subseteq FiniteSubsetsOf(Nat) /\ T # {}
  <2>1. ASSUME NEW n \in S PROVE 1..n \subseteq Nat /\ IsFiniteSet(1..n)
    BY FS_Interval
  <2> QED BY <2>1 DEF FiniteSubsetsOf
<1>2. IsWellFoundedOn(StrictSubsetOrdering(Nat), FiniteSubsetsOf(Nat))
  BY FS_StrictSubsetOrderingWellFounded
<1>3. PICK t \in T : \A u \in T : ~(<<u, t>> \in StrictSubsetOrdering(Nat))
  <2> HIDE DEF T
  <2> QED BY <1>1, <1>2, WFMin
<1>4. PICK n \in S : t = 1..n
  OBVIOUS
<1>5. \A m \in S : n <= m
  <2> SUFFICES ASSUME NEW m \in S, m < n PROVE FALSE
    OBVIOUS
  <2>1. 1..m \subseteq 1..n /\ 1..m # 1..n
    <3>1. n \in 1..n /\ n \notin 1..m
      OBVIOUS
    <3> QED BY <3>1
  <2>2. <<1..m, t>> \in StrictSubsetOrdering(Nat)
    BY <2>1, <1>4 DEF StrictSubsetOrdering
  <2> QED BY <2>2, <1>3
<1> QED BY <1>5

LEMMA PushNewLists ==
  ASSUME NEW S, NEW s \in Seq(S), NEW t \in S
  PROVE  /\ PushNew(s, t) \in Seq(S)
         /\ Listed(PushNew(s, t)) = Listed(s) \cup {t}
         /\ Distinct(s) => Distinct(PushNew(s, t))
BY AppendLists DEF PushNew

\* There is a function as Pushed defines it.
LEMMA PushedExists ==
  ASSUME NEW S, NEW s \in Seq(S), NEW addrs \in Seq(S)
  PROVE  \E f \in [0..Len(addrs) -> Seq(S)] :
            f = [n \in 0..Len(addrs) |-> IF n = 0 THEN s ELSE PushNew(f[n - 1], addrs[n])]
<1> DEFINE Good(m, f) == f = [n \in 0..m |-> IF n = 0 THEN s ELSE PushNew(f[n - 1], addrs[n])]
           Bad == {m \in 0..Len(addrs) : ~ \E f \in [0..m -> Seq(S)] : Good(m, f)}
<1>1. SUFFICES Bad = {}
  OBVIOUS
<1>2. SUFFICES ASSUME Bad # {} PROVE FALSE
  OBVIOUS
<1>3. PICK m \in Bad : \A k \in Bad : m <= k
  <2>1. Bad \in SUBSET Nat
    OBVIOUS
  <2> HIDE DEF Bad
  <2> QED BY <1>2, <2>1, NatMin
<1>4. m # 0
  <2>1. Good(0, [n \in 0..0 |-> s])
    OBVIOUS
  <2> QED BY <2>1
<1>5. PICK g \in [0..(m-1) -> Seq(S)] : Good(m - 1, g)
  <2> HIDE DEF Good
  <2>1. m \in 0..Len(addrs)
    OBVIOUS
  <2>2. m - 1 \in 0..Len(addrs) /\ ~(m <= m - 1)
    BY <2>1, <1>4
  <2>3. m - 1 \notin Bad
    <3> HIDE DEF Bad
    <3> QED BY <2>2, <1>3
  <2> QED BY <2>2, <2>3
<1>6. PICK last \in Seq(S) : last = PushNew(g[m - 1], addrs[m])
  <2>1. m \in 1..Len(addrs) /\ m - 1 \in 0..(m-1)
    BY <1>4
  <2>2. addrs[m] \in S /\ g[m - 1] \in Seq(S)
    BY <2>1, <1>5
  <2> QED BY <2>2, PushNewLists
<1> DEFINE h == [n \in 0..m |-> IF n = m THEN last ELSE g[n]]
<1>7. h \in [0..m -> Seq(S)]
  BY <1>4, <1>5
<1>8. ASSUME NEW n \in 0..m PROVE h[n] = IF n = 0 THEN s ELSE PushNew(h[n - 1], addrs[n])
  BY <1>4, <1>5, <1>6
<1>9. Good(m, h)
  BY <1>7, <1>8
<1> QED BY <1>7, <1>9

\* Its first value and the step to the next.
LEMMA PushedSteps ==
  ASSUME NEW S, NEW s \in Seq(S), NEW addrs \in Seq(S)
  PROVE  /\ Pushed(s, addrs)[0] = s
         /\ \A n \in 1..Len(addrs) :
              Pushed(s, addrs)[n] = PushNew(Pushed(s, addrs)[n - 1], addrs[n])
<1> DEFINE Step(f) ==
             [n \in 0..Len(addrs) |-> IF n = 0 THEN s ELSE PushNew(f[n - 1], addrs[n])]
<1>1. Pushed(s, addrs) = CHOOSE f : f = Step(f)
  BY Zenon DEF Pushed
<1>2. PICK f \in [0..Len(addrs) -> Seq(S)] : f = Step(f)
  BY PushedExists
<1>3. Pushed(s, addrs) = Step(Pushed(s, addrs))
  BY <1>1, <1>2, Zenon
<1> DEFINE all == Pushed(s, addrs)
<1>4. all = [n \in 0..Len(addrs) |-> IF n = 0 THEN s ELSE PushNew(all[n - 1], addrs[n])]
  BY <1>3, Zenon
<1> HIDE DEF all
<1>5. Len(addrs) \in Nat
  OBVIOUS
<1>6. all[0] = s
  BY <1>4, <1>5
<1>7. \A n \in 1..Len(addrs) : all[n] = PushNew(all[n - 1], addrs[n])
  <2> TAKE n \in 1..Len(addrs)
  <2>1. n \in 0..Len(addrs) /\ n # 0
    BY <1>5
  <2> QED BY ONLY <1>4, <2>1
<1> QED BY <1>6, <1>7 DEF all

\* What the loop makes of the vector: every address is in it, and none twice.
LEMMA PushedLists ==
  ASSUME NEW S, NEW s \in Seq(S), NEW addrs \in Seq(S), Distinct(s)
  PROVE  LET all == Pushed(s, addrs)[Len(addrs)]
         IN  /\ all \in Seq(S)
             /\ Listed(all) = Listed(s) \cup Listed(addrs)
             /\ Distinct(all)
<1> DEFINE v(n) == Pushed(s, addrs)[n]
           front(n) == {addrs[k] : k \in 1..n}
           Good(n) == v(n) \in Seq(S) /\ Distinct(v(n)) /\ Listed(v(n)) = Listed(s) \cup front(n)
           Bad == {n \in 0..Len(addrs) : ~Good(n)}
<1>1. Good(0)
  <2>1. v(0) = s
    BY PushedSteps
  <2>2. front(0) = {}
    OBVIOUS
  <2> QED BY <2>1, <2>2
<1>2. ASSUME NEW n \in 1..Len(addrs), Good(n - 1) PROVE Good(n)
  <2>1. v(n) = PushNew(v(n - 1), addrs[n]) /\ addrs[n] \in S
    BY PushedSteps
  <2>2. front(n) = front(n - 1) \cup {addrs[n]}
    OBVIOUS
  <2> HIDE DEF v, front
  <2> QED BY <1>2, <2>1, <2>2, PushNewLists
<1> HIDE DEF Good
<1>3. Bad = {}
  <2> SUFFICES ASSUME Bad # {} PROVE FALSE
    OBVIOUS
  <2>1. PICK m \in Bad : \A k \in Bad : m <= k
    <3>1. Bad \in SUBSET Nat
      OBVIOUS
    <3> HIDE DEF Bad
    <3> QED BY <3>1, NatMin
  <2>2. m \in 0..Len(addrs) /\ m # 0 /\ ~Good(m)
    BY <1>1
  <2>3. m \in 1..Len(addrs) /\ m - 1 \in 0..Len(addrs) /\ ~(m <= m - 1)
    BY <2>2
  <2>4. m - 1 \notin Bad
    <3> HIDE DEF Bad
    <3> QED BY <2>1, <2>3
  <2> QED BY <1>2, <2>2, <2>3, <2>4
<1>4. Good(Len(addrs))
  BY <1>3
<1>5. front(Len(addrs)) = Listed(addrs)
  BY DEF Listed
<1> QED BY <1>4, <1>5 DEF Good

-----------------------------------------------------------------------------
\* The chain: every contract is listed once, and what is new was listed nowhere.

OnceListed ==
  /\ Distinct(institutions)
  /\ Distinct(deployedProcesses)
  /\ \A i \in Institutions : Distinct(processes[i])
  /\ \A t \in Templates : Distinct(allInstances[t])

OneParent ==
  /\ \A i \in Institutions : Listed(processes[i]) \cap Listed(deployedProcesses) = {}
  /\ \A i, j \in Institutions : i # j => Listed(processes[i]) \cap Listed(processes[j]) = {}
  /\ \A t, u \in Templates : t # u => Listed(allInstances[t]) \cap Listed(allInstances[u]) = {}

ParentsListed ==
  \A i \in Institutions : Listed(processes[i]) # {} => i \in Listed(institutions)

ForestInv == ForestTypeOK /\ OnceListed /\ OneParent /\ ParentsListed

\* What a transaction does to the lists.
Grown ==
  /\ Extends(institutions, institutions')
  /\ Listed(deployedProcesses) \subseteq Listed(deployedProcesses')
  /\ Listed(deployedProcesses') \cap ListedTemplates \subseteq Listed(deployedProcesses)
  /\ \A i \in Institutions :
       /\ Listed(processes[i]) \subseteq Listed(processes'[i])
       /\ Listed(processes'[i]) \cap ListedTemplates \subseteq Listed(processes[i])
  /\ \A t \in Templates :
       /\ Listed(allInstances[t]) \subseteq Listed(allInstances'[t])
       /\ Listed(allInstances'[t]) \cap ListedInstances \subseteq Listed(allInstances[t])

LEMMA ForestBegins == ForestInit => ForestInv
<1> SUFFICES ASSUME ForestInit PROVE ForestInv
  OBVIOUS
<1>1. /\ institutions = <<>> /\ deployedProcesses = <<>>
      /\ \A i \in Institutions : processes[i] = <<>>
      /\ \A t \in Templates : allInstances[t] = <<>>
  BY DEF ForestInit
<1>2. ForestTypeOK
  BY DEF ForestInit, ForestTypeOK
<1>3. OnceListed /\ OneParent /\ ParentsListed
  BY <1>1, EmptyArray DEF OnceListed, OneParent, ParentsListed
<1> QED BY <1>2, <1>3 DEF ForestInv

LEMMA ExtendsItself ==
  ASSUME NEW S, NEW s \in Seq(S)
  PROVE  Extends(s, s)
BY DEF Extends

LEMMA InstitutionListed ==
  ASSUME ForestInv, NEW i \in Institutions, ListInstitution(i)
  PROVE  ForestInv' /\ Grown
<1>1. /\ i \notin Listed(institutions) /\ institutions' = Append(institutions, i)
      /\ deployedProcesses' = deployedProcesses
      /\ processes' = processes /\ allInstances' = allInstances
      /\ institutions \in Seq(Institutions) /\ Distinct(institutions)
  BY DEF ListInstitution, ForestInv, ForestTypeOK, OnceListed
<1>2. /\ institutions' \in Seq(Institutions) /\ Extends(institutions, institutions')
      /\ Distinct(institutions') /\ Listed(institutions) \subseteq Listed(institutions')
  BY <1>1, AppendLists
<1>3. ForestInv'
  BY <1>1, <1>2 DEF ForestInv, ForestTypeOK, OnceListed, OneParent, ParentsListed
<1>4. Grown
  BY <1>1, <1>2 DEF Grown
<1> QED BY <1>3, <1>4

LEMMA StandaloneListed ==
  ASSUME ForestInv, NEW t \in Templates, ListStandalone(t)
  PROVE  ForestInv' /\ Grown
<1>1. /\ t \notin ListedTemplates /\ deployedProcesses' = Append(deployedProcesses, t)
      /\ institutions' = institutions
      /\ processes' = processes /\ allInstances' = allInstances
      /\ institutions \in Seq(Institutions)
      /\ deployedProcesses \in Seq(Templates) /\ Distinct(deployedProcesses)
  BY DEF ListStandalone, ForestInv, ForestTypeOK, OnceListed
<1>2. t \notin Listed(deployedProcesses) /\ \A i \in Institutions : t \notin Listed(processes[i])
  BY <1>1 DEF ListedTemplates
<1>3. /\ deployedProcesses' \in Seq(Templates) /\ Distinct(deployedProcesses')
      /\ Listed(deployedProcesses') = Listed(deployedProcesses) \cup {t}
  BY <1>1, <1>2, AppendLists
<1>4. ForestInv'
  BY <1>1, <1>2, <1>3 DEF ForestInv, ForestTypeOK, OnceListed, OneParent, ParentsListed
<1>5. Grown
  BY <1>1, <1>3, ExtendsItself DEF Grown
<1> QED BY <1>4, <1>5

LEMMA ProcessListed ==
  ASSUME ForestInv, NEW i \in Institutions, NEW t \in Templates, ListProcess(i, t)
  PROVE  ForestInv' /\ Grown
<1>1. /\ i \in Listed(institutions) /\ t \notin ListedTemplates
      /\ processes' = [processes EXCEPT ![i] = Append(@, t)]
      /\ institutions' = institutions
      /\ deployedProcesses' = deployedProcesses /\ allInstances' = allInstances
      /\ institutions \in Seq(Institutions)
      /\ processes \in [Institutions -> Seq(Templates)] /\ Distinct(processes[i])
  BY DEF ListProcess, ForestInv, ForestTypeOK, OnceListed
<1>2. t \notin Listed(deployedProcesses) /\ \A j \in Institutions : t \notin Listed(processes[j])
  BY <1>1 DEF ListedTemplates
<1>3. /\ processes' \in [Institutions -> Seq(Templates)]
      /\ processes'[i] = Append(processes[i], t)
      /\ \A j \in Institutions \ {i} : processes'[j] = processes[j]
  BY <1>1, AppendLists
<1>4. /\ Distinct(processes'[i])
      /\ Listed(processes'[i]) = Listed(processes[i]) \cup {t}
  BY <1>1, <1>2, <1>3, AppendLists
<1>5. ForestInv'
  <2>1. ForestTypeOK' /\ OnceListed'
    BY <1>1, <1>3, <1>4 DEF ForestInv, ForestTypeOK, OnceListed
  <2>2. OneParent'
    <3>1. ASSUME NEW j \in Institutions
          PROVE  Listed(processes'[j]) = IF j = i THEN Listed(processes[j]) \cup {t}
                                         ELSE Listed(processes[j])
      BY <1>3, <1>4
    <3>2. ASSUME NEW j \in Institutions
          PROVE  Listed(processes'[j]) \cap Listed(deployedProcesses') = {}
      <4>1. Listed(processes[j]) \cap Listed(deployedProcesses) = {}
        BY DEF ForestInv, OneParent
      <4> QED BY <4>1, <3>1, <1>1, <1>2
    <3>3. ASSUME NEW j \in Institutions, NEW k \in Institutions, j # k
          PROVE  Listed(processes'[j]) \cap Listed(processes'[k]) = {}
      <4>1. Listed(processes[j]) \cap Listed(processes[k]) = {}
        BY <3>3 DEF ForestInv, OneParent
      <4> QED BY <4>1, <3>1, <3>3, <1>2
    <3>4. \A u, v \in Templates :
            u # v => Listed(allInstances'[u]) \cap Listed(allInstances'[v]) = {}
      BY <1>1 DEF ForestInv, OneParent
    <3> QED BY <3>2, <3>3, <3>4 DEF OneParent
  <2>3. ParentsListed'
    BY <1>1, <1>3 DEF ForestInv, ParentsListed
  <2> QED BY <2>1, <2>2, <2>3 DEF ForestInv
<1>6. Grown
  BY <1>1, <1>3, <1>4, ExtendsItself DEF Grown
<1> QED BY <1>5, <1>6

LEMMA InstanceListed ==
  ASSUME ForestInv, NEW t \in Templates, NEW p \in Instances, ListInstance(t, p)
  PROVE  ForestInv' /\ Grown
<1>1. /\ p \notin ListedInstances
      /\ allInstances' = [allInstances EXCEPT ![t] = Append(@, p)]
      /\ institutions' = institutions
      /\ deployedProcesses' = deployedProcesses /\ processes' = processes
      /\ institutions \in Seq(Institutions)
      /\ allInstances \in [Templates -> Seq(Instances)] /\ Distinct(allInstances[t])
  BY DEF ListInstance, ForestInv, ForestTypeOK, OnceListed
<1>2. \A u \in Templates : p \notin Listed(allInstances[u])
  BY <1>1 DEF ListedInstances
<1>3. /\ allInstances' \in [Templates -> Seq(Instances)]
      /\ allInstances'[t] = Append(allInstances[t], p)
      /\ \A u \in Templates \ {t} : allInstances'[u] = allInstances[u]
  BY <1>1, AppendLists
<1>4. /\ Distinct(allInstances'[t])
      /\ Listed(allInstances'[t]) = Listed(allInstances[t]) \cup {p}
  BY <1>1, <1>2, <1>3, AppendLists
<1>5. ForestInv'
  <2>1. ForestTypeOK' /\ OnceListed'
    BY <1>1, <1>3, <1>4 DEF ForestInv, ForestTypeOK, OnceListed
  <2>2. OneParent'
    <3>1. ASSUME NEW u \in Templates
          PROVE  Listed(allInstances'[u]) = IF u = t THEN Listed(allInstances[u]) \cup {p}
                                            ELSE Listed(allInstances[u])
      BY <1>3, <1>4
    <3>2. ASSUME NEW u \in Templates, NEW v \in Templates, u # v
          PROVE  Listed(allInstances'[u]) \cap Listed(allInstances'[v]) = {}
      <4>1. Listed(allInstances[u]) \cap Listed(allInstances[v]) = {}
        BY <3>2 DEF ForestInv, OneParent
      <4> QED BY <4>1, <3>1, <3>2, <1>2
    <3>3. /\ \A j \in Institutions :
               Listed(processes'[j]) \cap Listed(deployedProcesses') = {}
          /\ \A j, k \in Institutions :
               j # k => Listed(processes'[j]) \cap Listed(processes'[k]) = {}
      BY <1>1 DEF ForestInv, OneParent
    <3> QED BY <3>2, <3>3 DEF OneParent
  <2>3. ParentsListed'
    BY <1>1 DEF ForestInv, ParentsListed
  <2> QED BY <2>1, <2>2, <2>3 DEF ForestInv
<1>6. Grown
  BY <1>1, <1>3, <1>4, ExtendsItself DEF Grown
<1> QED BY <1>5, <1>6

LEMMA ForestGrows ==
  ASSUME ForestInv, ForestNext
  PROVE  ForestInv' /\ Grown
BY InstitutionListed, StandaloneListed, ProcessListed, InstanceListed DEF ForestNext

-----------------------------------------------------------------------------
\* The crawl.  The invariant says, for each list that was read or could not be, what
\* has been found in it, and where the loops are.

\* How many institutions, and how many templates, were asked so far.
InstitutionsRead == IF phase = "templates" THEN next - 1 ELSE Len(foundInstitutions)
TemplatesRead == IF phase = "instances" THEN next - 1
                 ELSE IF phase = "done" THEN Len(foundTemplates) ELSE 0

Standalones == phase \in {"instances", "done"}
Begun       == phase \notin {"institutions", "failed"}

Position ==
  /\ ~Begun => foundInstitutions = <<>>
  /\ phase = "institutions" => next = 1
  /\ phase = "templates" => next <= Len(foundInstitutions) + 1
  /\ phase = "instances" => next <= Len(foundTemplates) + 1

Sound ==
  /\ Extends(foundInstitutions, institutions)
  /\ \A t \in Listed(foundTemplates) :
       \/ Standalones /\ t \in Listed(deployedProcesses)
       \/ \E k \in 1..InstitutionsRead : t \in Listed(processes[foundInstitutions[k]])
  /\ \A p \in Listed(foundInstances) :
       \E k \in 1..TemplatesRead : p \in Listed(allInstances[foundTemplates[k]])
  /\ Distinct(foundTemplates) /\ Distinct(foundInstances)

StartKnown ==
  /\ atStart \cap Templates \subseteq ListedTemplates
  /\ atStart \cap Instances \subseteq ListedInstances
  /\ Begun =>
       /\ atStart \cap Institutions \subseteq Listed(foundInstitutions)
       /\ \A i \in Institutions :
            atStart \cap Listed(processes[i]) # {} => i \in Listed(foundInstitutions)

Complete ==
  /\ \A k \in 1..InstitutionsRead :
       \/ foundInstitutions[k] \in unread
       \/ atStart \cap Listed(processes[foundInstitutions[k]]) \subseteq Listed(foundTemplates)
  /\ Standalones =>
       \/ Deployer \in unread
       \/ atStart \cap Listed(deployedProcesses) \subseteq Listed(foundTemplates)
  /\ \A k \in 1..TemplatesRead :
       \/ foundTemplates[k] \in unread
       \/ atStart \cap Listed(allInstances[foundTemplates[k]]) \subseteq Listed(foundInstances)

CrawlInv == DiscoveryTypeOK /\ Position /\ Sound /\ StartKnown /\ Complete

DiscoveryInv == ForestInv /\ CrawlInv

LEMMA DiscoveryBegins == DiscoveryInit => DiscoveryInv
<1> SUFFICES ASSUME DiscoveryInit PROVE DiscoveryInv
  OBVIOUS
<1>1. /\ phase = "institutions" /\ next = 1 /\ unread = {} /\ atStart = {}
      /\ foundInstitutions = <<>> /\ foundTemplates = <<>> /\ foundInstances = <<>>
  BY DEF DiscoveryInit
<1>2. ForestInv
  BY ForestBegins DEF DiscoveryInit
<1>3. DiscoveryTypeOK
  BY <1>1, <1>2, EmptyArray DEF ForestInv, DiscoveryTypeOK
<1>4. InstitutionsRead = 0 /\ TemplatesRead = 0 /\ ~Standalones /\ ~Begun
  BY <1>1 DEF InstitutionsRead, TemplatesRead, Standalones, Begun
<1>5. Position
  BY <1>1, <1>4 DEF Position
<1>6. Sound
  <2>1. institutions \in Seq(Institutions)
    BY <1>2 DEF ForestInv, ForestTypeOK
  <2>2. Extends(<<>>, institutions)
    BY <2>1 DEF Extends
  <2> QED BY <1>1, <2>2, EmptyArray DEF Sound
<1>7. StartKnown /\ Complete
  BY <1>1, <1>4 DEF StartKnown, Complete
<1> QED BY <1>2, <1>3, <1>5, <1>6, <1>7 DEF CrawlInv, DiscoveryInv

\* The lists have what their types say.
LEMMA Members ==
  ASSUME DiscoveryInv
  PROVE  /\ \A k \in 1..Len(foundInstitutions) : foundInstitutions[k] \in Institutions
         /\ \A k \in 1..Len(foundTemplates) : foundTemplates[k] \in Templates
         /\ Listed(institutions) \subseteq Institutions
         /\ Listed(foundTemplates) \subseteq Templates
         /\ Listed(deployedProcesses) \subseteq Templates
         /\ \A i \in Institutions :
              processes[i] \in Seq(Templates) /\ Listed(processes[i]) \subseteq Templates
         /\ \A t \in Templates :
              allInstances[t] \in Seq(Instances) /\ Listed(allInstances[t]) \subseteq Instances
         /\ Len(foundInstitutions) \in Nat /\ Len(foundTemplates) \in Nat
<1>1. /\ ForestTypeOK /\ foundInstitutions \in Seq(Institutions)
      /\ foundTemplates \in Seq(Templates)
  BY DEF DiscoveryInv, CrawlInv, DiscoveryTypeOK
<1>2. ASSUME NEW S, NEW s \in Seq(S) PROVE Listed(s) \subseteq S
  BY DEF Listed
<1>3. /\ institutions \in Seq(Institutions) /\ deployedProcesses \in Seq(Templates)
      /\ \A i \in Institutions : processes[i] \in Seq(Templates)
      /\ \A t \in Templates : allInstances[t] \in Seq(Instances)
  BY <1>1 DEF ForestTypeOK
<1> QED BY <1>1, <1>2, <1>3

\* How far the loops are.
LEMMA ReadRange ==
  ASSUME DiscoveryInv
  PROVE  /\ InstitutionsRead \in 0..Len(foundInstitutions)
         /\ TemplatesRead \in 0..Len(foundTemplates)
<1>1. next \in Nat \ {0}
  BY DEF DiscoveryInv, CrawlInv, DiscoveryTypeOK
<1>2. Position /\ Len(foundInstitutions) \in Nat /\ Len(foundTemplates) \in Nat
  BY Members DEF DiscoveryInv, CrawlInv
<1> QED BY <1>1, <1>2 DEF Position, InstitutionsRead, TemplatesRead

\* Growth of the chain takes nothing from what was found, and adds nothing to what
\* there was at the start.
LEMMA GrowthKeeps ==
  ASSUME DiscoveryInv, ContractsAssumption, ChainGrows
  PROVE  DiscoveryInv'
<1>1. ForestInv' /\ Grown
  BY ForestGrows DEF ChainGrows, DiscoveryInv
<1>2. /\ phase' = phase /\ next' = next /\ unread' = unread /\ atStart' = atStart
      /\ foundInstitutions' = foundInstitutions /\ foundTemplates' = foundTemplates
      /\ foundInstances' = foundInstances
  BY DEF ChainGrows, crawlVars
<1>3. /\ InstitutionsRead' = InstitutionsRead /\ TemplatesRead' = TemplatesRead
      /\ Standalones' = Standalones /\ Begun' = Begun
  BY <1>2 DEF InstitutionsRead, TemplatesRead, Standalones, Begun
<1>4. DiscoveryTypeOK' /\ Position'
  BY <1>1, <1>2, <1>3 DEF DiscoveryInv, CrawlInv, DiscoveryTypeOK, ForestInv, Position
<1>5. /\ \A k \in 1..InstitutionsRead : foundInstitutions[k] \in Institutions
      /\ \A k \in 1..TemplatesRead : foundTemplates[k] \in Templates
  BY Members, ReadRange
<1>6. Sound'
  <2>1. Extends(foundInstitutions, institutions')
    <3>1. /\ institutions \in Seq(Institutions) /\ institutions' \in Seq(Institutions)
          /\ foundInstitutions \in Seq(Institutions)
      BY <1>1 DEF DiscoveryInv, CrawlInv, DiscoveryTypeOK, ForestInv, ForestTypeOK
    <3>2. Extends(foundInstitutions, institutions) /\ Extends(institutions, institutions')
      BY <1>1 DEF DiscoveryInv, CrawlInv, Sound, Grown
    <3> QED BY <3>1, <3>2, ExtendsLists
  <2>2. \A t \in Listed(foundTemplates) :
          \/ Standalones /\ t \in Listed(deployedProcesses')
          \/ \E k \in 1..InstitutionsRead : t \in Listed(processes'[foundInstitutions[k]])
    BY <1>1, <1>5 DEF DiscoveryInv, CrawlInv, Sound, Grown
  <2>3. \A p \in Listed(foundInstances) :
          \E k \in 1..TemplatesRead : p \in Listed(allInstances'[foundTemplates[k]])
    BY <1>1, <1>5 DEF DiscoveryInv, CrawlInv, Sound, Grown
  <2> QED BY <1>2, <1>3, <2>1, <2>2, <2>3 DEF DiscoveryInv, CrawlInv, Sound
<1>7. /\ \A i \in Institutions :
           atStart \cap Listed(processes'[i]) \subseteq Listed(processes[i])
      /\ atStart \cap Listed(deployedProcesses') \subseteq Listed(deployedProcesses)
      /\ \A t \in Templates :
           atStart \cap Listed(allInstances'[t]) \subseteq Listed(allInstances[t])
  <2>1. /\ atStart \cap Templates \subseteq ListedTemplates
        /\ atStart \cap Instances \subseteq ListedInstances
    BY DEF DiscoveryInv, CrawlInv, StartKnown
  <2>2. /\ Listed(deployedProcesses') \subseteq Templates
        /\ \A i \in Institutions : Listed(processes'[i]) \subseteq Templates
        /\ \A t \in Templates : Listed(allInstances'[t]) \subseteq Instances
    BY <1>1 DEF ForestInv, ForestTypeOK, Listed
  <2> QED BY <1>1, <2>1, <2>2 DEF Grown
<1>8. StartKnown'
  <2>1. ListedTemplates \subseteq ListedTemplates' /\ ListedInstances \subseteq ListedInstances'
    BY <1>1 DEF Grown, ListedTemplates, ListedInstances
  <2>2. /\ atStart' \cap Templates \subseteq ListedTemplates'
        /\ atStart' \cap Instances \subseteq ListedInstances'
    BY <1>2, <2>1 DEF DiscoveryInv, CrawlInv, StartKnown
  <2>3. ASSUME Begun, NEW i \in Institutions, atStart \cap Listed(processes'[i]) # {}
        PROVE  i \in Listed(foundInstitutions)
    <3>1. atStart \cap Listed(processes[i]) # {}
      BY <2>3, <1>7
    <3> QED BY <2>3, <3>1 DEF DiscoveryInv, CrawlInv, StartKnown
  <2> QED BY <1>2, <1>3, <2>2, <2>3 DEF DiscoveryInv, CrawlInv, StartKnown
<1>9. Complete'
  <2>1. \A k \in 1..InstitutionsRead :
          \/ foundInstitutions[k] \in unread
          \/ atStart \cap Listed(processes'[foundInstitutions[k]]) \subseteq Listed(foundTemplates)
    BY <1>5, <1>7 DEF DiscoveryInv, CrawlInv, Complete
  <2>2. Standalones =>
          \/ Deployer \in unread
          \/ atStart \cap Listed(deployedProcesses') \subseteq Listed(foundTemplates)
    BY <1>7 DEF DiscoveryInv, CrawlInv, Complete
  <2>3. \A k \in 1..TemplatesRead :
          \/ foundTemplates[k] \in unread
          \/ atStart \cap Listed(allInstances'[foundTemplates[k]]) \subseteq Listed(foundInstances)
    BY <1>5, <1>7 DEF DiscoveryInv, CrawlInv, Complete
  <2> QED BY <1>2, <1>3, <2>1, <2>2, <2>3 DEF Complete
<1> QED BY <1>1, <1>4, <1>6, <1>8, <1>9 DEF DiscoveryInv, CrawlInv

\* Between two transactions.
LEMMA ForestStays ==
  ASSUME ForestInv, UNCHANGED forestVars
  PROVE  ForestInv' /\ ForestTypeOK'
<1> QED BY DEF ForestInv, ForestTypeOK, OnceListed, OneParent, ParentsListed, forestVars

LEMMA ReadInstitutionsKeeps ==
  ASSUME DiscoveryInv, ContractsAssumption, ReadInstitutions
  PROVE  DiscoveryInv'
<1>1. /\ phase = "institutions" /\ next = 1 /\ foundInstitutions = <<>>
      /\ UNCHANGED <<forestVars, next, foundTemplates, foundInstances, unread>>
      /\ atStart' = Listed(institutions) \cup ListedTemplates \cup ListedInstances
  BY DEF ReadInstitutions, DiscoveryInv, CrawlInv, Position, Begun
<1>2. ForestInv' /\ ForestTypeOK'
  BY <1>1, ForestStays DEF DiscoveryInv
<1>3. /\ InstitutionsRead = 0 /\ TemplatesRead = 0 /\ ~Standalones
      /\ Listed(foundTemplates) = {} /\ Listed(foundInstances) = {}
  <2>1. InstitutionsRead = 0 /\ TemplatesRead = 0 /\ ~Standalones
    BY <1>1 DEF InstitutionsRead, TemplatesRead, Standalones
  <2> QED BY <2>1 DEF DiscoveryInv, CrawlInv, Sound
<1>4. PICK lists, templates, instances :
        /\ lists = Listed(institutions) /\ templates = ListedTemplates
        /\ instances = ListedInstances
  OBVIOUS
<1>5. lists \subseteq Institutions /\ templates \subseteq Templates /\ instances \subseteq Instances
  BY <1>4, Members DEF ListedTemplates, ListedInstances
<1>6. /\ atStart' \subseteq Institutions \cup Templates \cup Instances
      /\ atStart' \cap Templates \subseteq ListedTemplates
      /\ atStart' \cap Instances \subseteq ListedInstances
      /\ atStart' \cap Institutions = Listed(institutions)
  BY <1>1, <1>4, <1>5 DEF ContractsAssumption
<1>7. /\ institutions \in Seq(Institutions) /\ Extends(institutions, institutions)
      /\ Extends(foundInstitutions, institutions)
  <2>1. institutions \in Seq(Institutions)
    BY DEF DiscoveryInv, ForestInv, ForestTypeOK
  <2> QED BY <2>1, ExtendsItself DEF DiscoveryInv, CrawlInv, Sound
<1>8. DiscoveryTypeOK'
  BY <1>1, <1>2, <1>6, <1>7 DEF DiscoveryInv, CrawlInv, DiscoveryTypeOK, ReadInstitutions
<1>9. CASE foundInstitutions' = institutions /\ phase' = "templates"
  <2>1. InstitutionsRead' = 0 /\ TemplatesRead' = 0 /\ ~Standalones' /\ Begun'
    BY <1>1, <1>9 DEF InstitutionsRead, TemplatesRead, Standalones, Begun
  <2>2. Position'
    <3>1. Len(institutions) \in Nat
      BY <1>7
    <3> QED BY <1>1, <1>9, <2>1, <3>1 DEF Position
  <2>3. Sound'
    BY <1>1, <1>3, <1>7, <1>9, <2>1 DEF DiscoveryInv, CrawlInv, Sound, forestVars
  <2>4. StartKnown'
    <3>1. \A i \in Institutions : Listed(processes[i]) # {} => i \in Listed(institutions)
      BY DEF DiscoveryInv, ForestInv, ParentsListed
    <3>2. ListedTemplates' = ListedTemplates /\ ListedInstances' = ListedInstances
      BY <1>1 DEF forestVars, ListedTemplates, ListedInstances
    <3> QED BY <1>1, <1>6, <1>9, <3>1, <3>2 DEF StartKnown, forestVars
  <2>5. Complete'
    BY <2>1 DEF Complete
  <2> QED BY <1>2, <1>8, <2>2, <2>3, <2>4, <2>5 DEF DiscoveryInv, CrawlInv
<1>10. CASE phase' = "failed" /\ foundInstitutions' = foundInstitutions
  <2>1. InstitutionsRead' = 0 /\ TemplatesRead' = 0 /\ ~Standalones' /\ ~Begun'
    BY <1>1, <1>10 DEF InstitutionsRead, TemplatesRead, Standalones, Begun
  <2>2. Position'
    BY <1>1, <1>10, <2>1 DEF Position
  <2>3. Sound'
    BY <1>1, <1>3, <1>7, <1>10, <2>1 DEF DiscoveryInv, CrawlInv, Sound, forestVars
  <2>4. StartKnown'
    <3>1. ListedTemplates' = ListedTemplates /\ ListedInstances' = ListedInstances
      BY <1>1 DEF forestVars, ListedTemplates, ListedInstances
    <3> QED BY <1>6, <2>1, <3>1 DEF StartKnown
  <2>5. Complete'
    BY <2>1 DEF Complete
  <2> QED BY <1>2, <1>8, <2>2, <2>3, <2>4, <2>5 DEF DiscoveryInv, CrawlInv
<1> QED BY <1>9, <1>10 DEF ReadInstitutions

\* What every later step has in common.
LEMMA StartStays ==
  ASSUME DiscoveryInv, Begun', Begun,
         UNCHANGED <<forestVars, foundInstitutions, atStart>>
  PROVE  StartKnown'
<1>1. ListedTemplates' = ListedTemplates /\ ListedInstances' = ListedInstances
  BY DEF forestVars, ListedTemplates, ListedInstances
<1> QED BY <1>1 DEF DiscoveryInv, CrawlInv, StartKnown, forestVars

LEMMA ReadProcessesKeeps ==
  ASSUME DiscoveryInv, ContractsAssumption, ReadProcesses
  PROVE  DiscoveryInv'
<1> DEFINE i == foundInstitutions[next]
<1>1. /\ phase = "templates" /\ next <= Len(foundInstitutions) /\ next' = next + 1
      /\ UNCHANGED <<forestVars, phase, foundInstitutions, foundInstances, atStart>>
      /\ next \in Nat \ {0} /\ Len(foundInstitutions) \in Nat
  BY Members DEF ReadProcesses, DiscoveryInv, CrawlInv, DiscoveryTypeOK
<1>2. ForestInv' /\ ForestTypeOK'
  BY <1>1, ForestStays DEF DiscoveryInv
<1>3. /\ next \in 1..Len(foundInstitutions) /\ i \in Institutions
      /\ processes[i] \in Seq(Templates) /\ Distinct(processes[i])
  <2>1. next \in 1..Len(foundInstitutions) /\ i \in Institutions
    BY <1>1, Members
  <2> QED BY <2>1, Members DEF DiscoveryInv, ForestInv, OnceListed
<1>4. /\ InstitutionsRead = next - 1 /\ InstitutionsRead' = next
      /\ TemplatesRead = 0 /\ TemplatesRead' = 0
      /\ ~Standalones /\ ~Standalones' /\ Begun /\ Begun'
  BY <1>1 DEF InstitutionsRead, TemplatesRead, Standalones, Begun
<1>5. /\ foundTemplates \in Seq(Templates) /\ Distinct(foundTemplates)
      /\ Extends(foundInstitutions, institutions)
      /\ \A t \in Listed(foundTemplates) :
           \E k \in 1..(next - 1) : t \in Listed(processes[foundInstitutions[k]])
      /\ \A k \in 1..(next - 1) :
           \/ foundInstitutions[k] \in unread
           \/ atStart \cap Listed(processes[foundInstitutions[k]]) \subseteq Listed(foundTemplates)
  BY <1>4 DEF DiscoveryInv, CrawlInv, DiscoveryTypeOK, Sound, Complete
<1>6. Listed(foundTemplates) \cap Listed(processes[i]) = {}
  <2>1. Distinct(foundInstitutions)
    <3>1. /\ institutions \in Seq(Institutions) /\ Distinct(institutions)
          /\ foundInstitutions \in Seq(Institutions)
      BY DEF DiscoveryInv, CrawlInv, DiscoveryTypeOK, ForestInv, ForestTypeOK, OnceListed
    <3> QED BY <3>1, <1>5, ExtendsLists
  <2>2. ASSUME NEW k \in 1..(next - 1)
        PROVE  Listed(processes[foundInstitutions[k]]) \cap Listed(processes[i]) = {}
    <3>1. k \in 1..Len(foundInstitutions) /\ k # next
      BY <1>1
    <3>2. foundInstitutions[k] # i
      BY <3>1, <2>1, <1>3 DEF Distinct
    <3>3. foundInstitutions[k] \in Institutions
      BY <3>1, Members
    <3> QED BY <3>2, <3>3, <1>3 DEF DiscoveryInv, ForestInv, OneParent
  <2> QED BY <1>5, <2>2
<1>7. /\ foundTemplates' \in Seq(Templates) /\ Distinct(foundTemplates')
      /\ unread \subseteq unread' /\ unread' \subseteq Institutions \cup Templates \cup {Deployer}
      /\ Listed(foundTemplates) \subseteq Listed(foundTemplates')
      /\ Listed(foundTemplates') \subseteq Listed(foundTemplates) \cup Listed(processes[i])
      /\ i \in unread' \/ Listed(processes[i]) \subseteq Listed(foundTemplates')
  <2>1. unread \subseteq Institutions \cup Templates \cup {Deployer}
    BY DEF DiscoveryInv, CrawlInv, DiscoveryTypeOK
  <2>2. CASE foundTemplates' = foundTemplates \o processes[i] /\ unread' = unread
    BY <2>1, <2>2, <1>3, <1>5, <1>6, ConcatLists
  <2>3. CASE unread' = unread \cup {i} /\ foundTemplates' = foundTemplates
    BY <2>1, <2>3, <1>3, <1>5
  <2> QED BY <2>2, <2>3 DEF ReadProcesses
<1> HIDE DEF i
<1>8. DiscoveryTypeOK'
  BY <1>1, <1>2, <1>7 DEF DiscoveryInv, CrawlInv, DiscoveryTypeOK
<1>9. Position'
  BY <1>1, <1>4 DEF Position
<1>10. Sound'
  <2>1. ASSUME NEW t \in Listed(foundTemplates')
        PROVE  \E k \in 1..next : t \in Listed(processes[foundInstitutions[k]])
    <3>1. CASE t \in Listed(foundTemplates)
      <4>1. PICK k \in 1..(next - 1) : t \in Listed(processes[foundInstitutions[k]])
        BY <3>1, <1>5
      <4>2. k \in 1..next
        BY <1>1
      <4> QED BY <4>1, <4>2
    <3>2. CASE t \in Listed(processes[i])
      <4>1. next \in 1..next
        BY <1>1
      <4> QED BY <3>2, <4>1 DEF i
    <3> QED BY <1>7, <2>1, <3>1, <3>2
  <2>2. \A p \in Listed(foundInstances') : FALSE
    BY <1>1, <1>4 DEF DiscoveryInv, CrawlInv, Sound
  <2> QED BY <1>1, <1>4, <1>5, <1>7, <2>1, <2>2 DEF DiscoveryInv, CrawlInv, Sound, forestVars
<1>11. StartKnown'
  BY <1>1, <1>4, StartStays
<1>12. Complete'
  <2>1. ASSUME NEW k \in 1..next
        PROVE  \/ foundInstitutions[k] \in unread'
               \/ atStart \cap Listed(processes[foundInstitutions[k]])
                    \subseteq Listed(foundTemplates')
    <3>1. CASE k = next
      BY <3>1, <1>7 DEF i
    <3>2. CASE k # next
      <4>1. k \in 1..(next - 1)
        BY <3>2, <1>1
      <4> QED BY <4>1, <1>5, <1>7
    <3> QED BY <3>1, <3>2
  <2> QED BY <1>1, <1>4, <2>1 DEF Complete, forestVars
<1> QED BY <1>2, <1>8, <1>9, <1>10, <1>11, <1>12 DEF DiscoveryInv, CrawlInv

LEMMA ReadStandaloneKeeps ==
  ASSUME DiscoveryInv, ContractsAssumption, ReadStandalone
  PROVE  DiscoveryInv'
<1>1. /\ phase = "templates" /\ next > Len(foundInstitutions)
      /\ phase' = "instances" /\ next' = 1
      /\ UNCHANGED <<forestVars, foundInstitutions, foundInstances, atStart>>
      /\ next \in Nat \ {0} /\ Len(foundInstitutions) \in Nat
      /\ next <= Len(foundInstitutions) + 1
  BY Members DEF ReadStandalone, DiscoveryInv, CrawlInv, DiscoveryTypeOK, Position
<1>2. ForestInv' /\ ForestTypeOK'
  BY <1>1, ForestStays DEF DiscoveryInv
<1>3. /\ InstitutionsRead = Len(foundInstitutions)
      /\ InstitutionsRead' = Len(foundInstitutions)
      /\ TemplatesRead = 0 /\ TemplatesRead' = 0
      /\ ~Standalones /\ Standalones' /\ Begun /\ Begun'
  BY <1>1 DEF InstitutionsRead, TemplatesRead, Standalones, Begun
<1>4. /\ foundTemplates \in Seq(Templates) /\ Distinct(foundTemplates)
      /\ deployedProcesses \in Seq(Templates)
  BY DEF DiscoveryInv, CrawlInv, DiscoveryTypeOK, Sound, ForestInv, ForestTypeOK
<1>5. /\ foundTemplates' \in Seq(Templates) /\ Distinct(foundTemplates')
      /\ unread \subseteq unread' /\ unread' \subseteq Institutions \cup Templates \cup {Deployer}
      /\ Listed(foundTemplates) \subseteq Listed(foundTemplates')
      /\ Listed(foundTemplates') \subseteq Listed(foundTemplates) \cup Listed(deployedProcesses)
      /\ Deployer \in unread' \/ Listed(deployedProcesses) \subseteq Listed(foundTemplates')
  <2>1. unread \subseteq Institutions \cup Templates \cup {Deployer}
    BY DEF DiscoveryInv, CrawlInv, DiscoveryTypeOK
  <2>2. CASE /\ foundTemplates' = Pushed(foundTemplates, deployedProcesses)[Len(deployedProcesses)]
             /\ unread' = unread
    <3>1. /\ foundTemplates' \in Seq(Templates) /\ Distinct(foundTemplates')
          /\ Listed(foundTemplates') = Listed(foundTemplates) \cup Listed(deployedProcesses)
      BY <2>2, <1>4, PushedLists
    <3> QED BY <2>1, <2>2, <3>1
  <2>3. CASE unread' = unread \cup {Deployer} /\ foundTemplates' = foundTemplates
    BY <2>1, <2>3, <1>4
  <2> QED BY <2>2, <2>3 DEF ReadStandalone
<1>6. DiscoveryTypeOK'
  BY <1>1, <1>2, <1>5 DEF DiscoveryInv, CrawlInv, DiscoveryTypeOK
<1>7. Position'
  <2>1. Len(foundTemplates') \in Nat
    BY <1>5
  <2> QED BY <1>1, <1>3, <2>1 DEF Position
<1>8. Sound'
  <2>1. \A t \in Listed(foundTemplates') :
          \/ t \in Listed(deployedProcesses)
          \/ \E k \in 1..Len(foundInstitutions) : t \in Listed(processes[foundInstitutions[k]])
    BY <1>3, <1>5 DEF DiscoveryInv, CrawlInv, Sound
  <2>2. \A p \in Listed(foundInstances') : FALSE
    BY <1>1, <1>3 DEF DiscoveryInv, CrawlInv, Sound
  <2> QED BY <1>1, <1>3, <1>5, <2>1, <2>2 DEF DiscoveryInv, CrawlInv, Sound, forestVars
<1>9. StartKnown'
  BY <1>1, <1>3, StartStays
<1>10. Complete'
  <2>1. \A k \in 1..Len(foundInstitutions) :
          \/ foundInstitutions[k] \in unread'
          \/ atStart \cap Listed(processes[foundInstitutions[k]]) \subseteq Listed(foundTemplates')
    BY <1>3, <1>5 DEF DiscoveryInv, CrawlInv, Complete
  <2>2. \/ Deployer \in unread'
        \/ atStart \cap Listed(deployedProcesses) \subseteq Listed(foundTemplates')
    BY <1>5
  <2> QED BY <1>1, <1>3, <2>1, <2>2 DEF Complete, forestVars
<1> QED BY <1>2, <1>6, <1>7, <1>8, <1>9, <1>10 DEF DiscoveryInv, CrawlInv

LEMMA ReadInstancesKeeps ==
  ASSUME DiscoveryInv, ContractsAssumption, ReadInstances
  PROVE  DiscoveryInv'
<1> DEFINE t == foundTemplates[next]
<1>1. /\ phase = "instances" /\ next <= Len(foundTemplates) /\ next' = next + 1
      /\ UNCHANGED <<forestVars, phase, foundInstitutions, foundTemplates, atStart>>
      /\ next \in Nat \ {0} /\ Len(foundTemplates) \in Nat
  BY Members DEF ReadInstances, DiscoveryInv, CrawlInv, DiscoveryTypeOK
<1>2. ForestInv' /\ ForestTypeOK'
  BY <1>1, ForestStays DEF DiscoveryInv
<1>3. /\ next \in 1..Len(foundTemplates) /\ t \in Templates
      /\ allInstances[t] \in Seq(Instances) /\ Distinct(allInstances[t])
  <2>1. next \in 1..Len(foundTemplates) /\ t \in Templates
    BY <1>1, Members
  <2> QED BY <2>1, Members DEF DiscoveryInv, ForestInv, OnceListed
<1>4. /\ TemplatesRead = next - 1 /\ TemplatesRead' = next
      /\ InstitutionsRead' = InstitutionsRead
      /\ Standalones /\ Standalones' /\ Begun /\ Begun'
  BY <1>1 DEF InstitutionsRead, TemplatesRead, Standalones, Begun
<1>5. /\ foundInstances \in Seq(Instances) /\ Distinct(foundInstances)
      /\ \A p \in Listed(foundInstances) :
           \E k \in 1..(next - 1) : p \in Listed(allInstances[foundTemplates[k]])
      /\ \A k \in 1..(next - 1) :
           \/ foundTemplates[k] \in unread
           \/ atStart \cap Listed(allInstances[foundTemplates[k]]) \subseteq Listed(foundInstances)
  BY <1>4 DEF DiscoveryInv, CrawlInv, DiscoveryTypeOK, Sound, Complete
<1>6. Listed(foundInstances) \cap Listed(allInstances[t]) = {}
  <2>1. Distinct(foundTemplates)
    BY DEF DiscoveryInv, CrawlInv, Sound
  <2>2. ASSUME NEW k \in 1..(next - 1)
        PROVE  Listed(allInstances[foundTemplates[k]]) \cap Listed(allInstances[t]) = {}
    <3>1. k \in 1..Len(foundTemplates) /\ k # next
      BY <1>1
    <3>2. foundTemplates[k] # t
      BY <3>1, <2>1, <1>3 DEF Distinct
    <3>3. foundTemplates[k] \in Templates
      BY <3>1, Members
    <3> QED BY <3>2, <3>3, <1>3 DEF DiscoveryInv, ForestInv, OneParent
  <2> QED BY <1>5, <2>2
<1>7. /\ foundInstances' \in Seq(Instances) /\ Distinct(foundInstances')
      /\ unread \subseteq unread' /\ unread' \subseteq Institutions \cup Templates \cup {Deployer}
      /\ Listed(foundInstances) \subseteq Listed(foundInstances')
      /\ Listed(foundInstances') \subseteq Listed(foundInstances) \cup Listed(allInstances[t])
      /\ t \in unread' \/ Listed(allInstances[t]) \subseteq Listed(foundInstances')
  <2>1. unread \subseteq Institutions \cup Templates \cup {Deployer}
    BY DEF DiscoveryInv, CrawlInv, DiscoveryTypeOK
  <2>2. CASE foundInstances' = foundInstances \o allInstances[t] /\ unread' = unread
    BY <2>1, <2>2, <1>3, <1>5, <1>6, ConcatLists
  <2>3. CASE unread' = unread \cup {t} /\ foundInstances' = foundInstances
    BY <2>1, <2>3, <1>3, <1>5
  <2> QED BY <2>2, <2>3 DEF ReadInstances
<1> HIDE DEF t
<1>8. DiscoveryTypeOK'
  BY <1>1, <1>2, <1>7 DEF DiscoveryInv, CrawlInv, DiscoveryTypeOK
<1>9. Position'
  BY <1>1, <1>4 DEF Position
<1>10. Sound'
  <2>1. ASSUME NEW p \in Listed(foundInstances')
        PROVE  \E k \in 1..next : p \in Listed(allInstances[foundTemplates[k]])
    <3>1. CASE p \in Listed(foundInstances)
      <4>1. PICK k \in 1..(next - 1) : p \in Listed(allInstances[foundTemplates[k]])
        BY <3>1, <1>5
      <4>2. k \in 1..next
        BY <1>1
      <4> QED BY <4>1, <4>2
    <3>2. CASE p \in Listed(allInstances[t])
      <4>1. next \in 1..next
        BY <1>1
      <4> QED BY <3>2, <4>1 DEF t
    <3> QED BY <1>7, <2>1, <3>1, <3>2
  <2> QED BY <1>1, <1>4, <1>7, <2>1 DEF DiscoveryInv, CrawlInv, Sound, forestVars
<1>11. StartKnown'
  BY <1>1, <1>4, StartStays
<1>12. Complete'
  <2>1. ASSUME NEW k \in 1..next
        PROVE  \/ foundTemplates[k] \in unread'
               \/ atStart \cap Listed(allInstances[foundTemplates[k]])
                    \subseteq Listed(foundInstances')
    <3>1. CASE k = next
      BY <3>1, <1>7 DEF t
    <3>2. CASE k # next
      <4>1. k \in 1..(next - 1)
        BY <3>2, <1>1
      <4> QED BY <4>1, <1>5, <1>7
    <3> QED BY <3>1, <3>2
  <2>2. \A k \in 1..InstitutionsRead :
          \/ foundInstitutions[k] \in unread'
          \/ atStart \cap Listed(processes[foundInstitutions[k]]) \subseteq Listed(foundTemplates)
    BY <1>7 DEF DiscoveryInv, CrawlInv, Complete
  <2>3. \/ Deployer \in unread'
        \/ atStart \cap Listed(deployedProcesses) \subseteq Listed(foundTemplates)
    BY <1>4, <1>7 DEF DiscoveryInv, CrawlInv, Complete
  <2> QED BY <1>1, <1>4, <2>1, <2>2, <2>3 DEF Complete, forestVars
<1> QED BY <1>2, <1>8, <1>9, <1>10, <1>11, <1>12 DEF DiscoveryInv, CrawlInv

LEMMA ReturnKeeps ==
  ASSUME DiscoveryInv, ContractsAssumption, Return
  PROVE  DiscoveryInv'
<1>1. /\ phase = "instances" /\ next > Len(foundTemplates) /\ phase' = "done"
      /\ UNCHANGED <<forestVars, next, foundInstitutions, foundTemplates, foundInstances,
                     unread, atStart>>
      /\ next \in Nat \ {0} /\ Len(foundTemplates) \in Nat
      /\ next <= Len(foundTemplates) + 1
  BY Members DEF Return, DiscoveryInv, CrawlInv, DiscoveryTypeOK, Position
<1>2. ForestInv' /\ ForestTypeOK'
  BY <1>1, ForestStays DEF DiscoveryInv
<1>3. /\ TemplatesRead' = TemplatesRead /\ InstitutionsRead' = InstitutionsRead
      /\ Standalones /\ Standalones' /\ Begun /\ Begun'
  BY <1>1 DEF InstitutionsRead, TemplatesRead, Standalones, Begun
<1>4. DiscoveryTypeOK'
  BY <1>1, <1>2 DEF DiscoveryInv, CrawlInv, DiscoveryTypeOK
<1>5. Position'
  BY <1>1, <1>3 DEF Position
<1>6. Sound'
  BY <1>1, <1>3 DEF DiscoveryInv, CrawlInv, Sound, forestVars
<1>7. StartKnown'
  BY <1>1, <1>3, StartStays
<1>8. Complete'
  BY <1>1, <1>3 DEF DiscoveryInv, CrawlInv, Complete, forestVars
<1> QED BY <1>2, <1>4, <1>5, <1>6, <1>7, <1>8 DEF DiscoveryInv, CrawlInv

\* Nothing happens.
LEMMA StutterKeeps ==
  ASSUME DiscoveryInv, UNCHANGED discoveryVars
  PROVE  DiscoveryInv'
<1>1. UNCHANGED forestVars /\ UNCHANGED crawlVars
  BY DEF discoveryVars
<1>2. ForestInv' /\ ForestTypeOK'
  BY <1>1, ForestStays DEF DiscoveryInv
<1>3. /\ TemplatesRead' = TemplatesRead /\ InstitutionsRead' = InstitutionsRead
      /\ Standalones' = Standalones /\ Begun' = Begun
      /\ ListedTemplates' = ListedTemplates /\ ListedInstances' = ListedInstances
  BY <1>1 DEF InstitutionsRead, TemplatesRead, Standalones, Begun, crawlVars, forestVars,
              ListedTemplates, ListedInstances
<1>4. DiscoveryTypeOK' /\ Position'
  BY <1>1, <1>2, <1>3 DEF DiscoveryInv, CrawlInv, DiscoveryTypeOK, Position, crawlVars
<1>5. Sound'
  BY <1>1, <1>3 DEF DiscoveryInv, CrawlInv, Sound, forestVars, crawlVars
<1>6. StartKnown' /\ Complete'
  BY <1>1, <1>3 DEF DiscoveryInv, CrawlInv, StartKnown, Complete, forestVars, crawlVars
<1> QED BY <1>2, <1>4, <1>5, <1>6 DEF DiscoveryInv, CrawlInv

\* What has been found is found in the lists it is said to come from, once, and what
\* was there at the start has been found in each list that was read; the chain keeps
\* its own order meanwhile.  Crawl and chain together keep this.
THEOREM DiscoveryInductive == DiscoverySpec => []DiscoveryInv
<1>1. DiscoveryInit => DiscoveryInv
  BY DiscoveryBegins
<1>2. DiscoveryInv /\ [DiscoveryNext]_discoveryVars => DiscoveryInv'
  <2> SUFFICES ASSUME DiscoveryInv, [DiscoveryNext]_discoveryVars PROVE DiscoveryInv'
    OBVIOUS
  <2>1. CASE ReadInstitutions
    BY <2>1, ContractsAssumption, ReadInstitutionsKeeps
  <2>2. CASE ReadProcesses
    BY <2>2, ContractsAssumption, ReadProcessesKeeps
  <2>3. CASE ReadStandalone
    BY <2>3, ContractsAssumption, ReadStandaloneKeeps
  <2>4. CASE ReadInstances
    BY <2>4, ContractsAssumption, ReadInstancesKeeps
  <2>5. CASE Return
    BY <2>5, ContractsAssumption, ReturnKeeps
  <2>6. CASE ChainGrows
    BY <2>6, ContractsAssumption, GrowthKeeps
  <2>7. CASE UNCHANGED discoveryVars
    BY <2>7, StutterKeeps
  <2> QED BY <2>1, <2>2, <2>3, <2>4, <2>5, <2>6, <2>7 DEF DiscoveryNext, Crawl
<1> QED BY <1>1, <1>2, PTL DEF DiscoverySpec

\* Whatever grows and fails meanwhile, discover_binst_contracts returns contracts
\* that are on the chain under the parents it returns, and none of them twice.
THEOREM FoundIsAlwaysOnChain == DiscoverySpec => []FoundIsOnChain
<1>1. DiscoveryInv => FoundIsOnChain
  <2> SUFFICES ASSUME DiscoveryInv PROVE FoundIsOnChain
    OBVIOUS
  <2>1. /\ DiscoveryTypeOK /\ Extends(foundInstitutions, institutions)
        /\ Distinct(foundTemplates) /\ Distinct(foundInstances)
    BY DEF DiscoveryInv, CrawlInv, Sound
  <2>2. Distinct(foundInstitutions)
    <3>1. /\ institutions \in Seq(Institutions) /\ Distinct(institutions)
          /\ foundInstitutions \in Seq(Institutions)
      BY DEF DiscoveryInv, CrawlInv, DiscoveryTypeOK, ForestInv, ForestTypeOK, OnceListed
    <3> QED BY <3>1, <2>1, ExtendsLists
  <2>3. ASSUME NEW t \in Listed(foundTemplates)
        PROVE  \/ t \in Listed(deployedProcesses)
               \/ \E i \in Listed(foundInstitutions) : t \in Listed(processes[i])
    <3>1. CASE t \in Listed(deployedProcesses)
      BY <3>1
    <3>2. CASE \E k \in 1..InstitutionsRead : t \in Listed(processes[foundInstitutions[k]])
      <4>1. PICK k \in 1..InstitutionsRead : t \in Listed(processes[foundInstitutions[k]])
        BY <3>2
      <4>2. k \in 1..Len(foundInstitutions)
        BY ReadRange, Members
      <4>3. foundInstitutions[k] \in Listed(foundInstitutions)
        BY <4>2 DEF Listed
      <4> QED BY <4>1, <4>3
    <3> QED BY <3>1, <3>2 DEF DiscoveryInv, CrawlInv, Sound
  <2>4. ASSUME NEW p \in Listed(foundInstances)
        PROVE  \E t \in Listed(foundTemplates) : p \in Listed(allInstances[t])
    <3>1. PICK k \in 1..TemplatesRead : p \in Listed(allInstances[foundTemplates[k]])
      BY DEF DiscoveryInv, CrawlInv, Sound
    <3>2. k \in 1..Len(foundTemplates)
      BY ReadRange, Members
    <3>3. foundTemplates[k] \in Listed(foundTemplates)
      BY <3>2 DEF Listed
    <3> QED BY <3>1, <3>3
  <2> QED BY <2>1, <2>2, <2>3, <2>4 DEF FoundIsOnChain
<1> QED BY <1>1, DiscoveryInductive, PTL

\* A crawl that is done has every contract that was listed when it began, unless a
\* call on the way to it failed.
THEOREM AlwaysCompleteSinceStart == DiscoverySpec => []CompleteSinceStart
<1>1. DiscoveryInv => CompleteSinceStart
  <2> SUFFICES ASSUME DiscoveryInv, phase = "done" PROVE CompleteSinceStart
    BY DEF CompleteSinceStart
  <2>1. /\ InstitutionsRead = Len(foundInstitutions) /\ TemplatesRead = Len(foundTemplates)
        /\ Standalones /\ Begun
    BY DEF InstitutionsRead, TemplatesRead, Standalones, Begun
  <2>2. ASSUME NEW i \in Institutions \ unread
        PROVE  atStart \cap Listed(processes[i]) \subseteq Listed(foundTemplates)
    <3>1. CASE atStart \cap Listed(processes[i]) = {}
      BY <3>1
    <3>2. CASE i \in Listed(foundInstitutions)
      <4>1. PICK k \in 1..Len(foundInstitutions) : i = foundInstitutions[k]
        BY <3>2 DEF Listed
      <4> QED BY <4>1, <2>1 DEF DiscoveryInv, CrawlInv, Complete
    <3> QED BY <2>1, <3>1, <3>2 DEF DiscoveryInv, CrawlInv, StartKnown
  <2>3. ASSUME NEW t \in Listed(foundTemplates) \ unread
        PROVE  atStart \cap Listed(allInstances[t]) \subseteq Listed(foundInstances)
    <3>1. PICK k \in 1..Len(foundTemplates) : t = foundTemplates[k]
      BY DEF Listed
    <3> QED BY <3>1, <2>1 DEF DiscoveryInv, CrawlInv, Complete
  <2>4. /\ atStart \cap Institutions \subseteq Listed(foundInstitutions)
        /\ Deployer \notin unread =>
             atStart \cap Listed(deployedProcesses) \subseteq Listed(foundTemplates)
    BY <2>1 DEF DiscoveryInv, CrawlInv, StartKnown, Complete
  <2> QED BY <2>2, <2>3, <2>4 DEF CompleteSinceStart
<1> QED BY <1>1, DiscoveryInductive, PTL
=============================================================================
