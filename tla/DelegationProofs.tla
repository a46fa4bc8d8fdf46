------------------------- MODULE DelegationProofs -------------------------
(***************************************************************************)
(* What Delegation promises, for any number of laws and whatever they       *)
(* answer.                                                                  *)
(***************************************************************************)
EXTENDS Delegation, WellFoundedInduction, TLAPS

\* Delegations are at places that exist, none of them at the front.
LEMMA PlacesTyped ==
  ASSUME answers \in Seq(Answer)
  PROVE  /\ Places \subseteq (Nat \ {0}) \X (Nat \ {0})
         /\ \A q \in Places : RowAt(q) \in Row /\ RowAt(q).subject # Nobody
         /\ Own \subseteq Places
         /\ Front \notin Places
<1>1. ASSUME NEW q \in Places
      PROVE  /\ q \in (Nat \ {0}) \X (Nat \ {0})
             /\ RowAt(q) \in Row /\ RowAt(q).subject # Nobody
  <2>1. PICK n \in DOMAIN answers : q \in {n} \X evaluate_delegation_law(answers[n])
    BY DEF Places
  <2>2. PICK i \in evaluate_delegation_law(answers[n]) : q = <<n, i>>
    BY <2>1
  <2>3. n \in 1..Len(answers) /\ answers[n] \in Answer
    BY <2>1
  <2>4. answers[n].rows \in Seq(Row) /\ i \in 1..Len(answers[n].rows)
    BY <2>2, <2>3 DEF Answer, evaluate_delegation_law
  <2>5. answers[n].rows[i] \in Row /\ answers[n].rows[i].subject # Nobody
    BY <2>2, <2>4 DEF evaluate_delegation_law
  <2> QED
    BY <2>2, <2>3, <2>4, <2>5 DEF RowAt
<1>2. Own \subseteq Places
  BY DEF Own
<1>3. Front \notin Places
  BY <1>1 DEF Front
<1> QED
  BY <1>1, <1>2, <1>3

\* There is a first among any delegations.
LEMMA FirstExists ==
  ASSUME NEW S, S \subseteq Nat \X Nat, S # {}
  PROVE  First(S) \in S
<1> DEFINE less == {ss \in Nat \X Nat : ss[1] < ss[2]}
           lex  == LexPairOrdering(less, less, Nat, Nat)
<1>0. IsWellFoundedOn(less, Nat)
  BY NatLessThanWellFounded DEF OpToRel
<1>1. IsWellFoundedOn(lex, Nat \X Nat)
  <2> HIDE DEF less
  <2> QED
    BY <1>0, WFLexPairOrdering
<1>2. PICK q \in S : \A r \in S : ~ (<<r, q>> \in lex)
  <2> HIDE DEF lex
  <2> QED
    BY <1>1, WFMin
<1>3. ASSUME NEW r \in S \ {q} PROVE Earlier(q, r)
  <2>1. r \in Nat \X Nat /\ q \in Nat \X Nat /\ r # q
    OBVIOUS
  <2>2. <<r, q>> \in (Nat \X Nat) \X (Nat \X Nat)
    BY <2>1
  <2>3. \A m, n \in Nat : m < n => <<m, n>> \in less
    OBVIOUS
  <2>4. ~ (<<r[1], q[1]>> \in less) /\ ~ (r[1] = q[1] /\ <<r[2], q[2]>> \in less)
    BY <1>2, <2>2 DEF LexPairOrdering
  <2>5. ~ (r[1] < q[1]) /\ ~ (r[1] = q[1] /\ r[2] < q[2])
    BY <2>1, <2>3, <2>4
  <2>6. r[1] # q[1] \/ r[2] # q[2]
    BY <2>1
  <2> QED
    BY <2>1, <2>5, <2>6 DEF Earlier
<1> QED
  BY <1>3 DEF First

\* What a person's own delegations are merged to.
LEMMA OwnMerged ==
  ASSUME answers \in Seq(Answer), Own # {}
  PROVE  /\ First(Own) \in Own
         /\ Intersection(Own) \subseteq Permissions
         /\ MergedSelf.self /\ MergedSelf.permissions = Restricted(Intersection(Own))
         /\ get_user_permissions = Restricted(Intersection(Own))
<1>1. First(Own) \in Own
  BY PlacesTyped, FirstExists
<1>2. Intersection(Own) \subseteq Permissions
  BY <1>1, PlacesTyped DEF Intersection, Row
<1>3. MergedSelf.self /\ MergedSelf.permissions = Restricted(Intersection(Own))
  BY DEF MergedSelf
<1> DEFINE ds   == get_delegations_for_user
           self == {q \in DOMAIN ds : ds[q].self}
<1>4. Front \in DOMAIN ds /\ ds[Front] = MergedSelf /\ self = {Front}
  <2>1. DOMAIN ds = {Front} \cup (Places \ Own)
    BY DEF get_delegations_for_user
  <2>2. ds[Front] = MergedSelf
    BY DEF get_delegations_for_user
  <2>3. \A q \in Places \ Own : ds[q] = RowAt(q) /\ ~ ds[q].self
    BY PlacesTyped DEF get_delegations_for_user, Own
  <2> QED
    BY <1>3, <2>1, <2>2, <2>3
<1>5. Restricted(Intersection(Own)) # {} /\ Restricted(Intersection(Own)) \subseteq Permissions
  BY <1>2, DelegationAssumption DEF Restricted
<1>6. {p \in Permissions : \A q \in self : p \in Restricted(ds[q].permissions)} = Restricted(Intersection(Own))
  <2>1. Restricted(ds[Front].permissions) = Restricted(Intersection(Own))
    BY <1>3, <1>4, <1>5 DEF Restricted
  <2> HIDE DEF ds
  <2> QED
    BY <1>4, <1>5, <2>1
<1>7. get_user_permissions = Restricted(Intersection(Own))
  BY <1>4, <1>5, <1>6 DEF get_user_permissions, Restricted
<1> QED
  BY <1>1, <1>2, <1>3, <1>7

\* A person may do exactly what every law on the person allows, whatever the order of
\* the laws and however many there are, and reading if they allow nothing in common.
THEOREM PermissionsMerged ==
  ASSUME answers \in Seq(Answer)
  PROVE  MostRestrictiveWins
<1>1. CASE Own = {}
  <2>1. DOMAIN get_delegations_for_user = Places
    BY <1>1 DEF get_delegations_for_user
  <2>2. \A q \in Places : get_delegations_for_user[q] = RowAt(q) /\ ~ RowAt(q).self
    BY <1>1, PlacesTyped DEF get_delegations_for_user, Own
  <2>3. get_user_permissions = {Reading}
    BY <2>1, <2>2 DEF get_user_permissions
  <2> QED
    BY <1>1, <2>3 DEF MostRestrictiveWins
<1>2. CASE Own # {}
  <2>1. First(Own) \in Own /\ get_user_permissions = Restricted(Intersection(Own))
    BY <1>2, OwnMerged
  <2>2. \A q \in Own : RowAt(q).permissions \subseteq Permissions
    BY PlacesTyped DEF Row
  <2>3. ASSUME NoneSilent
        PROVE  Intersection(Own) = {p \in Permissions : \A q \in Own : p \in RowAt(q).permissions}
    BY <2>1, <2>2, <2>3 DEF Intersection, NoneSilent
  <2>4. ASSUME NEW q \in Own, RowAt(q).permissions # {}
        PROVE  Restricted(Intersection(Own)) \subseteq RowAt(q).permissions \cup {Reading}
    BY <2>4 DEF Intersection, Restricted
  <2> QED
    BY <1>2, <2>1, <2>3, <2>4 DEF MostRestrictiveWins
<1> QED
  BY <1>1, <1>2

\* Acting through one's own delegation gives the permissions one has without it.
THEOREM OwnContextSame ==
  ASSUME answers \in Seq(Answer)
  PROVE  OwnContextAgrees
<1> SUFFICES ASSUME OfOnePerson, NEW q \in Own
             PROVE  get_delegation_context(RowAt(q).subject).permissions = get_user_permissions
  BY DEF OwnContextAgrees
<1> DEFINE ds   == get_delegations_for_user
           s    == RowAt(q).subject
           forS == {r \in DOMAIN ds : ds[r].subject = s}
           Leads(x) == \A r \in forS \ {x} :
                         Before(ds[x], ds[r]) \/ (~Before(ds[r], ds[x]) /\ Earlier(x, r))
<1>1. /\ First(Own) \in Own /\ MergedSelf.self
      /\ MergedSelf.permissions = get_user_permissions
  BY OwnMerged
<1>2. MergedSelf.subject = s
  BY <1>1 DEF MergedSelf, OfOnePerson
<1>3. DOMAIN ds = {Front} \cup (Places \ Own) /\ ds[Front] = MergedSelf
  BY DEF get_delegations_for_user
<1>4. \A r \in Places \ Own : ds[r] = RowAt(r) /\ ~ ds[r].self
  BY PlacesTyped DEF get_delegations_for_user, Own
<1> HIDE DEF ds, s
<1>5. Front \in forS
  BY <1>2, <1>3
<1>6. \A r \in forS \ {Front} : Before(ds[Front], ds[r]) /\ ~ Before(ds[r], ds[Front])
  BY <1>1, <1>3, <1>4 DEF Before
<1>7. Leads(Front)
  BY <1>6
<1>8. ASSUME NEW x \in forS, Leads(x) PROVE x = Front
  BY <1>5, <1>6, <1>8
<1> HIDE DEF forS, Leads
<1>9. (CHOOSE x \in forS : Leads(x)) = Front
  BY <1>5, <1>7, <1>8
<1>10. get_delegation_context(RowAt(q).subject) = ds[CHOOSE x \in forS : Leads(x)]
  BY <1>5 DEF get_delegation_context, ds, s, forS, Leads
<1> QED
  BY <1>1, <1>3, <1>9, <1>10

\* A person may act for exactly those whom a law names in a row that was read.
LEMMA RepresentedByRows ==
  ASSUME answers \in Seq(Answer), OfOnePerson, NEW s \in Subjects
  PROVE  can_act_on_behalf(s) <=>
           \E n \in DOMAIN answers : \E i \in 1..Len(answers[n].rows) :
             i <= answers[n].read /\ answers[n].rows[i].subject = s
<1> DEFINE ds == get_delegations_for_user
           Named(t) == \E q \in Places : RowAt(q).subject = t
<1>1. Named(s) <=> \E n \in DOMAIN answers : \E i \in 1..Len(answers[n].rows) :
                     i <= answers[n].read /\ answers[n].rows[i].subject = s
  <2>1. s # Nobody
    BY DelegationAssumption
  <2>2. ASSUME NEW q \in Places, RowAt(q).subject = s
        PROVE  \E n \in DOMAIN answers : \E i \in 1..Len(answers[n].rows) :
                 i <= answers[n].read /\ answers[n].rows[i].subject = s
    <3>1. PICK n \in DOMAIN answers : q \in {n} \X evaluate_delegation_law(answers[n])
      BY DEF Places
    <3>2. PICK i \in evaluate_delegation_law(answers[n]) : q = <<n, i>>
      BY <3>1
    <3> QED
      BY <2>2, <3>2 DEF RowAt, evaluate_delegation_law
  <2>3. ASSUME NEW n \in DOMAIN answers, NEW i \in 1..Len(answers[n].rows),
               i <= answers[n].read, answers[n].rows[i].subject = s
        PROVE  Named(s)
    <3>1. i \in evaluate_delegation_law(answers[n])
      BY <2>1, <2>3 DEF evaluate_delegation_law
    <3>2. <<n, i>> \in {n} \X evaluate_delegation_law(answers[n])
      BY <3>1
    <3>3. <<n, i>> \in Places
      BY <3>2 DEF Places
    <3> QED
      BY <2>3, <3>3 DEF RowAt
  <2> QED
    BY <2>2, <2>3
<1>2. \A q \in Places \ Own : q \in DOMAIN ds /\ ds[q] = RowAt(q)
  BY PlacesTyped DEF get_delegations_for_user
<1>3. CASE Own = {}
  <2>1. DOMAIN ds = Places
    BY <1>3 DEF get_delegations_for_user
  <2> HIDE DEF ds
  <2>2. can_act_on_behalf(s) <=> \E q \in DOMAIN ds : ds[q].subject = s
    BY DEF can_act_on_behalf, ds
  <2> QED
    BY <1>1, <1>2, <1>3, <2>1, <2>2
<1>4. CASE Own # {}
  <2>1. DOMAIN ds = {Front} \cup (Places \ Own) /\ ds[Front] = MergedSelf
    BY <1>4 DEF get_delegations_for_user
  <2>2. First(Own) \in Own /\ Own \subseteq Places
    BY <1>4, OwnMerged, PlacesTyped
  <2>3. \A q \in Own : RowAt(q).subject = MergedSelf.subject
    BY <2>2 DEF MergedSelf, OfOnePerson
  <2> HIDE DEF ds
  <2>4. can_act_on_behalf(s) <=> \E q \in DOMAIN ds : ds[q].subject = s
    BY DEF can_act_on_behalf, ds
  <2> QED
    BY <1>1, <1>2, <2>1, <2>2, <2>3, <2>4
<1> QED
  BY <1>3, <1>4

\* Nobody is lost whom a law names that was read to the end, and nobody is added whom no
\* law names, however many laws raise and wherever they stand.
THEOREM RepresentationKept ==
  ASSUME answers \in Seq(Answer)
  PROVE  RepresentsWhomLawsName
<1> SUFFICES ASSUME OfOnePerson, NEW s \in Subjects
             PROVE  /\ \A n \in DOMAIN answers :
                         ReadToTheEnd(answers[n]) /\ Names(answers[n], s) => can_act_on_behalf(s)
                    /\ can_act_on_behalf(s) => \E n \in DOMAIN answers : Names(answers[n], s)
  BY DEF RepresentsWhomLawsName
<1>1. ASSUME NEW n \in DOMAIN answers, ReadToTheEnd(answers[n]), Names(answers[n], s)
      PROVE  can_act_on_behalf(s)
  <2>1. PICK i \in 1..Len(answers[n].rows) : answers[n].rows[i].subject = s
    BY <1>1 DEF Names
  <2>2. answers[n] \in Answer
    BY <1>1
  <2>3. answers[n].read \in Nat /\ Len(answers[n].rows) \in Nat
    BY <2>2 DEF Answer
  <2>4. i <= answers[n].read
    BY <1>1, <2>3 DEF ReadToTheEnd
  <2> QED
    BY <1>1, <2>1, <2>4, RepresentedByRows
<1>2. can_act_on_behalf(s) => \E n \in DOMAIN answers : Names(answers[n], s)
  BY RepresentedByRows DEF Names
<1> QED
  BY <1>1, <1>2
=============================================================================
