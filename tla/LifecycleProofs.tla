-------------------------- MODULE LifecycleProofs --------------------------
(***************************************************************************)
(* The case manager implements CaseLifecycle.                              *)
(***************************************************************************)
EXTENDS CaseManagerProofs

LEMMA MapChange ==
  ASSUME cases \in [Ids -> Case \cup {Null}], NEW c \in Ids, NEW case \in Case,
         cases' = [cases EXCEPT ![c] = case]
  PROVE  Lifecycle!Becomes(c, PhaseOf(case), case.verdict, DeciderOf(case))
<1>1. /\ cases'[c] = case /\ case # Null
      /\ \A d \in Ids : d # c => cases'[d] = cases[d]
      /\ cases \in [Ids -> Case \cup {Null}]
  BY CaseConstants
<1> QED
  BY <1>1 DEF Lifecycle!Becomes, PhaseOf, DeciderOf

LEMMA MapInit == Init => Lifecycle!AInit
  BY DEF Init, Lifecycle!AInit, PhaseOf, DeciderOf

\* How the abstract state reads a stored case.
LEMMA MapRead ==
  ASSUME NEW case \in Case
  PROVE  /\ case.status = "IN_REVIEW" =>
              PhaseOf(case) = "review" /\ DeciderOf(case) = "nobody"
         /\ case.status = "DECIDED" => PhaseOf(case) = "decided"
         /\ case.status = "OBJECTED" => PhaseOf(case) = "objected"
         /\ case.status \in {"DECIDED", "OBJECTED"} =>
              DeciderOf(case) = CASE case.verifier = "none"    -> "machine"
                                  [] case.verifier = "officer" -> "officer"
                                  [] OTHER -> "SYSTEM"
<1>1. case # Null
  BY CaseConstants
<1> QED
  BY <1>1 DEF PhaseOf, DeciderOf

LEMMA FiledByMachine ==
  ASSUME NEW k \in Keys, NEW claimed \in Results, NEW verified \in Results,
         NEW met \in BOOLEAN, NEW forced \in BOOLEAN, NEW sampled \in BOOLEAN
  PROVE  LET case == Filed(k, claimed, verified, met, forced, sampled) IN
         \/ case.status = "IN_REVIEW"
         \/ case.status = "DECIDED" /\ case.verifier = "none"
  BY DEF Filed, Routed, Submitted, SelectForManualReview, DecidedOnFiling,
         DecideAutomatically, DetermineObjectionStatus

(***************************************************************************)
(* Each operation is a step of the lifecycle.                              *)
(***************************************************************************)
LEMMA SubmitNewMaps ==
  ASSUME IInv, NEW k \in Keys, NEW c \in Ids,
         NEW claimed \in Results, NEW verified \in Results,
         NEW met \in BOOLEAN, NEW forced \in BOOLEAN, NEW sampled \in BOOLEAN,
         SubmitNew(k, c, claimed, verified, met, forced, sampled)
  PROVE  Lifecycle!ANext
<1> DEFINE case == Filed(k, claimed, verified, met, forced, sampled)
<1>1. case \in Case /\ CaseInv(case)
  BY FiledInv
<1>2. \/ case.status = "IN_REVIEW"
      \/ case.status = "DECIDED" /\ case.verifier = "none"
  BY FiledByMachine
<1>3. cases' = [cases EXCEPT ![c] = case] /\ cases[c] = Null
  BY DEF SubmitNew, Save
<1> HIDE DEF case
<1>4. Lifecycle!Becomes(c, PhaseOf(case), case.verdict, DeciderOf(case))
  BY <1>1, <1>3, MapChange DEF IInv, TypeOK
<1>5. CASE case.status = "IN_REVIEW"
  <2>1. Lifecycle!Becomes(c, "review", "undecided", "nobody")
    BY <1>1, <1>4, <1>5, MapRead DEF CaseInv
  <2> QED
    BY <2>1 DEF Lifecycle!ANext, Lifecycle!SendToReview
<1>6. CASE case.status = "DECIDED" /\ case.verifier = "none"
  <2>1. case.verdict \in Lifecycle!Outcomes
    BY <1>1, <1>6 DEF CaseInv, Case, Verdicts, Lifecycle!Outcomes
  <2>2. Lifecycle!Becomes(c, "decided", case.verdict, "machine")
    BY <1>1, <1>4, <1>6, MapRead
  <2>3. PhaseOf(cases[c]) = "absent"
    BY <1>3 DEF PhaseOf
  <2> QED
    BY <2>1, <2>2, <2>3 DEF Lifecycle!ANext, Lifecycle!DecideOnFiling
<1> QED
  BY <1>2, <1>5, <1>6

LEMMA ResubmitMaps ==
  ASSUME IInv, NEW k \in Keys, NEW claimed \in Results, NEW verified \in Results,
         NEW met \in BOOLEAN, NEW forced \in BOOLEAN,
         Resubmit(k, claimed, verified, met, forced)
  PROVE  Lifecycle!ANext
<1> DEFINE c    == index[k]
           case == Refiled(cases[c], claimed, verified, met, forced)
<1>1. c \in Ids /\ cases[c] \in Case /\ CaseInv(cases[c])
  BY DEF IInv, TypeOK, IndexIsExact, Resubmit, Stored
<1>2. case \in Case /\ CaseInv(case) /\ case.status = "IN_REVIEW"
  BY <1>1, RefiledInv
<1>3. cases' = [cases EXCEPT ![c] = case]
  BY DEF Resubmit, Save
<1> HIDE DEF case, c
<1>4. Lifecycle!Becomes(c, PhaseOf(case), case.verdict, DeciderOf(case))
  BY <1>1, <1>2, <1>3, MapChange DEF IInv, TypeOK, Lifecycle!Becomes
<1>5. Lifecycle!Becomes(c, "review", "undecided", "nobody")
  BY <1>2, <1>4, MapRead DEF CaseInv, Lifecycle!Becomes
<1> QED
  BY <1>1, <1>5 DEF Lifecycle!ANext, Lifecycle!SendToReview

LEMMA SeedMaps ==
  ASSUME IInv, NEW k \in Keys, NEW c \in Ids, NEW r \in Results,
         SeedHistorical(k, c, r)
  PROVE  Lifecycle!ANext
<1> DEFINE case == DecideAutomatically(Submitted(k, r, r, TRUE), r, "approved")
<1>1. case \in Case
  BY SeededInv
<1>2. /\ case.status = "DECIDED" /\ case.verdict = "approved"
      /\ case.verifier = "none"
  BY DEF DecideAutomatically, Submitted
<1>3. cases' = [cases EXCEPT ![c] = case] /\ cases[c] = Null
  BY DEF SeedHistorical, Save
<1> HIDE DEF case
<1>4. Lifecycle!Becomes(c, PhaseOf(case), case.verdict, DeciderOf(case))
  BY <1>1, <1>3, MapChange DEF IInv, TypeOK
<1>5. Lifecycle!Becomes(c, "decided", "approved", "machine")
  BY <1>1, <1>2, <1>4, MapRead
<1>6. PhaseOf(cases[c]) = "absent"
  BY <1>3 DEF PhaseOf
<1> QED
  BY <1>5, <1>6 DEF Lifecycle!ANext, Lifecycle!DecideOnFiling, Lifecycle!Outcomes

LEMMA ReviewMaps ==
  ASSUME IInv, NEW c \in Ids, NEW v \in {"approved", "rejected"},
         NEW override \in Results \cup {Null}, CompleteManualReview(c, v, override)
  PROVE  Lifecycle!ANext
<1> DEFINE r    == ReviewResult(cases[c], override)
           case == Decide(cases[c], r, v)
<1>1. /\ cases[c] \in Case /\ CaseInv(cases[c])
      /\ cases[c].status \in {"IN_REVIEW", "OBJECTED"}
  BY DEF IInv, TypeOK, CompleteManualReview, Stored, MayDecide
<1>2. r \in Results
  BY <1>1 DEF ReviewResult, Case
<1>3. case \in Case
  BY <1>1, <1>2, DecideType
<1>4. case.status = "DECIDED" /\ case.verdict = v /\ case.verifier = "officer"
  BY <1>1 DEF Decide, Case
<1>5. cases' = [cases EXCEPT ![c] = case]
  BY DEF CompleteManualReview, Save
<1> HIDE DEF case
<1>6. Lifecycle!Becomes(c, PhaseOf(case), case.verdict, DeciderOf(case))
  BY <1>3, <1>5, MapChange DEF IInv, TypeOK, Lifecycle!Becomes
<1>7. Lifecycle!Becomes(c, "decided", v, "officer")
  BY <1>3, <1>4, <1>6, MapRead DEF Lifecycle!Becomes
<1>8. PhaseOf(cases[c]) \in {"review", "objected"}
  BY <1>1, MapRead
<1> QED
  BY <1>7, <1>8 DEF Lifecycle!ANext, Lifecycle!Rule, Lifecycle!Outcomes

LEMMA ObjectionMaps ==
  ASSUME IInv, NEW c \in Ids, ObjectionCase(c)
  PROVE  Lifecycle!ANext
<1> DEFINE case == Object(cases[c])
<1>1. cases[c] \in Case /\ cases[c].status = "DECIDED" /\ cases[c] # Null
  BY CaseConstants DEF IInv, TypeOK, ObjectionCase, Stored, MayObject
<1>2. /\ case \in Case /\ case.status = "OBJECTED"
      /\ case.verdict = cases[c].verdict /\ case.verifier = cases[c].verifier
  BY <1>1, ObjectType DEF Object, Case
<1>3. cases' = [cases EXCEPT ![c] = case]
  BY DEF ObjectionCase, Save
<1> HIDE DEF case
<1>4. Lifecycle!Becomes(c, PhaseOf(case), case.verdict, DeciderOf(case))
  BY <1>2, <1>3, MapChange DEF IInv, TypeOK, Lifecycle!Becomes
<1>5. DeciderOf(case) = DeciderOf(cases[c])
  BY <1>1, <1>2, MapRead
<1>6. Lifecycle!Becomes(c, "objected", cases[c].verdict, DeciderOf(cases[c]))
  BY <1>2, <1>4, <1>5, MapRead DEF Lifecycle!Becomes
<1>7. PhaseOf(cases[c]) = "decided"
  BY <1>1, MapRead
<1> QED
  BY <1>1, <1>6, <1>7 DEF Lifecycle!ANext, Lifecycle!Contest, Lifecycle!Becomes

\* The laws write remedies only, which the lifecycle does not show.
LEMMA FollowerMaps ==
  ASSUME IInv, Follower
  PROVE  UNCHANGED Lifecycle!avars
<1>1. CASE cases' = cases
  BY <1>1 DEF Lifecycle!avars, PhaseOf, DeciderOf
<1>2. ASSUME NEW c \in Ids, NEW law \in Laws, ApplyLaw(c, law)
      PROVE  UNCHANGED Lifecycle!avars
  <2>1. c \in Ids /\ cases[c] \in Case /\ CaseInv(cases[c]) /\ cases[c] # Null
    BY <1>2 DEF IInv, TypeOK, PendingStored, ApplyLaw, Stored
  <2>2. LET new == Ruled(cases[c], law) IN
        /\ new.status = cases[c].status /\ new.verdict = cases[c].verdict
        /\ new.verifier = cases[c].verifier /\ new # Null
    BY <2>1, RuledInv, CaseConstants
  <2>3. /\ cases' = [cases EXCEPT ![c] = Ruled(cases[c], law)]
        /\ cases \in [Ids -> Case \cup {Null}]
    BY <1>2 DEF ApplyLaw, IInv, TypeOK
  <2>4. \A d \in Ids : /\ PhaseOf(cases'[d]) = PhaseOf(cases[d])
                       /\ DeciderOf(cases'[d]) = DeciderOf(cases[d])
                       /\ cases'[d] = Null <=> cases[d] = Null
                       /\ cases[d] # Null => cases'[d].verdict = cases[d].verdict
    BY <2>1, <2>2, <2>3 DEF PhaseOf, DeciderOf
  <2> QED
    BY <2>4 DEF Lifecycle!avars
<1> QED
  BY <1>1, <1>2 DEF Follower, LawFails

\* Every behaviour of the case manager, seen through phase, verdict and decider,
\* is one the lifecycle allows: in particular a machine decides only on a case
\* it never saw, and a decision changes only after an objection or a refiling.
THEOREM LifecycleImplemented == Spec => ImplementsLifecycle
<1>1. IInv /\ [Next]_vars => [Lifecycle!ANext]_(Lifecycle!avars)
  <2> SUFFICES ASSUME IInv, [Next]_vars
               PROVE  Lifecycle!ANext \/ UNCHANGED Lifecycle!avars
    OBVIOUS
  <2>1. CASE Submit
    <3>1. \A sampled \in Draws : sampled \in BOOLEAN
      BY CaseConstants
    <3> QED
      BY <2>1, <3>1, SubmitNewMaps, ResubmitMaps DEF Submit
  <2>2. CASE Seed
    BY <2>2, SeedMaps DEF Seed
  <2>3. CASE Officer
    BY <2>3, ReviewMaps DEF Officer
  <2>4. CASE Citizen
    BY <2>4, ObjectionMaps DEF Citizen
  <2>5. CASE Follower
    BY <2>5, FollowerMaps
  <2>6. CASE UNCHANGED vars
    BY <2>6 DEF vars, Lifecycle!avars, PhaseOf, DeciderOf
  <2> QED
    BY <2>1, <2>2, <2>3, <2>4, <2>5, <2>6 DEF Next
<1> QED
  BY MapInit, <1>1, InvariantHolds, PTL
     DEF Spec, ImplementsLifecycle, Lifecycle!ASpec
=============================================================================
