------------------------- MODULE CaseManagerProofs -------------------------
(***************************************************************************)
(* Proofs about CaseManager, for any number of cases, keys and results.    *)
(***************************************************************************)
EXTENDS CaseManager, TLAPS

(***************************************************************************)
(* The commands of the aggregate keep a case well formed.                  *)
(***************************************************************************)
LEMMA NewCaseType ==
  ASSUME NEW k \in Keys, NEW claimed \in Results, NEW verified \in Results,
         NEW old \in BOOLEAN
  PROVE  Submitted(k, claimed, verified, old) \in Case
  BY DEF Submitted, Case, NoRemedy, Remedy, Flags, Reasons, Statuses, Verdicts

LEMMA ResetType ==
  ASSUME NEW case \in Case, NEW claimed \in Results, NEW verified \in Results
  PROVE  Reset(case, claimed, verified) \in Case
  BY DEF Reset, Case, Statuses, Verdicts

LEMMA DecideAutomaticallyType ==
  ASSUME NEW case \in Case, NEW verified \in Results,
         NEW verdict \in {"approved", "rejected"}
  PROVE  DecideAutomatically(case, verified, verdict) \in Case
  BY DEF DecideAutomatically, Case, Statuses, Verdicts

LEMMA SelectType ==
  ASSUME NEW case \in Case, NEW claimed \in Results, NEW verified \in Results
  PROVE  SelectForManualReview(case, claimed, verified) \in Case
  BY DEF SelectForManualReview, Case, Statuses

LEMMA DecideType ==
  ASSUME NEW case \in Case, NEW verified \in Results,
         NEW verdict \in {"approved", "rejected"}
  PROVE  Decide(case, verified, verdict) \in Case
  BY DEF Decide, Case, Statuses, Verdicts

LEMMA ObjectType ==
  ASSUME NEW case \in Case
  PROVE  Object(case) \in Case
  BY DEF Object, Case, Statuses

LEMMA MergeType ==
  ASSUME NEW old \in Remedy, NEW new \in Remedy
  PROVE  Merge(old, new) \in Remedy
  BY DEF Merge, Remedy

LEMMA DetermineType ==
  ASSUME NEW case \in Case, NEW status \in Remedy
  PROVE  /\ DetermineObjectionStatus(case, status) \in Case
         /\ DetermineAppealStatus(case, status) \in Case
<1>1. case.objection \in Remedy /\ case.appeal \in Remedy
  BY DEF Case
<1>2. Merge(case.objection, status) \in Remedy /\ Merge(case.appeal, status) \in Remedy
  BY <1>1, MergeType
<1> QED
  BY <1>2 DEF DetermineObjectionStatus, DetermineAppealStatus, Case

LEMMA LawsAnswer ==
  ASSUME NEW case \in Case
  PROVE  Bezwaar(case) \in Remedy /\ Beroep(case) \in Remedy
  BY DEF Bezwaar, Beroep, Flag, BezwaarReason, BeroepReason, Remedy, Flags, Reasons

LEMMA RuledType ==
  ASSUME NEW case \in Case, NEW law \in Laws
  PROVE  Ruled(case, law) \in Case
  BY DetermineType, LawsAnswer DEF Ruled

\* submit_case, whichever way it goes, yields a well-formed case.
LEMMA RoutedType ==
  ASSUME NEW case \in Case, NEW met \in BOOLEAN, NEW forced \in BOOLEAN,
         NEW needsReview \in BOOLEAN
  PROVE  Routed(case, met, forced, needsReview) \in Case
<1>1. case.claimed \in Results /\ case.verified \in Results
  BY DEF Case
<1>2. SelectForManualReview(case, case.claimed, case.verified) \in Case
  BY <1>1, SelectType
<1>3. DecidedOnFiling(case, met) \in Case
  <2>1. DecideAutomatically(case, case.verified,
                            IF met THEN "approved" ELSE "rejected") \in Case
    BY <1>1, DecideAutomaticallyType
  <2>2. ObjectionByLaw \in Remedy
    BY DEF ObjectionByLaw, Remedy, Flags, Reasons
  <2> QED
    BY <2>1, <2>2, DetermineType DEF DecidedOnFiling
<1> QED
  BY <1>2, <1>3 DEF Routed

(***************************************************************************)
(* What each command does to the facts of CaseInv.                         *)
(***************************************************************************)
LEMMA ReflexiveMatch ==
  ASSUME NEW r \in Results
  PROVE  ResultsMatch(r, r)
<1> SUFFICES ASSUME NEW f \in DOMAIN r PROVE ValuesMatch(r[f], r[f], FALSE)
  BY DEF ResultsMatch, Match
<1>1. r[f] \in Values
  BY CaseConstants
<1>2. r[f].val \in Int
  BY <1>1 DEF Values
<1>3. r[f].val - r[f].val = 0 /\ r[f].val # 0 => 0 < Abs(r[f].val)
  BY <1>2 DEF Abs
<1>4. Abs(0) = 0
  BY DEF Abs
<1> QED
  BY <1>2, <1>3, <1>4 DEF ValuesMatch, WithinOnePercent, Abs

\* A new case satisfies CaseInv however it is routed, and a rejection on filing
\* leaves the objection open.
LEMMA FiledInv ==
  ASSUME NEW k \in Keys, NEW claimed \in Results, NEW verified \in Results,
         NEW met \in BOOLEAN, NEW forced \in BOOLEAN, NEW sampled \in BOOLEAN
  PROVE  LET case == Filed(k, claimed, verified, met, forced, sampled) IN
         /\ case \in Case /\ CaseInv(case)
         /\ case.key = k /\ ~case.historical
         /\ CanObject(case) <=> RejectedNow(case) \/ case.status = "DECIDED"
         /\ case.objected = "never" /\ ~CanAppeal(case) /\ case.verifier # "officer"
<1> DEFINE new  == Submitted(k, claimed, verified, FALSE)
           case == Filed(k, claimed, verified, met, forced, sampled)
<1>1. new \in Case
  BY NewCaseType
<1>2. case \in Case
  BY <1>1, RoutedType DEF Filed
<1>3. CASE GoesToReview(ResultsMatch(claimed, verified), forced, sampled)
  <2>1. case = SelectForManualReview(new, claimed, verified)
    BY <1>3 DEF Filed, Routed, Submitted
  <2> QED
    BY <1>2, <2>1
       DEF SelectForManualReview, Submitted, NoRemedy, CaseInv, CanObject,
           CanAppeal, RejectedNow
<1>4. CASE ~GoesToReview(ResultsMatch(claimed, verified), forced, sampled)
  <2>1. ResultsMatch(claimed, verified)
    BY <1>4 DEF GoesToReview
  <2>2. case = DecidedOnFiling(new, met)
    BY <1>4 DEF Filed, Routed, Submitted
  <2>3. /\ case.status = "DECIDED" /\ case.verdict \in {"approved", "rejected"}
        /\ case.verifier = "none" /\ case.objected = "never"
        /\ case.key = k /\ case.historical = FALSE
        /\ case.claimed = claimed /\ case.verified = verified
        /\ case.objection = ObjectionByLaw /\ case.appeal = NoRemedy
    BY <2>2 DEF DecidedOnFiling, DecideAutomatically, DetermineObjectionStatus,
                Submitted, Merge, ObjectionByLaw, NoRemedy
  <2> QED
    BY <1>2, <2>1, <2>3
       DEF CaseInv, CanObject, CanAppeal, RejectedNow, ObjectionByLaw, NoRemedy
<1> QED
  BY <1>3, <1>4

\* An existing case always goes to review; what it knows of the laws' answers
\* stays true, for the objections made before the reset still count.
LEMMA RefiledInv ==
  ASSUME NEW case \in Case, CaseInv(case),
         NEW claimed \in Results, NEW verified \in Results,
         NEW met \in BOOLEAN, NEW forced \in BOOLEAN
  PROVE  LET new == Refiled(case, claimed, verified, met, forced) IN
         /\ new \in Case /\ CaseInv(new) /\ new.status = "IN_REVIEW"
         /\ new.key = case.key /\ new.historical = case.historical
         /\ new.objection = case.objection
<1> DEFINE reset == Reset(case, claimed, verified)
           new   == Refiled(case, claimed, verified, met, forced)
<1>1. reset \in Case
  BY ResetType
<1>2. reset.claimed = claimed /\ reset.verified = verified
  BY DEF Reset, Case
<1>3. new = SelectForManualReview(reset, claimed, verified)
  BY <1>2 DEF Refiled, Routed, GoesToReview
<1>4. new \in Case
  BY <1>1, <1>3, SelectType
<1>5. /\ new.status = "IN_REVIEW" /\ new.verdict = "undecided"
      /\ new.verifier = "SYSTEM"
      /\ new.objection = case.objection /\ new.appeal = case.appeal
      /\ new.key = case.key /\ new.historical = case.historical
      /\ new.objected = "never" <=> case.objected = "never"
  BY <1>3 DEF SelectForManualReview, Reset, Case
<1> QED
  BY <1>4, <1>5 DEF CaseInv, BezwaarPossible, IsContestable, IsDirect

LEMMA SeededInv ==
  ASSUME NEW k \in Keys, NEW r \in Results
  PROVE  LET case == DecideAutomatically(Submitted(k, r, r, TRUE), r, "approved") IN
         /\ case \in Case /\ CaseInv(case)
         /\ case.key = k /\ case.historical /\ ~RejectedNow(case)
<1> DEFINE case == DecideAutomatically(Submitted(k, r, r, TRUE), r, "approved")
<1>1. case \in Case
  BY NewCaseType, DecideAutomaticallyType
<1>2. ResultsMatch(r, r)
  BY ReflexiveMatch
<1> QED
  BY <1>1, <1>2 DEF DecideAutomatically, Submitted, NoRemedy, CaseInv, RejectedNow

LEMMA DecidedInv ==
  ASSUME NEW case \in Case, CaseInv(case), NEW r \in Results,
         NEW v \in {"approved", "rejected"}
  PROVE  LET new == Decide(case, r, v) IN
         /\ new \in Case /\ CaseInv(new)
         /\ new.key = case.key /\ new.historical = case.historical
         /\ new.verdict = v /\ new.objection = case.objection
<1>1. Decide(case, r, v) \in Case
  BY DecideType
<1> QED
  BY <1>1 DEF Decide, Case, CaseInv, BezwaarPossible, IsContestable, IsDirect

LEMMA ObjectedInv ==
  ASSUME NEW case \in Case, CaseInv(case), MayObject(case)
  PROVE  LET new == Object(case) IN
         /\ new \in Case /\ CaseInv(new) /\ new.status = "OBJECTED"
         /\ new.key = case.key /\ new.historical = case.historical
         /\ new.objection = case.objection
<1>1. Object(case) \in Case
  BY ObjectType
<1> QED
  BY <1>1 DEF Object, MayObject, Case, CaseInv, BezwaarPossible, IsContestable, IsDirect

\* A law only ever writes what it finds to be true of the case.
LEMMA RuledInv ==
  ASSUME NEW case \in Case, CaseInv(case), NEW law \in Laws
  PROVE  LET new == Ruled(case, law) IN
         /\ new \in Case /\ CaseInv(new)
         /\ \A f \in {"key", "historical", "claimed", "verified", "status",
                      "verdict", "verifier", "objected"} : new[f] = case[f]
         /\ law = "bezwaar" => /\ new.appeal = case.appeal
                               /\ CanObject(new) <=> BezwaarPossible(case)
         /\ law = "beroep"  => /\ new.objection = case.objection
                               /\ CanAppeal(new) <=> BeroepPossible(case)
         /\ case.objection.possible = "no" => new.objection.possible = "no"
<1> DEFINE new == Ruled(case, law)
<1>1. new \in Case
  BY RuledType
<1>2. CASE law = "bezwaar"
  <2>1. /\ new = [case EXCEPT !.objection = Merge(case.objection, Bezwaar(case))]
        /\ Merge(case.objection, Bezwaar(case)).possible = Flag(BezwaarPossible(case))
        /\ Merge(case.objection, Bezwaar(case)).reason =
             IF BezwaarReason(case) = "none" THEN case.objection.reason
                                             ELSE BezwaarReason(case)
    BY <1>2 DEF Ruled, DetermineObjectionStatus, Merge, Bezwaar, Flag
  <2>2. BezwaarPossible(case) <=> BezwaarReason(case) = "none"
    BY DEF BezwaarPossible, BezwaarReason
  <2> QED
    BY <1>1, <1>2, <2>1, <2>2
       DEF Case, CaseInv, CanObject, Flag, BezwaarPossible, IsContestable, IsDirect
<1>3. CASE law = "beroep"
  <2>1. /\ new = [case EXCEPT !.appeal = Merge(case.appeal, Beroep(case))]
        /\ Merge(case.appeal, Beroep(case)).possible = Flag(BeroepPossible(case))
    BY <1>3 DEF Ruled, DetermineAppealStatus, Merge, Beroep, Flag
  <2> QED
    BY <1>1, <1>3, <2>1
       DEF Case, CaseInv, CanAppeal, Flag, BezwaarPossible, BeroepPossible,
           IsContestable, IsDirect
<1> QED
  BY <1>2, <1>3 DEF Laws

(***************************************************************************)
(* The invariant is inductive.  First what saving a case does to each of   *)
(* its conjuncts.                                                          *)
(***************************************************************************)
RemediesOpen(case) == /\ CanObject(case) <=> case.objected = "never"
                      /\ OpenToAppeal(case) => CanAppeal(case)

LEMMA SaveKeeps ==
  ASSUME IInv, Idle, NEW c \in Ids, NEW case \in Case, CaseInv(case), NEW type,
         Save(c, case, type),
         RejectedNow(case) /\ IsContestable(case) =>
           type = "Decided" \/ RemediesOpen(case)
  PROVE  /\ cases' \in [Ids -> Case \cup {Null}]
         /\ todo' \in SUBSET (Ids \X Laws)
         /\ Stored' = Stored \cup {c}
         /\ PendingStored'
         /\ \A d \in Stored' : CaseInv(cases'[d])
         /\ ~LawsMayFail => \A d \in Stored' : RemedyInv(d)'
<1>1. /\ cases \in [Ids -> Case \cup {Null}]
      /\ cases' = [cases EXCEPT ![c] = case]
      /\ todo' = {c} \X Applicable(type, case)
      /\ Applicable(type, case) \subseteq Laws
  BY DEF IInv, TypeOK, Save, Applicable
<1>2. cases' \in [Ids -> Case \cup {Null}] /\ todo' \in SUBSET (Ids \X Laws)
  BY <1>1
<1>3. Stored' = Stored \cup {c} /\ case # Null
  BY <1>1, CaseConstants DEF Stored
<1>4. PendingStored'
  BY <1>1, <1>3 DEF PendingStored
<1>5. \A d \in Stored' : CaseInv(cases'[d])
  BY <1>1, <1>3 DEF IInv, Stored
<1>6. ASSUME ~LawsMayFail, NEW d \in Stored' PROVE RemedyInv(d)'
  <2>1. CASE d # c
    <3>1. d \in Stored /\ cases'[d] = cases[d] /\ RemedyInv(d)
      BY <1>1, <1>3, <1>6, <2>1 DEF IInv, Stored
    <3>2. todo = {}
      BY DEF Idle
    <3> QED
      BY <3>1, <3>2 DEF RemedyInv
  <2>2. CASE d = c
    <3>1. cases'[d] = case
      BY <1>1, <2>2
    <3>2. CASE type = "Decided" /\ RejectedNow(case)
      <4>1. Applicable(type, case) = Laws
        BY <3>2 DEF Applicable, Applies, PolicyEvents, RejectedNow
      <4>2. <<d, "bezwaar">> \in todo' /\ <<d, "beroep">> \in todo'
        BY <1>1, <2>2, <4>1 DEF Laws
      <4> QED
        BY <4>2 DEF RemedyInv
    <3>3. CASE ~(type = "Decided" /\ RejectedNow(case))
      BY <3>1, <3>3 DEF RemedyInv, RemediesOpen
    <3> QED
      BY <3>2, <3>3
  <2> QED
    BY <2>1, <2>2
<1> QED
  BY <1>2, <1>3, <1>4, <1>5, <1>6

\* Changing a stored case, but not its key, leaves the index exact.
LEMMA IndexKept ==
  ASSUME IInv, NEW c \in Stored, NEW case \in Case,
         case.key = cases[c].key, case.historical = cases[c].historical,
         cases' = [cases EXCEPT ![c] = case], index' = index
  PROVE  IndexIsExact'
<1>1. /\ cases \in [Ids -> Case \cup {Null}] /\ case # Null
      /\ index \in [Keys -> Ids \cup {Null}]
  BY CaseConstants DEF IInv, TypeOK
<1>2. Stored' = Stored
  BY <1>1 DEF Stored
<1>3. \A d \in Stored : /\ cases'[d].key = cases[d].key
                        /\ cases'[d].historical = cases[d].historical
  BY <1>1 DEF Stored
<1> QED
  BY <1>1, <1>2, <1>3 DEF IInv, IndexIsExact

\* An operation that saves a changed version of a stored case keeps IInv.
LEMMA SaveStored ==
  ASSUME IInv, Idle, NEW c \in Stored, NEW case \in Case, CaseInv(case),
         NEW type, Save(c, case, type), index' = index,
         case.key = cases[c].key, case.historical = cases[c].historical,
         RejectedNow(case) => type = "Decided"
  PROVE  IInv'
<1>1. c \in Ids
  BY DEF Stored
<1>2. IndexIsExact'
  BY IndexKept DEF Save
<1>3. /\ cases' \in [Ids -> Case \cup {Null}]
      /\ todo' \in SUBSET (Ids \X Laws)
      /\ PendingStored'
      /\ \A d \in Stored' : CaseInv(cases'[d])
      /\ ~LawsMayFail => \A d \in Stored' : RemedyInv(d)'
  BY <1>1, SaveKeeps
<1>4. TypeOK'
  BY <1>3 DEF IInv, TypeOK
<1> QED
  BY <1>2, <1>3, <1>4 DEF IInv

LEMMA SubmitNewKeeps ==
  ASSUME IInv, NEW k \in Keys, NEW c \in Ids,
         NEW claimed \in Results, NEW verified \in Results,
         NEW met \in BOOLEAN, NEW forced \in BOOLEAN, NEW sampled \in BOOLEAN,
         SubmitNew(k, c, claimed, verified, met, forced, sampled)
  PROVE  IInv'
<1> DEFINE case == Filed(k, claimed, verified, met, forced, sampled)
<1>1. /\ case \in Case /\ CaseInv(case) /\ case.key = k /\ ~case.historical
      /\ RejectedNow(case) => RemediesOpen(case)
  BY FiledInv DEF RemediesOpen, OpenToAppeal
<1>2. /\ Idle /\ c \notin Stored /\ index[k] = Null
      /\ Save(c, case, RoutingEvent(case))
      /\ index' = [index EXCEPT ![k] = c]
  BY DEF SubmitNew, Stored
<1> HIDE DEF case
<1>3. /\ cases' \in [Ids -> Case \cup {Null}]
      /\ todo' \in SUBSET (Ids \X Laws)
      /\ Stored' = Stored \cup {c}
      /\ PendingStored'
      /\ \A d \in Stored' : CaseInv(cases'[d])
      /\ ~LawsMayFail => \A d \in Stored' : RemedyInv(d)'
  BY <1>1, <1>2, SaveKeeps
<1>4. TypeOK'
  BY <1>2, <1>3 DEF IInv, TypeOK
<1>5. IndexIsExact'
  <2>1. /\ cases' = [cases EXCEPT ![c] = case] /\ cases \in [Ids -> Case \cup {Null}]
        /\ index \in [Keys -> Ids \cup {Null}] /\ c # Null
    BY <1>2, CaseConstants DEF Save, IInv, TypeOK
  <2>2. ASSUME NEW j \in Keys, index'[j] # Null
        PROVE  index'[j] \in Stored' /\ cases'[index'[j]].key = j
    <3>1. CASE j = k
      BY <3>1, <2>1, <1>1, <1>2, <1>3
    <3>2. CASE j # k
      BY <3>2, <2>1, <2>2, <1>2, <1>3 DEF IInv, IndexIsExact
    <3> QED
      BY <3>1, <3>2
  <2>3. ASSUME NEW d \in Stored'
        PROVE  cases'[d].historical <=> index'[cases'[d].key] # d
    <3>1. CASE d = c
      BY <3>1, <2>1, <1>1, <1>2
    <3>2. CASE d # c
      <4>1. d \in Stored /\ cases'[d] = cases[d] /\ cases[d].key \in Keys
        BY <3>2, <2>1, <1>3, <2>3 DEF Stored, Case
      <4>2. cases[d].historical <=> index[cases[d].key] # d
        BY <4>1 DEF IInv, IndexIsExact
      <4>3. index'[cases[d].key] = d <=> index[cases[d].key] = d
        <5>1. d # Null
          BY <4>1, CaseConstants DEF Stored
        <5> QED
          BY <3>2, <4>1, <5>1, <2>1, <1>2
      <4> QED
        BY <4>1, <4>2, <4>3
    <3> QED
      BY <3>1, <3>2
  <2> QED
    BY <2>2, <2>3 DEF IndexIsExact
<1> QED
  BY <1>3, <1>4, <1>5 DEF IInv

LEMMA ResubmitKeeps ==
  ASSUME IInv, NEW k \in Keys, NEW claimed \in Results, NEW verified \in Results,
         NEW met \in BOOLEAN, NEW forced \in BOOLEAN,
         Resubmit(k, claimed, verified, met, forced)
  PROVE  IInv'
<1> DEFINE c    == index[k]
           case == Refiled(cases[c], claimed, verified, met, forced)
<1>1. c \in Stored /\ cases[c] \in Case /\ CaseInv(cases[c])
  BY DEF IInv, TypeOK, IndexIsExact, Resubmit, Stored
<1>2. /\ case \in Case /\ CaseInv(case) /\ case.status = "IN_REVIEW"
      /\ case.key = cases[c].key /\ case.historical = cases[c].historical
  BY <1>1, RefiledInv
<1>3. Idle /\ Save(c, case, RoutingEvent(case)) /\ index' = index
  BY DEF Resubmit, IInv, TypeOK
<1> QED
  BY <1>1, <1>2, <1>3, SaveStored DEF RejectedNow

LEMMA SeedKeeps ==
  ASSUME IInv, NEW k \in Keys, NEW c \in Ids, NEW r \in Results,
         SeedHistorical(k, c, r)
  PROVE  IInv'
<1> DEFINE case == DecideAutomatically(Submitted(k, r, r, TRUE), r, "approved")
<1>1. /\ case \in Case /\ CaseInv(case) /\ case.key = k
      /\ case.historical /\ ~RejectedNow(case)
  BY SeededInv
<1>2. Idle /\ c \notin Stored /\ Save(c, case, "AutomaticallyDecided") /\ index' = index
  BY DEF SeedHistorical, Stored
<1> HIDE DEF case
<1>3. /\ cases' \in [Ids -> Case \cup {Null}]
      /\ todo' \in SUBSET (Ids \X Laws)
      /\ Stored' = Stored \cup {c}
      /\ PendingStored'
      /\ \A d \in Stored' : CaseInv(cases'[d])
      /\ ~LawsMayFail => \A d \in Stored' : RemedyInv(d)'
  BY <1>1, <1>2, SaveKeeps
<1>4. TypeOK'
  BY <1>2, <1>3 DEF IInv, TypeOK
<1>5. IndexIsExact'
  <2>1. /\ cases' = [cases EXCEPT ![c] = case] /\ cases \in [Ids -> Case \cup {Null}]
        /\ c # Null
    BY <1>2, CaseConstants DEF Save, IInv, TypeOK
  <2>2. \A j \in Keys : index[j] # c
    BY <1>2, <2>1 DEF IInv, IndexIsExact
  <2>3. \A d \in Stored : cases'[d] = cases[d]
    BY <2>1, <1>2 DEF Stored
  <2> QED
    BY <1>1, <1>2, <1>3, <2>1, <2>2, <2>3 DEF IInv, IndexIsExact
<1> QED
  BY <1>3, <1>4, <1>5 DEF IInv

LEMMA ReviewKeeps ==
  ASSUME IInv, NEW c \in Ids, NEW v \in {"approved", "rejected"},
         NEW override \in Results \cup {Null}, CompleteManualReview(c, v, override)
  PROVE  IInv'
<1> DEFINE r    == ReviewResult(cases[c], override)
           case == Decide(cases[c], r, v)
<1>1. c \in Stored /\ cases[c] \in Case /\ CaseInv(cases[c])
  BY DEF IInv, TypeOK, CompleteManualReview, Stored
<1>2. r \in Results
  BY <1>1 DEF ReviewResult, Case
<1>3. /\ case \in Case /\ CaseInv(case)
      /\ case.key = cases[c].key /\ case.historical = cases[c].historical
  BY <1>1, <1>2, DecidedInv
<1>4. Idle /\ Save(c, case, "Decided") /\ index' = index
  BY DEF CompleteManualReview
<1> QED
  BY <1>1, <1>3, <1>4, SaveStored

LEMMA ObjectionKeeps ==
  ASSUME IInv, NEW c \in Ids, ObjectionCase(c)
  PROVE  IInv'
<1> DEFINE case == Object(cases[c])
<1>1. c \in Stored /\ cases[c] \in Case /\ CaseInv(cases[c]) /\ MayObject(cases[c])
  BY DEF IInv, TypeOK, ObjectionCase, Stored
<1>2. /\ case \in Case /\ CaseInv(case) /\ case.status = "OBJECTED"
      /\ case.key = cases[c].key /\ case.historical = cases[c].historical
  BY <1>1, ObjectedInv
<1>3. Idle /\ Save(c, case, "Objected") /\ index' = index
  BY DEF ObjectionCase
<1> QED
  BY <1>1, <1>2, <1>3, SaveStored DEF RejectedNow

LEMMA ApplyLawKeeps ==
  ASSUME IInv, NEW c \in Ids, NEW law \in Laws, ApplyLaw(c, law)
  PROVE  IInv'
<1> DEFINE case == Ruled(cases[c], law)
<1>1. c \in Stored /\ cases[c] \in Case /\ CaseInv(cases[c])
  BY DEF IInv, TypeOK, PendingStored, ApplyLaw, Stored
<1>2. /\ case \in Case /\ CaseInv(case)
      /\ case.key = cases[c].key /\ case.historical = cases[c].historical
      /\ case.status = cases[c].status /\ case.verdict = cases[c].verdict
      /\ case.objected = cases[c].objected /\ case.verifier = cases[c].verifier
      /\ law = "bezwaar" => /\ case.appeal = cases[c].appeal
                            /\ CanObject(case) <=> BezwaarPossible(cases[c])
      /\ law = "beroep"  => /\ case.objection = cases[c].objection
                            /\ CanAppeal(case) <=> BeroepPossible(cases[c])
  BY <1>1, RuledInv
<1>3. /\ cases' = [cases EXCEPT ![c] = case] /\ cases \in [Ids -> Case \cup {Null}]
      /\ todo' = todo \ {<<c, law>>} /\ index' = index
  BY DEF ApplyLaw, IInv, TypeOK
<1> HIDE DEF case
<1>4. cases' \in [Ids -> Case \cup {Null}] /\ Stored' = Stored /\ case # Null
  BY <1>1, <1>2, <1>3, CaseConstants DEF Stored
<1>5. TypeOK' /\ PendingStored'
  BY <1>3, <1>4 DEF IInv, TypeOK, PendingStored
<1>6. IndexIsExact'
  BY <1>1, <1>2, <1>3, IndexKept
<1>7. \A d \in Stored' : CaseInv(cases'[d])
  BY <1>2, <1>3, <1>4 DEF IInv, Stored
<1>8. ASSUME ~LawsMayFail, NEW d \in Stored' PROVE RemedyInv(d)'
  <2>1. RemedyInv(d)
    BY <1>4, <1>8 DEF IInv
  <2>2. CASE d # c
    BY <1>3, <1>4, <2>1, <2>2 DEF RemedyInv, Stored
  <2>3. CASE d = c
    <3>1. cases'[d] = case /\ cases[c] = cases[d]
      BY <1>3, <2>3
    <3> QED
      BY <1>2, <1>3, <2>1, <2>3, <3>1
         DEF RemedyInv, Laws, RejectedNow, IsContestable, CanObject, CanAppeal,
             BezwaarPossible, BeroepPossible, OpenToAppeal, IsDirect
  <2> QED
    BY <2>2, <2>3
<1> QED
  BY <1>5, <1>6, <1>7, <1>8 DEF IInv

LEMMA LawFailsKeeps ==
  ASSUME IInv, NEW c \in Ids, NEW law \in Laws, LawFails(c, law)
  PROVE  IInv'
  BY DEF LawFails, IInv, TypeOK, IndexIsExact, PendingStored, Stored

LEMMA StutterKeeps ==
  ASSUME IInv, UNCHANGED vars
  PROVE  IInv'
  BY DEF vars, IInv, TypeOK, IndexIsExact, PendingStored, Stored, RemedyInv

LEMMA InitInv == Init => IInv
  BY DEF Init, IInv, TypeOK, IndexIsExact, PendingStored, Stored

LEMMA NextKeeps ==
  ASSUME IInv, [Next]_vars
  PROVE  IInv'
<1>1. CASE Submit
  <2>1. \A sampled \in Draws : sampled \in BOOLEAN
    BY CaseConstants
  <2> QED
    BY <1>1, <2>1, SubmitNewKeeps, ResubmitKeeps DEF Submit
<1>2. CASE Seed
  BY <1>2, SeedKeeps DEF Seed
<1>3. CASE Officer
  BY <1>3, ReviewKeeps DEF Officer
<1>4. CASE Citizen
  BY <1>4, ObjectionKeeps DEF Citizen
<1>5. CASE Follower
  BY <1>5, ApplyLawKeeps, LawFailsKeeps DEF Follower
<1>6. CASE UNCHANGED vars
  BY <1>6, StutterKeeps
<1> QED
  BY <1>1, <1>2, <1>3, <1>4, <1>5, <1>6 DEF Next

\* IInv holds in every reachable state, for any number of cases and keys.
THEOREM InvariantHolds == Spec => []IInv
  BY InitInv, NextKeeps, PTL DEF Spec

(***************************************************************************)
(* What follows from it.                                                   *)
(***************************************************************************)
\* The repository only ever holds well-formed cases, the index only identifiers,
\* and the follower only laws it knows, whatever citizens and officers do.
THEOREM TypeCorrect == Spec => []TypeOK
<1>1. IInv => TypeOK
  BY DEF IInv
<1> QED
  BY <1>1, InvariantHolds, PTL

\* Every filed case is the one its key finds; historical cases are never found.
THEOREM IndexCorrect == Spec => []IndexIsExact
<1>1. IInv => IndexIsExact
  BY DEF IInv
<1> QED
  BY <1>1, InvariantHolds, PTL

\* Status, verdict and log never fall out of step.
THEOREM VerdictCorrect == Spec => []VerdictFollowsStatus
<1>1. IInv => VerdictFollowsStatus
  BY DEF IInv, CaseInv, VerdictFollowsStatus
<1> QED
  BY <1>1, InvariantHolds, PTL

\* The machine never decides on a claim its own result does not confirm.
THEOREM MachineDecisionsJustified == Spec => []MachineDecisionsMatch
<1>1. IInv => MachineDecisionsMatch
  BY DEF IInv, CaseInv, MachineDecisionsMatch
<1> QED
  BY <1>1, InvariantHolds, PTL

\* A yes of the objection law never stands beside a reason to refuse.
THEOREM ReasonsConsistent == Spec => []ReasonOnlyWhenRefused
<1>1. IInv => ReasonOnlyWhenRefused
  BY DEF IInv, CaseInv, ReasonOnlyWhenRefused, CanObject
<1> QED
  BY <1>1, InvariantHolds, PTL

\* Appeal is only ever offered after an objection, or where the law lets one appeal
\* directly.
THEOREM AppealsFollowObjection == Spec => []AppealNeedsObjection
<1>1. IInv => AppealNeedsObjection
  BY DEF IInv, CaseInv, AppealNeedsObjection, CanAppeal
<1> QED
  BY <1>1, InvariantHolds, PTL

\* If laws do not raise, whoever is refused has a remedy, and two of them only where the
\* law lets one appeal directly.
THEOREM OneRemedyUnlessDirect == Spec => []OneRemedy
<1>1. IInv => OneRemedy
  BY DEF IInv, CaseInv, RemedyInv, OneRemedy, Idle, OpenToAppeal, CanAppeal
<1> QED
  BY <1>1, InvariantHolds, PTL

\* No operation and no law turns a refused objection into a possible one.
THEOREM RefusalsFinal == Spec => RefusalIsFinal
<1>1. ASSUME IInv, [Next]_vars, NEW c \in Stored,
             cases[c].objection.possible = "no"
      PROVE  cases'[c].objection.possible = "no"
  <2>1. /\ c \in Ids /\ cases[c] \in Case /\ CaseInv(cases[c])
        /\ cases \in [Ids -> Case \cup {Null}]
    BY <1>1 DEF IInv, TypeOK, Stored
  <2>2. CASE Submit
    <3>1. ASSUME NEW k \in Keys, NEW d \in Ids,
                 NEW claimed \in Results, NEW verified \in Results,
                 NEW met \in BOOLEAN, NEW forced \in BOOLEAN, NEW sampled \in Draws,
                 SubmitNew(k, d, claimed, verified, met, forced, sampled)
          PROVE  cases'[c].objection.possible = "no"
      BY <1>1, <2>1, <3>1 DEF SubmitNew, Save, Stored
    <3>2. ASSUME NEW k \in Keys, NEW claimed \in Results, NEW verified \in Results,
                 NEW met \in BOOLEAN, NEW forced \in BOOLEAN,
                 Resubmit(k, claimed, verified, met, forced)
          PROVE  cases'[c].objection.possible = "no"
      <4>1. CASE index[k] = c
        BY <1>1, <2>1, <3>2, <4>1, RefiledInv DEF Resubmit, Save
      <4>2. CASE index[k] # c
        BY <1>1, <2>1, <3>2, <4>2 DEF Resubmit, Save, Stored
      <4> QED
        BY <4>1, <4>2
    <3> QED
      BY <2>2, <3>1, <3>2 DEF Submit
  <2>3. CASE Seed
    BY <1>1, <2>1, <2>3 DEF Seed, SeedHistorical, Save, Stored
  <2>4. CASE Officer
    <3>1. PICK d \in Ids, v \in {"approved", "rejected"},
               override \in Results \cup {Null} : CompleteManualReview(d, v, override)
      BY <2>4 DEF Officer
    <3>2. cases' = [cases EXCEPT ![d] =
                      Decide(cases[d], ReviewResult(cases[d], override), v)]
      BY <3>1 DEF CompleteManualReview, Save
    <3>3. Decide(cases[c], ReviewResult(cases[c], override), v).objection
            = cases[c].objection
      BY <2>1 DEF Decide, Case
    <3> QED
      BY <1>1, <2>1, <3>2, <3>3
  <2>5. CASE Citizen
    <3>1. PICK d \in Ids : ObjectionCase(d)
      BY <2>5 DEF Citizen
    <3>2. cases' = [cases EXCEPT ![d] = Object(cases[d])]
      BY <3>1 DEF ObjectionCase, Save
    <3>3. Object(cases[c]).objection = cases[c].objection
      BY <2>1 DEF Object, Case
    <3> QED
      BY <1>1, <2>1, <3>2, <3>3
  <2>6. CASE Follower
    <3>1. PICK d \in Ids, law \in Laws : ApplyLaw(d, law) \/ LawFails(d, law)
      BY <2>6 DEF Follower
    <3>2. cases' = cases \/ cases' = [cases EXCEPT ![d] = Ruled(@, law)]
      BY <3>1 DEF ApplyLaw, LawFails
    <3>3. Ruled(cases[c], law).objection.possible = "no"
      BY <1>1, <2>1, RuledInv
    <3> QED
      BY <1>1, <2>1, <3>2, <3>3
  <2>7. CASE UNCHANGED vars
    BY <1>1, <2>7 DEF vars
  <2> QED
    BY <1>1, <2>2, <2>3, <2>4, <2>5, <2>6, <2>7 DEF Next
<1>2. IInv /\ [Next]_vars =>
        [\A c \in Stored : cases[c].objection.possible = "no" =>
           cases'[c].objection.possible = "no"]_vars
  BY <1>1
<1> QED
  BY <1>2, InvariantHolds, PTL DEF Spec, RefusalIsFinal

(***************************************************************************)
(* The answers of the laws to an officer's rejection.                      *)
(***************************************************************************)
LEMMA FiledNotByOfficer ==
  ASSUME NEW k, NEW claimed, NEW verified, NEW met, NEW forced, NEW sampled
  PROVE  Filed(k, claimed, verified, met, forced, sampled).verifier # "officer"
<1> DEFINE new == Submitted(k, claimed, verified, FALSE)
<1>1. CASE GoesToReview(ResultsMatch(new.claimed, new.verified), forced, sampled)
  BY <1>1 DEF Filed, Routed, SelectForManualReview, Submitted
<1>2. CASE ~GoesToReview(ResultsMatch(new.claimed, new.verified), forced, sampled)
  BY <1>2 DEF Filed, Routed, DecidedOnFiling, DecideAutomatically, DetermineObjectionStatus,
              Submitted
<1> QED
  BY <1>1, <1>2

\* A case that is saved is no officer's rejection, or has both laws applied to it next.
LEMMA SaveAnswered ==
  ASSUME IInv, Idle, \A d \in Ids : AnswerInv(d), NEW c \in Ids, NEW case, NEW type,
         Save(c, case, type),
         RejectedNow(case) /\ case.verifier = "officer" => type = "Decided"
  PROVE  \A d \in Ids : AnswerInv(d)'
<1> SUFFICES ASSUME NEW d \in Ids PROVE AnswerInv(d)'
  OBVIOUS
<1>1. /\ cases \in [Ids -> Case \cup {Null}] /\ cases' = [cases EXCEPT ![c] = case]
      /\ todo' = {c} \X Applicable(type, case) /\ todo = {}
  BY DEF IInv, TypeOK, Save, Idle
<1>2. CASE d # c
  <2>1. cases'[d] = cases[d]
    BY <1>1, <1>2
  <2> QED
    BY <1>1, <2>1 DEF AnswerInv, RejectedByOfficer
<1>3. CASE d = c
  <2>1. cases'[d] = case
    BY <1>1, <1>3
  <2>2. CASE RejectedNow(case) /\ case.verifier = "officer"
    <3>1. Applicable(type, case) = Laws
      BY <2>2 DEF Applicable, Applies, PolicyEvents, RejectedNow
    <3>2. <<d, "bezwaar">> \in todo' /\ <<d, "beroep">> \in todo'
      BY <1>1, <1>3, <3>1 DEF Laws
    <3> QED
      BY <3>2 DEF AnswerInv
  <2>3. CASE ~(RejectedNow(case) /\ case.verifier = "officer")
    BY <2>1, <2>3 DEF AnswerInv, RejectedByOfficer
  <2> QED
    BY <2>2, <2>3
<1> QED
  BY <1>2, <1>3

\* A law that has been applied has answered, and the other one's answer stands.
LEMMA RuledAnswered ==
  ASSUME IInv, \A d \in Ids : AnswerInv(d), NEW c \in Ids, NEW law \in Laws, ApplyLaw(c, law)
  PROVE  \A d \in Ids : AnswerInv(d)'
<1> SUFFICES ASSUME NEW d \in Ids PROVE AnswerInv(d)'
  OBVIOUS
<1> DEFINE old == cases[c]
           new == Ruled(old, law)
<1>1. /\ c \in Stored /\ old \in Case /\ CaseInv(old)
      /\ cases \in [Ids -> Case \cup {Null}] /\ cases' = [cases EXCEPT ![c] = new]
      /\ todo' = todo \ {<<c, law>>}
  BY DEF IInv, TypeOK, PendingStored, ApplyLaw, Stored
<1>2. CASE d # c
  <2>1. cases'[d] = cases[d] /\ \A l \in Laws : <<d, l>> \in todo' <=> <<d, l>> \in todo
    BY <1>1, <1>2
  <2> QED
    BY <2>1 DEF AnswerInv, RejectedByOfficer, Laws
<1>3. CASE d = c
  <2>1. cases'[d] = new /\ cases[d] = old /\ old # Null
    BY <1>1, <1>3 DEF Stored
  <2>2. /\ new \in Case /\ new.status = old.status /\ new.verdict = old.verdict
        /\ new.verifier = old.verifier /\ new.objected = old.objected
        /\ new.key = old.key /\ new.historical = old.historical
        /\ law = "bezwaar" => new.appeal = old.appeal
        /\ law = "beroep" => new.objection = old.objection
    BY <1>1, RuledInv
  <2>3. Bezwaar(new).possible = Bezwaar(old).possible /\ Beroep(new).possible = Beroep(old).possible
    <3> HIDE DEF new
    <3> QED
      BY <2>2 DEF Bezwaar, Beroep, BezwaarPossible, BeroepPossible, IsContestable, IsDirect, RejectedNow
  <2>4. /\ law = "bezwaar" => new.objection.possible = Bezwaar(old).possible
        /\ law = "beroep" => new.appeal.possible = Beroep(old).possible
    BY <1>1 DEF Ruled, DetermineObjectionStatus, DetermineAppealStatus, Merge, Bezwaar, Beroep,
                Flag, Case
  <2>5. /\ law = "bezwaar" => (<<d, "beroep">> \in todo' <=> <<d, "beroep">> \in todo)
        /\ law = "beroep" => (<<d, "bezwaar">> \in todo' <=> <<d, "bezwaar">> \in todo)
    BY <1>1
  <2>6. RejectedByOfficer(d)' => RejectedByOfficer(d)
    <3> HIDE DEF new, old
    <3> QED
      BY <2>1, <2>2 DEF RejectedByOfficer, RejectedNow
  <2> HIDE DEF new, old
  <2>7. AnswerInv(d)
    OBVIOUS
  <2>8. law = "bezwaar" \/ law = "beroep"
    BY DEF Laws
  <2> QED
    BY <2>1, <2>2, <2>3, <2>4, <2>5, <2>6, <2>7, <2>8 DEF AnswerInv
<1> QED
  BY <1>2, <1>3

LEMMA AnswersKept ==
  ASSUME IInv, ~LawsMayFail, \A d \in Ids : AnswerInv(d), [Next]_vars
  PROVE  \A d \in Ids : AnswerInv(d)'
<1>1. ASSUME NEW k \in Keys, NEW c \in Ids, NEW claimed \in Results, NEW verified \in Results,
             NEW met \in BOOLEAN, NEW forced \in BOOLEAN, NEW sampled,
             SubmitNew(k, c, claimed, verified, met, forced, sampled)
      PROVE  \A d \in Ids : AnswerInv(d)'
  <2> DEFINE case == Filed(k, claimed, verified, met, forced, sampled)
  <2>1. Idle /\ Save(c, case, RoutingEvent(case)) /\ case.verifier # "officer"
    BY <1>1, FiledNotByOfficer DEF SubmitNew
  <2> HIDE DEF case
  <2> QED
    BY <2>1, SaveAnswered
<1>2. ASSUME NEW k \in Keys, NEW claimed \in Results, NEW verified \in Results,
             NEW met \in BOOLEAN, NEW forced \in BOOLEAN,
             Resubmit(k, claimed, verified, met, forced)
      PROVE  \A d \in Ids : AnswerInv(d)'
  <2> DEFINE c == index[k]
             case == Refiled(cases[c], claimed, verified, met, forced)
  <2>1. c \in Ids /\ cases[c] \in Case /\ CaseInv(cases[c])
    BY <1>2 DEF IInv, TypeOK, IndexIsExact, Resubmit, Stored
  <2>2. Idle /\ Save(c, case, RoutingEvent(case)) /\ ~RejectedNow(case)
    BY <1>2, <2>1, RefiledInv DEF Resubmit, RejectedNow
  <2> HIDE DEF case, c
  <2> QED
    BY <2>1, <2>2, SaveAnswered
<1>3. ASSUME NEW k \in Keys, NEW c \in Ids, NEW r \in Results, SeedHistorical(k, c, r)
      PROVE  \A d \in Ids : AnswerInv(d)'
  <2> DEFINE case == DecideAutomatically(Submitted(k, r, r, TRUE), r, "approved")
  <2>1. Idle /\ Save(c, case, "AutomaticallyDecided") /\ ~RejectedNow(case)
    BY <1>3, SeededInv DEF SeedHistorical
  <2> HIDE DEF case
  <2> QED
    BY <2>1, SaveAnswered
<1>4. ASSUME NEW c \in Ids, NEW v, NEW override, CompleteManualReview(c, v, override)
      PROVE  \A d \in Ids : AnswerInv(d)'
  BY <1>4, SaveAnswered DEF CompleteManualReview
<1>5. ASSUME NEW c \in Ids, ObjectionCase(c) PROVE \A d \in Ids : AnswerInv(d)'
  <2> DEFINE case == Object(cases[c])
  <2>1. Idle /\ Save(c, case, "Objected") /\ ~RejectedNow(case)
    BY <1>5, ObjectedInv DEF ObjectionCase, RejectedNow, IInv, TypeOK, Stored
  <2> HIDE DEF case
  <2> QED
    BY <2>1, SaveAnswered
<1>6. CASE UNCHANGED vars
  BY <1>6 DEF vars, AnswerInv, RejectedByOfficer
<1> QED
  BY <1>1, <1>2, <1>3, <1>4, <1>5, <1>6, RuledAnswered
     DEF Next, Submit, Seed, Officer, Citizen, Follower, LawFails

\* A rejection by an officer has the answer of both laws, as they read on this rejection, when
\* the operation that took it returns; nothing that comes later takes the answers away from it.
THEOREM RejectionsAnswered == Spec => []OfficerAnswered
<1> DEFINE Answers == ~LawsMayFail => \A d \in Ids : AnswerInv(d)
<1>1. Init => Answers
  BY DEF Init, AnswerInv, RejectedByOfficer
<1>2. IInv /\ Answers /\ [Next]_vars => Answers'
  BY AnswersKept
<1>3. Answers => OfficerAnswered
  BY DEF OfficerAnswered, AnswerInv, RejectedByOfficer, AnsweredByLaw, Idle
<1> QED
  BY <1>1, <1>2, <1>3, InvariantHolds, PTL DEF Spec

\* The follower is done after at most two steps, also if laws raise: the laws that are
\* pending are those of one case, and each step leaves fewer of them.
THEOREM FollowerIsShort == Spec => []OneCasePending /\ FewerPending
<1>1. Init => OneCasePending
  BY DEF Init, OneCasePending
<1> DEFINE Shorter == \/ todo = {} /\ \E c : todo' \subseteq {c} \X Laws
                      \/ Follower /\ todo' \subseteq todo /\ todo' # todo
<1>2. Next => Shorter
  <2> SUFFICES ASSUME Next PROVE Shorter
    OBVIOUS
  <2>1. ASSUME NEW c, NEW case, NEW type, Save(c, case, type)
        PROVE  \E d : todo' \subseteq {d} \X Laws
    BY <2>1 DEF Save, Applicable
  <2>2. ASSUME NEW k \in Keys, NEW claimed \in Results, NEW verified \in Results,
               NEW met \in BOOLEAN, NEW forced \in BOOLEAN,
               Resubmit(k, claimed, verified, met, forced)
        PROVE  todo = {} /\ \E d : todo' \subseteq {d} \X Laws
    <3>1. todo = {} /\ todo' = {index[k]} \X Applicable(
             RoutingEvent(Refiled(cases[index[k]], claimed, verified, met, forced)),
             Refiled(cases[index[k]], claimed, verified, met, forced))
      BY <2>2 DEF Resubmit, Save, Idle
    <3> QED
      BY <3>1 DEF Applicable
  <2>3. CASE Follower
    BY <2>3 DEF Follower, ApplyLaw, LawFails
  <2>4. CASE Seed \/ Officer \/ Citizen
    BY <2>1, <2>4 DEF Seed, SeedHistorical, Officer, CompleteManualReview, Citizen, ObjectionCase, Idle
  <2>5. ASSUME NEW k \in Keys, NEW claimed \in Results, NEW verified \in Results,
               NEW met \in BOOLEAN, NEW forced \in BOOLEAN, NEW c \in Ids, NEW sampled \in Draws,
               SubmitNew(k, c, claimed, verified, met, forced, sampled)
        PROVE  todo = {} /\ \E d : todo' \subseteq {d} \X Laws
    BY <2>1, <2>5 DEF SubmitNew, Idle
  <2>6. CASE Submit
    BY <2>2, <2>5, <2>6 DEF Submit
  <2> QED
    BY <2>3, <2>4, <2>6 DEF Next
<1>3. OneCasePending /\ [Next]_vars => OneCasePending'
  <2>1. CASE todo' \subseteq todo
    BY <2>1 DEF OneCasePending
  <2>2. ASSUME NEW c, todo' \subseteq {c} \X Laws PROVE OneCasePending'
    BY <2>2 DEF OneCasePending
  <2> QED
    BY <1>2, <2>1, <2>2 DEF vars
<1>4. [Next]_vars => [todo # {} => todo' \subseteq todo /\ todo' # todo]_vars
  BY <1>2
<1> QED
  BY <1>1, <1>3, <1>4, PTL DEF Spec, FewerPending
=============================================================================
