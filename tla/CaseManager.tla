---------------------------- MODULE CaseManager ----------------------------
(***************************************************************************)
(* The Python case manager: the event-sourced Case aggregate, the          *)
(* CaseManager application that receives the operations of citizens and    *)
(* officers, the CaseProcessor that follows its events, and the two laws   *)
(* of the Algemene wet bestuursrecht (bezwaar: objection, beroep: appeal)  *)
(* that the rules engine applies to a case when a decision is recorded.    *)
(*                                                                         *)
(* The application, its follower and the rules engine run on one thread    *)
(* (eventsourcing's SingleThreadedRunner): an operation saves its events,  *)
(* and returns once the follower has handled them.  todo holds the laws    *)
(* the follower has still to apply; no operation starts before it is       *)
(* empty.                                                                  *)
(***************************************************************************)
EXTENDS Comparison

CONSTANTS
  Ids,              \* case identifiers (uuid4)
  Keys,             \* (bsn, service, law) combinations
  Contestable,      \* the keys whose law yields a decision open to objection
  Extensive,        \* those whose law prescribes the extensive procedure, see below
  Results,          \* rule outputs, claimed or computed: [field -> Values]
  Draws,            \* what the random sample check may give; {FALSE} at rate 0
  LawsMayFail,      \* can the evaluation of a law raise?
  Null              \* no case, no identifier, no override

Laws     == {"bezwaar", "beroep"}
Statuses == {"SUBMITTED", "DECIDED", "IN_REVIEW", "OBJECTED"}
Verdicts == {"undecided", "approved", "rejected"}  \* approved: None, True, False
Flags    == {"unset", "yes", "no"}                 \* possible: absent, True, False
Reasons  == {"none", "excluded", "already_objected", "object_first",
             "no_rejection_yet"}
Remedy   == [possible : Flags, reason : Reasons]

Case == [key        : Keys,
         historical : BOOLEAN,        \* rulespec_uuid = "historical"
         claimed    : Results,
         verified   : Results,
         status     : Statuses,
         verdict    : Verdicts,
         verifier   : {"none", "SYSTEM", "officer"},
         objected   : {"never", "earlier", "this_filing"},
         objection  : Remedy,
         appeal     : Remedy]

ASSUME CaseConstants ==
  /\ Contestable \subseteq Keys /\ Extensive \subseteq Keys
  /\ \A r \in Results : \A f \in DOMAIN r : r[f] \in Values
  /\ Draws \subseteq BOOLEAN
  /\ LawsMayFail \in BOOLEAN
  /\ Null \notin Ids /\ Null \notin Case /\ Null \notin Results

VARIABLES
  cases,            \* the repository: the current state of every aggregate
  index,            \* _case_index: the case filed under each key
  todo              \* (case, law) pairs the follower has still to apply

vars == <<cases, index, todo>>

(***************************************************************************)
(* The commands of the aggregate.  The field objected stands for the       *)
(* Objected events in the case's log: none, only before the last Reset, or *)
(* also after it.                                                          *)
(***************************************************************************)
NoRemedy == [possible |-> "unset", reason |-> "none"]

Submitted(k, claimed, verified, old) ==
  [key |-> k, historical |-> old, claimed |-> claimed, verified |-> verified,
   status |-> "SUBMITTED", verdict |-> "undecided", verifier |-> "none",
   objected |-> "never", objection |-> NoRemedy, appeal |-> NoRemedy]

ResetKeepsVerdict(case, claimed, verified) ==
  [case EXCEPT !.claimed = claimed, !.verified = verified,
               !.status = "SUBMITTED", !.verifier = "none",
               !.objected = IF @ = "never" THEN @ ELSE "earlier"]

Reset(case, claimed, verified) ==
  [case EXCEPT !.claimed = claimed, !.verified = verified,
               !.status = "SUBMITTED", !.verdict = "undecided",
               !.verifier = "none",
               !.objected = IF @ = "never" THEN @ ELSE "earlier"]

\* Both are sent right after filing, when the status they ask for is the one there is.
DecideAutomatically(case, verified, verdict) ==
  [case EXCEPT !.verified = verified, !.status = "DECIDED", !.verdict = verdict]

SelectForManualReview(case, claimed, verified) ==
  [case EXCEPT !.status = "IN_REVIEW", !.claimed = claimed,
               !.verified = verified, !.verifier = "SYSTEM"]

MayDecideAgain(case) == case.status \in {"IN_REVIEW", "OBJECTED", "DECIDED"}
MayDecide(case) == case.status \in {"IN_REVIEW", "OBJECTED"}
Decide(case, verified, verdict) ==
  [case EXCEPT !.status = "DECIDED", !.verdict = verdict,
               !.verified = verified, !.verifier = "officer"]

MayObject(case) == case.status = "DECIDED"
Object(case) == [case EXCEPT !.status = "OBJECTED", !.objected = "this_filing"]

\* Keys the law leaves null keep the value they had.
Merge(old, new) ==
  [possible |-> IF new.possible = "unset" THEN old.possible ELSE new.possible,
   reason   |-> IF new.reason = "none" THEN old.reason ELSE new.reason]

DetermineObjectionStatus(case, status) ==
  [case EXCEPT !.objection = Merge(@, status)]
DetermineAppealStatus(case, status) == [case EXCEPT !.appeal = Merge(@, status)]

CanObject(case) == case.objection.possible = "yes"
CanAppeal(case) == case.appeal.possible = "yes"

(***************************************************************************)
(* The two laws.  Of the law the decision rests on they read whether its   *)
(* decisions are open to objection, and whether they are prepared by the   *)
(* extensive procedure (voorbereidingsprocedure = UITGEBREID), which lets  *)
(* one appeal without an objection.  A historical case has no such law     *)
(* ("historical" is no rulespec), which reads as no to both.               *)
(*                                                                         *)
(* The table of laws that the rules engine selects from has no column      *)
(* voorbereidingsprocedure; the engine warns and leaves the field out.     *)
(* As the program is, Extensive is therefore {}.  Any other value says     *)
(* what the two laws would answer if the table had the column.             *)
(***************************************************************************)
IsContestable(case) == case.key \in Contestable /\ ~case.historical
IsDirect(case)      == case.key \in Extensive /\ ~case.historical

PossiblePerFiling(case) == IsContestable(case) /\ case.objected # "this_filing"
BezwaarPossible(case)   == IsContestable(case) /\ case.objected = "never"

BezwaarReason(case) ==
  IF ~IsContestable(case) THEN "excluded"
  ELSE IF case.objected # "never" THEN "already_objected" ELSE "none"

RejectedNow(case) == case.status = "DECIDED" /\ case.verdict = "rejected"

BeroepWithoutObjection(case) == IsContestable(case) /\ RejectedNow(case)
BeroepPossible(case) ==
  /\ IsContestable(case)
  /\ IsDirect(case) \/ (case.objected # "never" /\ RejectedNow(case))

BeroepReason(case) ==
  IF ~IsContestable(case) THEN "excluded"
  ELSE IF ~IsDirect(case) /\ case.objected = "never" THEN "object_first"
  ELSE IF case.objected # "never" /\ ~RejectedNow(case) THEN "no_rejection_yet"
  ELSE "none"

Flag(b) == IF b THEN "yes" ELSE "no"
Bezwaar(case) == [possible |-> Flag(BezwaarPossible(case)),
                  reason   |-> BezwaarReason(case)]
Beroep(case)  == [possible |-> Flag(BeroepPossible(case)),
                  reason   |-> BeroepReason(case)]

\* The "applies" section of each law, and the events the policy of the
\* processor hands to apply_rules.
Applies == [law \in Laws |-> [type |-> "Decided", approved |-> "rejected"]]

AutomaticPolicyEvents == {"Objected", "AutomaticallyDecided"}
PolicyEvents == {"Objected", "AutomaticallyDecided", "Decided"}

Applicable(type, case) ==
  {law \in Laws : /\ type \in PolicyEvents
                  /\ Applies[law].type = type
                  /\ Applies[law].approved = case.verdict}

(***************************************************************************)
(* Storing a case.                                                         *)
(***************************************************************************)
Stored == {c \in Ids : cases[c] # Null}
Idle   == todo = {}

\* save: the events are recorded and the follower takes the last of them that
\* its policy handles.
Save(c, case, type) ==
  /\ cases' = [cases EXCEPT ![c] = case]
  /\ todo' = {c} \X Applicable(type, case)

(***************************************************************************)
(* submit_case, from the comparison on: what becomes of a case that was    *)
(* just filed or reset, given the machine's result and the sample check.   *)
(***************************************************************************)
ReviewIgnoresMismatch(matches, forced, needsReview) == forced \/ needsReview
GoesToReview(matches, forced, needsReview) == forced \/ ~matches \/ needsReview

\* The periods of AWB 6:7 and 7:10 are left out.
ObjectionByLaw == [possible |-> "yes", reason |-> "none"]

DecidedOnFiling(case, met) ==
  DetermineObjectionStatus(
    DecideAutomatically(case, case.verified, IF met THEN "approved" ELSE "rejected"),
    ObjectionByLaw)

\* _results_match: a difference of exactly one per cent is too much.
ResultsMatch(claimed, verified) == Match(claimed, verified, FALSE)

Routed(case, met, forced, needsReview) ==
  LET matches == ResultsMatch(case.claimed, case.verified) IN
  IF GoesToReview(matches, forced, needsReview)
    THEN SelectForManualReview(case, case.claimed, case.verified)
    ELSE DecidedOnFiling(case, met)

Filed(k, claimed, verified, met, forced, sampled) ==
  Routed(Submitted(k, claimed, verified, FALSE), met, forced, sampled)

RoutingEvent(case) == IF case.status = "IN_REVIEW" THEN "AddedToManualReview"
                                                  ELSE "AutomaticallyDecided"

\* needs_manual_review keeps its initial value True for an existing case.
RefiledLikeNew(case, claimed, verified, met, forced) ==
  Routed(Reset(case, claimed, verified), met, forced, FALSE)

Refiled(case, claimed, verified, met, forced) ==
  Routed(Reset(case, claimed, verified), met, forced, TRUE)

(***************************************************************************)
(* The operations.                                                         *)
(***************************************************************************)
SubmitNew(k, c, claimed, verified, met, forced, sampled) ==
  /\ Idle /\ index[k] = Null
  /\ cases[c] = Null
  /\ LET case == Filed(k, claimed, verified, met, forced, sampled)
     IN  Save(c, case, RoutingEvent(case))
  /\ index' = [index EXCEPT ![k] = c]

Resubmit(k, claimed, verified, met, forced) ==
  /\ Idle /\ index[k] # Null
  /\ LET c == index[k]
         case == Refiled(cases[c], claimed, verified, met, forced)
     IN  /\ Save(c, case, RoutingEvent(case))
         /\ index' = [index EXCEPT ![k] = c]

\* Historical cases are stored and listed apart, and never indexed.
SeedIndexed(k, c, result) ==
  /\ Idle
  /\ cases[c] = Null
  /\ Save(c, DecideAutomatically(Submitted(k, result, result, TRUE), result,
                                 "approved"),
          "AutomaticallyDecided")
  /\ index' = [index EXCEPT ![k] = c]

SeedHistorical(k, c, result) ==
  /\ Idle
  /\ cases[c] = Null
  /\ Save(c, DecideAutomatically(Submitted(k, result, result, TRUE), result,
                                 "approved"),
          "AutomaticallyDecided")
  /\ UNCHANGED index

\* An empty override counts as no override.
OverrideAsGiven(case, override) == override
ReviewResult(case, override) ==
  IF override # Null /\ DOMAIN override # {} THEN override ELSE case.verified

CompleteManualReview(c, verdict, override) ==
  /\ Idle
  /\ c \in Stored /\ MayDecide(cases[c])
  /\ Save(c, Decide(cases[c], ReviewResult(cases[c], override), verdict),
          "Decided")
  /\ UNCHANGED index

ObjectionCase(c) ==
  /\ Idle
  /\ c \in Stored /\ MayObject(cases[c])
  /\ Save(c, Object(cases[c]), "Objected")
  /\ UNCHANGED index

\* One round of the loop of apply_rules: the law is evaluated on the case as
\* it is now and its answer saved with the method the law names.
Ruled(case, law) ==
  IF law = "bezwaar" THEN DetermineObjectionStatus(case, Bezwaar(case))
                     ELSE DetermineAppealStatus(case, Beroep(case))

ApplyLawChained(c, law) ==
  /\ <<c, law>> \in todo
  /\ cases' = [cases EXCEPT ![c] = Ruled(@, law)]
  /\ todo' = {c} \X (Laws \ {law})
  /\ UNCHANGED index

ApplyLaw(c, law) ==
  /\ <<c, law>> \in todo
  /\ cases' = [cases EXCEPT ![c] = Ruled(@, law)]
  /\ todo' = todo \ {<<c, law>>}
  /\ UNCHANGED index

\* An exception leaves the loop: the laws still to come are never applied, the
\* processor prints the error and the operation returns as if nothing happened.
LawFails(c, law) ==
  /\ LawsMayFail
  /\ <<c, law>> \in todo
  /\ todo' = {}
  /\ UNCHANGED <<cases, index>>

Init == /\ cases = [c \in Ids |-> Null]
        /\ index = [k \in Keys |-> Null]
        /\ todo = {}

Submit == \E k \in Keys, claimed, verified \in Results, met, forced \in BOOLEAN :
            \/ \E c \in Ids, sampled \in Draws :
                 SubmitNew(k, c, claimed, verified, met, forced, sampled)
            \/ Resubmit(k, claimed, verified, met, forced)

Seed == \E k \in Keys, c \in Ids, r \in Results : SeedHistorical(k, c, r)

Officer == \E c \in Ids, v \in {"approved", "rejected"},
              override \in Results \cup {Null} : CompleteManualReview(c, v, override)

Citizen == \E c \in Ids : ObjectionCase(c)

Follower == \E c \in Ids, law \in Laws : ApplyLaw(c, law) \/ LawFails(c, law)

Next == Submit \/ Seed \/ Officer \/ Citizen \/ Follower

\* The thread that saved a decision goes on until the follower is done; nobody
\* is obliged to submit, review or object.
Fairness == WF_vars(Follower)

Spec == Init /\ [][Next]_vars /\ Fairness

(***************************************************************************)
(* Properties.                                                             *)
(***************************************************************************)
\* Every stored case, every index entry and every pending law is well formed.
TypeOK == /\ cases \in [Ids -> Case \cup {Null}]
          /\ index \in [Keys -> Ids \cup {Null}]
          /\ todo \in SUBSET (Ids \X Laws)

\* Between operations no case rests in SUBMITTED; a case carries a verdict
\* exactly when it is not under review, and one under objection has an Objected
\* event since it was last filed.  submit_case, reset and the deciders of the
\* aggregate keep status, approved and the log in step.
VerdictFollowsStatus ==
  \A c \in Stored :
    /\ cases[c].status # "SUBMITTED"
    /\ cases[c].status = "IN_REVIEW" <=> cases[c].verdict = "undecided"
    /\ cases[c].status = "OBJECTED" => cases[c].objected = "this_filing"

\* _case_index holds exactly the cases that were filed: no citizen has two live
\* cases under one key, none is lost, and a historical case is never found by
\* submit_case (which would reset it).
IndexIsExact ==
  /\ \A k \in Keys : index[k] # Null =>
       index[k] \in Stored /\ cases[index[k]].key = k
  /\ \A c \in Stored : cases[c].historical <=> index[cases[c].key] # c

\* A decision no officer took rests on a claim the machine's result confirms,
\* however the case got there (submit_case, seed_historical_case).
MachineDecisionsMatch ==
  \A c \in Stored :
    /\ cases[c].status \in {"DECIDED", "OBJECTED"}
    /\ cases[c].verifier = "none"
    => ResultsMatch(cases[c].claimed, cases[c].verified)

\* A case that may be objected to carries no reason why it may not: the merge in
\* determine_objection_status never leaves an old reason beside a new yes.
ReasonOnlyWhenRefused ==
  \A c \in Stored : CanObject(cases[c]) => cases[c].objection.reason = "none"

\* No appeal is offered on a case nobody ever objected to, unless its law lets one
\* appeal directly; nor on one whose decision is no decision in the sense of the
\* law, or on a historical one.
AppealNeedsObjection ==
  \A c \in Stored : CanAppeal(cases[c]) =>
    /\ cases[c].objected # "never" \/ IsDirect(cases[c])
    /\ IsContestable(cases[c])

\* Once every law was applied, whoever was refused has a way to contest it, and
\* both ways, objection and appeal, only where the law lets one appeal directly:
\* there the rejection by an officer is open to appeal, whatever was objected to.
OneRemedy ==
  ~LawsMayFail /\ Idle =>
    \A c \in Stored : IsContestable(cases[c]) /\ RejectedNow(cases[c]) =>
      /\ CanObject(cases[c]) \/ CanAppeal(cases[c])
      /\ CanObject(cases[c]) /\ CanAppeal(cases[c]) => IsDirect(cases[c])
      /\ IsDirect(cases[c]) /\ cases[c].verifier = "officer" => CanAppeal(cases[c])

\* Objection once refused on a case stays refused, whatever is filed, reviewed
\* or ruled later: the objection status survives reset, and only a first filing
\* sets it without asking the law.
RefusalIsFinal ==
  [][\A c \in Stored : cases[c].objection.possible = "no" =>
       cases'[c].objection.possible = "no"]_vars

RejectedByOfficer(c) ==
  IF cases[c] = Null THEN FALSE
  ELSE RejectedNow(cases[c]) /\ cases[c].verifier = "officer"

AnsweredByLaw(c) ==
  IF cases[c] = Null THEN FALSE
  ELSE /\ cases[c].objection.possible = Bezwaar(cases[c]).possible
       /\ cases[c].appeal.possible = Beroep(cases[c]).possible

\* A rejection by an officer is followed by the answer of both laws, as they
\* read on the facts of this rejection and not of an earlier one.
RejectionIsRuled == \A c \in Ids : RejectedByOfficer(c) ~> AnsweredByLaw(c)

\* The follower always gives the thread back, also when a law raises.
OperationsReturn == []<>Idle

\* What there is to these two but fairness: laws that do not raise have answered when the
\* thread comes back, and every step of the follower leaves it fewer laws, of one case only.
OfficerAnswered ==
  ~LawsMayFail /\ Idle => \A c \in Ids : RejectedByOfficer(c) => AnsweredByLaw(c)

OneCasePending == \A p, q \in todo : p[1] = q[1]
FewerPending == [][todo # {} => todo' \subseteq todo /\ todo' # todo]_vars

(***************************************************************************)
(* The inductive invariant behind these properties: what is known of one   *)
(* case, of the index and the pending laws, and of the remedies of a       *)
(* rejected case whose laws were applied.                                  *)
(***************************************************************************)
CaseInv(case) ==
  /\ case.status # "SUBMITTED"
  /\ case.status = "IN_REVIEW" <=> case.verdict = "undecided"
  /\ case.status = "IN_REVIEW" <=> case.verifier = "SYSTEM"
  /\ case.status = "OBJECTED" => case.objected = "this_filing"
  /\ case.verifier = "none" => ResultsMatch(case.claimed, case.verified)
  /\ case.objection.possible = "no" => ~BezwaarPossible(case)
  /\ case.objection.reason # "none" =>
       ~BezwaarPossible(case) /\ case.objection.possible # "yes"
  /\ case.appeal.possible = "yes" =>
       IsContestable(case) /\ (case.objected # "never" \/ IsDirect(case))

\* Rejections on which the appeal law has been applied, and says yes.
OpenToAppeal(case) ==
  case.objected # "never" \/ (IsDirect(case) /\ case.verifier = "officer")

PendingStored == \A p \in todo : p[1] \in Stored

RemedyInv(c) ==
  IsContestable(cases[c]) /\ RejectedNow(cases[c]) =>
    /\ <<c, "bezwaar">> \notin todo =>
         (CanObject(cases[c]) <=> cases[c].objected = "never")
    /\ <<c, "beroep">> \notin todo =>
         (OpenToAppeal(cases[c]) => CanAppeal(cases[c]))

\* A law that is not pending on a rejection by an officer has answered.
AnswerInv(c) ==
  RejectedByOfficer(c) =>
    /\ <<c, "bezwaar">> \notin todo => cases[c].objection.possible = Bezwaar(cases[c]).possible
    /\ <<c, "beroep">> \notin todo => cases[c].appeal.possible = Beroep(cases[c]).possible

\* Holds in every reachable state and is preserved by every step.
IInv == /\ TypeOK
        /\ IndexIsExact
        /\ PendingStored
        /\ \A c \in Stored : CaseInv(cases[c])
        /\ ~LawsMayFail => \A c \in Stored : RemedyInv(c)

(***************************************************************************)
(* The case manager keeps the promises of CaseLifecycle.                   *)
(***************************************************************************)
PhaseOf(case) ==
  IF case = Null THEN "absent"
  ELSE CASE case.status = "IN_REVIEW" -> "review"
         [] case.status = "DECIDED"   -> "decided"
         [] case.status = "OBJECTED"  -> "objected"
         [] OTHER -> "submitted"

DeciderOf(case) ==
  IF PhaseOf(case) \notin {"decided", "objected"} THEN "nobody"
  ELSE CASE case.verifier = "none"    -> "machine"
         [] case.verifier = "officer" -> "officer"
         [] OTHER -> "SYSTEM"

Lifecycle == INSTANCE CaseLifecycle WITH
  phase   <- [c \in Ids |-> PhaseOf(cases[c])],
  verdict <- [c \in Ids |-> IF cases[c] = Null THEN "undecided"
                            ELSE cases[c].verdict],
  decider <- [c \in Ids |-> DeciderOf(cases[c])]

\* Every operation and every law moves a case as the lifecycle allows.
ImplementsLifecycle == Lifecycle!ASpec
=============================================================================
