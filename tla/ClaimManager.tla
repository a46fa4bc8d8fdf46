--------------------------- MODULE ClaimManager ---------------------------
(***************************************************************************)
(* The Python claim manager (src/machine/events/claim): claims by which a   *)
(* citizen corrects the data a law is evaluated on, their indexes, and the  *)
(* claim ids that cases keep.  Requests come one at a time.  An operation   *)
(* saves the claim, then looks the case up and saves it; if the case is not *)
(* known the look-up raises, and the claim stays as it was saved.           *)
(***************************************************************************)
EXTENDS Naturals, Sequences

CONSTANTS
  Ids,          \* claim identifiers
  Slots,        \* what a claim is about: (bsn, service, law) and key
  Values, Claimants,
  Filings,      \* who files for which case, if any: pairs <<claimant, case>>
  Evidence,     \* whether evidence may come with a submission: a set of Booleans
  Cases,        \* cases that the case manager knows
  UnknownCases, \* case identifiers that it does not know
  Null,
  MaxListed     \* bound: a case is linked only while its list of claims is shorter

VARIABLES
  claims,         \* repository: the claim that the events of each id yield, or Null
  bySlot,         \* _bsn_service_law_index
  byCase,         \* _case_index
  byClaimant,     \* _claimant_index
  byPerson,       \* _service_index and _bsn_index, which hold the same lists
  known           \* claim_ids of the case aggregates

vars == <<claims, bySlot, byCase, byClaimant, byPerson, known>>

CaseIds == Cases \cup UnknownCases
Status  == {"PENDING", "APPROVED", "REJECTED"}

\* moved is no field of the code: it remembers that the claim was filed again by
\* another claimant or for another case.
Claim == [slot : Slots, value : Values, claimant : Claimants, case : CaseIds \cup {Null},
          status : Status, evidence : BOOLEAN, moved : BOOLEAN]

ASSUME ClaimConstants ==
  /\ Null \notin Ids \cup CaseIds \cup Claim \cup [value : Values, status : Status]
  /\ Cases \cap UnknownCases = {}
  /\ Filings \subseteq Claimants \X (CaseIds \cup {Null})
  /\ Evidence \subseteq BOOLEAN
  /\ MaxListed \in Nat

Stored == {i \in Ids : claims[i] # Null}

-----------------------------------------------------------------------------
(* Reading                                                                  *)

\* get_claim_by_bsn_service_law, for one key.
Lookup(s) == bySlot[s]

\* _filter_claims_by_status
Passes(i, approved, include_rejected) ==
  claims[i].status \in IF approved THEN {"APPROVED"}
                       ELSE {"APPROVED", "PENDING"} \cup (IF include_rejected THEN {"REJECTED"} ELSE {})

\* submit_claim looks for an earlier claim among all, the rejected ones included.
ExistingUnlessRejected(s) == IF Lookup(s) # Null /\ Passes(Lookup(s), FALSE, FALSE) THEN Lookup(s) ELSE Null
Existing(s) == IF Lookup(s) # Null /\ Passes(Lookup(s), FALSE, TRUE) THEN Lookup(s) ELSE Null

-----------------------------------------------------------------------------
(* Writing                                                                  *)

Filed(s, v, p, c, e) ==
  [slot |-> s, value |-> v, claimant |-> p, case |-> c, status |-> "PENDING",
   evidence |-> e, moved |-> FALSE]

\* Claim.reset
ResetKeepsStatus(claim, v, p, c, e) ==
  [Filed(claim.slot, v, p, c, e) EXCEPT
     !.status = claim.status, !.moved = claim.moved \/ p # claim.claimant \/ c # claim.case]
ResetSwapped(claim, v, p, c, e) ==
  [Filed(claim.slot, v, c, p, e) EXCEPT
     !.moved = claim.moved \/ p # claim.claimant \/ c # claim.case]
Reset(claim, v, p, c, e) ==
  [Filed(claim.slot, v, p, c, e) EXCEPT
     !.moved = claim.moved \/ p # claim.claimant \/ c # claim.case]

\* The case is looked up only if the claim has one; an unknown case raises.
Raises(c) == c \in UnknownCases

\* add_claim, approve_claim and reject_claim of a case only add to its claim ids.
TellNobody(i, c) == UNCHANGED known
Tell(i, c) == known' = IF c \in Cases THEN [known EXCEPT ![c] = @ \cup {i}] ELSE known

\* auto_approve, which a look-up that raises prevents.
Approved(claim, auto) ==
  IF auto /\ ~ Raises(claim.case) THEN [claim EXCEPT !.status = "APPROVED"] ELSE claim

\* _index_claim
Index(i, claim) ==
  /\ bySlot' = [bySlot EXCEPT ![claim.slot] = i]
  /\ byCase' = IF claim.case = Null THEN byCase ELSE [byCase EXCEPT ![claim.case] = Append(@, i)]
  /\ byClaimant' = [byClaimant EXCEPT ![claim.claimant] = Append(@, i)]
  /\ byPerson' = Append(byPerson, i)

-----------------------------------------------------------------------------

Init ==
  /\ claims = [i \in Ids |-> Null]
  /\ bySlot = [s \in Slots |-> Null]
  /\ byCase = [c \in CaseIds |-> <<>>]
  /\ byClaimant = [p \in Claimants |-> <<>>]
  /\ byPerson = <<>>
  /\ known = [c \in Cases |-> {}]

\* submit_claim without an earlier claim.
SubmitNew(i, s, v, p, c, e, auto) ==
  /\ Existing(s) = Null
  /\ claims[i] = Null
  /\ claims' = [claims EXCEPT ![i] = Approved(Filed(s, v, p, c, e), auto)]
  /\ Index(i, Filed(s, v, p, c, e))
  /\ Tell(i, c)

\* submit_claim with one: the claim is reset and not indexed again.
ResubmitIndexing(s, v, p, c, e, auto) ==
  LET i == Existing(s)
  IN  /\ i # Null
      /\ claims' = [claims EXCEPT ![i] = Approved(Reset(claims[i], v, p, c, e), auto)]
      /\ Index(i, claims'[i])
      /\ Tell(i, c)
Resubmit(s, v, p, c, e, auto) ==
  LET i == Existing(s)
  IN  /\ i # Null
      /\ claims' = [claims EXCEPT ![i] = Approved(Reset(claims[i], v, p, c, e), auto)]
      /\ Tell(i, c)
      /\ UNCHANGED <<bySlot, byCase, byClaimant, byPerson>>

\* approve_claim and reject_claim, whatever the status; the case is told.
Judge(i, status) ==
  /\ i \in Stored
  /\ claims' = [claims EXCEPT ![i].status = status]
  /\ Tell(i, claims[i].case)
  /\ UNCHANGED <<bySlot, byCase, byClaimant, byPerson>>

\* link_case: the case index is told, the case is not.
LinkCaseAgain(i, c) ==
  /\ i \in Stored
  /\ Len(byCase[c]) < MaxListed
  /\ claims' = [claims EXCEPT ![i].case = c]
  /\ byCase' = [byCase EXCEPT ![c] = Append(@, i)]
  /\ UNCHANGED <<bySlot, byClaimant, byPerson, known>>
LinkCase(i, c) ==
  /\ i \in Stored
  /\ claims[i].case = Null
  /\ Len(byCase[c]) < MaxListed
  /\ claims' = [claims EXCEPT ![i].case = c]
  /\ byCase' = [byCase EXCEPT ![c] = Append(@, i)]
  /\ UNCHANGED <<bySlot, byClaimant, byPerson, known>>

\* add_evidence
AddEvidence(i) ==
  /\ i \in Stored
  /\ claims[i].status = "PENDING"
  /\ claims' = [claims EXCEPT ![i].evidence = TRUE]
  /\ UNCHANGED <<bySlot, byCase, byClaimant, byPerson, known>>

Next ==
  \/ \E s \in Slots, v \in Values, f \in Filings, e \in Evidence, auto \in BOOLEAN :
       \/ \E i \in Ids : SubmitNew(i, s, v, f[1], f[2], e, auto)
       \/ Resubmit(s, v, f[1], f[2], e, auto)
  \/ \E i \in Ids :
       \/ \E status \in {"APPROVED", "REJECTED"} : Judge(i, status)
       \/ \E c \in CaseIds : LinkCase(i, c)
       \/ AddEvidence(i)

Spec == Init /\ [][Next]_vars

-----------------------------------------------------------------------------
(* Properties                                                               *)

Occurrences(i, list) == {n \in 1..Len(list) : list[n] = i}
Listed(i, list)      == Occurrences(i, list) # {}
ListedOnce(i, list)  == \E n \in 1..Len(list) : Occurrences(i, list) = {n}

TypeOK ==
  /\ claims \in [Ids -> Claim \cup {Null}]
  /\ bySlot \in [Slots -> Ids \cup {Null}]
  /\ byCase \in [CaseIds -> Seq(Ids)]
  /\ byClaimant \in [Claimants -> Seq(Ids)]
  /\ byPerson \in Seq(Ids)
  /\ known \in [Cases -> SUBSET Stored]

\* Every datum has at most one claim, and that is the one the index finds: however
\* often it is rejected and filed again, no second claim takes its place.
OneClaimPerSlot ==
  /\ \A i \in Stored : bySlot[claims[i].slot] = i
  /\ \A s \in Slots : bySlot[s] # Null => bySlot[s] \in Stored /\ claims[bySlot[s]].slot = s

\* Queries by service and citizen list each claim exactly once.
ListedForPerson == \A i \in Ids : IF i \in Stored THEN ListedOnce(i, byPerson) ELSE ~ Listed(i, byPerson)

\* Queries by claimant and by case list a claim once, under its own claimant and case
\* and no other, unless it was filed again by somebody else or for another case.
\* (submit_claim does not index a reset claim.)
IndexesFollowClaims ==
  \A i \in Stored : ~ claims[i].moved =>
    /\ \A p \in Claimants : IF claims[i].claimant = p THEN ListedOnce(i, byClaimant[p])
                                                      ELSE ~ Listed(i, byClaimant[p])
    /\ \A c \in CaseIds : IF claims[i].case = c THEN ListedOnce(i, byCase[c])
                                                ELSE ~ Listed(i, byCase[c])

\* A claim that names a case can be found from that case, through its aggregate or
\* through the index: submit_claim tells the aggregate, link_case the index.
FoundFromCase ==
  \A i \in Stored : \A c \in Cases : claims[i].case = c => i \in known[c] \/ Listed(i, byCase[c])

\* Only stored claims are in the lists that IndexesFollowClaims is about.
OnlyStoredListed ==
  \A i \in Ids \ Stored :
    /\ \A p \in Claimants : ~ Listed(i, byClaimant[p])
    /\ \A c \in CaseIds : ~ Listed(i, byCase[c])

\* The invariant that every operation keeps.
ClaimInv ==
  TypeOK /\ OneClaimPerSlot /\ ListedForPerson /\ OnlyStoredListed /\ IndexesFollowClaims /\ FoundFromCase

\* Evaluation reads the claims of a citizen under a law: each of its data has the value
\* filed last and the verdict on it, as ClaimRegister says.
Registered ==
  [s \in Slots |-> IF bySlot[s] = Null THEN Null
                   ELSE [value |-> claims[bySlot[s]].value, status |-> claims[bySlot[s]].status]]
Register == INSTANCE ClaimRegister WITH claim <- Registered

ImplementsRegister == Register!Spec
=============================================================================
