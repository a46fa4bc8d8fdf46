------------------------- MODULE ClaimManagerProofs -------------------------
(***************************************************************************)
(* Proofs about ClaimManager: the indexes agree with the claims, and the    *)
(* manager implements ClaimRegister, for any number of claims and cases.    *)
(***************************************************************************)
EXTENDS ClaimManager, TLAPS

\* What appending an id does to how often an id is listed.
LEMMA AppendOther ==
  ASSUME NEW list \in Seq(Ids), NEW j \in Ids, NEW i, i # j
  PROVE  /\ Listed(i, Append(list, j)) <=> Listed(i, list)
         /\ ListedOnce(i, Append(list, j)) <=> ListedOnce(i, list)
<1>1. Occurrences(i, Append(list, j)) = Occurrences(i, list)
  BY DEF Occurrences
<1>2. \A n \in Occurrences(i, list) : n \in 1..Len(list) /\ n \in 1..Len(Append(list, j))
  BY DEF Occurrences
<1>3. ListedOnce(i, Append(list, j)) => ListedOnce(i, list)
  <2> SUFFICES ASSUME NEW n \in 1..Len(Append(list, j)), Occurrences(i, Append(list, j)) = {n}
               PROVE  \E m \in 1..Len(list) : Occurrences(i, list) = {m}
    BY DEF ListedOnce
  <2> QED
    BY <1>1, <1>2
<1>4. ListedOnce(i, list) => ListedOnce(i, Append(list, j))
  <2> SUFFICES ASSUME NEW n \in 1..Len(list), Occurrences(i, list) = {n}
               PROVE  \E m \in 1..Len(Append(list, j)) : Occurrences(i, Append(list, j)) = {m}
    BY DEF ListedOnce
  <2> QED
    BY <1>1, <1>2
<1> QED
  BY <1>1, <1>3, <1>4 DEF Listed

LEMMA AppendNew ==
  ASSUME NEW list \in Seq(Ids), NEW i \in Ids
  PROVE  /\ Listed(i, Append(list, i))
         /\ ~ Listed(i, list) => ListedOnce(i, Append(list, i))
<1>1. Len(list) + 1 \in Occurrences(i, Append(list, i))
  BY DEF Occurrences
<1>2. ~ Listed(i, list) => Occurrences(i, Append(list, i)) = {Len(list) + 1}
  BY DEF Listed, Occurrences
<1> QED
  BY <1>1, <1>2 DEF Listed, ListedOnce

LEMMA ExistingIsIndexed ==
  ASSUME TypeOK, OneClaimPerSlot, NEW s \in Slots
  PROVE  Existing(s) = bySlot[s]
<1>1. bySlot[s] # Null => claims[bySlot[s]].status \in Status
  BY DEF TypeOK, OneClaimPerSlot, Stored, Claim
<1> QED
  BY <1>1 DEF Existing, Lookup, Passes, Status

LEMMA FiledIsClaim ==
  ASSUME NEW s \in Slots, NEW v \in Values, NEW p \in Claimants, NEW c \in CaseIds \cup {Null},
         NEW e \in BOOLEAN, NEW auto
  PROVE  /\ Filed(s, v, p, c, e) \in Claim /\ Approved(Filed(s, v, p, c, e), auto) \in Claim
         /\ Approved(Filed(s, v, p, c, e), auto).slot = s
         /\ Approved(Filed(s, v, p, c, e), auto).value = v
         /\ Approved(Filed(s, v, p, c, e), auto).claimant = p
         /\ Approved(Filed(s, v, p, c, e), auto).case = c
         /\ Approved(Filed(s, v, p, c, e), auto).status \in {"PENDING", "APPROVED"}
  BY DEF Filed, Approved, Claim, Status

LEMMA ResetIsClaim ==
  ASSUME NEW claim \in Claim, NEW v \in Values, NEW p \in Claimants, NEW c \in CaseIds \cup {Null},
         NEW e \in BOOLEAN, NEW auto
  PROVE  /\ Approved(Reset(claim, v, p, c, e), auto) \in Claim
         /\ Approved(Reset(claim, v, p, c, e), auto).slot = claim.slot
         /\ Approved(Reset(claim, v, p, c, e), auto).value = v
         /\ Approved(Reset(claim, v, p, c, e), auto).case = c
         /\ Approved(Reset(claim, v, p, c, e), auto).status \in {"PENDING", "APPROVED"}
         /\ ~ Approved(Reset(claim, v, p, c, e), auto).moved =>
              /\ ~ claim.moved /\ c = claim.case
              /\ Approved(Reset(claim, v, p, c, e), auto).claimant = claim.claimant
<1>1. Reset(claim, v, p, c, e) \in Claim
  BY DEF Reset, Filed, Claim, Status
<1>2. /\ Reset(claim, v, p, c, e).slot = claim.slot /\ Reset(claim, v, p, c, e).value = v
      /\ Reset(claim, v, p, c, e).claimant = p /\ Reset(claim, v, p, c, e).case = c
      /\ Reset(claim, v, p, c, e).status = "PENDING"
      /\ Reset(claim, v, p, c, e).moved = (claim.moved \/ p # claim.claimant \/ c # claim.case)
  BY DEF Reset, Filed
<1> QED
  BY <1>1, <1>2 DEF Approved, Claim, Status

-----------------------------------------------------------------------------

LEMMA InitHolds == Init => ClaimInv
  BY ClaimConstants DEF Init, ClaimInv, TypeOK, OneClaimPerSlot, ListedForPerson, OnlyStoredListed,
     IndexesFollowClaims, FoundFromCase, Stored, Listed, Occurrences

LEMMA SubmitNewKeeps ==
  ASSUME ClaimInv, NEW i \in Ids, NEW s \in Slots, NEW v \in Values, NEW p \in Claimants,
         NEW c \in CaseIds \cup {Null}, NEW e \in BOOLEAN, NEW auto,
         SubmitNew(i, s, v, p, c, e, auto)
  PROVE  ClaimInv'
<1> DEFINE new == Approved(Filed(s, v, p, c, e), auto)
<1>0. /\ TypeOK /\ OneClaimPerSlot /\ ListedForPerson /\ OnlyStoredListed /\ IndexesFollowClaims /\ FoundFromCase
  BY DEF ClaimInv
<1>1. /\ claims[i] = Null /\ bySlot[s] = Null /\ i \notin Stored
      /\ claims' = [claims EXCEPT ![i] = new]
  BY <1>0, ExistingIsIndexed DEF SubmitNew, Stored
<1>2. /\ new \in Claim /\ new # Null /\ new.slot = s /\ new.claimant = p /\ new.case = c
  BY FiledIsClaim, ClaimConstants
<1>3. /\ bySlot' = [bySlot EXCEPT ![s] = i]
      /\ byCase' = IF c = Null THEN byCase ELSE [byCase EXCEPT ![c] = Append(@, i)]
      /\ byClaimant' = [byClaimant EXCEPT ![p] = Append(@, i)]
      /\ byPerson' = Append(byPerson, i)
      /\ known' = IF c \in Cases THEN [known EXCEPT ![c] = @ \cup {i}] ELSE known
  BY DEF SubmitNew, Index, Tell, Filed
<1>4. Stored' = Stored \cup {i} /\ claims'[i] = new /\ \A j \in Ids : j # i => claims'[j] = claims[j]
  BY <1>0, <1>1, <1>2 DEF Stored, TypeOK
<1>5. TypeOK'
  <2>1. claims' \in [Ids -> Claim \cup {Null}] /\ bySlot' \in [Slots -> Ids \cup {Null}]
    BY <1>0, <1>1, <1>2, <1>3 DEF TypeOK
  <2>2. byCase' \in [CaseIds -> Seq(Ids)] /\ byClaimant' \in [Claimants -> Seq(Ids)] /\ byPerson' \in Seq(Ids)
    BY <1>0, <1>3 DEF TypeOK
  <2>3. known' \in [Cases -> SUBSET Stored']
    BY <1>0, <1>3, <1>4 DEF TypeOK
  <2> QED
    BY <2>1, <2>2, <2>3 DEF TypeOK
<1>6. OneClaimPerSlot'
  BY <1>0, <1>1, <1>2, <1>3, <1>4, ClaimConstants DEF OneClaimPerSlot, TypeOK, Stored
<1>7. ListedForPerson'
  <2>1. \A j \in Ids : j # i => (ListedOnce(j, byPerson') <=> ListedOnce(j, byPerson))
                             /\ (Listed(j, byPerson') <=> Listed(j, byPerson))
    BY <1>0, <1>3, AppendOther DEF TypeOK
  <2>2. ListedOnce(i, byPerson')
    BY <1>0, <1>1, <1>3, AppendNew DEF TypeOK, ListedForPerson
  <2> QED
    BY <1>0, <1>1, <1>4, <2>1, <2>2 DEF ListedForPerson
<1>8. /\ \A q \in Claimants : \A j \in Ids : j # i \/ q # p =>
           /\ ListedOnce(j, byClaimant'[q]) <=> ListedOnce(j, byClaimant[q])
           /\ Listed(j, byClaimant'[q]) <=> Listed(j, byClaimant[q])
      /\ ListedOnce(i, byClaimant'[p])
  BY <1>0, <1>1, <1>3, AppendOther, AppendNew DEF TypeOK, OnlyStoredListed
<1>9. /\ \A d \in CaseIds : \A j \in Ids : j # i \/ d # c =>
           /\ ListedOnce(j, byCase'[d]) <=> ListedOnce(j, byCase[d])
           /\ Listed(j, byCase'[d]) <=> Listed(j, byCase[d])
      /\ c # Null => ListedOnce(i, byCase'[c])
  BY <1>0, <1>1, <1>3, AppendOther, AppendNew DEF TypeOK, OnlyStoredListed
<1>10. OnlyStoredListed'
  BY <1>0, <1>4, <1>8, <1>9 DEF OnlyStoredListed
<1>11. IndexesFollowClaims'
  <2> SUFFICES ASSUME NEW j \in Stored', ~ claims'[j].moved
               PROVE  /\ \A q \in Claimants : IF claims'[j].claimant = q THEN ListedOnce(j, byClaimant'[q])
                                              ELSE ~ Listed(j, byClaimant'[q])
                      /\ \A d \in CaseIds : IF claims'[j].case = d THEN ListedOnce(j, byCase'[d])
                                            ELSE ~ Listed(j, byCase'[d])
    BY DEF IndexesFollowClaims
  <2>0. j \in Ids
    BY DEF Stored
  <2>1. CASE j = i
    BY <1>0, <1>1, <1>2, <1>4, <1>8, <1>9, <2>1, ClaimConstants DEF OnlyStoredListed
  <2>2. CASE j # i
    BY <1>0, <1>4, <1>8, <1>9, <2>0, <2>2 DEF IndexesFollowClaims
  <2> QED
    BY <2>1, <2>2
<1>12. FoundFromCase'
  <2> SUFFICES ASSUME NEW j \in Stored', NEW d \in Cases, claims'[j].case = d
               PROVE  j \in known'[d] \/ Listed(j, byCase'[d])
    BY DEF FoundFromCase
  <2>0. j \in Ids /\ d \in CaseIds
    BY DEF Stored, CaseIds
  <2>1. CASE j = i
    BY <1>0, <1>2, <1>3, <1>4, <2>1 DEF TypeOK
  <2>2. CASE j # i
    BY <1>0, <1>3, <1>4, <1>9, <2>0, <2>2 DEF FoundFromCase, TypeOK
  <2> QED
    BY <2>1, <2>2
<1> QED
  BY <1>5, <1>6, <1>7, <1>10, <1>11, <1>12 DEF ClaimInv

\* A change of one stored claim that keeps its slot, and tells at most one case.
LEMMA ChangeKeeps ==
  ASSUME ClaimInv, NEW i \in Stored, NEW new \in Claim, new.slot = claims[i].slot,
         claims' = [claims EXCEPT ![i] = new],
         UNCHANGED <<bySlot, byCase, byClaimant, byPerson>>,
         known' = IF new.case \in Cases THEN [known EXCEPT ![new.case] = @ \cup {i}] ELSE known,
         ~ new.moved => /\ ~ claims[i].moved
                        /\ new.claimant = claims[i].claimant /\ new.case = claims[i].case
  PROVE  ClaimInv'
<1>0. /\ TypeOK /\ OneClaimPerSlot /\ ListedForPerson /\ OnlyStoredListed /\ IndexesFollowClaims /\ FoundFromCase
      /\ i \in Ids
  BY DEF ClaimInv, Stored
<1>1. Stored' = Stored /\ claims'[i] = new /\ \A j \in Ids : j # i => claims'[j] = claims[j]
  BY <1>0, ClaimConstants DEF Stored, TypeOK
<1>2. \A j \in Ids : claims'[j].slot = claims[j].slot
  BY <1>1
<1>3. TypeOK'
  <2>1. claims' \in [Ids -> Claim \cup {Null}]
    BY <1>0 DEF TypeOK
  <2>2. known' \in [Cases -> SUBSET Stored']
    BY <1>0, <1>1 DEF TypeOK
  <2> QED
    BY <1>0, <2>1, <2>2 DEF TypeOK
<1>4. OneClaimPerSlot'
  BY <1>0, <1>1, <1>2 DEF OneClaimPerSlot, Stored, TypeOK
<1>5. ListedForPerson' /\ OnlyStoredListed'
  BY <1>0, <1>1 DEF ListedForPerson, OnlyStoredListed
<1>6. IndexesFollowClaims'
  BY <1>0, <1>1 DEF IndexesFollowClaims, Stored
<1>7. FoundFromCase'
  BY <1>0, <1>1 DEF FoundFromCase, TypeOK, Stored
<1> QED
  BY <1>3, <1>4, <1>5, <1>6, <1>7 DEF ClaimInv

LEMMA ResubmitKeeps ==
  ASSUME ClaimInv, NEW s \in Slots, NEW v \in Values, NEW p \in Claimants,
         NEW c \in CaseIds \cup {Null}, NEW e \in BOOLEAN, NEW auto,
         Resubmit(s, v, p, c, e, auto)
  PROVE  ClaimInv'
<1> DEFINE i == bySlot[s]
           new == Approved(Reset(claims[i], v, p, c, e), auto)
<1>1. i \in Stored /\ i \in Ids /\ claims[i] \in Claim
  BY ExistingIsIndexed DEF ClaimInv, Resubmit, OneClaimPerSlot, TypeOK, Stored
<1>2. /\ new \in Claim /\ new.slot = claims[i].slot /\ new.case = c
      /\ ~ new.moved => ~ claims[i].moved /\ new.claimant = claims[i].claimant /\ c = claims[i].case
  <2> DEFINE old == claims[i]
  <2>1. old \in Claim
    BY <1>1
  <2> HIDE DEF old
  <2>2. /\ Approved(Reset(old, v, p, c, e), auto) \in Claim
        /\ Approved(Reset(old, v, p, c, e), auto).slot = old.slot
        /\ Approved(Reset(old, v, p, c, e), auto).case = c
        /\ ~ Approved(Reset(old, v, p, c, e), auto).moved =>
             /\ ~ old.moved /\ c = old.case
             /\ Approved(Reset(old, v, p, c, e), auto).claimant = old.claimant
    BY <2>1, ResetIsClaim
  <2> QED
    BY <2>2 DEF old
<1>3. /\ claims' = [claims EXCEPT ![i] = new]
      /\ known' = IF c \in Cases THEN [known EXCEPT ![c] = @ \cup {i}] ELSE known
      /\ UNCHANGED <<bySlot, byCase, byClaimant, byPerson>>
  BY ExistingIsIndexed DEF ClaimInv, Resubmit, Tell
<1> HIDE DEF i, new
<1> QED
  BY <1>1, <1>2, <1>3, ChangeKeeps

LEMMA JudgeKeeps ==
  ASSUME ClaimInv, NEW i \in Ids, NEW status \in {"APPROVED", "REJECTED"}, Judge(i, status)
  PROVE  ClaimInv'
<1> DEFINE new == [claims[i] EXCEPT !.status = status]
<1>1. i \in Stored /\ claims[i] \in Claim
  BY DEF ClaimInv, Judge, TypeOK, Stored
<1>2. /\ new \in Claim /\ new.slot = claims[i].slot /\ new.case = claims[i].case
      /\ new.claimant = claims[i].claimant /\ new.moved = claims[i].moved
  BY <1>1 DEF Claim, Status
<1>3. /\ claims' = [claims EXCEPT ![i] = new]
      /\ known' = IF claims[i].case \in Cases THEN [known EXCEPT ![claims[i].case] = @ \cup {i}] ELSE known
      /\ UNCHANGED <<bySlot, byCase, byClaimant, byPerson>>
  BY DEF Judge, Tell
<1> HIDE DEF new
<1> QED
  BY <1>1, <1>2, <1>3, ChangeKeeps

LEMMA LinkCaseKeeps ==
  ASSUME ClaimInv, NEW i \in Ids, NEW c \in CaseIds, LinkCase(i, c)
  PROVE  ClaimInv'
<1> DEFINE new == [claims[i] EXCEPT !.case = c]
<1>0. /\ TypeOK /\ OneClaimPerSlot /\ ListedForPerson /\ OnlyStoredListed /\ IndexesFollowClaims /\ FoundFromCase
  BY DEF ClaimInv
<1>1. /\ i \in Stored /\ claims[i] \in Claim /\ claims[i].case = Null
      /\ claims' = [claims EXCEPT ![i] = new]
      /\ byCase' = [byCase EXCEPT ![c] = Append(@, i)]
      /\ UNCHANGED <<bySlot, byClaimant, byPerson, known>>
  BY <1>0 DEF LinkCase, TypeOK, Stored
<1>2. /\ new \in Claim /\ new # Null /\ new.slot = claims[i].slot /\ new.case = c
      /\ new.claimant = claims[i].claimant /\ new.moved = claims[i].moved
  BY <1>1, ClaimConstants DEF Claim
<1> HIDE DEF new
<1>3. Stored' = Stored /\ claims'[i] = new /\ \A j \in Ids : j # i => claims'[j] = claims[j]
  BY <1>0, <1>1, <1>2 DEF Stored, TypeOK
<1>4. \A d \in CaseIds : \A j \in Ids : j # i \/ d # c =>
        /\ ListedOnce(j, byCase'[d]) <=> ListedOnce(j, byCase[d])
        /\ Listed(j, byCase'[d]) <=> Listed(j, byCase[d])
  BY <1>0, <1>1, AppendOther DEF TypeOK
<1>5. Listed(i, byCase'[c])
  BY <1>0, <1>1, AppendNew DEF TypeOK
<1>6. ~ claims[i].moved => ListedOnce(i, byCase'[c])
  <2>1. ~ claims[i].moved => ~ Listed(i, byCase[c])
    BY <1>0, <1>1, ClaimConstants DEF IndexesFollowClaims
  <2> QED
    BY <1>0, <1>1, <2>1, AppendNew DEF TypeOK
<1>7. TypeOK'
  <2>1. claims' \in [Ids -> Claim \cup {Null}] /\ byCase' \in [CaseIds -> Seq(Ids)]
    BY <1>0, <1>1, <1>2 DEF TypeOK
  <2> QED
    BY <1>0, <1>1, <1>3, <2>1 DEF TypeOK
<1>8. OneClaimPerSlot'
  BY <1>0, <1>1, <1>2, <1>3 DEF OneClaimPerSlot, Stored, TypeOK
<1>9. ListedForPerson' /\ OnlyStoredListed'
  BY <1>0, <1>1, <1>3, <1>4 DEF ListedForPerson, OnlyStoredListed
<1>10. IndexesFollowClaims'
  <2> SUFFICES ASSUME NEW j \in Stored', ~ claims'[j].moved
               PROVE  /\ \A q \in Claimants : IF claims'[j].claimant = q THEN ListedOnce(j, byClaimant'[q])
                                              ELSE ~ Listed(j, byClaimant'[q])
                      /\ \A d \in CaseIds : IF claims'[j].case = d THEN ListedOnce(j, byCase'[d])
                                            ELSE ~ Listed(j, byCase'[d])
    BY DEF IndexesFollowClaims
  <2>0. j \in Ids
    BY DEF Stored
  <2>1. CASE j = i
    <3>1. \A q \in Claimants : IF new.claimant = q THEN ListedOnce(i, byClaimant[q])
                               ELSE ~ Listed(i, byClaimant[q])
      BY <1>0, <1>1, <1>2, <1>3, <2>1 DEF IndexesFollowClaims
    <3>2. \A d \in CaseIds : d # c => ~ Listed(i, byCase'[d])
      BY <1>0, <1>1, <1>2, <1>3, <1>4, <2>1, ClaimConstants DEF IndexesFollowClaims
    <3> QED
      BY <1>1, <1>2, <1>3, <1>6, <2>1, <3>1, <3>2
  <2>2. CASE j # i
    BY <1>0, <1>1, <1>3, <1>4, <2>0, <2>2 DEF IndexesFollowClaims
  <2> QED
    BY <2>1, <2>2
<1>11. FoundFromCase'
  <2> SUFFICES ASSUME NEW j \in Stored', NEW d \in Cases, claims'[j].case = d
               PROVE  j \in known'[d] \/ Listed(j, byCase'[d])
    BY DEF FoundFromCase
  <2>0. j \in Ids /\ d \in CaseIds
    BY DEF Stored, CaseIds
  <2>1. CASE j = i
    BY <1>2, <1>3, <1>5, <2>1
  <2>2. CASE j # i
    BY <1>0, <1>1, <1>3, <1>4, <2>0, <2>2 DEF FoundFromCase
  <2> QED
    BY <2>1, <2>2
<1> QED
  BY <1>7, <1>8, <1>9, <1>10, <1>11 DEF ClaimInv

LEMMA AddEvidenceKeeps ==
  ASSUME ClaimInv, NEW i \in Ids, AddEvidence(i)
  PROVE  ClaimInv'
<1> DEFINE new == [claims[i] EXCEPT !.evidence = TRUE]
<1>0. /\ TypeOK /\ OneClaimPerSlot /\ ListedForPerson /\ OnlyStoredListed /\ IndexesFollowClaims /\ FoundFromCase
  BY DEF ClaimInv
<1>1. /\ i \in Stored /\ claims[i] \in Claim /\ claims' = [claims EXCEPT ![i] = new]
      /\ UNCHANGED <<bySlot, byCase, byClaimant, byPerson, known>>
  BY <1>0 DEF AddEvidence, TypeOK, Stored
<1>2. /\ new \in Claim /\ new # Null /\ new.slot = claims[i].slot /\ new.case = claims[i].case
      /\ new.claimant = claims[i].claimant /\ new.moved = claims[i].moved
  BY <1>1, ClaimConstants DEF Claim
<1> HIDE DEF new
<1>3. Stored' = Stored /\ claims'[i] = new /\ \A j \in Ids : j # i => claims'[j] = claims[j]
  BY <1>0, <1>1, <1>2 DEF Stored, TypeOK
<1>4. TypeOK'
  BY <1>0, <1>1, <1>2, <1>3 DEF TypeOK
<1>5. OneClaimPerSlot' /\ ListedForPerson' /\ OnlyStoredListed'
  BY <1>0, <1>1, <1>2, <1>3 DEF OneClaimPerSlot, ListedForPerson, OnlyStoredListed, Stored, TypeOK
<1>6. IndexesFollowClaims' /\ FoundFromCase'
  BY <1>0, <1>1, <1>2, <1>3 DEF IndexesFollowClaims, FoundFromCase, Stored
<1> QED
  BY <1>4, <1>5, <1>6 DEF ClaimInv

-----------------------------------------------------------------------------

\* Every operation of the claim manager keeps claims and indexes consistent.
THEOREM ClaimInvariantHolds == Spec => []ClaimInv
<1>1. Init => ClaimInv
  BY InitHolds
<1>2. ClaimInv /\ [Next]_vars => ClaimInv'
  <2> SUFFICES ASSUME ClaimInv, [Next]_vars PROVE ClaimInv'
    OBVIOUS
  <2>1. ASSUME NEW s \in Slots, NEW v \in Values, NEW f \in Filings, NEW e \in Evidence, NEW auto \in BOOLEAN,
               \/ \E i \in Ids : SubmitNew(i, s, v, f[1], f[2], e, auto)
               \/ Resubmit(s, v, f[1], f[2], e, auto)
        PROVE  ClaimInv'
    <3>1. f[1] \in Claimants /\ f[2] \in CaseIds \cup {Null} /\ e \in BOOLEAN
      BY ClaimConstants
    <3> QED
      BY <2>1, <3>1, SubmitNewKeeps, ResubmitKeeps
  <2>2. ASSUME NEW i \in Ids, NEW status \in {"APPROVED", "REJECTED"}, Judge(i, status)
        PROVE  ClaimInv'
    BY <2>2, JudgeKeeps
  <2>3. ASSUME NEW i \in Ids, NEW c \in CaseIds, LinkCase(i, c)
        PROVE  ClaimInv'
    BY <2>3, LinkCaseKeeps
  <2>4. ASSUME NEW i \in Ids, AddEvidence(i)
        PROVE  ClaimInv'
    BY <2>4, AddEvidenceKeeps
  <2>5. CASE UNCHANGED vars
    BY <2>5 DEF vars, ClaimInv, TypeOK, OneClaimPerSlot, ListedForPerson, OnlyStoredListed,
       IndexesFollowClaims, FoundFromCase, Stored
  <2> QED
    BY <2>1, <2>2, <2>3, <2>4, <2>5 DEF Next
<1> QED
  BY <1>1, <1>2, PTL DEF Spec

\* Every variable keeps its type, and cases know only claims that were saved.
THEOREM ClaimTypeCorrect == Spec => []TypeOK
<1>1. ClaimInv => TypeOK
  BY DEF ClaimInv
<1> QED
  BY <1>1, ClaimInvariantHolds, PTL

\* submit_claim never makes a second claim on the same datum.
THEOREM OneClaim == Spec => []OneClaimPerSlot
<1>1. ClaimInv => OneClaimPerSlot
  BY DEF ClaimInv
<1> QED
  BY <1>1, ClaimInvariantHolds, PTL

\* get_claims_by_service and get_claims_by_bsn list each claim once.
THEOREM PersonListCorrect == Spec => []ListedForPerson
<1>1. ClaimInv => ListedForPerson
  BY DEF ClaimInv
<1> QED
  BY <1>1, ClaimInvariantHolds, PTL

\* The indexes by claimant and by case are exact for claims that were not moved by a
\* resubmission.
THEOREM IndexesCorrect == Spec => []IndexesFollowClaims
<1>1. ClaimInv => IndexesFollowClaims
  BY DEF ClaimInv
<1> QED
  BY <1>1, ClaimInvariantHolds, PTL

\* A claim that names a known case can be found from it.
THEOREM CaseFindsClaims == Spec => []FoundFromCase
<1>1. ClaimInv => FoundFromCase
  BY DEF ClaimInv
<1> QED
  BY <1>1, ClaimInvariantHolds, PTL

-----------------------------------------------------------------------------
(* The manager implements the register.                                     *)

\* A change of the claim on slot s is a change of the register at s only.
LEMMA RegisterChange ==
  ASSUME ClaimInv, ClaimInv', NEW s \in Slots, NEW i \in Ids, NEW new \in Claim,
         claims' = [claims EXCEPT ![i] = new], bySlot' = [bySlot EXCEPT ![s] = i],
         bySlot[s] \in {i, Null}, claims[i] = Null \/ claims[i].slot = s
  PROVE  Registered' = [Registered EXCEPT ![s] = [value |-> new.value, status |-> new.status]]
<1>0. /\ claims \in [Ids -> Claim \cup {Null}] /\ bySlot \in [Slots -> Ids \cup {Null}] /\ OneClaimPerSlot
      /\ new # Null /\ i # Null
  BY ClaimConstants DEF ClaimInv, TypeOK
<1>1. bySlot'[s] = i /\ claims'[i] = new
  BY <1>0
<1>2. \A r \in Slots : r # s => /\ bySlot'[r] = bySlot[r]
                                /\ (bySlot[r] # Null => claims'[bySlot[r]] = claims[bySlot[r]])
  <2> SUFFICES ASSUME NEW r \in Slots, r # s
               PROVE  bySlot'[r] = bySlot[r] /\ (bySlot[r] # Null => claims'[bySlot[r]] = claims[bySlot[r]])
    OBVIOUS
  <2>1. bySlot[r] # i
    BY <1>0 DEF OneClaimPerSlot, Stored
  <2> QED
    BY <1>0, <2>1
<1> QED
  BY <1>0, <1>1, <1>2 DEF Registered

LEMMA InitMaps == Init => Register!Init
  BY DEF Init, Register!Init, Registered

LEMMA SubmitNewMaps ==
  ASSUME ClaimInv, ClaimInv', NEW i \in Ids, NEW s \in Slots, NEW v \in Values, NEW p \in Claimants,
         NEW c \in CaseIds \cup {Null}, NEW e \in BOOLEAN, NEW auto,
         SubmitNew(i, s, v, p, c, e, auto)
  PROVE  Register!File(s, v)
<1> DEFINE new == Approved(Filed(s, v, p, c, e), auto)
<1>1. new \in Claim /\ new.value = v /\ new.status \in {"PENDING", "APPROVED"}
  BY FiledIsClaim
<1>2. /\ claims[i] = Null /\ bySlot[s] = Null
      /\ claims' = [claims EXCEPT ![i] = new] /\ bySlot' = [bySlot EXCEPT ![s] = i]
  BY ExistingIsIndexed DEF ClaimInv, SubmitNew, Index, Filed
<1> HIDE DEF new
<1>3. Registered' = [Registered EXCEPT ![s] = [value |-> new.value, status |-> new.status]]
  BY <1>1, <1>2, RegisterChange
<1> QED
  BY <1>1, <1>3 DEF Register!File

LEMMA ResubmitMaps ==
  ASSUME ClaimInv, ClaimInv', NEW s \in Slots, NEW v \in Values, NEW p \in Claimants,
         NEW c \in CaseIds \cup {Null}, NEW e \in BOOLEAN, NEW auto,
         Resubmit(s, v, p, c, e, auto)
  PROVE  Register!File(s, v)
<1> DEFINE i == bySlot[s]
           old == claims[i]
           new == Approved(Reset(old, v, p, c, e), auto)
<1>1. /\ i \in Stored /\ i \in Ids /\ old \in Claim /\ old.slot = s
      /\ bySlot \in [Slots -> Ids \cup {Null}]
  BY ExistingIsIndexed DEF ClaimInv, Resubmit, OneClaimPerSlot, TypeOK, Stored
<1>2. claims' = [claims EXCEPT ![i] = new] /\ bySlot' = bySlot
  BY ExistingIsIndexed DEF ClaimInv, Resubmit
<1>3. bySlot' = [bySlot EXCEPT ![s] = i]
  BY <1>1, <1>2
<1> HIDE DEF old
<1>4. new \in Claim /\ new.value = v /\ new.status \in {"PENDING", "APPROVED"}
  BY <1>1, ResetIsClaim
<1>5. i \in Ids /\ bySlot[s] \in {i, Null} /\ claims[i].slot = s
  BY <1>1 DEF old
<1> HIDE DEF new, i
<1>6. Registered' = [Registered EXCEPT ![s] = [value |-> new.value, status |-> new.status]]
  BY <1>2, <1>3, <1>4, <1>5, RegisterChange
<1> QED
  BY <1>4, <1>6 DEF Register!File

LEMMA JudgeMaps ==
  ASSUME ClaimInv, ClaimInv', NEW i \in Ids, NEW status \in {"APPROVED", "REJECTED"}, Judge(i, status)
  PROVE  Register!Judge(claims[i].slot)
<1> DEFINE new == [claims[i] EXCEPT !.status = status]
           s == claims[i].slot
<1>1. /\ i \in Stored /\ claims[i] \in Claim /\ s \in Slots /\ bySlot[s] = i
      /\ bySlot \in [Slots -> Ids \cup {Null}] /\ i # Null
  BY ClaimConstants DEF ClaimInv, Judge, TypeOK, Stored, OneClaimPerSlot, Claim
<1>2. new \in Claim /\ new.value = claims[i].value /\ new.status = status
  BY <1>1 DEF Claim, Status
<1>3. claims' = [claims EXCEPT ![i] = new] /\ bySlot' = [bySlot EXCEPT ![s] = i]
  BY <1>1 DEF Judge
<1> HIDE DEF new
<1>4. Registered' = [Registered EXCEPT ![s] = [value |-> new.value, status |-> new.status]]
  BY <1>1, <1>2, <1>3, RegisterChange
<1>5. Registered[s] = [value |-> claims[i].value, status |-> claims[i].status]
  BY <1>1 DEF Registered
<1>6. Registered[s] # Null
  <2>1. [value |-> claims[i].value, status |-> claims[i].status] \in [value : Values, status : Status]
    BY <1>1 DEF Claim
  <2> QED
    BY <1>5, <2>1, ClaimConstants
<1>7. Registered' = [Registered EXCEPT ![s] = [value |-> Registered[s].value, status |-> status]]
  <2>1. Registered[s].value = claims[i].value
    BY <1>5
  <2> QED
    BY <1>2, <1>4, <2>1
<1>8. \E st \in {"APPROVED", "REJECTED"} :
        Registered' = [Registered EXCEPT ![s] = [value |-> Registered[s].value, status |-> st]]
  BY <1>7, Zenon
<1> QED
  BY <1>6, <1>8, Zenon DEF Register!Judge

\* Neither linking a case nor adding evidence changes what evaluation reads.
LEMMA OthersMap ==
  ASSUME ClaimInv, NEW i \in Ids, bySlot' = bySlot,
         NEW new, claims' = [claims EXCEPT ![i] = new],
         new.value = claims[i].value, new.status = claims[i].status
  PROVE  Registered' = Registered
  BY DEF Registered, ClaimInv, TypeOK

\* The claim manager implements ClaimRegister: what evaluation reads of a datum is the
\* value filed last and the verdict on it.
THEOREM RegisterImplemented == Spec => ImplementsRegister
<1>1. Init => Register!Init
  BY InitMaps
<1>2. ClaimInv /\ ClaimInv' /\ [Next]_vars => [Register!Next]_Registered
  <2> SUFFICES ASSUME ClaimInv, ClaimInv', [Next]_vars PROVE Register!Next \/ UNCHANGED Registered
    OBVIOUS
  <2>1. ASSUME NEW s \in Slots, NEW v \in Values, NEW f \in Filings, NEW e \in Evidence, NEW auto \in BOOLEAN,
               \/ \E i \in Ids : SubmitNew(i, s, v, f[1], f[2], e, auto)
               \/ Resubmit(s, v, f[1], f[2], e, auto)
        PROVE  Register!Next
    <3>1. f[1] \in Claimants /\ f[2] \in CaseIds \cup {Null} /\ e \in BOOLEAN
      BY ClaimConstants
    <3>2. Register!File(s, v)
      BY <2>1, <3>1, SubmitNewMaps, ResubmitMaps
    <3> QED
      BY <3>2 DEF Register!Next
  <2>2. ASSUME NEW i \in Ids, NEW status \in {"APPROVED", "REJECTED"}, Judge(i, status)
        PROVE  Register!Next
    <3>1. claims[i].slot \in Slots
      BY <2>2 DEF ClaimInv, TypeOK, Judge, Stored, Claim
    <3>2. Register!Judge(claims[i].slot)
      BY <2>2, JudgeMaps
    <3> QED
      BY <3>1, <3>2 DEF Register!Next
  <2>3. ASSUME NEW i \in Ids, NEW c \in CaseIds, LinkCase(i, c)
        PROVE  UNCHANGED Registered
    <3> DEFINE new == [claims[i] EXCEPT !.case = c]
    <3>1. claims' = [claims EXCEPT ![i] = new] /\ bySlot' = bySlot
      BY <2>3 DEF LinkCase
    <3>2. new.value = claims[i].value /\ new.status = claims[i].status
      BY <2>3 DEF LinkCase, Stored, ClaimInv, TypeOK, Claim
    <3> HIDE DEF new
    <3> QED
      BY <3>1, <3>2, OthersMap
  <2>4. ASSUME NEW i \in Ids, AddEvidence(i)
        PROVE  UNCHANGED Registered
    <3> DEFINE new == [claims[i] EXCEPT !.evidence = TRUE]
    <3>1. claims' = [claims EXCEPT ![i] = new] /\ bySlot' = bySlot
      BY <2>4 DEF AddEvidence
    <3>2. new.value = claims[i].value /\ new.status = claims[i].status
      BY <2>4 DEF AddEvidence, Stored, ClaimInv, TypeOK, Claim
    <3> HIDE DEF new
    <3> QED
      BY <3>1, <3>2, OthersMap
  <2>5. CASE UNCHANGED vars
    BY <2>5 DEF vars, Registered
  <2> QED
    BY <2>1, <2>2, <2>3, <2>4, <2>5 DEF Next
<1> QED
  BY <1>1, <1>2, ClaimInvariantHolds, PTL DEF Spec, ImplementsRegister, Register!Spec

=============================================================================
