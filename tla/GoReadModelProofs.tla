------------------------- MODULE GoReadModelProofs -------------------------
(***************************************************************************)
(* Proofs about GoReadModel: types, the order in which handlers take the   *)
(* events, and the count of the wait group, for every set of claims and    *)
(* every bound.                                                            *)
(***************************************************************************)
EXTENDS GoReadModel, FiniteSetTheorems, TLAPS

-----------------------------------------------------------------------------
(* Cases, events and the log                                                *)

LEMMA NewCaseTyped == NewCase \in Case
BY DEF NewCase, Case, Statuses, Verdicts, Answers

LEMMA AppliedTyped ==
  ASSUME NEW c \in Case, NEW e \in Event
  PROVE  Applied(c, e) \in Case
<1>1. CASE e.type \in {"Submitted", "Reset", "AddedToManualReview", "AutomaticallyDecided", "Objected"}
  BY <1>1 DEF Applied, Case, Statuses, Verdicts
<1>2. CASE e \in [type : {"Decided"}, approved : BOOLEAN]
  BY <1>2 DEF Applied, Case, Statuses, Verdicts, Verdict
<1>3. CASE e \in [type : {"AddClaim"}, claim : Claims]
  BY <1>3 DEF Applied, Case
<1>4. CASE e \in [type : {"ObjectionStatusDetermined", "AppealStatusDetermined"}, possible : {"yes", "no"}]
  BY <1>4 DEF Applied, Case, Answers
<1> QED
  BY <1>1, <1>2, <1>3, <1>4 DEF Event

LEMMA RulingTyped ==
  ASSUME NEW law, NEW c, NEW n
  PROVE  Ruling(law, c, n) \in Event
<1>1. Bezwaar(c, n) \in {"yes", "no"} /\ Beroep(c, n) \in {"yes", "no"}
  BY DEF Bezwaar, Beroep, Flag
<1> QED
  BY <1>1 DEF Ruling, Event

LEMMA PublishTyped ==
  ASSUME TypeOK, NEW e \in Event, Publish(e)
  PROVE  /\ log' \in Seq(Event) /\ Len(log') = Len(log) + 1
         /\ case' \in Case \cup {Null} /\ crowded' \in BOOLEAN
<1>1. log \in Seq(Event) /\ case \in Case \cup {Null} /\ crowded \in BOOLEAN
  BY DEF TypeOK
<1>2. (IF case = Null THEN NewCase ELSE case) \in Case
  BY <1>1, NewCaseTyped
<1>3. case' \in Case
  BY <1>2, AppliedTyped DEF Publish
<1>4. crowded' \in BOOLEAN
  BY <1>1 DEF Publish
<1> QED
  BY <1>1, <1>3, <1>4 DEF Publish

LEMMA EntityTyped ==
  ASSUME TypeOK, InOrder, NEW h \in Projectors, found[h] # <<>>
  PROVE  /\ Entity(h) \in Entry /\ Projected(h) \in Entry
         /\ Number(h) \in 1..Len(log) /\ log[Number(h)] \in Event
<1>1. found[h] \in Seq(Entry \cup {Null}) /\ h \in Handlers
  BY DEF TypeOK, Handlers
<1>2. found[h][1] \in Entry \cup {Null}
  BY <1>1
<1>3. [case |-> NewCase, repeated |-> {}, version |-> 0] \in Entry
  BY NewCaseTyped DEF Entry
<1>4. Entity(h) \in Entry
  BY <1>2, <1>3 DEF Entity, OrNew
<1>5. handled[h] \in Nat /\ handled[h] < Len(log) /\ log \in Seq(Event)
  BY <1>1 DEF TypeOK, InOrder, Pending
<1>6. Number(h) \in 1..Len(log) /\ log[Number(h)] \in Event
  BY <1>5 DEF Number
<1>7. /\ Entity(h).case \in Case /\ Entity(h).case.claims \subseteq Claims
      /\ Entity(h).repeated \subseteq Claims /\ Entity(h).version \in Nat
  BY <1>4 DEF Entry, Case
<1>8. Applied(Entity(h).case, log[Number(h)]) \in Case
  BY <1>6, <1>7, AppliedTyped
<1>9. Projected(h) \in Entry
  <2>1. Entity(h).repeated \cup (Claimed(log[Number(h)]) \cap Entity(h).case.claims) \subseteq Claims
    BY <1>7
  <2> QED
    BY <1>7, <1>8, <2>1 DEF Projected, Entry
<1> QED
  BY <1>4, <1>6, <1>9

-----------------------------------------------------------------------------
(* The invariant                                                            *)

LEMMA InitHolds == Init => ReadModelInv
<1> SUFFICES ASSUME Init PROVE ReadModelInv
  OBVIOUS
<1>1. TypeOK
  <2>1. <<>> \in Seq(Event) /\ <<>> \in Seq(Entry \cup {Null})
    OBVIOUS
  <2>2. found \in [Projectors -> Seq(Entry \cup {Null})] /\ handled \in [Handlers -> Nat]
    BY <2>1 DEF Init
  <2>3. rules \subseteq [event : Nat, todo : SUBSET Laws, read : Seq(Case)]
    BY DEF Init
  <2>4. log \in Seq(Event)
    BY <2>1 DEF Init
  <2>5. /\ case \in Case \cup {Null} /\ view \in Entry \cup {Null}
        /\ strays \in Nat /\ wg \in Int /\ request \in {"none", "process"}
        /\ closing \in BOOLEAN /\ resets \in Nat
        /\ crowded \in BOOLEAN /\ overlapped \in BOOLEAN /\ hasty \in BOOLEAN
    <3>1. case \in Case \cup {Null} /\ view \in Entry \cup {Null}
      BY DEF Init
    <3>2. strays \in Nat /\ wg \in Int /\ resets \in Nat
      BY DEF Init
    <3>3. /\ request \in {"none", "process"} /\ closing \in BOOLEAN
          /\ crowded \in BOOLEAN /\ overlapped \in BOOLEAN /\ hasty \in BOOLEAN
      BY DEF Init
    <3> QED
      BY <3>1, <3>2, <3>3
  <2> QED
    BY <2>2, <2>3, <2>4, <2>5 DEF TypeOK
<1>2. InOrder
  <2>1. Len(log) = 0 /\ rules = {}
    BY DEF Init
  <2>2. \A h \in Handlers : handled[h] = 0
    BY DEF Init
  <2>3. \A h \in Projectors : found[h] = <<>>
    BY DEF Init
  <2> QED
    BY <2>1, <2>2, <2>3 DEF InOrder
<1>3. IsFiniteSet(rules) /\ Cardinality(rules) = 0
  BY FS_EmptySet DEF Init
<1> QED
  BY <1>1, <1>2, <1>3 DEF Init, ReadModelInv, WaitGroupCounts

\* A step that publishes an event and leaves handlers and the wait group alone.
LEMMA PublishKeepsOrder ==
  ASSUME TypeOK, InOrder, NEW e \in Event, Publish(e), UNCHANGED <<handled, found>>,
         \A r \in rules' : \E q \in rules : r.event = q.event,
         \A r, q \in rules' : r.event = q.event => r = q
  PROVE  InOrder'
<1>1. Len(log') = Len(log) + 1 /\ Len(log) \in Nat
  BY PublishTyped DEF TypeOK
<1>2. \A h \in Handlers : handled[h] \in Nat
  BY DEF TypeOK
<1>3. \A h \in Handlers : handled'[h] <= Len(log')
  BY <1>1, <1>2 DEF InOrder
<1>4. \A h \in Projectors : found'[h] # <<>> => Pending(h)'
  BY <1>1, <1>2 DEF InOrder, Pending, Handlers
<1>5. \A r \in rules' : r.event <= handled'["transaction"]
  BY DEF InOrder
<1> QED
  BY <1>3, <1>4, <1>5 DEF InOrder

LEMMA RequestKeeps ==
  ASSUME ReadModelInv, NEW e \in Event, NEW then \in {"none", "process"}, Request(e, then)
  PROVE  ReadModelInv'
<1> USE DEF ReadModelInv
<1>1. Publish(e) /\ UNCHANGED <<view, handled, found, rules, strays, wg, closing, resets>>
  BY DEF Request
<1>2. TypeOK'
  <2>1. log' \in Seq(Event) /\ case' \in Case \cup {Null} /\ crowded' \in BOOLEAN
    BY <1>1, PublishTyped
  <2>2. overlapped' \in BOOLEAN /\ hasty' \in BOOLEAN /\ request' \in {"none", "process"}
    BY DEF Request, TypeOK
  <2> QED
    BY <1>1, <2>1, <2>2 DEF TypeOK
<1>3. InOrder'
  BY <1>1, PublishKeepsOrder DEF InOrder
<1>4. hasty' = (hasty \/ closing)
  BY DEF Request
<1>5. WaitGroupCounts' /\ (~ hasty' => strays' = 0)
  BY <1>1, <1>4 DEF WaitGroupCounts
<1>6. closing' /\ ~ hasty' => FALSE
  BY <1>1, <1>4
<1> QED
  BY <1>1, <1>2, <1>3, <1>5, <1>6

LEMMA RequestsKeep ==
  ASSUME ReadModelInv, SubmitCase \/ CompleteManualReview \/ ObjectCase \/ AddClaimToCase
  PROVE  ReadModelInv'
<1>1. ASSUME NEW type \in {"Submitted", "Reset"}, Request([type |-> type], "process")
      PROVE  ReadModelInv'
  BY <1>1, RequestKeeps DEF Event
<1>2. ASSUME NEW approved \in BOOLEAN, Request([type |-> "Decided", approved |-> approved], "none")
      PROVE  ReadModelInv'
  BY <1>2, RequestKeeps DEF Event
<1>3. ASSUME Request([type |-> "Objected"], "none") PROVE ReadModelInv'
  BY <1>3, RequestKeeps DEF Event
<1>4. ASSUME NEW c \in Claims, Request([type |-> "AddClaim", claim |-> c], "none")
      PROVE  ReadModelInv'
  BY <1>4, RequestKeeps DEF Event
<1> QED
  BY <1>1, <1>2, <1>3, <1>4 DEF SubmitCase, CompleteManualReview, ObjectCase, AddClaimToCase

LEMMA ProcessKeeps == ASSUME ReadModelInv, ProcessCase PROVE ReadModelInv'
<1> USE DEF ReadModelInv
<1>1. /\ request = "process" /\ request' = "none"
      /\ UNCHANGED <<view, handled, found, rules, strays, wg, closing, history>>
  BY DEF ProcessCase
<1>2. closing => hasty
  BY <1>1
<1>3. ASSUME NEW type \in {"AddedToManualReview", "AutomaticallyDecided"}, Publish([type |-> type])
      PROVE  TypeOK' /\ InOrder'
  <2>1. [type |-> type] \in Event
    BY DEF Event
  <2>2. log' \in Seq(Event) /\ case' \in Case \cup {Null} /\ crowded' \in BOOLEAN
    BY <1>3, <2>1, PublishTyped
  <2>3. TypeOK'
    BY <1>1, <2>2 DEF TypeOK, history
  <2>4. InOrder'
    BY <1>1, <1>3, <2>1, PublishKeepsOrder DEF InOrder
  <2> QED
    BY <2>3, <2>4
<1>4. ASSUME UNCHANGED stored PROVE TypeOK' /\ InOrder'
  BY <1>1, <1>4 DEF TypeOK, InOrder, Pending, stored, history
<1>5. TypeOK' /\ InOrder'
  BY <1>3, <1>4 DEF ProcessCase
<1> QED
  BY <1>1, <1>2, <1>5 DEF WaitGroupCounts, history

LEMMA FindKeeps == ASSUME ReadModelInv, NEW h \in Projectors, Find(h) PROVE ReadModelInv'
<1> USE DEF ReadModelInv
<1>1. /\ Pending(h) /\ found' = [found EXCEPT ![h] = <<view>>]
      /\ UNCHANGED <<stored, view, handled, rules, strays, wg, request, closing, history>>
  BY DEF Find
<1>2. <<view>> \in Seq(Entry \cup {Null})
  BY DEF TypeOK
<1>3. found' \in [Projectors -> Seq(Entry \cup {Null})]
  BY <1>1, <1>2 DEF TypeOK
<1>4. TypeOK'
  BY <1>1, <1>3 DEF TypeOK, stored, history
<1>5. \A p \in Handlers : Pending(p)' = Pending(p)
  BY <1>1 DEF Pending, stored
<1>6. \A p \in Projectors : found'[p] # <<>> => Pending(p)'
  BY <1>1, <1>5 DEF InOrder, TypeOK, Handlers
<1>7. InOrder'
  BY <1>1, <1>6 DEF InOrder, stored
<1> QED
  BY <1>1, <1>4, <1>5, <1>7 DEF WaitGroupCounts, history

\* What the save of a projector does besides the read model and the laws.
LEMMA DoneKeeps ==
  ASSUME ReadModelInv, NEW h \in Projectors, found[h] # <<>>, Done(h)
  PROVE  /\ handled' \in [Handlers -> Nat] /\ found' \in [Projectors -> Seq(Entry \cup {Null})]
         /\ handled'[h] = handled[h] + 1 /\ \A p \in Handlers : p # h => handled'[p] = handled[p]
         /\ \A p \in Handlers : handled'[p] <= Len(log')
         /\ \A p \in Projectors : found'[p] # <<>> => Pending(p)'
         /\ ~ (closing /\ ~ hasty)
<1>1. h \in Handlers /\ Pending(h)
  BY DEF ReadModelInv, InOrder, Handlers
<1>2. /\ handled' = [handled EXCEPT ![h] = @ + 1] /\ found' = [found EXCEPT ![h] = <<>>]
      /\ log' = log
  BY DEF Done, stored
<1>3. handled \in [Handlers -> Nat] /\ found \in [Projectors -> Seq(Entry \cup {Null})] /\ Len(log) \in Nat
  BY DEF ReadModelInv, TypeOK
<1>4. handled' \in [Handlers -> Nat]
  BY <1>1, <1>2, <1>3
<1>5. found' \in [Projectors -> Seq(Entry \cup {Null})]
  <2>1. <<>> \in Seq(Entry \cup {Null})
    OBVIOUS
  <2> QED
    BY <1>2, <1>3, <2>1
<1>6. handled'[h] = handled[h] + 1 /\ \A p \in Handlers : p # h => handled'[p] = handled[p]
  BY <1>1, <1>2, <1>3
<1>7. \A p \in Handlers : handled'[p] <= Len(log')
  BY <1>1, <1>2, <1>3, <1>6 DEF ReadModelInv, InOrder, Pending
<1>8. \A p \in Projectors : found'[p] # <<>> => Pending(p)'
  BY <1>2, <1>3, <1>6 DEF ReadModelInv, InOrder, Pending, Handlers
<1>9. ~ (closing /\ ~ hasty)
  BY <1>1 DEF ReadModelInv
<1> QED
  BY <1>4, <1>5, <1>6, <1>7, <1>8, <1>9

LEMMA SaveInCasesKeeps == ASSUME ReadModelInv, SaveInCases PROVE ReadModelInv'
<1> DEFINE h == "cases"
<1>0. h \in Projectors /\ found[h] # <<>> /\ Done(h) /\ UNCHANGED <<rules, wg>>
  BY DEF SaveInCases, Projectors
<1>1. view' \in Entry \cup {Null}
  <2>1. Projected(h) \in Entry /\ Number(h) \in Nat
    BY <1>0, EntityTyped DEF ReadModelInv
  <2>2. [case |-> NewCase, repeated |-> {}, version |-> Number(h)] \in Entry
    BY <2>1, NewCaseTyped DEF Entry
  <2> QED
    BY <2>1, <2>2 DEF SaveInCases, ReadModelInv, TypeOK
<1>2. UNCHANGED <<stored, strays, request, closing, history>>
  BY <1>0 DEF Done
<1> HIDE DEF h
<1>3. TypeOK'
  BY <1>0, <1>1, <1>2, DoneKeeps DEF ReadModelInv, TypeOK, stored, history
<1>4. InOrder'
  <2>1. handled'["transaction"] = handled["transaction"]
    BY <1>0, DoneKeeps DEF Handlers, Projectors, h
  <2> QED
    BY <1>0, <2>1, DoneKeeps DEF ReadModelInv, InOrder
<1>5. ~ (closing /\ ~ hasty)
  BY <1>0, DoneKeeps
<1> QED
  BY <1>0, <1>2, <1>3, <1>4, <1>5 DEF ReadModelInv, WaitGroupCounts, history

\* The Executor counts in the run that it starts.
LEMMA ExecuteCounts ==
  ASSUME ReadModelInv, NEW e, Execute(e), Number("transaction") \in Nat
  PROVE  /\ rules' \subseteq [event : Nat, todo : SUBSET Laws, read : Seq(Case)]
         /\ IsFiniteSet(rules') /\ wg' \in Int
         /\ wg = Cardinality(rules) => wg' = Cardinality(rules')
         /\ \A r \in rules' : r.event <= handled["transaction"] + 1
         /\ \A r, q \in rules' : r.event = q.event => r = q
<1>0. /\ handled["transaction"] \in Nat /\ wg \in Int /\ IsFiniteSet(rules)
      /\ rules \subseteq [event : Nat, todo : SUBSET Laws, read : Seq(Case)]
      /\ \A r \in rules : r.event <= handled["transaction"]
      /\ \A r, q \in rules : r.event = q.event => r = q
  BY DEF ReadModelInv, TypeOK, InOrder, Handlers, Projectors
<1>1. \A r \in rules : r.event \in Nat
  BY <1>0
<1>2. CASE UNCHANGED <<rules, wg>>
  BY <1>0, <1>1, <1>2
<1>3. CASE ~ UNCHANGED <<rules, wg>>
  <2> DEFINE new == [event |-> Number("transaction"), todo |-> Laws, read |-> <<>>]
  <2>1. rules' = rules \cup {new} /\ wg' = wg + 1
    BY <1>3 DEF Execute
  <2>2. new \in [event : Nat, todo : SUBSET Laws, read : Seq(Case)] /\ new.event = handled["transaction"] + 1
    BY DEF Number
  <2> HIDE DEF new
  <2>3. new \notin rules
    BY <1>0, <1>1, <2>2
  <2>4. IsFiniteSet(rules') /\ Cardinality(rules') = Cardinality(rules) + 1
    BY <1>0, <2>1, <2>3, FS_AddElement
  <2>5. rules' \subseteq [event : Nat, todo : SUBSET Laws, read : Seq(Case)]
    BY <1>0, <2>1, <2>2
  <2>6. \A r \in rules' : r.event <= handled["transaction"] + 1
    BY <1>0, <1>1, <2>1, <2>2
  <2>7. \A r, q \in rules' : r.event = q.event => r = q
    BY <1>0, <1>1, <2>1, <2>2
  <2> QED
    BY <1>0, <2>1, <2>4, <2>5, <2>6, <2>7
<1> QED
  BY <1>2, <1>3

LEMMA SaveInTransactionKeeps == ASSUME ReadModelInv, SaveInTransaction PROVE ReadModelInv'
<1> DEFINE h == "transaction"
<1>0. h \in Projectors /\ found[h] # <<>> /\ Done(h)
  BY DEF SaveInTransaction, Projectors
<1>1. view' \in Entry \cup {Null} /\ Number(h) \in Nat
  <2>1. Projected(h) \in Entry /\ Number(h) \in Nat
    BY <1>0, EntityTyped DEF ReadModelInv
  <2> QED
    BY <2>1 DEF SaveInTransaction, ReadModelInv, TypeOK
<1>2. UNCHANGED <<stored, strays, request, closing, history>>
  BY <1>0 DEF Done
<1>3. /\ rules' \subseteq [event : Nat, todo : SUBSET Laws, read : Seq(Case)]
      /\ IsFiniteSet(rules') /\ wg' \in Int
      /\ wg = Cardinality(rules) => wg' = Cardinality(rules')
      /\ \A r \in rules' : r.event <= handled["transaction"] + 1
      /\ \A r, q \in rules' : r.event = q.event => r = q
  <2>1. CASE Execute(log[Number(h)])
    BY <1>1, <2>1, ExecuteCounts
  <2>2. CASE UNCHANGED <<rules, wg>>
    <3>1. handled["transaction"] \in Nat /\ \A r \in rules : r.event \in Nat
      BY DEF ReadModelInv, TypeOK, Handlers, Projectors
    <3> QED
      BY <2>2, <3>1 DEF ReadModelInv, TypeOK, InOrder
  <2> QED
    BY <2>1, <2>2 DEF SaveInTransaction
<1> HIDE DEF h
<1>4. TypeOK'
  BY <1>0, <1>1, <1>2, <1>3, DoneKeeps DEF ReadModelInv, TypeOK, stored, history
<1>5. InOrder'
  <2>1. handled'["transaction"] = handled["transaction"] + 1
    BY <1>0, DoneKeeps DEF h
  <2> QED
    BY <1>0, <1>3, <2>1, DoneKeeps DEF InOrder
<1>6. ~ (closing /\ ~ hasty)
  BY <1>0, DoneKeeps
<1> QED
  BY <1>2, <1>3, <1>4, <1>5, <1>6 DEF ReadModelInv, WaitGroupCounts, history

LEMMA IndexKeeps == ASSUME ReadModelInv, IndexEvent PROVE ReadModelInv'
<1> USE DEF ReadModelInv
<1>0. /\ Pending("indexer") /\ handled' = [handled EXCEPT !["indexer"] = @ + 1]
      /\ UNCHANGED <<stored, view, found, rules, strays, wg, request, closing, history>>
  BY DEF IndexEvent
<1>1. "indexer" \in Handlers /\ handled \in [Handlers -> Nat] /\ Len(log) \in Nat
  BY DEF TypeOK, Handlers
<1>2. handled' \in [Handlers -> Nat] /\ \A p \in Projectors : p \in Handlers /\ handled'[p] = handled[p]
  BY <1>0, <1>1 DEF Handlers, Projectors
<1>3. TypeOK'
  BY <1>0, <1>2 DEF TypeOK, stored, history
<1>4. \A p \in Handlers : handled'[p] <= Len(log')
  BY <1>0, <1>1 DEF InOrder, Pending, stored
<1>5. \A p \in Projectors : found'[p] # <<>> => Pending(p)'
  BY <1>0, <1>2 DEF InOrder, Pending, stored
<1>6. InOrder'
  BY <1>0, <1>2, <1>4, <1>5 DEF InOrder, Projectors
<1>7. ~ (closing /\ ~ hasty)
  BY <1>0, <1>1
<1> QED
  BY <1>0, <1>3, <1>6, <1>7 DEF WaitGroupCounts, history

\* A run of ApplyRules that goes on is still one run, for the same event.
LEMMA RunGoesOn ==
  ASSUME ReadModelInv, NEW r \in rules, NEW next, next.event = r.event,
         next \in [event : Nat, todo : SUBSET Laws, read : Seq(Case)],
         rules' = (rules \ {r}) \cup {next}
  PROVE  /\ rules' \subseteq [event : Nat, todo : SUBSET Laws, read : Seq(Case)]
         /\ IsFiniteSet(rules') /\ Cardinality(rules') = Cardinality(rules)
         /\ \A q \in rules' : \E p \in rules : q.event = p.event
         /\ \A p, q \in rules' : p.event = q.event => p = q
<1>0. /\ IsFiniteSet(rules) /\ rules \subseteq [event : Nat, todo : SUBSET Laws, read : Seq(Case)]
      /\ \A p, q \in rules : p.event = q.event => p = q
  BY DEF ReadModelInv, TypeOK, InOrder
<1>1. next \notin rules \ {r}
  BY <1>0
<1>2. IsFiniteSet(rules \ {r}) /\ Cardinality(rules \ {r}) = Cardinality(rules) - 1 /\ Cardinality(rules) \in Nat
  BY <1>0, FS_RemoveElement, FS_CardinalityType
<1>3. IsFiniteSet(rules') /\ Cardinality(rules') = Cardinality(rules \ {r}) + 1
  BY <1>1, <1>2, FS_AddElement
<1>4. \A q \in rules' : \E p \in rules : q.event = p.event
  OBVIOUS
<1>5. \A p, q \in rules' : p.event = q.event => p = q
  BY <1>0
<1> QED
  BY <1>0, <1>2, <1>3, <1>4, <1>5

LEMMA ReadCaseKeeps == ASSUME ReadModelInv, NEW r \in rules, ReadCase(r) PROVE ReadModelInv'
<1> USE DEF ReadModelInv
<1> DEFINE next == [r EXCEPT !.read = <<view.case>>]
<1>0. /\ view # Null /\ rules' = (rules \ {r}) \cup {next}
      /\ UNCHANGED <<stored, view, handled, found, strays, wg, request, closing, history>>
  BY DEF ReadCase
<1>1. r \in [event : Nat, todo : SUBSET Laws, read : Seq(Case)] /\ view.case \in Case
  BY <1>0 DEF TypeOK, Entry
<1>2. next \in [event : Nat, todo : SUBSET Laws, read : Seq(Case)] /\ next.event = r.event
  <2>1. <<view.case>> \in Seq(Case)
    BY <1>1
  <2>2. next = [event |-> r.event, todo |-> r.todo, read |-> <<view.case>>]
    BY <1>1
  <2> QED
    BY <1>1, <2>1, <2>2
<1> HIDE DEF next
<1>3. /\ rules' \subseteq [event : Nat, todo : SUBSET Laws, read : Seq(Case)]
      /\ IsFiniteSet(rules') /\ Cardinality(rules') = Cardinality(rules)
      /\ \A q \in rules' : \E p \in rules : q.event = p.event
      /\ \A p, q \in rules' : p.event = q.event => p = q
  BY <1>0, <1>2, RunGoesOn
<1>4. TypeOK'
  BY <1>0, <1>3 DEF TypeOK, stored, history
<1>5. InOrder'
  BY <1>0, <1>3 DEF InOrder, Pending, stored
<1> QED
  BY <1>0, <1>3, <1>4, <1>5 DEF WaitGroupCounts, history

LEMMA ApplyLawKeeps ==
  ASSUME ReadModelInv, NEW r \in rules, NEW law \in Laws, ApplyLaw(r, law)
  PROVE  ReadModelInv'
<1> USE DEF ReadModelInv
<1> DEFINE next == [r EXCEPT !.todo = @ \ {law}, !.read = <<>>]
           e == Ruling(law, r.read[1], handled["indexer"])
<1>0. /\ Publish(e) /\ rules' = (rules \ {r}) \cup {next}
      /\ UNCHANGED <<view, handled, found, strays, wg, request, closing, history>>
  BY DEF ApplyLaw
<1>1. e \in Event
  BY RulingTyped
<1>2. r \in [event : Nat, todo : SUBSET Laws, read : Seq(Case)]
  BY DEF TypeOK
<1>3. next \in [event : Nat, todo : SUBSET Laws, read : Seq(Case)] /\ next.event = r.event
  <2>1. <<>> \in Seq(Case) /\ r.todo \ {law} \in SUBSET Laws
    BY <1>2
  <2>2. next.event = r.event /\ next.event \in Nat /\ next.todo = r.todo \ {law} /\ next.read = <<>>
    BY <1>2
  <2> QED
    BY <1>2, <2>1, <2>2
<1> HIDE DEF next, e
<1>4. /\ rules' \subseteq [event : Nat, todo : SUBSET Laws, read : Seq(Case)]
      /\ IsFiniteSet(rules') /\ Cardinality(rules') = Cardinality(rules)
      /\ \A q \in rules' : \E p \in rules : q.event = p.event
      /\ \A p, q \in rules' : p.event = q.event => p = q
  BY <1>0, <1>3, RunGoesOn
<1>5. TypeOK'
  <2>1. log' \in Seq(Event) /\ case' \in Case \cup {Null} /\ crowded' \in BOOLEAN
    BY <1>0, <1>1, PublishTyped
  <2> QED
    BY <1>0, <1>4, <2>1 DEF TypeOK, history
<1>6. InOrder'
  BY <1>0, <1>1, <1>4, PublishKeepsOrder
<1>7. ~ (closing /\ ~ hasty)
  OBVIOUS
<1> QED
  BY <1>0, <1>4, <1>5, <1>6, <1>7 DEF WaitGroupCounts, history

LEMMA FinishKeeps == ASSUME ReadModelInv, NEW r \in rules, FinishRules(r) PROVE ReadModelInv'
<1> USE DEF ReadModelInv
<1>0. /\ rules' = rules \ {r} /\ wg' = wg - 1
      /\ UNCHANGED <<stored, view, handled, found, strays, request, closing, history>>
  BY DEF FinishRules
<1>1. IsFiniteSet(rules') /\ Cardinality(rules') = Cardinality(rules) - 1
  BY <1>0, FS_RemoveElement
<1>2. TypeOK'
  <2>1. wg' \in Int /\ rules' \subseteq rules
    BY <1>0 DEF TypeOK
  <2> QED
    BY <1>0, <2>1 DEF TypeOK, stored, history
<1>3. InOrder'
  BY <1>0 DEF InOrder, Pending, stored
<1>4. ~ (closing /\ ~ hasty)
  OBVIOUS
<1> QED
  BY <1>0, <1>1, <1>2, <1>3, <1>4 DEF WaitGroupCounts, history

LEMMA BeginResetKeeps == ASSUME ReadModelInv, BeginReset PROVE ReadModelInv'
<1> USE DEF ReadModelInv
<1>0. /\ resets' = resets + 1 /\ closing' = TRUE /\ hasty' = (hasty \/ ~ AtRest)
      /\ UNCHANGED <<stored, view, handled, found, rules, strays, wg, request, overlapped>>
  BY DEF BeginReset
<1>1. TypeOK'
  BY <1>0 DEF TypeOK, stored
<1>2. InOrder'
  BY <1>0 DEF InOrder, Pending, stored
<1>3. ~ hasty' => request' = "none" /\ rules' = {} /\ \A h \in Handlers : ~ Pending(h)'
  BY <1>0 DEF AtRest, Pending, stored
<1> QED
  BY <1>0, <1>1, <1>2, <1>3 DEF WaitGroupCounts

LEMMA EndResetKeeps == ASSUME ReadModelInv, EndReset PROVE ReadModelInv'
<1> USE DEF ReadModelInv
<1>0. /\ closing /\ \A h \in Projectors : found[h] = <<>>
      /\ log' = <<>> /\ case' = Null /\ view' = Null /\ handled' = [h \in Handlers |-> 0]
      /\ strays' = strays + Cardinality(rules) /\ rules' = {} /\ wg' = 0
      /\ request' = "none" /\ closing' = FALSE /\ crowded' = FALSE /\ overlapped' = FALSE
      /\ UNCHANGED <<found, resets, hasty>>
  BY DEF EndReset
<1>1. Cardinality(rules) \in Nat /\ IsFiniteSet(rules') /\ Cardinality(rules') = 0
  BY <1>0, FS_CardinalityType, FS_EmptySet
<1>2. TypeOK'
  <2>1. handled' \in [Handlers -> Nat] /\ log' \in Seq(Event)
    BY <1>0
  <2>2. strays' \in Nat /\ wg' \in Int
    BY <1>0, <1>1 DEF TypeOK
  <2> QED
    BY <1>0, <2>1, <2>2 DEF TypeOK
<1>3. InOrder'
  <2>1. \A h \in Handlers : handled'[h] = 0
    BY <1>0
  <2> QED
    BY <1>0, <2>1 DEF InOrder
<1>4. ~ hasty' => strays' = 0
  <2> SUFFICES ASSUME ~ hasty PROVE strays' = 0
    BY <1>0
  <2>1. strays = 0 /\ rules = {}
    BY <1>0
  <2> QED
    BY <1>0, <2>1, FS_EmptySet
<1> QED
  BY <1>0, <1>1, <1>2, <1>3, <1>4 DEF WaitGroupCounts

LEMMA StrayKeeps == ASSUME ReadModelInv, FinishStray PROVE ReadModelInv'
<1> USE DEF ReadModelInv
<1>0. /\ strays > 0 /\ strays' = strays - 1 /\ wg' = wg - 1
      /\ UNCHANGED <<stored, view, handled, found, rules, request, closing, history>>
  BY DEF FinishStray
<1>1. hasty /\ strays \in Nat /\ wg \in Int
  BY <1>0 DEF TypeOK
<1>2. TypeOK'
  <2>1. strays' \in Nat /\ wg' \in Int
    BY <1>0, <1>1
  <2> QED
    BY <1>0, <2>1 DEF TypeOK, stored, history
<1>3. InOrder'
  BY <1>0 DEF InOrder, Pending, stored
<1> QED
  BY <1>0, <1>1, <1>2, <1>3 DEF WaitGroupCounts, history

LEMMA StepKeeps == ReadModelInv /\ [Next]_vars => ReadModelInv'
<1> SUFFICES ASSUME ReadModelInv, [Next]_vars PROVE ReadModelInv'
  OBVIOUS
<1>1. CASE Requests
  BY <1>1, RequestsKeep, BeginResetKeeps DEF Requests
<1>2. CASE ProcessCase
  BY <1>2, ProcessKeeps
<1>3. CASE Handling
  BY <1>3, FindKeeps, SaveInTransactionKeeps, SaveInCasesKeeps, IndexKeeps DEF Handling
<1>4. CASE ApplyRules
  BY <1>4, ReadCaseKeeps, FinishKeeps, ApplyLawKeeps DEF ApplyRules
<1>5. CASE EndReset
  BY <1>5, EndResetKeeps
<1>6. CASE FinishStray
  BY <1>6, StrayKeeps
<1>7. CASE UNCHANGED vars
  BY <1>7 DEF vars, stored, history, ReadModelInv, TypeOK, InOrder, Pending, WaitGroupCounts
<1> QED
  BY <1>1, <1>2, <1>3, <1>4, <1>5, <1>6, <1>7 DEF Next

-----------------------------------------------------------------------------

\* The inductive invariant: types, the order of handlers, and what a reset that is not
\* hasty relies on.
THEOREM ReadModelInvariantHolds == Spec => []ReadModelInv
<1>1. Init => ReadModelInv
  BY InitHolds
<1>2. ReadModelInv /\ [Next]_vars => ReadModelInv'
  BY StepKeeps
<1> QED
  BY <1>1, <1>2, PTL DEF Spec

\* Every variable keeps its type: what projectors and laws save are cases and events.
THEOREM ReadModelTypeCorrect == Spec => []TypeOK
<1>1. ReadModelInv => TypeOK
  BY DEF ReadModelInv
<1> QED
  BY <1>1, ReadModelInvariantHolds, PTL

\* Wait, Close and Reset wait for the runs of ApplyRules that there are, none counted
\* twice and none left out, as long as no reset was hasty.
THEOREM WaitGroupCorrect == Spec => []WaitGroupCounts
<1>1. ReadModelInv => WaitGroupCounts
  BY DEF ReadModelInv
<1> QED
  BY <1>1, ReadModelInvariantHolds, PTL

-----------------------------------------------------------------------------
(* Coming to rest                                                           *)

LEMMA OneCounts == \A b : One(b) \in {0, 1} /\ (b => One(b) = 1) /\ (~ b => One(b) = 0)
  BY DEF One

\* Of two sets that differ in an element each.
LEMMA CountsDiffer ==
  ASSUME NEW A, IsFiniteSet(A), NEW B, NEW x, NEW y, A \ {x} = B \ {y}
  PROVE  /\ Cardinality(A) \in Nat /\ Cardinality(B) \in Nat
         /\ Cardinality(A) - One(x \in A) = Cardinality(B) - One(y \in B)
<1> DEFINE C == A \ {x}
<1>1. IsFiniteSet(C) /\ Cardinality(C) \in Nat
  BY FS_RemoveElement, FS_CardinalityType
<1>2. ASSUME NEW S, NEW z, S \ {z} = C
      PROVE  Cardinality(S) \in Nat /\ Cardinality(S) - One(z \in S) = Cardinality(C)
  <2>1. CASE z \in S
    <3>1. S = C \cup {z} /\ z \notin C
      BY <1>2, <2>1
    <3>2. Cardinality(S) = Cardinality(C) + 1
      BY <1>1, <3>1, FS_AddElement
    <3> HIDE DEF C
    <3> QED
      BY <1>1, <2>1, <3>2 DEF One
  <2>2. CASE z \notin S
    <3>1. S = C
      BY <1>2, <2>2
    <3> HIDE DEF C
    <3> QED
      BY <1>1, <2>2, <3>1 DEF One
  <2> QED
    BY <2>1, <2>2
<1>3. Cardinality(A) \in Nat /\ Cardinality(A) - One(x \in A) = Cardinality(C)
  BY <1>2
<1>4. Cardinality(B) \in Nat /\ Cardinality(B) - One(y \in B) = Cardinality(C)
  BY <1>2
<1> HIDE DEF C
<1> QED
  BY <1>3, <1>4

\* Each number that StepsToRest adds up is a natural one.
LEMMA Counted ==
  ASSUME ReadModelInv
  PROVE  /\ Len(log) \in Nat /\ \A h \in Handlers : handled[h] \in Nat /\ handled[h] <= Len(log)
         /\ IsFiniteSet(RejectionsWaiting) /\ Cardinality(RejectionsWaiting) \in Nat
         /\ \A law : IsFiniteSet(Wanting(law)) /\ Cardinality(Wanting(law)) \in Nat
         /\ IsFiniteSet(HavingRead) /\ Cardinality(HavingRead) \in Nat
         /\ IsFiniteSet(rules) /\ Cardinality(rules) \in Nat /\ strays \in Nat
         /\ "transaction" \in Handlers /\ "cases" \in Handlers /\ "indexer" \in Handlers
         /\ HandlerSteps("transaction") \in Nat /\ HandlerSteps("cases") \in Nat
<1>1. /\ Len(log) \in Nat /\ \A h \in Handlers : handled[h] \in Nat /\ handled[h] <= Len(log)
      /\ "transaction" \in Handlers /\ "cases" \in Handlers /\ "indexer" \in Handlers
      /\ "transaction" \in Projectors /\ "cases" \in Projectors
  BY DEF ReadModelInv, TypeOK, InOrder, Handlers, Projectors
<1>2. IsFiniteSet(RejectionsWaiting) /\ Cardinality(RejectionsWaiting) \in Nat
  <2>1. Number("transaction") \in Int /\ RejectionsWaiting \in SUBSET (Number("transaction")..Len(log))
    BY <1>1 DEF RejectionsWaiting, Number
  <2>2. IsFiniteSet(Number("transaction")..Len(log))
    BY <1>1, <2>1, FS_Interval
  <2>3. IsFiniteSet(RejectionsWaiting)
    BY <2>1, <2>2, FS_Subset
  <2> QED
    BY <2>3, FS_CardinalityType
<1>3. \A S \in SUBSET rules : IsFiniteSet(S) /\ Cardinality(S) \in Nat
  BY FS_Subset, FS_CardinalityType DEF ReadModelInv
<1>4. rules \in SUBSET rules /\ HavingRead \in SUBSET rules /\ \A law : Wanting(law) \in SUBSET rules
  BY DEF HavingRead, Wanting
<1>5. ASSUME NEW h \in Projectors, h \in Handlers PROVE HandlerSteps(h) \in Nat
  BY <1>1, <1>5 DEF HandlerSteps, Waiting, One, ReadModelInv, InOrder, Pending
<1> QED
  BY <1>1, <1>2, <1>3, <1>4, <1>5 DEF ReadModelInv, TypeOK

\* The laws that have read the case are among those that have not answered.
LEMMA LawStepsCounted ==
  ASSUME ReadModelInv, ReadToRule
  PROVE  LawSteps \in Nat /\ LawSteps >= Cardinality(rules)
<1> DEFINE B == Wanting("bezwaar")
           C == Wanting("beroep")
<1>1. HavingRead \subseteq B \cup C
  <2> SUFFICES ASSUME NEW r \in HavingRead PROVE r \in B \cup C
    OBVIOUS
  <2>1. r \in rules /\ r.todo # {} /\ r.todo \subseteq Laws
    BY DEF HavingRead, ReadToRule, ReadModelInv, TypeOK
  <2> QED
    BY <2>1 DEF Wanting, Laws
<1>2. /\ IsFiniteSet(B \cup C) /\ Cardinality(B \cup C) \in Nat /\ Cardinality(B \cap C) \in Nat
      /\ Cardinality(B \cup C) = Cardinality(B) + Cardinality(C) - Cardinality(B \cap C)
  BY Counted, FS_Union, FS_Intersection, FS_CardinalityType
<1>3. Cardinality(HavingRead) <= Cardinality(B \cup C)
  BY <1>1, <1>2, FS_Subset
<1>4. /\ Cardinality(B) \in Nat /\ Cardinality(C) \in Nat
      /\ Cardinality(HavingRead) \in Nat /\ Cardinality(rules) \in Nat
  BY Counted
<1>5. LawSteps = 7 * (Cardinality(B) + Cardinality(C)) - Cardinality(HavingRead) + Cardinality(rules)
  BY DEF LawSteps
<1> HIDE DEF B, C
<1> QED
  BY <1>2, <1>3, <1>4, <1>5

LEMMA StepsToRestCounted == ReadModelInv /\ ReadToRule => StepsToRest \in Nat
<1> SUFFICES ASSUME ReadModelInv, ReadToRule PROVE StepsToRest \in Nat
  OBVIOUS
<1>1. One(request = "process") \in Nat /\ One(closing) \in Nat
  BY DEF One
<1>2. Waiting("indexer") \in Nat
  <2>1. handled["indexer"] \in Nat /\ handled["indexer"] <= Len(log) /\ Len(log) \in Nat
    BY Counted
  <2> QED
    BY <2>1 DEF Waiting
<1>3. /\ HandlerSteps("transaction") \in Nat /\ HandlerSteps("cases") \in Nat
      /\ Cardinality(RejectionsWaiting) \in Nat /\ LawSteps \in Nat /\ strays \in Nat
  BY Counted, LawStepsCounted
<1> QED
  BY <1>1, <1>2, <1>3 DEF StepsToRest

\* An event is taken by three handlers, two of which find and save.
LEMMA PublishCosts ==
  ASSUME ReadModelInv, NEW e \in Event, Publish(e), UNCHANGED <<handled, found>>
  PROVE  /\ HandlerSteps("transaction")' = HandlerSteps("transaction") + 2
         /\ HandlerSteps("cases")' = HandlerSteps("cases") + 2
         /\ Waiting("indexer")' = Waiting("indexer") + 1
         /\ Cardinality(RejectionsWaiting)' = Cardinality(RejectionsWaiting) + One(IsRejection(e))
<1>1. Len(log') = Len(log) + 1 /\ log' = Append(log, e) /\ log \in Seq(Event)
  BY PublishTyped DEF ReadModelInv, Publish, TypeOK
<1>0. Len(log) \in Nat /\ \A h \in Handlers : handled[h] \in Nat
  BY Counted
<1>2. ASSUME NEW h \in Handlers PROVE Waiting(h)' = Waiting(h) + 1 /\ Waiting(h) \in Int
  BY <1>0, <1>1 DEF Waiting
<1>3. ASSUME NEW h \in Projectors, h \in Handlers PROVE HandlerSteps(h)' = HandlerSteps(h) + 2
  <2>1. Waiting(h)' = Waiting(h) + 1 /\ Waiting(h) \in Int
    BY <1>2, <1>3
  <2> QED
    BY <2>1 DEF HandlerSteps, One
<1>4. Cardinality(RejectionsWaiting)' = Cardinality(RejectionsWaiting) + One(IsRejection(e))
  <2> DEFINE new == Len(log) + 1
  <2>1. new \notin RejectionsWaiting
    BY Counted DEF RejectionsWaiting
  <2>2. RejectionsWaiting' \ {new} = RejectionsWaiting \ {new} /\ (new \in RejectionsWaiting' <=> IsRejection(e))
    <3>1. Number("transaction")' = Number("transaction") /\ Number("transaction") \in 1..new
      BY Counted DEF Number
    <3>2. \A i \in 1..Len(log) : log'[i] = log[i]
      BY <1>1
    <3>3. log'[new] = e
      BY <1>1
    <3>4. ASSUME NEW i PROVE i \in RejectionsWaiting' /\ i # new <=> i \in RejectionsWaiting /\ i # new
      BY <1>0, <1>1, <3>1, <3>2 DEF RejectionsWaiting, IsRejection
    <3>5. new \in RejectionsWaiting' <=> IsRejection(e)
      BY <1>0, <1>1, <3>1, <3>3 DEF RejectionsWaiting, IsRejection
    <3> QED
      BY <3>4, <3>5
  <2> HIDE DEF new
  <2> DEFINE A == RejectionsWaiting
             B == RejectionsWaiting'
  <2>3. IsFiniteSet(A) /\ A \ {new} = B \ {new}
    BY <2>2, Counted
  <2>4. /\ Cardinality(A) \in Nat /\ Cardinality(B) \in Nat
        /\ Cardinality(A) - One(new \in A) = Cardinality(B) - One(new \in B)
    <3> HIDE DEF A, B
    <3> QED
      BY <2>3, CountsDiffer
  <2>5. One(new \in A) = 0 /\ One(new \in B) = One(IsRejection(e))
    BY <2>1, <2>2 DEF One
  <2>6. Cardinality(B) = Cardinality(A) + One(IsRejection(e))
    <3>1. One(IsRejection(e)) \in {0, 1}
      BY DEF One
    <3> HIDE DEF A, B
    <3> QED
      BY <2>4, <2>5, <3>1
  <2> QED
    BY <2>6
<1> QED
  BY <1>2, <1>3, <1>4, Counted DEF Projectors

\* A run of ApplyRules begins, goes on or ends.
LEMMA RunChanged ==
  ASSUME ReadModelInv, NEW r, NEW next, rules \ {r} = rules' \ {next}
  PROVE  /\ \A law \in Laws :
              Cardinality(Wanting(law))' - One(next \in rules' /\ law \in next.todo)
                = Cardinality(Wanting(law)) - One(r \in rules /\ law \in r.todo)
         /\ Cardinality(HavingRead)' - One(next \in rules' /\ next.read # <<>>)
              = Cardinality(HavingRead) - One(r \in rules /\ r.read # <<>>)
         /\ Cardinality(rules)' - One(next \in rules') = Cardinality(rules) - One(r \in rules)
         /\ \A law \in Laws : Cardinality(Wanting(law))' \in Nat
         /\ Cardinality(HavingRead)' \in Nat /\ Cardinality(rules)' \in Nat
<1>1. ASSUME NEW law \in Laws
      PROVE  /\ Cardinality(Wanting(law))' \in Nat
             /\ Cardinality(Wanting(law))' - One(next \in rules' /\ law \in next.todo)
                  = Cardinality(Wanting(law)) - One(r \in rules /\ law \in r.todo)
  <2> DEFINE A == Wanting(law)
             B == Wanting(law)'
  <2>1. IsFiniteSet(A) /\ A \ {r} = B \ {next}
    BY Counted DEF Wanting
  <2>2. (r \in A <=> r \in rules /\ law \in r.todo) /\ (next \in B <=> next \in rules' /\ law \in next.todo)
    BY DEF Wanting
  <2>3. One(r \in A) = One(r \in rules /\ law \in r.todo) /\ One(next \in B) = One(next \in rules' /\ law \in next.todo)
    BY <2>2 DEF One
  <2>4. Cardinality(B) \in Nat /\ Cardinality(A) - One(r \in A) = Cardinality(B) - One(next \in B)
    <3> HIDE DEF A, B
    <3> QED
      BY <2>1, CountsDiffer
  <2> QED
    BY <2>3, <2>4
<1>2. /\ Cardinality(HavingRead)' \in Nat
      /\ Cardinality(HavingRead)' - One(next \in rules' /\ next.read # <<>>)
           = Cardinality(HavingRead) - One(r \in rules /\ r.read # <<>>)
  <2> DEFINE A == HavingRead
             B == HavingRead'
  <2>1. IsFiniteSet(A) /\ A \ {r} = B \ {next}
    BY Counted DEF HavingRead
  <2>2. (r \in A <=> r \in rules /\ r.read # <<>>) /\ (next \in B <=> next \in rules' /\ next.read # <<>>)
    BY DEF HavingRead
  <2>3. One(r \in A) = One(r \in rules /\ r.read # <<>>) /\ One(next \in B) = One(next \in rules' /\ next.read # <<>>)
    BY <2>2 DEF One
  <2>4. Cardinality(B) \in Nat /\ Cardinality(A) - One(r \in A) = Cardinality(B) - One(next \in B)
    <3> HIDE DEF A, B
    <3> QED
      BY <2>1, CountsDiffer
  <2> QED
    BY <2>3, <2>4
<1>3. /\ Cardinality(rules)' \in Nat
      /\ Cardinality(rules)' - One(next \in rules') = Cardinality(rules) - One(r \in rules)
  BY Counted, CountsDiffer
<1> QED
  BY <1>1, <1>2, <1>3

\* What a run of ApplyRules adds to LawSteps, while it is there.
LEMMA LawStepsChanged ==
  ASSUME ReadModelInv, NEW r, NEW next, rules \ {r} = rules' \ {next}
  PROVE  LawSteps' = LawSteps
           - (7 * (One(r \in rules /\ "bezwaar" \in r.todo) + One(r \in rules /\ "beroep" \in r.todo))
              - One(r \in rules /\ r.read # <<>>) + One(r \in rules))
           + (7 * (One(next \in rules' /\ "bezwaar" \in next.todo) + One(next \in rules' /\ "beroep" \in next.todo))
              - One(next \in rules' /\ next.read # <<>>) + One(next \in rules'))
<1> DEFINE B == Cardinality(Wanting("bezwaar"))
           C == Cardinality(Wanting("beroep"))
           H == Cardinality(HavingRead)
           N == Cardinality(rules)
           BB == Cardinality(Wanting("bezwaar"))'
           CC == Cardinality(Wanting("beroep"))'
           HH == Cardinality(HavingRead)'
           NN == Cardinality(rules)'
           b == One(r \in rules /\ "bezwaar" \in r.todo)
           c == One(r \in rules /\ "beroep" \in r.todo)
           h == One(r \in rules /\ r.read # <<>>)
           n == One(r \in rules)
           bb == One(next \in rules' /\ "bezwaar" \in next.todo)
           cc == One(next \in rules' /\ "beroep" \in next.todo)
           hh == One(next \in rules' /\ next.read # <<>>)
           nn == One(next \in rules')
<1>1. B \in Nat /\ C \in Nat /\ H \in Nat /\ N \in Nat
  BY Counted
<1>2. BB \in Nat /\ CC \in Nat /\ HH \in Nat /\ NN \in Nat
  BY RunChanged DEF Laws
<1>3. BB - bb = B - b /\ CC - cc = C - c /\ HH - hh = H - h /\ NN - nn = N - n
  BY RunChanged DEF Laws
<1>4. /\ b \in Int /\ c \in Int /\ h \in Int /\ n \in Int
      /\ bb \in Int /\ cc \in Int /\ hh \in Int /\ nn \in Int
  BY DEF One
<1>5. LawSteps = 7 * (B + C) - H + N /\ LawSteps' = 7 * (BB + CC) - HH + NN
  BY DEF LawSteps
<1>6. LawSteps' = LawSteps - (7 * (b + c) - h + n) + (7 * (bb + cc) - hh + nn)
  <2>1. ASSUME NEW B1 \in Nat, NEW C1 \in Nat, NEW H1 \in Nat, NEW N1 \in Nat,
               NEW B2 \in Nat, NEW C2 \in Nat, NEW H2 \in Nat, NEW N2 \in Nat,
               NEW b1 \in Int, NEW c1 \in Int, NEW h1 \in Int, NEW n1 \in Int,
               NEW b2 \in Int, NEW c2 \in Int, NEW h2 \in Int, NEW n2 \in Int,
               B2 - b2 = B1 - b1, C2 - c2 = C1 - c1, H2 - h2 = H1 - h1, N2 - n2 = N1 - n1
        PROVE  7 * (B2 + C2) - H2 + N2 = 7 * (B1 + C1) - H1 + N1
                 - (7 * (b1 + c1) - h1 + n1) + (7 * (b2 + c2) - h2 + n2)
    BY <2>1
  <2> HIDE DEF B, C, H, N, BB, CC, HH, NN, b, c, h, n, bb, cc, hh, nn
  <2>2. 7 * (BB + CC) - HH + NN = 7 * (B + C) - H + N - (7 * (b + c) - h + n) + (7 * (bb + cc) - hh + nn)
    BY <1>1, <1>2, <1>3, <1>4, <2>1
  <2>3. LawSteps \in Int
    BY <1>1, <1>5
  <2>4. LawSteps' = LawSteps - (7 * (b + c) - h + n) + (7 * (bb + cc) - hh + nn)
    BY <1>1, <1>2, <1>4, <1>5, <2>2, <2>3
  <2> QED
    BY <2>4
<1> QED
  BY <1>6

\* What is left to the laws when one reads the case, answers, or the run ends.
LEMMA LawStepsLeft ==
  ASSUME ReadModelInv, ReadToRule, NEW r \in rules
  PROVE  /\ FinishRules(r) => LawSteps' \in Int /\ LawSteps' < LawSteps
         /\ ReadCase(r) => LawSteps' = LawSteps - 1
         /\ \A law \in Laws : ApplyLaw(r, law) => LawSteps' = LawSteps - 6
<1> DEFINE b == One(r \in rules /\ "bezwaar" \in r.todo)
           c == One(r \in rules /\ "beroep" \in r.todo)
           h == One(r \in rules /\ r.read # <<>>)
<1>1. LawSteps \in Int
  BY LawStepsCounted
<1>2. /\ r.event \in Nat /\ r.todo \subseteq Laws /\ (r.read # <<>> => r.todo # {})
      /\ r = [event |-> r.event, todo |-> r.todo, read |-> r.read]
      /\ \A q \in rules : q.event = r.event => q = r
  BY DEF ReadModelInv, TypeOK, InOrder, ReadToRule
<1>3. b \in {0, 1} /\ c \in {0, 1} /\ h \in {0, 1} /\ One(r \in rules) = 1
  BY DEF One
<1>4. ASSUME FinishRules(r) PROVE LawSteps' \in Int /\ LawSteps' < LawSteps
  <2>1. rules \ {r} = rules' \ {r} /\ r \notin rules'
    BY <1>4 DEF FinishRules
  <2>2. /\ One(r \in rules') = 0 /\ One(r \in rules' /\ r.read # <<>>) = 0
        /\ One(r \in rules' /\ "bezwaar" \in r.todo) = 0 /\ One(r \in rules' /\ "beroep" \in r.todo) = 0
    BY <2>1 DEF One
  <2>3. h = 1 => b + c >= 1
    BY <1>2 DEF One, Laws
  <2>4. LawSteps' = LawSteps - (7 * (b + c) - h + One(r \in rules))
                    + (7 * (One(r \in rules' /\ "bezwaar" \in r.todo) + One(r \in rules' /\ "beroep" \in r.todo))
                       - One(r \in rules' /\ r.read # <<>>) + One(r \in rules'))
    BY <2>1, LawStepsChanged
  <2> HIDE DEF b, c, h
  <2>5. LawSteps' = LawSteps - (7 * (b + c) - h + 1) + (7 * (0 + 0) - 0 + 0)
    BY <1>3, <2>2, <2>4
  <2> QED
    BY <1>1, <1>3, <2>3, <2>5
<1>5. ASSUME ReadCase(r) PROVE LawSteps' = LawSteps - 1
  <2> DEFINE next == [r EXCEPT !.read = <<view.case>>]
             bb == One(next \in rules' /\ "bezwaar" \in next.todo)
             cc == One(next \in rules' /\ "beroep" \in next.todo)
             hh == One(next \in rules' /\ next.read # <<>>)
  <2>1. next.event = r.event /\ next.todo = r.todo /\ next.read # <<>> /\ r.read = <<>>
    BY <1>2, <1>5 DEF ReadCase
  <2>2. next \in rules' /\ rules' = (rules \ {r}) \cup {next}
    BY <1>5 DEF ReadCase
  <2>3. next \notin rules \ {r}
    BY <1>2, <2>1
  <2>4. bb = b /\ cc = c /\ hh = 1 /\ h = 0 /\ One(next \in rules') = 1
    BY <2>1, <2>2 DEF One
  <2>5. rules \ {r} = rules' \ {next}
    BY <2>2, <2>3
  <2>6. LawSteps' = LawSteps - (7 * (b + c) - h + One(r \in rules)) + (7 * (bb + cc) - hh + One(next \in rules'))
    <3> HIDE DEF next
    <3> QED
      BY <2>5, LawStepsChanged
  <2> HIDE DEF b, c, h, bb, cc, hh
  <2>7. LawSteps' = LawSteps - (7 * (b + c) - 0 + 1) + (7 * (b + c) - 1 + 1)
    BY <1>3, <2>4, <2>6
  <2> QED
    BY <1>1, <1>3, <2>7
<1>6. ASSUME NEW law \in Laws, ApplyLaw(r, law) PROVE LawSteps' = LawSteps - 6
  <2> DEFINE next == [r EXCEPT !.todo = @ \ {law}, !.read = <<>>]
             bb == One(next \in rules' /\ "bezwaar" \in next.todo)
             cc == One(next \in rules' /\ "beroep" \in next.todo)
             hh == One(next \in rules' /\ next.read # <<>>)
  <2>1. /\ next.event = r.event /\ next.todo = r.todo \ {law} /\ next.read = <<>>
        /\ law \in r.todo /\ r.read # <<>>
    BY <1>2, <1>6 DEF ApplyLaw
  <2>2. next \in rules' /\ rules' = (rules \ {r}) \cup {next}
    BY <1>6 DEF ApplyLaw
  <2>3. next \notin rules \ {r}
    BY <1>2, <2>1
  <2>4. hh = 0 /\ h = 1 /\ One(next \in rules') = 1
    BY <2>1, <2>2 DEF One
  <2>8. bb + cc = b + c - 1
    BY <2>1, <2>2 DEF One, Laws
  <2>5. rules \ {r} = rules' \ {next}
    BY <2>2, <2>3
  <2>9. bb \in {0, 1} /\ cc \in {0, 1}
    BY DEF One
  <2>6. LawSteps' = LawSteps - (7 * (b + c) - h + One(r \in rules)) + (7 * (bb + cc) - hh + One(next \in rules'))
    <3> HIDE DEF next
    <3> QED
      BY <2>5, LawStepsChanged
  <2> HIDE DEF b, c, h, bb, cc, hh
  <2>7. LawSteps' = LawSteps - (7 * (b + c) - 1 + 1) + (7 * (b + c - 1) - 0 + 1)
    BY <1>3, <2>4, <2>6, <2>8
  <2> QED
    BY <1>1, <1>3, <2>7
<1> QED
  BY <1>4, <1>5, <1>6

LEMMA ReadToRuleKeeps == ReadModelInv /\ ReadToRule /\ [Next]_vars => ReadToRule'
<1> SUFFICES ASSUME ReadModelInv, ReadToRule, [Next]_vars PROVE ReadToRule'
  OBVIOUS
<1>1. CASE rules' \subseteq rules
  BY <1>1 DEF ReadToRule
<1>2. ASSUME NEW next, rules' \subseteq rules \cup {next}, next.read # <<>> => next.todo # {}
      PROVE  ReadToRule'
  BY <1>2 DEF ReadToRule
<1>3. \A r \in rules : r \in [event : Nat, todo : SUBSET Laws, read : Seq(Case)]
  BY DEF ReadModelInv, TypeOK
<1>4. CASE SaveInTransaction
  <2> DEFINE next == [event |-> Number("transaction"), todo |-> Laws, read |-> <<>>]
  <2>1. rules' \subseteq rules \cup {next}
    BY <1>4 DEF SaveInTransaction, Execute
  <2> QED
    BY <1>2, <2>1
<1>5. ASSUME NEW r \in rules, ReadCase(r) PROVE ReadToRule'
  <2> DEFINE next == [r EXCEPT !.read = <<view.case>>]
  <2>1. rules' \subseteq rules \cup {next} /\ next.todo # {}
    BY <1>3, <1>5 DEF ReadCase
  <2> HIDE DEF next
  <2> QED
    BY <1>2, <2>1
<1>6. ASSUME NEW r \in rules, NEW law \in Laws, ApplyLaw(r, law) PROVE ReadToRule'
  <2> DEFINE next == [r EXCEPT !.todo = @ \ {law}, !.read = <<>>]
  <2>1. rules' \subseteq rules \cup {next} /\ next.read = <<>>
    BY <1>3, <1>6 DEF ApplyLaw
  <2> HIDE DEF next
  <2> QED
    BY <1>2, <2>1
<1>7. ASSUME NEW r \in rules, FinishRules(r) PROVE ReadToRule'
  BY <1>1, <1>7 DEF FinishRules
<1>8. CASE Requests \/ ProcessCase \/ EndReset \/ FinishStray \/ UNCHANGED vars
  BY <1>1, <1>8 DEF Requests, SubmitCase, CompleteManualReview, ObjectCase, AddClaimToCase,
       BeginReset, Request, ProcessCase, EndReset, FinishStray, vars
<1>9. CASE (\E h \in Projectors : Find(h)) \/ SaveInCases \/ IndexEvent
  BY <1>1, <1>9 DEF Find, SaveInCases, IndexEvent
<1> QED
  BY <1>4, <1>5, <1>6, <1>7, <1>8, <1>9 DEF Next, Handling, ApplyRules

\* Handlers have as much to do as before when no event is published and none is handled.
LEMMA HandlersWait ==
  ASSUME UNCHANGED <<log, handled, found>>
  PROVE  /\ HandlerSteps("transaction")' = HandlerSteps("transaction")
         /\ HandlerSteps("cases")' = HandlerSteps("cases")
         /\ Waiting("indexer")' = Waiting("indexer")
         /\ Cardinality(RejectionsWaiting)' = Cardinality(RejectionsWaiting)
  BY DEF HandlerSteps, Waiting, RejectionsWaiting, Number

LEMMA LawsWait == ASSUME UNCHANGED rules PROVE LawSteps' = LawSteps
  BY DEF LawSteps, Wanting, HavingRead

\* All that is added up is a number.
LEMMA StepsAddUp ==
  ASSUME ReadModelInv, ReadToRule
  PROVE  /\ HandlerSteps("transaction") \in Nat /\ HandlerSteps("cases") \in Nat
         /\ Waiting("indexer") \in Nat /\ Cardinality(RejectionsWaiting) \in Nat
         /\ LawSteps \in Nat /\ strays \in Nat /\ StepsToRest \in Nat
         /\ One(request = "process") \in {0, 1} /\ One(closing) \in {0, 1}
<1>1. handled["indexer"] \in Nat /\ handled["indexer"] <= Len(log) /\ Len(log) \in Nat
  BY Counted
<1>2. Waiting("indexer") \in Nat
  BY <1>1 DEF Waiting
<1>3. LawSteps \in Nat
  BY LawStepsCounted
<1>4. StepsToRest \in Nat
  BY StepsToRestCounted
<1> QED
  BY <1>2, <1>3, <1>4, Counted, OneCounts

\* A request costs what its event does: five steps, the laws for a rejection, and the
\* second command of SubmitCase.
LEMMA RequestCosts ==
  ASSUME ReadModelInv, ReadToRule, NEW e \in Event, NEW then \in {"none", "process"},
         IsRejection(e) => then = "none", Request(e, then)
  PROVE  StepsToRest' <= StepsToRest + 20
<1>1. Publish(e) /\ UNCHANGED <<handled, found, rules, strays, closing>>
  BY DEF Request
<1>2. /\ HandlerSteps("transaction")' = HandlerSteps("transaction") + 2
      /\ HandlerSteps("cases")' = HandlerSteps("cases") + 2
      /\ Waiting("indexer")' = Waiting("indexer") + 1
      /\ Cardinality(RejectionsWaiting)' = Cardinality(RejectionsWaiting) + One(IsRejection(e))
  BY <1>1, PublishCosts
<1>3. LawSteps' = LawSteps
  BY <1>1, LawsWait
<1>4. /\ One(request = "process") = 0 /\ One(closing') = One(closing)
      /\ One(request' = "process") \in {0, 1} /\ One(IsRejection(e)) \in {0, 1}
      /\ One(request' = "process") + One(IsRejection(e)) <= 1
  BY <1>1 DEF Request, One
<1> QED
  BY <1>1, <1>2, <1>3, <1>4, StepsAddUp DEF StepsToRest

LEMMA BeginResetCosts ==
  ASSUME ReadModelInv, ReadToRule, BeginReset
  PROVE  StepsToRest' <= StepsToRest + 20
<1>1. UNCHANGED <<log, handled, found, rules, strays, request>> /\ One(closing)' = 1 /\ One(closing) = 0
  BY DEF BeginReset, stored, One
<1> QED
  BY <1>1, HandlersWait, LawsWait, StepsAddUp DEF StepsToRest

LEMMA ProcessIsStep ==
  ASSUME ReadModelInv, ReadToRule, ProcessCase
  PROVE  StepsToRest' < StepsToRest
<1>1. /\ One(request = "process") = 1 /\ One(request = "process")' = 0
      /\ UNCHANGED <<handled, found, rules, strays, closing>>
  BY DEF ProcessCase, One
<1>2. CASE UNCHANGED stored
  <2>1. UNCHANGED <<log, handled, found>>
    BY <1>1, <1>2 DEF stored
  <2> QED
    BY <1>1, <2>1, HandlersWait, LawsWait, StepsAddUp DEF StepsToRest
<1>3. ASSUME NEW type \in {"AddedToManualReview", "AutomaticallyDecided"}, Publish([type |-> type])
      PROVE  StepsToRest' < StepsToRest
  <2> DEFINE e == [type |-> type]
  <2>1. e \in Event /\ One(IsRejection(e)) = 0
    BY <1>3 DEF Event, IsRejection, One
  <2> HIDE DEF e
  <2>2. /\ HandlerSteps("transaction")' = HandlerSteps("transaction") + 2
        /\ HandlerSteps("cases")' = HandlerSteps("cases") + 2
        /\ Waiting("indexer")' = Waiting("indexer") + 1
        /\ Cardinality(RejectionsWaiting)' = Cardinality(RejectionsWaiting) + One(IsRejection(e))
    BY <1>1, <1>3, <2>1, PublishCosts DEF e
  <2>3. LawSteps' = LawSteps
    BY <1>1, LawsWait
  <2> QED
    BY <1>1, <2>1, <2>2, <2>3, StepsAddUp DEF StepsToRest
<1> QED
  BY <1>2, <1>3 DEF ProcessCase

LEMMA FindIsStep ==
  ASSUME ReadModelInv, ReadToRule, NEW h \in Projectors, Find(h)
  PROVE  StepsToRest' < StepsToRest
<1>0. UNCHANGED <<strays, request, closing>>
  BY DEF Find
<1>1. /\ UNCHANGED <<log, handled, rules, strays, request, closing>>
      /\ found[h] = <<>> /\ found' = [found EXCEPT ![h] = <<view>>]
      /\ found \in [Projectors -> Seq(Entry \cup {Null})]
  BY DEF Find, stored, ReadModelInv, TypeOK
<1>2. One(found[h] # <<>>) = 0 /\ One(found[h] # <<>>)' = 1
  BY <1>1 DEF One
<1>3. \A p \in Projectors \ {h} : One(found[p] # <<>>)' = One(found[p] # <<>>)
  BY <1>1
<1>4. ASSUME NEW p \in Handlers PROVE Waiting(p) \in Nat /\ Waiting(p)' = Waiting(p)
  <2>1. handled[p] \in Nat /\ handled[p] <= Len(log) /\ Len(log) \in Nat
    BY Counted
  <2> QED
    BY <1>1, <2>1 DEF Waiting
<1>5. HandlerSteps(h)' = HandlerSteps(h) - 1
  BY <1>2, <1>4 DEF HandlerSteps, Handlers
<1>6. \A p \in Projectors \ {h} : HandlerSteps(p)' = HandlerSteps(p)
  BY <1>3, <1>4 DEF HandlerSteps, Handlers
<1>7. Waiting("indexer")' = Waiting("indexer") /\ Cardinality(RejectionsWaiting)' = Cardinality(RejectionsWaiting)
  BY <1>1 DEF Waiting, RejectionsWaiting, Number
<1>8. LawSteps' = LawSteps
  BY <1>1, LawsWait
<1>9. CASE h = "transaction"
  <2>1. HandlerSteps("transaction")' = HandlerSteps("transaction") - 1 /\ HandlerSteps("cases")' = HandlerSteps("cases")
    BY <1>5, <1>6, <1>9 DEF Projectors
  <2> QED
    BY <1>0, <1>7, <1>8, <2>1, StepsAddUp DEF StepsToRest
<1>10. CASE h = "cases"
  <2>1. HandlerSteps("transaction")' = HandlerSteps("transaction") /\ HandlerSteps("cases")' = HandlerSteps("cases") - 1
    BY <1>5, <1>6, <1>10 DEF Projectors
  <2> QED
    BY <1>0, <1>7, <1>8, <2>1, StepsAddUp DEF StepsToRest
<1> QED
  BY <1>9, <1>10 DEF Projectors

\* A projector that saves is done with its event.
LEMMA DoneIsLess ==
  ASSUME ReadModelInv, NEW h \in Projectors, found[h] # <<>>, Done(h)
  PROVE  /\ HandlerSteps(h)' = HandlerSteps(h) - 1
         /\ \A p \in Projectors \ {h} : HandlerSteps(p)' = HandlerSteps(p)
         /\ Waiting("indexer")' = Waiting("indexer")
         /\ UNCHANGED <<log, strays, request, closing>>
<1>1. /\ UNCHANGED <<log, strays, request, closing>>
      /\ found' = [found EXCEPT ![h] = <<>>] /\ handled' = [handled EXCEPT ![h] = @ + 1]
      /\ found \in [Projectors -> Seq(Entry \cup {Null})] /\ handled \in [Handlers -> Nat]
  BY DEF Done, stored, ReadModelInv, TypeOK
<1>2. One(found[h] # <<>>) = 1 /\ One(found[h] # <<>>)' = 0
  BY <1>1 DEF One
<1>3. h \in Handlers /\ "indexer" \in Handlers /\ "indexer" # h
  BY DEF Handlers, Projectors
<1>4. Waiting(h) \in Int /\ Waiting(h)' = Waiting(h) - 1
  <2>1. handled[h] \in Nat /\ Len(log) \in Nat /\ handled[h]' = handled[h] + 1 /\ Len(log)' = Len(log)
    BY <1>1, <1>3, Counted
  <2> QED
    BY <2>1 DEF Waiting
<1>5. HandlerSteps(h)' = HandlerSteps(h) - 1
  BY <1>2, <1>4 DEF HandlerSteps
<1>6. \A p \in Handlers \ {h} : Waiting(p)' = Waiting(p)
  BY <1>1 DEF Waiting
<1>7. \A p \in Projectors \ {h} : HandlerSteps(p)' = HandlerSteps(p)
  BY <1>1, <1>6 DEF HandlerSteps, Handlers
<1> QED
  BY <1>1, <1>3, <1>5, <1>6, <1>7

LEMMA SaveInCasesIsStep ==
  ASSUME ReadModelInv, ReadToRule, SaveInCases
  PROVE  StepsToRest' < StepsToRest
<1>1. found["cases"] # <<>> /\ Done("cases") /\ UNCHANGED rules
  BY DEF SaveInCases
<1>2. /\ HandlerSteps("cases")' = HandlerSteps("cases") - 1
      /\ HandlerSteps("transaction")' = HandlerSteps("transaction")
      /\ Waiting("indexer")' = Waiting("indexer") /\ UNCHANGED <<log, strays, request, closing>>
  BY <1>1, DoneIsLess DEF Projectors
<1>3. Cardinality(RejectionsWaiting)' = Cardinality(RejectionsWaiting)
  BY <1>1 DEF Done, stored, RejectionsWaiting, Number, Handlers, Projectors, ReadModelInv, TypeOK
<1>4. LawSteps' = LawSteps
  BY <1>1, LawsWait
<1> QED
  BY <1>2, <1>3, <1>4, StepsAddUp DEF StepsToRest

LEMMA IndexIsStep ==
  ASSUME ReadModelInv, ReadToRule, IndexEvent
  PROVE  StepsToRest' < StepsToRest
<1>1. /\ UNCHANGED <<log, found, rules, strays, request, closing>>
      /\ handled' = [handled EXCEPT !["indexer"] = @ + 1] /\ handled \in [Handlers -> Nat]
  BY DEF IndexEvent, stored, ReadModelInv, TypeOK
<1>2. handled["indexer"] \in Nat /\ Len(log) \in Nat /\ handled["indexer"]' = handled["indexer"] + 1
  BY <1>1, Counted
<1>3. Waiting("indexer") \in Int /\ Waiting("indexer")' = Waiting("indexer") - 1
  BY <1>1, <1>2 DEF Waiting
<1>4. \A p \in Projectors : handled[p]' = handled[p]
  BY <1>1 DEF Handlers, Projectors
<1>5. /\ HandlerSteps("transaction")' = HandlerSteps("transaction") /\ HandlerSteps("cases")' = HandlerSteps("cases")
      /\ Cardinality(RejectionsWaiting)' = Cardinality(RejectionsWaiting)
  BY <1>1, <1>4 DEF HandlerSteps, Waiting, RejectionsWaiting, Number, Projectors
<1>6. LawSteps' = LawSteps
  BY <1>1, LawsWait
<1> QED
  BY <1>1, <1>3, <1>5, <1>6, StepsAddUp DEF StepsToRest

\* The run that a rejection starts is a new one, with both laws to go.
LEMMA ExecuteCosts ==
  ASSUME ReadModelInv, ReadToRule, NEW e, Execute(e), IsRejection(e)
  PROVE  LawSteps' = LawSteps + 15
<1> DEFINE new == [event |-> Number("transaction"), todo |-> Laws, read |-> <<>>]
<1>1. handled["transaction"] \in Nat /\ \A r \in rules : r.event <= handled["transaction"]
  BY Counted DEF ReadModelInv, InOrder
<1>2. new \notin rules
  BY <1>1 DEF Number
<1>3. rules' = rules \cup {new} /\ new.todo = Laws /\ new.read = <<>>
  BY DEF Execute
<1> HIDE DEF new
<1>4. /\ One(new \in rules) = 0 /\ One(new \in rules /\ new.read # <<>>) = 0
      /\ One(new \in rules /\ "bezwaar" \in new.todo) = 0 /\ One(new \in rules /\ "beroep" \in new.todo) = 0
      /\ One(new \in rules') = 1 /\ One(new \in rules' /\ new.read # <<>>) = 0
      /\ One(new \in rules' /\ "bezwaar" \in new.todo) = 1 /\ One(new \in rules' /\ "beroep" \in new.todo) = 1
  BY <1>2, <1>3 DEF One, Laws
<1>5. rules \ {new} = rules' \ {new}
  BY <1>3
<1>6. LawSteps' = LawSteps - (7 * (0 + 0) - 0 + 0) + (7 * (1 + 1) - 0 + 1)
  BY <1>4, <1>5, LawStepsChanged
<1> QED
  BY <1>6, StepsAddUp

LEMMA SaveInTransactionIsStep ==
  ASSUME ReadModelInv, ReadToRule, SaveInTransaction
  PROVE  StepsToRest' < StepsToRest
<1> DEFINE n == Number("transaction")
           e == log[n]
<1>1. found["transaction"] # <<>> /\ Done("transaction")
  BY DEF SaveInTransaction
<1>2. /\ HandlerSteps("transaction")' = HandlerSteps("transaction") - 1
      /\ HandlerSteps("cases")' = HandlerSteps("cases")
      /\ Waiting("indexer")' = Waiting("indexer") /\ UNCHANGED <<log, strays, request, closing>>
  BY <1>1, DoneIsLess DEF Projectors
<1>3. /\ Cardinality(RejectionsWaiting)' \in Nat
      /\ Cardinality(RejectionsWaiting)' = Cardinality(RejectionsWaiting) - One(IsRejection(e))
  <2>1. /\ handled["transaction"] \in Nat /\ Len(log) \in Nat /\ handled["transaction"] < Len(log)
        /\ handled["transaction"]' = handled["transaction"] + 1
    BY <1>1, Counted DEF Done, ReadModelInv, TypeOK, InOrder, Pending, Projectors
  <2>2. n \in 1..Len(log) /\ Number("transaction")' = n + 1 /\ Len(log)' = Len(log)
    BY <1>2, <2>1 DEF Number
  <2>3. n \in RejectionsWaiting <=> IsRejection(e)
    BY <2>2 DEF RejectionsWaiting
  <2>4. n \notin RejectionsWaiting'
    BY <2>2 DEF RejectionsWaiting
  <2>5. RejectionsWaiting \ {n} = RejectionsWaiting' \ {n}
    <3> HIDE DEF n
    <3>1. ASSUME NEW i PROVE i \in RejectionsWaiting /\ i # n <=> i \in RejectionsWaiting' /\ i # n
      BY <1>2, <2>1, <2>2 DEF RejectionsWaiting, IsRejection, n
    <3> QED
      BY <3>1
  <2> DEFINE A == RejectionsWaiting
             B == RejectionsWaiting'
  <2>6. /\ Cardinality(A) \in Nat /\ Cardinality(B) \in Nat
        /\ Cardinality(A) - One(n \in A) = Cardinality(B) - One(n \in B)
    <3>1. IsFiniteSet(A) /\ A \ {n} = B \ {n}
      BY <2>5, Counted
    <3> HIDE DEF A, B, n
    <3> QED
      BY <3>1, CountsDiffer
  <2>7. One(n \in A) = One(IsRejection(e)) /\ One(n \in B) = 0 /\ One(IsRejection(e)) \in {0, 1}
    BY <2>3, <2>4 DEF One
  <2> HIDE DEF n, e
  <2>8. Cardinality(B) = Cardinality(A) - One(IsRejection(e))
    <3> HIDE DEF A, B
    <3> QED
      BY <2>6, <2>7
  <2> QED
    BY <2>6, <2>8
<1>4. LawSteps' = LawSteps \/ (LawSteps' = LawSteps + 15 /\ IsRejection(e))
  BY ExecuteCosts, LawsWait DEF SaveInTransaction, Execute
<1>5. One(IsRejection(e)) \in {0, 1} /\ (IsRejection(e) => One(IsRejection(e)) = 1)
  BY DEF One
<1> HIDE DEF e, n
<1> QED
  BY <1>2, <1>3, <1>4, <1>5, StepsAddUp DEF StepsToRest

LEMMA ApplyRulesIsStep ==
  ASSUME ReadModelInv, ReadToRule, ApplyRules
  PROVE  StepsToRest' < StepsToRest
<1>1. PICK r \in rules : \/ ReadCase(r) \/ FinishRules(r)
                         \/ \E law \in Laws : ApplyLaw(r, law)
  BY DEF ApplyRules
<1>2. CASE ReadCase(r)
  <2>1. UNCHANGED <<log, handled, found>> /\ UNCHANGED <<strays, request, closing>>
    BY <1>2 DEF ReadCase, stored
  <2>2. LawSteps' = LawSteps - 1
    BY <1>2, LawStepsLeft
  <2> QED
    BY <2>1, <2>2, HandlersWait, StepsAddUp DEF StepsToRest
<1>3. CASE FinishRules(r)
  <2>1. UNCHANGED <<log, handled, found>> /\ UNCHANGED <<strays, request, closing>>
    BY <1>3 DEF FinishRules, stored
  <2>2. LawSteps' \in Int /\ LawSteps' < LawSteps
    BY <1>3, LawStepsLeft
  <2> QED
    BY <2>1, <2>2, HandlersWait, StepsAddUp DEF StepsToRest
<1>4. ASSUME NEW law \in Laws, ApplyLaw(r, law) PROVE StepsToRest' < StepsToRest
  <2> DEFINE e == Ruling(law, r.read[1], handled["indexer"])
  <2>1. UNCHANGED <<handled, found>> /\ UNCHANGED <<strays, request, closing>> /\ Publish(e)
    BY <1>4 DEF ApplyLaw
  <2>2. e \in Event
    BY RulingTyped, <1>4 DEF ReadModelInv, TypeOK
  <2>3. One(IsRejection(e)) = 0
    BY DEF One, IsRejection, Ruling
  <2> HIDE DEF e
  <2>4. /\ HandlerSteps("transaction")' = HandlerSteps("transaction") + 2
        /\ HandlerSteps("cases")' = HandlerSteps("cases") + 2
        /\ Waiting("indexer")' = Waiting("indexer") + 1
        /\ Cardinality(RejectionsWaiting)' = Cardinality(RejectionsWaiting) + One(IsRejection(e))
    BY <2>1, <2>2, PublishCosts
  <2>5. LawSteps' = LawSteps - 6
    BY <1>4, LawStepsLeft
  <2> QED
    BY <2>1, <2>3, <2>4, <2>5, StepsAddUp DEF StepsToRest
<1> QED
  BY <1>1, <1>2, <1>3, <1>4

\* Everything that was under way is gone, but for the runs that are left behind.
LEMMA EndResetIsStep ==
  ASSUME ReadModelInv, ReadToRule, EndReset
  PROVE  StepsToRest' < StepsToRest
<1>1. /\ log' = <<>> /\ handled' = [h \in Handlers |-> 0] /\ rules' = {}
      /\ \A h \in Projectors : found'[h] = <<>>
  BY DEF EndReset
<1>2. /\ "transaction" \in Projectors /\ "cases" \in Projectors
      /\ "transaction" \in Handlers /\ "cases" \in Handlers /\ "indexer" \in Handlers
  BY DEF Handlers, Projectors
<1>3. /\ HandlerSteps("transaction")' = 0 /\ HandlerSteps("cases")' = 0
      /\ Waiting("indexer")' = 0
  <2>1. Len(log)' = 0 /\ \A h \in Handlers : handled[h]' = 0
    BY <1>1
  <2>2. \A h \in Handlers : Waiting(h)' = 0
    BY <2>1 DEF Waiting
  <2>3. \A h \in Projectors : One(found[h] # <<>>)' = 0
    BY <1>1 DEF One
  <2> QED
    BY <1>2, <2>2, <2>3 DEF HandlerSteps
<1>4. Cardinality(RejectionsWaiting)' = 0
  <2>1. RejectionsWaiting' = {}
    BY <1>1, <1>2 DEF RejectionsWaiting, Number
  <2> QED
    BY <2>1, FS_EmptySet
<1>5. LawSteps' = 0
  <2>1. Wanting("bezwaar")' = {} /\ Wanting("beroep")' = {} /\ HavingRead' = {}
    BY <1>1 DEF Wanting, HavingRead
  <2>2. /\ Cardinality(Wanting("bezwaar"))' = 0 /\ Cardinality(Wanting("beroep"))' = 0
        /\ Cardinality(HavingRead)' = 0 /\ Cardinality(rules)' = 0
    BY <1>1, <2>1, FS_EmptySet
  <2> QED
    BY <2>2 DEF LawSteps
<1>6. /\ strays' = strays + Cardinality(rules) /\ Cardinality(rules) \in Nat
      /\ LawSteps >= Cardinality(rules)
  BY Counted, LawStepsCounted DEF EndReset
<1>7. One(request = "process")' = 0 /\ One(closing)' = 0 /\ One(closing) = 1
  BY DEF EndReset, One
<1> QED
  BY <1>3, <1>4, <1>5, <1>6, <1>7, StepsAddUp DEF StepsToRest

LEMMA StrayIsStep ==
  ASSUME ReadModelInv, ReadToRule, FinishStray
  PROVE  StepsToRest' < StepsToRest
<1>1. UNCHANGED <<log, handled, found>> /\ UNCHANGED rules /\ UNCHANGED <<request, closing>>
      /\ strays' = strays - 1
  BY DEF FinishStray, stored
<1> QED
  BY <1>1, HandlersWait, LawsWait, StepsAddUp DEF StepsToRest

LEMMA RequestsCost ==
  ASSUME ReadModelInv, ReadToRule, Requests
  PROVE  StepsToRest' <= StepsToRest + 20
<1>1. ASSUME NEW type \in {"Submitted", "Reset"}, Request([type |-> type], "process")
      PROVE  StepsToRest' <= StepsToRest + 20
  <2>1. [type |-> type] \in Event /\ ~ IsRejection([type |-> type])
    BY DEF Event, IsRejection
  <2> QED
    BY <1>1, <2>1, RequestCosts
<1>2. ASSUME NEW approved \in BOOLEAN, Request([type |-> "Decided", approved |-> approved], "none")
      PROVE  StepsToRest' <= StepsToRest + 20
  <2>1. [type |-> "Decided", approved |-> approved] \in Event
    BY DEF Event
  <2> QED
    BY <1>2, <2>1, RequestCosts
<1>3. ASSUME Request([type |-> "Objected"], "none") PROVE StepsToRest' <= StepsToRest + 20
  <2>1. [type |-> "Objected"] \in Event
    BY DEF Event
  <2> QED
    BY <1>3, <2>1, RequestCosts
<1>4. ASSUME NEW c \in Claims, Request([type |-> "AddClaim", claim |-> c], "none")
      PROVE  StepsToRest' <= StepsToRest + 20
  <2>1. [type |-> "AddClaim", claim |-> c] \in Event
    BY DEF Event
  <2> QED
    BY <1>4, <2>1, RequestCosts
<1> QED
  BY <1>1, <1>2, <1>3, <1>4, BeginResetCosts
     DEF Requests, SubmitCase, CompleteManualReview, ObjectCase, AddClaimToCase

LEMMA NoStepsToRest ==
  ASSUME ReadModelInv, ReadToRule, StepsToRest = 0
  PROVE  AtRest
<1>1. /\ One(request = "process") = 0 /\ One(closing) = 0 /\ LawSteps = 0
      /\ HandlerSteps("transaction") = 0 /\ HandlerSteps("cases") = 0 /\ Waiting("indexer") = 0
  <2> DEFINE p == One(request = "process")
             c == One(closing)
             t == HandlerSteps("transaction")
             s == HandlerSteps("cases")
             w == Waiting("indexer")
             n == Cardinality(RejectionsWaiting)
  <2>1. /\ p \in Nat /\ c \in Nat /\ t \in Nat /\ s \in Nat /\ w \in Nat /\ n \in Nat
        /\ LawSteps \in Nat /\ strays \in Nat
    BY StepsAddUp
  <2>2. 6 * p + t + s + w + 15 * n + LawSteps + strays + c = 0
    BY DEF StepsToRest
  <2>3. p = 0 /\ c = 0 /\ LawSteps = 0 /\ t = 0 /\ s = 0 /\ w = 0
    <3> HIDE DEF p, c, t, s, w, n
    <3> QED
      BY <2>1, <2>2
  <2> QED
    BY <2>3
<1>2. request = "none" /\ ~ closing
  BY <1>1 DEF One, ReadModelInv, TypeOK
<1>3. rules = {}
  <2>1. Cardinality(rules) = 0
    BY <1>1, Counted, LawStepsCounted
  <2> QED
    BY <2>1, Counted, FS_EmptySet
<1>4. ASSUME NEW h \in Handlers PROVE ~ Pending(h)
  <2>1. handled[h] \in Nat /\ Len(log) \in Nat /\ Waiting(h) = Len(log) - handled[h]
    BY Counted DEF Waiting
  <2>2. ASSUME h \in Projectors PROVE Waiting(h) = 0
    <3>1. HandlerSteps(h) = 0 /\ One(found[h] # <<>>) \in {0, 1}
      BY <1>1, <2>2 DEF Projectors, One
    <3>2. 2 * Waiting(h) - One(found[h] # <<>>) = 0
      BY <3>1 DEF HandlerSteps
    <3> QED
      BY <2>1, <3>1, <3>2
  <2>3. Waiting(h) = 0
    BY <1>1, <2>2 DEF Handlers
  <2> QED
    BY <2>1, <2>3 DEF Pending
<1> QED
  BY <1>2, <1>3, <1>4 DEF AtRest

\* The work that handlers and laws have left is bounded: a request, or a reset, causes at
\* most twenty steps of them, each step is one less to come, and with the last of them the
\* system is at rest.  Projectors and laws that publish events and take events do not keep
\* each other busy for ever.
THEOREM RestIsBounded == Spec => [](StepsToRest \in Nat /\ (StepsToRest = 0 => AtRest)) /\ RestIsNear
<1>1. Init => ReadModelInv /\ ReadToRule
  BY InitHolds DEF Init, ReadToRule
<1>2. ReadModelInv /\ ReadToRule /\ [Next]_vars => ReadModelInv' /\ ReadToRule'
  BY StepKeeps, ReadToRuleKeeps
<1>3. ReadModelInv /\ ReadToRule => StepsToRest \in Nat /\ (StepsToRest = 0 => AtRest)
  BY StepsToRestCounted, NoStepsToRest
<1>4. ReadModelInv /\ ReadToRule /\ [Next]_vars =>
        [IF Requests THEN StepsToRest' <= StepsToRest + 20 ELSE StepsToRest' < StepsToRest]_vars
  <2> SUFFICES ASSUME ReadModelInv, ReadToRule, Next
               PROVE  IF Requests THEN StepsToRest' <= StepsToRest + 20 ELSE StepsToRest' < StepsToRest
    OBVIOUS
  <2>1. CASE Requests
    BY <2>1, RequestsCost
  <2>2. CASE ~ Requests
    <3>1. StepsToRest' < StepsToRest
      BY <2>2, ProcessIsStep, FindIsStep, SaveInCasesIsStep, SaveInTransactionIsStep, IndexIsStep,
         ApplyRulesIsStep, EndResetIsStep, StrayIsStep DEF Next, Handling
    <3> QED
      BY <2>2, <3>1
  <2> QED
    BY <2>1, <2>2
<1> QED
  BY <1>1, <1>2, <1>3, <1>4, PTL DEF Spec, RestIsNear

=============================================================================
