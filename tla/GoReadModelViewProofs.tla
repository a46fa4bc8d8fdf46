----------------------- MODULE GoReadModelViewProofs -----------------------
(***************************************************************************)
(* Proofs that the read model of the Go case manager can be relied on:     *)
(* that it follows the events while they come one at a time, that the last *)
(* event is shown whatever overlaps, and that a rejection gets its rulings *)
(* where requests leave time for it.  They hold for every set of claims    *)
(* and every bound.                                                        *)
(*                                                                         *)
(* ViewInv is the conjunction of what each of these needs.  Each action    *)
(* has a lemma; steps that publish an event and steps that leave the read  *)
(* model and its projectors alone share one each.                          *)
(***************************************************************************)
EXTENDS GoReadModelProofs

-----------------------------------------------------------------------------
(* What the types give                                                      *)

LEMMA HandlerNames ==
  /\ "cases" \in Projectors /\ "transaction" \in Projectors
  /\ "cases" \in Handlers /\ "transaction" \in Handlers /\ "indexer" \in Handlers
  /\ \A h \in Projectors : h \in Handlers /\ (h = "cases" \/ h = "transaction")
  /\ \A h \in Handlers : h = "cases" \/ h = "transaction" \/ h = "indexer"
BY DEF Projectors, Handlers

LEMMA OrNewTyped ==
  ASSUME NEW x \in Entry \cup {Null}
  PROVE  OrNew(x).case \in Case /\ OrNew(x).version \in Nat
BY NewCaseTyped DEF OrNew, Entry

LEMMA Typed ==
  ASSUME ReadModelInv
  PROVE  /\ log \in Seq(Event) /\ Len(log) \in Nat
         /\ \A h \in Handlers : handled[h] \in Nat /\ handled[h] <= Len(log)
         /\ OrNew(view).case \in Case /\ OrNew(view).version \in Nat
         /\ \A h \in Projectors : found[h] # <<>> =>
              Pending(h) /\ Entity(h).case \in Case /\ Entity(h).version \in Nat
<1>1. log \in Seq(Event) /\ Len(log) \in Nat
  BY DEF ReadModelInv, TypeOK
<1>2. \A h \in Handlers : handled[h] \in Nat /\ handled[h] <= Len(log)
  BY DEF ReadModelInv, TypeOK, InOrder
<1>3. OrNew(view).case \in Case /\ OrNew(view).version \in Nat
  BY OrNewTyped DEF ReadModelInv, TypeOK
<1>4. ASSUME NEW h \in Projectors, found[h] # <<>>
      PROVE  Pending(h) /\ Entity(h).case \in Case /\ Entity(h).version \in Nat
  <2>1. found[h] \in Seq(Entry \cup {Null}) /\ Pending(h)
    BY <1>4 DEF ReadModelInv, TypeOK, InOrder
  <2>2. found[h][1] \in Entry \cup {Null}
    BY <1>4, <2>1
  <2> QED
    BY <2>1, <2>2, OrNewTyped DEF Entity
<1> QED
  BY <1>1, <1>2, <1>3, <1>4

LEMMA LastTyped ==
  ASSUME ReadModelInv, LogInv, case # Null
  PROVE  LastEvent \in Event /\ Len(log) >= 1 /\ case \in Case
<1>1. log \in Seq(Event) /\ log # <<>> /\ case \in Case
  BY DEF ReadModelInv, LogInv, TypeOK
<1>2. Len(log) \in Nat /\ Len(log) # 0
  BY <1>1
<1> QED
  BY <1>1, <1>2 DEF LastEvent

\* Applying an event twice is applying it once.
LEMMA Idempotent ==
  ASSUME NEW c \in Case, NEW e \in Event
  PROVE  Applied(Applied(c, e), e) = Applied(c, e)
<1>1. CASE e.type \in {"Submitted", "Reset", "AddedToManualReview", "AutomaticallyDecided", "Objected"}
  BY <1>1 DEF Applied, Case
<1>2. CASE e \in [type : {"Decided"}, approved : BOOLEAN]
  BY <1>2 DEF Applied, Case
<1>3. CASE e \in [type : {"AddClaim"}, claim : Claims]
  BY <1>3 DEF Applied, Case
<1>4. CASE e \in [type : {"ObjectionStatusDetermined", "AppealStatusDetermined"}, possible : {"yes", "no"}]
  BY <1>4 DEF Applied, Case
<1> QED
  BY <1>1, <1>2, <1>3, <1>4 DEF Event

-----------------------------------------------------------------------------
(* Publishing an event                                                      *)

LEMMA Published ==
  ASSUME ReadModelInv, NEW e \in Event, Publish(e), UNCHANGED handled
  PROVE  /\ Len(log') = Len(log) + 1 /\ LastEvent' = e
         /\ log'[Len(log) + 1] = e /\ \A i \in 1..Len(log) : log'[i] = log[i]
         /\ \A h \in Handlers : Pending(h)'
         /\ case' \in Case /\ case' # Null
         /\ case' = Applied(IF case = Null THEN NewCase ELSE case, e)
<1>1. log \in Seq(Event) /\ log' = Append(log, e)
  BY DEF Publish, ReadModelInv, TypeOK
<1>2. /\ Len(log') = Len(log) + 1 /\ log'[Len(log) + 1] = e
      /\ \A i \in 1..Len(log) : log'[i] = log[i]
  BY <1>1
<1>3. \A h \in Handlers : Pending(h)'
  BY <1>2, Typed DEF Pending
<1>4. (IF case = Null THEN NewCase ELSE case) \in Case
  BY NewCaseTyped DEF ReadModelInv, TypeOK
<1>5. case' \in Case /\ case' = Applied(IF case = Null THEN NewCase ELSE case, e)
  BY <1>4, AppliedTyped DEF Publish
<1> QED
  BY <1>2, <1>3, <1>5, ReadModelConstants DEF LastEvent

\* The log, what the read model shows and what it follows, when an event is published.
LEMMA PublishKeepsView ==
  ASSUME ReadModelInv, LogInv, FollowInv, NEW e \in Event, Publish(e),
         UNCHANGED <<view, handled, found>>, case = Null => e.type = "Submitted",
         \A r \in rules' : \E q \in rules : r.event = q.event
  PROVE  LogInv' /\ ShownInv' /\ FollowInv'
<1>0. /\ Len(log') = Len(log) + 1 /\ LastEvent' = e
      /\ log'[Len(log) + 1] = e /\ \A i \in 1..Len(log) : log'[i] = log[i]
      /\ \A h \in Handlers : Pending(h)'
      /\ case' \in Case /\ case' # Null
      /\ case' = Applied(IF case = Null THEN NewCase ELSE case, e)
  BY Published
<1>1. LogInv'
  <2>1. log' # <<>>
    BY <1>0, Typed
  <2>2. log'[1].type = "Submitted"
    <3>1. CASE case = Null
      BY <1>0, <3>1 DEF LogInv
    <3>2. CASE case # Null
      BY <1>0, <3>2, LastTyped, Typed DEF LogInv
    <3> QED
      BY <3>1, <3>2
  <2> QED
    BY <1>0, <2>1, <2>2 DEF LogInv
<1>2. ShownInv'
  BY <1>0, HandlerNames DEF ShownInv
<1>3. FollowInv'
  <2> SUFFICES ASSUME ~ crowded'
               PROVE  /\ \A h \in Handlers : handled'[h] >= Len(log') - 1
                      /\ Applied(OrNew(view').case, e) = case'
                      /\ \A h \in Projectors : found'[h] = <<>>
    BY <1>0, HandlerNames DEF FollowInv
  <2>1. ~ crowded /\ \A h \in Handlers : ~ Pending(h)
    BY DEF Publish
  <2>2. \A h \in Handlers : handled'[h] >= Len(log') - 1
    BY <1>0, <2>1, Typed DEF Pending
  <2>3. OrNew(view).case = IF case = Null THEN NewCase ELSE case
    BY <2>1, HandlerNames DEF FollowInv, LogInv, OrNew
  <2>4. \A h \in Projectors : found[h] = <<>>
    BY <2>1, HandlerNames DEF ReadModelInv, InOrder
  <2> QED
    BY <1>0, <2>2, <2>3, <2>4
<1> QED
  BY <1>1, <1>2, <1>3

\* Versions, when an event is published that leaves the transaction at most two behind.
LEMMA PublishKeepsVersions ==
  ASSUME ReadModelInv, VersionInv, NEW e \in Event, Publish(e),
         UNCHANGED <<view, handled, found>>,
         ~ overlapped' =>
           /\ ~ overlapped
           /\ ~ Pending("cases") => OrNew(view).version >= Len(log)
           /\ Len(log) <= handled["transaction"] + 1
           /\ request' = "process" => Len(log) <= handled["transaction"]
  PROVE  VersionInv'
<1> SUFFICES ASSUME ~ overlapped'
             PROVE  /\ OrNew(view).version >= handled["cases"]
                    /\ found["cases"] # <<>> => Entity("cases").version >= handled["cases"]
                    /\ Len(log') <= handled["transaction"] + 2
                    /\ request' = "process" => Len(log') <= handled["transaction"] + 1
  BY Published, HandlerNames DEF VersionInv, Entity
<1>1. Len(log') = Len(log) + 1
  BY Published
<1>2. CASE Pending("cases")
  BY <1>1, <1>2, Typed, HandlerNames DEF VersionInv
<1>3. CASE ~ Pending("cases")
  <2>1. found["cases"] = <<>> /\ handled["cases"] = Len(log)
    BY <1>3, Typed, HandlerNames DEF Pending
  <2> QED
    BY <1>1, <1>3, <2>1, Typed, HandlerNames
<1> QED
  BY <1>2, <1>3

\* Where requests do not overlap, nothing is published while the transaction catches up.
LEMMA VersionsSettled ==
  ASSUME ReadModelInv, VersionInv, ~ overlapped, ~ Pending("cases"),
         \/ ~ Pending("transaction")
         \/ request # "none"
         \/ \E r \in rules : r.todo # {}
  PROVE  OrNew(view).version >= Len(log)
BY DEF VersionInv, CatchingUp

-----------------------------------------------------------------------------
(* Requests                                                                 *)

LEMMA RequestKeepsView ==
  ASSUME ViewInv, NEW e \in Event, NEW then \in {"none", "process"}, Request(e, then),
         IsRejection(e) => then = "none",
         e.type \notin {"ObjectionStatusDetermined", "AppealStatusDetermined"}
  PROVE  /\ LogInv' /\ ShownInv' /\ FollowInv' /\ VersionInv'
         /\ WaitingInv' /\ RulesInv' /\ RuledInv'
<1> USE DEF ViewInv
<1>0. /\ Publish(e) /\ UNCHANGED <<view, handled, found, rules>> /\ Accepts(case, e)
      /\ request' = then /\ overlapped' = (overlapped \/ ~ AtRest)
  BY DEF Request
<1>1. /\ Len(log') = Len(log) + 1
      /\ log'[Len(log) + 1] = e
      /\ \A h \in Handlers : Pending(h)'
      /\ case' \in Case /\ case' # Null
      /\ case' = Applied(IF case = Null THEN NewCase ELSE case, e)
  BY <1>0, Published
<1>2. case = Null => e.type = "Submitted"
  BY <1>0 DEF Accepts, Event
<1>3. LogInv' /\ ShownInv' /\ FollowInv'
  BY <1>0, <1>2, PublishKeepsView
<1>4. ~ overlapped' =>
        /\ ~ overlapped /\ rules = {}
        /\ \A h \in Handlers : handled[h] = Len(log)
        /\ \A h \in Projectors : found[h] = <<>>
        /\ OrNew(view).version >= Len(log)
  <2> SUFFICES ASSUME ~ overlapped'
               PROVE  /\ ~ overlapped /\ rules = {}
                      /\ \A h \in Handlers : handled[h] = Len(log)
                      /\ \A h \in Projectors : found[h] = <<>>
                      /\ OrNew(view).version >= Len(log)
    OBVIOUS
  <2>1. ~ overlapped /\ rules = {} /\ \A h \in Handlers : ~ Pending(h)
    BY <1>0 DEF AtRest
  <2>2. \A h \in Handlers : handled[h] = Len(log)
    BY <2>1, Typed DEF Pending
  <2>3. OrNew(view).version >= Len(log)
    BY <2>1, VersionsSettled, HandlerNames
  <2> QED
    BY <2>1, <2>2, <2>3, Typed, HandlerNames
<1>5. VersionInv'
  BY <1>0, <1>4, PublishKeepsVersions, Typed, HandlerNames
<1>6. ~ overlapped' => rules' = {}
  BY <1>0, <1>4
<1>7. ~ overlapped' => EventInTransaction' = e
  BY <1>0, <1>1, <1>4, HandlerNames DEF EventInTransaction, Number
<1>8. IsRejection(e) => Rejected'
  BY <1>1, NewCaseTyped DEF Applied, IsRejection, Verdict, Rejected, Case, ReadModelInv, TypeOK
<1>9. WaitingInv'
  <2> SUFFICES ASSUME ~ overlapped' PROVE WaitingInv'
    BY DEF WaitingInv
  <2>1. \A i \in 1..Len(log') : i <= Number("transaction")'
    BY <1>0, <1>1, <1>4, Typed, HandlerNames DEF Number
  <2>2. ASSUME RejectionWaits'
        PROVE  /\ Rejected' /\ rules' = {} /\ request' = "none"
               /\ \A h \in Handlers : handled'[h] >= Len(log') - 1
               /\ OrNew(view').version >= handled'["transaction"]
               /\ found'["transaction"] = <<>>
    <3>1. IsRejection(e)
      BY <1>7, <2>2 DEF RejectionWaits
    <3> QED
      BY <1>0, <1>1, <1>4, <1>6, <1>8, <3>1, Typed, HandlerNames
  <2> QED
    BY <2>1, <2>2 DEF WaitingInv
<1>10. RulesInv'
  BY <1>6 DEF RulesInv
<1>11. RuledInv'
  <2> SUFFICES ASSUME ~ overlapped', Rejected', ~ IsRejection(e) PROVE FALSE
    BY <1>1, <1>7, HandlerNames DEF RuledInv, RejectionWaits
  <2>1. case' = Applied(IF case = Null THEN NewCase ELSE case, e) /\ case'.status = "DECIDED" /\ case'.verdict = "rejected"
    BY <1>1 DEF Rejected
  <2>2. CASE e.type \in {"Submitted", "Reset", "AddedToManualReview", "AutomaticallyDecided", "Objected"}
    BY <2>1, <2>2, NewCaseTyped DEF Applied, Case, ReadModelInv, TypeOK
  <2>3. CASE e \in [type : {"Decided"}, approved : BOOLEAN]
    BY <2>1, <2>3, NewCaseTyped DEF Applied, Case, ReadModelInv, TypeOK, IsRejection, Verdict
  <2>4. CASE e \in [type : {"AddClaim"}, claim : Claims]
    BY <1>0, <2>1, <2>4, NewCaseTyped DEF Applied, Accepts, Case, ReadModelInv, TypeOK
  <2> QED
    BY <2>2, <2>3, <2>4 DEF Event
<1> QED
  BY <1>3, <1>5, <1>9, <1>10, <1>11

LEMMA RequestsKeepView ==
  ASSUME ViewInv, SubmitCase \/ CompleteManualReview \/ ObjectCase \/ AddClaimToCase
  PROVE  /\ LogInv' /\ ShownInv' /\ FollowInv' /\ VersionInv'
         /\ WaitingInv' /\ RulesInv' /\ RuledInv'
<1> DEFINE Goal == /\ LogInv' /\ ShownInv' /\ FollowInv' /\ VersionInv'
                   /\ WaitingInv' /\ RulesInv' /\ RuledInv'
<1>1. ASSUME NEW type \in {"Submitted", "Reset"}, Request([type |-> type], "process") PROVE Goal
  BY <1>1, RequestKeepsView DEF Event, IsRejection
<1>2. ASSUME NEW approved \in BOOLEAN, Request([type |-> "Decided", approved |-> approved], "none")
      PROVE  Goal
  BY <1>2, RequestKeepsView DEF Event
<1>3. ASSUME Request([type |-> "Objected"], "none") PROVE Goal
  BY <1>3, RequestKeepsView DEF Event
<1>4. ASSUME NEW c \in Claims, Request([type |-> "AddClaim", claim |-> c], "none") PROVE Goal
  BY <1>4, RequestKeepsView DEF Event
<1> QED
  BY <1>1, <1>2, <1>3, <1>4 DEF SubmitCase, CompleteManualReview, ObjectCase, AddClaimToCase

\* Steps that publish nothing and leave the read model and its projectors alone, and
\* that put no law under way.
LEMMA QuietKeepsView ==
  ASSUME ViewInv, UNCHANGED <<stored, view, found>>,
         handled' \in [Handlers -> Nat],
         \A h \in Projectors : handled'[h] = handled[h],
         handled'["indexer"] >= handled["indexer"],
         request' = request \/ request' = "none",
         overlapped' = overlapped,
         \A r \in rules' : \E q \in rules : r.event = q.event /\ r.todo = q.todo
  PROVE  LogInv' /\ ShownInv' /\ FollowInv' /\ VersionInv' /\ WaitingInv'
<1> USE DEF ViewInv, stored
<1>1. /\ handled'["cases"] = handled["cases"] /\ handled'["transaction"] = handled["transaction"]
      /\ Pending("cases")' = Pending("cases") /\ Pending("transaction")' = Pending("transaction")
      /\ \A h \in Projectors : Entity(h)' = Entity(h)
  BY HandlerNames DEF Pending, Entity
<1>2. \A h \in Handlers : handled'[h] \in Nat /\ handled'[h] >= handled[h]
  BY Typed, HandlerNames
<1>3. OrNew(view)' = OrNew(view) /\ LastEvent' = LastEvent /\ CatchingUp' = CatchingUp
  BY <1>1, HandlerNames DEF OrNew, LastEvent, CatchingUp
<1>4. LogInv'
  BY <1>1 DEF LogInv
<1>5. ShownInv'
  BY <1>1, <1>3 DEF ShownInv
<1>6. FollowInv'
  BY <1>1, <1>2, <1>3, Typed DEF FollowInv
<1>7. VersionInv'
  BY <1>1, <1>3, HandlerNames DEF VersionInv
<1>8. WaitingInv'
  <2>1. RejectionWaits' = RejectionWaits
    BY <1>1 DEF RejectionWaits, EventInTransaction, Number
  <2> QED
    BY <1>1, <1>2, <1>3, <2>1, Typed, HandlerNames DEF WaitingInv, Rejected, Number
<1> QED
  BY <1>4, <1>5, <1>6, <1>7, <1>8

\* If they leave the laws alone as well, everything stays.
LEMMA StillKeepsView ==
  ASSUME ViewInv, UNCHANGED <<stored, view, found, rules, overlapped>>,
         handled' \in [Handlers -> Nat],
         \A h \in Projectors : handled'[h] = handled[h],
         handled'["indexer"] >= handled["indexer"],
         request' = request \/ request' = "none"
  PROVE  /\ LogInv' /\ ShownInv' /\ FollowInv' /\ VersionInv'
         /\ WaitingInv' /\ RulesInv' /\ RuledInv'
<1> USE DEF ViewInv, stored
<1>1. LogInv' /\ ShownInv' /\ FollowInv' /\ VersionInv' /\ WaitingInv'
  BY QuietKeepsView
<1>2. /\ Rejected' = Rejected /\ ObjectionRuled' = ObjectionRuled /\ AppealRuled' = AppealRuled
  BY DEF Rejected, ObjectionRuled, AppealRuled, Objections
<1>3. RejectionWaits' = RejectionWaits
  BY HandlerNames DEF RejectionWaits, EventInTransaction, Number, Pending
<1>4. RulesInv'
  <2> SUFFICES ASSUME ~ overlapped, NEW r \in rules
               PROVE  /\ Rejected' /\ rules' = {r} /\ request' = "none"
                      /\ r.todo = Laws => Len(log') = r.event
                      /\ r.todo # {} => Len(log') <= r.event + 1
                      /\ handled'["indexer"] >= r.event - 1
                      /\ \A i \in r.event..Len(log') : log'[i].type # "Objected"
                      /\ "bezwaar" \notin r.todo => ObjectionRuled'
                      /\ "beroep" \notin r.todo => AppealRuled'
    BY DEF RulesInv
  <2>1. r.event \in Nat
    BY DEF ReadModelInv, TypeOK
  <2>2. handled'["indexer"] >= r.event - 1
    BY <2>1, Typed, HandlerNames DEF RulesInv
  <2> QED
    BY <1>2, <2>2 DEF RulesInv
<1>5. RuledInv'
  BY <1>2, <1>3 DEF RuledInv
<1> QED
  BY <1>1, <1>4, <1>5

LEMMA ProcessKeepsView ==
  ASSUME ViewInv, ProcessCase
  PROVE  /\ LogInv' /\ ShownInv' /\ FollowInv' /\ VersionInv'
         /\ WaitingInv' /\ RulesInv' /\ RuledInv'
<1> USE DEF ViewInv
<1>0. /\ request = "process" /\ request' = "none"
      /\ UNCHANGED <<view, handled, found, rules, overlapped>>
  BY DEF ProcessCase, history
<1>1. CASE UNCHANGED stored
  BY <1>0, <1>1, StillKeepsView, Typed, HandlerNames DEF ReadModelInv, TypeOK
<1>2. ASSUME NEW type \in {"AddedToManualReview", "AutomaticallyDecided"},
             Accepts(case, [type |-> type]), Publish([type |-> type])
      PROVE  /\ LogInv' /\ ShownInv' /\ FollowInv' /\ VersionInv'
             /\ WaitingInv' /\ RulesInv' /\ RuledInv'
  <2> DEFINE e == [type |-> type]
  <2>1. e \in Event /\ case # Null
    BY <1>2 DEF Event, Accepts
  <2>2. /\ Len(log') = Len(log) + 1 /\ log'[Len(log) + 1] = e
        /\ \A i \in 1..Len(log) : log'[i] = log[i]
        /\ case' = Applied(case, e) /\ case \in Case
    BY <1>0, <1>2, <2>1, Published DEF ReadModelInv, TypeOK
  <2>3. LogInv' /\ ShownInv' /\ FollowInv'
    BY <1>0, <1>2, <2>1, PublishKeepsView
  <2>4. VersionInv'
    <3>1. ~ overlapped => /\ ~ Pending("cases") => OrNew(view).version >= Len(log)
                          /\ Len(log) <= handled["transaction"] + 1
      BY <1>0, VersionsSettled DEF VersionInv
    <3> QED
      BY <1>0, <1>2, <2>1, <3>1, PublishKeepsVersions
  <2>5. ~ overlapped => rules' = {} /\ ~ RejectionWaits'
    <3> SUFFICES ASSUME ~ overlapped PROVE rules' = {} /\ ~ RejectionWaits'
      OBVIOUS
    <3>1. rules' = {}
      BY <1>0 DEF RulesInv
    <3>2. ~ RejectionWaits
      BY <1>0 DEF WaitingInv
    <3>3. CASE handled["transaction"] = Len(log)
      BY <1>0, <2>2, <3>1, <3>3 DEF RejectionWaits, EventInTransaction, Number, IsRejection
    <3>4. CASE handled["transaction"] < Len(log)
      BY <1>0, <2>2, <3>1, <3>2, <3>4, Typed, HandlerNames DEF RejectionWaits, EventInTransaction, Number, Pending
    <3> QED
      BY <3>1, <3>3, <3>4, Typed, HandlerNames
  <2>6. ~ Rejected'
    BY <2>2 DEF Applied, Case, Rejected
  <2>7. ~ overlapped => \A i \in 1..Len(log') : IsRejection(log'[i]) => i <= Number("transaction")'
    BY <1>0, <2>2, Typed DEF WaitingInv, IsRejection, Number
  <2> QED
    BY <1>0, <2>3, <2>4, <2>5, <2>6, <2>7 DEF WaitingInv, RulesInv, RuledInv
<1> QED
  BY <1>1, <1>2 DEF ProcessCase

-----------------------------------------------------------------------------
(* The handlers                                                             *)

LEMMA FindKeepsView ==
  ASSUME ViewInv, NEW h \in Projectors, Find(h)
  PROVE  /\ LogInv' /\ ShownInv' /\ FollowInv' /\ VersionInv'
         /\ WaitingInv' /\ RulesInv' /\ RuledInv'
<1> USE DEF ViewInv
<1>0. /\ Pending(h) /\ found' = [found EXCEPT ![h] = <<view>>]
      /\ UNCHANGED <<log, case, crowded, view, handled, rules, request, overlapped>>
  BY DEF Find, stored, history
<1>1. \A p \in Handlers : Pending(p)' = Pending(p)
  BY <1>0 DEF Pending
<1>2. /\ found'[h] = <<view>> /\ Entity(h)' = OrNew(view)
      /\ \A p \in Projectors : p # h => found'[p] = found[p] /\ Entity(p)' = Entity(p)
  BY <1>0 DEF Entity, ReadModelInv, TypeOK
<1>3. OrNew(view)' = OrNew(view) /\ LastEvent' = LastEvent /\ RejectionWaits' = RejectionWaits
  BY <1>0, <1>1, HandlerNames DEF OrNew, LastEvent, RejectionWaits, EventInTransaction, Number
<1>4. /\ Rejected' = Rejected /\ ObjectionRuled' = ObjectionRuled /\ AppealRuled' = AppealRuled
  BY <1>0 DEF Rejected, ObjectionRuled, AppealRuled, Objections
<1>5. CatchingUp => CatchingUp'
  BY <1>0, <1>1, <1>2, HandlerNames DEF CatchingUp, OrNew
<1>6. LogInv'
  BY <1>0, <1>2, Typed, HandlerNames DEF LogInv
<1>7. ShownInv'
  BY <1>0, <1>1, <1>3, <1>5, HandlerNames DEF ShownInv
<1>8. FollowInv'
  BY <1>0, <1>1, <1>2, <1>3, HandlerNames DEF FollowInv
<1>9. VersionInv'
  BY <1>0, <1>1, <1>2, <1>3, <1>5, HandlerNames DEF VersionInv
<1>10. WaitingInv'
  BY <1>0, <1>2, <1>3, <1>4, HandlerNames DEF WaitingInv, Number
<1>11. RulesInv' /\ RuledInv'
  BY <1>0, <1>3, <1>4 DEF RulesInv, RuledInv
<1> QED
  BY <1>6, <1>7, <1>8, <1>9, <1>10, <1>11

\* What a projector does when it is done with an event, whatever it saves.
LEMMA DoneWith ==
  ASSUME ReadModelInv, NEW h \in Projectors, found[h] # <<>>, Done(h)
  PROVE  /\ UNCHANGED <<log, case, crowded, request, overlapped>>
         /\ handled'[h] = handled[h] + 1 /\ \A p \in Handlers : p # h => handled'[p] = handled[p]
         /\ found'[h] = <<>>
         /\ \A p \in Projectors : p # h => found'[p] = found[p] /\ Entity(p)' = Entity(p)
         /\ Number(h) \in 1..Len(log) /\ log[Number(h)] \in Event
         /\ Projected(h).case \in Case /\ Projected(h).version = Entity(h).version + 1
         /\ Projected(h).case = Applied(Entity(h).case, log[Number(h)])
         /\ Applied(Projected(h).case, log[Number(h)]) = Projected(h).case
         /\ Projected(h) # Null
<1>1. /\ UNCHANGED <<log, case, crowded, request, overlapped>>
      /\ found'[h] = <<>> /\ \A p \in Projectors : p # h => found'[p] = found[p] /\ Entity(p)' = Entity(p)
  BY DEF Done, stored, history, ReadModelInv, TypeOK, Entity
<1>2. handled'[h] = handled[h] + 1 /\ \A p \in Handlers : p # h => handled'[p] = handled[p]
  BY DoneKeeps
<1>3. Number(h) \in 1..Len(log) /\ log[Number(h)] \in Event /\ Projected(h) \in Entry
  BY EntityTyped DEF ReadModelInv
<1>4. /\ Projected(h).case = Applied(Entity(h).case, log[Number(h)])
      /\ Projected(h).version = Entity(h).version + 1
  BY DEF Projected
<1>5. Projected(h).case \in Case /\ Projected(h) # Null
  BY <1>3, ReadModelConstants DEF Entry
<1>6. Applied(Projected(h).case, log[Number(h)]) = Projected(h).case
  BY <1>3, <1>4, Idempotent, Typed
<1> QED
  BY <1>1, <1>2, <1>3, <1>4, <1>5, <1>6

\* A case that "cases" does not find is at its first event: to create it is to project
\* that event on a new case.
LEMMA CasesSavesProjected ==
  ASSUME ReadModelInv, LogInv, SaveInCases
  PROVE  view' = Projected("cases")
<1>1. CASE found["cases"][1] # Null
  BY <1>1 DEF SaveInCases
<1>2. CASE found["cases"][1] = Null
  <2>1. found["cases"] # <<>>
    BY DEF SaveInCases
  <2>2. handled["cases"] = 0 /\ log[1].type = "Submitted"
    <3>1. Pending("cases") /\ handled["cases"] \in Nat
      BY <2>1, Typed, HandlerNames
    <3>2. log # <<>>
      BY <3>1, Typed DEF Pending
    <3> QED
      BY <1>2, <2>1, <3>2 DEF LogInv
  <2>3. view' = [case |-> NewCase, repeated |-> {}, version |-> 1]
    BY <1>2, <2>2 DEF SaveInCases, Number
  <2>4. Applied(NewCase, log[1]) = NewCase
    BY <2>2 DEF Applied, NewCase
  <2> QED
    BY <1>2, <2>2, <2>3, <2>4 DEF Projected, Claimed, Entity, OrNew, Number
<1> QED
  BY <1>1, <1>2

LEMMA SaveInCasesKeepsView ==
  ASSUME ViewInv, SaveInCases
  PROVE  /\ LogInv' /\ ShownInv' /\ FollowInv' /\ VersionInv'
         /\ WaitingInv' /\ RulesInv' /\ RuledInv'
<1> DEFINE h == "cases"
           e == log[Number(h)]
<1> USE DEF ViewInv
<1>0. /\ h \in Projectors /\ found[h] # <<>> /\ Done(h) /\ UNCHANGED rules
      /\ view' = Projected(h) /\ Pending(h)
  BY CasesSavesProjected, Typed, HandlerNames DEF SaveInCases
<1>1. /\ UNCHANGED <<log, case, crowded, request, overlapped>>
      /\ handled'[h] = handled[h] + 1 /\ \A p \in Handlers : p # h => handled'[p] = handled[p]
      /\ found'[h] = <<>>
      /\ \A p \in Projectors : p # h => found'[p] = found[p] /\ Entity(p)' = Entity(p)
      /\ Number(h) \in 1..Len(log) /\ e \in Event
      /\ Projected(h).case \in Case /\ Projected(h).version = Entity(h).version + 1
      /\ Projected(h).case = Applied(Entity(h).case, e)
      /\ Applied(Projected(h).case, e) = Projected(h).case
      /\ Projected(h) # Null
  BY <1>0, DoneWith
<1>2. view' # Null /\ OrNew(view)' = Projected(h) /\ LastEvent' = LastEvent
  BY <1>0, <1>1 DEF OrNew, LastEvent
<1>3. /\ Rejected' = Rejected /\ ObjectionRuled' = ObjectionRuled /\ AppealRuled' = AppealRuled
      /\ RejectionWaits' = RejectionWaits
  BY <1>1, HandlerNames DEF Rejected, ObjectionRuled, AppealRuled, Objections, RejectionWaits,
       EventInTransaction, Number, Pending
<1>4. Pending(h)' \/ (e = LastEvent /\ handled'[h] = Len(log))
  BY <1>0, <1>1, Typed, HandlerNames DEF Pending, Number, LastEvent
<1>5. handled'["transaction"] = handled["transaction"] /\ handled'["indexer"] = handled["indexer"]
  BY <1>1, HandlerNames
<1> HIDE DEF e
<1>6. LogInv'
  BY <1>0, <1>1, <1>2, Typed DEF LogInv, Pending
<1>7. ShownInv'
  BY <1>0, <1>1, <1>2, <1>4 DEF ShownInv, Shows
<1>8. FollowInv'
  <2> SUFFICES ASSUME ~ crowded, case # Null
               PROVE  /\ \A p \in Handlers : handled'[p] >= Len(log) - 1
                      /\ Applied(Projected(h).case, LastEvent) = case
                      /\ \A p \in Projectors : p # h /\ found'[p] # <<>> =>
                           Applied(Entity(p)'.case, LastEvent) = case
                      /\ Projected(h).case = case
    BY <1>0, <1>1, <1>2 DEF FollowInv
  <2>1. \A p \in Handlers : handled'[p] >= Len(log) - 1
    BY <1>0, <1>1, Typed, HandlerNames DEF FollowInv
  <2>2. e = LastEvent
    <3>1. handled[h] = Len(log) - 1
      BY <1>0, Typed, HandlerNames DEF FollowInv, Pending
    <3> QED
      BY <3>1, Typed, HandlerNames DEF e, Number, LastEvent
  <2>3. Projected(h).case = case
    BY <1>0, <1>1, <2>2 DEF FollowInv
  <2>4. Applied(Projected(h).case, LastEvent) = case
    BY <1>1, <2>2, <2>3
  <2> QED
    BY <1>1, <2>1, <2>3, <2>4 DEF FollowInv
<1>9. VersionInv'
  <2> SUFFICES ASSUME ~ overlapped
               PROVE  /\ Projected(h).version >= handled'[h]
                      /\ ~ Pending(h)' => Projected(h).version >= Len(log)
    BY <1>1, <1>2, <1>5 DEF VersionInv
  <2>1. Projected(h).version >= handled[h] + 1
    BY <1>0, <1>1, Typed, HandlerNames DEF VersionInv
  <2> QED
    BY <1>1, <1>4, <2>1
<1>10. WaitingInv'
  <2>1. ASSUME ~ overlapped, RejectionWaits
        PROVE  /\ \A p \in Handlers : handled'[p] >= Len(log) - 1
               /\ Projected(h).version >= handled["transaction"]
    <3>1. \A p \in Handlers : handled'[p] >= Len(log) - 1
      BY <1>0, <1>1, <2>1, Typed, HandlerNames DEF WaitingInv
    <3>2. Projected(h).version >= handled[h] + 1
      BY <1>0, <1>1, <2>1, Typed, HandlerNames DEF VersionInv
    <3>3. handled[h] >= Len(log) - 1 /\ handled["transaction"] <= Len(log)
      BY <2>1, Typed, HandlerNames DEF WaitingInv
    <3> QED
      BY <1>0, <1>1, <3>1, <3>2, <3>3, Typed, HandlerNames
  <2> QED
    BY <1>0, <1>1, <1>2, <1>3, <1>5, <2>1, HandlerNames DEF WaitingInv, Number
<1>11. RulesInv' /\ RuledInv'
  BY <1>0, <1>1, <1>3, <1>5 DEF RulesInv, RuledInv
<1> QED
  BY <1>6, <1>7, <1>8, <1>9, <1>10, <1>11

\* Of the event it takes, the transaction projects what fits, and then starts the laws
\* unless the event was too far ahead.
LEMMA SaveInTransactionKeepsView ==
  ASSUME ViewInv, SaveInTransaction
  PROVE  /\ LogInv' /\ ShownInv' /\ FollowInv' /\ VersionInv'
         /\ WaitingInv' /\ RulesInv' /\ RuledInv'
<1> DEFINE h == "transaction"
           e == log[Number(h)]
           run == [event |-> Number(h), todo |-> Laws, read |-> <<>>]
<1> USE DEF ViewInv
<1>0. /\ h \in Projectors /\ h \in Handlers /\ found[h] # <<>> /\ Done(h) /\ Pending(h)
      /\ view' = IF Fits(h) THEN Projected(h) ELSE view
      /\ rules' = rules \/ (IsRejection(e) /\ rules' = rules \cup {run})
      /\ (Old(h) \/ Fits(h)) /\ IsRejection(e) => rules' = rules \cup {run}
  BY Typed, HandlerNames DEF SaveInTransaction, Execute
<1>1. /\ UNCHANGED <<log, case, crowded, request, overlapped>>
      /\ handled'[h] = handled[h] + 1 /\ \A p \in Handlers : p # h => handled'[p] = handled[p]
      /\ found'[h] = <<>>
      /\ \A p \in Projectors : p # h => found'[p] = found[p] /\ Entity(p)' = Entity(p)
      /\ Number(h) \in 1..Len(log) /\ e \in Event
      /\ Projected(h).case \in Case /\ Projected(h).version = Entity(h).version + 1
      /\ Projected(h).case = Applied(Entity(h).case, e)
      /\ Applied(Projected(h).case, e) = Projected(h).case
      /\ Projected(h) # Null
  BY <1>0, DoneWith
<1>2. /\ LastEvent' = LastEvent /\ handled'["cases"] = handled["cases"]
      /\ handled'["indexer"] = handled["indexer"] /\ Pending("cases")' = Pending("cases")
      /\ found'["cases"] = found["cases"] /\ Entity("cases")' = Entity("cases")
      /\ Rejected' = Rejected /\ ObjectionRuled' = ObjectionRuled /\ AppealRuled' = AppealRuled
  BY <1>1, HandlerNames DEF LastEvent, Rejected, ObjectionRuled, AppealRuled, Objections, Pending
<1>3. /\ Number(h) = handled[h] + 1 /\ handled[h] \in Nat /\ Len(log) \in Nat
      /\ Pending(h)' \/ (e = LastEvent /\ handled[h] = Len(log) - 1)
      /\ EventInTransaction = e /\ (RejectionWaits <=> IsRejection(e))
  BY <1>0, <1>1, Typed DEF Pending, Number, LastEvent, EventInTransaction, RejectionWaits
<1>4. OrNew(view)' = IF Fits(h) THEN Projected(h) ELSE OrNew(view)
  BY <1>0, <1>1 DEF OrNew
<1>5. Fits(h) => /\ Entity(h).version = handled[h] /\ Projected(h).version = handled'[h]
                 /\ view' = Projected(h) /\ view' # Null
  BY <1>0, <1>1, <1>3, Typed DEF Fits
<1>6. Fits(h) /\ Pending(h)' => CatchingUp'
  BY <1>1, <1>5 DEF CatchingUp
<1> HIDE DEF e
<1>7. LogInv'
  <2>1. view' # Null
    <3>1. CASE found[h][1] = Null
      <4>1. Entity(h).version = 0
        BY <3>1 DEF Entity, OrNew
      <4>2. handled[h] = 0 => Fits(h)
        BY <1>3, <4>1 DEF Fits
      <4> QED
        BY <1>0, <1>3, <1>5, <4>2 DEF LogInv
    <3>2. CASE found[h][1] # Null
      BY <1>0, <1>5, <3>2 DEF LogInv
    <3> QED
      BY <3>1, <3>2
  <2> QED
    BY <1>0, <1>1, <1>2, <1>3, <2>1, Typed DEF LogInv, Pending
<1>8. ShownInv'
  <2> SUFFICES ASSUME case # Null, ~ Pending("cases")
               PROVE  view' # Null /\ (CatchingUp' \/ Shows(view'.case, LastEvent))
    BY <1>1, <1>2 DEF ShownInv
  <2>1. CASE Fits(h)
    BY <1>1, <1>3, <1>5, <1>6, <2>1 DEF Shows
  <2>2. CASE ~ Fits(h)
    <3>1. ~ CatchingUp
      BY <1>0, <1>3, <2>2, Typed DEF CatchingUp, Fits
    <3> QED
      BY <1>0, <2>2, <3>1 DEF ShownInv
  <2> QED
    BY <2>1, <2>2
<1>9. FollowInv'
  <2> SUFFICES ASSUME ~ crowded, case # Null
               PROVE  /\ \A p \in Handlers : handled'[p] >= Len(log) - 1
                      /\ Applied(OrNew(view)'.case, LastEvent) = case
                      /\ \A p \in Projectors : found'[p] # <<>> => Applied(Entity(p)'.case, LastEvent) = case
                      /\ ~ Pending("cases") => view' # Null /\ view'.case = case
    BY <1>1, <1>2 DEF FollowInv
  <2>1. \A p \in Handlers : handled'[p] >= Len(log) - 1
    BY <1>0, <1>1, Typed DEF FollowInv
  <2>2. e = LastEvent
    <3>1. handled[h] = Len(log) - 1
      BY <1>0, Typed DEF FollowInv, Pending
    <3> QED
      BY <1>3, <3>1 DEF e, LastEvent
  <2>3. Projected(h).case = case /\ Applied(Projected(h).case, LastEvent) = case
    BY <1>0, <1>1, <2>2 DEF FollowInv
  <2>4. \A p \in Projectors : found'[p] # <<>> => Applied(Entity(p)'.case, LastEvent) = case
    BY <1>1 DEF FollowInv
  <2> QED
    BY <1>0, <1>4, <1>5, <2>1, <2>3, <2>4 DEF FollowInv
<1>10. ASSUME ~ overlapped, IsRejection(e)
       PROVE  /\ Rejected /\ rules = {} /\ request = "none" /\ rules' = {run}
              /\ Len(log) = Number(h) /\ handled["indexer"] >= Len(log) - 1
  <2>1. /\ Rejected /\ rules = {} /\ request = "none"
        /\ \A p \in Handlers : handled[p] >= Len(log) - 1
        /\ Entity(h).version >= handled[h]
    BY <1>0, <1>3, <1>10 DEF WaitingInv
  <2>2. Len(log) = Number(h)
    BY <1>0, <1>1, <1>3, <2>1
  <2>3. Old(h) \/ Fits(h)
    BY <1>0, <1>3, <2>1, Typed DEF Old, Fits
  <2> QED
    BY <1>0, <1>10, <2>1, <2>2, <2>3, HandlerNames
<1>11. VersionInv'
  <2> SUFFICES ASSUME ~ overlapped PROVE VersionInv'
    BY <1>1 DEF VersionInv
  <2>1. Len(log) <= handled[h] + 2 /\ (request = "process" => Len(log) <= handled[h] + 1)
    BY DEF VersionInv
  <2>2. Pending("cases") => OrNew(view)'.version >= handled["cases"]
    <3>1. Pending("cases") => handled["cases"] <= Len(log) - 1
      BY Typed, HandlerNames DEF Pending
    <3> QED
      BY <1>1, <1>3, <1>4, <1>5, <2>1, <3>1, Typed, HandlerNames DEF VersionInv
  <2>3. ~ Pending("cases") => \/ OrNew(view)'.version >= Len(log)
                              \/ CatchingUp' /\ request = "none" /\ \A r \in rules' : r.todo = {}
    <3> SUFFICES ASSUME ~ Pending("cases")
                 PROVE  \/ OrNew(view)'.version >= Len(log)
                        \/ CatchingUp' /\ request = "none" /\ \A r \in rules' : r.todo = {}
      OBVIOUS
    <3>1. CASE Fits(h) /\ Pending(h)'
      <4>1. Len(log) > handled[h] + 1
        BY <1>1, <3>1 DEF Pending
      <4>2. request = "none"
        BY <1>3, <2>1, <4>1 DEF ReadModelInv, TypeOK
      <4>3. ~ IsRejection(e)
        BY <1>3, <1>10, <4>1
      <4>4. ASSUME NEW r \in rules PROVE r.todo = {}
        <5>1. r.event <= handled[h] /\ r.event \in Nat
          BY DEF ReadModelInv, TypeOK, InOrder
        <5> QED
          BY <1>3, <4>1, <5>1 DEF RulesInv
      <4> QED
        BY <1>0, <1>6, <3>1, <4>2, <4>3, <4>4
    <3>2. CASE Fits(h) /\ ~ Pending(h)'
      BY <1>1, <1>3, <1>4, <1>5, <3>2
    <3>3. CASE ~ Fits(h)
      <4>1. ~ CatchingUp
        BY <1>0, <1>3, <3>3, Typed DEF CatchingUp, Fits
      <4> QED
        BY <1>4, <3>3, <4>1 DEF VersionInv
    <3> QED
      BY <3>1, <3>2, <3>3
  <2>4. /\ Len(log) <= handled'[h] + 2 /\ (request = "process" => Len(log) <= handled'[h] + 1)
    BY <1>1, <1>3, <2>1
  <2> QED
    BY <1>1, <1>2, <2>2, <2>3, <2>4 DEF VersionInv
<1>12. WaitingInv'
  <2> SUFFICES ASSUME ~ overlapped PROVE WaitingInv'
    BY <1>1 DEF WaitingInv
  <2>1. \A i \in 1..Len(log) : IsRejection(log[i]) => i <= Number(h) /\ i <= Number(h)'
    BY <1>1, <1>3 DEF WaitingInv, Number
  <2>2. ~ RejectionWaits'
    <3> SUFFICES ASSUME Pending(h)', IsRejection(log[Number(h)']) PROVE FALSE
      BY <1>1 DEF RejectionWaits, EventInTransaction
    <3>1. Number(h)' = Number(h) + 1 /\ Number(h)' \in 1..Len(log)
      BY <1>1, <1>3 DEF Number, Pending
    <3> QED
      BY <1>3, <2>1, <3>1
  <2> QED
    BY <1>1, <2>1, <2>2 DEF WaitingInv
<1>13. RulesInv'
  <2> SUFFICES ASSUME ~ overlapped, NEW r \in rules'
               PROVE  /\ Rejected /\ rules' = {r} /\ request = "none"
                      /\ r.todo = Laws => Len(log) = r.event
                      /\ r.todo # {} => Len(log) <= r.event + 1
                      /\ handled["indexer"] >= r.event - 1
                      /\ \A i \in r.event..Len(log) : log[i].type # "Objected"
                      /\ "bezwaar" \notin r.todo => ObjectionRuled
                      /\ "beroep" \notin r.todo => AppealRuled
    BY <1>1, <1>2 DEF RulesInv
  <2>1. CASE IsRejection(e)
    <3>1. r = run /\ rules' = {run}
      BY <1>10, <2>1
    <3>2. \A i \in run.event..Len(log) : log[i].type # "Objected"
      <4>1. Len(log) = Number(h) /\ e.type # "Objected"
        BY <1>10, <2>1 DEF IsRejection
      <4>2. \A i \in Number(h)..Len(log) : i = Number(h)
        BY <1>3, <4>1
      <4> QED
        BY <4>1, <4>2 DEF e
    <3> QED
      BY <1>3, <1>10, <2>1, <3>1, <3>2 DEF Laws
  <2>2. CASE ~ IsRejection(e)
    BY <1>0, <2>2 DEF RulesInv
  <2> QED
    BY <2>1, <2>2
<1>14. RuledInv'
  BY <1>0, <1>1, <1>2, <1>3, <1>10 DEF RuledInv
<1> QED
  BY <1>7, <1>8, <1>9, <1>11, <1>12, <1>13, <1>14

LEMMA IndexKeepsView ==
  ASSUME ViewInv, IndexEvent
  PROVE  /\ LogInv' /\ ShownInv' /\ FollowInv' /\ VersionInv'
         /\ WaitingInv' /\ RulesInv' /\ RuledInv'
<1>1. handled \in [Handlers -> Nat] /\ handled' = [handled EXCEPT !["indexer"] = @ + 1]
  BY DEF ViewInv, ReadModelInv, TypeOK, IndexEvent
<1>2. /\ handled' \in [Handlers -> Nat] /\ handled'["indexer"] >= handled["indexer"]
      /\ \A h \in Projectors : handled'[h] = handled[h]
  BY <1>1 DEF Handlers, Projectors
<1> QED
  BY <1>2, StillKeepsView DEF IndexEvent, history

-----------------------------------------------------------------------------
(* The laws                                                                 *)

\* A run of ApplyRules is for an event of the log, so there is a case.
LEMMA RunHasCase ==
  ASSUME ReadModelInv, LogInv, NEW r \in rules
  PROVE  /\ r \in [event : Nat, todo : SUBSET Laws, read : Seq(Case)]
         /\ 1 <= r.event /\ r.event <= handled["transaction"] /\ r.event <= Len(log)
         /\ case # Null
<1>1. /\ r \in [event : Nat, todo : SUBSET Laws, read : Seq(Case)]
      /\ 1 <= r.event /\ r.event <= handled["transaction"]
  BY DEF ReadModelInv, TypeOK, InOrder, LogInv
<1>2. r.event <= Len(log)
  BY <1>1, Typed, HandlerNames
<1>3. log # <<>>
  BY <1>1, <1>2
<1> QED
  BY <1>1, <1>2, <1>3 DEF LogInv

LEMMA ReadCaseKeepsView ==
  ASSUME ViewInv, NEW r \in rules, ReadCase(r)
  PROVE  /\ LogInv' /\ ShownInv' /\ FollowInv' /\ VersionInv'
         /\ WaitingInv' /\ RulesInv' /\ RuledInv'
<1> DEFINE next == [r EXCEPT !.read = <<view.case>>]
<1> USE DEF ViewInv
<1>0. /\ rules' = (rules \ {r}) \cup {next}
      /\ UNCHANGED <<log, case, crowded, view, handled, found, request, overlapped>>
  BY DEF ReadCase, stored, history
<1>1. next.event = r.event /\ next.todo = r.todo
  BY RunHasCase
<1> HIDE DEF next
<1>2. LogInv' /\ ShownInv' /\ FollowInv' /\ VersionInv' /\ WaitingInv'
  <2>1. \A q \in rules' : \E p \in rules : q.event = p.event /\ q.todo = p.todo
    BY <1>0, <1>1
  <2>2. handled' \in [Handlers -> Nat] /\ handled'["indexer"] >= handled["indexer"]
    BY <1>0, Typed, HandlerNames DEF ReadModelInv, TypeOK
  <2> QED
    BY <1>0, <2>1, <2>2, QuietKeepsView DEF stored
<1>3. /\ Rejected' = Rejected /\ ObjectionRuled' = ObjectionRuled /\ AppealRuled' = AppealRuled
  BY <1>0 DEF Rejected, ObjectionRuled, AppealRuled, Objections
<1>4. RulesInv'
  <2>1. ~ overlapped => rules' = {next}
    BY <1>0 DEF RulesInv
  <2> QED
    BY <1>0, <1>1, <1>3, <2>1 DEF RulesInv
<1>5. RuledInv'
  BY <1>0 DEF RuledInv
<1> QED
  BY <1>2, <1>4, <1>5

\* A run that ends has ruled.
LEMMA FinishKeepsView ==
  ASSUME ViewInv, NEW r \in rules, FinishRules(r)
  PROVE  /\ LogInv' /\ ShownInv' /\ FollowInv' /\ VersionInv'
         /\ WaitingInv' /\ RulesInv' /\ RuledInv'
<1> USE DEF ViewInv
<1>0. /\ rules' = rules \ {r} /\ (r.todo = {} \/ overlapped)
      /\ UNCHANGED <<log, case, crowded, view, handled, found, request, overlapped>>
  BY DEF FinishRules, stored, history
<1>1. LogInv' /\ ShownInv' /\ FollowInv' /\ VersionInv' /\ WaitingInv'
  <2>1. handled' \in [Handlers -> Nat] /\ handled'["indexer"] >= handled["indexer"]
    BY <1>0, Typed, HandlerNames DEF ReadModelInv, TypeOK
  <2> QED
    BY <1>0, <2>1, QuietKeepsView DEF stored
<1>2. /\ Rejected' = Rejected /\ ObjectionRuled' = ObjectionRuled /\ AppealRuled' = AppealRuled
  BY <1>0 DEF Rejected, ObjectionRuled, AppealRuled, Objections
<1>3. ~ overlapped => rules' = {} /\ ObjectionRuled /\ AppealRuled
  BY <1>0 DEF RulesInv
<1> QED
  BY <1>0, <1>1, <1>2, <1>3 DEF RulesInv, RuledInv

\* What a law finds among the events that the indexer has taken is what there is: nobody
\* can object between a rejection and its rulings.
LEMMA ObjectionsKnown ==
  ASSUME ViewInv, ~ overlapped, NEW r \in rules
  PROVE  Objections(handled["indexer"]) = Objections(Len(log))
<1> USE DEF ViewInv
<1>1. /\ handled["indexer"] \in Nat /\ handled["indexer"] <= Len(log) /\ Len(log) \in Nat
      /\ r.event \in Nat /\ handled["indexer"] >= r.event - 1
      /\ \A i \in r.event..Len(log) : log[i].type # "Objected"
  BY Typed, RunHasCase, HandlerNames DEF RulesInv
<1>2. ASSUME NEW i \in 1..Len(log), log[i].type = "Objected" PROVE i \in 1..handled["indexer"]
  BY <1>1, <1>2
<1> QED
  BY <1>1, <1>2 DEF Objections

\* The commands of the laws answer whether objection and appeal are open and leave the
\* decision as it is.
LEMMA RulingApplied ==
  ASSUME NEW law \in Laws, NEW c, NEW n, NEW d \in Case
  PROVE  LET e == Ruling(law, c, n)
         IN  /\ e.type \in {"ObjectionStatusDetermined", "AppealStatusDetermined"}
             /\ Applied(d, e).status = d.status /\ Applied(d, e).verdict = d.verdict
             /\ Applied(d, e).objection = IF law = "bezwaar" THEN Bezwaar(c, n) ELSE d.objection
             /\ Applied(d, e).appeal = IF law = "bezwaar" THEN d.appeal ELSE Beroep(c, n)
BY DEF Ruling, Applied, Case, Laws

LEMMA ApplyLawKeepsView ==
  ASSUME ViewInv, NEW r \in rules, NEW law \in Laws, ApplyLaw(r, law)
  PROVE  /\ LogInv' /\ ShownInv' /\ FollowInv' /\ VersionInv'
         /\ WaitingInv' /\ RulesInv' /\ RuledInv'
<1> DEFINE n == handled["indexer"]
           e == Ruling(law, r.read[1], n)
           next == [r EXCEPT !.todo = @ \ {law}, !.read = <<>>]
<1> USE DEF ViewInv
<1>0. /\ law \in r.todo /\ Publish(e) /\ rules' = (rules \ {r}) \cup {next}
      /\ UNCHANGED <<view, handled, found, request, overlapped>>
  BY DEF ApplyLaw, history
<1>1. /\ r \in [event : Nat, todo : SUBSET Laws, read : Seq(Case)]
      /\ 1 <= r.event /\ r.event <= handled["transaction"] /\ r.event <= Len(log)
      /\ case \in Case /\ case # Null
      /\ next.event = r.event /\ next.todo = r.todo \ {law}
  BY RunHasCase DEF ReadModelInv, TypeOK
<1>2. e \in Event /\ e.type \in {"ObjectionStatusDetermined", "AppealStatusDetermined"}
  BY RulingTyped, RulingApplied, <1>1
<1>3. /\ case'.status = case.status /\ case'.verdict = case.verdict
      /\ case'.objection = IF law = "bezwaar" THEN Bezwaar(r.read[1], n) ELSE case.objection
      /\ case'.appeal = IF law = "bezwaar" THEN case.appeal ELSE Beroep(r.read[1], n)
      /\ case' # Null
  BY <1>0, <1>1, <1>2, RulingApplied, Published
<1>4. /\ Len(log') = Len(log) + 1 /\ Len(log) \in Nat /\ log'[Len(log) + 1] = e
      /\ \A i \in 1..Len(log) : log'[i] = log[i]
  BY <1>0, <1>2, Published, Typed
<1> HIDE DEF e, next
<1>5. LogInv' /\ ShownInv' /\ FollowInv'
  <2>1. \A q \in rules' : \E p \in rules : q.event = p.event
    BY <1>0, <1>1
  <2> QED
    BY <1>0, <1>1, <1>2, <2>1, PublishKeepsView
<1>6. ~ overlapped =>
        /\ Rejected /\ rules = {r} /\ rules' = {next} /\ request = "none"
        /\ r.todo = Laws => Len(log) = r.event
        /\ Len(log) <= r.event + 1
        /\ handled["indexer"] >= r.event - 1
        /\ \A i \in r.event..Len(log) : log[i].type # "Objected"
        /\ "bezwaar" \notin r.todo => ObjectionRuled
        /\ "beroep" \notin r.todo => AppealRuled
  BY <1>0 DEF RulesInv
<1>7. VersionInv'
  <2>1. ~ overlapped => /\ ~ Pending("cases") => OrNew(view).version >= Len(log)
                        /\ Len(log) <= handled["transaction"] + 1
    BY <1>0, <1>1, <1>4, <1>6, VersionsSettled, Typed, HandlerNames
  <2> QED
    BY <1>0, <1>2, <1>6, <2>1, PublishKeepsVersions
<1>8. WaitingInv'
  <2> SUFFICES ASSUME ~ overlapped PROVE WaitingInv'
    BY <1>0 DEF WaitingInv
  <2>1. ~ IsRejection(e) /\ ~ RejectionWaits
    BY <1>2, <1>6 DEF IsRejection, WaitingInv
  <2>2. \A i \in 1..Len(log') : IsRejection(log'[i]) => i <= Number("transaction")
    BY <1>4, <2>1 DEF WaitingInv
  <2>3. ASSUME handled["transaction"] = Len(log) PROVE ~ RejectionWaits'
    BY <1>0, <1>4, <2>1, <2>3 DEF RejectionWaits, EventInTransaction, Number
  <2>4. ASSUME handled["transaction"] < Len(log) PROVE ~ RejectionWaits'
    BY <1>0, <1>4, <2>1, <2>4, Typed, HandlerNames DEF RejectionWaits, EventInTransaction, Number, Pending
  <2>5. ~ RejectionWaits'
    BY <2>3, <2>4, Typed, HandlerNames
  <2> QED
    BY <1>0, <2>2, <2>5 DEF WaitingInv, Number
<1>9. RulesInv'
  <2> SUFFICES ASSUME ~ overlapped
               PROVE  /\ Rejected'
                      /\ next.todo # Laws
                      /\ next.todo # {} => Len(log') <= next.event + 1
                      /\ \A i \in next.event..Len(log') : log'[i].type # "Objected"
                      /\ "bezwaar" \notin next.todo => ObjectionRuled'
                      /\ "beroep" \notin next.todo => AppealRuled'
    BY <1>0, <1>1, <1>6 DEF RulesInv
  <2>1. Rejected' /\ next.todo # Laws
    BY <1>1, <1>3, <1>6 DEF Rejected
  <2>2. next.todo # {} => Len(log') <= next.event + 1
    <3>1. next.todo # {} => r.todo = Laws
      BY <1>0, <1>1 DEF Laws
    <3> QED
      BY <1>1, <1>4, <1>6, <3>1
  <2>3. \A i \in next.event..Len(log') : log'[i].type # "Objected"
    <3> SUFFICES ASSUME NEW i \in next.event..Len(log') PROVE log'[i].type # "Objected"
      OBVIOUS
    <3>1. CASE i = Len(log) + 1
      BY <1>2, <1>4, <3>1
    <3>2. CASE i # Len(log) + 1
      <4>1. i \in r.event..Len(log) /\ i \in 1..Len(log)
        BY <1>1, <1>4, <3>2
      <4> QED
        BY <1>4, <1>6, <4>1
    <3> QED
      BY <3>1, <3>2
  <2>4. Objections(Len(log))' = Objections(Len(log)) /\ Objections(n) = Objections(Len(log))
    <3>1. Objections(Len(log))' = Objections(Len(log))
      BY <1>2, <1>4 DEF Objections
    <3> QED
      BY <3>1, ObjectionsKnown
  <2>5. "bezwaar" \notin next.todo => ObjectionRuled'
    <3>1. CASE law = "bezwaar"
      BY <1>3, <2>4, <3>1 DEF ObjectionRuled, Bezwaar
    <3>2. CASE law # "bezwaar"
      BY <1>1, <1>3, <1>6, <2>4, <3>2 DEF ObjectionRuled
    <3> QED
      BY <3>1, <3>2
  <2>6. "beroep" \notin next.todo => AppealRuled'
    <3>1. CASE law = "beroep"
      BY <1>3, <2>4, <3>1 DEF AppealRuled, Beroep, Flag
    <3>2. CASE law # "beroep"
      BY <1>1, <1>3, <1>6, <2>4, <3>2 DEF AppealRuled, Laws
    <3> QED
      BY <3>1, <3>2
  <2> QED
    BY <2>1, <2>2, <2>3, <2>5, <2>6
<1>10. RuledInv'
  BY <1>0 DEF RuledInv
<1> QED
  BY <1>5, <1>7, <1>8, <1>9, <1>10

-----------------------------------------------------------------------------
(* Reset of the case manager                                                *)

\* With no case and nothing under way, there is nothing to show.
NothingYet ==
  /\ log = <<>> /\ case = Null /\ view = Null /\ rules = {} /\ request = "none"
  /\ \A h \in Handlers : handled[h] = 0
  /\ \A h \in Projectors : found[h] = <<>>

LEMMA NothingToShow ==
  NothingYet => /\ LogInv /\ ShownInv /\ FollowInv /\ VersionInv
                /\ WaitingInv /\ RulesInv /\ RuledInv
<1> SUFFICES ASSUME NothingYet
             PROVE  /\ LogInv /\ ShownInv /\ FollowInv /\ VersionInv
                    /\ WaitingInv /\ RulesInv /\ RuledInv
  OBVIOUS
<1> USE DEF NothingYet
<1>1. /\ \A h \in Handlers : handled[h] = 0 /\ ~ Pending(h)
      /\ Len(log) = 0 /\ OrNew(view).version = 0
  BY DEF Pending, OrNew
<1>2. LogInv /\ ShownInv /\ FollowInv
  BY HandlerNames DEF LogInv, ShownInv, FollowInv
<1>3. VersionInv
  BY <1>1, HandlerNames DEF VersionInv
<1>4. WaitingInv
  BY <1>1, HandlerNames DEF WaitingInv, RejectionWaits
<1>5. RulesInv /\ RuledInv
  BY DEF RulesInv, RuledInv, Rejected
<1> QED
  BY <1>2, <1>3, <1>4, <1>5

LEMMA ResetKeepsView ==
  ASSUME ViewInv, BeginReset \/ EndReset \/ FinishStray
  PROVE  /\ LogInv' /\ ShownInv' /\ FollowInv' /\ VersionInv'
         /\ WaitingInv' /\ RulesInv' /\ RuledInv'
<1>1. CASE BeginReset \/ FinishStray
  <2>1. UNCHANGED <<stored, view, handled, found, rules, request, overlapped>>
    BY <1>1 DEF BeginReset, FinishStray, history
  <2>2. handled \in [Handlers -> Nat] /\ handled'["indexer"] >= handled["indexer"]
    BY <2>1, Typed, HandlerNames DEF ViewInv, ReadModelInv, TypeOK
  <2> QED
    BY <2>1, <2>2, StillKeepsView
<1>2. CASE EndReset
  <2>1. NothingYet'
    BY <1>2 DEF EndReset, NothingYet
  <2> QED
    BY <2>1, NothingToShow, PTL
<1> QED
  BY <1>1, <1>2

-----------------------------------------------------------------------------
(* The invariant                                                            *)

LEMMA ViewInitHolds == Init => ViewInv
<1> SUFFICES ASSUME Init PROVE ViewInv
  OBVIOUS
<1>1. NothingYet
  BY DEF Init, NothingYet
<1> QED
  BY <1>1, InitHolds, NothingToShow DEF ViewInv

LEMMA StepKeepsView == ViewInv /\ [Next]_vars => ViewInv'
<1> SUFFICES ASSUME ViewInv, [Next]_vars PROVE ViewInv'
  OBVIOUS
<1>1. ReadModelInv'
  BY StepKeeps DEF ViewInv
<1>2. CASE Requests
  BY <1>1, <1>2, RequestsKeepView, ResetKeepsView DEF Requests, ViewInv
<1>3. CASE ProcessCase
  BY <1>1, <1>3, ProcessKeepsView DEF ViewInv
<1>4. CASE Handling
  BY <1>1, <1>4, FindKeepsView, SaveInTransactionKeepsView, SaveInCasesKeepsView, IndexKeepsView
     DEF Handling, ViewInv
<1>5. CASE ApplyRules
  BY <1>1, <1>5, ReadCaseKeepsView, FinishKeepsView, ApplyLawKeepsView DEF ApplyRules, ViewInv
<1>6. CASE EndReset \/ FinishStray
  BY <1>1, <1>6, ResetKeepsView DEF ViewInv
<1>7. CASE UNCHANGED vars
  <2>1. UNCHANGED <<stored, view, handled, found, rules, request, overlapped>>
    BY <1>7 DEF vars, history
  <2>2. handled \in [Handlers -> Nat] /\ handled'["indexer"] >= handled["indexer"]
    BY <2>1, Typed, HandlerNames DEF ViewInv, ReadModelInv, TypeOK
  <2> QED
    BY <1>1, <2>1, <2>2, StillKeepsView DEF ViewInv
<1> QED
  BY <1>2, <1>3, <1>4, <1>5, <1>6, <1>7 DEF Next

\* What the read model and the laws rely on holds in every state: of the log, of what
\* the projectors have found, of the versions, and of each rejection.
THEOREM ViewInvariantHolds == Spec => []ViewInv
<1>1. Init => ViewInv
  BY ViewInitHolds
<1>2. ViewInv /\ [Next]_vars => ViewInv'
  BY StepKeepsView
<1> QED
  BY <1>1, <1>2, PTL DEF Spec

\* If events come one at a time, the read model shows at rest what they give, although
\* both handlers apply each of them, in either order and with their steps interleaved.
THEOREM ViewFollows == Spec => []ViewFollowsEvents
<1>1. ViewInv => ViewFollowsEvents
  BY HandlerNames DEF ViewInv, FollowInv, ViewFollowsEvents, AtRest
<1> QED
  BY <1>1, ViewInvariantHolds, PTL

\* Whatever overlaps, the read model shows the last event at rest: the handler that
\* saves an older state over it is then at a version that lets it catch up.
THEOREM LastShown == Spec => []LastEventShown
<1>1. ViewInv => LastEventShown
  BY HandlerNames DEF ViewInv, ShownInv, CatchingUp, Shows, LastEvent, LastEventShown, AtRest
<1> QED
  BY <1>1, ViewInvariantHolds, PTL

\* A rejection gets its rulings where requests leave time for it: the transaction does
\* not pass it over, and the laws know of every objection.
THEOREM RejectionsRuled == Spec => []RejectionIsRuled
<1>1. ViewInv => RejectionIsRuled
  BY HandlerNames DEF ViewInv, RuledInv, RejectionWaits, RejectionIsRuled, AtRest
<1> QED
  BY <1>1, ViewInvariantHolds, PTL

\* A law that is to be applied finds the case: once its event has come to the transaction the
\* read model has the case, and no handler takes it out again.
THEOREM LawsFind == Spec => []LawsFindCase
<1>1. ViewInv => LawsFindCase
  BY HandlerNames DEF ViewInv, ReadModelInv, TypeOK, InOrder, LogInv, LawsFindCase
<1> QED
  BY <1>1, ViewInvariantHolds, PTL

=============================================================================
