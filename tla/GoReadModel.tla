---------------------------- MODULE GoReadModel ----------------------------
(***************************************************************************)
(* The read model of the Go case manager and the laws applied to its       *)
(* events.  Each event of a case is handed to three handlers, each with a  *)
(* queue and a goroutine of its own:                                       *)
(*                                                                         *)
(*   transaction   projects the event on the read model if its version     *)
(*                 fits, then has the laws applied;                        *)
(*   cases         projects the event on the same read model, whatever its *)
(*                 version;                                                *)
(*   indexer       keeps the list of events that the laws read.            *)
(*                                                                         *)
(* A projection finds the case in the repository and saves it in two       *)
(* steps, and no lock spans both handlers.  A law reads the case from the  *)
(* read model and answers with a command, hence with a further event.      *)
(*                                                                         *)
(* One case is followed, decided under a law that is open to objection.    *)
(* Extensive says whether that law prescribes the extensive procedure,     *)
(* which lets one appeal without an objection.  The slice that the laws    *)
(* select from (RulesDataFrame) has no such column, so that in the program *)
(* it is FALSE for every law; TRUE is what the law appeal would answer if  *)
(* the slice had it.                                                       *)
(***************************************************************************)
EXTENDS Integers, Sequences, FiniteSets

CONSTANTS
  Claims,       \* claims that may be added to the case
  Extensive,    \* may one appeal without an objection?
  Null,
  MaxEvents,    \* bound: no request starts after that many events
  MaxRushed,    \* bound: nor after that many, once requests have overlapped
  MaxResets     \* bound: so many resets of the case manager

Projectors == {"transaction", "cases"}
Handlers   == Projectors \cup {"indexer"}
Laws       == {"bezwaar", "beroep"}
Statuses   == {"SUBMITTED", "IN_REVIEW", "DECIDED", "OBJECTED"}
Verdicts   == {"undecided", "approved", "rejected"}    \* Approved: nil, true, false
Answers    == {"unknown", "yes", "no"}                 \* Possible: nil, true, false

Case  == [status : Statuses, verdict : Verdicts, claims : SUBSET Claims,
          objection : Answers, appeal : Answers]
\* Of the repository: a case, the claims that its list of claims holds more than once,
\* and its version.
Entry == [case : Case, repeated : SUBSET Claims, version : Nat]

Event == [type : {"Submitted", "Reset", "AddedToManualReview", "AutomaticallyDecided",
                  "Objected"}]
         \cup [type : {"Decided"}, approved : BOOLEAN]
         \cup [type : {"AddClaim"}, claim : Claims]
         \cup [type : {"ObjectionStatusDetermined", "AppealStatusDetermined"},
               possible : {"yes", "no"}]

ASSUME ReadModelConstants ==
  /\ Null \notin Case \cup Entry /\ Extensive \in BOOLEAN
  /\ MaxEvents \in Nat /\ MaxRushed \in Nat /\ MaxResets \in Nat

VARIABLES
  log,          \* the event store: the events of the case
  case,         \* the aggregate that they yield, or Null
  view,         \* caseRepo: what it holds of the case, or Null
  handled,      \* handled[h]: how many events handler h is done with
  found,        \* found[h]: <<>>, or what projector h has found and not yet saved
  rules,        \* runs of ApplyRules on a rejection: the event, the laws to go, what was read
  strays,       \* how many of them a reset has left behind
  wg,           \* the counter of the current wait group
  request,      \* "none", or "process": SubmitCase goes on with a second command
  closing,      \* has Reset begun to close the event buses?
  resets,
  crowded,      \* was an event saved before every handler was done with the one before?
  overlapped,   \* did a request start while something was under way?
  hasty         \* did a reset?

stored  == <<log, case, crowded>>
history == <<resets, overlapped, hasty>>
vars == <<stored, view, handled, found, rules, strays, wg, request, closing, history>>

-----------------------------------------------------------------------------
(* Cases and events                                                         *)

NewCase == [status |-> "SUBMITTED", verdict |-> "undecided", claims |-> {},
            objection |-> "unknown", appeal |-> "unknown"]
\* A mistake: the flag of the event as text, instead of a verdict.
VerdictAsGiven(approved) == IF approved THEN "true" ELSE "false"

Verdict(approved) == IF approved THEN "approved" ELSE "rejected"

\* What an event makes of a case, to the aggregate and to the projector, which applies
\* "Submitted" to a case that exists as well.  They differ in the list of claims: the
\* aggregate looks before it adds one, the projector appends it (repeated, below).
Applied(c, e) ==
  CASE e.type = "Submitted"            -> [c EXCEPT !.status = "SUBMITTED"]
    [] e.type = "Reset"                -> [c EXCEPT !.status = "SUBMITTED", !.verdict = "undecided"]
    [] e.type = "AddedToManualReview"  -> [c EXCEPT !.status = "IN_REVIEW"]
    [] e.type = "AutomaticallyDecided" -> [c EXCEPT !.status = "DECIDED", !.verdict = "approved"]
    [] e.type = "Decided"              -> [c EXCEPT !.status = "DECIDED", !.verdict = Verdict(e.approved)]
    [] e.type = "Objected"             -> [c EXCEPT !.status = "OBJECTED"]
    [] e.type = "AddClaim"             -> [c EXCEPT !.claims = @ \cup {e.claim}]
    [] e.type = "ObjectionStatusDetermined" -> [c EXCEPT !.objection = e.possible]
    [] e.type = "AppealStatusDetermined"    -> [c EXCEPT !.appeal = e.possible]

\* Which commands the aggregate accepts, by the event they cause.
Accepts(c, e) ==
  CASE e.type = "Submitted" -> c = Null
    [] e.type = "Reset"     -> c # Null
    [] e.type \in {"AddedToManualReview", "AutomaticallyDecided"} ->
         c # Null /\ c.status \in {"SUBMITTED", "OBJECTED"}
    [] e.type = "Decided"   -> c # Null /\ c.status \in {"IN_REVIEW", "OBJECTED"}
    [] e.type = "Objected"  -> c # Null /\ c.status = "DECIDED"
    [] e.type = "AddClaim"  -> c # Null /\ c.status # "DECIDED"
    [] OTHER                -> c # Null

\* The event store takes the event, and the event bus hands it to every handler.
Pending(h) == handled[h] < Len(log)
Publish(e) ==
  /\ log' = Append(log, e)
  /\ crowded' = (crowded \/ \E h \in Handlers : Pending(h))
  /\ case' = Applied(IF case = Null THEN NewCase ELSE case, e)

\* "applies" of the two laws: a decision by an officer that rejects.
IsRejection(e) == e.type = "Decided" /\ e.approved = FALSE

\* The laws look for an objection among the events that the indexer has taken.
Objections(n) == {i \in 1..n : log[i].type = "Objected"}

Flag(b) == IF b THEN "yes" ELSE "no"
Bezwaar(c, n) == Flag(Objections(n) = {})
Beroep(c, n)  == Flag(\/ Extensive
                      \/ /\ Objections(n) # {}
                         /\ c.status = "DECIDED" /\ c.verdict = "rejected")

Ruling(law, c, n) ==
  IF law = "bezwaar" THEN [type |-> "ObjectionStatusDetermined", possible |-> Bezwaar(c, n)]
                     ELSE [type |-> "AppealStatusDetermined", possible |-> Beroep(c, n)]

-----------------------------------------------------------------------------
AtRest == /\ request = "none" /\ rules = {} /\ ~ closing
          /\ \A h \in Handlers : ~ Pending(h)

Init ==
  /\ log = <<>> /\ case = Null /\ view = Null
  /\ handled = [h \in Handlers |-> 0]
  /\ found = [h \in Projectors |-> <<>>]
  /\ rules = {} /\ strays = 0 /\ wg = 0
  /\ request = "none" /\ closing = FALSE /\ resets = 0
  /\ crowded = FALSE /\ overlapped = FALSE /\ hasty = FALSE

-----------------------------------------------------------------------------
(* Requests                                                                 *)

Request(e, then) ==
  /\ request = "none"
  /\ Len(log) < IF overlapped \/ ~ AtRest THEN MaxRushed ELSE MaxEvents
  /\ Accepts(case, e)
  /\ Publish(e)
  /\ request' = then
  /\ overlapped' = (overlapped \/ ~ AtRest)
  /\ hasty' = (hasty \/ closing)
  /\ UNCHANGED <<view, handled, found, rules, strays, wg, closing, resets>>

\* SubmitCase files the case, or resets the one that there is, and processes it.
SubmitCase == \E type \in {"Submitted", "Reset"} : Request([type |-> type], "process")

\* The second command is refused, or loses the race of versions to another request.
ProcessCase ==
  /\ request = "process"
  /\ request' = "none"
  /\ \/ \E type \in {"AddedToManualReview", "AutomaticallyDecided"} :
          Accepts(case, [type |-> type]) /\ Publish([type |-> type])
     \/ /\ ~ Accepts(case, [type |-> "AddedToManualReview"]) \/ overlapped
        /\ UNCHANGED stored
  /\ UNCHANGED <<view, handled, found, rules, strays, wg, closing, history>>

\* The case is looked up in the read model first.
CompleteManualReview ==
  /\ view # Null
  /\ \E approved \in BOOLEAN : Request([type |-> "Decided", approved |-> approved], "none")

ObjectCase == Request([type |-> "Objected"], "none")

AddClaimToCase == \E c \in Claims : Request([type |-> "AddClaim", claim |-> c], "none")

-----------------------------------------------------------------------------
(* The handlers                                                             *)

Find(h) ==
  /\ Pending(h) /\ found[h] = <<>>
  /\ found' = [found EXCEPT ![h] = <<view>>]
  /\ UNCHANGED <<stored, view, handled, rules, strays, wg, request, closing, history>>

\* A case that is not there is projected on as a new one.
OrNew(entry) ==
  IF entry = Null THEN [case |-> NewCase, repeated |-> {}, version |-> 0] ELSE entry

\* What projector h has found, and the event that it is at.
Entity(h) == OrNew(found[h][1])
Number(h) == handled[h] + 1
Claimed(e)   == IF e.type = "AddClaim" THEN {e.claim} ELSE {}
Projected(h) ==
  [case     |-> Applied(Entity(h).case, log[Number(h)]),
   repeated |-> Entity(h).repeated \cup (Claimed(log[Number(h)]) \cap Entity(h).case.claims),
   version  |-> Entity(h).version + 1]

Done(h) == /\ handled' = [handled EXCEPT ![h] = @ + 1]
           /\ found' = [found EXCEPT ![h] = <<>>]
           /\ UNCHANGED <<stored, strays, request, closing, history>>

\* Executor: recordEvent counts a goroutine in and starts it.  Of the events that it
\* is called for only a rejection matches a law; the goroutines of the others count
\* themselves out at once and are left out.
Execute(e) ==
  IF IsRejection(e)
    THEN /\ rules' = rules \cup {[event |-> Number("transaction"), todo |-> Laws, read |-> <<>>]}
         /\ wg' = wg + 1
    ELSE UNCHANGED <<rules, wg>>

\* An event that the entity has is skipped and one too far ahead of it is an error;
\* only the error keeps the Executor from its turn.
OldStrictly(h) == Number(h) < Entity(h).version
Old(h)  == Number(h) <= Entity(h).version
Fits(h) == Number(h) = Entity(h).version + 1

SaveInTransactionAlways ==
  LET h == "transaction"
  IN  /\ found[h] # <<>>
      /\ view' = IF Fits(h) THEN Projected(h) ELSE Entity(h)
      /\ IF Old(h) \/ Fits(h) THEN Execute(log[Number(h)]) ELSE UNCHANGED <<rules, wg>>
      /\ Done(h)
SaveInTransactionOrWait ==
  LET h == "transaction"
  IN  /\ found[h] # <<>> /\ (Old(h) \/ Fits(h))
      /\ view' = IF Fits(h) THEN Projected(h) ELSE view
      /\ Execute(log[Number(h)])
      /\ Done(h)
SaveInTransaction ==
  LET h == "transaction"
  IN  /\ found[h] # <<>>
      /\ view' = IF Fits(h) THEN Projected(h) ELSE view
      /\ IF Old(h) \/ Fits(h) THEN Execute(log[Number(h)]) ELSE UNCHANGED <<rules, wg>>
      /\ Done(h)

\* A case that is not found is created by its first event, at that event's version,
\* and is an error for any other.
SaveInCases ==
  LET h == "cases"
      e == log[Number(h)]
  IN  /\ found[h] # <<>>
      /\ view' = IF found[h][1] # Null THEN Projected(h)
                 ELSE IF e.type = "Submitted"
                   THEN [case |-> NewCase, repeated |-> {}, version |-> Number(h)]
                 ELSE view
      /\ Done(h)
      /\ UNCHANGED <<rules, wg>>

IndexEvent ==
  /\ Pending("indexer")
  /\ handled' = [handled EXCEPT !["indexer"] = @ + 1]
  /\ UNCHANGED <<stored, view, found, rules, strays, wg, request, closing, history>>

-----------------------------------------------------------------------------
(* ApplyRules                                                               *)

\* The case is read once per law.
ReadCase(r) ==
  /\ r \in rules /\ r.todo # {} /\ r.read = <<>> /\ view # Null
  /\ rules' = (rules \ {r}) \cup {[r EXCEPT !.read = <<view.case>>]}
  /\ UNCHANGED <<stored, view, handled, found, strays, wg, request, closing, history>>

\* The law is evaluated and answers with a command.
ApplyLaw(r, law) ==
  /\ r \in rules /\ law \in r.todo /\ r.read # <<>>
  /\ Publish(Ruling(law, r.read[1], handled["indexer"]))
  /\ rules' = (rules \ {r}) \cup {[r EXCEPT !.todo = @ \ {law}, !.read = <<>>]}
  /\ UNCHANGED <<view, handled, found, strays, wg, request, closing, history>>

\* The goroutine is done: with all laws, or at the first one that fails.  The command
\* of a law can lose the race of versions only against the one of another request.
FinishRulesUncounted(r) ==
  /\ r \in rules /\ (r.todo = {} \/ overlapped)
  /\ rules' = rules \ {r}
  /\ wg' = IF r.todo = {} THEN wg - 1 ELSE wg
  /\ UNCHANGED <<stored, view, handled, found, strays, request, closing, history>>
FinishRules(r) ==
  /\ r \in rules /\ (r.todo = {} \/ overlapped)
  /\ rules' = rules \ {r}
  /\ wg' = wg - 1
  /\ UNCHANGED <<stored, view, handled, found, strays, request, closing, history>>

-----------------------------------------------------------------------------
(* Reset of the case manager                                                *)

\* The wait group is waited for: it counts the goroutines of the laws, not the events
\* that wait for a handler.
BeginReset ==
  /\ wg = 0 /\ ~ closing /\ resets < MaxResets
  /\ closing' = TRUE /\ resets' = resets + 1
  /\ hasty' = (hasty \/ ~ AtRest)
  /\ UNCHANGED <<stored, view, handled, found, rules, strays, wg, request, overlapped>>

\* Once the buses are closed no handler runs; everything is set up anew, the wait
\* group too.  What runs of ApplyRules there are find no case and end.
EndReset ==
  /\ closing /\ \A h \in Projectors : found[h] = <<>>
  /\ log' = <<>> /\ case' = Null /\ view' = Null
  /\ handled' = [h \in Handlers |-> 0]
  /\ strays' = strays + Cardinality(rules) /\ rules' = {} /\ wg' = 0
  /\ request' = "none" /\ closing' = FALSE
  /\ crowded' = FALSE /\ overlapped' = FALSE
  /\ UNCHANGED <<found, resets, hasty>>

\* A run that was left behind counts itself out of the group that there is now.
FinishStray ==
  /\ strays > 0
  /\ strays' = strays - 1 /\ wg' = wg - 1
  /\ UNCHANGED <<stored, view, handled, found, rules, request, closing, history>>

-----------------------------------------------------------------------------

Requests == SubmitCase \/ CompleteManualReview \/ ObjectCase \/ AddClaimToCase \/ BeginReset

Handling == (\E h \in Projectors : Find(h)) \/ SaveInTransaction \/ SaveInCases \/ IndexEvent

ApplyRules == \E r \in rules : \/ ReadCase(r) \/ FinishRules(r)
                               \/ \E law \in Laws : ApplyLaw(r, law)

Next == Requests \/ ProcessCase \/ Handling \/ ApplyRules \/ EndReset \/ FinishStray

\* Goroutines that can run do: each handler, each run of ApplyRules, the request that
\* has begun.  Nobody has to make a request.
Fairness ==
  /\ WF_vars(ProcessCase) /\ WF_vars(EndReset) /\ WF_vars(IndexEvent)
  /\ \A h \in Projectors : WF_vars(Find(h))
  /\ WF_vars(SaveInTransaction) /\ WF_vars(SaveInCases)
  /\ WF_vars(ApplyRules) /\ WF_vars(FinishStray)

Spec == Init /\ [][Next]_vars /\ Fairness
-----------------------------------------------------------------------------
(* Properties                                                               *)

TypeOK ==
  /\ log \in Seq(Event)
  /\ case \in Case \cup {Null}
  /\ view \in Entry \cup {Null}
  /\ handled \in [Handlers -> Nat]
  /\ found \in [Projectors -> Seq(Entry \cup {Null})]
  /\ rules \subseteq [event : Nat, todo : SUBSET Laws, read : Seq(Case)]
  /\ strays \in Nat /\ wg \in Int
  /\ request \in {"none", "process"}
  /\ closing \in BOOLEAN /\ resets \in Nat
  /\ crowded \in BOOLEAN /\ overlapped \in BOOLEAN /\ hasty \in BOOLEAN

\* Handlers take the events in order and project what they have found; each run of
\* ApplyRules is for an event of its own.
InOrder ==
  /\ \A h \in Handlers : handled[h] <= Len(log)
  /\ \A h \in Projectors : found[h] # <<>> => Pending(h)
  /\ \A r \in rules : r.event <= handled["transaction"]
  /\ \A r, q \in rules : r.event = q.event => r = q

\* "Lock to ensure atomic operations on the repo": the two handlers that write the read
\* model do not get into each other's way, so that where requests leave the system time
\* to come to rest it then shows what the events give, claims in its list that it repeats
\* counted once.  (The lock is not shared: a case that is filed again may keep the verdict
\* on the earlier filing, and one that is rejected may go on being in review.)
ViewAgrees == AtRest /\ ~ overlapped /\ case # Null => view # Null /\ view.case = case

\* If events, too, come one at a time, the read model shows the status, the verdict, the
\* remedies and the set of claims that the events give, although each event is applied by
\* both handlers, in either order and with their steps interleaved.  It may still list a
\* claim twice, once for each handler.
ViewFollowsEvents == AtRest /\ ~ crowded /\ case # Null => view # Null /\ view.case = case

\* Whatever overlaps, the last event is not lost: at rest the read model shows it (a claim
\* that was added last is in its list).
LastEventShown ==
  AtRest /\ case # Null => view # Null /\ Applied(view.case, log[Len(log)]) = view.case

\* The rulings on a rejection: objection is open unless there was one, and appeal has an
\* answer, which is yes where one may appeal without an objection, and no elsewhere unless
\* there was one.
Rejected == case # Null /\ case.status = "DECIDED" /\ case.verdict = "rejected"
ObjectionRuled == case.objection = Flag(Objections(Len(log)) = {})
AppealRuled ==
  IF Extensive THEN case.appeal = "yes"
               ELSE case.appeal \in IF Objections(Len(log)) = {} THEN {"no"} ELSE {"yes", "no"}

\* A case that an officer has rejected gets its rulings where requests leave time for it,
\* whatever state of the read model the laws come upon.
RejectionIsRuled == AtRest /\ ~ overlapped /\ Rejected => ObjectionRuled /\ AppealRuled

\* Unless a reset starts while events wait for a handler or during a request, every run
\* of ApplyRules counts itself out of the group that counted it in.
WaitGroupCounts == ~ hasty => wg = Cardinality(rules)

\* The invariant that every step keeps: a reset that is not hasty finds nothing under way.
ReadModelInv ==
  /\ TypeOK /\ InOrder /\ WaitGroupCounts
  /\ IsFiniteSet(rules)
  /\ ~ hasty => strays = 0
  /\ closing /\ ~ hasty =>
       request = "none" /\ rules = {} /\ \A h \in Handlers : ~ Pending(h)

\* The event that the transaction is at, if it has one to take.
EventInTransaction == log[Number("transaction")]

\* A case begins with "Submitted", and is in the read model once a projector is done with
\* that or has found it; laws are applied to events of the log.
LogInv ==
  /\ log = <<>> <=> case = Null
  /\ log = <<>> => view = Null
  /\ log # <<>> => log[1].type = "Submitted"
  /\ \A h \in Projectors : handled[h] > 0 \/ (found[h] # <<>> /\ found[h][1] # Null) => view # Null
  /\ found["cases"] # <<>> /\ found["cases"][1] = Null => handled["cases"] = 0
  /\ \A r \in rules : r.event >= 1

\* The transaction has saved over what "cases" did, an older state, at the version of
\* the last event it took: the events that are left to it fit.
CatchingUp ==
  /\ Pending("transaction") /\ view # Null
  /\ view.version = handled["transaction"]
  /\ found["transaction"] # <<>> => Entity("transaction").version = handled["transaction"]

\* A law that is to be applied finds the case in the read model, so that ApplyRules does
\* not end before it has asked the laws.
LawsFindCase == rules # {} => view # Null

\* Whether an event changes a case no more.
Shows(c, e) == Applied(c, e) = c
LastEvent == log[Len(log)]

\* Once "cases" is done with the last event, the read model shows it, or will.
ShownInv ==
  case # Null /\ ~ Pending("cases") =>
    view # Null /\ (CatchingUp \/ Shows(view.case, LastEvent))

\* While events come one at a time, whatever is found and saved is the case before the
\* last event or after it.
FollowInv ==
  ~ crowded /\ case # Null =>
    /\ \A h \in Handlers : handled[h] >= Len(log) - 1
    /\ Applied(OrNew(view).case, LastEvent) = case
    /\ \A h \in Projectors : found[h] # <<>> => Applied(Entity(h).case, LastEvent) = case
    /\ ~ Pending("cases") => view # Null /\ view.case = case

\* Where requests do not overlap, the read model does not fall behind the events that
\* "cases" has taken, unless no event is to come before the transaction has caught up;
\* and the transaction is at most two events behind.
VersionInv ==
  ~ overlapped =>
    /\ Pending("cases") => /\ OrNew(view).version >= handled["cases"]
                           /\ found["cases"] # <<>> => Entity("cases").version >= handled["cases"]
    /\ ~ Pending("cases") => \/ OrNew(view).version >= Len(log)
                             \/ CatchingUp /\ request = "none" /\ \A r \in rules : r.todo = {}
    /\ Len(log) <= handled["transaction"] + 2
    /\ request = "process" => Len(log) <= handled["transaction"] + 1

\* A rejection that waits for the transaction is the last event, all handlers are done
\* with those before it, and the version of what the transaction finds is high enough.
RejectionWaits == Pending("transaction") /\ IsRejection(EventInTransaction)
WaitingInv ==
  ~ overlapped =>
    /\ \A i \in 1..Len(log) : IsRejection(log[i]) => i <= Number("transaction")
    /\ RejectionWaits =>
         /\ Rejected /\ rules = {} /\ request = "none"
         /\ \A h \in Handlers : handled[h] >= Len(log) - 1
         /\ OrNew(view).version >= handled["transaction"]
         /\ found["transaction"] # <<>> => Entity("transaction").version >= handled["transaction"]

\* Laws are applied to a rejection: nobody has objected to it, and the laws that have
\* answered are right about the objections before it.
RulesInv ==
  ~ overlapped => \A r \in rules :
    /\ Rejected /\ rules = {r} /\ request = "none"
    /\ r.todo = Laws => Len(log) = r.event
    /\ r.todo # {} => Len(log) <= r.event + 1
    /\ handled["indexer"] >= r.event - 1
    /\ \A i \in r.event..Len(log) : log[i].type # "Objected"
    /\ "bezwaar" \notin r.todo => ObjectionRuled
    /\ "beroep" \notin r.todo => AppealRuled

\* Every rejection waits for the transaction, is being ruled on or has its rulings.
RuledInv ==
  ~ overlapped /\ Rejected =>
    RejectionWaits \/ rules # {} \/ (ObjectionRuled /\ AppealRuled)

\* The invariant behind ViewFollowsEvents, LastEventShown and RejectionIsRuled.
ViewInv ==
  /\ ReadModelInv /\ LogInv /\ ShownInv /\ FollowInv
  /\ VersionInv /\ WaitingInv /\ RulesInv /\ RuledInv

\* How many steps handlers and laws have left: two for an event that waits for a
\* projector, one for the indexer; a law reads, and answers with an event that three
\* handlers take; a rejection has both laws applied.
One(b) == IF b THEN 1 ELSE 0
Waiting(h) == Len(log) - handled[h]
RejectionsWaiting == {i \in Number("transaction")..Len(log) : IsRejection(log[i])}
Wanting(law) == {r \in rules : law \in r.todo}
HavingRead == {r \in rules : r.read # <<>>}
HandlerSteps(h) == 2 * Waiting(h) - One(found[h] # <<>>)
LawSteps == 7 * (Cardinality(Wanting("bezwaar")) + Cardinality(Wanting("beroep")))
            - Cardinality(HavingRead) + Cardinality(rules)
StepsToRest == 6 * One(request = "process")
               + HandlerSteps("transaction") + HandlerSteps("cases") + Waiting("indexer")
               + 15 * Cardinality(RejectionsWaiting) + LawSteps + strays + One(closing)

\* A law that has read the case has not answered yet.
ReadToRule == \A r \in rules : r.read # <<>> => r.todo # {}

\* A request causes at most twenty steps, and every other step is one less to come: events
\* and rulings do not go on causing each other.
RestIsNear ==
  [][IF Requests THEN StepsToRest' <= StepsToRest + 20 ELSE StepsToRest' < StepsToRest]_vars

\* Handlers and laws come to rest after every request: none waits for another for ever.
ComesToRest == []<>(AtRest)
=============================================================================
