# Verification of the machine-law core

The repository turns Dutch laws, written as YAML, into decisions on individual
cases. This directory holds a TLA+ model of the parts that keep state or decide in
which order things happen: the **case managers** in Python
(`src/machine/events/case`) and Go (`src/machinev2/machine/casemanager`), Go's **read
model** with the rules that are applied to its events, the Python **claim manager**,
the **rules engine**'s choice and ordering of actions, and **delegation**. They are
checked with TLC and proved about with TLAPS.

- [1. The system](#1-the-system)
- [2. Modules](#2-modules)
- [3. The Python case manager](#3-the-python-case-manager)
- [4. The Go case manager: write side](#4-the-go-case-manager-write-side)
- [5. The Go case manager: read model and rules](#5-the-go-case-manager-read-model-and-rules)
- [6. The Python claim manager](#6-the-python-claim-manager)
- [7. The rules engine](#7-the-rules-engine)
- [8. Delegation](#8-delegation)
- [9. Runs](#9-runs)
- [10. Proofs](#10-proofs)
- [11. Where code and text disagree](#11-where-code-and-text-disagree)
- [12. What is not modelled](#12-what-is-not-modelled)
- [13. Plan](#13-plan)

## 1. The system

A citizen submits an application under a law, with the result he or she claims. The
rules engine computes the result itself, from registered data that the citizen may
correct by claims. If both agree the machine may decide at once; otherwise, or by a
random sample, or on request, an officer reviews the case. A decision can be objected
to and, after an objection, appealed against; whether it can is itself computed, by
two laws (*bezwaar* and *beroep* of the Algemene wet bestuursrecht) that the engine
applies to the case when a decision is recorded. Who may do all this for somebody
else is computed as well, by the laws on delegation.

| Part | State | Operations | Talks to | What is hard | What makes it correct |
|---|---|---|---|---|---|
| Python case manager: `events/case/{aggregate,application,processor}.py` | aggregates rebuilt from events; `_case_index` (key to case) | `submit_case`, `complete_manual_review`, `objection_case`, `seed_historical_case`, the two `determine_*_status`, queries | its follower, on the same thread | fields that survive `reset`; a law that raises between two others; historical cases outside the index | status, verdict, log and index agree; a refused applicant has a remedy, and two only where the law lets one appeal directly; the machine decides only what it can confirm |
| Law application: `service.py` `apply_rules`, laws bezwaar and beroep | none of its own | evaluate a law on a case, call back one method of the case manager | the case manager, mid-operation | each law sees what the one before it saved | every rejection by an officer gets the answer of both laws |
| Go case manager, write side: `casemanager/{aggregate,command,model,setup}.go`, `manager/inmemory.go` | event store with versions, `caseIndex` under an `RWMutex` | `SubmitCase`, `CompleteManualReview`, `ObjectCase`, `AddClaimToCase`, `GetCase`, list queries | the read model, through an asynchronous bus | one goroutine per request; read, then act; version conflicts without retry; nested read locks | the index leads to a case of its key, only overlapping submissions double a case, no decision overwritten, every request answered |
| Go read model: `projector.go`, `transaction.go`, `executer.go` | read repository, event list | projection of events by two handlers, indexing by a third | the store; starts rule application | both projectors find, then save, each under a lock of its own | at rest the read model shows what the events give, but for claims listed twice |
| Go rule application and reset: `serviceprovider.go`, `inmemory.go` | wait group, buses | `ApplyRules`, `Reset` | read model, commands back to the write side | evaluates on a lagging copy; reset under running goroutines | a rejection gets its rulings; the wait group counts what runs; all of it comes to rest |
| Python claim manager: `events/claim/*` | claim aggregates, six indexes, claim ids of cases | submit, approve, reject, link, add evidence, queries | the case manager | two aggregates saved in turn; indexes not kept on re-submission | one claim per datum; indexes answer what the aggregates hold |
| Rules engine: `engine.py` | one evaluation | requirements, required actions, topological sort, the run of actions | context, services | sets iterated in any order; circles; a value missing half way | exactly what is needed, in an order that respects it; all or nothing |
| Rule context: `context.py` | caches of one evaluation | `resolve_value` | services, approved cases, claims | a cache keyed by field; approved cases before evaluation | |
| Delegation: `delegation/*` | none | who may act for whom, with which permissions | evaluates all delegation laws | laws come in any order and may raise half way through their lists | the most restrictive law wins, in whatever order |
| Go claim managers: in memory, ace | claims, indexes; an external store | as the Python one | | | |
| Law resolver, profiles, Go engine, Go rule services, HTTP backend | loaded files, connections | loading, evaluation, request mapping | | ties in a maximum over dates | |
| Web interface, law server for language models, simulators, importers, wallet, apps | presentation, external services | | | | |

`PROJECT.json` lists the same components with their sources and status, and under
`hazards` each place where an ordinary test is unlikely to reach.

**Scheduling.** In Python the event-sourcing library's single-threaded runner lets
the follower handle the events of a save before the operation returns, and the web
handlers are coroutines that call the managers synchronously. So at most one
operation is going on, but an operation is several saves with laws applied in
between. In Go every HTTP request has its own goroutine, every event handler one more
with a queue of its own, and the steps of all of them interleave.

## 2. Modules

| Module | Contents |
|---|---|
| `Comparison` | how a claimed result is compared with a computed one (both case managers) |
| `CaseLifecycle` | abstract specification: phases of a case, who decides it, which decisions may follow each other |
| `CaseManager` | the Python case manager with its follower and the two laws; its properties and inductive invariant; the refinement to `CaseLifecycle` |
| `CaseClaims` | a statement of the law text that the case manager does not keep |
| `CaseManagerProofs`, `LifecycleProofs` | theorems about `CaseManager`, and that it implements `CaseLifecycle` |
| `GoCaseManager`, `GoCaseManagerProofs` | the Go case manager, write side, with its goroutines, lock and event queue |
| `GoReadModel`, `GoReadModelProofs`, `GoReadModelViewProofs` | its read model, the three handlers of its events, rule application and reset; the third module has the proofs about what the read model shows |
| `ClaimRegister` | abstract specification: what a claim manager promises to evaluation |
| `ClaimManager`, `ClaimManagerProofs` | the Python claim manager; the refinement to `ClaimRegister` |
| `RulesEngine`, `RulesEngineProofs` | one evaluation of a law by the Python engine |
| `Delegation`, `DelegationProofs` | for whom a person may act, as functions of what the laws answer |
| `MCCaseManager`, `MCGoCaseManager`, `MCGoReadModel`, `MCClaimManager`, `MCRulesEngine` | constants for TLC; the last one also holds the answers that `Delegation` is checked on |

`PROJECT.json` maps each definition to the lines it stands for. Definitions that
carry a fault in their name (`ResetKeepsVerdict`, `SaveUnchecked`, `FollowOnce`,
...) are not part of any specification. Each is a plausible mistake in the
definition it stands beside, and a property is expected to fail once it takes that
definition's place.

## 3. The Python case manager

**State.** `cases` is the repository: for each identifier the aggregate that its
events yield. `index` is `_case_index`. `todo` holds the laws the follower has still
to apply to the case saved last; an operation may begin only when it is empty (the
single thread).

**The log.** The laws look at the event log for one thing: are there `Objected`
events? The field `objected` of a case keeps that, and tells events of the current
filing from those before the last `Reset`, because the code does not and a property
needs to.

**Operations.** `SubmitNew` and `Resubmit` are the two halves of `submit_case`.
`Resubmit` always ends in review: `needs_manual_review` keeps its initial `True`
on that path, which is why `Refiled` passes `TRUE`. `SeedHistorical`,
`CompleteManualReview` and `ObjectionCase` are the methods of those names. `ApplyLaw`
is one turn of the loop in `apply_rules`: evaluate one law on the case as it is and
save the answer by the method that the law names. `LawFails` is an exception in that
loop, caught by the processor.

**The two laws.** `Contestable` are the keys whose law takes decisions open to objection,
`Extensive` those whose law prescribes the extensive procedure
(`voorbereidingsprocedure = UITGEBREID`), under which the law of appeal lets one appeal
without an objection (its lines 385-395 and 514-516, and its output `direct_beroep`, line
191). `BeroepPossible` and `BeroepReason` have that branch. In the program it is dead: the
table of laws that the engine selects from has no such column (`utils.py:156-175`), and
`context.py:783-787` warns and leaves the field out; so `Extensive` is empty today. The
runs and the proofs admit any `Extensive`, so what they say of remedies holds for the
program as it is and would hold with the column added.

**Data.** A result is a function from output names to values; `Comparison` compares
them as the two implementations do (relative to the computed value, zero apart, other
types by equality). Numbers are integers. Python (`application.py:63`) compares a float
with `Decimal("0.01")`, which is a little less than the float `1/100`: a difference of
exactly one per cent does *not* match. Go compares with the float `0.01`, and it does.
`ResultsMatch` of each case manager says so; how floats round otherwise is left out. Of the
objection and appeal status the answer and the reason are kept; periods and courts are not.

**Fairness.** `WF_vars(Follower)`: the thread that saved an event goes on until the
follower is done. Nobody has to submit, review or object.

## 4. The Go case manager: write side

**State.** `store` gives each aggregate's current state and version (the number of
its events). `index` is `caseIndex`; `queue` holds the events on the asynchronous
bus; `view` is the read model; `op[p]` is what the goroutine `p` is doing.

**Steps.** A request is cut where another goroutine can get in:

| Code | Steps |
|---|---|
| `SubmitCase` | `BeginSubmit`, `Lookup` (read lock), then either `File`, `AskForLock`, `WriteIndex` (write lock) or the command *reset*; then `ProcessCase`'s command |
| any command through the bus | `Load` (load the aggregate, test the guard), then `Save` or `Conflict` |
| `CompleteManualReview` | `BeginReview` (read the read model), then the command *rule* |
| `ObjectCase`, `AddClaimToCase` | the command |
| `GetCase` | `BeginGet` (first read lock), `EndGet` (second read lock inside the first) |
| list queries | `BeginList`, `EndList` |
| projection | `Project`, one event |

**The library.** The store saves an event only at the version the aggregate was
loaded at and reports a conflict otherwise; the case manager does not retry
(`Conflict` ends the request). Saving and publishing are one step and in order.
`MayRead` and `MayWrite` are Go's `RWMutex`: a waiting writer holds off new readers.
These are marked external in the map, modelled from how the code uses them.

**Assumption.** `view` takes events in the store's order. The real read model has two
concurrent writers, and does so only while events come one at a time: that is
`ViewFollowsEvents` of `GoReadModel`, and `ViewAgrees`, refuted, is what happens
otherwise. `GoCaseManager` therefore says what requests do to each other through the
*store*, over the best read model they could have.

**Fairness.** Weak fairness for the work of each goroutine and for the projection:
Go's scheduler runs every runnable goroutine. Nobody has to send a request.

## 5. The Go case manager: read model and rules

`GoReadModel` follows one case, decided under a law that is open to objection, from
the event store to the read model and back.

**State.** `log` is the event store, `case` the aggregate its events yield, `view` what
the read repository holds (a case and a version). `handled[h]` is how far handler `h`
has come in the log; each has its own queue and goroutine. `found[h]` is what projector
`h` has found and not yet saved. `rules` are the goroutines of `ApplyRules`, `wg` the
counter of the wait group.

| Code | Steps |
|---|---|
| `eventhandler/projector` under the transaction (`setup.go:84`, `transaction.go`) | `Find("transaction")`, `SaveInTransaction`: an event the entity has already is skipped, one that fits is projected, one too far ahead is an error; after the first two the executor starts the rules |
| `CasesProjector.HandleEvent` | `Find("cases")`, `SaveInCases`: projects whatever the version |
| the event indexer | `IndexEvent` |
| `ApplyRules` | `ReadCase`, then `ApplyLaw`, for each law; `FinishRules` |
| `Reset` | `BeginReset` (the wait group), `EndReset` (buses closed, all set up anew); `FinishStray` is a goroutine that outlives it |
| requests | `SubmitCase` with `ProcessCase`, `CompleteManualReview`, `ObjectCase`, `AddClaimToCase` |

Each handler's own lock makes no difference, as each has only one goroutine; that there is
no lock across the two projectors is why finding and saving are two steps.

**What the laws see.** `matchesEvent` compares the type of the event a rule names with
itself, so a law is applied to any event that has the data its filter asks for. With
the filters of bezwaar and beroep (`approved: false`) only a `Decided` event has; so
`IsRejection` is what tells events apart. A law reads the case from the read model and
the events from the indexer's list, both behind the store by any distance.

**History.** Three flags are no fields of the code: `crowded` (an event was saved before
every handler was done with the one before), `overlapped` (a request started while
something was under way) and `hasty` (a reset did). The properties say under which
of them they hold.

**Claims.** The aggregate looks before it adds a claim (`model.go:291-307`); the projector
appends it (`projector.go:124`), and both handlers apply every event. So the read model's
list holds a claim twice after a single event, and a claim added again once more. `claims`
is the set of a list's members, `repeated` in an entry of the repository which of them are
listed more than once. The properties speak of the set; that the *list* is right
does not hold, and none says it.

**Direct appeal.** `Extensive` says whether the law of the case prescribes the extensive
procedure. It is `FALSE` in the runs, as it is in the program: Go's table of laws has no
column for it either (`ruleresolver.go:303-320`). The proofs cover both.

**Abstractions.** Versions of commands conflict only when requests overlap: commands of
one request and its rules are sent one after the other. Evaluations succeed. A bus
whose queue is full is outside the repository and not modelled.

**Fairness.** Weak, for each handler's steps, `ProcessCase`, `ApplyRules`, `EndReset`
and `FinishStray`: goroutines that can run. Nobody has to send a request or reset.

## 6. The Python claim manager

**State.** `claims` is the repository; `bySlot`, `byCase`, `byClaimant`, `byPerson` are
the indexes. `_service_index` and `_bsn_index` get the same entries in the same order
(the model follows the claims of one citizen under one law), so they are one variable.
A *slot* is a citizen's datum: `(bsn, service, law)` and key. `known` are the claim ids that
case aggregates keep. `moved` is no field of the code; it remembers that a claim was
filed again by somebody else or for another case.

**Operations.** `SubmitNew` and `Resubmit` are the halves of `submit_claim`; the second
resets the claim in place and does not index it. The claim is saved first, the case looked
up after: if it is not known the look-up raises, the claim stays, and `auto_approve`
never happens (`Raises`, `Approved`). `Judge` is `approve_claim` and `reject_claim`,
which ask for no status. `LinkCase` and `AddEvidence` have the code's guards.

**Abstract specification.** `ClaimRegister`: each datum has the value filed last and
the verdict on *that* filing. It is what evaluation reads.

## 7. The rules engine

A law is a graph: which outputs the action of an output refers to by name (`reads`), of
which it refers to a field (`fields`, `$x.kvk_nummer`), and which actions lack a
required value (`lacks`). `RulesEngine` is one call of `evaluate`: `CheckRequirements`; the
search for required outputs (`Follow`, one turn of its loop: `set.pop` takes any member);
`topological_sort` (`BeginSort`, `SortNode`, `EndSort`), which empties the dependency
sets it was given and tells a circle by what is left in them; the actions (`RunAction`,
`PassOver` for a name that no action has, `Finish`). What a value is worth is one bit:
whether everything it was computed from was there and complete.

Names enter the sort's list in the order in which Python iterates sets; `ready` is
therefore a set of which any member may come next. Fairness is `WF_vars(Next)`: one
call on one thread.

## 8. Delegation

`DelegationManager` stores nothing. Every question evaluates all delegation laws and
combines what they answer, so `Delegation` has functions of one variable, `answers`, and no
steps. Laws come out of a Python set: `answers` may be in any order. A law answers rows of
parallel lists; `read` is how many are read before one list turns out too short (the
exception is caught outside the loop and those rows are kept, although the comment there
says "log and return empty list", section 11). `RepresentsWhomLawsName` takes no side in
that: it says whom the laws that are read to the end give, whatever the others do, and that nobody
is added. Names are ranks,
permissions sets; dates are compared nowhere.

An empty list of permissions means *nothing* from the first law and *no opinion* from
later ones. `MostRestrictiveWins` is exact only if no law is silent (`NoneSilent`);
otherwise it says that no law that grants something is exceeded, but for reading. The laws
of the repository are not silent.

`MCRulesEngine` pairs the answers with an evaluation of a plain law, since
`Delegation` takes no step of its own.

## 9. Runs

| Run | Constants | Shows |
|---|---|---|
| `case_safety` | 2 cases, 2 contestable keys, one of them with direct appeal, results 100 and 101, sampling on or off, laws answer | `VerdictFollowsStatus`, `IndexIsExact`, `MachineDecisionsMatch`, `ReasonOnlyWhenRefused`, `OneRemedy`, `RefusalIsFinal`, `RejectionIsRuled`, and that the manager implements `CaseLifecycle` |
| `case_failing_laws` | 1 case, 3 keys (contestable, not so, with direct appeal), 3 results (one empty), laws may raise | `AppealNeedsObjection`, `OperationsReturn`, `TypeOK` |
| `go_one_filer` | 2 goroutines of which one submits, 2 identifiers, 1 key, 2 results, 1 claim | `MachineDecisionsMatch`, `VerdictFollowsStatus`, `RequestsReturn`, `TypeOK` |
| `go_two_filers` | 2 goroutines that both submit on the key, 2 identifiers, 1 result, 1 claim, `GetCase` called | `IndexSound`, `OnlyOverlapDoubles`, `DecisionStands` |
| `go_read_model` | 1 case, 1 claim, `MaxEvents` 5, `MaxRushed` 3, `MaxResets` 1 | `ViewFollowsEvents`, `LastEventShown`, `RejectionIsRuled`, `WaitGroupCounts`, `ComesToRest`, `TypeOK` |
| `claims` | 2 claims, 2 slots, 2 values, 2 claimants, a known and an unknown case, `MaxListed` 1 | `OneClaimPerSlot`, `ListedForPerson`, `IndexesFollowClaims`, `FoundFromCase`, `TypeOK`, and that the manager implements `ClaimRegister` |
| `evaluation` | all graphs over 3 outputs, circles included, with at most one reference to a field, or (without those) at most one lacking action; two laws on oneself and one on others, in three orders | `RequiredExactly`, `OrderRespected`, `RaisesExactlyOnCircles`, `AllOrNothing`, `ComputedFromComplete`, `Termination`, `TypeOK`; `MostRestrictiveWins`, `OwnContextAgrees`, `RepresentsWhomLawsName` |
| five runs named `..._claim_...` | as small as the counterexample allows | see section 11 |

**Bounds.** Python's case manager has none beyond the sizes of its sets: its state is
finite. Two cases are needed for the index to hold one and to miss the other (a
historical case beside a filed one under the same key). 100 and 101 tell the sides of the
comparison apart: 101 confirms a claim of 100, since 1/101 is less than one per cent; 100
does not confirm 101, at exactly one per cent. (Go's runs have 99 and 100: there 100 does
confirm 99.) In `case_safety` one key lets one appeal directly, which no law does today, and
the other is as the laws of today are; in `claim_FreshRejectionIsContestable` all are.

In `GoCaseManager`, `MaxVersion` bounds the events of a case: no request *starts* on a
case with that many. With 3, a case can be filed, processed and objected to or filed
again, and what is already going on may finish beyond it. Two goroutines reach every
race found so far; the proofs do not depend on the number. In `go_two_filers` there is
one result, which keeps two full submissions in flight within two million states, and
`SYMMETRY` over goroutines and identifiers: with two filers they are interchangeable,
and the run checks no liveness. (`DecisionStands` does not depend on how results compare;
`go_one_filer` has the second result.)

In `GoReadModel`, no request starts after five events, nor after three once requests have
overlapped; laws and second commands may add to that. Five reach a rejection with
both rulings and a request after it, or a case objected to and judged again; three
overlapping ones leave the two projectors up to three events apart, which is where
`LastEventShown` could fail. After a reset counting begins anew.

In `ClaimManager`, a case is linked only while its list of claims is shorter than
`MaxListed`: without a bound a claim that is filed again without its case and linked again
makes the list grow for ever. One entry is enough for the list to be wrong, or right, of
either claim. `SYMMETRY` is over identifiers, slots and values; no liveness is checked there.

Three outputs give circles of length one to three, two paths to one output, and outputs
outside of what is required.

**Deadlock** is checked wherever a request may always come. It is not in
`go_two_filers` and `go_claim_RequestsReturn`, as `GetCase` really can stop the system
(section 11); in `go_read_model`, `go_claim_ViewAgrees` and `claims`, which the bounds bring to
a halt; and in `evaluation` and `engine_claim_RequestedIsComplete`, as an evaluation ends.

Some properties deserve a word on what they are *for*:

- `OneRemedy` and `RejectionIsRuled` cross several events. The follower saves the
  answer of one law before it evaluates the next, an objection status survives
  filing again, and a merge may leave an old reason. Between them they say that
  after all this a rejected applicant can object or appeal, and both only where the law
  lets one appeal directly.
- One case per key does not hold in Go when two goroutines file at once (section 11).
  `IndexSound` and `OnlyOverlapDoubles` are what remains: the key leads to one of the
  cases, or is about to; and once it does, only the submissions that looked it up before
  add another, one each. `DecisionStands` is what the version check buys: no command accepted before a
  decision is saved after it.
- `ViewFollowsEvents`, `LastEventShown` and `ViewAgrees` measure the read model. Every event is
  applied by both projectors, which is harmless one event at a time, as applying it
  twice is applying it once, but for the list of claims (section 5); whatever overlaps the *last* event is shown; but an
  earlier one may be lost, even if requests leave all the time there is, since one
  request saves several events.
- Go's `RejectionIsRuled` survives this: the rulings are computed from the list of events
  and from a status that a lagging view may have wrong in one direction only.
- `IndexesFollowClaims` states for *which* claims the queries by claimant and by case can be
  relied on, as they cannot for all.
- `RaisesExactlyOnCircles` has two sides: an evaluation is not refused for a circle
  elsewhere in the law, and none slips through because a dependency set was emptied.

## 10. Proofs

All theorems hold for any values of the constants that satisfy the module's
assumptions (`CaseConstants`, `GoConstants`, `ReadModelConstants`, `ClaimConstants`,
`LawsAssumption`, `DeclaredAssumption`, `DelegationAssumption`): "nothing" is not a case,
claims come from known
claimants, a law has finitely many outputs and lists an action once. TLC evaluates these
assumptions in the runs.

**Python case manager.** `VerdictFollowsStatus` alone is not inductive. `IInv` adds, for
every case: only cases under review are signed `SYSTEM`; a claim the machine decided is
confirmed by its result; a refusal of objection means the law would still refuse; an
appeal means there was an objection, or that the law lets one appeal directly (`CaseInv`). It adds that pending laws belong to
stored cases, and, when laws do not raise, that every rejected contestable case has
the remedy its log gives it unless the law in question is still pending
(`RemedyInv`). The module proves what each command does to a case, then one lemma per
action (`... Keeps`), then `InvariantHolds`. From it follow `TypeCorrect`,
`IndexCorrect`, `VerdictCorrect`, `MachineDecisionsJustified`, `ReasonsConsistent`,
`AppealsFollowObjection`, `OneRemedyUnlessDirect` and the action property
`RefusalsFinal`. With one conjunct more (`AnswerInv`: a law that is not pending on an officer's
rejection has answered it) follows `RejectionsAnswered`: laws that do not raise have
answered when the operation returns. `FollowerIsShort` bounds the follower: what is pending
belongs to one case, and every step leaves fewer laws. `LifecycleProofs` proves
`LifecycleImplemented`: initial states map to
initial states and each operation to a step of the lifecycle or a stutter.

**Go write side.** `GoInv` has two halves. The first holds for any requests: references
point to stored cases, and an accepted command that waits to be saved is accepted by the
case *as it is* unless its version has moved on (`Accepted`). That last part is the
argument for optimistic concurrency, and gives `GoDecisionStands`. The second half
holds if every key has a single filer: the goroutine between lookup and file knows
there is no case of its key (`FilesAlone`), and the one that processes a submitted
case holds a claim nobody else can change (`ProcessesAlone`). It gives
`GoVerdicts` and `GoMachineDecisions`, whose statements carry `SingleFiler` as a
hypothesis. It cannot be dropped: section 11 has the counterexamples. That such a key has
one case (`OneCasePerKey`) is a part of this half and no result of its own, as the race
it is about is the one that `SingleFiler` excludes. What holds of that race,
`GoDoublesOverlap`, is proved for any number of filers: a submission enters the gap between
lookup and filing only while its key is not in the index, and leaves it with at most one
case.

Two theorems say how requests end. `StepsLeft` counts the steps a request still has, from
where it is in its code; `GoNothingRetried` states that it is at most six and that each
of the request's own steps makes it smaller, so no request can be made to try again by
others. `GoWaitingExplained` states when all of those under way can be waiting: only if
`GetCase` holds the read lock, and asks for it again, while a filing waits to write.
The deadlock of section 11 is therefore the only one, and `GoNoDeadlock` states that without
calls of `GetCase` there is none.

**Go read model.** `ReadModelInv`: handlers take events in order, and each run of the
rules is for an event of its own (`InOrder`), so that one goroutine more is one member more
of a finite set; a reset that is not hasty finds and leaves nothing under way. It gives
`WaitGroupCorrect`: unless a reset was hasty, the counter is the number of runs.

What the read model shows needs a second invariant, `ViewInv`, because both projectors read
the case, apply their event to it and save it later, over whatever is there by then. It says
what each of them may hold. Its argument is that an event changes the fields it carries to
values of its own, so that applying it a second time changes nothing (`ShownInv`, `FollowInv`).
Where requests do not overlap, the read model does not fall behind the events that "cases" has
taken, but in one way: the transaction can save an older state over what "cases" did, at a
version from which the events it has left still fit, and then brings it up to date again
(`CatchingUp` in `VersionInv`). There a rejection waits for the transaction, is being
ruled on, or has its rulings (`RuledInv`). The four theorems are `ViewFollows`, `LastShown`,
`RejectionsRuled`, with the hypotheses of section 5 in the properties they state, and
`LawsFind`: a law that is to be applied finds the case in the read model, whatever overlaps.

`RestIsBounded` proves that events and rulings do not go on causing each other. `StepsToRest`
counts what is to come: two steps for each event that waits for a projector, one for the
indexer, seven for each law to be applied (it reads, and answers with an event that three
handlers take). It is a natural number that a request raises by at most twenty and every
other step lowers; where it is zero, everything is at rest. The count of laws is over a
set of runs that grows and shrinks, so the proof rests on lemmas about the cardinality of
that set and its parts.

**Claim manager.** `ClaimInv` adds to the properties that lists hold only stored claims
(`OnlyStoredListed`), without which a new claim might already be listed. Theorems:
`OneClaim`, `PersonListCorrect`, `IndexesCorrect`, `CaseFindsClaims`, and
`RegisterImplemented`, whose mapping reads a slot's claim through the index: that it is the
right one is `OneClaimPerSlot`.

**Rules engine.** `EngineInv` has a part per phase. `SearchInv`: what was found leads only to
what was found or is still to be followed, and lies in every closed set that holds the
request, so that what remains at the end is the least one (`RequiredFound`).
`SortInv`: a dependency set is what is not sorted yet, and no member of a circle is ever
sorted; if something is left over, what is left is a circle (`CirclesFound`; the order is
`OrderCorrect`). `RunInv`: values are those of the actions run so far, computed from
complete ones (`ResultWhole`, `ValuesComplete`). `EvaluationBounded`: three steps for each
name, one for each action and four more are enough for any law, one with a circle included.

**Delegation.** `PermissionsMerged`, `OwnContextSame` and `RepresentationKept` hold of any
number of laws and rows; that there is a first of several rows follows from the
well-foundedness of the lexicographic order.

**Only model-checked**: the liveness properties (`RejectionIsRuled` of `CaseManager`,
`OperationsReturn`, `RequestsReturn`, `ComesToRest`, `Termination`), since TLAPS does not
reason about `ENABLED`, and so not about fairness. What there is to them but fairness is
proved: that the steps to go are bounded and only become fewer (`FollowerIsShort`,
`GoNothingRetried`, `RestIsBounded`, `EvaluationBounded`), that without `GetCase` requests do
not all wait for each other (`GoNoDeadlock`), and that rejections are answered at the end (`RejectionsAnswered`).
Every invariant and every action property of the runs that hold is a theorem. The
bounds play no role in the proofs but as guards.

## 11. Where code and text disagree

Each has a run that finds a counterexample.

| Run | What happens |
|---|---|
| `claim_FreshRejectionIsContestable` | the objection law counts objections of earlier filings, so a fresh rejection of a case filed again cannot be objected to |
| `go_claim_MachineDecisionsMatch` | two submissions on one case: the second resets it between the first one's reset and decision, and the machine approves a claim its result does not confirm |
| `go_claim_RequestsReturn` | `GetCase` takes the read lock twice; a writer that asks in between blocks both, and every later reader |
| `go_claim_ViewAgrees` | the lock of one projector is not that of the other: an older state is saved over a newer one, and the case keeps a verdict on its earlier filing |
| `engine_claim_RequestedIsComplete` | a reference to a field (`$x.kvk_nummer`) is collected as the name of no action: asked for the output that contains it, the engine leaves the action of `x` out |

Met while modelling, without a run of their own:

- `object()` in Python asks for the status DECIDED, not for `can_object()`
  (`aggregate.py:124`), and the appeal status survives `reset`: a case under review
  or approved may still offer an appeal (`aggregate.py:71`);
- the appeal reason in Python can outlive the refusal it explains, as only keys
  with a value are merged (`aggregate.py:195`);
- a case whose law is excluded from objection is still offered one when filed and
  decided by the machine, since `submit_case` sets the status without asking the
  law (`application.py:140` and the exclusion in the bezwaar law);
- two concurrent first submissions on one key create two cases in Go
  (`inmemory.go:286`; `OnlyOverlapDoubles` says when it happens);
- a claim added between load and save of the processing command in Go makes it fail; the
  case stays SUBMITTED, where neither review nor objection accepts it (`inmemory.go:340`);
- `CompleteManualReview` in Go rules with the verified result of the read model,
  which may be that of an earlier filing (`inmemory.go:365`);
- the command that sends a case to review in Go carries no claimed result, and its
  event clears the claim of the case (`setup.go:185`), although the API documents
  claimed results as part of a case;
- a goroutine of `ApplyRules` that a hasty `Reset` leaves behind counts itself out of the
  new wait group, whose counter becomes negative (`inmemory.go:666`; why
  `WaitGroupCounts` excludes hasty resets);
- `matchesEvent` compares an event type with itself (`serviceprovider.go:600`);
- the list of a case's claims in the Go read model holds an id twice after a single
  event, as both projectors append it, where the aggregate looks first
  (`projector.go:124`, `model.go:296`);
- the law of appeal lets one appeal without an objection under the extensive procedure,
  and has an output for it, but the tables of laws of both implementations lack the column
  that it reads (`utils.py:156`, `ruleresolver.go:303`), so that it never does;
- a difference of exactly one per cent is accepted by Go and refused by Python, of which
  the comment says "uses a 1% tolerance" (`application.py:41`, `inmemory.go:205`);
- the Go engine takes every claim of a citizen by its key, rejected ones and those under
  other laws included (`engine.go:427`);
- delegations read before an exception are kept, where the comment says that an
  empty list is returned (`delegation/manager.py:173`);
- the web interface formats `valid_from` of every delegation, and the merged one to
  oneself has none (`web/routers/delegation.py:110`, `delegation/manager.py:109`);
- the context a person acts in is kept in the session and not compared with the laws
  again (`web/main.py:161`).

## 12. What is not modelled

- **In the Python case manager**: adding, approving and rejecting claims (their effect on
  a case is `known` in `ClaimManager`), `determine_objection_admissibility` (no caller),
  periods and courts, queries.
- **In the Go case manager**: `Wait`, `Close`, event listing; more than one case in the
  read model; a full event queue.
- **In the rules engine**: what operations do with values (arithmetic, comparison, dates,
  FOREACH). Each is a short pure function of its arguments, better served by unit
  tests; there is no order or state in them. The laws bezwaar and beroep are modelled by
  what they answer from a case.
- **Rule context**: where values come from (scopes, claims, sources, services, approved
  cases) and the cache of one evaluation. To `RulesEngine` a value is there or not.
- **Go claim managers**: the in-memory one runs each operation under one write lock and is
  otherwise the Python one; ace translates to an external store.
- **Go engine, context and resolvers**: the Go twin of the Python engine.
- **Law resolver, profiles, rule services, HTTP backend**: file input and request
  mapping.
- **Web interface, law server, explanations, wallet, importer, converter**: presentation and
  external services; no handler waits in the middle of a change of state that the managers
  do not make for it.
- **Simulation, synthesis, analysis**: statistics over populations, scripts.

The last three groups are most of the repository's lines, which is why the modelled share
of the lines is small although most of what keeps state under a protocol is in the model.

## 13. Plan

Done: Python case manager with laws and follower; Go write side; Go read model, rule
application and reset; Python claim manager; the engine's search, sort and run;
delegation; with the proofs of section 10.

Left, in this order:

1. **Rule context**: resolution of service references with the cache of an evaluation and
   approved cases first (`context.py:553`), over two nested evaluations.
2. **Composition** of `GoReadModel` with `GoCaseManager` for two cases, instead of the
   assumption of section 4.
3. **Go claim managers**: the in-memory one against `ClaimRegister`.
4. **Web sessions**: the delegation context that a session keeps, over changing answers of the
   laws.
5. **Law resolver**: selection of a version by date, with ties.
