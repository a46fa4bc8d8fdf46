--------------------------- MODULE GoCaseManager ---------------------------
(***************************************************************************)
(* The Go case manager: requests of citizens and officers, each served by  *)
(* its own goroutine, that read and write an event store with optimistic   *)
(* version control, an index of cases under a read-write lock, and a read  *)
(* model that follows the store at its own pace.                           *)
(*                                                                         *)
(* An aggregate is stored as the state its events give it and their number *)
(* (version).  The read model is taken to apply the events in their order. *)
(***************************************************************************)
EXTENDS Comparison, Sequences

CONSTANTS
  Ids,              \* case identifiers (uuid)
  Keys,             \* "bsn:service:law"
  Results,          \* rule outputs, claimed or computed
  Procs,            \* the goroutines that serve requests
  Filers,           \* Filers[k]: the goroutines that submit on key k
  Overrides,        \* results an officer may put in the place of the computed one
  Claims,           \* claims on data that may be added to a case; {}: none are
  Gets,             \* is GetCase called?
  MaxVersion,       \* bound: no request starts on a case of that many events
  Null

Statuses == {"SUBMITTED", "DECIDED", "IN_REVIEW", "OBJECTED"}
Verdicts == {"undecided", "approved", "rejected"}   \* Approved: nil, true, false

Case == [key      : Keys,
         claimed  : Results \cup {Null},
         verified : Results,
         status   : Statuses,
         verdict  : Verdicts,
         verifier : {"none", "SYSTEM", "officer"},
         claims   : SUBSET Claims,
         version  : Nat]

\* A command as the command bus receives it.
Command == [do : {"reset"}, claimed : Results, verified : Results]
           \cup [do : {"review", "decide"}, verified : Results]
           \cup [do : {"rule"}, verdict : {"approved", "rejected"}, verified : Results]
           \cup [do : {"object"}]
           \cup [do : {"claim"}, claim : Claims]

\* Where a request stands.
Filing   == [at : {"lookup", "file"}, key : Keys, claimed : Results,
             verified : Results]
Indexing == [at : {"index", "locking"}, key : Keys, claimed : Results,
             verified : Results, id : Ids]
Handling == [at : {"load", "save"}, id : Ids, cmd : Command, base : Nat]
Reading  == [at : {"getting", "listing"}]
Idle     == [at |-> "idle"]

ASSUME GoConstants ==
  /\ Filers \in [Keys -> SUBSET Procs]
  /\ \A r \in Results : \A f \in DOMAIN r : r[f] \in Values
  /\ Overrides \subseteq Results /\ Gets \in BOOLEAN /\ MaxVersion \in Nat
  /\ Null \notin Ids /\ Null \notin Case /\ Null \notin Results

VARIABLES
  store,            \* the event store: the current state of every aggregate
  index,            \* caseIndex
  queue,            \* events saved and not yet projected, with their outcome
  view,             \* caseRepo, the read model
  op                \* what each goroutine is doing

vars == <<store, index, queue, view, op>>

Stored == {c \in Ids : store[c] # Null}
Free(p) == op[p] = Idle
\* A bound of the model, not of the code.
Room(c) == store[c].version < MaxVersion

(***************************************************************************)
(* The aggregate: which commands it accepts, and what their event makes of *)
(* the case.                                                               *)
(***************************************************************************)
Submitted(k, claimed, verified) ==
  [key |-> k, claimed |-> claimed, verified |-> verified,
   status |-> "SUBMITTED", verdict |-> "undecided", verifier |-> "none",
   claims |-> {}, version |-> 1]

Accepts(case, cmd) ==
  CASE cmd.do = "reset"               -> TRUE
    [] cmd.do \in {"review","decide"} -> case.status \in {"SUBMITTED", "OBJECTED"}
    [] cmd.do = "rule"                -> case.status \in {"IN_REVIEW", "OBJECTED"}
    [] cmd.do = "object"              -> case.status = "DECIDED"
    [] cmd.do = "claim"               -> case.status # "DECIDED"

ResetKeepsVerdict(case, claimed, verified) ==
  [case EXCEPT !.claimed = claimed, !.verified = verified,
               !.status = "SUBMITTED", !.verifier = "none"]

Reset(case, claimed, verified) ==
  [case EXCEPT !.claimed = claimed, !.verified = verified,
               !.status = "SUBMITTED", !.verdict = "undecided",
               !.verifier = "none"]

Changed(case, cmd) ==
  CASE cmd.do = "reset"  -> Reset(case, cmd.claimed, cmd.verified)
    [] cmd.do = "review" ->   \* the command carries no claimed result
         [case EXCEPT !.status = "IN_REVIEW", !.claimed = Null,
                      !.verified = cmd.verified, !.verifier = "SYSTEM"]
    [] cmd.do = "decide" ->
         [case EXCEPT !.status = "DECIDED", !.verdict = "approved",
                      !.verified = cmd.verified]
    [] cmd.do = "rule" ->
         [case EXCEPT !.status = "DECIDED", !.verdict = cmd.verdict,
                      !.verified = cmd.verified, !.verifier = "officer"]
    [] cmd.do = "object" -> [case EXCEPT !.status = "OBJECTED"]
    [] cmd.do = "claim"  -> [case EXCEPT !.claims = @ \cup {cmd.claim}]

Evolve(case, cmd) == [Changed(case, cmd) EXCEPT !.version = @ + 1]

\* The event store takes the event and hands it to the event bus.
Publish(c, case) == /\ store' = [store EXCEPT ![c] = case]
                    /\ queue' = Append(queue, [id |-> c, case |-> case])

(***************************************************************************)
(* sync.RWMutex: a writer that waits for the lock keeps new readers out.   *)
(* WriteIndex holds the lock for one step only.                            *)
(***************************************************************************)
MayReadAlways == TRUE
MayRead  == \A p \in Procs : op[p].at # "locking"
MayWrite == \A p \in Procs : op[p].at \notin {"getting", "listing"}

(***************************************************************************)
(* HandleCommand: the aggregate is loaded and refuses the command, or its  *)
(* event is saved if nobody saved another one in between.                  *)
(***************************************************************************)
Handle(c, cmd) == [at |-> "load", id |-> c, cmd |-> cmd, base |-> 0]

ProcessUnseen(claimed, verified, sampled) ==
  [do |-> IF sampled THEN "review" ELSE "decide", verified |-> verified]

\* resultsMatch: a difference of exactly one per cent is accepted.
ResultsMatch(claimed, verified) == Match(claimed, verified, TRUE)

\* rand.Float64() < sampleRate may be true or false.
ProcessCommand(claimed, verified, sampled) ==
  [do |-> IF ~ResultsMatch(claimed, verified) \/ sampled THEN "review" ELSE "decide",
   verified |-> verified]

\* What a goroutine does after its command was handled: SubmitCase processes the
\* case it has reset, the others return.
Continues(p, c, cmd) ==
  IF cmd.do = "reset"
    THEN \E sampled \in BOOLEAN :
           op' = [op EXCEPT ![p] =
                    Handle(c, ProcessCommand(cmd.claimed, cmd.verified, sampled))]
    ELSE op' = [op EXCEPT ![p] = Idle]

Load(p) ==
  /\ op[p].at = "load"
  /\ LET case == store[op[p].id] IN
       op' = [op EXCEPT ![p] =
                IF Accepts(case, op[p].cmd)
                  THEN [op[p] EXCEPT !.at = "save", !.base = case.version]
                  ELSE Idle]
  /\ UNCHANGED <<store, index, queue, view>>

SaveUnchecked(p) ==
  /\ op[p].at = "save"
  /\ Publish(op[p].id, Evolve(store[op[p].id], op[p].cmd))
  /\ Continues(p, op[p].id, op[p].cmd)
  /\ UNCHANGED <<index, view>>

Save(p) ==
  /\ op[p].at = "save"
  /\ store[op[p].id].version = op[p].base
  /\ Publish(op[p].id, Evolve(store[op[p].id], op[p].cmd))
  /\ Continues(p, op[p].id, op[p].cmd)
  /\ UNCHANGED <<index, view>>

\* The request ends with an error, whatever it has already done.
Conflict(p) ==
  /\ op[p].at = "save"
  /\ store[op[p].id].version # op[p].base
  /\ op' = [op EXCEPT ![p] = Idle]
  /\ UNCHANGED <<store, index, queue, view>>

(***************************************************************************)
(* SubmitCase, from the evaluation of the law on.                          *)
(***************************************************************************)
BeginSubmit(p, k, claimed, verified) ==
  /\ Free(p) /\ p \in Filers[k]
  /\ index[k] # Null => Room(index[k])
  /\ op' = [op EXCEPT ![p] = [at |-> "lookup", key |-> k, claimed |-> claimed,
                             verified |-> verified]]
  /\ UNCHANGED <<store, index, queue, view>>

LookupNothing(p) ==
  /\ op[p].at = "lookup" /\ MayRead
  /\ op' = [op EXCEPT ![p].at = "file"]
  /\ UNCHANGED <<store, index, queue, view>>

Lookup(p) ==
  /\ op[p].at = "lookup" /\ MayRead
  /\ LET r == op[p] IN
       op' = [op EXCEPT ![p] =
                IF index[r.key] = Null
                  THEN [r EXCEPT !.at = "file"]
                  ELSE Handle(index[r.key], [do |-> "reset", claimed |-> r.claimed,
                                             verified |-> r.verified])]
  /\ UNCHANGED <<store, index, queue, view>>

\* The command SubmitCase goes to an aggregate nobody else knows.
File(p, c) ==
  /\ op[p].at = "file" /\ store[c] = Null
  /\ LET r == op[p] IN
       /\ Publish(c, Submitted(r.key, r.claimed, r.verified))
       /\ op' = [op EXCEPT ![p] = [at |-> "index", key |-> r.key, id |-> c,
                                  claimed |-> r.claimed, verified |-> r.verified]]
  /\ UNCHANGED <<index, view>>

AskForLock(p) ==
  /\ op[p].at = "index"
  /\ op' = [op EXCEPT ![p].at = "locking"]
  /\ UNCHANGED <<store, index, queue, view>>

IndexForgotten(p) ==
  /\ op[p].at = "locking" /\ MayWrite
  /\ \E sampled \in BOOLEAN :
       op' = [op EXCEPT ![p] =
                Handle(op[p].id, ProcessCommand(op[p].claimed, op[p].verified, sampled))]
  /\ UNCHANGED <<store, index, queue, view>>

\* An entry that is already there is overwritten.
WriteIndex(p) ==
  /\ op[p].at = "locking" /\ MayWrite
  /\ index' = [index EXCEPT ![op[p].key] = op[p].id]
  /\ \E sampled \in BOOLEAN :
       op' = [op EXCEPT ![p] =
                Handle(op[p].id, ProcessCommand(op[p].claimed, op[p].verified, sampled))]
  /\ UNCHANGED <<store, queue, view>>

(***************************************************************************)
(* The other requests.                                                     *)
(***************************************************************************)
ReviewAsGiven(p, c, verdict, override) ==
  /\ Free(p)
  /\ view[c] # Null /\ Room(c)
  /\ op' = [op EXCEPT ![p] =
              Handle(c, [do |-> "rule", verdict |-> verdict, verified |-> override])]
  /\ UNCHANGED <<store, index, queue, view>>

\* FindCase in the read model, then the command; the override comes from the
\* officer, Null for none.
BeginReview(p, c, verdict, override) ==
  /\ Free(p)
  /\ view[c] # Null /\ Room(c)
  /\ op' = [op EXCEPT ![p] =
              Handle(c, [do |-> "rule", verdict |-> verdict,
                         verified |-> IF override = Null THEN view[c].verified
                                                         ELSE override])]
  /\ UNCHANGED <<store, index, queue, view>>

BeginObjection(p, c) ==
  /\ Free(p)
  /\ c \in Stored /\ Room(c)
  /\ op' = [op EXCEPT ![p] = Handle(c, [do |-> "object"])]
  /\ UNCHANGED <<store, index, queue, view>>

BeginClaim(p, c, claim) ==
  /\ Free(p)
  /\ c \in Stored /\ Room(c)
  /\ op' = [op EXCEPT ![p] = Handle(c, [do |-> "claim", claim |-> claim])]
  /\ UNCHANGED <<store, index, queue, view>>

\* GetCasesByStatus, GetCasesByLaw, GetCasesByBSN: the read lock is held while
\* the cases are looked up.
BeginList(p) ==
  /\ Free(p) /\ MayRead
  /\ op' = [op EXCEPT ![p] = [at |-> "listing"]]
  /\ UNCHANGED <<store, index, queue, view>>

EndList(p) ==
  /\ op[p].at = "listing"
  /\ op' = [op EXCEPT ![p] = Idle]
  /\ UNCHANGED <<store, index, queue, view>>

\* GetCase takes the read lock, and GetCaseByKey takes it a second time.
BeginGet(p) ==
  /\ Gets /\ Free(p) /\ MayRead
  /\ op' = [op EXCEPT ![p] = [at |-> "getting"]]
  /\ UNCHANGED <<store, index, queue, view>>

EndGet(p) ==
  /\ op[p].at = "getting" /\ MayRead
  /\ op' = [op EXCEPT ![p] = Idle]
  /\ UNCHANGED <<store, index, queue, view>>

\* The projectors handle the next event.
Project ==
  /\ queue # <<>>
  /\ view' = [view EXCEPT ![Head(queue).id] = Head(queue).case]
  /\ queue' = Tail(queue)
  /\ UNCHANGED <<store, index, op>>

Init == /\ store = [c \in Ids |-> Null]
        /\ index = [k \in Keys |-> Null]
        /\ queue = <<>>
        /\ view = [c \in Ids |-> Null]
        /\ op = [p \in Procs |-> Idle]

Request(p) ==
  \/ \E k \in Keys, claimed, verified \in Results :
       BeginSubmit(p, k, claimed, verified)
  \/ \E c \in Ids, verdict \in {"approved", "rejected"},
         override \in Overrides \cup {Null} : BeginReview(p, c, verdict, override)
  \/ \E c \in Ids : BeginObjection(p, c)
  \/ \E c \in Ids, claim \in Claims : BeginClaim(p, c, claim)
  \/ BeginList(p)
  \/ BeginGet(p)

Work(p) == \/ Lookup(p) \/ \E c \in Ids : File(p, c)
           \/ AskForLock(p) \/ WriteIndex(p)
           \/ Load(p) \/ Save(p) \/ Conflict(p)
           \/ EndList(p) \/ EndGet(p)

Next == (\E p \in Procs : Request(p) \/ Work(p)) \/ Project

\* The scheduler runs every goroutine; nobody has to send a request.
Fairness == (\A p \in Procs : WF_vars(Work(p))) /\ WF_vars(Project)

Spec == Init /\ [][Next]_vars /\ Fairness

(***************************************************************************)
(* Properties.                                                             *)
(***************************************************************************)
\* Aggregates, index, read model and requests are well formed.
TypeOK == /\ store \in [Ids -> Case \cup {Null}]
          /\ index \in [Keys -> Ids \cup {Null}]
          /\ queue \in Seq([id : Ids, case : Case])
          /\ view \in [Ids -> Case \cup {Null}]
          /\ op \in [Procs -> {Idle} \cup Filing \cup Indexing \cup Handling \cup Reading]

\* The index leads from a key to a case filed under it, and a case whose key is
\* not in it is about to be put there: between SubmitCase's command and indexCase
\* no key stays without its case.  (Of two cases under one key it holds only one.)
IndexSound ==
  /\ \A k \in Keys : index[k] # Null =>
       index[k] \in Stored /\ store[index[k]].key = k
  /\ \A c \in Stored : index[store[c].key] = Null =>
       \E p \in Procs : op[p].at \in {"index", "locking"} /\ op[p].id = c

\* "Check if a case already exists": once a key is in the index, only submissions that
\* looked it up before still make a case under it, one each, and no submission joins
\* them.  (With several filers a key can get several cases in that way, and in no other.)
Unaware(k) == {p \in Procs : op[p].at = "file" /\ op[p].key = k}
CasesOf(k) == {c \in Stored : store[c].key = k}

OnlyOverlapDoubles ==
  [][\A k \in Keys : index[k] # Null =>
       /\ index'[k] # Null
       /\ Unaware(k)' \subseteq Unaware(k)
       /\ CasesOf(k)' # CasesOf(k) =>
            \E p \in Unaware(k) \ Unaware(k)', c \in Ids \ CasesOf(k) :
              CasesOf(k)' = CasesOf(k) \cup {c}]_vars

\* "Check if results match": what the machine approved by itself is a claim its
\* own result confirms, with the claim and the result the case now shows.
MachineDecisionsMatch ==
  \A c \in Stored :
    store[c].status \in {"DECIDED", "OBJECTED"} /\ store[c].verifier # "officer"
    => /\ store[c].claimed # Null
       /\ ResultsMatch(store[c].claimed, store[c].verified)

\* A case carries a verdict exactly when it is not waiting for one.
VerdictFollowsStatus ==
  \A c \in Stored :
    store[c].verdict = "undecided" <=> store[c].status \in {"SUBMITTED", "IN_REVIEW"}

\* A decision, its claim and its result stand until the case is filed again, or
\* objected to and ruled on, whatever requests were going on when it was taken.
DecisionStands ==
  [][\A c \in Stored :
       store[c].status = "DECIDED" /\ store'[c] # store[c] =>
         \/ store'[c].status = "SUBMITTED"
         \/ store'[c] = [store[c] EXCEPT !.status = "OBJECTED", !.version = @ + 1]]_vars

(***************************************************************************)
(* The inductive invariant behind the safety properties.  Its first half   *)
(* holds for any requests: who refers to a case refers to one that exists, *)
(* and a request that may still save its event was accepted by the case as *)
(* it is.  Its second half needs a single filer per key: nobody else makes *)
(* or processes the cases of that key.                                     *)
(***************************************************************************)
\* The read model and the events on their way to it speak of stored cases.
ViewSound == /\ \A c \in Ids : view[c] # Null => c \in Stored
             /\ \A i \in 1 .. Len(queue) : queue[i].id \in Stored

Accepted(p) ==
  /\ op[p].base <= store[op[p].id].version
  /\ op[p].base = store[op[p].id].version => Accepts(store[op[p].id], op[p].cmd)

RequestSound(p) ==
  /\ op[p].at \in {"index", "locking"} =>
       op[p].id \in Stored /\ store[op[p].id].key = op[p].key
  /\ op[p].at \in {"load", "save"} => op[p].id \in Stored
  /\ op[p].at = "save" => Accepted(p)

\* No key has two cases.
OneCasePerKey ==
  \A c, d \in Stored : store[c].key = store[d].key => c = d

SingleFiler == \A k \in Keys : \A p, q \in Filers[k] : p = q

FilesAlone(p) ==
  /\ op[p].at \in {"lookup", "file", "index", "locking"} => p \in Filers[op[p].key]
  /\ op[p].at = "file" => \A c \in Stored : store[c].key # op[p].key
  /\ op[p].at \in {"index", "locking"} =>
       /\ store[op[p].id].status = "SUBMITTED"
       /\ store[op[p].id].claimed = op[p].claimed

ProcessesAlone(p) ==
  op[p].at \in {"load", "save"} =>
    LET case == store[op[p].id]  cmd == op[p].cmd IN
      /\ cmd.do \in {"reset", "review", "decide"} => p \in Filers[case.key]
      /\ cmd.do \in {"review", "decide"} => case.status = "SUBMITTED"
      /\ cmd.do = "decide" =>
           case.claimed # Null /\ ResultsMatch(case.claimed, cmd.verified)

FilerInv == /\ OneCasePerKey /\ VerdictFollowsStatus /\ MachineDecisionsMatch
            /\ \A p \in Procs : FilesAlone(p) /\ ProcessesAlone(p)

\* Holds in every reachable state and is preserved by every step.
GoInv == /\ TypeOK /\ ViewSound /\ IndexSound
         /\ \A p \in Procs : RequestSound(p)
         /\ SingleFiler => FilerInv

\* Every request is answered: no goroutine waits for a lock or a retry forever.
RequestsReturn == \A p \in Procs : ~Free(p) ~> Free(p)

\* How many steps of its own a request has left at most: SubmitCase looks the key up, files
\* and indexes the case or resets it, and sends a second command.
StepsLeft(r) ==
  CASE r.at = "lookup"  -> 6
    [] r.at = "file"    -> 5
    [] r.at = "index"   -> 4
    [] r.at = "locking" -> 3
    [] r.at = "load"    -> IF r.cmd.do = "reset" THEN 4 ELSE 2
    [] r.at = "save"    -> IF r.cmd.do = "reset" THEN 3 ELSE 1
    [] r.at \in {"getting", "listing"} -> 1
    [] OTHER -> 0

\* Every step of a request brings it nearer to its end: nothing is tried again, a lost race
\* of versions included.
NothingRetried ==
  [][\A p \in Procs : ~Free(p) /\ op'[p] # op[p] => StepsLeft(op'[p]) < StepsLeft(op[p])]_vars

\* Whether the locks let a request take its next step.
NotKeptWaiting(p) ==
  /\ op[p].at \in {"lookup", "getting"} => MayRead
  /\ op[p].at = "locking" => MayWrite

\* While requests are under way one of them can go on.
UnderWay   == {p \in Procs : ~Free(p)}
SomeGoesOn == UnderWay # {} => \E p \in UnderWay : NotKeptWaiting(p)

\* All of them can be kept waiting in one way only: GetCase holds the read lock and asks
\* for it again while a filing waits to write the index.
OnlyGetBlocks ==
  SomeGoesOn \/ \E p, q \in Procs : op[p].at = "getting" /\ op[q].at = "locking"
=============================================================================
