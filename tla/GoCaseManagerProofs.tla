------------------------ MODULE GoCaseManagerProofs ------------------------
(***************************************************************************)
(* Proofs about GoCaseManager: GoInv is inductive, and the safety          *)
(* properties follow from it, for any number of goroutines, keys, cases    *)
(* and results.                                                            *)
(***************************************************************************)
EXTENDS GoCaseManager, TLAPS

(***************************************************************************)
(* Requests by where they stand.                                           *)
(***************************************************************************)
\* The shape of a request follows from the step it is at.
LEMMA ShapeOfRequest ==
  ASSUME TypeOK, NEW p \in Procs
  PROVE  /\ op[p] = Idle \/ op[p] \in Filing \/ op[p] \in Indexing
            \/ op[p] \in Handling \/ op[p] \in Reading
         /\ op[p].at \in {"lookup", "file"} => op[p] \in Filing
         /\ op[p].at \in {"index", "locking"} => op[p] \in Indexing
         /\ op[p].at \in {"load", "save"} => op[p] \in Handling
         /\ op[p].at = "idle" <=> op[p] = Idle
BY DEF TypeOK, Filing, Indexing, Handling, Reading, Idle

\* Each kind of command carries its own parameters.
LEMMA ShapeOfCommand ==
  ASSUME NEW cmd \in Command
  PROVE  /\ cmd.do \in {"reset", "review", "decide", "rule", "object", "claim"}
         /\ cmd.do = "reset" => cmd.claimed \in Results /\ cmd.verified \in Results
         /\ cmd.do \in {"review", "decide"} => cmd.verified \in Results
         /\ cmd.do = "rule" => /\ cmd.verdict \in {"approved", "rejected"}
                               /\ cmd.verified \in Results
         /\ cmd.do = "claim" => cmd.claim \in Claims
BY DEF Command

LEMMA NewCase ==
  ASSUME NEW k \in Keys, NEW claimed \in Results, NEW verified \in Results
  PROVE  Submitted(k, claimed, verified) \in Case
BY DEF Submitted, Case, Statuses, Verdicts

\* What every command makes of a case, but for its version.
LEMMA ChangedEffect ==
  ASSUME NEW case \in Case, NEW cmd \in Command
  PROVE  /\ Changed(case, cmd) \in Case
         /\ Changed(case, cmd).key = case.key
         /\ Changed(case, cmd).version = case.version
         /\ cmd.do = "reset" =>
              /\ Changed(case, cmd).status = "SUBMITTED"
              /\ Changed(case, cmd).verdict = "undecided"
              /\ Changed(case, cmd).claimed = cmd.claimed
         /\ cmd.do = "review" =>
              /\ Changed(case, cmd).status = "IN_REVIEW"
              /\ Changed(case, cmd).verdict = case.verdict
         /\ cmd.do = "decide" =>
              /\ Changed(case, cmd).status = "DECIDED"
              /\ Changed(case, cmd).verdict = "approved"
              /\ Changed(case, cmd).claimed = case.claimed
              /\ Changed(case, cmd).verified = cmd.verified
         /\ cmd.do = "rule" =>
              /\ Changed(case, cmd).status = "DECIDED"
              /\ Changed(case, cmd).verdict # "undecided"
              /\ Changed(case, cmd).verifier = "officer"
         /\ cmd.do = "object" =>
              Changed(case, cmd) =
                [case EXCEPT !.status = "OBJECTED"]
         /\ cmd.do = "claim" =>
              /\ Changed(case, cmd).status = case.status
              /\ Changed(case, cmd).verdict = case.verdict
              /\ Changed(case, cmd).verifier = case.verifier
              /\ Changed(case, cmd).claimed = case.claimed
              /\ Changed(case, cmd).verified = case.verified
<1>1. CASE cmd.do = "reset"
  <2>1. Changed(case, cmd) =
          Reset(case, cmd.claimed, cmd.verified)
    BY <1>1 DEF Changed
  <2>2. QED
    BY <1>1, <2>1, ShapeOfCommand DEF Reset, Case, Statuses, Verdicts
<1>2. CASE cmd.do = "review"
  <2>1. Changed(case, cmd) =
          [case EXCEPT !.status = "IN_REVIEW", !.claimed = Null,
                     !.verified = cmd.verified, !.verifier = "SYSTEM"]
    BY <1>2 DEF Changed
  <2>2. QED
    BY <1>2, <2>1, ShapeOfCommand DEF Case, Statuses, Verdicts
<1>3. CASE cmd.do = "decide"
  <2>1. Changed(case, cmd) =
          [case EXCEPT !.status = "DECIDED", !.verdict = "approved",
                     !.verified = cmd.verified]
    BY <1>3 DEF Changed
  <2>2. QED
    BY <1>3, <2>1, ShapeOfCommand DEF Case, Statuses, Verdicts
<1>4. CASE cmd.do = "rule"
  <2>1. Changed(case, cmd) =
          [case EXCEPT !.status = "DECIDED", !.verdict = cmd.verdict,
                     !.verified = cmd.verified, !.verifier = "officer"]
    BY <1>4 DEF Changed
  <2>2. QED
    BY <1>4, <2>1, ShapeOfCommand DEF Case, Statuses, Verdicts
<1>5. CASE cmd.do = "object"
  <2>1. Changed(case, cmd) =
          [case EXCEPT !.status = "OBJECTED"]
    BY <1>5 DEF Changed
  <2>2. QED
    BY <1>5, <2>1, ShapeOfCommand DEF Case, Statuses, Verdicts
<1>6. CASE cmd.do = "claim"
  <2>1. Changed(case, cmd) =
          [case EXCEPT !.claims = @ \cup {cmd.claim}]
    BY <1>6 DEF Changed
  <2>2. QED
    BY <1>6, <2>1, ShapeOfCommand DEF Case, Statuses, Verdicts
<1>7. QED
  BY <1>1, <1>2, <1>3, <1>4, <1>5, <1>6, ShapeOfCommand

\* Every event raises the version by one and does nothing else of its own.
LEMMA EvolveEffect ==
  ASSUME NEW case \in Case, NEW cmd \in Command
  PROVE  LET changed == Changed(case, cmd)
             evolved == Evolve(case, cmd)
         IN  /\ evolved \in Case
             /\ evolved.version = case.version + 1
             /\ evolved.key = case.key
             /\ evolved.claimed = changed.claimed
             /\ evolved.verified = changed.verified
             /\ evolved.status = changed.status
             /\ evolved.verdict = changed.verdict
             /\ evolved.verifier = changed.verifier
             /\ cmd.do = "object" =>
                  evolved = [case EXCEPT !.status = "OBJECTED", !.version = @ + 1]
<1> DEFINE changed == Changed(case, cmd)
<1>1. changed \in Case /\ changed.version = case.version /\ changed.key = case.key
  BY ChangedEffect
<1>2. Evolve(case, cmd) = [changed EXCEPT !.version = @ + 1]
  BY DEF Evolve
<1>3. cmd.do = "object" => changed = [case EXCEPT !.status = "OBJECTED"]
  BY ChangedEffect
<1> HIDE DEF changed
<1>4. Evolve(case, cmd) \in Case
  BY <1>1, <1>2 DEF Case
<1>5. cmd.do = "object" =>
        Evolve(case, cmd) = [case EXCEPT !.status = "OBJECTED", !.version = @ + 1]
  BY <1>1, <1>2, <1>3 DEF Case
<1>6. QED
  BY <1>1, <1>2, <1>4, <1>5 DEF Case, changed

\* What the event of each command leaves of the case, in one place.
LEMMA SavedCase ==
  ASSUME NEW case \in Case, NEW cmd \in Command
  PROVE  LET new == Evolve(case, cmd) IN
         /\ new \in Case /\ new # Null /\ new.key = case.key
         /\ new.version = case.version + 1 /\ case.version \in Nat
         /\ cmd.do = "reset" =>
              /\ new.status = "SUBMITTED" /\ new.verdict = "undecided"
              /\ new.claimed = cmd.claimed /\ cmd.claimed # Null
         /\ cmd.do = "review" =>
              new.status = "IN_REVIEW" /\ new.verdict = case.verdict
         /\ cmd.do = "decide" =>
              /\ new.status = "DECIDED" /\ new.verdict = "approved"
              /\ new.claimed = case.claimed /\ new.verified = cmd.verified
         /\ cmd.do = "rule" =>
              /\ new.status = "DECIDED" /\ new.verdict # "undecided"
              /\ new.verifier = "officer"
         /\ cmd.do = "object" =>
              /\ new.status = "OBJECTED" /\ new.verdict = case.verdict
              /\ new.verifier = case.verifier /\ new.claimed = case.claimed
              /\ new.verified = case.verified
         /\ cmd.do = "claim" =>
              /\ new.status = case.status /\ new.verdict = case.verdict
              /\ new.verifier = case.verifier /\ new.claimed = case.claimed
              /\ new.verified = case.verified
<1> DEFINE changed == Changed(case, cmd)
           new == Evolve(case, cmd)
<1>1. /\ new \in Case /\ new.version = case.version + 1 /\ new.key = case.key
      /\ new.claimed = changed.claimed /\ new.verified = changed.verified
      /\ new.status = changed.status /\ new.verdict = changed.verdict
      /\ new.verifier = changed.verifier
      /\ cmd.do = "object" =>
           new = [case EXCEPT !.status = "OBJECTED", !.version = @ + 1]
  BY EvolveEffect
<1>2. new # Null /\ case.version \in Nat
  BY <1>1, GoConstants DEF Case
<1>3. cmd.do = "reset" => cmd.claimed # Null
  BY ShapeOfCommand, GoConstants
<1>4. cmd.do = "object" =>
        /\ new.status = "OBJECTED" /\ new.verdict = case.verdict
        /\ new.verifier = case.verifier /\ new.claimed = case.claimed
        /\ new.verified = case.verified
  BY <1>1 DEF Case
<1>5. /\ cmd.do = "reset" =>
           /\ changed.status = "SUBMITTED" /\ changed.verdict = "undecided"
           /\ changed.claimed = cmd.claimed
      /\ cmd.do = "review" =>
           changed.status = "IN_REVIEW" /\ changed.verdict = case.verdict
      /\ cmd.do = "decide" =>
           /\ changed.status = "DECIDED" /\ changed.verdict = "approved"
           /\ changed.claimed = case.claimed /\ changed.verified = cmd.verified
      /\ cmd.do = "rule" =>
           /\ changed.status = "DECIDED" /\ changed.verdict # "undecided"
           /\ changed.verifier = "officer"
      /\ cmd.do = "claim" =>
           /\ changed.status = case.status /\ changed.verdict = case.verdict
           /\ changed.verifier = case.verifier /\ changed.claimed = case.claimed
           /\ changed.verified = case.verified
  BY ChangedEffect
<1> HIDE DEF changed, new
<1>6. QED
  BY <1>1, <1>2, <1>3, <1>4, <1>5 DEF new

\* ProcessCase sends one of two commands, and approves only what matches.
LEMMA ProcessEffect ==
  ASSUME NEW claimed \in Results, NEW verified \in Results,
         NEW sampled \in BOOLEAN
  PROVE  LET cmd == ProcessCommand(claimed, verified, sampled) IN
           /\ cmd \in Command
           /\ cmd.do \in {"review", "decide"}
           /\ cmd.verified = verified
           /\ cmd.do = "decide" => ResultsMatch(claimed, verified)
BY DEF ProcessCommand, Command

\* Handling a command starts with loading the case.
LEMMA HandleShape ==
  ASSUME NEW c \in Ids, NEW cmd \in Command
  PROVE  /\ Handle(c, cmd) \in Handling
         /\ Handle(c, cmd).at = "load"
         /\ Handle(c, cmd).id = c
         /\ Handle(c, cmd).cmd = cmd
BY DEF Handle, Handling

\* Publishing an event leaves the events before it in their places.
LEMMA QueueGrows ==
  ASSUME NEW S, NEW q \in Seq(S), NEW e \in S
  PROVE  /\ Append(q, e) \in Seq(S) /\ Len(Append(q, e)) = Len(q) + 1
         /\ \A i \in 1 .. Len(q) : Append(q, e)[i] = q[i]
         /\ Append(q, e)[Len(q) + 1] = e
OBVIOUS

LEMMA StoredCase ==
  ASSUME TypeOK, NEW c \in Stored
  PROVE  c \in Ids /\ store[c] \in Case /\ store[c] # Null /\ store[c].key \in Keys
BY DEF TypeOK, Stored, Case

(***************************************************************************)
(* Steps that change nothing but the request of one goroutine.             *)
(***************************************************************************)
LEMMA RequestChange ==
  ASSUME GoInv, NEW p \in Procs, NEW r,
         UNCHANGED <<store, index, queue, view>>,
         op' = [op EXCEPT ![p] = r],
         r \in {Idle} \cup Filing \cup Indexing \cup Handling \cup Reading,
         op[p].at \in {"index", "locking"} =>
           r.at \in {"index", "locking"} /\ r.id = op[p].id,
         RequestSound(p)',
         SingleFiler => FilesAlone(p)' /\ ProcessesAlone(p)'
  PROVE  GoInv'
<1>1. op'[p] = r /\ \A q \in Procs : q # p => op'[q] = op[q]
  BY DEF GoInv, TypeOK
<1>2. TypeOK' /\ ViewSound'
  BY DEF GoInv, TypeOK, ViewSound, Stored
<1>3. IndexSound'
  <2>1. \A q \in Procs : op[q].at \in {"index", "locking"} =>
          op'[q].at \in {"index", "locking"} /\ op'[q].id = op[q].id
    BY <1>1
  <2>2. QED
    BY <2>1 DEF GoInv, IndexSound, Stored
<1>4. \A q \in Procs : RequestSound(q)'
  <2>1. ASSUME NEW q \in Procs, q # p PROVE RequestSound(q)'
    BY <1>1, <2>1 DEF GoInv, RequestSound, Accepted, Stored
  <2>2. QED
    BY <2>1
<1>5. ASSUME SingleFiler PROVE FilerInv'
  <2>1. OneCasePerKey' /\ VerdictFollowsStatus' /\ MachineDecisionsMatch'
    BY <1>5 DEF GoInv, FilerInv, OneCasePerKey, VerdictFollowsStatus,
                MachineDecisionsMatch, Stored
  <2>2. ASSUME NEW q \in Procs, q # p PROVE FilesAlone(q)' /\ ProcessesAlone(q)'
    BY <1>1, <1>5, <2>2 DEF GoInv, FilerInv, FilesAlone, ProcessesAlone, Stored
  <2>3. QED
    BY <1>5, <2>1, <2>2 DEF FilerInv
<1>6. QED
  BY <1>2, <1>3, <1>4, <1>5 DEF GoInv

\* A request that ends, or only reads, owes nothing.
LEMMA RestChange ==
  ASSUME GoInv, NEW p \in Procs, NEW r \in {Idle} \cup Reading,
         UNCHANGED <<store, index, queue, view>>,
         op' = [op EXCEPT ![p] = r],
         op[p].at \notin {"index", "locking"}
  PROVE  GoInv'
<1>1. op'[p] = r /\ r.at \in {"idle", "getting", "listing"}
  BY DEF GoInv, TypeOK, Idle, Reading
<1>2. RequestSound(p)' /\ FilesAlone(p)' /\ ProcessesAlone(p)'
  BY <1>1 DEF RequestSound, FilesAlone, ProcessesAlone
<1>3. QED
  BY <1>2, RequestChange

\* A command of an officer or a citizen sent to a stored case.
LEMMA HandleChange ==
  ASSUME GoInv, NEW p \in Procs, NEW c \in Stored, NEW cmd \in Command,
         UNCHANGED <<store, index, queue, view>>,
         op' = [op EXCEPT ![p] = Handle(c, cmd)],
         op[p].at \notin {"index", "locking"},
         cmd.do \in {"rule", "object", "claim"}
  PROVE  GoInv'
<1>0. c \in Ids
  BY DEF Stored
<1>1. op'[p] = Handle(c, cmd)
  BY DEF GoInv, TypeOK
<1>2. op'[p].at = "load" /\ op'[p].id = c /\ op'[p].cmd = cmd /\ op'[p] \in Handling
  BY <1>0, <1>1, HandleShape
<1>3. RequestSound(p)'
  BY <1>2 DEF RequestSound, Stored
<1>4. FilesAlone(p)'
  BY <1>2 DEF FilesAlone
<1>5. ProcessesAlone(p)'
  BY <1>2 DEF ProcessesAlone
<1>6. QED
  BY <1>1, <1>2, <1>3, <1>4, <1>5, RequestChange

LEMMA LoadKeeps ==
  ASSUME GoInv, NEW p \in Procs, Load(p)
  PROVE  GoInv'
<1> DEFINE case == store[op[p].id]
<1>1. op[p] \in Handling /\ op[p].at = "load" /\ op[p].id \in Stored
  BY ShapeOfRequest DEF GoInv, Load, RequestSound
<1>2. UNCHANGED <<store, index, queue, view>>
  BY DEF Load
<1>3. CASE Accepts(case, op[p].cmd)
  <2> DEFINE r == [op[p] EXCEPT !.at = "save", !.base = case.version]
  <2>1. case.version \in Nat
    BY <1>1, StoredCase DEF GoInv, Case
  <2>2. r \in Handling /\ r.at = "save" /\ r.id = op[p].id /\ r.cmd = op[p].cmd
                     /\ r.base = case.version
    BY <1>1, <2>1 DEF Handling
  <2>3. op' = [op EXCEPT ![p] = r]
    BY <1>3 DEF Load
  <2> HIDE DEF r
  <2>4. op'[p] = r
    BY <2>3 DEF GoInv, TypeOK
  <2>5. RequestSound(p)'
    BY <1>1, <1>2, <1>3, <2>1, <2>2, <2>4 DEF RequestSound, Accepted, Stored
  <2>6. ASSUME SingleFiler PROVE FilesAlone(p)' /\ ProcessesAlone(p)'
    BY <1>1, <1>2, <2>2, <2>4, <2>6
    DEF GoInv, FilerInv, FilesAlone, ProcessesAlone
  <2>7. QED
    BY <1>1, <1>2, <2>2, <2>3, <2>5, <2>6, RequestChange
<1>4. CASE ~Accepts(case, op[p].cmd)
  BY <1>1, <1>4, RestChange DEF Load
<1>5. QED
  BY <1>3, <1>4

LEMMA ConflictKeeps ==
  ASSUME GoInv, NEW p \in Procs, Conflict(p)
  PROVE  GoInv'
BY RestChange DEF Conflict

LEMMA BeginSubmitKeeps ==
  ASSUME GoInv, NEW p \in Procs, NEW k \in Keys, NEW claimed \in Results,
         NEW verified \in Results, BeginSubmit(p, k, claimed, verified)
  PROVE  GoInv'
<1> DEFINE r == [at |-> "lookup", key |-> k, claimed |-> claimed, verified |-> verified]
<1>1. r \in Filing /\ r.at = "lookup" /\ r.key = k
  BY DEF Filing
<1>2. /\ op' = [op EXCEPT ![p] = r] /\ UNCHANGED <<store, index, queue, view>>
      /\ op[p].at = "idle" /\ p \in Filers[k]
  BY DEF BeginSubmit, Free, Idle
<1> HIDE DEF r
<1>3. op'[p] = r
  BY <1>2 DEF GoInv, TypeOK
<1>4. RequestSound(p)' /\ FilesAlone(p)' /\ ProcessesAlone(p)'
  BY <1>1, <1>2, <1>3 DEF RequestSound, FilesAlone, ProcessesAlone
<1>5. QED
  BY <1>1, <1>2, <1>4, RequestChange

\* The index knows no case of the key: then nobody has stored one, and with a
\* single filer nobody is about to.
LEMMA LookupKeeps ==
  ASSUME GoInv, NEW p \in Procs, Lookup(p)
  PROVE  GoInv'
<1>1. op[p] \in Filing /\ op[p].at = "lookup" /\ op[p].key \in Keys
      /\ op[p].claimed \in Results /\ op[p].verified \in Results
  BY ShapeOfRequest DEF GoInv, Lookup, Filing
<1>2. UNCHANGED <<store, index, queue, view>>
  BY DEF Lookup
<1>3. CASE index[op[p].key] = Null
  <2> DEFINE r == [op[p] EXCEPT !.at = "file"]
  <2>1. r \in Filing /\ r.at = "file" /\ r.key = op[p].key
    BY <1>1 DEF Filing
  <2>2. op' = [op EXCEPT ![p] = r]
    BY <1>3 DEF Lookup
  <2> HIDE DEF r
  <2>3. op'[p] = r
    BY <2>2 DEF GoInv, TypeOK
  <2>4. RequestSound(p)'
    BY <2>1, <2>3 DEF RequestSound
  <2>5. ASSUME SingleFiler PROVE FilesAlone(p)' /\ ProcessesAlone(p)'
    <3>1. p \in Filers[op[p].key]
      BY <1>1, <2>5 DEF GoInv, FilerInv, FilesAlone
    <3>2. ASSUME NEW c \in Stored, store[c].key = op[p].key PROVE FALSE
      <4>1. PICK q \in Procs : op[q].at \in {"index", "locking"} /\ op[q].id = c
        BY <1>3, <3>2 DEF GoInv, IndexSound
      <4>2. op[q].key = op[p].key /\ q \in Filers[op[q].key]
        BY <2>5, <3>2, <4>1 DEF GoInv, RequestSound, FilerInv, FilesAlone
      <4>3. q = p
        BY <1>1, <2>5, <3>1, <4>2 DEF SingleFiler
      <4>4. QED
        BY <1>1, <4>1, <4>3
    <3>3. QED
      BY <1>2, <2>1, <2>3, <3>1, <3>2 DEF FilesAlone, ProcessesAlone, Stored
  <2>6. QED
    BY <1>1, <1>2, <2>1, <2>2, <2>4, <2>5, RequestChange
<1>4. CASE index[op[p].key] # Null
  <2> DEFINE c == index[op[p].key]
             cmd == [do |-> "reset", claimed |-> op[p].claimed,
                     verified |-> op[p].verified]
  <2>1. c \in Stored /\ store[c].key = op[p].key
    BY <1>1, <1>4 DEF GoInv, IndexSound
  <2>2. cmd \in Command /\ cmd.do = "reset"
    BY <1>1 DEF Command
  <2>3. op' = [op EXCEPT ![p] = Handle(c, cmd)]
    BY <1>4 DEF Lookup
  <2> HIDE DEF c, cmd
  <2> DEFINE h == Handle(c, cmd)
  <2>4. c \in Ids
    BY <2>1 DEF Stored
  <2>5. op'[p] = h /\ h \in Handling /\ h.at = "load" /\ h.id = c /\ h.cmd = cmd
    BY <2>2, <2>3, <2>4, HandleShape DEF GoInv, TypeOK
  <2> HIDE DEF h
  <2>6. RequestSound(p)'
    BY <1>2, <2>1, <2>5 DEF RequestSound, Stored
  <2>7. ASSUME SingleFiler PROVE FilesAlone(p)' /\ ProcessesAlone(p)'
    <3>1. p \in Filers[op[p].key]
      BY <1>1, <2>7 DEF GoInv, FilerInv, FilesAlone
    <3>2. QED
      BY <1>2, <2>1, <2>2, <2>5, <3>1 DEF FilesAlone, ProcessesAlone
  <2>8. op' = [op EXCEPT ![p] = h]
    BY <2>3 DEF h
  <2>9. QED
    BY <1>1, <1>2, <2>5, <2>6, <2>7, <2>8, RequestChange
<1>5. QED
  BY <1>3, <1>4

LEMMA AskForLockKeeps ==
  ASSUME GoInv, NEW p \in Procs, AskForLock(p)
  PROVE  GoInv'
<1> DEFINE r == [op[p] EXCEPT !.at = "locking"]
<1>1. op[p] \in Indexing /\ op[p].at = "index"
  BY ShapeOfRequest DEF GoInv, AskForLock
<1>2. /\ r \in Indexing /\ r.at = "locking" /\ r.id = op[p].id
      /\ r.key = op[p].key /\ r.claimed = op[p].claimed
  BY <1>1 DEF Indexing
<1>3. op' = [op EXCEPT ![p] = r] /\ UNCHANGED <<store, index, queue, view>>
  BY DEF AskForLock
<1> HIDE DEF r
<1>4. op'[p] = r
  BY <1>3 DEF GoInv, TypeOK
<1>5. RequestSound(p)'
  BY <1>1, <1>2, <1>3, <1>4 DEF GoInv, RequestSound, Stored
<1>6. ASSUME SingleFiler PROVE FilesAlone(p)' /\ ProcessesAlone(p)'
  BY <1>1, <1>2, <1>3, <1>4, <1>6 DEF GoInv, FilerInv, FilesAlone, ProcessesAlone
<1>7. QED
  BY <1>2, <1>3, <1>5, <1>6, RequestChange

LEMMA ReviewKeeps ==
  ASSUME GoInv, NEW p \in Procs, NEW c \in Ids,
         NEW verdict \in {"approved", "rejected"},
         NEW override \in Overrides \cup {Null},
         BeginReview(p, c, verdict, override)
  PROVE  GoInv'
<1> DEFINE cmd == [do |-> "rule", verdict |-> verdict,
                   verified |-> IF override = Null THEN view[c].verified ELSE override]
<1>1. c \in Stored /\ view[c] \in Case
  BY DEF BeginReview, GoInv, ViewSound, TypeOK
<1>2. cmd \in Command /\ cmd.do = "rule"
  BY <1>1, GoConstants DEF Command, Case
<1>3. /\ op' = [op EXCEPT ![p] = Handle(c, cmd)] /\ op[p].at = "idle"
      /\ UNCHANGED <<store, index, queue, view>>
  BY DEF BeginReview, Free, Idle
<1> HIDE DEF cmd
<1>4. QED
  BY <1>1, <1>2, <1>3, HandleChange

LEMMA ObjectionKeeps ==
  ASSUME GoInv, NEW p \in Procs, NEW c \in Ids, BeginObjection(p, c)
  PROVE  GoInv'
<1> DEFINE cmd == [do |-> "object"]
<1>1. cmd \in Command /\ cmd.do = "object"
  BY DEF Command
<1>2. /\ op' = [op EXCEPT ![p] = Handle(c, cmd)] /\ op[p].at = "idle"
      /\ UNCHANGED <<store, index, queue, view>> /\ c \in Stored
  BY DEF BeginObjection, Free, Idle
<1> HIDE DEF cmd
<1>3. QED
  BY <1>1, <1>2, HandleChange

LEMMA ClaimKeeps ==
  ASSUME GoInv, NEW p \in Procs, NEW c \in Ids, NEW claim \in Claims,
         BeginClaim(p, c, claim)
  PROVE  GoInv'
<1> DEFINE cmd == [do |-> "claim", claim |-> claim]
<1>1. cmd \in Command /\ cmd.do = "claim"
  BY DEF Command
<1>2. /\ op' = [op EXCEPT ![p] = Handle(c, cmd)] /\ op[p].at = "idle"
      /\ UNCHANGED <<store, index, queue, view>> /\ c \in Stored
  BY DEF BeginClaim, Free, Idle
<1> HIDE DEF cmd
<1>3. QED
  BY <1>1, <1>2, HandleChange

LEMMA ReadsKeep ==
  ASSUME GoInv, NEW p \in Procs,
         BeginList(p) \/ EndList(p) \/ BeginGet(p) \/ EndGet(p)
  PROVE  GoInv'
<1>1. CASE BeginList(p) \/ BeginGet(p)
  <2>1. PICK r \in Reading : op' = [op EXCEPT ![p] = r]
    BY <1>1 DEF BeginList, BeginGet, Reading
  <2>2. op[p].at = "idle" /\ UNCHANGED <<store, index, queue, view>>
    BY <1>1 DEF BeginList, BeginGet, Free, Idle
  <2>3. QED
    BY <2>1, <2>2, RestChange
<1>2. CASE EndList(p) \/ EndGet(p)
  BY <1>2, RestChange DEF EndList, EndGet
<1>3. QED
  BY <1>1, <1>2

(***************************************************************************)
(* The read model catches up.                                              *)
(***************************************************************************)
LEMMA ProjectKeeps ==
  ASSUME GoInv, Project
  PROVE  GoInv'
<1> DEFINE Event == [id : Ids, case : Case]
<1>1. /\ queue \in Seq(Event) /\ queue # <<>>
      /\ queue' = Tail(queue)
      /\ view' = [view EXCEPT ![Head(queue).id] = Head(queue).case]
      /\ UNCHANGED <<store, index, op>>
  BY DEF Project, GoInv, TypeOK
<1> HIDE DEF Event
<1>2. Head(queue) \in Event /\ Head(queue) = queue[1] /\ 1 \in 1 .. Len(queue)
  BY <1>1
<1>3. /\ queue' \in Seq(Event) /\ Len(queue') = Len(queue) - 1
      /\ \A i \in 1 .. Len(queue') : queue'[i] = queue[i + 1]
  BY <1>1
<1>4. TypeOK'
  BY <1>1, <1>2, <1>3 DEF GoInv, TypeOK, Event
<1>5. ViewSound'
  <2>1. \A c \in Ids : view'[c] # Null => c \in Stored
    BY <1>1, <1>2 DEF GoInv, ViewSound, TypeOK
  <2>2. \A i \in 1 .. Len(queue') : queue'[i].id \in Stored
    BY <1>1, <1>3 DEF GoInv, ViewSound
  <2>3. QED
    BY <1>1, <2>1, <2>2 DEF ViewSound, Stored
<1>6. IndexSound' /\ \A p \in Procs : RequestSound(p)'
  BY <1>1 DEF GoInv, IndexSound, RequestSound, Accepted, Stored
<1>7. SingleFiler => FilerInv'
  BY <1>1 DEF GoInv, FilerInv, OneCasePerKey, VerdictFollowsStatus,
              MachineDecisionsMatch, FilesAlone, ProcessesAlone, Stored
<1>8. QED
  BY <1>4, <1>5, <1>6, <1>7 DEF GoInv

(***************************************************************************)
(* Putting a case into the index, and going on to process it.              *)
(***************************************************************************)
LEMMA WriteIndexKeeps ==
  ASSUME GoInv, NEW p \in Procs, WriteIndex(p)
  PROVE  GoInv'
<1> DEFINE c == op[p].id
           k == op[p].key
<1>1. /\ op[p] \in Indexing /\ op[p].at = "locking" /\ c \in Ids /\ k \in Keys
      /\ op[p].claimed \in Results /\ op[p].verified \in Results
  BY ShapeOfRequest DEF GoInv, WriteIndex, Indexing
<1>2. c \in Stored /\ store[c].key = k
  BY <1>1 DEF GoInv, RequestSound
<1>3. PICK sampled \in BOOLEAN :
        op' = [op EXCEPT ![p] =
                 Handle(c, ProcessCommand(op[p].claimed, op[p].verified, sampled))]
  BY DEF WriteIndex
<1> DEFINE cmd == ProcessCommand(op[p].claimed, op[p].verified, sampled)
<1>4. /\ cmd \in Command /\ cmd.do \in {"review", "decide"}
      /\ cmd.verified = op[p].verified
      /\ cmd.do = "decide" => ResultsMatch(op[p].claimed, op[p].verified)
  BY <1>1, ProcessEffect
<1>5. /\ index' = [index EXCEPT ![k] = c] /\ UNCHANGED <<store, queue, view>>
      /\ Stored' = Stored
  BY DEF WriteIndex, Stored
<1> HIDE DEF cmd, c, k
<1>6. /\ op'[p] \in Handling /\ op'[p].at = "load" /\ op'[p].id = c
      /\ op'[p].cmd = cmd /\ \A q \in Procs : q # p => op'[q] = op[q]
  BY <1>1, <1>3, <1>4, HandleShape DEF GoInv, TypeOK, cmd
<1>7. TypeOK'
  <2>1. op' \in [Procs -> {Idle} \cup Filing \cup Indexing \cup Handling \cup Reading]
    BY <1>3, <1>6 DEF GoInv, TypeOK
  <2>2. index' \in [Keys -> Ids \cup {Null}]
    BY <1>1, <1>5 DEF GoInv, TypeOK
  <2>3. QED
    BY <1>5, <2>1, <2>2 DEF GoInv, TypeOK
<1>8. ViewSound'
  BY <1>5 DEF GoInv, ViewSound
<1>9. IndexSound'
  <2>1. index'[k] = c /\ \A l \in Keys : l # k => index'[l] = index[l]
    BY <1>1, <1>5 DEF GoInv, TypeOK
  <2>2. c # Null
    BY <1>1, GoConstants
  <2>3. ASSUME NEW d \in Stored, index'[store[d].key] = Null
        PROVE  \E q \in Procs : op'[q].at \in {"index", "locking"} /\ op'[q].id = d
    <3>1. store[d].key # k /\ store[d].key \in Keys
      BY <2>1, <2>2, <2>3, StoredCase DEF GoInv
    <3>2. PICK q \in Procs : op[q].at \in {"index", "locking"} /\ op[q].id = d
      BY <2>1, <2>3, <3>1 DEF GoInv, IndexSound
    <3>3. q # p
      BY <1>2, <3>1, <3>2 DEF c
    <3>4. QED
      BY <1>6, <3>2, <3>3
  <2>4. QED
    BY <1>2, <1>5, <2>1, <2>3 DEF GoInv, IndexSound
<1>10. \A q \in Procs : RequestSound(q)'
  <2>1. RequestSound(p)'
    BY <1>2, <1>5, <1>6 DEF RequestSound
  <2>2. ASSUME NEW q \in Procs, q # p PROVE RequestSound(q)'
    BY <1>5, <1>6, <2>2 DEF GoInv, RequestSound, Accepted
  <2>3. QED
    BY <2>1, <2>2
<1>11. ASSUME SingleFiler PROVE FilerInv'
  <2>1. OneCasePerKey' /\ VerdictFollowsStatus' /\ MachineDecisionsMatch'
    BY <1>5, <1>11 DEF GoInv, FilerInv, OneCasePerKey, VerdictFollowsStatus,
                       MachineDecisionsMatch
  <2>2. ASSUME NEW q \in Procs, q # p PROVE FilesAlone(q)' /\ ProcessesAlone(q)'
    BY <1>5, <1>6, <1>11, <2>2 DEF GoInv, FilerInv, FilesAlone, ProcessesAlone
  <2>3. /\ p \in Filers[k] /\ store[c].status = "SUBMITTED"
        /\ store[c].claimed = op[p].claimed
    BY <1>1, <1>11 DEF GoInv, FilerInv, FilesAlone, c, k
  <2>4. op[p].claimed # Null
    BY <1>1, GoConstants
  <2>5. FilesAlone(p)' /\ ProcessesAlone(p)'
    BY <1>2, <1>4, <1>5, <1>6, <2>3, <2>4 DEF FilesAlone, ProcessesAlone
  <2>6. QED
    BY <2>1, <2>2, <2>5 DEF FilerInv
<1>12. QED
  BY <1>7, <1>8, <1>9, <1>10, <1>11 DEF GoInv

(***************************************************************************)
(* Filing a new case.                                                      *)
(***************************************************************************)
LEMMA FileKeeps ==
  ASSUME GoInv, NEW p \in Procs, NEW c \in Ids, File(p, c)
  PROVE  GoInv'
<1> DEFINE k == op[p].key
           case == Submitted(k, op[p].claimed, op[p].verified)
           r == [at |-> "index", key |-> k, id |-> c, claimed |-> op[p].claimed,
                 verified |-> op[p].verified]
<1>1. /\ op[p] \in Filing /\ op[p].at = "file" /\ k \in Keys
      /\ op[p].claimed \in Results /\ op[p].verified \in Results
  BY ShapeOfRequest DEF GoInv, File, Filing
<1>2. /\ store[c] = Null
      /\ store' = [store EXCEPT ![c] = case]
      /\ queue' = Append(queue, [id |-> c, case |-> case])
      /\ op' = [op EXCEPT ![p] = r]
      /\ UNCHANGED <<index, view>>
  BY DEF File, Publish
<1>3. /\ case \in Case /\ case # Null /\ case.key = k
      /\ case.status = "SUBMITTED" /\ case.verdict = "undecided"
      /\ case.claimed = op[p].claimed
  BY <1>1, NewCase, GoConstants DEF Submitted
<1>4. /\ r \in Indexing /\ r.at = "index" /\ r.id = c /\ r.key = k
      /\ r.claimed = op[p].claimed
  BY <1>1 DEF Indexing
<1> HIDE DEF case, r, k
<1>5. /\ store'[c] = case /\ \A d \in Ids : d # c => store'[d] = store[d]
      /\ op'[p] = r /\ \A q \in Procs : q # p => op'[q] = op[q]
  BY <1>2 DEF GoInv, TypeOK
<1>6. Stored' = Stored \cup {c} /\ c \notin Stored
  BY <1>2, <1>3, <1>5 DEF Stored
<1>7. TypeOK'
  <2>1. store' \in [Ids -> Case \cup {Null}]
    BY <1>2, <1>3 DEF GoInv, TypeOK
  <2>2. queue' \in Seq([id : Ids, case : Case])
    BY <1>2, <1>3 DEF GoInv, TypeOK
  <2>3. op' \in [Procs -> {Idle} \cup Filing \cup Indexing \cup Handling \cup Reading]
    BY <1>2, <1>4 DEF GoInv, TypeOK
  <2>4. QED
    BY <1>2, <2>1, <2>2, <2>3 DEF GoInv, TypeOK
<1>8. ViewSound'
  <2> DEFINE e == [id |-> c, case |-> case]
  <2>1. e \in [id : Ids, case : Case] /\ e.id = c
    BY <1>3
  <2>2. queue' = Append(queue, e) /\ queue \in Seq([id : Ids, case : Case])
    BY <1>2 DEF GoInv, TypeOK
  <2> HIDE DEF e
  <2>3. /\ Len(queue') = Len(queue) + 1 /\ Len(queue) \in Nat
        /\ \A i \in 1 .. Len(queue) : queue'[i] = queue[i]
        /\ queue'[Len(queue) + 1] = e
    BY <2>1, <2>2, QueueGrows
  <2>4. \A i \in 1 .. Len(queue') : queue'[i].id \in Stored'
    BY <1>6, <2>1, <2>3 DEF GoInv, ViewSound
  <2>5. QED
    BY <1>2, <1>6, <2>4 DEF GoInv, ViewSound
<1>9. IndexSound'
  <2>1. ASSUME NEW l \in Keys, index[l] # Null
        PROVE  index[l] \in Stored' /\ store'[index[l]].key = l
    BY <1>5, <1>6, <2>1, StoredCase DEF GoInv, IndexSound
  <2>2. ASSUME NEW d \in Stored', index[store'[d].key] = Null
        PROVE  \E q \in Procs : op'[q].at \in {"index", "locking"} /\ op'[q].id = d
    <3>1. CASE d = c
      BY <1>4, <1>5, <3>1
    <3>2. CASE d # c
      <4>1. d \in Stored /\ store'[d] = store[d]
        BY <1>5, <1>6, <3>2, StoredCase DEF GoInv
      <4>2. PICK q \in Procs : op[q].at \in {"index", "locking"} /\ op[q].id = d
        BY <2>2, <4>1 DEF GoInv, IndexSound
      <4>3. QED
        BY <1>1, <1>5, <4>2
    <3>3. QED
      BY <3>1, <3>2
  <2>3. QED
    BY <1>2, <2>1, <2>2 DEF IndexSound
<1>10. \A q \in Procs : RequestSound(q)'
  <2>1. RequestSound(p)'
    BY <1>3, <1>4, <1>5, <1>6 DEF RequestSound
  <2>2. ASSUME NEW q \in Procs, q # p PROVE RequestSound(q)'
    <3>1. op'[q] = op[q] /\ RequestSound(q)
      BY <1>5, <2>2 DEF GoInv
    <3>2. \A d \in Stored : d \in Stored' /\ store'[d] = store[d]
      BY <1>5, <1>6 DEF Stored
    <3>3. QED
      BY <3>1, <3>2 DEF RequestSound, Accepted
  <2>3. QED
    BY <2>1, <2>2
<1>11. ASSUME SingleFiler PROVE FilerInv'
  <2>1. p \in Filers[k] /\ \A d \in Stored : store[d].key # k
    BY <1>1, <1>11 DEF GoInv, FilerInv, FilesAlone, k
  <2>2. \A d \in Stored : d # c /\ store'[d] = store[d] /\ d \in Stored'
    BY <1>5, <1>6 DEF Stored
  <2>3. OneCasePerKey'
    BY <1>3, <1>5, <1>6, <1>11, <2>1, <2>2 DEF GoInv, FilerInv, OneCasePerKey
  <2>4. VerdictFollowsStatus' /\ MachineDecisionsMatch'
    BY <1>3, <1>5, <1>6, <1>11, <2>2
    DEF GoInv, FilerInv, VerdictFollowsStatus, MachineDecisionsMatch
  <2>5. FilesAlone(p)' /\ ProcessesAlone(p)'
    BY <1>3, <1>4, <1>5, <2>1 DEF FilesAlone, ProcessesAlone
  <2>6. ASSUME NEW q \in Procs, q # p PROVE FilesAlone(q)' /\ ProcessesAlone(q)'
    <3>1. op'[q] = op[q] /\ FilesAlone(q) /\ ProcessesAlone(q) /\ RequestSound(q)
      BY <1>5, <1>11, <2>6 DEF GoInv, FilerInv
    <3>2. op[q].at = "file" => op[q].key # k
      <4>1. op[q].at = "file" => op[q].key \in Keys
        BY ShapeOfRequest DEF GoInv, Filing
      <4>2. QED
        BY <1>1, <1>11, <2>1, <2>6, <3>1, <4>1 DEF FilesAlone, SingleFiler
    <3>3. FilesAlone(q)'
      BY <1>3, <1>5, <1>6, <2>2, <3>1, <3>2 DEF FilesAlone, RequestSound
    <3>4. ProcessesAlone(q)'
      BY <2>2, <3>1 DEF ProcessesAlone, RequestSound
    <3>5. QED
      BY <3>3, <3>4
  <2>7. QED
    BY <2>3, <2>4, <2>5, <2>6 DEF FilerInv
<1>12. QED
  BY <1>7, <1>8, <1>9, <1>10, <1>11 DEF GoInv

(***************************************************************************)
(* Saving an event.                                                        *)
(***************************************************************************)
\* What a goroutine does next: nothing, or it processes the case it has reset.
LEMMA ContinuesEffect ==
  ASSUME NEW p \in Procs, NEW c \in Ids, NEW cmd \in Command, Continues(p, c, cmd)
  PROVE  \E r \in {Idle} \cup Handling :
           /\ op' = [op EXCEPT ![p] = r]
           /\ \/ r = Idle
              \/ /\ r.at = "load" /\ r.id = c /\ cmd.do = "reset"
                 /\ r.cmd.do \in {"review", "decide"}
                 /\ r.cmd.do = "decide" => ResultsMatch(cmd.claimed, r.cmd.verified)
<1>1. CASE cmd.do = "reset"
  <2>1. PICK sampled \in BOOLEAN :
          op' = [op EXCEPT ![p] =
                   Handle(c, ProcessCommand(cmd.claimed, cmd.verified, sampled))]
    BY <1>1 DEF Continues
  <2> DEFINE next == ProcessCommand(cmd.claimed, cmd.verified, sampled)
             r == Handle(c, next)
  <2>2. /\ next \in Command /\ next.do \in {"review", "decide"}
        /\ next.do = "decide" => ResultsMatch(cmd.claimed, next.verified)
    BY <1>1, ShapeOfCommand, ProcessEffect
  <2> HIDE DEF next
  <2>3. r \in Handling /\ r.at = "load" /\ r.id = c /\ r.cmd = next
    BY <2>2, HandleShape
  <2>4. op' = [op EXCEPT ![p] = r]
    BY <2>1 DEF next
  <2> HIDE DEF r
  <2>5. QED
    BY <1>1, <2>2, <2>3, <2>4
<1>2. CASE cmd.do # "reset"
  BY <1>2 DEF Continues
<1>3. QED
  BY <1>1, <1>2

\* The event of an accepted command: the case as it was loaded is the case as it
\* is, so the aggregate's guard still holds.
LEMMA SaveEffect ==
  ASSUME GoInv, NEW p \in Procs, Save(p)
  PROVE  /\ op[p] \in Handling /\ op[p].id \in Stored /\ op[p].cmd \in Command
         /\ store[op[p].id] \in Case
         /\ Accepts(store[op[p].id], op[p].cmd)
         /\ store' = [store EXCEPT ![op[p].id] = Evolve(store[op[p].id], op[p].cmd)]
<1>1. op[p] \in Handling /\ op[p].id \in Stored /\ op[p].cmd \in Command
  BY ShapeOfRequest DEF GoInv, Save, RequestSound, Handling
<1>2. Accepts(store[op[p].id], op[p].cmd)
  BY DEF GoInv, RequestSound, Accepted, Save
<1>3. QED
  BY <1>1, <1>2, StoredCase DEF GoInv, Save, Publish

\* With a single filer, the properties of cases and requests survive the event:
\* nobody but the filer takes a submitted case further.
LEMMA FilerSave ==
  ASSUME GoInv, SingleFiler, NEW p \in Procs, Save(p)
  PROVE  FilerInv'
<1> DEFINE c == op[p].id
           cmd == op[p].cmd
           case == store[c]
           new == Evolve(case, cmd)
<1>1. /\ op[p] \in Handling /\ c \in Stored /\ c \in Ids /\ cmd \in Command
      /\ case \in Case /\ Accepts(case, cmd) /\ op[p].at = "save"
      /\ store' = [store EXCEPT ![c] = new]
  BY SaveEffect DEF Save, Stored
<1>2. PICK r \in {Idle} \cup Handling :
        /\ op' = [op EXCEPT ![p] = r]
        /\ \/ r = Idle
           \/ /\ r.at = "load" /\ r.id = c /\ cmd.do = "reset"
              /\ r.cmd.do \in {"review", "decide"}
              /\ r.cmd.do = "decide" => ResultsMatch(cmd.claimed, r.cmd.verified)
  BY <1>1, ContinuesEffect DEF Save
<1>3. /\ new \in Case /\ new # Null /\ new.key = case.key
      /\ cmd.do = "reset" =>
           /\ new.status = "SUBMITTED" /\ new.verdict = "undecided"
           /\ new.claimed = cmd.claimed /\ cmd.claimed # Null
      /\ cmd.do = "review" =>
           new.status = "IN_REVIEW" /\ new.verdict = case.verdict
      /\ cmd.do = "decide" =>
           /\ new.status = "DECIDED" /\ new.verdict = "approved"
           /\ new.claimed = case.claimed /\ new.verified = cmd.verified
      /\ cmd.do = "rule" =>
           /\ new.status = "DECIDED" /\ new.verdict # "undecided"
           /\ new.verifier = "officer"
      /\ cmd.do = "object" =>
           /\ new.status = "OBJECTED" /\ new.verdict = case.verdict
           /\ new.verifier = case.verifier /\ new.claimed = case.claimed
           /\ new.verified = case.verified
      /\ cmd.do = "claim" =>
           /\ new.status = case.status /\ new.verdict = case.verdict
           /\ new.verifier = case.verifier /\ new.claimed = case.claimed
           /\ new.verified = case.verified
  BY <1>1, SavedCase
<1>4. /\ cmd.do \in {"reset", "review", "decide"} => p \in Filers[case.key]
      /\ cmd.do \in {"review", "decide"} => case.status = "SUBMITTED"
      /\ cmd.do = "decide" => case.claimed # Null /\ ResultsMatch(case.claimed, cmd.verified)
  BY <1>1 DEF GoInv, FilerInv, ProcessesAlone
<1>5. /\ case.verdict = "undecided" <=> case.status \in {"SUBMITTED", "IN_REVIEW"}
      /\ case.status \in {"DECIDED", "OBJECTED"} /\ case.verifier # "officer"
           => case.claimed # Null /\ ResultsMatch(case.claimed, case.verified)
  BY <1>1 DEF GoInv, FilerInv, VerdictFollowsStatus, MachineDecisionsMatch
<1>6. /\ cmd.do \in {"reset", "review", "decide", "rule", "object", "claim"}
      /\ cmd.do = "object" => case.status = "DECIDED"
      /\ cmd.do = "rule" => case.status # "SUBMITTED"
  BY <1>1, ShapeOfCommand DEF Accepts
<1> HIDE DEF new
<1>7. /\ new.verdict = "undecided" <=> new.status \in {"SUBMITTED", "IN_REVIEW"}
      /\ new.status \in {"DECIDED", "OBJECTED"} /\ new.verifier # "officer"
           => new.claimed # Null /\ ResultsMatch(new.claimed, new.verified)
  BY <1>3, <1>4, <1>5, <1>6
\* Only the filer's commands and claims touch a submitted case.
<1>8. ASSUME case.status = "SUBMITTED", p \notin Filers[case.key]
      PROVE  /\ new.status = "SUBMITTED" /\ new.claimed = case.claimed
  BY <1>3, <1>4, <1>6, <1>8
<1> HIDE DEF case, cmd, c
<1>9. /\ store'[c] = new /\ \A d \in Ids : d # c => store'[d] = store[d]
      /\ op'[p] = r /\ \A q \in Procs : q # p => op'[q] = op[q]
  BY <1>1, <1>2 DEF GoInv, TypeOK
<1>10. /\ Stored' = Stored
       /\ \A d \in Stored : store'[d].key = store[d].key
  BY <1>1, <1>3, <1>9 DEF Stored, case
<1>11. OneCasePerKey'
  BY <1>10 DEF GoInv, FilerInv, OneCasePerKey
<1>12. VerdictFollowsStatus' /\ MachineDecisionsMatch'
  <2>1. \A d \in Stored : d # c => store'[d] = store[d]
    BY <1>9 DEF Stored
  <2>2. QED
    BY <1>7, <1>9, <1>10, <2>1
    DEF GoInv, FilerInv, VerdictFollowsStatus, MachineDecisionsMatch
<1>13. FilesAlone(p)' /\ ProcessesAlone(p)'
  BY <1>1, <1>2, <1>3, <1>4, <1>9 DEF FilesAlone, ProcessesAlone, Idle
<1>14. ASSUME NEW q \in Procs, q # p PROVE FilesAlone(q)' /\ ProcessesAlone(q)'
  <2>1. op'[q] = op[q] /\ FilesAlone(q) /\ ProcessesAlone(q) /\ RequestSound(q)
    BY <1>9, <1>14 DEF GoInv, FilerInv
  <2>2. \A d \in Stored : d # c => store'[d] = store[d]
    BY <1>9 DEF Stored
  <2>3. case.key \in Keys /\ case.key = store[c].key
    BY <1>1 DEF Case, case
  <2>4. q \in Filers[case.key] => p \notin Filers[case.key]
    BY <1>14, <2>3 DEF SingleFiler
  <2>5. FilesAlone(q)'
    <3>1. ASSUME op[q].at \in {"index", "locking"}
          PROVE  /\ store'[op[q].id].status = "SUBMITTED"
                 /\ store'[op[q].id].claimed = op[q].claimed
      <4>1. CASE op[q].id = c
        BY <1>8, <1>9, <2>1, <2>4, <3>1, <4>1 DEF FilesAlone, RequestSound, case
      <4>2. CASE op[q].id # c
        BY <2>1, <2>2, <3>1, <4>2 DEF FilesAlone, RequestSound
      <4>3. QED
        BY <4>1, <4>2
    <3>2. QED
      BY <1>10, <2>1, <3>1 DEF FilesAlone
  <2>6. ProcessesAlone(q)'
    <3>1. CASE op[q].at \in {"load", "save"} /\ op[q].id = c
      BY <1>3, <1>8, <1>9, <2>1, <2>4, <3>1 DEF ProcessesAlone, case
    <3>2. CASE op[q].at \in {"load", "save"} /\ op[q].id # c
      BY <2>1, <2>2, <3>2 DEF ProcessesAlone, RequestSound
    <3>3. CASE op[q].at \notin {"load", "save"}
      BY <2>1, <3>3 DEF ProcessesAlone
    <3>4. QED
      BY <3>1, <3>2, <3>3
  <2>7. QED
    BY <2>5, <2>6
<1>15. QED
  BY <1>11, <1>12, <1>13, <1>14 DEF FilerInv

LEMMA SaveKeeps ==
  ASSUME GoInv, NEW p \in Procs, Save(p)
  PROVE  GoInv'
<1> DEFINE c == op[p].id
           cmd == op[p].cmd
           case == store[c]
           new == Evolve(case, cmd)
<1>1. /\ op[p] \in Handling /\ c \in Stored /\ c \in Ids /\ cmd \in Command
      /\ case \in Case /\ Accepts(case, cmd) /\ op[p].at = "save"
  BY SaveEffect DEF Save, Stored
<1>2. /\ store' = [store EXCEPT ![c] = new]
      /\ queue' = Append(queue, [id |-> c, case |-> new])
      /\ UNCHANGED <<index, view>>
  BY DEF Save, Publish
<1>3. PICK r \in {Idle} \cup Handling :
        /\ op' = [op EXCEPT ![p] = r]
        /\ \/ r = Idle
           \/ /\ r.at = "load" /\ r.id = c /\ cmd.do = "reset"
              /\ r.cmd.do \in {"review", "decide"}
              /\ r.cmd.do = "decide" => ResultsMatch(cmd.claimed, r.cmd.verified)
  BY <1>1, ContinuesEffect DEF Save
<1>4. /\ new \in Case /\ new # Null /\ new.version = case.version + 1
      /\ new.key = case.key /\ case.version \in Nat
  BY <1>1, SavedCase
<1> HIDE DEF new, case, cmd, c
<1>5. /\ store'[c] = new /\ \A d \in Ids : d # c => store'[d] = store[d]
      /\ op'[p] = r /\ \A q \in Procs : q # p => op'[q] = op[q]
  BY <1>1, <1>2, <1>3 DEF GoInv, TypeOK
<1>6. /\ Stored' = Stored
      /\ \A d \in Stored : store'[d].key = store[d].key
  BY <1>1, <1>4, <1>5 DEF Stored, case
<1>7. TypeOK'
  <2>1. store' \in [Ids -> Case \cup {Null}]
    BY <1>1, <1>2, <1>4 DEF GoInv, TypeOK
  <2>2. queue' \in Seq([id : Ids, case : Case])
    BY <1>1, <1>2, <1>4 DEF GoInv, TypeOK
  <2>3. op' \in [Procs -> {Idle} \cup Filing \cup Indexing \cup Handling \cup Reading]
    BY <1>3 DEF GoInv, TypeOK
  <2>4. QED
    BY <1>2, <2>1, <2>2, <2>3 DEF GoInv, TypeOK
<1>8. ViewSound'
  <2> DEFINE e == [id |-> c, case |-> new]
  <2>1. e \in [id : Ids, case : Case] /\ e.id = c
    BY <1>1, <1>4
  <2>2. queue' = Append(queue, e) /\ queue \in Seq([id : Ids, case : Case])
    BY <1>2 DEF GoInv, TypeOK
  <2> HIDE DEF e
  <2>3. /\ Len(queue') = Len(queue) + 1 /\ Len(queue) \in Nat
        /\ \A i \in 1 .. Len(queue) : queue'[i] = queue[i]
        /\ queue'[Len(queue) + 1] = e
    BY <2>1, <2>2, QueueGrows
  <2>4. \A i \in 1 .. Len(queue') : queue'[i].id \in Stored'
    BY <1>1, <1>6, <2>1, <2>3 DEF GoInv, ViewSound
  <2>5. QED
    BY <1>2, <1>6, <2>4 DEF GoInv, ViewSound
<1>9. IndexSound'
  <2>1. \A q \in Procs : op[q].at \in {"index", "locking"} => op'[q] = op[q]
    BY <1>1, <1>5
  <2>2. ASSUME NEW l \in Keys, index[l] # Null
        PROVE  index[l] \in Stored' /\ store'[index[l]].key = l
    BY <1>6, <2>2 DEF GoInv, IndexSound
  <2>3. ASSUME NEW d \in Stored', index[store'[d].key] = Null
        PROVE  \E q \in Procs : op'[q].at \in {"index", "locking"} /\ op'[q].id = d
    <3>1. PICK q \in Procs : op[q].at \in {"index", "locking"} /\ op[q].id = d
      BY <1>6, <2>3 DEF GoInv, IndexSound
    <3>2. QED
      BY <2>1, <3>1
  <2>4. QED
    BY <1>2, <2>2, <2>3 DEF IndexSound
<1>10. \A q \in Procs : RequestSound(q)'
  <2>1. RequestSound(p)'
    BY <1>1, <1>3, <1>5, <1>6 DEF RequestSound, Idle
  <2>2. ASSUME NEW q \in Procs, q # p PROVE RequestSound(q)'
    <3>1. op'[q] = op[q] /\ RequestSound(q)
      BY <1>5, <2>2 DEF GoInv
    <3>2. op[q].at = "save" => op[q] \in Handling /\ op[q].base \in Nat
      BY ShapeOfRequest DEF GoInv, Handling
    <3>3. ASSUME op[q].at = "save", op[q].id = c PROVE Accepted(q)'
      BY <1>4, <1>5, <3>1, <3>2, <3>3 DEF RequestSound, Accepted, case
    <3>4. ASSUME op[q].at = "save", op[q].id # c PROVE Accepted(q)'
      BY <1>5, <3>1, <3>4 DEF RequestSound, Accepted, Stored
    <3>5. QED
      BY <1>6, <3>1, <3>3, <3>4 DEF RequestSound
  <2>3. QED
    BY <2>1, <2>2
<1>11. ASSUME SingleFiler PROVE FilerInv'
  BY <1>11, FilerSave, SaveEffect DEF GoInv
<1>12. QED
  BY <1>7, <1>8, <1>9, <1>10, <1>11 DEF GoInv

(***************************************************************************)
(* The invariant.                                                          *)
(***************************************************************************)
LEMMA StutterKeeps ==
  ASSUME GoInv, UNCHANGED vars
  PROVE  GoInv'
<1>1. UNCHANGED <<store, index, queue, view, op>>
  BY DEF vars
<1>2. TypeOK' /\ ViewSound' /\ IndexSound'
  BY <1>1 DEF GoInv, TypeOK, ViewSound, IndexSound, Stored
<1>3. \A p \in Procs : RequestSound(p)'
  BY <1>1 DEF GoInv, RequestSound, Accepted, Stored
<1>4. ASSUME SingleFiler PROVE FilerInv'
  BY <1>1, <1>4 DEF GoInv, FilerInv, OneCasePerKey, VerdictFollowsStatus,
    MachineDecisionsMatch, FilesAlone, ProcessesAlone, Stored
<1>5. QED
  BY <1>2, <1>3, <1>4 DEF GoInv

\* Before the first request nothing is stored and nobody is at work.
LEMMA GoInit == Init => GoInv
<1> SUFFICES ASSUME Init PROVE GoInv
  OBVIOUS
<1>1. Stored = {} /\ \A p \in Procs : op[p].at = "idle"
  BY DEF Init, Stored, Idle
<1>2. TypeOK
  BY DEF Init, TypeOK
<1>3. ViewSound /\ IndexSound
  BY <1>1 DEF Init, ViewSound, IndexSound
<1>4. \A p \in Procs : RequestSound(p) /\ FilesAlone(p) /\ ProcessesAlone(p)
  BY <1>1 DEF RequestSound, FilesAlone, ProcessesAlone
<1>5. OneCasePerKey /\ VerdictFollowsStatus /\ MachineDecisionsMatch
  BY <1>1 DEF OneCasePerKey, VerdictFollowsStatus, MachineDecisionsMatch
<1>6. QED
  BY <1>2, <1>3, <1>4, <1>5 DEF GoInv, FilerInv

LEMMA GoNext == GoInv /\ [Next]_vars => GoInv'
<1> SUFFICES ASSUME GoInv, [Next]_vars PROVE GoInv'
  OBVIOUS
<1>1. ASSUME NEW p \in Procs, Request(p) PROVE GoInv'
  <2>1. CASE \E k \in Keys, claimed, verified \in Results :
               BeginSubmit(p, k, claimed, verified)
    BY <2>1, BeginSubmitKeeps
  <2>2. CASE \E c \in Ids, verdict \in {"approved", "rejected"},
               override \in Overrides \cup {Null} : BeginReview(p, c, verdict, override)
    BY <2>2, ReviewKeeps
  <2>3. CASE \E c \in Ids : BeginObjection(p, c)
    BY <2>3, ObjectionKeeps
  <2>4. CASE \E c \in Ids, claim \in Claims : BeginClaim(p, c, claim)
    BY <2>4, ClaimKeeps
  <2>5. CASE BeginList(p) \/ BeginGet(p)
    BY <2>5, ReadsKeep
  <2>6. QED
    BY <1>1, <2>1, <2>2, <2>3, <2>4, <2>5 DEF Request
<1>2. ASSUME NEW p \in Procs, Work(p) PROVE GoInv'
  <2>1. CASE Lookup(p)
    BY <2>1, LookupKeeps
  <2>2. CASE \E c \in Ids : File(p, c)
    BY <2>2, FileKeeps
  <2>3. CASE AskForLock(p)
    BY <2>3, AskForLockKeeps
  <2>4. CASE WriteIndex(p)
    BY <2>4, WriteIndexKeeps
  <2>5. CASE Load(p)
    BY <2>5, LoadKeeps
  <2>6. CASE Save(p)
    BY <2>6, SaveKeeps
  <2>7. CASE Conflict(p)
    BY <2>7, ConflictKeeps
  <2>8. CASE EndList(p) \/ EndGet(p)
    BY <2>8, ReadsKeep
  <2>9. QED
    BY <1>2, <2>1, <2>2, <2>3, <2>4, <2>5, <2>6, <2>7, <2>8 DEF Work
<1>3. QED
  BY <1>1, <1>2, ProjectKeeps, StutterKeeps DEF Next

\* GoInv holds in every reachable state, however the goroutines interleave.
THEOREM GoInvariantHolds == Spec => []GoInv
  BY GoInit, GoNext, PTL DEF Spec

(***************************************************************************)
(* What follows from it for any requests.                                  *)
(***************************************************************************)
\* The index leads to a case of its key, and a case it does not know yet is about
\* to be put there: SubmitCase loses no case between its command and indexCase.
THEOREM GoIndexSound == Spec => []IndexSound
<1>1. GoInv => IndexSound
  BY DEF GoInv
<1>2. QED
  BY <1>1, GoInvariantHolds, PTL

\* The version check of the event store protects a decision: a command accepted
\* before the decision was taken is never saved after it.
THEOREM GoDecisionStands == Spec => DecisionStands
<1>1. ASSUME GoInv, Next, NEW c \in Stored,
             store[c].status = "DECIDED", store'[c] # store[c]
      PROVE  \/ store'[c].status = "SUBMITTED"
             \/ store'[c] = [store[c] EXCEPT !.status = "OBJECTED", !.version = @ + 1]
  <2>1. c \in Ids /\ store[c] # Null /\ store \in [Ids -> Case \cup {Null}]
    BY <1>1 DEF Stored, GoInv, TypeOK
  <2>2. PICK p \in Procs : Save(p) \/ \E d \in Ids : File(p, d)
    BY <1>1 DEF Next, Request, Work, Project, BeginSubmit, BeginReview,
      BeginObjection, BeginClaim, BeginList, BeginGet, Lookup, AskForLock,
      WriteIndex, Load, Conflict, EndList, EndGet
  <2>3. CASE \E d \in Ids : File(p, d)
    BY <1>1, <2>1, <2>3 DEF File, Publish
  <2>4. CASE Save(p)
    <3> DEFINE cmd == op[p].cmd
               case == store[c]
    <3>1. /\ op[p].id = c /\ case \in Case /\ cmd \in Command
          /\ Accepts(case, cmd) /\ store'[c] = Evolve(case, cmd)
      BY <1>1, <2>1, <2>4, SaveEffect
    <3>2. cmd.do \in {"reset", "object"}
      BY <1>1, <3>1, ShapeOfCommand DEF Accepts
    <3> HIDE DEF cmd, case
    <3>3. CASE cmd.do = "reset"
      BY <3>1, <3>3, SavedCase
    <3>4. CASE cmd.do = "object"
      <4>1. Evolve(case, cmd) = [case EXCEPT !.status = "OBJECTED", !.version = @ + 1]
        BY <3>1, <3>4, EvolveEffect
      <4>2. QED
        BY <3>1, <4>1 DEF case
    <3>5. QED
      BY <3>2, <3>3, <3>4
  <2>5. QED
    BY <2>2, <2>3, <2>4
<1>2. GoInv /\ [Next]_vars =>
        [\A c \in Stored :
           store[c].status = "DECIDED" /\ store'[c] # store[c] =>
             \/ store'[c].status = "SUBMITTED"
             \/ store'[c] = [store[c] EXCEPT !.status = "OBJECTED",
                                             !.version = @ + 1]]_vars
  BY <1>1
<1>3. QED
  BY <1>2, GoInvariantHolds, PTL DEF Spec, DecisionStands

\* Where a request stands after a step: only looking up a key that is not in the index
\* leads to filing under it.
LEMMA FilingBegins ==
  ASSUME GoInv, Next, NEW k \in Keys, index[k] # Null, NEW q \in Procs,
         op'[q].at = "file", op'[q].key = k
  PROVE  op'[q] = op[q]
<1> SUFFICES ASSUME op'[q] # op[q] PROVE FALSE
  OBVIOUS
<1>0. op \in [Procs -> {Idle} \cup Filing \cup Indexing \cup Handling \cup Reading]
  BY DEF GoInv, TypeOK
<1>1. PICK p \in Procs : Request(p) \/ Work(p)
  BY DEF Next, Project
<1>2. CASE Request(p)
  BY <1>0, <1>2 DEF Request, BeginSubmit, BeginReview, BeginObjection, BeginClaim, BeginList,
                    BeginGet, Handle
<1>3. CASE Lookup(p)
  <2>1. op[p] \in Filing
    BY <1>3, ShapeOfRequest DEF GoInv, Lookup
  <2>2. \/ op'[p] = [op[p] EXCEPT !.at = "file"] /\ index[op[p].key] = Null
        \/ op'[p].at = "load"
    BY <1>0, <1>3 DEF Lookup, Handle
  <2>3. p = q
    BY <1>0, <1>3 DEF Lookup
  <2> QED
    BY <2>1, <2>2, <2>3 DEF Filing
<1>4. CASE Load(p)
  <2>1. op[p] \in Handling
    BY <1>4, ShapeOfRequest DEF GoInv, Load
  <2> DEFINE saving == [op[p] EXCEPT !.at = "save", !.base = store[op[p].id].version]
  <2>2. saving.at = "save"
    BY <2>1 DEF Handling
  <2>3. p = q /\ (op'[p] = saving \/ op'[p] = Idle)
    BY <1>0, <1>4 DEF Load
  <2> HIDE DEF saving
  <2> QED
    BY <2>2, <2>3 DEF Idle
<1>5. CASE AskForLock(p)
  <2>1. op[p] \in Indexing /\ q \in DOMAIN op
    BY <1>0, <1>5, ShapeOfRequest DEF GoInv, AskForLock
  <2>2. p = q /\ op'[p] = [op[p] EXCEPT !.at = "locking"]
    BY <1>0, <1>5 DEF AskForLock
  <2> QED
    BY <2>1, <2>2 DEF Indexing
<1>6. CASE Save(p)
  BY <1>0, <1>6 DEF Save, Continues, Handle, Idle
<1>7. CASE WriteIndex(p)
  BY <1>0, <1>7 DEF WriteIndex, Handle
<1>8. CASE \E c \in Ids : File(p, c)
  BY <1>0, <1>8 DEF File
<1>9. CASE Conflict(p) \/ EndList(p) \/ EndGet(p)
  BY <1>0, <1>9 DEF Conflict, EndList, EndGet, Idle
<1> QED
  BY <1>1, <1>2, <1>3, <1>4, <1>5, <1>6, <1>7, <1>8, <1>9 DEF Work

\* Which cases a key has changes only by filing.
LEMMA FilingAdds ==
  ASSUME GoInv, Next, NEW k \in Keys, CasesOf(k)' # CasesOf(k)
  PROVE  \E p \in Unaware(k) \ Unaware(k)', c \in Ids \ CasesOf(k) :
           CasesOf(k)' = CasesOf(k) \cup {c}
<1>0. store \in [Ids -> Case \cup {Null}]
  BY DEF GoInv, TypeOK
<1>1. store' # store
  BY DEF CasesOf, Stored
<1>2. PICK p \in Procs : Save(p) \/ \E d \in Ids : File(p, d)
  BY <1>1 DEF Next, Request, Work, Project, BeginSubmit, BeginReview, BeginObjection,
    BeginClaim, BeginList, BeginGet, Lookup, AskForLock, WriteIndex, Load, Conflict,
    EndList, EndGet
<1>3. CASE Save(p)
  <2>1. \A c \in Stored : store'[c] # Null /\ store'[c].key = store[c].key
    <3> SUFFICES ASSUME NEW c \in Stored, store'[c] # store[c]
                 PROVE  store'[c] # Null /\ store'[c].key = store[c].key
      BY DEF Stored
    <3>1. op[p].id = c /\ store[c] \in Case /\ op[p].cmd \in Command
          /\ store'[c] = Evolve(store[c], op[p].cmd)
      BY <1>0, <1>3, SaveEffect DEF Stored
    <3> QED
      BY <3>1, SavedCase
  <2>2. Stored' = Stored
    <3>1. op[p].id \in Stored
      BY <1>3 DEF GoInv, RequestSound, Save
    <3> QED
      BY <1>0, <1>3, <2>1, <3>1 DEF Stored, Save, Publish
  <2> QED
    BY <2>1, <2>2 DEF CasesOf
<1>4. ASSUME NEW c \in Ids, File(p, c)
      PROVE  \E r \in Unaware(k) \ Unaware(k)', d \in Ids \ CasesOf(k) :
               CasesOf(k)' = CasesOf(k) \cup {d}
  <2>1. op[p] \in Filing /\ op \in [Procs -> {Idle} \cup Filing \cup Indexing \cup Handling \cup Reading]
    BY <1>4, ShapeOfRequest DEF GoInv, TypeOK, File
  <2> DEFINE new == Submitted(op[p].key, op[p].claimed, op[p].verified)
  <2>2. new.key = op[p].key /\ new # Null
    BY <2>1, NewCase, GoConstants DEF Submitted, Filing
  <2>3. store' = [store EXCEPT ![c] = new] /\ store[c] = Null
    BY <1>4 DEF File, Publish
  <2>4. op'[p].at = "index" /\ op[p].at = "file"
    BY <1>4, <2>1 DEF File
  <2> HIDE DEF new
  <2>5. CASE op[p].key = k
    <3>1. p \in Unaware(k) \ Unaware(k)'
      BY <2>4, <2>5 DEF Unaware
    <3>2. c \in Ids \ CasesOf(k) /\ CasesOf(k)' = CasesOf(k) \cup {c}
      BY <1>0, <2>2, <2>3, <2>5 DEF CasesOf, Stored
    <3> QED
      BY <3>1, <3>2
  <2>6. CASE op[p].key # k
    BY <1>0, <2>2, <2>3, <2>6 DEF CasesOf, Stored
  <2> QED
    BY <2>5, <2>6
<1> QED
  BY <1>2, <1>3, <1>4

\* Once a key is in the index it stays there, and only submissions that looked it up
\* before can still make a case under it, however many goroutines file on it.
THEOREM GoDoublesOverlap == Spec => OnlyOverlapDoubles
<1>1. ASSUME GoInv, Next, NEW k \in Keys, index[k] # Null
      PROVE  /\ index'[k] # Null
             /\ Unaware(k)' \subseteq Unaware(k)
             /\ CasesOf(k)' # CasesOf(k) =>
                  \E p \in Unaware(k) \ Unaware(k)', c \in Ids \ CasesOf(k) :
                    CasesOf(k)' = CasesOf(k) \cup {c}
  <2>1. index'[k] # Null
    <3>1. CASE \E p \in Procs : WriteIndex(p)
      <4>1. PICK p \in Procs : WriteIndex(p)
        BY <3>1
      <4>2. op[p].id # Null /\ index' = [index EXCEPT ![op[p].key] = op[p].id]
        BY <1>1, <4>1, ShapeOfRequest, GoConstants DEF GoInv, WriteIndex, Indexing
      <4> QED
        BY <1>1, <4>2 DEF GoInv, TypeOK
    <3>2. CASE ~ \E p \in Procs : WriteIndex(p)
      BY <1>1, <3>2 DEF Next, Request, Work, Project, BeginSubmit, BeginReview,
        BeginObjection, BeginClaim, BeginList, BeginGet, Lookup, File, AskForLock, Load,
        Save, Conflict, EndList, EndGet
    <3> QED
      BY <3>1, <3>2
  <2>2. Unaware(k)' \subseteq Unaware(k)
    BY <1>1, FilingBegins DEF Unaware
  <2> QED
    BY <1>1, <2>1, <2>2, FilingAdds
<1>2. GoInv /\ [Next]_vars =>
        [\A k \in Keys : index[k] # Null =>
           /\ index'[k] # Null
           /\ Unaware(k)' \subseteq Unaware(k)
           /\ CasesOf(k)' # CasesOf(k) =>
                \E p \in Unaware(k) \ Unaware(k)', c \in Ids \ CasesOf(k) :
                  CasesOf(k)' = CasesOf(k) \cup {c}]_vars
  BY <1>1
<1> QED
  BY <1>2, GoInvariantHolds, PTL DEF Spec, OnlyOverlapDoubles

\* Every reference leads to a stored case, every queued event and every waiting
\* request carries what it needs.
THEOREM GoTypeCorrect == Spec => []TypeOK
<1>1. GoInv => TypeOK
  BY DEF GoInv
<1>2. QED
  BY <1>1, GoInvariantHolds, PTL

(***************************************************************************)
(* What follows from it when every key has one filer.                      *)
(***************************************************************************)
\* A reset never leaves a verdict behind, nor does a decision come without one.
THEOREM GoVerdicts ==
  ASSUME SingleFiler
  PROVE  Spec => []VerdictFollowsStatus
<1>1. GoInv => VerdictFollowsStatus
  BY SingleFiler DEF GoInv, FilerInv
<1>2. QED
  BY <1>1, GoInvariantHolds, PTL

\* What the machine approved on its own, its result still confirms: no other
\* request changes the claim between the comparison and the decision.
THEOREM GoMachineDecisions ==
  ASSUME SingleFiler
  PROVE  Spec => []MachineDecisionsMatch
<1>1. GoInv => MachineDecisionsMatch
  BY SingleFiler DEF GoInv, FilerInv
<1>2. QED
  BY <1>1, GoInvariantHolds, PTL

(***************************************************************************)
(* Waiting and ending.                                                     *)
(***************************************************************************)
LEMMA StepsCounted ==
  ASSUME TypeOK, NEW p \in Procs
  PROVE  StepsLeft(op[p]) \in 0 .. 6 /\ (~Free(p) => StepsLeft(op[p]) >= 1)
<1>1. op[p].at \in {"idle", "lookup", "file", "index", "locking", "load", "save", "getting", "listing"}
      /\ (op[p].at = "idle" <=> op[p] = Idle)
  BY ShapeOfRequest DEF Filing, Indexing, Handling, Reading, Idle
<1> QED
  BY <1>1 DEF StepsLeft, Free

LEMMA NothingLeftIdle == StepsLeft(Idle) = 0
  BY DEF StepsLeft, Idle

\* A request that goes on with its second command has two steps to go.
LEMMA ProcessingLeft ==
  ASSUME NEW c, NEW cmd, cmd.do \in {"review", "decide"}
  PROVE  StepsLeft(Handle(c, cmd)) = 2
<1>1. Handle(c, cmd).at = "load" /\ Handle(c, cmd).cmd = cmd
  BY DEF Handle
<1> QED
  BY <1>1 DEF StepsLeft

LEMMA WorkEnds ==
  ASSUME GoInv, NEW p \in Procs, Work(p)
  PROVE  /\ StepsLeft(op'[p]) < StepsLeft(op[p])
         /\ \A q \in Procs : q # p => op'[q] = op[q]
<1> DEFINE Fewer == StepsLeft(op'[p]) < StepsLeft(op[p])
<1>0. TypeOK /\ op \in [Procs -> {Idle} \cup Filing \cup Indexing \cup Handling \cup Reading]
  BY DEF GoInv, TypeOK
<1>1. \E r : op' = [op EXCEPT ![p] = r]
  BY DEF Work, Lookup, File, AskForLock, WriteIndex, Load, Save, Continues, Conflict, EndList, EndGet
<1>2. ASSUME op[p].at # "idle", op' = [op EXCEPT ![p] = Idle] PROVE Fewer
  <2>1. StepsLeft(op[p]) >= 1 /\ StepsLeft(op[p]) \in 0 .. 6
    BY <1>0, <1>2, StepsCounted DEF Free, Idle
  <2>2. op'[p] = Idle
    BY <1>0, <1>2
  <2> QED
    BY <2>1, <2>2, NothingLeftIdle
<1>3. ASSUME Lookup(p) PROVE Fewer
  <2>1. op[p].at = "lookup" /\ op[p] \in Filing
    BY <1>0, <1>3, ShapeOfRequest DEF Lookup
  <2>2. StepsLeft(op[p]) = 6
    BY <2>1 DEF StepsLeft
  <2>3. CASE index[op[p].key] = Null
    <3>1. op'[p] = [op[p] EXCEPT !.at = "file"]
      BY <1>0, <1>3, <2>3 DEF Lookup
    <3>2. op'[p].at = "file"
      BY <2>1, <3>1 DEF Filing
    <3>3. StepsLeft(op'[p]) = 5
      BY <3>2 DEF StepsLeft
    <3> QED
      BY <2>2, <3>3
  <2>4. CASE index[op[p].key] # Null
    <3>1. op'[p].at = "load" /\ op'[p].cmd.do = "reset"
      BY <1>0, <1>3, <2>4 DEF Lookup, Handle
    <3>2. StepsLeft(op'[p]) = 4
      BY <3>1 DEF StepsLeft
    <3> QED
      BY <2>2, <3>2
  <2> QED
    BY <2>3, <2>4
<1>4. ASSUME NEW c \in Ids, File(p, c) PROVE Fewer
  <2>1. op[p].at = "file" /\ op'[p].at = "index"
    BY <1>0, <1>4 DEF File
  <2>2. StepsLeft(op[p]) = 5 /\ StepsLeft(op'[p]) = 4
    BY <2>1 DEF StepsLeft
  <2> QED
    BY <2>2
<1>5. ASSUME AskForLock(p) PROVE Fewer
  <2>1. op[p].at = "index" /\ op[p] \in Indexing
    BY <1>0, <1>5, ShapeOfRequest DEF AskForLock
  <2>2. op'[p] = [op[p] EXCEPT !.at = "locking"]
    BY <1>0, <1>5 DEF AskForLock
  <2>3. op'[p].at = "locking"
    BY <2>1, <2>2 DEF Indexing
  <2>4. StepsLeft(op[p]) = 4 /\ StepsLeft(op'[p]) = 3
    BY <2>1, <2>3 DEF StepsLeft
  <2> QED
    BY <2>4
<1>6. ASSUME NEW c, NEW cmd, cmd.do \in {"review", "decide"}, op' = [op EXCEPT ![p] = Handle(c, cmd)]
      PROVE  StepsLeft(op'[p]) = 2
  <2>1. op'[p] = Handle(c, cmd)
    BY <1>0, <1>6
  <2> QED
    BY <1>6, <2>1, ProcessingLeft
<1>7. \A claimed, verified, sampled : ProcessCommand(claimed, verified, sampled).do \in {"review", "decide"}
  BY DEF ProcessCommand
<1>8. ASSUME WriteIndex(p) PROVE Fewer
  <2>1. StepsLeft(op[p]) = 3
    BY <1>8 DEF WriteIndex, StepsLeft
  <2>2. StepsLeft(op'[p]) = 2
    <3>1. PICK sampled \in BOOLEAN :
            op' = [op EXCEPT ![p] =
                     Handle(op[p].id, ProcessCommand(op[p].claimed, op[p].verified, sampled))]
      BY <1>8 DEF WriteIndex
    <3> DEFINE cmd == ProcessCommand(op[p].claimed, op[p].verified, sampled)
    <3>2. cmd.do \in {"review", "decide"} /\ op' = [op EXCEPT ![p] = Handle(op[p].id, cmd)]
      BY <1>7, <3>1
    <3>3. op'[p] = Handle(op[p].id, cmd)
      BY <1>0, <3>2
    <3> HIDE DEF cmd
    <3>4. StepsLeft(Handle(op[p].id, cmd)) = 2
      BY <3>2, ProcessingLeft
    <3> QED
      BY <3>3, <3>4
  <2> QED
    BY <2>1, <2>2
<1>9. ASSUME Load(p) PROVE Fewer
  <2>1. op[p].at = "load" /\ op[p] \in Handling
    BY <1>0, <1>9, ShapeOfRequest DEF Load
  <2>2. CASE Accepts(store[op[p].id], op[p].cmd)
    <3>1. op'[p] = [op[p] EXCEPT !.at = "save", !.base = store[op[p].id].version]
      BY <1>0, <1>9, <2>2 DEF Load
    <3>2. op'[p].at = "save" /\ op'[p].cmd = op[p].cmd
      BY <2>1, <3>1 DEF Handling
    <3>3. CASE op[p].cmd.do = "reset"
      <4>1. StepsLeft(op[p]) = 4 /\ StepsLeft(op'[p]) = 3
        BY <2>1, <3>2, <3>3 DEF StepsLeft
      <4> QED
        BY <4>1
    <3>4. CASE op[p].cmd.do # "reset"
      <4>1. StepsLeft(op[p]) = 2 /\ StepsLeft(op'[p]) = 1
        BY <2>1, <3>2, <3>4 DEF StepsLeft
      <4> QED
        BY <4>1
    <3> QED
      BY <3>3, <3>4
  <2>3. CASE ~Accepts(store[op[p].id], op[p].cmd)
    BY <1>2, <1>9, <2>1, <2>3 DEF Load
  <2> QED
    BY <2>2, <2>3
<1>10. ASSUME Save(p) PROVE Fewer
  <2>1. op[p].at = "save" /\ Continues(p, op[p].id, op[p].cmd)
    BY <1>10 DEF Save
  <2>2. CASE op[p].cmd.do = "reset"
    <3>1. StepsLeft(op'[p]) = 2
      BY <1>6, <1>7, <2>1, <2>2 DEF Continues
    <3>2. StepsLeft(op[p]) = 3
      BY <2>1, <2>2 DEF StepsLeft
    <3> QED
      BY <3>1, <3>2
  <2>3. CASE op[p].cmd.do # "reset"
    BY <1>2, <2>1, <2>3 DEF Continues
  <2> QED
    BY <2>2, <2>3
<1>11. ASSUME Conflict(p) \/ EndList(p) \/ EndGet(p) PROVE Fewer
  BY <1>2, <1>11 DEF Conflict, EndList, EndGet
<1>12. \A q \in Procs : q # p => op'[q] = op[q]
  BY <1>0, <1>1
<1> QED
  BY <1>3, <1>4, <1>5, <1>8, <1>9, <1>10, <1>11, <1>12 DEF Work

LEMMA WorkDoesNotGet ==
  ASSUME GoInv, NEW p \in Procs, Work(p)
  PROVE  op'[p].at # "getting"
<1>0. TypeOK /\ op \in [Procs -> {Idle} \cup Filing \cup Indexing \cup Handling \cup Reading]
  BY DEF GoInv, TypeOK
<1>1. CASE Lookup(p)
  <2>1. op[p] \in Filing
    BY <1>0, <1>1, ShapeOfRequest DEF Lookup
  <2> QED
    BY <1>0, <1>1, <2>1 DEF Lookup, Handle, Filing
<1>2. CASE AskForLock(p)
  <2>1. op[p] \in Indexing
    BY <1>0, <1>2, ShapeOfRequest DEF AskForLock
  <2> QED
    BY <1>0, <1>2, <2>1 DEF AskForLock, Indexing
<1>3. CASE Load(p)
  <2>1. op[p] \in Handling
    BY <1>0, <1>3, ShapeOfRequest DEF Load
  <2> QED
    BY <1>0, <1>3, <2>1 DEF Load, Handling, Idle
<1>4. CASE (\E c \in Ids : File(p, c)) \/ WriteIndex(p)
  BY <1>0, <1>4 DEF File, WriteIndex, Handle
<1>5. CASE Save(p)
  BY <1>0, <1>5 DEF Save, Continues, Handle, Idle
<1>6. CASE Conflict(p) \/ EndList(p) \/ EndGet(p)
  BY <1>0, <1>6 DEF Conflict, EndList, EndGet, Idle
<1> QED
  BY <1>1, <1>2, <1>3, <1>4, <1>5, <1>6 DEF Work

\* A request is answered after at most six steps of its own, whatever the others do: the
\* command handler reports a lost race of versions and tries nothing again.
THEOREM GoNothingRetried == Spec => [](\A p \in Procs : StepsLeft(op[p]) \in 0 .. 6) /\ NothingRetried
<1>1. GoInv => \A p \in Procs : StepsLeft(op[p]) \in 0 .. 6
  BY StepsCounted DEF GoInv
<1>2. ASSUME GoInv, Next, NEW p \in Procs, ~Free(p), op'[p] # op[p]
      PROVE  StepsLeft(op'[p]) < StepsLeft(op[p])
  <2>1. op \in [Procs -> {Idle} \cup Filing \cup Indexing \cup Handling \cup Reading]
    BY <1>2 DEF GoInv, TypeOK
  <2>2. CASE Project
    BY <1>2, <2>2 DEF Project
  <2>3. ASSUME NEW q \in Procs, Request(q) PROVE FALSE
    <3>1. Free(q) /\ \A r \in Procs : r # q => op'[r] = op[r]
      BY <2>1, <2>3 DEF Request, BeginSubmit, BeginReview, BeginObjection, BeginClaim,
           BeginList, BeginGet
    <3> QED
      BY <1>2, <3>1
  <2>4. ASSUME NEW q \in Procs, Work(q) PROVE StepsLeft(op'[p]) < StepsLeft(op[p])
    BY <1>2, <2>4, WorkEnds
  <2> QED
    BY <1>2, <2>2, <2>3, <2>4 DEF Next
<1>3. GoInv /\ [Next]_vars =>
        [\A p \in Procs : ~Free(p) /\ op'[p] # op[p] => StepsLeft(op'[p]) < StepsLeft(op[p])]_vars
  BY <1>2
<1> QED
  BY <1>1, <1>3, GoInvariantHolds, PTL DEF Spec, NothingRetried

LEMMA WaitingExplained == TypeOK => OnlyGetBlocks
<1> SUFFICES ASSUME TypeOK, UnderWay # {}, ~ \E p, q \in Procs : op[p].at = "getting" /\ op[q].at = "locking"
             PROVE  \E p \in UnderWay : NotKeptWaiting(p)
  BY DEF OnlyGetBlocks, SomeGoesOn
<1>1. \A p \in Procs : op[p].at # "idle" => p \in UnderWay
  BY ShapeOfRequest DEF UnderWay, Free, Idle
<1>2. CASE \E p \in Procs : op[p].at = "listing"
  BY <1>1, <1>2 DEF NotKeptWaiting
<1>3. CASE (\A p \in Procs : op[p].at # "listing") /\ \E p \in Procs : op[p].at = "locking"
  BY <1>1, <1>3 DEF NotKeptWaiting, MayWrite
<1>4. CASE \A p \in Procs : op[p].at # "locking"
  BY <1>4 DEF NotKeptWaiting, MayRead, UnderWay
<1> QED
  BY <1>2, <1>3, <1>4

\* The requests keep each other waiting for ever in one way only: GetCase, which asks for the
\* read lock it holds, and a filing that waits to write the index.
THEOREM GoWaitingExplained == Spec => []OnlyGetBlocks
<1>1. GoInv => OnlyGetBlocks
  BY WaitingExplained DEF GoInv
<1> QED
  BY <1>1, GoInvariantHolds, PTL

\* Without calls of GetCase some request under way can always go on.
THEOREM GoNoDeadlock ==
  ASSUME ~Gets
  PROVE  Spec => []SomeGoesOn
<1> DEFINE NobodyGets == \A p \in Procs : op[p].at # "getting"
<1>1. Init => NobodyGets
  BY DEF Init, Idle
<1>2. GoInv /\ NobodyGets /\ [Next]_vars => NobodyGets'
  <2> SUFFICES ASSUME GoInv, NobodyGets, [Next]_vars, NEW p \in Procs, op'[p].at = "getting"
               PROVE  FALSE
    OBVIOUS
  <2>1. op'[p] # op[p]
    OBVIOUS
  <2>2. op \in [Procs -> {Idle} \cup Filing \cup Indexing \cup Handling \cup Reading]
    BY DEF GoInv, TypeOK
  <2>3. GoInv'
    BY GoNext
  <2>4. PICK q \in Procs : Request(q) \/ Work(q)
    BY <2>1 DEF Next, vars, Project
  <2>5. CASE Request(q)
    <3>1. ~ BeginGet(q)
      BY DEF BeginGet
    <3>2. PICK r : op' = [op EXCEPT ![q] = r] /\ r.at # "getting"
      BY <2>5, <3>1 DEF Request, BeginSubmit, BeginReview, BeginObjection, BeginClaim, BeginList, Handle
    <3>3. p # q => op'[p] = op[p]
      BY <2>2, <3>2
    <3>4. op'[q] = r
      BY <2>2, <3>2
    <3> QED
      BY <2>1, <3>2, <3>3, <3>4
  <2>6. CASE Work(q)
    <3>1. p = q
      BY <2>1, <2>6, WorkEnds
    <3> QED
      BY <2>1, <2>6, <3>1, WorkDoesNotGet
  <2> QED
    BY <2>4, <2>5, <2>6
<1>3. GoInv /\ NobodyGets => SomeGoesOn
  BY WaitingExplained DEF GoInv, OnlyGetBlocks
<1> QED
  BY <1>1, <1>2, <1>3, GoInvariantHolds, PTL DEF Spec
=============================================================================
