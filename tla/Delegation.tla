---------------------------- MODULE Delegation ----------------------------
(***************************************************************************)
(* For whom a person may act, and what they may do for themselves           *)
(* (DelegationManager of src/machine/delegation/manager.py).  Nothing is    *)
(* stored: every question evaluates all delegation laws again, so each      *)
(* operation is a function of what the laws answer.                         *)
(*                                                                          *)
(* A name is reduced to its rank among names, a list of permissions to the  *)
(* set of them.  The laws come out of a Python set, in any order.  Dates    *)
(* are left out: the manager compares none.                                 *)
(***************************************************************************)
EXTENDS Naturals, Sequences

CONSTANTS
  Subjects,     \* persons and businesses
  Permissions,  \* permission_order: the permissions the manager knows
  Reading,      \* LEZEN, the one of them that nobody loses
  Mezelf,       \* the rank of that name among all names
  Nobody        \* a null among the subject_ids of a law; no delegation

VARIABLE
  answers       \* what the delegation laws answer to the question at hand, in turn

\* A row of the lists that a delegation law answers.
Row == [subject : Subjects \cup {Nobody}, self : BOOLEAN,
        name : Nat, permissions : SUBSET Permissions]

\* A law's rows, and how many of them are read before one of the lists turns out to
\* be too short; none if the evaluation itself raises or there are no delegations.
Answer == [rows : Seq(Row), read : Nat]

ASSUME DelegationAssumption ==
  /\ Reading \in Permissions
  /\ Nobody \notin Subjects
  /\ Mezelf \in Nat

-----------------------------------------------------------------------------
(* Mistakes: none of these is part of the specification                     *)

\* The last row that can be read is left out.
ReadButLast(answer) ==
  {i \in 1..Len(answer.rows) : i < answer.read /\ answer.rows[i].subject # Nobody}

\* By name only.
BeforeByName(d, e) == d.name < e.name

\* A person may do what any of the laws allows.
AnyLawAllows(own) ==
  {p \in Permissions : \E q \in own : p \in answers[q[1]].rows[q[2]].permissions}

-----------------------------------------------------------------------------
(* The operations                                                           *)

\* _evaluate_delegation_law: the rows read before an exception are kept.
evaluate_delegation_law(answer) ==
  {i \in 1..Len(answer.rows) : i <= answer.read /\ answer.rows[i].subject # Nobody}

\* Where the delegations are: the law, and its row.
Places == UNION {{n} \X evaluate_delegation_law(answers[n]) : n \in DOMAIN answers}

RowAt(q) == answers[q[1]].rows[q[2]]

Own == {q \in Places : RowAt(q).self}

Earlier(q, r) == q[1] < r[1] \/ (q[1] = r[1] /\ q[2] < r[2])
First(places) == CHOOSE q \in places : \A r \in places \ {q} : Earlier(q, r)

\* The permissions that every law leaves to the first; one that names none does not
\* count, unless it is the first.
Intersection(own) ==
  {p \in RowAt(First(own)).permissions :
     \A q \in own : q = First(own) \/ RowAt(q).permissions = {} \/ p \in RowAt(q).permissions}

Restricted(permissions) == IF permissions = {} THEN {Reading} ELSE permissions

\* The SELF delegations of all laws, as one.
MergedSelf ==
  [subject |-> RowAt(First(Own)).subject, self |-> TRUE, name |-> Mezelf,
   permissions |-> Restricted(Intersection(Own))]

\* The place of the merged delegation, before all others.
Front == <<0, 0>>

\* By place, that is before they are sorted.
get_delegations_for_user ==
  [q \in (IF Own = {} THEN {} ELSE {Front}) \cup (Places \ Own) |->
     IF q = Front THEN MergedSelf ELSE RowAt(q)]

\* What the delegations are sorted by: oneself first, then by name.
Before(d, e) == (d.self /\ ~e.self) \/ (d.self = e.self /\ d.name < e.name)

can_act_on_behalf(s) ==
  LET ds == get_delegations_for_user IN \E q \in DOMAIN ds : ds[q].subject = s

\* The first delegation for s in the sorted list; the sort is stable.
get_delegation_context(s) ==
  LET ds   == get_delegations_for_user
      forS == {q \in DOMAIN ds : ds[q].subject = s}
  IN IF forS = {} THEN Nobody
     ELSE ds[CHOOSE q \in forS : \A r \in forS \ {q} :
               Before(ds[q], ds[r]) \/ (~Before(ds[r], ds[q]) /\ Earlier(q, r))]

\* The intersection again, of what is at most one delegation by now.
get_user_permissions ==
  LET ds   == get_delegations_for_user
      self == {q \in DOMAIN ds : ds[q].self}
  IN IF self = {} THEN {Reading}
     ELSE Restricted({p \in Permissions : \A q \in self : p \in Restricted(ds[q].permissions)})

-----------------------------------------------------------------------------
(* Properties                                                               *)

\* The laws speak of one person, and none of them is silent on permissions: so the
\* laws on minority and incapacity answer.
OfOnePerson ==
  \A q, r \in Own : RowAt(q).subject = RowAt(r).subject
NoneSilent == \A q \in Own : RowAt(q).permissions # {}

\* "Most restrictive wins": a permission is left exactly if every law grants it, in
\* whatever order the laws are taken, if none is silent.  In any case no law that
\* grants something is exceeded, but for reading.
MostRestrictiveWins ==
  /\ NoneSilent =>
       get_user_permissions =
         IF Own = {} THEN {Reading}
         ELSE Restricted({p \in Permissions : \A q \in Own : p \in RowAt(q).permissions})
  /\ \A q \in Own :
       RowAt(q).permissions # {} => get_user_permissions \subseteq RowAt(q).permissions \cup {Reading}

\* Whoever switches to themselves may do what they may without switching.
OwnContextAgrees ==
  OfOnePerson =>
    \A q \in Own : get_delegation_context(RowAt(q).subject).permissions = get_user_permissions

\* All rows of the law were read: neither its evaluation nor one of its lists raised.
ReadToTheEnd(answer) == answer.read >= Len(answer.rows)
Names(answer, s) == \E i \in 1..Len(answer.rows) : answer.rows[i].subject = s

\* A person may act for everybody named by a law that was read to the end, whichever
\* other laws raise, before it or after it, and for nobody that no law names: neither
\* merging nor a law that raises half way adds or drops anybody else.  (Whom a law names
\* that raises half way is left open: "log and return empty list" says the comment where
\* the exception is caught, but the rows read before it are kept.)
RepresentsWhomLawsName ==
  OfOnePerson =>
    \A s \in Subjects :
      /\ \A n \in DOMAIN answers :
           ReadToTheEnd(answers[n]) /\ Names(answers[n], s) => can_act_on_behalf(s)
      /\ can_act_on_behalf(s) => \E n \in DOMAIN answers : Names(answers[n], s)
=============================================================================
