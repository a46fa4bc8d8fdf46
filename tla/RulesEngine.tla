---------------------------- MODULE RulesEngine ----------------------------
(***************************************************************************)
(* One evaluation of a law by the Python rules engine (RulesEngine.evaluate *)
(* of src/machine/engine.py): the requirements, the set of actions that a   *)
(* requested output needs, their topological sort, and the actions one by   *)
(* one, until one of them lacks a required value.                           *)
(*                                                                          *)
(* An action computes one output.  It may refer to another output by name   *)
(* ("$x"), or to a field of one ("$x.kvk_nummer").  What a value is worth   *)
(* is abstracted to one bit: whether every output it was computed from was  *)
(* there, itself computed from what it refers to.                           *)
(***************************************************************************)
EXTENDS Naturals, Sequences, FiniteSets

CONSTANTS
  Outputs,    \* the outputs of the law; each has one action
  Declared,   \* the order in which the law lists its actions
  Laws,       \* the laws considered, see Law
  None        \* no output is requested: the whole law is evaluated

\* Of a law: which outputs an action refers to by name, of which it refers to a
\* field, and which actions lack a required value (of a source or a parameter).
Law == [reads  : [Outputs -> SUBSET Outputs],
        fields : [Outputs -> SUBSET Outputs],
        lacks  : SUBSET Outputs]

ASSUME LawsAssumption ==
  /\ Laws \subseteq Law
  /\ None \notin Outputs
  /\ IsFiniteSet(Outputs)

ASSUME DeclaredAssumption ==
  /\ Declared \in Seq(Outputs)
  /\ \A i, j \in 1..Len(Declared) : Declared[i] = Declared[j] => i = j

VARIABLES
  law,        \* the law evaluated (never changes)
  request,    \* the output asked for, or None (never changes)
  pc,         \* where the evaluation is
  todo,       \* to_process: names still to be followed
  required,   \* required: names found so far
  deps,       \* complete_dependencies, which the sort empties
  ready,      \* ready: names with no dependency left
  sorted,     \* sorted_outputs; without a request the actions as declared
  at,         \* how many of sorted have been run or passed over
  values,     \* context.outputs: for each computed output, whether complete
  missing     \* context.missing_required

vars == <<law, request, pc, todo, required, deps, ready, sorted, at, values, missing>>

-----------------------------------------------------------------------------
(* Dependencies                                                             *)

\* analyze_dependencies collects the lower-case names behind "$": "x" for an
\* output, and "x.kvk_nummer", which is the name of no action, for a field of it.
Output(x) == [of |-> x, field |-> FALSE]
Field(x)  == [of |-> x, field |-> TRUE]
Name      == [of : Outputs, field : BOOLEAN]

analyze_dependencies(o) == {Output(x) : x \in law.reads[o]} \cup {Field(x) : x \in law.fields[o]}

\* dependencies.get(output, set()): a name without an action depends on nothing.
DependenciesOf(n) == IF n.field THEN {} ELSE analyze_dependencies(n.of)

\* Any lost dependency frees a name, not only the last.
ReleasedEarly(n) == {m \in DOMAIN deps : n \in deps[m]}

\* The dependents that lose their last dependency when n is sorted.
Released(n) == {m \in DOMAIN deps : deps[m] = {n}}

\* Whether everything that the action of o refers to is there and complete.
IsComplete(o) == \A x \in law.reads[o] \cup law.fields[o] : x \in DOMAIN values /\ values[x]

-----------------------------------------------------------------------------
(* Mistakes: none of these is part of the specification                     *)

\* A name is left in the list when it is sorted.
SortNodeAgain(n) ==
  /\ pc = "sort" /\ n \in ready
  /\ sorted' = Append(sorted, n)
  /\ deps' = [m \in DOMAIN deps |-> deps[m] \ {n}]
  /\ ready' = ready \cup Released(n)
  /\ UNCHANGED <<law, request, pc, todo, required, at, values, missing>>

\* Only direct dependencies are found.
FollowOnce(n) ==
  /\ pc = "close" /\ n \in todo
  /\ required' = required \cup {n}
  /\ todo' = (todo \ {n}) \cup (IF n = Output(request) THEN DependenciesOf(n) \ required' ELSE {})
  /\ UNCHANGED <<law, request, pc, deps, ready, sorted, at, values, missing>>

\* Names that were already found are followed again.
FollowForEver(n) ==
  /\ pc = "close" /\ n \in todo
  /\ required' = required \cup {n}
  /\ todo' = (todo \ {n}) \cup DependenciesOf(n)
  /\ UNCHANGED <<law, request, pc, deps, ready, sorted, at, values, missing>>

\* Dependencies left over are not looked for.
EndSortBlindly ==
  /\ pc = "sort" /\ ready = {}
  /\ pc' = "run"
  /\ UNCHANGED <<law, request, todo, required, deps, ready, sorted, at, values, missing>>

\* The sort starts from every name, not only those without dependencies.
BeginSortAnywhere ==
  /\ pc = "close" /\ todo = {}
  /\ pc' = "sort"
  /\ deps' = [n \in required |-> DependenciesOf(n)]
  /\ ready' = required
  /\ UNCHANGED <<law, request, todo, required, sorted, at, values, missing>>

\* A missing value ends the loop but what was computed is returned.
RunActionKeeping ==
  /\ pc = "run" /\ at < Len(sorted) /\ ~ sorted[at + 1].field
  /\ missing' = (missing \/ sorted[at + 1].of \in law.lacks)
  /\ pc' = IF missing' THEN "done" ELSE pc
  /\ values' = IF missing' THEN values
               ELSE [x \in DOMAIN values \cup {sorted[at + 1].of} |->
                      IF x = sorted[at + 1].of THEN IsComplete(x) ELSE values[x]]
  /\ at' = at + 1
  /\ UNCHANGED <<law, request, todo, required, deps, ready, sorted>>

-----------------------------------------------------------------------------
(* The evaluation                                                           *)

Init ==
  /\ law \in Laws
  /\ request \in Outputs \cup {None}
  /\ pc = "requirements"
  /\ todo = {} /\ required = {} /\ ready = {}
  /\ deps = [n \in {} |-> {}]
  /\ sorted = <<>> /\ at = 0
  /\ values = [o \in {} |-> TRUE]
  /\ missing = FALSE

\* Required parameters are resolved, then the requirements; either may find that a
\* required value is missing.  Requirements that are not met end the evaluation
\* before the actions are even ordered; get_required_actions returns the actions as
\* declared when no output is requested.
CheckRequirements ==
  /\ pc = "requirements"
  /\ missing' \in BOOLEAN
  /\ \/ /\ pc' = "done"
        /\ UNCHANGED <<todo, sorted>>
     \/ /\ request = None
        /\ pc' = "run"
        /\ sorted' = [i \in 1..Len(Declared) |-> Output(Declared[i])]
        /\ UNCHANGED todo
     \/ /\ request # None
        /\ pc' = "close"
        /\ todo' = {Output(request)}
        /\ UNCHANGED sorted
  /\ UNCHANGED <<law, request, required, deps, ready, at, values>>

\* One turn of the loop that finds the required outputs; set.pop takes any member.
Follow(n) ==
  /\ pc = "close"
  /\ n \in todo
  /\ required' = required \cup {n}
  /\ todo' = (todo \ {n}) \cup (DependenciesOf(n) \ required')
  /\ UNCHANGED <<law, request, pc, deps, ready, sorted, at, values, missing>>

\* topological_sort: the dependencies of every node, leaves included.
BeginSort ==
  /\ pc = "close"
  /\ todo = {}
  /\ pc' = "sort"
  /\ deps' = [n \in required |-> DependenciesOf(n)]
  /\ ready' = {n \in required : DependenciesOf(n) = {}}
  /\ UNCHANGED <<law, request, todo, required, sorted, at, values, missing>>

\* One turn of its loop.  The code keeps a list and serves it from the front, but in
\* what order names enter the list depends on the iteration of sets.
SortNode(n) ==
  /\ pc = "sort"
  /\ n \in ready
  /\ sorted' = Append(sorted, n)
  /\ deps' = [m \in DOMAIN deps |-> deps[m] \ {n}]
  /\ ready' = (ready \ {n}) \cup Released(n)
  /\ UNCHANGED <<law, request, pc, todo, required, at, values, missing>>

\* Dependencies that are left over mean a circle, and the evaluation raises.
EndSort ==
  /\ pc = "sort"
  /\ ready = {}
  /\ pc' = IF \E n \in DOMAIN deps : deps[n] # {} THEN "raised" ELSE "run"
  /\ UNCHANGED <<law, request, todo, required, deps, ready, sorted, at, values, missing>>

\* A name that is no action's output is passed over.
PassOver ==
  /\ pc = "run"
  /\ at < Len(sorted)
  /\ sorted[at + 1].field
  /\ at' = at + 1
  /\ UNCHANGED <<law, request, pc, todo, required, deps, ready, sorted, values, missing>>

\* The next action.  An output that is not in context.outputs resolves to None.  A
\* missing required value ends the loop and empties the result.
RunAction ==
  /\ pc = "run"
  /\ at < Len(sorted)
  /\ ~ sorted[at + 1].field
  /\ LET o == sorted[at + 1].of
     IN  /\ missing' = (missing \/ o \in law.lacks)
         /\ IF missing'
            THEN values' = [x \in {} |-> TRUE] /\ pc' = "done"
            ELSE values' = [x \in DOMAIN values \cup {o} |-> IF x = o THEN IsComplete(o) ELSE values[x]]
                 /\ pc' = pc
  /\ at' = at + 1
  /\ UNCHANGED <<law, request, todo, required, deps, ready, sorted>>

Finish ==
  /\ pc = "run"
  /\ at = Len(sorted)
  /\ pc' = "done"
  /\ UNCHANGED <<law, request, todo, required, deps, ready, sorted, at, values, missing>>

Next ==
  \/ CheckRequirements
  \/ \E n \in todo : Follow(n)
  \/ BeginSort
  \/ \E n \in ready : SortNode(n)
  \/ EndSort
  \/ PassOver
  \/ RunAction
  \/ Finish

\* The evaluation is one call on one thread: it goes on until it returns or raises.
Spec == Init /\ [][Next]_vars /\ WF_vars(Next)
-----------------------------------------------------------------------------
(* Properties                                                               *)

SortedNames == {sorted[i] : i \in 1..Len(sorted)}

\* The type of every variable; a name is sorted once.
TypeOK ==
  /\ law \in Laws
  /\ request \in Outputs \cup {None}
  /\ pc \in {"requirements", "close", "sort", "run", "raised", "done"}
  /\ todo \subseteq Name /\ required \subseteq Name
  /\ deps \in [DOMAIN deps -> SUBSET Name] /\ DOMAIN deps \subseteq required
  /\ ready \subseteq DOMAIN deps
  /\ sorted \in Seq(Name)
  /\ \A i, j \in 1..Len(sorted) : sorted[i] = sorted[j] => i = j
  /\ at \in 0..Len(sorted)
  /\ values \in [DOMAIN values -> BOOLEAN] /\ DOMAIN values \subseteq Outputs
  /\ missing \in BOOLEAN

\* Names that include what each of them depends on.
Closed(D) == \A n \in D : DependenciesOf(n) \subseteq D

\* Names each of which depends on another of them: none can be the first.
Circle(C) == C # {} /\ \A n \in C : DependenciesOf(n) \cap C # {}

\* get_required_actions finds what the request depends on, directly or not, and
\* nothing else, whatever member set.pop takes: the names found are closed when the
\* search ends, and in every closed set that holds the request.
RequiredExactly ==
  request # None =>
    /\ pc \in {"sort", "run", "raised"} => Output(request) \in required /\ Closed(required)
    /\ \A D \in SUBSET Name : Output(request) \in D /\ Closed(D) => required \subseteq D

\* "Returns outputs in order they should be calculated": topological_sort puts every
\* name after all that it depends on by name.
OrderRespected ==
  request # None =>
    \A i \in 1..Len(sorted) : \A m \in DependenciesOf(sorted[i]) : \E j \in 1..(i - 1) : sorted[j] = m

\* "Circular dependency detected" is raised exactly if there is a circle among what
\* is required; a circle elsewhere in the law does no harm, and nothing is left out.
RaisesExactlyOnCircles ==
  request # None =>
    /\ pc = "raised" => \E C \in SUBSET required : Circle(C)
    /\ pc = "run" => /\ \A C \in SUBSET required : ~ Circle(C)
                     /\ SortedNames = required

\* The outputs that the names of S stand for.
OutputsOf(S) == {n.of : n \in {m \in S : ~ m.field}}

\* A missing value half way empties the result: the caller gets every output that
\* was to be computed or none of them, never those before the gap.
AllOrNothing ==
  pc = "done" => \/ DOMAIN values = {}
                 \/ DOMAIN values = OutputsOf(SortedNames)

\* The law lists every action after those that it refers to in any way.
DeclaredInOrder ==
  \A i \in 1..Len(Declared) : \A x \in law.reads[Declared[i]] \cup law.fields[Declared[i]] :
    \E j \in 1..(i - 1) : Declared[j] = x

\* What is required refers to other outputs by name only.
RefersByName == \A n \in required : ~ n.field

\* No action is computed from an output that is still to come: not if the outputs are
\* sorted and refer to each other by name only, nor if they are run as declared, in order.
ComputedFromComplete ==
  (IF request = None THEN DeclaredInOrder ELSE RefersByName) => \A o \in DOMAIN values : values[o]

\* Every evaluation returns or raises, circles of dependencies included.
Termination == <>(pc \in {"done", "raised"})

\* get_required_actions says it returns "all actions needed to compute requested
\* output in dependency order": then asking a well-ordered law for one output gives
\* what evaluating the whole law would, a value computed from complete ones.
RequestedIsComplete ==
  DeclaredInOrder /\ request \in DOMAIN values => values[request]

\* The strengthening that makes the properties inductive.  The search: what was found
\* leads only to what was found or is still to be followed, and to nothing that is not
\* needed.
SearchInv ==
  /\ pc = "requirements" => todo = {} /\ required = {} /\ sorted = <<>>
  /\ todo \cap required = {}
  /\ request # None =>
       /\ \A D \in SUBSET Name : Output(request) \in D /\ Closed(D) => required \cup todo \subseteq D
       /\ \A n \in required : DependenciesOf(n) \subseteq required \cup todo
       /\ pc \in {"close", "sort", "run", "raised"} => Output(request) \in required \cup todo
       /\ pc \in {"sort", "run", "raised"} => todo = {}

\* The sort: a dependency set holds what is not sorted yet, and no name that is on a
\* circle is ever sorted.
SortInv ==
  request # None =>
    /\ pc = "close" => sorted = <<>>
    /\ pc \in {"sort", "run", "raised"} =>
         /\ DOMAIN deps = required
         /\ \A n \in required : deps[n] = DependenciesOf(n) \ SortedNames
    /\ pc = "sort" => ready = {n \in required : deps[n] = {} /\ n \notin SortedNames}
    /\ SortedNames \subseteq required
    /\ OrderRespected
    /\ \A C \in SUBSET required : Circle(C) => C \cap SortedNames = {}
    /\ RaisesExactlyOnCircles

\* The actions: values are those of the actions run so far.
RunInv ==
  /\ request = None =>
       /\ pc \in {"requirements", "run", "done"}
       /\ pc = "run" => sorted = [i \in 1..Len(Declared) |-> Output(Declared[i])]
  /\ pc = "run" => DOMAIN values = OutputsOf({sorted[j] : j \in 1..at})
  /\ pc \notin {"run", "done"} => at = 0 /\ DOMAIN values = {}
  /\ AllOrNothing
  /\ ComputedFromComplete

EngineInv == TypeOK /\ SearchInv /\ SortInv /\ RunInv

\* How many steps an evaluation takes at most from here: every name is found once, sorted
\* once and run once, and there is a step from each of these to the next.
NamesLeft(done) == Cardinality(Name) - done
StepsLeft ==
  CASE pc = "requirements" -> 3 * Cardinality(Name) + Len(Declared) + 4
    [] pc = "close" -> NamesLeft(Cardinality(required)) + 2 * Cardinality(Name) + 3
    [] pc = "sort"  -> NamesLeft(Len(sorted)) + Cardinality(Name) + 2
    [] pc = "run"   -> Len(sorted) - at + 1
    [] OTHER        -> 0

\* Every step of an evaluation brings its end nearer, whatever circles the law has and in
\* whatever order sets yield their members.
EveryStepCounts == [][StepsLeft' < StepsLeft]_vars
=============================================================================
