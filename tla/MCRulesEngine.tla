--------------------------- MODULE MCRulesEngine ---------------------------
(***************************************************************************)
(* Values of the constants of RulesEngine for TLC, and of Delegation.  The  *)
(* latter is a function of what evaluations answer and takes no step of its *)
(* own: a behaviour is an evaluation of some law, or one of a plain law     *)
(* next to answers of the delegation laws, which do not change.             *)
(***************************************************************************)
EXTENDS RulesEngine, Delegation, FiniteSets

CONSTANTS a, b, c, me, other, reading, filing

Three == {a, b, c}
InTurn == <<a, b, c>>

Singles == {{}} \cup {{x} : x \in Outputs}

Any(S) == [Outputs -> SUBSET S]
References(f) == UNION {{<<x, y>> : y \in f[x]} : x \in Outputs}

\* Every graph of references by name, circles included, with at most one reference
\* to a field; and every graph with one action that lacks a value.
AllLaws ==
  {l \in [reads : Any(Outputs), fields : [Outputs -> Singles], lacks : Singles] :
     /\ Cardinality(References(l.fields)) <= 1
     /\ l.fields = [x \in Outputs |-> {}] \/ l.lacks = {}}

\* Two laws about the person, each of which may answer nothing, and one about whom
\* the person represents, which may name the person as well, or nobody, and of which
\* a row may be unreadable; taken in three of their orders.
RowOf(s, own, n, grants) == [subject |-> s, self |-> own, name |-> n, permissions |-> grants]
All(rows)    == [rows |-> rows, read |-> Len(rows)]
OwnAnswers   == {All(<<>>)} \cup {All(<<RowOf(me, TRUE, 1, g)>>) : g \in SUBSET {reading, filing}}
OthersRows   == {RowOf(s, FALSE, n, {reading}) : s \in {me, other, Nobody}, n \in {0, 2}}
OtherAnswers == [rows : {<<d>> : d \in OthersRows} \cup {<<d, e>> : d, e \in OthersRows}, read : 0..2]
MCEvaluations ==
  UNION {{<<x, y, z>>, <<x, z, y>>, <<z, x, y>>} : x, y \in OwnAnswers, z \in OtherAnswers}

Plain == [reads |-> [x \in Outputs |-> {}], fields |-> [x \in Outputs |-> {}], lacks |-> {}]
MCInit ==
  /\ Init
  /\ \/ answers = <<>>
     \/ law = Plain /\ request = None /\ answers \in MCEvaluations
MCNext == Next /\ UNCHANGED answers
MCSpec == MCInit /\ [][MCNext]_<<vars, answers>> /\ WF_<<vars, answers>>(MCNext)
=============================================================================
