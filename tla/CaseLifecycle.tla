--------------------------- MODULE CaseLifecycle ---------------------------
(***************************************************************************)
(* What the case manager promises the parties to a case, without saying    *)
(* how: in which phases a case can be found between two operations, who    *)
(* decides it, and which decisions may follow each other.  The Python case *)
(* manager (module CaseManager) implements it.                             *)
(***************************************************************************)

CONSTANT Ids            \* identifiers of cases

VARIABLES phase,        \* where each case stands
          verdict,      \* what was last decided about it, if anything
          decider       \* who took that decision

avars == <<phase, verdict, decider>>

Phases   == {"absent", "review", "decided", "objected"}
Verdicts == {"undecided", "approved", "rejected"}
Outcomes == {"approved", "rejected"}

AInit == /\ phase   = [c \in Ids |-> "absent"]
         /\ verdict = [c \in Ids |-> "undecided"]
         /\ decider = [c \in Ids |-> "nobody"]

Becomes(c, p, v, d) == /\ phase'   = [phase   EXCEPT ![c] = p]
                       /\ verdict' = [verdict EXCEPT ![c] = v]
                       /\ decider' = [decider EXCEPT ![c] = d]

\* The machine decides, and it does so only on a case nobody has seen before.
DecideOnFiling(c, v) == /\ phase[c] = "absent"
                        /\ Becomes(c, "decided", v, "machine")

\* Filed for the first time, or filed again in whatever phase it was.  The
\* earlier decision, if any, is withdrawn.
SendToReview(c) == Becomes(c, "review", "undecided", "nobody")

\* An officer rules on a case under review or on an objection.
Rule(c, v) == /\ phase[c] \in {"review", "objected"}
              /\ Becomes(c, "decided", v, "officer")

\* The contested decision stands while the objection is open.
Contest(c) == /\ phase[c] = "decided"
              /\ Becomes(c, "objected", verdict[c], decider[c])

ANext == \E c \in Ids :
           \/ \E v \in Outcomes : DecideOnFiling(c, v) \/ Rule(c, v)
           \/ SendToReview(c)
           \/ Contest(c)

ASpec == AInit /\ [][ANext]_avars
=============================================================================
