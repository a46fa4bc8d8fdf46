----------------------------- MODULE CaseClaims -----------------------------
(***************************************************************************)
(* What the text of the law bezwaar, as the repository's YAML quotes it,   *)
(* says of objection, and the case manager does not do: refuted by a run.  *)
(***************************************************************************)
EXTENDS CaseManager

AtRest(c) == Idle /\ ~LawsMayFail /\ c \in Stored

\* "Artikel 7:1 lid 1 Awb bepaalt dat tegen een besluit bezwaar kan worden
\* gemaakt": a rejection nobody objected to since the case was filed (again)
\* can be objected to.  The law counts the Objected events of all filings.
FreshRejectionIsContestable ==
  \A c \in Ids :
    AtRest(c) /\ IsContestable(cases[c]) /\ RejectedNow(cases[c])
      /\ cases[c].objected # "this_filing" => CanObject(cases[c])
=============================================================================
