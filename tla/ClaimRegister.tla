--------------------------- MODULE ClaimRegister ---------------------------
(***************************************************************************)
(* What a claim manager promises to the evaluation of laws: for each datum  *)
(* of each citizen at most one claim, the one filed last, with the verdict  *)
(* on that filing.                                                          *)
(***************************************************************************)
CONSTANTS Slots,    \* a citizen's datum under a law: (bsn, service, law, key)
          Values, Null

VARIABLE claim      \* claim[s]: the value claimed last and what became of it

Status == {"PENDING", "APPROVED", "REJECTED"}

Init == claim = [s \in Slots |-> Null]

\* Filing replaces whatever was claimed, and may be approved at once.
File(s, v) == \E status \in {"PENDING", "APPROVED"} :
  claim' = [claim EXCEPT ![s] = [value |-> v, status |-> status]]

\* A verdict leaves the value alone; it may be given again and revised.
Judge(s) ==
  /\ claim[s] # Null
  /\ \E status \in {"APPROVED", "REJECTED"} :
       claim' = [claim EXCEPT ![s] = [value |-> claim[s].value, status |-> status]]

Next == \E s \in Slots : Judge(s) \/ \E v \in Values : File(s, v)

Spec == Init /\ [][Next]_claim
=============================================================================
