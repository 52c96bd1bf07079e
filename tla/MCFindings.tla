----------------------------- MODULE MCFindings -----------------------------
(* Small sets for TLC; findings and requests are interchangeable.          *)
EXTENDS Findings, TLC

CONSTANTS a, b, r1, r2, k1

TwoFindings == {a, b}
OneFinding  == {a}
TwoRequests == {r1, r2}
OneKey      == {k1}
OneField    == {"assignee"}
ThreeFields == {"assignee", "note", "evidence"}

Interchangeable == Permutations(TwoFindings) \cup Permutations(TwoRequests)

=============================================================================
