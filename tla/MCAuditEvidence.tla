---------------------------- MODULE MCAuditEvidence ----------------------------
(* Two audits of one directory over a window of three bars, and venues that *)
(* serve it, revise it, start late or disagree.                            *)
EXTENDS AuditEvidence, TLC

Walk == <<Validation, "quality", "checksums", "report", "summary", Primary, "manifest", "trace",
          "markdown">>
h(from, price) == [from |-> from, to |-> 3, price |-> price]
Both(x, y) == [v \in Venues |-> IF v = Primary THEN x ELSE y]
Answers == {Both(h(0, 5), h(0, 5)), Both(h(0, 5), h(0, 6)), Both(h(0, 5), h(1, 5)),
            Both(h(0, 5), h(2, 8))}

Symmetry == Permutations(Audits)
=============================================================================
