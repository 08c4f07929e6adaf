--------------------------- MODULE MCFindingReview ---------------------------
EXTENDS FindingReview, TLC

\* A plannable state of the inputs, another, and one outside the scope.
MCFacts == {[text |-> 1, scoped |-> TRUE, plannable |-> TRUE],
            [text |-> 2, scoped |-> FALSE, plannable |-> FALSE]}

\* Nothing answered, everything established, and what was decisive failed.
All(x) == [q \in Questions |-> x]
MCAssessments ==
    {All("missing"), All("wanted"), [All("wanted") EXCEPT !["decisive"] = "unwanted"]}

Symmetric == Permutations(Invariants)
=============================================================================
