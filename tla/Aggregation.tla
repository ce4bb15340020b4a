----------------------------- MODULE Aggregation -----------------------------
(***************************************************************************)
(* Point-in-time rows (sentiment/aggregation.py) over the states that the  *)
(* normalizer publishes: for a decision instant, the groups that arrived   *)
(* in the windows before it and the score of each one's title at the time. *)
(***************************************************************************)
EXTENDS GSGNormalizer

CONSTANTS
    Windows,        \* the shorter windows (1 and 6 hours)
    Window,         \* the longest window (24 hours)
    Decisions,      \* the instants of the grid
    Scores          \* the score of each title: a number, "low" or "failed"

\* What the constants must be.
AggregationAssumption ==
    /\ Window \in Nat \ {0}
    /\ Windows \subseteq 1..Window
    /\ Decisions \subseteq Nat

\* Mutant of Covers: the minute of the decision itself may be missing.
Covers_before(s, t) ==
    s.facts # <<>> /\ t - Window >= 0 /\ Len(s.facts) * Length >= t

\* The terminal facts reach from the window's beginning to the minute at t.
Covers(s, t) ==
    s.facts # <<>> /\ t - Window >= 0 /\ Len(s.facts) * Length > t

InGap(s, t) ==
    \E m \in DOMAIN s.facts :
        /\ s.facts[m].state # "complete"
        /\ (m - 1) * Length <= t
        /\ m * Length > t - Window

Selected(s, t) == {g \in DOMAIN s.groups : s.groups[g].first \in t - Window + 1 .. t}

\* The anchor's title at t.
TitleAt(s, g, t) ==
    LET seen == {k \in DOMAIN s.versions : k[1] = g /\ s.versions[k].first <= t}
    IN  (CHOOSE k \in seen : \A j \in seen : s.versions[j].first <= s.versions[k].first)[2]

ScoreAt(s, g, t) == Scores[TitleAt(s, g, t)]

\* _aggregate_rows and _window_metrics: the counts of each window, and what the
\* means, shares and recency weights are computed of.  A row in a gap has no
\* features, but its diagnostics all the same: how many scores failed of how many
\* (which the code leaves out for the shortest window), and how many were low.
Row(s, t) ==
    LET selected         == Selected(s, t)
        Age(g)           == t - s.groups[g].first
        Of(w)            == {g \in selected : Age(g) < w}
        Number(S, score) == Cardinality({g \in S : ScoreAt(s, g, t) = score})
        features         ==
            [counts |-> [w \in Windows |-> Cardinality(Of(w))],
             scores |-> [g \in selected |-> <<Age(g), ScoreAt(s, g, t)>>],
             latest |-> IF selected = {} THEN Window
                        ELSE CHOOSE a \in {Age(g) : g \in selected} :
                                 \A g \in selected : a <= Age(g)]
    IN  [gap      |-> InGap(s, t),
         features |-> IF InGap(s, t) THEN {} ELSE {features},
         failed   |-> [w \in Windows \cup {Window} |->
                          <<Number(Of(w), "failed"), Cardinality(Of(w))>>],
         low      |-> Number(selected, "low")]

-----------------------------------------------------------------------------
\* A decision never looks into its future: once a published state covers it, no
\* later plan, revision, duplicate or restart changes its row.
RowsStand ==
    [][\A t \in Decisions : Covers(published, t) => Row(published', t) = Row(published, t)]_vars
=============================================================================
