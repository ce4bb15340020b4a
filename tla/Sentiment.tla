------------------------------ MODULE Sentiment ------------------------------
(***************************************************************************)
(* The sentiment store and what is derived from it: objects and            *)
(* publications, and the normalizer's states with the rows over them.  The *)
(* normalizer takes what is published, so a behaviour exercises one of the *)
(* two, named by `part`, and the other stays as it began.                  *)
(***************************************************************************)
EXTENDS ContentStore

CONSTANTS
    Minutes, Length, Lag, Horizon, Precision, MaxPlan,      \* of GSGNormalizer
    Responses, MaxSnapshots, MaxClock,
    Windows, Window, Decisions, Scores                      \* of Aggregation

VARIABLES
    part,
    clock, archive, norm, state     \* Aggregation

rowsVars == <<clock, archive, norm, state>>

Rows == INSTANCE Aggregation WITH published <- state

ASSUME SentimentAssumption == Rows!NormalizerAssumption /\ Rows!AggregationAssumption

-----------------------------------------------------------------------------
SentimentInit ==
    /\ part \in {"store", "rows"}
    /\ Init /\ Rows!Init

SentimentNext ==
    \/ part = "store" /\ Next      /\ UNCHANGED <<part, rowsVars>>
    \/ part = "rows"  /\ Rows!Next /\ UNCHANGED <<part, vars>>

SentimentSpec == SentimentInit /\ [][SentimentNext]_<<part, vars, rowsVars>>

-----------------------------------------------------------------------------
\* GSGNormalizer: a state is what its facts replay to, their texts in order ...
ReplayInOrder == Rows!ReplayInOrder

\* ... or whatever their times.
ReplayReproduces == Rows!ReplayReproduces

\* GSGNormalizer: nothing is available before its first sighting.
FirstSeenIsEarliest == Rows!FirstSeenIsEarliest

\* Aggregation: a decision's row never changes once it is covered.
RowsStand == Rows!RowsStand
=============================================================================
