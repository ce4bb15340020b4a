---------------------------- MODULE PurgedSplits ----------------------------
(***************************************************************************)
(* The holdout split and the purged walk-forward folds of Phase 1          *)
(* (modeling/splits.py, modeling/train.py) and the shared folds of Phase 2 *)
(* (phase2/experiments.py).  Phase 1 counts its gaps in rows of a frame    *)
(* without holes; Phase 2 keeps the ordinals the rows had in the market,   *)
(* where decisions are missing, and purges ordinals.                       *)
(*                                                                         *)
(* A row is its ordinal: its features are known at its close, its label    *)
(* when the candle Horizon + 1 later opens.  What a model learns from its  *)
(* rows is left out; a fit is the rows learnt from and the rows scored.    *)
(***************************************************************************)
EXTENDS Integers, Sequences, FiniteSets, FiniteSetsExt

CONSTANTS
    Ordinals,       \* the market candles a decision may be kept at
    Horizon,
    Folds,          \* N_WALK_FORWARD_SPLITS, FOLD_COUNT
    HoldoutShare,   \* FINAL_HOLDOUT_RATIO is 1 / HoldoutShare
    TestShare,      \* WALK_FORWARD_TEST_RATIO is 1 / TestShare
    TestRows        \* the sizes a Phase 2 request may ask for

\* What the constants must be.
SplitsAssumption ==
    /\ Ordinals \subseteq Nat /\ IsFiniteSet(Ordinals)
    /\ {Horizon, Folds, HoldoutShare, TestShare} \subseteq Nat \ {0}
    /\ TestRows \subseteq Nat \ {0}

Lookahead == Horizon + 1    \* LABEL_LOOKAHEAD_ROWS, PURGE_GAP_ROWS, PURGE_ROWS

VARIABLES
    phase,
    rows,       \* the retained ordinals, in order
    size,       \* the rows of a validation block
    dev,        \* how many rows are development; the rest is purge and holdout
    held,       \* the position the holdout starts at, past the end in Phase 2
    folds,      \* the folds planned: the positions learnt from and scored
    fits,       \* what was fitted and scored, as ordinals
    status

vars == <<phase, rows, size, dev, held, folds, fits, status>>

Exit(o) == o + Horizon + 1      \* the open that decides the label of row o

InOrder(set) ==
    [i \in 1..Cardinality(set) |-> CHOOSE o \in set : Cardinality({p \in set : p < o}) = i - 1]

Positions(a, b) == a..(b - 1)                   \* half open, as the code slices
At(positions)   == {rows[i + 1] : i \in positions}

TypeOK ==
    /\ phase \in {1, 2}
    /\ \A i \in 1..(Len(rows) - 1) : rows[i] < rows[i + 1]
    /\ dev \in 0..Len(rows) /\ held \in dev..Len(rows)
    /\ Len(folds) <= Folds /\ Len(fits) <= Folds + 1
    /\ status \in {"new", "split", "planned", "scored", "done", "refused"}

-----------------------------------------------------------------------------
Init ==
    /\ \/ /\ phase = 1      \* a validated frame has no hole
          /\ \E n \in 1..Cardinality(Ordinals) : rows = [i \in 1..n |-> i - 1]
          /\ size = 0
       \/ /\ phase = 2
          /\ \E set \in (SUBSET Ordinals) \ {{}} : rows = InOrder(set)
          /\ size \in TestRows
    /\ dev = 0 /\ held = Len(rows)
    /\ folds = <<>> /\ fits = <<>>
    /\ status = "new"

Refuse ==
    /\ status' = "refused"
    /\ UNCHANGED <<phase, rows, size, dev, held, folds, fits>>

\* max(1, ceil(n * ratio))
HoldoutStart == Len(rows) - Max({1, (Len(rows) + HoldoutShare - 1) \div HoldoutShare})

\* split_development_holdout and the size of a block, from create_split_plan.
SplitHoldout ==
    /\ phase = 1 /\ status = "new"
    /\ LET purge == HoldoutStart - Lookahead
       IN IF purge <= 0 \/ Exit(rows[purge]) >= rows[HoldoutStart + 1]
          THEN Refuse
          ELSE /\ dev' = purge /\ held' = HoldoutStart
               /\ size' = Max({1, purge \div TestShare})
               /\ status' = "split"
               /\ UNCHANGED <<phase, rows, folds, fits>>

\* shared_folds takes every retained row as development.
TakeAll ==
    /\ phase = 2 /\ status = "new"
    /\ dev' = Len(rows)
    /\ status' = "split"
    /\ UNCHANGED <<phase, rows, size, held, folds, fits>>

\* The blocks are the last rows of development.
FirstBlock == dev - Folds * size

BlockStart == FirstBlock + Len(folds) * size
Validation == Positions(BlockStart, BlockStart + size)

\* A purge that counts the gap from the last row it learns from.
TrainingRows_gapShort ==
    IF phase = 1 THEN Positions(0, BlockStart - Horizon)
    ELSE {i \in Positions(0, dev) : rows[i + 1] < rows[BlockStart + 1] - Horizon}

\* The rows a fold learns from: Phase 1 leaves the last rows before the block
\* out, Phase 2 every row within so many candles of it.
TrainingRows ==
    IF phase = 1 THEN Positions(0, BlockStart - Lookahead)
    ELSE {i \in Positions(0, dev) : rows[i + 1] < rows[BlockStart + 1] - Lookahead}

\* What the code refuses of a fold: nothing to learn from, a history that did
\* not grow (Phase 2), a label that is decided at or after the block opens.
FoldRefused ==
    \/ TrainingRows = {}
    \/ phase = 1 /\ FirstBlock - Lookahead <= 0
    \/ phase = 2 /\ folds # <<>>
         /\ Cardinality(TrainingRows) <= Cardinality(folds[Len(folds)].training)
    \/ \E i \in TrainingRows : Exit(rows[i + 1]) >= rows[BlockStart + 1]

\* One turn of walk_forward_splits and of shared_folds.
PlanFold ==
    /\ status = "split" /\ Len(folds) < Folds
    /\ IF FirstBlock <= 0 \/ FoldRefused
       THEN Refuse
       ELSE /\ folds' = Append(folds, [training |-> TrainingRows, validation |-> Validation])
            /\ status' = IF Len(folds') = Folds THEN "planned" ELSE "split"
            /\ UNCHANGED <<phase, rows, size, dev, held, fits>>

\* A fit on the whole development frame instead of the rows of the fold.
Learnt_allDevelopment(fold) == At(Positions(0, dev))

Learnt(fold) == At(fold.training)

\* _evaluate_with_factory and _build: every fold fits a fresh model.
ScoreFold ==
    /\ status = "planned" /\ Len(fits) < Folds
    /\ LET fold == folds[Len(fits) + 1]
       IN fits' = Append(fits, [learnt |-> Learnt(fold), scored |-> At(fold.validation)])
    /\ status' = IF Len(fits') < Folds THEN "planned" ELSE IF phase = 1 THEN "scored" ELSE "done"
    /\ UNCHANGED <<phase, rows, size, dev, held, folds>>

\* train_evaluation_model learns from development and scores the holdout.
ScoreHoldout ==
    /\ status = "scored"
    /\ fits' = Append(fits, [learnt |-> At(Positions(0, dev)),
                             scored |-> At(Positions(held, Len(rows)))])
    /\ status' = "done"
    /\ UNCHANGED <<phase, rows, size, dev, held, folds>>

Next == SplitHoldout \/ TakeAll \/ PlanFold \/ ScoreFold \/ ScoreHoldout

Spec == Init /\ [][Next]_vars

-----------------------------------------------------------------------------
\* Too few rows for what is asked, whatever the purge.
TooFew ==
    IF phase = 1
    THEN \/ dev = 0 /\ HoldoutStart <= Lookahead
         \/ dev # 0 /\ dev - Folds * size <= Lookahead
    ELSE \/ Len(rows) <= Folds * size
         \/ rows[1] >= rows[Len(rows) - Folds * size + 1] - Lookahead

\* A split is refused for want of rows, or in Phase 2 for a block no longer
\* than the purge, which may add nothing to learn from; never because its
\* purge lets a label into the block it is to predict, wherever the decisions
\* are missing (modeling/splits.py:227-235, phase2/experiments.py:269-275).
PurgeSuffices ==
    status = "refused" => TooFew \/ (phase = 2 /\ size <= Lookahead)

\* No model has learnt from a label that the market decides at or after the
\* open of a row it scores, in any fold and on the holdout
\* (modeling/train.py:87-116, phase2/experiments.py:508-528).
NothingFromTheFuture ==
    \A i \in DOMAIN fits : \A o \in fits[i].learnt, p \in fits[i].scored : Exit(o) < p

=============================================================================
