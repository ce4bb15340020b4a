---------------------------- MODULE MC_Research -----------------------------
(***************************************************************************)
(* The instance of Research for TLC: two updates of one symbol, candles of *)
(* two clock units, one network error; six bars and trades of one bar; two *)
(* folds of one to three rows, frames of up to fourteen rows in Phase 1,   *)
(* of any of fourteen candles in Phase 2.                                  *)
(***************************************************************************)
EXTENDS Research, TLC

\* Two trades fit, so that the second is bought with what the first left.  A
\* price is 1 or 3, so that a trade can win, lose or stand still; nothing is
\* filled at bar 0.
Walks == {m \in [0..5 -> {1, 3}] : m[0] = 1}

\* Far enough apart that a trade labelled 1 loses money under the dearest.
Costs == << [fee |-> <<1, 4>>, execution |-> <<0, 1>>],
            [fee |-> <<1, 4>>, execution |-> <<1, 7>>],
            [fee |-> <<1, 4>>, execution |-> <<1, 3>>] >>

Eighth == <<1, 8>>

\* Trades of one candle make a purge of two, and blocks of one to three rows lie
\* on both sides of it.
Retained == 0..13

Symmetry == Permutations(Procs)
=============================================================================
