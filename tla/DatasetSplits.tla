--------------------------- MODULE DatasetSplits ----------------------------
(***************************************************************************)
(* chronological_split, walk_forward_splits, development_split_manifest:   *)
(* which rows of a dataset train, validate and judge.  A row's label reads *)
(* the candles up to its horizon, so the rows in front of a boundary are   *)
(* purged.  A split is the set of its row positions; fractions are tenths. *)
(*                                                                         *)
(* A policy w is [horizon, purge, embargo] with [train, validation] (the   *)
(* fractions) or [mode, train, validation, oos, step, folds] (lengths).    *)
(***************************************************************************)
EXTENDS Integers

(* effective_purge                                                         *)
PurgeMutant(w) == w.purge

Purge(w) == IF w.purge > w.horizon THEN w.purge ELSE w.horizon

Fold(from, train, validation, stop, w) ==
  [train      |-> from..(train - Purge(w) - 1),
   validation |-> (train + w.embargo)..(validation - Purge(w) - 1),
   oos        |-> (validation + w.embargo)..(stop - 1)]

(* An empty split is refused.                                              *)
Accepted(folds) ==
  /\ folds # {}
  /\ \A fold \in folds : {} \notin {fold.train, fold.validation, fold.oos}

Chronological(rows, w) ==
  {Fold(0, (rows * w.train) \div 10, (rows * (w.train + w.validation)) \div 10, rows, w)}

WalkForward(rows, w) ==
  LET starts == {k \in 0..rows : w.train + k * w.step + w.validation + w.oos <= rows}
      fold(k) == LET stop == w.train + k * w.step
                 IN Fold(IF w.mode = "EXPANDING" THEN 0 ELSE stop - w.train,
                         stop, stop + w.validation, stop + w.validation + w.oos, w)
  IN [k \in starts |-> fold(k)]

(* Judged before the rows kept for the end, by the first folds only; the   *)
(* refusal looks at every fold.                                            *)
DevelopmentFolds(finalStart, w) ==
  LET folds == WalkForward(finalStart, w)
      all   == {folds[k] : k \in DOMAIN folds}
  IN IF ~Accepted(all) THEN {}
     ELSE {folds[k] : k \in {j \in DOMAIN folds : w.folds = 0 \/ j < w.folds}}

ChronologicalFolds(rows, w) ==
  IF Accepted(Chronological(rows, w)) THEN Chronological(rows, w) ELSE {}

-----------------------------------------------------------------------------
(* bars[i] is the candle of row i: rows were dropped in between.  The      *)
(* label of an earlier row has been decided before the first candle of a   *)
(* later split's row.                                                      *)
Apart(earlier, later, bars, horizon) ==
  \A i \in earlier, j \in later : bars[i] + horizon < bars[j]

LabelsApart(folds, bars, horizon) ==
  \A fold \in folds :
    /\ Apart(fold.train, fold.validation, bars, horizon)
    /\ Apart(fold.train, fold.oos, bars, horizon)
    /\ Apart(fold.validation, fold.oos, bars, horizon)

=============================================================================
