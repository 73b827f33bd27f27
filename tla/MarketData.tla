----------------------------- MODULE MarketData -----------------------------
(***************************************************************************)
(* assemble_dataset: candles exported from the broker become rows of       *)
(* features and a label.  A candle is named by the time it opens and is    *)
(* known when it closes; a row is decided on when its candle closes.       *)
(*                                                                         *)
(* A time unit is one base candle; a unit without a candle is a closed     *)
(* market.  Of the features those with a memory or a delay are kept (the   *)
(* confirmed swings, breaks of structure and their bias, the channel       *)
(* breakout, the higher timeframe), of the labels the barriers.            *)
(***************************************************************************)
EXTENDS Integers, Sequences, FiniteSetsExt

CONSTANTS
  Shapes,          (* candles: [high, low, close]                          *)
  Higher,          (* base candles in a candle of the higher timeframe     *)
  Left, Right,     (* left_bars, right_bars of a swing                     *)
  Channel,         (* period of the channel breakout                       *)
  Barriers,        (* LabelDefinition                                      *)
  Warmup,          (* RowPolicy: rows dropped in front                     *)
  Nan,             (* a value that is not available                        *)
  MaxCandles, MaxPause     (* bounds of the search: candles, closed units  *)

Collisions == {"OPTIMISTIC", "PESSIMISTIC", "AMBIGUOUS"}

ASSUME FeatureAssumption ==
  /\ Higher \in Nat \ {0} /\ Left \in Nat \ {0} /\ Right \in Nat \ {0}
  /\ Channel \in Nat \ {0} /\ Warmup \in Nat
  /\ Shapes \subseteq [high : Int, low : Int, close : Int]
  /\ Barriers \in [horizon : Nat \ {0}, upper : Nat \ {0}, lower : Nat \ {0},
                   side : {"LONG", "SHORT"}, collision : Collisions]

VARIABLES
  history,   (* the candles completed so far                               *)
  dataset    (* what was built, and up to which data_available_at          *)

marketVars == <<history, dataset>>

NoDataset == [cutoff |-> 0]

-----------------------------------------------------------------------------
(* The broker's own aggregation, a candle still forming included: a set,   *)
(* each candle of a higher timeframe known by its open.                    *)
Windows(base) == {base[i].open \div Higher : i \in DOMAIN base}

HigherFrame(base) ==
  LET within(w) == {i \in DOMAIN base : base[i].open \div Higher = w}
  IN {[open |-> w * Higher, close |-> base[Max(within(w))].close] : w \in Windows(base)}

(* _completed_source_frames: candles come in the order of time, so those   *)
(* that had closed are the ones up to the last that had.                   *)
Completed(frame, cutoff) ==
  SubSeq(frame, 1, Max({0} \cup {n \in DOMAIN frame : frame[n].open + 1 <= cutoff}))

CompletedHigher(higher, cutoff) == {candle \in higher : candle.open + Higher <= cutoff}

(* synchronize_completed_bars: the last higher candle that had closed when *)
(* the base candle opened.                                                 *)
Latest(candles) ==
  IF candles = {} THEN Nan
  ELSE (CHOOSE c \in candles : \A d \in candles : d.open <= c.open).close

SynchronizedMutant(higher, opened) == Latest({candle \in higher : candle.open <= opened})

Synchronized(higher, opened) == Latest(CompletedHigher(higher, opened))

-----------------------------------------------------------------------------
(* market_structure_features: a swing is told Right candles after it was.  *)
Highs(frame) == [n \in DOMAIN frame |-> frame[n].high]
Lows(frame)  == [n \in DOMAIN frame |-> -frame[n].low]

SwingAt(series, n) ==
  LET pivot == n - Right
  IN IF n > Left + Right /\ \A k \in (pivot - Left)..(pivot + Right) : series[k] <= series[pivot]
     THEN series[pivot] ELSE Nan

(* The level of the last swing told: resistance, or support by its         *)
(* negative.                                                               *)
Level(series, n) ==
  LET told == {k \in 1..n : SwingAt(series, k) # Nan}
  IN IF told = {} THEN Nan ELSE SwingAt(series, Max(told))

Closes(frame) == [n \in DOMAIN frame |-> frame[n].close]
Falls(frame)  == [n \in DOMAIN frame |-> -frame[n].close]

(* A break: this close is beyond the level known before, the last was not. *)
Breaks(series, close, n) ==
  LET level == IF n = 1 THEN Nan ELSE Level(series, n - 1)
  IN IF level = Nan THEN Nan
     ELSE IF close[n] > level /\ close[n - 1] <= level THEN 1 ELSE 0

BreaksUp(frame, n) == Breaks(Highs(frame), Closes(frame), n)
BreaksDown(frame, n) == Breaks(Lows(frame), Falls(frame), n)

(* The way of the last break; both at once is a break up.                  *)
Bias(frame, upto) ==
  LET broken == {k \in 1..upto : 1 \in {BreaksUp(frame, k), BreaksDown(frame, k)}}
  IN IF broken = {} THEN 0
     ELSE IF BreaksUp(frame, Max(broken)) = 1 THEN 1 ELSE -1

(* breakout_features: the close against the channel of the candles before. *)
Above(series, close, n) ==
  IF n <= Channel THEN Nan
  ELSE IF close[n] > Max({series[k] : k \in (n - Channel)..(n - 1)}) THEN 1 ELSE 0

FailedBreak(series, close, n) ==
  IF n <= Channel THEN Nan
  ELSE IF Above(series, close, n - 1) = 1 /\ Above(series, close, n) = 0 THEN 1 ELSE 0

Features(frame, higher, n) ==
  [context    |-> Synchronized(higher, frame[n].open),
   resistance |-> Level(Highs(frame), n),
   support    |-> Level(Lows(frame), n),
   up         |-> BreaksUp(frame, n),
   down       |-> BreaksDown(frame, n),
   turnedUp   |-> n > 1 /\ BreaksUp(frame, n) = 1 /\ Bias(frame, n - 1) = -1,
   turnedDown |-> n > 1 /\ BreaksDown(frame, n) = 1 /\ Bias(frame, n - 1) = 1,
   bias       |-> IF {BreaksUp(frame, n), BreaksDown(frame, n)} = {Nan} THEN Nan
                  ELSE Bias(frame, n),
   above      |-> Above(Highs(frame), Closes(frame), n),
   failedUp   |-> FailedBreak(Highs(frame), Closes(frame), n)]

-----------------------------------------------------------------------------
(* triple_barrier_labels: the first candle to touch a barrier.             *)
NoLabel == [target |-> "NONE", bars |-> 0]

Touches(frame, n, d, k) ==
  [up   |-> frame[n + k].high >= frame[n].close + d.upper,
   down |-> frame[n + k].low <= frame[n].close - d.lower]

(* _collision_outcome, without candles of a lower timeframe.               *)
Collision(d) ==
  CASE d.collision = "OPTIMISTIC"  -> IF d.side = "LONG" THEN "UPPER_FIRST" ELSE "LOWER_FIRST"
    [] d.collision = "PESSIMISTIC" -> IF d.side = "LONG" THEN "LOWER_FIRST" ELSE "UPPER_FIRST"
    [] OTHER -> "AMBIGUOUS"

Outcome(touch, d) ==
  CASE touch.up /\ touch.down  -> Collision(d)
    [] touch.up /\ ~touch.down -> "UPPER_FIRST"
    [] OTHER -> "LOWER_FIRST"

TradeOutcome(outcome, d) ==
  CASE outcome = (IF d.side = "LONG" THEN "UPPER_FIRST" ELSE "LOWER_FIRST") -> "TP_FIRST"
    [] outcome = (IF d.side = "LONG" THEN "LOWER_FIRST" ELSE "UPPER_FIRST") -> "SL_FIRST"
    [] OTHER -> outcome

(* path_excursions: how far it went the trade's way before that.           *)
Favorable(frame, n, d, bars) ==
  IF d.side = "LONG"
  THEN Max({frame[n + k].high : k \in 1..bars}) - frame[n].close
  ELSE frame[n].close - Min({frame[n + k].low : k \in 1..bars})

LabelAt(frame, n, d) ==
  LET touched == {k \in 1..d.horizon : LET t == Touches(frame, n, d, k) IN t.up \/ t.down}
      bars    == IF touched = {} THEN d.horizon ELSE Min(touched)
      outcome == IF touched = {} THEN "TIMEOUT" ELSE Outcome(Touches(frame, n, d, bars), d)
  IN IF n + d.horizon > Len(frame) THEN NoLabel
     ELSE [target |-> TradeOutcome(outcome, d), bars |-> bars,
           mfe |-> Favorable(frame, n, d, bars)]

-----------------------------------------------------------------------------
(* assemble_dataset: features and labels on the completed candles, less    *)
(* the warm-up in front, the rows whose resistance is missing (a critical  *)
(* feature) and those without a label.  A row is known by its time.        *)
Assemble(exported, cutoff) ==
  LET frame   == Completed(exported, cutoff)
      higher  == CompletedHigher(HigherFrame(exported), cutoff)
      row(n)  == [decided |-> frame[n].open + 1,
                  features |-> Features(frame, higher, n), label |-> LabelAt(frame, n, Barriers)]
      kept(r) == r.features.resistance # Nan /\ r.label # NoLabel
  IN {r \in {row(n) : n \in (Warmup + 1)..Len(frame)} : kept(r)}

Now == IF history = <<>> THEN 0 ELSE history[Len(history)].open + 1

Candle(shape, opened) ==
  [open |-> opened, high |-> shape.high, low |-> shape.low, close |-> shape.close]

MarketInit == history = <<>> /\ dataset = NoDataset

Trade ==
  /\ Len(history) < MaxCandles
  /\ \E shape \in Shapes, pause \in 0..(MaxPause + Len(history) - Now) :
       history' = Append(history, Candle(shape, Now + pause))
  /\ UNCHANGED dataset

(* An export may end in a candle that is still forming.                    *)
Build ==
  /\ dataset = NoDataset
  /\ \E cutoff \in 1..Now, forming \in Shapes :
       LET rows == Assemble(Append(history, Candle(forming, Now)), cutoff)
       IN rows # {} /\ dataset' = [cutoff |-> cutoff, rows |-> rows]
  /\ UNCHANGED history

MarketNext == Trade \/ Build

MarketSpec == MarketInit /\ [][MarketNext]_marketVars

-----------------------------------------------------------------------------
(* A dataset is a function of its cutoff: built again from a later export, *)
(* with more candles and the forming one grown up, it is row for row the   *)
(* same (docs: content-addressed, data_available_at).                      *)
Reproducible ==
  dataset # NoDataset => dataset.rows = Assemble(history, dataset.cutoff)

(* What a row says about its market was known when the row was decided on: *)
(* its features are those of the candles that had closed by then.          *)
NoLookAhead ==
  dataset # NoDataset =>
    \A row \in dataset.rows :
      LET known == Completed(history, row.decided)
      IN row.features
           = Features(known, CompletedHigher(HigherFrame(known), row.decided), Len(known))

(* Long and short are mirror images: turn the prices and the trade round   *)
(* and the label is the same, collisions included.                         *)
Turned(frame) ==
  [n \in DOMAIN frame |-> [open |-> frame[n].open, high |-> -frame[n].low,
                           low |-> -frame[n].high, close |-> -frame[n].close]]

Opposite(d) ==
  [d EXCEPT !.side = IF @ = "LONG" THEN "SHORT" ELSE "LONG", !.upper = d.lower, !.lower = d.upper]

LongAndShortMirror ==
  \A n \in DOMAIN history, collision \in Collisions :
    LET d == [Barriers EXCEPT !.collision = collision]
    IN LabelAt(history, n, d) = LabelAt(Turned(history), n, Opposite(d))
=============================================================================
